---------------------------- MODULE JobLifecycle ----------------------------
(***************************************************************************)
(* What the monitoring-sync queue promises about its jobs, with no         *)
(* workers, requests, batches, bindings or faults: a job is submitted for  *)
(* an asset that has none in flight, is started, and each start either     *)
(* settles it, or puts it back while attempts remain, or dead-letters it   *)
(* on the last attempt.  SyncQueue is shown to implement this module.      *)
(***************************************************************************)
EXTENDS Integers

CONSTANTS
    Assets,        \* managed assets
    NoAsset,       \* the asset field of a job id nobody has used yet
    JobIds,        \* ids the job table can hand out
    MaxAttempts    \* DEFAULT_MAX_ATTEMPTS

VARIABLE job       \* job[j]: asset, status and number of starts

InflightStatus == {"pending", "running"}

Init == job = [j \in JobIds |-> [asset |-> NoAsset, status |-> "unused", attempt |-> 0]]

\* At most one job of an asset is pending or running.
Submit(j, a) ==
    /\ job[j].status = "unused"
    /\ \A k \in JobIds : job[k].asset = a => job[k].status \notin InflightStatus
    /\ job' = [job EXCEPT ![j] = [asset |-> a, status |-> "pending", attempt |-> 0]]

\* A claim starts a set of pending jobs at once.
Start(S) ==
    /\ S # {}
    /\ \A j \in S : job[j].status = "pending" /\ job[j].attempt < MaxAttempts
    /\ job' = [j \in JobIds |->
                 IF j \in S
                 THEN [asset |-> job[j].asset, status |-> "running",
                       attempt |-> job[j].attempt + 1]
                 ELSE job[j]]

Settle(j, status) ==
    /\ job[j].status = "running"
    /\ job' = [job EXCEPT ![j].status = status]

GiveUp(j) ==
    /\ job[j].attempt = MaxAttempts
    /\ Settle(j, "dead_letter")

Retry(j) ==
    /\ job[j].attempt < MaxAttempts
    /\ Settle(j, "pending")

Next ==
    \/ \E j \in JobIds, a \in Assets : Submit(j, a)
    \/ \E S \in SUBSET JobIds : Start(S)
    \/ \E j \in JobIds, status \in {"success", "skipped"} : Settle(j, status)
    \/ \E j \in JobIds : GiveUp(j)
    \/ \E j \in JobIds : Retry(j)

Spec == Init /\ [][Next]_job
=============================================================================
