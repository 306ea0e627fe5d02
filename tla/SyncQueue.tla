----------------------------- MODULE SyncQueue -----------------------------
(***************************************************************************)
(* The asynchronous CMDB-to-Zabbix provisioning queue.  HTTP handlers      *)
(* enqueue a job for an asset statement by statement, without a            *)
(* transaction; one worker loop per API process claims batches of due jobs *)
(* (one transaction), processes each job in its own task, and records the  *)
(* outcome in three separate writes: job, binding, alert.                  *)
(*                                                                         *)
(* Time is abstract: a pending job is due (run_after <= NOW()) or backing  *)
(* off.  The content of an asset is its revision number, and Zabbix keeps  *)
(* the revision it was last given.                                         *)
(***************************************************************************)
EXTENDS Integers, FiniteSets

CONSTANTS
    Assets, NoAsset,
    JobIds, NoJob,
    Workers,       \* API processes, each with one worker loop
    Requests,      \* HTTP handlers that may run at the same time
    MaxAttempts,   \* DEFAULT_MAX_ATTEMPTS
    BatchSize,     \* MONITORING_SYNC_BATCH_SIZE
    MaxParallel,   \* MONITORING_SYNC_MAX_PARALLEL
    MaxRev,        \* bound: revisions an asset goes through
    MaxFaults      \* bound: crashes, panics and failed writes in a behaviour

ASSUME MaxAttemptsAssumption == MaxAttempts \in Nat \ {0}
ASSUME BatchAssumption == BatchSize \in Nat \ {0} /\ MaxParallel \in Nat \ {0}
ASSUME BoundsAssumption == MaxRev \in Nat /\ MaxFaults \in Nat
ASSUME NullAssumption == NoAsset \notin Assets /\ NoJob \notin JobIds

VARIABLES
    asset,     \* asset[a]: eligible class?, revision (0: not created)
    jobs,      \* cmdb_monitoring_sync_jobs
    binding,   \* binding[a]: last_sync_status of cmdb_monitoring_bindings
    alert,     \* alert[a]: the monitoring-sync alert of a, active when open or
               \* acknowledged
    req,       \* req[r]: local state of handler r
    task,      \* task[w][j]: local state of worker w's task for job j
    zabbix,    \* zabbix[a]: revision the external Zabbix host was given
    faults     \* faults so far

vars == <<asset, jobs, binding, alert, req, task, zabbix, faults>>
-----------------------------------------------------------------------------
(* Types *)

InflightStatus == {"pending", "running"}
SettledStatus == {"success", "skipped", "dead_letter"}
JobStatus == {"unused"} \cup InflightStatus \cup SettledStatus
BindingStatus == {"none", "failed"} \cup InflightStatus \cup SettledStatus
AlertStatus == {"none", "active", "closed_by_user", "closed_by_system"}
Outcome == {"unknown", "success", "skipped", "failed"}

Job == [asset : Assets \cup {NoAsset}, status : JobStatus,
        attempt : 0..MaxAttempts, due : BOOLEAN]
Asset == [eligible : BOOLEAN, rev : 0..MaxRev]
Request == [pc : {"idle", "class", "inflight", "refresh", "insert", "bind"},
            asset : Assets \cup {NoAsset}, job : JobIds \cup {NoJob}]
Task == [pc : {"none", "queued", "provision", "mark", "bind", "alert"},
         attempt : 0..MaxAttempts, outcome : Outcome, rev : 0..MaxRev]

IdleRequest == [pc |-> "idle", asset |-> NoAsset, job |-> NoJob]
NoTask == [pc |-> "none", attempt |-> 0, outcome |-> "unknown", rev |-> 0]

TypeOK ==
    /\ asset \in [Assets -> Asset]
    /\ jobs \in [JobIds -> Job]
    /\ binding \in [Assets -> BindingStatus]
    /\ alert \in [Assets -> AlertStatus]
    /\ req \in [Requests -> Request]
    /\ task \in [Workers -> [JobIds -> Task]]
    /\ zabbix \in [Assets -> 0..MaxRev]
    /\ faults \in 0..MaxFaults

Init ==
    /\ asset = [a \in Assets |-> [eligible |-> FALSE, rev |-> 0]]
    /\ jobs = [j \in JobIds |-> [asset |-> NoAsset, status |-> "unused",
                                 attempt |-> 0, due |-> FALSE]]
    /\ binding = [a \in Assets |-> "none"]
    /\ alert = [a \in Assets |-> "none"]
    /\ req = [r \in Requests |-> IdleRequest]
    /\ task = [w \in Workers |-> [j \in JobIds |-> NoTask]]
    /\ zabbix = [a \in Assets |-> 0]
    /\ faults = 0

Inflight(a) == {j \in JobIds : jobs[j].asset = a /\ jobs[j].status \in InflightStatus}
-----------------------------------------------------------------------------
(* HTTP handlers: create_asset, update_asset and the manual trigger write   *)
(* their own row, then run enqueue_monitoring_sync_job.                     *)

StartEnqueue(r, a) ==
    /\ req[r].pc = "idle"
    /\ req' = [req EXCEPT ![r] = [pc |-> "class", asset |-> a, job |-> NoJob]]

CreateAsset(r, a, eligible) ==
    /\ asset[a].rev = 0
    /\ MaxRev > 0
    /\ asset' = [asset EXCEPT ![a] = [eligible |-> eligible, rev |-> 1]]
    /\ StartEnqueue(r, a)
    /\ UNCHANGED <<jobs, binding, alert, task, zabbix, faults>>

UpdateAsset(r, a, eligible) ==
    /\ asset[a].rev \in 1..(MaxRev - 1)
    /\ asset' = [asset EXCEPT ![a] = [eligible |-> eligible, rev |-> asset[a].rev + 1]]
    /\ StartEnqueue(r, a)
    /\ UNCHANGED <<jobs, binding, alert, task, zabbix, faults>>

TriggerSync(r, a) ==
    /\ StartEnqueue(r, a)
    /\ UNCHANGED <<asset, jobs, binding, alert, task, zabbix, faults>>

\* Unknown asset: NotFound.  Ineligible class: nothing to queue.
EnqueueReadClass(r) ==
    LET row == asset[req[r].asset]
    IN  /\ req[r].pc = "class"
        /\ req' = [req EXCEPT ![r] = IF row.rev > 0 /\ row.eligible
                                     THEN [@ EXCEPT !.pc = "inflight"]
                                     ELSE IdleRequest]
        /\ UNCHANGED <<asset, jobs, binding, alert, task, zabbix, faults>>

\* A pending job will be refreshed, a running one is returned as it is.
EnqueueReadInflight(r) ==
    LET found == Inflight(req[r].asset)
    IN  /\ req[r].pc = "inflight"
        /\ \/ /\ found = {}
              /\ req' = [req EXCEPT ![r].pc = "insert"]
           \/ \E j \in found :
                req' = [req EXCEPT ![r] = IF jobs[j].status = "pending"
                                          THEN [@ EXCEPT !.pc = "refresh", !.job = j]
                                          ELSE IdleRequest]
        /\ UNCHANGED <<asset, jobs, binding, alert, task, zabbix, faults>>

\* Seeded fault: the refresh also puts the job back to pending.
RefreshRequeues(r) ==
    /\ req[r].pc = "refresh"
    /\ jobs' = [jobs EXCEPT ![req[r].job] = [@ EXCEPT !.due = TRUE, !.status = "pending"]]
    /\ req' = [req EXCEPT ![r] = IdleRequest]
    /\ UNCHANGED <<asset, binding, alert, task, zabbix, faults>>

\* The update names the job by id only: its status may have changed since.
EnqueueRefresh(r) ==
    /\ req[r].pc = "refresh"
    /\ jobs' = [jobs EXCEPT ![req[r].job].due = TRUE]
    /\ req' = [req EXCEPT ![r] = IdleRequest]
    /\ UNCHANGED <<asset, binding, alert, task, zabbix, faults>>

\* Seeded fault: no unique index behind the check.
InsertUnindexed(r) ==
    /\ req[r].pc = "insert"
    /\ \E j \in JobIds :
         /\ jobs[j].status = "unused"
         /\ jobs' = [jobs EXCEPT ![j] = [asset |-> req[r].asset, status |-> "pending",
                                         attempt |-> 0, due |-> TRUE]]
    /\ req' = [req EXCEPT ![r].pc = "bind"]
    /\ UNCHANGED <<asset, binding, alert, task, zabbix, faults>>

\* The partial unique index on (asset_id) over pending and running jobs
\* rejects the insert when another handler's came first.
EnqueueInsert(r) ==
    /\ req[r].pc = "insert"
    /\ IF Inflight(req[r].asset) = {}
       THEN \E j \in JobIds :
              /\ jobs[j].status = "unused"
              /\ jobs' = [jobs EXCEPT ![j] = [asset |-> req[r].asset, status |-> "pending",
                                              attempt |-> 0, due |-> TRUE]]
              /\ req' = [req EXCEPT ![r].pc = "bind"]
       ELSE req' = [req EXCEPT ![r] = IdleRequest] /\ UNCHANGED jobs
    /\ UNCHANGED <<asset, binding, alert, task, zabbix, faults>>

EnqueueBind(r) ==
    /\ req[r].pc = "bind"
    /\ binding' = [binding EXCEPT ![req[r].asset] = "pending"]
    /\ req' = [req EXCEPT ![r] = IdleRequest]
    /\ UNCHANGED <<asset, jobs, alert, task, zabbix, faults>>
-----------------------------------------------------------------------------
(* The worker loop *)

Busy(w) == {j \in JobIds : task[w][j].pc # "none"}

\* Seeded faults: jobs that wait for a slot take one; running jobs are due too.
ActiveCountsQueued(w) == Busy(w)
ReadyIncludesRunning == {j \in JobIds : jobs[j].status \in InflightStatus /\ jobs[j].due}

Active(w) == {j \in JobIds : task[w][j].pc \notin {"none", "queued"}}
Ready == {j \in JobIds : jobs[j].status = "pending" /\ jobs[j].due}

\* claim_pending_jobs, one transaction.  SKIP LOCKED lets it take any part of
\* the due jobs; the loop claims again only when the whole batch is finished.
Claim(w) ==
    /\ Busy(w) = {}
    /\ \E S \in SUBSET Ready :
         /\ S # {}
         /\ Cardinality(S) <= BatchSize
         /\ jobs' = [j \in JobIds |->
                       IF j \in S
                       THEN [jobs[j] EXCEPT !.status = "running",
                                            !.attempt = jobs[j].attempt + 1]
                       ELSE jobs[j]]
         /\ binding' = [a \in Assets |->
                          IF \E j \in S : jobs[j].asset = a THEN "running" ELSE binding[a]]
         /\ task' = [task EXCEPT ![w] =
                       [j \in JobIds |->
                          IF j \in S
                          THEN [pc |-> "queued", attempt |-> jobs[j].attempt + 1,
                                outcome |-> "unknown", rev |-> 0]
                          ELSE NoTask]]
    /\ UNCHANGED <<asset, alert, req, zabbix, faults>>

SetTask(w, j, next) == task' = [task EXCEPT ![w][j] = next]

\* Seeded fault: an ineligible asset ends the task with no result.
LoadDropsIneligible(w, j) ==
    LET row == asset[jobs[j].asset]
    IN  /\ task[w][j].pc = "queued"
        /\ SetTask(w, j, IF row.eligible
                         THEN [task[w][j] EXCEPT !.pc = "provision", !.rev = row.rev]
                         ELSE NoTask)
        /\ UNCHANGED <<asset, jobs, binding, alert, req, zabbix, faults>>

\* process_job reads the asset once; an ineligible class is skipped.
LoadAsset(w, j) ==
    LET row == asset[jobs[j].asset]
    IN  /\ task[w][j].pc = "queued"
        /\ Cardinality(Active(w)) < MaxParallel
        /\ SetTask(w, j, IF row.eligible
                         THEN [task[w][j] EXCEPT !.pc = "provision", !.rev = row.rev]
                         ELSE [task[w][j] EXCEPT !.pc = "mark", !.outcome = "skipped"])
        /\ UNCHANGED <<asset, jobs, binding, alert, req, zabbix, faults>>

\* The Zabbix calls.  An error leaves open whether the host was written.
Provision(w, j) ==
    LET given == [zabbix EXCEPT ![jobs[j].asset] = task[w][j].rev]
    IN  /\ task[w][j].pc = "provision"
        /\ \E outcome \in {"success", "failed"} :
             /\ SetTask(w, j, [task[w][j] EXCEPT !.pc = "mark", !.outcome = outcome])
             /\ zabbix' \in IF outcome = "success" THEN {given} ELSE {given, zabbix}
        /\ UNCHANGED <<asset, jobs, binding, alert, req, faults>>

\* The status mark_job_success or mark_job_failure gives the job.
JobAfter(t) ==
    CASE t.outcome # "failed" -> t.outcome
      [] t.outcome = "failed" /\ t.attempt >= MaxAttempts -> "dead_letter"
      [] t.outcome = "failed" /\ t.attempt < MaxAttempts -> "pending"

\* First write: the job, by id only.
MarkJob(w, j) ==
    LET t == task[w][j]
    IN  /\ t.pc = "mark"
        /\ jobs' = [jobs EXCEPT ![j] = [@ EXCEPT !.status = JobAfter(t),
                                                 !.attempt = t.attempt,
                                                 !.due = FALSE]]
        /\ SetTask(w, j, [t EXCEPT !.pc = "bind"])
        /\ UNCHANGED <<asset, binding, alert, req, zabbix, faults>>

\* Seeded fault: every failure shows as a dead letter.
BindingAlwaysDead(w, j) ==
    LET t == task[w][j]
    IN  /\ t.pc = "bind"
        /\ binding' = [binding EXCEPT ![jobs[j].asset] =
                         IF t.outcome = "failed" THEN "dead_letter" ELSE t.outcome]
        /\ SetTask(w, j, [t EXCEPT !.pc = "alert"])
        /\ UNCHANGED <<asset, jobs, alert, req, zabbix, faults>>

\* Second write: the binding.
MarkBinding(w, j) ==
    LET t == task[w][j]
    IN  /\ t.pc = "bind"
        /\ binding' = [binding EXCEPT ![jobs[j].asset] =
                         IF JobAfter(t) = "pending" THEN "failed" ELSE JobAfter(t)]
        /\ SetTask(w, j, [t EXCEPT !.pc = "alert"])
        /\ UNCHANGED <<asset, jobs, alert, req, zabbix, faults>>

\* Seeded fault: a recovery leaves the alert.
AlertAfterNoClose(t, old) == IF t.outcome = "failed" THEN "active" ELSE old

\* Third write: a failure opens or reopens the asset's alert, any other
\* outcome closes it.
AlertAfter(t, old) ==
    CASE t.outcome = "failed" -> "active"
      [] t.outcome # "failed" /\ old = "active" -> "closed_by_system"
      [] t.outcome # "failed" /\ old # "active" -> old

MarkAlert(w, j) ==
    LET a == jobs[j].asset
    IN  /\ task[w][j].pc = "alert"
        /\ alert' = [alert EXCEPT ![a] = AlertAfter(task[w][j], @)]
        /\ SetTask(w, j, NoTask)
        /\ UNCHANGED <<asset, jobs, binding, req, zabbix, faults>>

BackoffElapses(j) ==
    /\ jobs[j].status = "pending"
    /\ ~jobs[j].due
    /\ jobs' = [jobs EXCEPT ![j].due = TRUE]
    /\ UNCHANGED <<asset, binding, alert, req, task, zabbix, faults>>
-----------------------------------------------------------------------------
(* An operator closes the alert through the alert API. *)

CloseAlert(a) ==
    /\ alert[a] = "active"
    /\ alert' = [alert EXCEPT ![a] = "closed_by_user"]
    /\ UNCHANGED <<asset, jobs, binding, req, task, zabbix, faults>>
-----------------------------------------------------------------------------
(* Faults *)

Fault == faults < MaxFaults /\ faults' = faults + 1

\* The client disconnects or a statement fails: the handler ends where it is.
RequestAborts(r) ==
    /\ Fault
    /\ req[r].pc # "idle"
    /\ req' = [req EXCEPT ![r] = IdleRequest]
    /\ UNCHANGED <<asset, jobs, binding, alert, task, zabbix>>

\* A failed mark_* write or a panic ends the task; run_loop only logs it.
TaskAborts(w, j) ==
    /\ Fault
    /\ task[w][j].pc # "none"
    /\ SetTask(w, j, NoTask)
    /\ UNCHANGED <<asset, jobs, binding, alert, req, zabbix>>

\* The API process stops and is started again: nothing looks for the jobs
\* it had claimed.
WorkerRestarts(w) ==
    /\ Fault
    /\ Busy(w) # {}
    /\ task' = [task EXCEPT ![w] = [j \in JobIds |-> NoTask]]
    /\ UNCHANGED <<asset, jobs, binding, alert, req, zabbix>>
-----------------------------------------------------------------------------
EnqueueStep(r) ==
    \/ EnqueueReadClass(r)
    \/ EnqueueReadInflight(r)
    \/ EnqueueRefresh(r)
    \/ EnqueueInsert(r)
    \/ EnqueueBind(r)

TaskStep(w, j) ==
    \/ LoadAsset(w, j)
    \/ Provision(w, j)
    \/ MarkJob(w, j)
    \/ MarkBinding(w, j)
    \/ MarkAlert(w, j)

Next ==
    \/ \E r \in Requests, a \in Assets, eligible \in BOOLEAN :
         CreateAsset(r, a, eligible) \/ UpdateAsset(r, a, eligible)
    \/ \E r \in Requests, a \in Assets : TriggerSync(r, a)
    \/ \E r \in Requests : EnqueueStep(r) \/ RequestAborts(r)
    \/ \E w \in Workers : Claim(w) \/ WorkerRestarts(w)
    \/ \E w \in Workers, j \in JobIds : TaskStep(w, j) \/ TaskAborts(w, j)
    \/ \E j \in JobIds : BackoffElapses(j)
    \/ \E a \in Assets : CloseAlert(a)

Spec == Init /\ [][Next]_vars

\* The tokio runtime polls every handler and task, the worker loop never stops
\* polling, and the clock advances.  Nothing obliges a user or a fault to act.
Fairness ==
    /\ \A r \in Requests : WF_vars(EnqueueStep(r))
    /\ \A w \in Workers : WF_vars(Claim(w))
    /\ \A w \in Workers, j \in JobIds : WF_vars(TaskStep(w, j))
    /\ \A j \in JobIds : WF_vars(BackoffElapses(j))

FairSpec == Spec /\ Fairness
-----------------------------------------------------------------------------
(* Properties *)

\* One job of an asset is in flight at most: handlers that race between the
\* inflight read and the insert never leave two.
OneInflightPerAsset == \A a \in Assets : Cardinality(Inflight(a)) <= 1

\* The tasks that still have Zabbix calls or the job write ahead of them.
Owning(w) == {j \in JobIds : task[w][j].pc \in {"queued", "provision", "mark"}}

\* No two tasks, of one API process or of two, provision one asset at the same
\* time, whatever crashes, retries and re-enqueues came before: host lookup
\* and host creation are two calls and would race.
ExclusiveProvisioning ==
    \A w1, w2 \in Workers : \A j1 \in Owning(w1), j2 \in Owning(w2) :
        jobs[j1].asset = jobs[j2].asset => w1 = w2 /\ j1 = j2

\* A job is dead-lettered exactly when its attempts are used up, a job that
\* waits has one left, and no result is recorded without an attempt.
RetryBudget ==
    \A j \in JobIds :
        CASE jobs[j].status \in {"unused", "pending"} -> jobs[j].attempt < MaxAttempts
          [] jobs[j].status = "dead_letter" -> jobs[j].attempt = MaxAttempts
          [] OTHER -> jobs[j].attempt >= 1

\* A running job that no task works on, which blocks its asset for good.
Orphaned(j) == jobs[j].status = "running" /\ \A w \in Workers : j \notin Owning(w)

\* An orphaned job is the trace of a fault: the queue's own interleavings never
\* leave one behind.
OrphanOnlyByFault == faults = 0 => \A j \in JobIds : ~Orphaned(j)

\* The result a binding shows is the result of some job of that asset, for
\* every order of the three separate writes.
BindingTruthful ==
    \A a \in Assets : binding[a] \in SettledStatus =>
        \E j \in JobIds : jobs[j].asset = a /\ jobs[j].status = binding[a]

\* A settled job never changes again: not by a late refresh by id, and not by
\* the task of another API process.
SettledIsFinal ==
    [][\A j \in JobIds : jobs[j].status \in SettledStatus =>
           jobs'[j].status = jobs[j].status /\ jobs'[j].attempt = jobs[j].attempt]_vars

\* The jobs are handled as the abstract module says: submitted, started, and
\* settled, retried or dead-lettered one attempt at a time.
JobView == [j \in JobIds |-> [asset |-> jobs[j].asset, status |-> jobs[j].status,
                              attempt |-> jobs[j].attempt]]
Lifecycle == INSTANCE JobLifecycle WITH job <- JobView
ImplementsLifecycle == Lifecycle!Spec
-----------------------------------------------------------------------------
Quiet(a) ==
    /\ \A r \in Requests : req[r].asset # a
    /\ \A j \in JobIds : jobs[j].asset = a =>
         /\ jobs[j].status \notin InflightStatus
         /\ \A w \in Workers : task[w][j].pc = "none"

\* With one API process and no fault, an asset whose work is done has an
\* active alert, or one a person closed, when its binding last saw a dead
\* letter; a recovery never leaves the alert behind.
AlertFollowsBinding ==
    faults = 0 =>
        \A a \in Assets : Quiet(a) =>
            /\ binding[a] = "dead_letter" =>
                 alert[a] \in {"active", "closed_by_user"}
            /\ binding[a] \in {"success", "skipped"} =>
                 alert[a] \in {"none", "closed_by_user", "closed_by_system"}

\* Every job settles, retries and backoff included, unless a fault orphans it:
\* a lost handler, another lost task or a restart does not keep it from settling.
EveryJobSettles ==
    \A j \in JobIds :
        (jobs[j].status \in InflightStatus) ~> (jobs[j].status \in SettledStatus \/ Orphaned(j))

\* docs/07-dev-quickstart.md: creating or updating an eligible asset queues a
\* sync, so once an asset is quiet after a success, Zabbix has its revision.
UpdatesReachZabbix ==
    faults = 0 =>
        \A a \in Assets :
            Quiet(a) /\ asset[a].eligible /\ binding[a] = "success" =>
                zabbix[a] = asset[a].rev
=============================================================================
