----------------------------- MODULE Discovery ------------------------------
(***************************************************************************)
(* One discovery job: runs started by the scheduler or by hand collect the *)
(* devices of a source, match them with assets, queue the unknown ones as  *)
(* candidates and count the runs in which a known asset was missing; human *)
(* reviewers turn candidates into assets.                                  *)
(*                                                                         *)
(* A device stands for its identity (hostname, IP, fingerprint); devices   *)
(* in Full carry a hostname and an IP, the others (containers) do not.     *)
(* Assets and candidates are numbered in the order of their insertion.     *)
(***************************************************************************)
EXTENDS Integers, FiniteSets, FiniteSetsExt, Functions

CONSTANTS
    Devices, NoDevice,
    Full,           \* devices with both a hostname and an IP
    Known,          \* devices entered as assets before the job first runs
    Threshold,      \* scope.offboarded_threshold
    MissedLimit,    \* bound: where missed_runs saturates (i32::MAX)
    Runners,        \* the scheduler, and handlers of manual runs
    Scheduler,
    Reviewers,
    MaxAssets,      \* bound: assets created
    MaxCandidates,  \* bound: candidates queued
    MaxFaults       \* bound: failed statements and cut-off runs

ASSUME FullAssumption == Known \subseteq Full /\ Full \subseteq Devices /\ NoDevice \notin Devices
ASSUME SchedulerAssumption == Scheduler \in Runners
ASSUME ThresholdAssumption == Threshold \in 1..100 /\ MissedLimit \in Nat /\ MissedLimit >= Threshold
ASSUME BoundsAssumption == MaxAssets \in Nat /\ MaxCandidates \in Nat /\ MaxFaults \in Nat
ASSUME RoomAssumption == Cardinality(Known) <= MaxAssets

VARIABLES
    present,   \* devices the source reports at the moment
    status,    \* discovery_jobs.status
    due,       \* next_run_at has passed, or is still null
    run,       \* run[r]: local state of runner r
    assets,    \* assets[a]: its identity and discovery_fingerprint
    tracked,   \* tracked[a]: discovery_asset_states row of the asset
    cands,     \* discovery_candidates
    review,    \* review[v]: local state of review handler v
    told,      \* told[a]: asset.offboarded_suspected events since a was last matched
    streak,    \* streak[d]: consecutive collections without d, up to Threshold
    faults

vars == <<present, status, due, run, assets, tracked, cands, review, told, streak, faults>>
runVars == <<status, due, run, tracked, told, streak>>
reviewVars == <<assets, review>>
-----------------------------------------------------------------------------
AssetIds == 1..MaxAssets
CandIds == 1..MaxCandidates

Run == [pc : {"idle", "mark", "collect", "items", "apply", "queue", "load", "missing", "emitted"},
        items : SUBSET Devices, device : Devices \cup {NoDevice}, asset : 0..MaxAssets,
        seen : SUBSET AssetIds, left : SUBSET AssetIds]
IdleRun == [pc |-> "idle", items |-> {}, device |-> NoDevice, asset |-> 0,
            seen |-> {}, left |-> {}]

Review == [pc : {"idle", "match", "create", "merge", "reject", "close"},
           cand : 0..MaxCandidates, asset : 0..MaxAssets,
           verdict : {"created", "merged", "rejected"}]
IdleReview == [pc |-> "idle", cand |-> 0, asset |-> 0, verdict |-> "rejected"]

Asset == [ident : Devices \cup {NoDevice}, fingerprint : Devices \cup {NoDevice}]
NoAsset == [ident |-> NoDevice, fingerprint |-> NoDevice]
Tracked == [missed : 0..MissedLimit, emitted : BOOLEAN, known : BOOLEAN]
Untracked == [missed |-> 0, emitted |-> FALSE, known |-> FALSE]
Candidate == [device : Devices \cup {NoDevice}, asset : 0..MaxAssets,
              status : {"none", "pending", "created", "merged", "rejected"}]
NoCandidate == [device |-> NoDevice, status |-> "none", asset |-> 0]

Existing == {a \in AssetIds : assets[a] # NoAsset}
Pending == {c \in CandIds : cands[c].status = "pending"}

TypeOK ==
    /\ present \in SUBSET Devices
    /\ status \in {"idle", "running", "failed"}
    /\ due \in BOOLEAN
    /\ run \in [Runners -> Run]
    /\ assets \in [AssetIds -> Asset]
    /\ tracked \in [AssetIds -> Tracked]
    /\ cands \in [CandIds -> Candidate]
    /\ review \in [Reviewers -> Review]
    /\ told \in [AssetIds -> 0..(1 + MaxFaults)]
    /\ streak \in [Devices -> 0..Threshold]
    /\ faults \in 0..MaxFaults

\* Assets entered by hand carry a hostname and an IP and no fingerprint.
Entered == LET number == CHOOSE f \in [Known -> AssetIds] : IsInjective(f)
           IN  [a \in AssetIds |->
                  IF \E d \in Known : number[d] = a
                  THEN [ident |-> CHOOSE d \in Known : number[d] = a, fingerprint |-> NoDevice]
                  ELSE NoAsset]

Init ==
    /\ present = Devices
    /\ status = "idle"
    /\ due = TRUE
    /\ run = [r \in Runners |-> IdleRun]
    /\ assets = Entered
    /\ tracked = [a \in AssetIds |-> Untracked]
    /\ cands = [c \in CandIds |-> NoCandidate]
    /\ review = [v \in Reviewers |-> IdleReview]
    /\ told = [a \in AssetIds |-> 0]
    /\ streak = [d \in Devices |-> 0]
    /\ faults = 0

Goto(r, pc) == run' = [run EXCEPT ![r].pc = pc]
-----------------------------------------------------------------------------
(* The environment: devices come and go, time passes. *)

SourceChanges(d) ==
    /\ present' = IF d \in present THEN present \ {d} ELSE present \cup {d}
    /\ UNCHANGED <<runVars, reviewVars, cands, faults>>

IntervalElapses ==
    /\ ~due /\ status # "running"
    /\ due' = TRUE
    /\ UNCHANGED <<present, status, run, tracked, told, streak, reviewVars, cands, faults>>
-----------------------------------------------------------------------------
(* Starting a run *)

\* run_scheduled_jobs_once reads the jobs that are due before it runs them.
SchedulerPicks ==
    /\ run[Scheduler].pc = "idle"
    /\ due /\ status # "running"
    /\ Goto(Scheduler, "mark")
    /\ UNCHANGED <<present, status, due, tracked, told, streak, reviewVars, cands, faults>>

RunByHand(r) ==
    /\ r # Scheduler
    /\ run[r].pc = "idle"
    /\ Goto(r, "mark")
    /\ UNCHANGED <<present, status, due, tracked, told, streak, reviewVars, cands, faults>>

\* Seeded fault: the status is set without status <> 'running'.
MarkAnyRunning(r) ==
    /\ run[r].pc = "mark"
    /\ status' = "running" /\ due' = FALSE
    /\ Goto(r, "collect")
    /\ UNCHANGED <<present, tracked, told, streak, reviewVars, cands, faults>>

\* mark_discovery_job_running; "already running" ends the call.
MarkRunning(r) ==
    /\ run[r].pc = "mark"
    /\ IF status # "running"
       THEN /\ status' = "running" /\ due' = FALSE
            /\ Goto(r, "collect")
       ELSE Goto(r, "idle") /\ UNCHANGED <<status, due>>
    /\ UNCHANGED <<present, tracked, told, streak, reviewVars, cands, faults>>

\* collect_discovery_items
Collect(r) ==
    /\ run[r].pc = "collect"
    /\ run' = [run EXCEPT ![r] = [IdleRun EXCEPT !.pc = "items", !.items = present]]
    /\ streak' = [d \in Devices |-> IF d \in present THEN 0 ELSE Min({streak[d] + 1, Threshold})]
    /\ UNCHANGED <<present, status, due, tracked, told, reviewVars, cands, faults>>
-----------------------------------------------------------------------------
(* The items of a run *)

\* find_asset_by_hostname_ip: the latest asset with this hostname and IP.
Matches(d) == {a \in Existing : assets[a].ident = d}

ReadItem(r) ==
    /\ run[r].pc = "items"
    /\ \E d \in run[r].items :
         run' = [run EXCEPT ![r] =
            [run[r] EXCEPT !.device = d,
                      !.pc = IF Matches(d) = {} THEN "queue" ELSE "apply",
                      !.asset = IF Matches(d) = {} THEN 0 ELSE Max(Matches(d))]]
    /\ UNCHANGED <<present, status, due, tracked, told, streak, reviewVars, cands, faults>>

\* Seeded fault: a match does not reset the count of missed runs.
ApplyKeepsMissed(r) ==
    LET me == run[r]
        a == me.asset
    IN  /\ me.pc = "apply"
        /\ tracked' = [tracked EXCEPT ![a].known = TRUE, ![a].emitted = FALSE]
        /\ told' = [told EXCEPT ![a] = 0]
        /\ run' = [run EXCEPT ![r] = [me EXCEPT !.pc = "items", !.items = me.items \ {me.device},
                                                !.seen = me.seen \cup {a}]]
        /\ UNCHANGED <<present, status, due, streak, reviewVars, cands, faults>>

\* apply_asset_state_for_match
ApplyMatch(r) ==
    LET me == run[r]
        a == me.asset
    IN  /\ me.pc = "apply"
        /\ tracked' = [tracked EXCEPT ![a] = [missed |-> 0, emitted |-> FALSE, known |-> TRUE]]
        /\ told' = [told EXCEPT ![a] = 0]
        /\ run' = [run EXCEPT ![r] = [me EXCEPT !.pc = "items", !.items = me.items \ {me.device},
                                                !.seen = me.seen \cup {a}]]
        /\ UNCHANGED <<present, status, due, streak, reviewVars, cands, faults>>

\* A pending candidate of the device is refreshed, else one is inserted.
QueueCandidate(r) ==
    LET me == run[r]
        d == me.device
        free == {c \in CandIds : cands[c].status = "none"}
    IN  /\ me.pc = "queue"
        /\ IF \E c \in Pending : cands[c].device = d
           THEN UNCHANGED cands
           ELSE /\ free # {}
                /\ cands' = [cands EXCEPT ![Min(free)] =
                               [device |-> d, status |-> "pending", asset |-> 0]]
        /\ run' = [run EXCEPT ![r] = [me EXCEPT !.pc = "items", !.items = me.items \ {d}]]
        /\ UNCHANGED <<present, status, due, tracked, told, streak, reviewVars, faults>>
-----------------------------------------------------------------------------
(* process_missing_assets and the end of a run *)

LoadStates(r) ==
    /\ run[r].pc = "items" /\ run[r].items = {}
    /\ run' = [run EXCEPT ![r] = [run[r] EXCEPT !.pc = "missing",
                 !.left = {a \in AssetIds : tracked[a].known} \ run[r].seen]]
    /\ UNCHANGED <<present, status, due, tracked, told, streak, reviewVars, cands, faults>>

\* missed_runs.saturating_add(1)
NextMissed(a) == Min({tracked[a].missed + 1, MissedLimit})

Offboards(a) == ~tracked[a].emitted /\ NextMissed(a) >= Threshold

\* The event is inserted and dispatched before the count is written.
EmitMissing(r, a) ==
    /\ run[r].pc = "missing"
    /\ a \in run[r].left
    /\ Offboards(a)
    /\ told' = [told EXCEPT ![a] = @ + 1]
    /\ run' = [run EXCEPT ![r] = [run[r] EXCEPT !.pc = "emitted", !.asset = a]]
    /\ UNCHANGED <<present, status, due, tracked, streak, reviewVars, cands, faults>>

CountMissing(r, a) ==
    /\ run[r].pc = "missing"
    /\ a \in run[r].left
    /\ ~Offboards(a)
    /\ tracked' = [tracked EXCEPT ![a].missed = NextMissed(a)]
    /\ run' = [run EXCEPT ![r] = [run[r] EXCEPT !.left = run[r].left \ {a}]]
    /\ UNCHANGED <<present, status, due, told, streak, reviewVars, cands, faults>>

FlagMissing(r) ==
    LET me == run[r]
        a == me.asset
    IN  /\ me.pc = "emitted"
        /\ tracked' = [tracked EXCEPT ![a] = [@ EXCEPT !.missed = NextMissed(a), !.emitted = TRUE]]
        /\ run' = [run EXCEPT ![r] = [me EXCEPT !.pc = "missing", !.left = me.left \ {a}]]
        /\ UNCHANGED <<present, status, due, told, streak, reviewVars, cands, faults>>

\* Seeded fault: the run ends without giving the job back.
FinishStaysRunning(r) ==
    /\ run[r].pc = "missing" /\ run[r].left = {}
    /\ run' = [run EXCEPT ![r] = IdleRun]
    /\ UNCHANGED <<present, status, due, tracked, told, streak, reviewVars, cands, faults>>

\* mark_discovery_job_success, with the next run an interval away.
Finish(r) ==
    /\ run[r].pc = "missing" /\ run[r].left = {}
    /\ status' = "idle"
    /\ run' = [run EXCEPT ![r] = IdleRun]
    /\ UNCHANGED <<present, due, tracked, told, streak, reviewVars, cands, faults>>

Working(r) == run[r].pc \notin {"idle", "mark"}

\* A source or statement fails: mark_discovery_job_failed.
RunFails(r) ==
    /\ Working(r)
    /\ faults < MaxFaults /\ faults' = faults + 1
    /\ status' = "failed"
    /\ run' = [run EXCEPT ![r] = IdleRun]
    /\ UNCHANGED <<present, due, tracked, told, streak, reviewVars, cands>>

\* A restart of the process, or a dropped request of a manual run.
RunIsCutOff(r) ==
    /\ run[r].pc # "idle"
    /\ faults < MaxFaults /\ faults' = faults + 1
    /\ run' = [run EXCEPT ![r] = IdleRun]
    /\ UNCHANGED <<present, status, due, tracked, told, streak, reviewVars, cands>>
-----------------------------------------------------------------------------
(* Review of a candidate *)

\* Seeded fault: ensure_candidate_pending is gone.
ReadReviewed(v, c) ==
    /\ review[v].pc = "idle"
    /\ cands[c].status # "none"
    /\ review' = [review EXCEPT ![v] = [@ EXCEPT !.pc = "match", !.cand = c]]
    /\ UNCHANGED <<present, runVars, assets, cands, faults>>

ReadCandidate(v, c) ==
    /\ review[v].pc = "idle"
    /\ c \in Pending
    /\ review' = [review EXCEPT ![v] = [@ EXCEPT !.pc = "match", !.cand = c]]
    /\ UNCHANGED <<present, runVars, assets, cands, faults>>

\* Seeded fault: existing assets are looked up by fingerprint only.
SameFingerprint(d) == {a \in Existing : assets[a].fingerprint = d}

\* find_assets_by_identity: any of fingerprint, hostname or IP.
SameIdentity(d) == {a \in Existing : d \in {assets[a].ident, assets[a].fingerprint}}

\* strategy = create, or auto without a match.
DecideCreate(v) ==
    /\ review[v].pc = "match"
    /\ SameIdentity(cands[review[v].cand].device) = {}
    /\ review' = [review EXCEPT ![v].pc = "create"]
    /\ UNCHANGED <<present, runVars, assets, cands, faults>>

\* strategy = merge or auto: a given asset, or the only one that matches.
DecideMerge(v, a) ==
    /\ review[v].pc = "match"
    /\ a \in Existing
    /\ review' = [review EXCEPT ![v] = [@ EXCEPT !.pc = "merge", !.asset = a]]
    /\ UNCHANGED <<present, runVars, assets, cands, faults>>

\* A conflict, no target, or several matches: the request is refused.
Refuse(v) ==
    /\ review[v].pc = "match"
    /\ review' = [review EXCEPT ![v] = IdleReview]
    /\ UNCHANGED <<present, runVars, assets, cands, faults>>

DecideReject(v) ==
    /\ review[v].pc = "match"
    /\ review' = [review EXCEPT ![v] = [@ EXCEPT !.pc = "close", !.verdict = "rejected"]]
    /\ UNCHANGED <<present, runVars, assets, cands, faults>>

CreateAsset(v) ==
    LET d == cands[review[v].cand].device
        a == Min(AssetIds \ Existing)
    IN  /\ review[v].pc = "create"
        /\ Existing # AssetIds
        /\ assets' = [assets EXCEPT ![a] =
              [ident |-> IF d \in Full THEN d ELSE NoDevice, fingerprint |-> d]]
        /\ review' = [review EXCEPT ![v] = [@ EXCEPT !.pc = "close", !.asset = a,
                                                     !.verdict = "created"]]
        /\ UNCHANGED <<present, runVars, cands, faults>>

\* upsert_asset_discovery_fingerprint; hostname and IP of the asset stay.
MergeAsset(v) ==
    /\ review[v].pc = "merge"
    /\ assets' = [assets EXCEPT ![review[v].asset].fingerprint = cands[review[v].cand].device]
    /\ review' = [review EXCEPT ![v] = [@ EXCEPT !.pc = "close", !.verdict = "merged"]]
    /\ UNCHANGED <<present, runVars, cands, faults>>

\* The verdict is written whatever the candidate has become by now.
CloseCandidate(v) ==
    /\ review[v].pc = "close"
    /\ cands' = [cands EXCEPT ![review[v].cand] =
                   [@ EXCEPT !.status = review[v].verdict, !.asset = review[v].asset]]
    /\ review' = [review EXCEPT ![v] = IdleReview]
    /\ UNCHANGED <<present, runVars, assets, faults>>

ReviewAborts(v) ==
    /\ review[v].pc # "idle"
    /\ faults < MaxFaults /\ faults' = faults + 1
    /\ review' = [review EXCEPT ![v] = IdleReview]
    /\ UNCHANGED <<present, runVars, assets, cands>>
-----------------------------------------------------------------------------
RunStep(r) ==
    \/ MarkRunning(r)
    \/ Collect(r)
    \/ ReadItem(r)
    \/ ApplyMatch(r)
    \/ QueueCandidate(r)
    \/ LoadStates(r)
    \/ \E a \in AssetIds : EmitMissing(r, a) \/ CountMissing(r, a)
    \/ FlagMissing(r)
    \/ Finish(r)

ReviewStep(v) ==
    \/ \E c \in CandIds : ReadCandidate(v, c)
    \/ DecideCreate(v)
    \/ \E a \in AssetIds : DecideMerge(v, a)
    \/ DecideReject(v)
    \/ Refuse(v)
    \/ CreateAsset(v)
    \/ MergeAsset(v)
    \/ CloseCandidate(v)
    \/ ReviewAborts(v)

Next ==
    \/ \E d \in Devices : SourceChanges(d)
    \/ IntervalElapses
    \/ SchedulerPicks
    \/ \E r \in Runners : RunByHand(r) \/ RunStep(r) \/ RunFails(r) \/ RunIsCutOff(r)
    \/ \E v \in Reviewers : ReviewStep(v)

Spec == Init /\ [][Next]_vars

\* The scheduler polls for ever, statements end, time passes.
FairSpec ==
    /\ Spec
    /\ WF_vars(IntervalElapses)
    /\ WF_vars(SchedulerPicks)
    /\ \A r \in Runners : WF_vars(RunStep(r))
-----------------------------------------------------------------------------
(* A run holds the job to itself: no two runs of one job work at the same   *)
(* time, by schedule or by hand (mark_discovery_job_running).               *)
RunIsExclusive == \A r, s \in Runners : Working(r) /\ Working(s) => r = s

(* A job is left in status running only while a run works on it, unless a   *)
(* statement failed or a run was cut off.                                   *)
RunningIsOwned == status = "running" => (\E r \in Runners : Working(r)) \/ faults > 0

(* An asset flagged as offboarded had its event since it was last matched.  *)
EmittedWasTold == \A a \in AssetIds : tracked[a].emitted => told[a] > 0

(* One event per absence of an asset; each failed or cut-off run may repeat *)
(* it once, because the event is written before the flag.                   *)
ToldOnce == \A a \in AssetIds : told[a] <= 1 + faults

(* Dedup policy, hostname and IP: no two assets stand for one device.       *)
OneAssetPerDevice ==
    \A a, b \in Existing : assets[a].ident = assets[b].ident /\ assets[a].ident # NoDevice => a = b

(* An asset is reported as offboarded only when its device was missing in   *)
(* Threshold consecutive runs, unless a run failed or was cut off.          *)
OffboardIsJustified ==
    [][\A a \in AssetIds :
         told'[a] > told[a] /\ faults = 0 => streak[assets[a].ident] >= Threshold]_vars

(* A reviewed candidate keeps its verdict.                                  *)
ReviewIsFinal ==
    [][\A c \in CandIds : cands[c].status \in {"created", "merged", "rejected"}
         => cands'[c] = cands[c]]_vars

(* The scheduler can also run automatically by schedule: a scheduled job    *)
(* runs, and ends its runs, again and again.                                *)
KeepsRunning ==
    /\ []<>(\E r \in Runners : Working(r))
    /\ []<>(\A r \in Runners : ~Working(r))

(* The same of a job none of whose runs fails or is cut off.                *)
KeepsRunningUnlessCut == <>(faults > 0) \/ KeepsRunning
=============================================================================
