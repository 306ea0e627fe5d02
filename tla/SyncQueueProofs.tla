--------------------------- MODULE SyncQueueProofs ---------------------------
(***************************************************************************)
(* Proofs about SyncQueue for every number of assets, jobs, API processes, *)
(* handlers, attempts and faults; and, in the behaviours of                *)
(* MCSyncOperations, about the follow-ups and the urgency of daily tasks,  *)
(* the operator profiles, the notifications, the owners of risks and the   *)
(* inputs of playbooks, for every number of tasks, owners, sections,       *)
(* profiles, channels, subscriptions, deliveries and requests, and every   *)
(* length of a day, policy and schema.                                     *)
(***************************************************************************)
EXTENDS MCSyncOperations, TLAPS, FiniteSetTheorems, SequenceTheorems, WellFoundedInduction

-----------------------------------------------------------------------------
(* The inductive invariant *)

\* Two jobs in flight for one asset are one job.
OneInflight ==
    \A j, k \in JobIds :
        /\ jobs[j].status \in InflightStatus
        /\ jobs[k].status \in InflightStatus
        /\ jobs[j].asset = jobs[k].asset
        => j = k

\* A job somebody used belongs to an asset.
UsedHasAsset == \A j \in JobIds : jobs[j].status # "unused" => jobs[j].asset \in Assets

\* A task before its job write owns the job: it runs, on the task's attempt.
OwnerRuns ==
    \A w \in Workers, j \in JobIds :
        j \in Owning(w) =>
            /\ jobs[j].status = "running"
            /\ jobs[j].attempt = task[w][j].attempt

\* ... and it owns it alone.
OwnerAlone ==
    \A w1, w2 \in Workers, j \in JobIds :
        j \in Owning(w1) /\ j \in Owning(w2) => w1 = w2

\* Tasks work on used jobs, and know the outcome once they record it.
TaskSound ==
    \A w \in Workers, j \in JobIds :
        /\ task[w][j].pc # "none" => jobs[j].status # "unused"
        /\ task[w][j].pc \in {"mark", "bind", "alert"} => task[w][j].outcome # "unknown"

\* A handler past its first step has an asset, and a job to refresh.
RequestSound ==
    \A r \in Requests :
        /\ req[r].pc # "idle" => req[r].asset \in Assets
        /\ req[r].pc = "refresh" =>
             req[r].job \in JobIds /\ jobs[req[r].job].status # "unused"

IInv ==
    /\ TypeOK
    /\ RetryBudget
    /\ OneInflight
    /\ UsedHasAsset
    /\ OwnerRuns
    /\ OwnerAlone
    /\ TaskSound
    /\ RequestSound

USE MaxAttemptsAssumption, BoundsAssumption, NullAssumption
-----------------------------------------------------------------------------
LEMMA InitInv == Init => IInv
  BY DEF Init, IInv, TypeOK, RetryBudget, OneInflight, UsedHasAsset, OwnerRuns, OwnerAlone,
         TaskSound, RequestSound, Owning, Asset, Job, Request, Task, IdleRequest, NoTask,
         JobStatus, InflightStatus, SettledStatus, BindingStatus, AlertStatus, Outcome

\* Steps that leave the jobs and the tasks alone.
LEMMA QuietStep ==
  ASSUME IInv, UNCHANGED <<jobs, task>>, TypeOK', RequestSound'
  PROVE  IInv'
  BY DEF IInv, RetryBudget, OneInflight, UsedHasAsset, OwnerRuns, OwnerAlone, TaskSound, Owning

LEMMA HandlerStarts ==
  ASSUME IInv, NEW r \in Requests, NEW a \in Assets, NEW eligible \in BOOLEAN,
         \/ CreateAsset(r, a, eligible)
         \/ UpdateAsset(r, a, eligible)
         \/ TriggerSync(r, a)
  PROVE  IInv'
<1>1. asset' \in [Assets -> Asset]
  BY DEF IInv, TypeOK, CreateAsset, UpdateAsset, TriggerSync, Asset
<1>2. TypeOK'
  BY <1>1 DEF IInv, TypeOK, CreateAsset, UpdateAsset, TriggerSync, StartEnqueue, Request
<1>3. RequestSound' /\ UNCHANGED <<jobs, task>>
  BY DEF IInv, TypeOK, RequestSound, CreateAsset, UpdateAsset, TriggerSync, StartEnqueue
<1> QED BY <1>2, <1>3, QuietStep

LEMMA HandlerReads ==
  ASSUME IInv, NEW r \in Requests,
         EnqueueReadClass(r) \/ EnqueueReadInflight(r) \/ EnqueueBind(r) \/ RequestAborts(r)
  PROVE  IInv'
<1>1. CASE EnqueueReadClass(r)
  <2>1. TypeOK'
    BY <1>1 DEF IInv, TypeOK, EnqueueReadClass, Request, IdleRequest
  <2>2. RequestSound' /\ UNCHANGED <<jobs, task>>
    BY <1>1 DEF IInv, TypeOK, RequestSound, EnqueueReadClass, Request, IdleRequest
  <2> QED BY <2>1, <2>2, QuietStep
<1>2. CASE EnqueueReadInflight(r)
  <2>1. PICK next \in Request :
          /\ req' = [req EXCEPT ![r] = next]
          /\ next.pc # "idle" => next.asset = req[r].asset
          /\ next.pc = "refresh" => next.job \in JobIds /\ jobs[next.job].status # "unused"
    <3>1. req[r] \in Request
      BY DEF IInv, TypeOK
    <3>2. CASE Inflight(req[r].asset) = {}
      BY <1>2, <3>1, <3>2 DEF EnqueueReadInflight, Request
    <3>3. CASE Inflight(req[r].asset) # {}
      <4>1. PICK j \in Inflight(req[r].asset) :
              req' = [req EXCEPT ![r] = IF jobs[j].status = "pending"
                                        THEN [@ EXCEPT !.pc = "refresh", !.job = j]
                                        ELSE IdleRequest]
        BY <1>2, <3>3 DEF EnqueueReadInflight
      <4>2. j \in JobIds /\ jobs[j].status # "unused"
        BY DEF Inflight, InflightStatus
      <4>3. CASE jobs[j].status = "pending"
        <5>1. [req[r] EXCEPT !.pc = "refresh", !.job = j] \in Request
          BY <3>1, <4>2 DEF Request
        <5>2. req' = [req EXCEPT ![r] = [req[r] EXCEPT !.pc = "refresh", !.job = j]]
          BY <4>1, <4>3
        <5> QED BY <3>1, <4>2, <5>1, <5>2 DEF Request
      <4>4. CASE jobs[j].status # "pending"
        <5>1. IdleRequest \in Request /\ IdleRequest.pc = "idle"
          BY DEF Request, IdleRequest
        <5>2. req' = [req EXCEPT ![r] = IdleRequest]
          BY <4>1, <4>4
        <5> QED BY <5>1, <5>2
      <4> QED BY <4>3, <4>4
    <3> QED BY <3>2, <3>3
  <2>2. req[r].asset \in Assets
    BY <1>2 DEF IInv, RequestSound, EnqueueReadInflight
  <2>3. TypeOK'
    BY <1>2, <2>1 DEF IInv, TypeOK, EnqueueReadInflight
  <2>4. RequestSound' /\ UNCHANGED <<jobs, task>>
    BY <1>2, <2>1, <2>2 DEF IInv, TypeOK, RequestSound, EnqueueReadInflight
  <2> QED BY <2>3, <2>4, QuietStep
<1>3. CASE EnqueueBind(r)
  <2>1. TypeOK'
    BY <1>3 DEF IInv, TypeOK, RequestSound, EnqueueBind, Request, IdleRequest, BindingStatus,
                InflightStatus
  <2>2. RequestSound' /\ UNCHANGED <<jobs, task>>
    BY <1>3 DEF IInv, TypeOK, RequestSound, EnqueueBind, Request, IdleRequest
  <2> QED BY <2>1, <2>2, QuietStep
<1>4. CASE RequestAborts(r)
  <2>1. TypeOK'
    BY <1>4 DEF IInv, TypeOK, RequestAborts, Fault, Request, IdleRequest
  <2>2. RequestSound' /\ UNCHANGED <<jobs, task>>
    BY <1>4 DEF IInv, TypeOK, RequestSound, RequestAborts, Request, IdleRequest
  <2> QED BY <2>1, <2>2, QuietStep
<1> QED BY <1>1, <1>2, <1>3, <1>4

\* Neither the refresh nor the clock touches anything of a job but its time.
LEMMA OnlyDueChanges ==
  ASSUME IInv, NEW j \in JobIds, jobs' = [jobs EXCEPT ![j].due = TRUE], UNCHANGED task,
         TypeOK', RequestSound'
  PROVE  IInv'
<1>1. \A k \in JobIds : /\ jobs'[k].status = jobs[k].status
                        /\ jobs'[k].asset = jobs[k].asset
                        /\ jobs'[k].attempt = jobs[k].attempt
  BY DEF IInv, TypeOK, Job
<1> QED BY <1>1 DEF IInv, RetryBudget, OneInflight, UsedHasAsset, OwnerRuns, OwnerAlone,
                    TaskSound, Owning

LEMMA RefreshInv ==
  ASSUME IInv, NEW r \in Requests, EnqueueRefresh(r)
  PROVE  IInv'
<1>1. req[r].job \in JobIds
  BY DEF IInv, RequestSound, EnqueueRefresh
<1>2. jobs' \in [JobIds -> Job] /\ \A k \in JobIds : jobs'[k].status = jobs[k].status
  <2> DEFINE j == req[r].job
  <2>1. jobs' = [jobs EXCEPT ![j].due = TRUE] /\ j \in JobIds
    BY <1>1 DEF EnqueueRefresh
  <2> HIDE DEF j
  <2>2. jobs \in [JobIds -> Job]
    BY DEF IInv, TypeOK
  <2>3. \A k \in JobIds : jobs'[k] = IF k = j THEN [jobs[k] EXCEPT !.due = TRUE] ELSE jobs[k]
    BY <2>1, <2>2
  <2>4. \A k \in JobIds : jobs'[k] \in Job /\ jobs'[k].status = jobs[k].status
    BY <2>2, <2>3 DEF Job
  <2>5. jobs' = [k \in JobIds |-> jobs'[k]]
    BY <2>1, <2>2
  <2> QED BY <2>4, <2>5
<1>3. IdleRequest \in Request /\ IdleRequest.pc = "idle"
  BY DEF Request, IdleRequest
<1>4. TypeOK'
  BY <1>2, <1>3 DEF IInv, TypeOK, EnqueueRefresh
<1>5. RequestSound'
  BY <1>2, <1>3 DEF IInv, TypeOK, RequestSound, EnqueueRefresh
<1> QED BY <1>1, <1>4, <1>5, OnlyDueChanges DEF EnqueueRefresh

LEMMA BackoffInv ==
  ASSUME IInv, NEW j \in JobIds, BackoffElapses(j)
  PROVE  IInv'
<1>1. TypeOK'
  BY DEF IInv, TypeOK, BackoffElapses, Job
<1>2. RequestSound'
  BY DEF IInv, TypeOK, RequestSound, BackoffElapses, Job
<1> QED BY <1>1, <1>2, OnlyDueChanges DEF BackoffElapses

LEMMA InsertInv ==
  ASSUME IInv, NEW r \in Requests, EnqueueInsert(r)
  PROVE  IInv'
<1>1. CASE Inflight(req[r].asset) # {}
  <2>1. TypeOK'
    BY <1>1 DEF IInv, TypeOK, EnqueueInsert, Request, IdleRequest
  <2>2. RequestSound' /\ UNCHANGED <<jobs, task>>
    BY <1>1 DEF IInv, TypeOK, RequestSound, EnqueueInsert, Request, IdleRequest
  <2> QED BY <2>1, <2>2, QuietStep
<1>2. CASE Inflight(req[r].asset) = {}
  <2> DEFINE new == [asset |-> req[r].asset, status |-> "pending", attempt |-> 0, due |-> TRUE]
  <2>1. PICK j \in JobIds : /\ jobs[j].status = "unused"
                            /\ jobs' = [jobs EXCEPT ![j] = new]
                            /\ req' = [req EXCEPT ![r].pc = "bind"]
    BY <1>2 DEF EnqueueInsert
  <2>2. req[r].asset \in Assets
    BY DEF IInv, RequestSound, EnqueueInsert
  <2>3. TypeOK'
    <3>1. new \in Job
      BY <2>2 DEF Job, JobStatus, InflightStatus
    <3>2. req' \in [Requests -> Request]
      BY <2>1 DEF IInv, TypeOK, Request
    <3> HIDE DEF new
    <3> QED BY <2>1, <3>1, <3>2 DEF IInv, TypeOK, EnqueueInsert
  <2>4. \A k \in JobIds : jobs'[k] = IF k = j THEN new ELSE jobs[k]
    BY <2>1 DEF IInv, TypeOK
  <2>5. RetryBudget'
    BY <2>4 DEF IInv, RetryBudget
  <2>6. OneInflight'
    BY <1>2, <2>4 DEF IInv, OneInflight, Inflight
  <2>7. UsedHasAsset'
    BY <2>2, <2>4 DEF IInv, UsedHasAsset
  <2>8. OwnerRuns' /\ OwnerAlone' /\ TaskSound'
    BY <2>1, <2>4 DEF IInv, OwnerRuns, OwnerAlone, TaskSound, Owning, EnqueueInsert
  <2>9. RequestSound'
    <3>1. \A s \in Requests : /\ req'[s].asset = req[s].asset
                              /\ req'[s].job = req[s].job
                              /\ s # r => req'[s].pc = req[s].pc
                              /\ s = r => req'[s].pc = "bind"
      BY <2>1 DEF IInv, TypeOK, Request
    <3>2. \A k \in JobIds : jobs[k].status # "unused" => jobs'[k].status # "unused"
      BY <2>4
    <3> QED BY <2>2, <3>1, <3>2 DEF IInv, RequestSound
  <2> QED BY <2>3, <2>5, <2>6, <2>7, <2>8, <2>9 DEF IInv
<1> QED BY <1>1, <1>2

LEMMA ClaimInv ==
  ASSUME IInv, NEW w \in Workers, Claim(w)
  PROVE  IInv'
<1> DEFINE Claimed(j) == [jobs[j] EXCEPT !.status = "running", !.attempt = jobs[j].attempt + 1]
<1> DEFINE Started(j) == [pc |-> "queued", attempt |-> jobs[j].attempt + 1,
                          outcome |-> "unknown", rev |-> 0]
<1>1. PICK S \in SUBSET Ready :
        /\ jobs' = [j \in JobIds |-> IF j \in S THEN Claimed(j) ELSE jobs[j]]
        /\ binding' = [a \in Assets |->
                         IF \E j \in S : jobs[j].asset = a THEN "running" ELSE binding[a]]
        /\ task' = [task EXCEPT ![w] =
                      [j \in JobIds |-> IF j \in S THEN Started(j) ELSE NoTask]]
  BY DEF Claim
<1>2. \A j \in S : /\ j \in JobIds
                   /\ jobs[j].status = "pending"
                   /\ jobs[j].attempt < MaxAttempts
  BY DEF Ready, IInv, RetryBudget
<1>3. \A j \in JobIds : jobs[j] \in Job
  BY DEF IInv, TypeOK
<1>4. \A j \in JobIds :
        /\ jobs'[j].asset = jobs[j].asset
        /\ jobs'[j].status = IF j \in S THEN "running" ELSE jobs[j].status
        /\ jobs'[j].attempt = IF j \in S THEN jobs[j].attempt + 1 ELSE jobs[j].attempt
        /\ jobs'[j] \in Job
  <2> SUFFICES ASSUME NEW j \in JobIds
               PROVE  /\ jobs'[j].asset = jobs[j].asset
                      /\ jobs'[j].status = IF j \in S THEN "running" ELSE jobs[j].status
                      /\ jobs'[j].attempt = IF j \in S THEN jobs[j].attempt + 1
                                                       ELSE jobs[j].attempt
                      /\ jobs'[j] \in Job
    OBVIOUS
  <2>1. CASE j \in S
    <3>1. jobs'[j] = Claimed(j)
      BY <1>1, <2>1
    <3>2. jobs[j].attempt + 1 \in 0..MaxAttempts
      BY <1>2, <1>3, <2>1 DEF Job
    <3> QED BY <1>3, <2>1, <3>1, <3>2 DEF Job, JobStatus, InflightStatus
  <2>2. CASE j \notin S
    BY <1>1, <1>3, <2>2
  <2> QED BY <2>1, <2>2
<1>5. \A j \in S : /\ Started(j).pc = "queued"
                   /\ Started(j).attempt = jobs[j].attempt + 1
                   /\ Started(j) \in Task
  <2> SUFFICES ASSUME NEW j \in S
               PROVE  /\ Started(j).pc = "queued"
                      /\ Started(j).attempt = jobs[j].attempt + 1
                      /\ Started(j) \in Task
    OBVIOUS
  <2>1. jobs[j].attempt + 1 \in 0..MaxAttempts
    BY <1>2, <1>3 DEF Job
  <2> QED BY <2>1 DEF Task, Outcome
<1>6. NoTask \in Task /\ NoTask.pc = "none"
  BY DEF NoTask, Task, Outcome
<1> HIDE DEF Started, Claimed
<1>7. \A v \in Workers, j \in JobIds :
        task'[v][j] = IF v # w THEN task[v][j] ELSE IF j \in S THEN Started(j) ELSE NoTask
  BY <1>1 DEF IInv, TypeOK
<1>8. TypeOK'
  <2>1. jobs' \in [JobIds -> Job]
    BY <1>1, <1>4
  <2>2. task' \in [Workers -> [JobIds -> Task]]
    BY <1>1, <1>5, <1>6 DEF IInv, TypeOK, Ready
  <2>3. binding' \in [Assets -> BindingStatus]
    BY <1>1 DEF IInv, TypeOK, BindingStatus, InflightStatus
  <2> QED BY <2>1, <2>2, <2>3 DEF Claim, IInv, TypeOK
<1>9. RetryBudget'
  BY <1>2, <1>3, <1>4 DEF IInv, RetryBudget, Job
<1>10. OneInflight' /\ UsedHasAsset'
  BY <1>2, <1>4 DEF IInv, OneInflight, UsedHasAsset, InflightStatus
<1>11. OwnerRuns'
  BY <1>2, <1>4, <1>5, <1>6, <1>7 DEF IInv, OwnerRuns, Owning
<1>12. OwnerAlone'
  BY <1>2, <1>6, <1>7 DEF IInv, OwnerAlone, OwnerRuns, Owning
<1>13. TaskSound'
  BY <1>2, <1>4, <1>5, <1>6, <1>7 DEF IInv, TaskSound
<1>14. RequestSound'
  BY <1>4 DEF Claim, IInv, RequestSound
<1> QED BY <1>8, <1>9, <1>10, <1>11, <1>12, <1>13, <1>14 DEF IInv

\* A step of one task that leaves the jobs alone.
LEMMA TaskOnly ==
  ASSUME IInv, NEW w \in Workers, NEW j \in JobIds, NEW next \in Task,
         SetTask(w, j, next), UNCHANGED <<jobs, req>>, TypeOK',
         task[w][j].pc # "none",
         next.pc \in {"queued", "provision", "mark"} =>
             j \in Owning(w) /\ next.attempt = task[w][j].attempt,
         next.pc \in {"mark", "bind", "alert"} => next.outcome # "unknown"
  PROVE  IInv'
<1>1. \A v \in Workers, k \in JobIds :
        task'[v][k] = IF v = w /\ k = j THEN next ELSE task[v][k]
  BY DEF IInv, TypeOK, SetTask
<1>2. OwnerRuns' /\ OwnerAlone'
  BY <1>1 DEF IInv, OwnerRuns, OwnerAlone, Owning
<1>3. TaskSound'
  BY <1>1 DEF IInv, TaskSound
<1>4. RequestSound' /\ RetryBudget' /\ OneInflight' /\ UsedHasAsset'
  BY DEF IInv, RequestSound, RetryBudget, OneInflight, UsedHasAsset
<1> QED BY <1>2, <1>3, <1>4 DEF IInv

\* The row of the asset a task works on.
LEMMA TaskAsset ==
  ASSUME IInv, NEW w \in Workers, NEW j \in JobIds, task[w][j].pc # "none"
  PROVE  /\ jobs[j].asset \in Assets
         /\ asset[jobs[j].asset] \in Asset
         /\ task[w][j] \in Task
  BY DEF IInv, TaskSound, UsedHasAsset, TypeOK

LEMMA LoadInv ==
  ASSUME IInv, NEW w \in Workers, NEW j \in JobIds, LoadAsset(w, j)
  PROVE  IInv'
<1> DEFINE row == asset[jobs[j].asset]
<1> DEFINE next == IF row.eligible
                   THEN [task[w][j] EXCEPT !.pc = "provision", !.rev = row.rev]
                   ELSE [task[w][j] EXCEPT !.pc = "mark", !.outcome = "skipped"]
<1>1. /\ task[w][j].pc = "queued"
      /\ SetTask(w, j, next)
      /\ UNCHANGED <<asset, jobs, binding, alert, req, zabbix, faults>>
  BY DEF LoadAsset
<1>2. row \in Asset /\ task[w][j] \in Task
  BY <1>1, TaskAsset
<1>3. next \in Task /\ next.attempt = task[w][j].attempt
  BY <1>2 DEF Task, Asset, Outcome
<1>4. next.pc = "provision" \/ (next.pc = "mark" /\ next.outcome = "skipped")
  BY <1>2 DEF Task
<1>5. TypeOK'
  BY <1>1, <1>3 DEF IInv, TypeOK, SetTask
<1>6. j \in Owning(w)
  BY <1>1 DEF Owning
<1> HIDE DEF next
<1> QED BY <1>1, <1>3, <1>4, <1>5, <1>6, TaskOnly

LEMMA ProvisionInv ==
  ASSUME IInv, NEW w \in Workers, NEW j \in JobIds, Provision(w, j)
  PROVE  IInv'
<1>1. PICK outcome \in {"success", "failed"} :
        SetTask(w, j, [task[w][j] EXCEPT !.pc = "mark", !.outcome = outcome])
  BY DEF Provision
<1> DEFINE next == [task[w][j] EXCEPT !.pc = "mark", !.outcome = outcome]
<1>2. task[w][j].pc = "provision" /\ UNCHANGED <<asset, jobs, binding, alert, req, faults>>
  BY DEF Provision
<1>3. jobs[j].asset \in Assets /\ task[w][j] \in Task
  BY <1>2, TaskAsset
<1>4. zabbix' \in [Assets -> 0..MaxRev]
  BY <1>3 DEF Provision, IInv, TypeOK, Task
<1>5. next \in Task /\ next.attempt = task[w][j].attempt /\ next.pc = "mark"
      /\ next.outcome # "unknown"
  BY <1>3 DEF Task, Outcome
<1>6. TypeOK'
  BY <1>1, <1>2, <1>4, <1>5 DEF IInv, TypeOK, SetTask
<1>7. j \in Owning(w)
  BY <1>2 DEF Owning
<1> HIDE DEF next
<1> QED BY <1>1, <1>2, <1>5, <1>6, <1>7, TaskOnly DEF next

LEMMA MarkBindingInv ==
  ASSUME IInv, NEW w \in Workers, NEW j \in JobIds, MarkBinding(w, j)
  PROVE  IInv'
<1> DEFINE next == [task[w][j] EXCEPT !.pc = "alert"]
<1>1. /\ task[w][j].pc = "bind"
      /\ SetTask(w, j, next)
      /\ UNCHANGED <<asset, jobs, alert, req, zabbix, faults>>
  BY DEF MarkBinding
<1>2. jobs[j].asset \in Assets /\ task[w][j] \in Task /\ task[w][j].outcome # "unknown"
  BY <1>1, TaskAsset DEF IInv, TaskSound
<1>3. JobAfter(task[w][j]) \in {"success", "skipped", "dead_letter", "pending"}
  BY <1>2 DEF JobAfter, Task, Outcome
<1>4. binding' \in [Assets -> BindingStatus]
  BY <1>3 DEF MarkBinding, IInv, TypeOK, BindingStatus, SettledStatus
<1>5. next \in Task /\ next.pc = "alert" /\ next.outcome # "unknown"
  BY <1>2 DEF Task
<1>6. TypeOK'
  BY <1>1, <1>4, <1>5 DEF IInv, TypeOK, SetTask
<1> HIDE DEF next
<1> QED BY <1>1, <1>5, <1>6, TaskOnly

LEMMA EndsTask ==
  ASSUME IInv, NEW w \in Workers, NEW j \in JobIds, MarkAlert(w, j) \/ TaskAborts(w, j)
  PROVE  IInv'
<1>1. task[w][j].pc # "none" /\ SetTask(w, j, NoTask) /\ UNCHANGED <<jobs, req>>
  BY DEF MarkAlert, TaskAborts
<1>2. NoTask \in Task /\ NoTask.pc = "none"
  BY DEF NoTask, Task, Outcome
<1>3. alert' \in [Assets -> AlertStatus]
  BY <1>1, TaskAsset DEF MarkAlert, TaskAborts, IInv, TypeOK, AlertAfter, AlertStatus
<1>4. TypeOK'
  BY <1>1, <1>2, <1>3 DEF IInv, TypeOK, SetTask, MarkAlert, TaskAborts, Fault
<1> QED BY <1>1, <1>2, <1>4, TaskOnly

LEMMA RestartInv ==
  ASSUME IInv, NEW w \in Workers, WorkerRestarts(w)
  PROVE  IInv'
<1>1. NoTask \in Task /\ NoTask.pc = "none"
  BY DEF NoTask, Task, Outcome
<1>2. TypeOK'
  BY <1>1 DEF IInv, TypeOK, WorkerRestarts, Fault
<1>3. \A v \in Workers, k \in JobIds :
        task'[v][k] = IF v = w THEN NoTask ELSE task[v][k]
  BY DEF IInv, TypeOK, WorkerRestarts
<1>4. OwnerRuns' /\ OwnerAlone' /\ TaskSound'
  BY <1>1, <1>3 DEF IInv, OwnerRuns, OwnerAlone, TaskSound, Owning, WorkerRestarts
<1>5. RequestSound' /\ RetryBudget' /\ OneInflight' /\ UsedHasAsset'
  BY DEF IInv, RequestSound, RetryBudget, OneInflight, UsedHasAsset, WorkerRestarts
<1> QED BY <1>2, <1>4, <1>5 DEF IInv

\* What the job write does to the job's row.
LEMMA MarkEffect ==
  ASSUME IInv, NEW w \in Workers, NEW j \in JobIds, MarkJob(w, j)
  PROVE  /\ jobs[j].status = "running"
         /\ jobs[j].attempt >= 1
         /\ \A k \in JobIds \ {j} : jobs'[k] = jobs[k]
         /\ jobs'[j].asset = jobs[j].asset
         /\ jobs'[j].attempt = jobs[j].attempt
         /\ jobs'[j].status = JobAfter(task[w][j])
         /\ JobAfter(task[w][j]) \in {"success", "skipped", "dead_letter", "pending"}
         /\ JobAfter(task[w][j]) = "dead_letter" => jobs[j].attempt = MaxAttempts
         /\ JobAfter(task[w][j]) = "pending" => jobs[j].attempt < MaxAttempts
         /\ jobs' \in [JobIds -> Job]
<1>1. task[w][j].pc = "mark" /\ task[w][j] \in Task /\ task[w][j].outcome # "unknown"
  BY TaskAsset DEF MarkJob, IInv, TaskSound
<1>2. jobs[j].status = "running" /\ jobs[j].attempt = task[w][j].attempt
  BY <1>1 DEF IInv, OwnerRuns, Owning
<1>3. jobs[j] \in Job /\ jobs[j].attempt >= 1
  BY <1>2 DEF IInv, TypeOK, RetryBudget
<1>4. /\ JobAfter(task[w][j]) \in {"success", "skipped", "dead_letter", "pending"}
      /\ JobAfter(task[w][j]) = "dead_letter" => jobs[j].attempt = MaxAttempts
      /\ JobAfter(task[w][j]) = "pending" => jobs[j].attempt < MaxAttempts
  BY <1>1, <1>2, <1>3 DEF JobAfter, Task, Outcome, Job
<1>5. jobs' = [jobs EXCEPT ![j] = [@ EXCEPT !.status = JobAfter(task[w][j]),
                                            !.attempt = task[w][j].attempt,
                                            !.due = FALSE]]
  BY DEF MarkJob
<1> QED BY <1>1, <1>2, <1>3, <1>4, <1>5
        DEF IInv, TypeOK, Job, JobStatus, InflightStatus, SettledStatus

LEMMA MarkJobInv ==
  ASSUME IInv, NEW w \in Workers, NEW j \in JobIds, MarkJob(w, j)
  PROVE  IInv'
<1> DEFINE next == [task[w][j] EXCEPT !.pc = "bind"]
<1>1. /\ task[w][j].pc = "mark"
      /\ SetTask(w, j, next)
      /\ UNCHANGED <<asset, binding, alert, req, zabbix, faults>>
  BY DEF MarkJob
<1>2. task[w][j] \in Task /\ task[w][j].outcome # "unknown"
  BY <1>1, TaskAsset DEF IInv, TaskSound
<1>3. next \in Task /\ next.pc = "bind" /\ next.outcome # "unknown"
  BY <1>2 DEF Task
<1>4. TypeOK'
  BY <1>1, <1>3, MarkEffect DEF IInv, TypeOK, SetTask
<1>5. \A v \in Workers, k \in JobIds :
        task'[v][k] = IF v = w /\ k = j THEN next ELSE task[v][k]
  BY <1>1 DEF IInv, TypeOK, SetTask
<1> HIDE DEF next
<1>6. RetryBudget'
  BY MarkEffect DEF IInv, RetryBudget
<1>7. OneInflight' /\ UsedHasAsset'
  BY MarkEffect DEF IInv, OneInflight, UsedHasAsset, InflightStatus
<1>8. j \in Owning(w)
  BY <1>1 DEF Owning
<1>9. OwnerRuns' /\ OwnerAlone'
  BY <1>3, <1>5, <1>8, MarkEffect DEF IInv, OwnerRuns, OwnerAlone, Owning
<1>10. TaskSound'
  BY <1>3, <1>5, MarkEffect DEF IInv, TaskSound
<1>11. RequestSound'
  BY <1>1, MarkEffect DEF IInv, RequestSound
<1> QED BY <1>4, <1>6, <1>7, <1>9, <1>10, <1>11 DEF IInv

LEMMA NextInv == IInv /\ [Next]_vars => IInv'
<1> SUFFICES ASSUME IInv, [Next]_vars PROVE IInv'
  OBVIOUS
<1>1. CASE \E r \in Requests, a \in Assets, eligible \in BOOLEAN :
             CreateAsset(r, a, eligible) \/ UpdateAsset(r, a, eligible)
  BY <1>1, HandlerStarts
<1>2. CASE \E r \in Requests, a \in Assets : TriggerSync(r, a)
  <2>1. FALSE \in BOOLEAN
    OBVIOUS
  <2> QED BY <1>2, <2>1, HandlerStarts
<1>3. CASE \E r \in Requests : EnqueueStep(r) \/ RequestAborts(r)
  BY <1>3, HandlerReads, RefreshInv, InsertInv DEF EnqueueStep
<1>4. CASE \E w \in Workers : Claim(w) \/ WorkerRestarts(w)
  BY <1>4, ClaimInv, RestartInv
<1>5. CASE \E w \in Workers, j \in JobIds : TaskStep(w, j) \/ TaskAborts(w, j)
  BY <1>5, LoadInv, ProvisionInv, MarkJobInv, MarkBindingInv, EndsTask DEF TaskStep
<1>6. CASE \E j \in JobIds : BackoffElapses(j)
  BY <1>6, BackoffInv
<1>7. CASE \E a \in Assets : CloseAlert(a)
  <2>1. TypeOK'
    BY <1>7 DEF IInv, TypeOK, CloseAlert, AlertStatus
  <2>2. RequestSound' /\ UNCHANGED <<jobs, task>>
    BY <1>7 DEF IInv, RequestSound, CloseAlert
  <2> QED BY <2>1, <2>2, QuietStep
<1>8. CASE UNCHANGED vars
  BY <1>8 DEF vars, IInv, TypeOK, RetryBudget, OneInflight, UsedHasAsset, OwnerRuns, OwnerAlone,
              TaskSound, RequestSound, Owning
<1> QED BY <1>1, <1>2, <1>3, <1>4, <1>5, <1>6, <1>7, <1>8 DEF Next
-----------------------------------------------------------------------------
(* What follows from it *)

\* The inductive invariant holds in every reachable state.
THEOREM Invariance == Spec => []IInv
  BY InitInv, NextInv, PTL DEF Spec

\* Every variable keeps its type: no attempt counter leaves 0..MaxAttempts and
\* no status outside the CHECK constraints is ever written.
THEOREM TypeCorrect == Spec => []TypeOK
<1>1. IInv => TypeOK
  BY DEF IInv
<1> QED BY <1>1, Invariance, PTL

\* However handlers and workers interleave, an asset has one job in flight.
THEOREM OneInflightTheorem == Spec => []OneInflightPerAsset
<1>1. IInv => OneInflightPerAsset
  <2> SUFFICES ASSUME IInv, NEW a \in Assets PROVE Cardinality(Inflight(a)) <= 1
    BY DEF OneInflightPerAsset
  <2>1. \A j, k \in Inflight(a) : j = k
    BY DEF IInv, OneInflight, Inflight
  <2>2. CASE Inflight(a) = {}
    BY <2>2, FS_EmptySet
  <2>3. CASE Inflight(a) # {}
    <3>1. PICK j : Inflight(a) = {j}
      BY <2>1, <2>3
    <3> QED BY <3>1, FS_Singleton
  <2> QED BY <2>2, <2>3
<1> QED BY <1>1, Invariance, PTL

\* No two tasks, of any number of API processes, provision one asset at once.
THEOREM ExclusiveProvisioningTheorem == Spec => []ExclusiveProvisioning
<1>1. IInv => ExclusiveProvisioning
  <2> SUFFICES ASSUME IInv, NEW w1 \in Workers, NEW w2 \in Workers,
                      NEW j1 \in Owning(w1), NEW j2 \in Owning(w2),
                      jobs[j1].asset = jobs[j2].asset
               PROVE  w1 = w2 /\ j1 = j2
    BY DEF ExclusiveProvisioning
  <2>1. /\ j1 \in JobIds /\ jobs[j1].status = "running"
        /\ j2 \in JobIds /\ jobs[j2].status = "running"
    BY DEF IInv, OwnerRuns, Owning
  <2>2. j1 = j2
    BY <2>1 DEF IInv, OneInflight, InflightStatus
  <2> QED BY <2>1, <2>2 DEF IInv, OwnerAlone
<1> QED BY <1>1, Invariance, PTL

\* Dead letters have used up their attempts and waiting jobs have not.
THEOREM RetryBudgetTheorem == Spec => []RetryBudget
<1>1. IInv => RetryBudget
  BY DEF IInv
<1> QED BY <1>1, Invariance, PTL
-----------------------------------------------------------------------------
(* Refinement: every step is a step of JobLifecycle or leaves the jobs'     *)
(* asset, status and attempt alone.                                         *)

LEMMA ViewUnchanged ==
  ASSUME \A j \in JobIds : /\ jobs'[j].asset = jobs[j].asset
                           /\ jobs'[j].status = jobs[j].status
                           /\ jobs'[j].attempt = jobs[j].attempt
  PROVE  JobView' = JobView
  BY DEF JobView

LEMMA DueKeepsView ==
  ASSUME IInv, NEW j \in JobIds, jobs' = [jobs EXCEPT ![j].due = TRUE]
  PROVE  JobView' = JobView
<1>1. jobs \in [JobIds -> Job]
  BY DEF IInv, TypeOK
<1>2. \A k \in JobIds : jobs'[k] = IF k = j THEN [jobs[k] EXCEPT !.due = TRUE] ELSE jobs[k]
  BY <1>1
<1>3. \A k \in JobIds : /\ jobs'[k].asset = jobs[k].asset
                        /\ jobs'[k].status = jobs[k].status
                        /\ jobs'[k].attempt = jobs[k].attempt
  BY <1>1, <1>2 DEF Job
<1> QED BY <1>3, ViewUnchanged

LEMMA InsertIsSubmit ==
  ASSUME IInv, NEW r \in Requests, EnqueueInsert(r)
  PROVE  Lifecycle!Next \/ JobView' = JobView
<1>1. CASE Inflight(req[r].asset) # {}
  BY <1>1 DEF EnqueueInsert, JobView
<1>2. CASE Inflight(req[r].asset) = {}
  <2> DEFINE a == req[r].asset
  <2>1. PICK j \in JobIds :
          /\ jobs[j].status = "unused"
          /\ jobs' = [jobs EXCEPT ![j] = [asset |-> a, status |-> "pending",
                                          attempt |-> 0, due |-> TRUE]]
    BY <1>2 DEF EnqueueInsert
  <2>2. a \in Assets
    BY DEF IInv, RequestSound, EnqueueInsert
  <2>3. jobs \in [JobIds -> Job]
    BY DEF IInv, TypeOK
  <2>4. \A k \in JobIds : JobView[k].asset = a => JobView[k].status \notin {"pending", "running"}
    BY <1>2 DEF Inflight, InflightStatus, JobView
  <2>5. JobView[j].status = "unused"
    BY <2>1 DEF JobView
  <2>6. JobView' = [JobView EXCEPT ![j] = [asset |-> a, status |-> "pending", attempt |-> 0]]
    BY <2>1, <2>3 DEF JobView
  <2> HIDE DEF a
  <2>7. Lifecycle!Submit(j, a)
    BY <2>4, <2>5, <2>6 DEF Lifecycle!Submit, Lifecycle!InflightStatus
  <2> QED BY <2>2, <2>7 DEF Lifecycle!Next
<1> QED BY <1>1, <1>2

LEMMA ClaimIsStart ==
  ASSUME IInv, NEW w \in Workers, Claim(w)
  PROVE  Lifecycle!Next
<1>1. PICK S \in SUBSET Ready :
        /\ S # {}
        /\ jobs' = [j \in JobIds |->
                      IF j \in S
                      THEN [jobs[j] EXCEPT !.status = "running", !.attempt = jobs[j].attempt + 1]
                      ELSE jobs[j]]
  BY DEF Claim
<1>2. jobs \in [JobIds -> Job] /\ S \in SUBSET JobIds
  BY DEF IInv, TypeOK, Ready
<1>3. \A j \in S : JobView[j].status = "pending" /\ JobView[j].attempt < MaxAttempts
  BY <1>2 DEF Ready, JobView, IInv, RetryBudget
<1>4. \A j \in JobIds :
        JobView'[j] = IF j \in S
                      THEN [asset |-> JobView[j].asset, status |-> "running",
                             attempt |-> JobView[j].attempt + 1]
                      ELSE JobView[j]
  <2> SUFFICES ASSUME NEW j \in JobIds
               PROVE  JobView'[j] = IF j \in S
                                    THEN [asset |-> JobView[j].asset, status |-> "running",
                             attempt |-> JobView[j].attempt + 1]
                                    ELSE JobView[j]
    OBVIOUS
  <2>1. /\ jobs[j] \in Job
        /\ JobView[j] = [asset |-> jobs[j].asset, status |-> jobs[j].status,
                         attempt |-> jobs[j].attempt]
        /\ JobView'[j] = [asset |-> jobs'[j].asset, status |-> jobs'[j].status,
                          attempt |-> jobs'[j].attempt]
    BY <1>2 DEF JobView
  <2>2. CASE j \in S
    <3>1. /\ jobs'[j].asset = jobs[j].asset
          /\ jobs'[j].status = "running"
          /\ jobs'[j].attempt = jobs[j].attempt + 1
      BY <1>1, <2>1, <2>2 DEF Job
    <3>2. JobView'[j] = [asset |-> jobs[j].asset, status |-> "running",
                         attempt |-> jobs[j].attempt + 1]
      BY <2>1, <3>1
    <3> QED BY <2>1, <2>2, <3>2
  <2>3. CASE j \notin S
    BY <1>1, <2>1, <2>3
  <2> QED BY <2>2, <2>3
<1>5. JobView' = [j \in JobIds |->
                    IF j \in S
                    THEN [asset |-> JobView[j].asset, status |-> "running",
                             attempt |-> JobView[j].attempt + 1]
                    ELSE JobView[j]]
  BY <1>4 DEF JobView
<1>6. Lifecycle!Start(S)
  BY <1>1, <1>3, <1>5 DEF Lifecycle!Start
<1> QED BY <1>2, <1>6 DEF Lifecycle!Next

LEMMA MarkIsSettle ==
  ASSUME IInv, NEW w \in Workers, NEW j \in JobIds, MarkJob(w, j)
  PROVE  Lifecycle!Next
<1> DEFINE status == JobAfter(task[w][j])
<1>1. /\ JobView[j].status = "running"
      /\ status \in {"success", "skipped", "dead_letter", "pending"}
      /\ status = "dead_letter" => JobView[j].attempt = MaxAttempts
      /\ status = "pending" => JobView[j].attempt < MaxAttempts
  BY MarkEffect DEF JobView
<1>2. JobView' = [JobView EXCEPT ![j].status = status]
  <2>1. \A k \in JobIds : JobView'[k] = IF k = j THEN [JobView[k] EXCEPT !.status = status]
                                                 ELSE JobView[k]
    BY MarkEffect DEF JobView
  <2>2. JobView' = [k \in JobIds |-> JobView'[k]] /\ JobView = [k \in JobIds |-> JobView[k]]
    BY DEF JobView
  <2> QED BY <2>1, <2>2
<1> HIDE DEF status
<1>3. Lifecycle!Settle(j, status)
  BY <1>1, <1>2 DEF Lifecycle!Settle
<1> QED BY <1>1, <1>3 DEF Lifecycle!Next, Lifecycle!GiveUp, Lifecycle!Retry

LEMMA StepRefines == IInv /\ [Next]_vars => Lifecycle!Next \/ JobView' = JobView
<1> SUFFICES ASSUME IInv, [Next]_vars PROVE Lifecycle!Next \/ JobView' = JobView
  OBVIOUS
<1>1. CASE jobs' = jobs
  BY <1>1 DEF JobView
<1>2. CASE \E r \in Requests : EnqueueRefresh(r)
  <2>1. PICK r \in Requests : EnqueueRefresh(r)
    BY <1>2
  <2>2. req[r].job \in JobIds
    BY <2>1 DEF IInv, RequestSound, EnqueueRefresh
  <2> QED BY <2>1, <2>2, DueKeepsView DEF EnqueueRefresh
<1>3. CASE \E r \in Requests : EnqueueInsert(r)
  BY <1>3, InsertIsSubmit
<1>4. CASE \E w \in Workers : Claim(w)
  BY <1>4, ClaimIsStart
<1>5. CASE \E w \in Workers, j \in JobIds : MarkJob(w, j)
  BY <1>5, MarkIsSettle
<1>6. CASE \E j \in JobIds : BackoffElapses(j)
  BY <1>6, DueKeepsView DEF BackoffElapses
<1>7. \/ jobs' = jobs
      \/ \E r \in Requests : EnqueueRefresh(r) \/ EnqueueInsert(r)
      \/ \E w \in Workers : Claim(w)
      \/ \E w \in Workers, j \in JobIds : MarkJob(w, j)
      \/ \E j \in JobIds : BackoffElapses(j)
  BY DEF Next, vars, EnqueueStep, TaskStep, CreateAsset, UpdateAsset, TriggerSync,
         EnqueueReadClass, EnqueueReadInflight, EnqueueBind, RequestAborts, WorkerRestarts,
         LoadAsset, Provision, MarkBinding, MarkAlert, TaskAborts, CloseAlert
<1> QED BY <1>1, <1>2, <1>3, <1>4, <1>5, <1>6, <1>7

\* The queue implements the abstract life cycle of its jobs.
THEOREM Refinement == Spec => ImplementsLifecycle
<1>1. Init => Lifecycle!Init
  BY DEF Init, Lifecycle!Init, JobView
<1>2. IInv /\ [Next]_vars => [Lifecycle!Next]_JobView
  BY StepRefines
<1> QED BY <1>1, <1>2, Invariance, PTL DEF Spec, ImplementsLifecycle, Lifecycle!Spec

\* No write of any handler or worker, late as it may be, moves a settled job.
THEOREM SettledIsFinalTheorem == Spec => SettledIsFinal
<1>1. IInv /\ [Next]_vars =>
        [\A j \in JobIds : jobs[j].status \in SettledStatus =>
            jobs'[j].status = jobs[j].status /\ jobs'[j].attempt = jobs[j].attempt]_vars
  <2> SUFFICES ASSUME IInv, [Next]_vars, NEW j \in JobIds, jobs[j].status \in SettledStatus
               PROVE  jobs'[j].status = jobs[j].status /\ jobs'[j].attempt = jobs[j].attempt
    OBVIOUS
  <2>1. JobView[j].status \in {"success", "skipped", "dead_letter"}
    BY DEF JobView, SettledStatus
  <2>2. Lifecycle!Next \/ JobView' = JobView
    BY StepRefines
  <2>3. JobView'[j] = JobView[j]
    <3>1. CASE \E k \in JobIds, a \in Assets : Lifecycle!Submit(k, a)
      BY <2>1, <3>1 DEF Lifecycle!Submit, JobView
    <3>2. CASE \E S \in SUBSET JobIds : Lifecycle!Start(S)
      BY <2>1, <3>2 DEF Lifecycle!Start
    <3>3. ASSUME NEW k \in JobIds, NEW status, Lifecycle!Settle(k, status)
          PROVE  JobView'[j] = JobView[j]
      BY <2>1, <3>3 DEF Lifecycle!Settle, JobView
    <3> QED BY <2>2, <3>1, <3>2, <3>3
            DEF Lifecycle!Next, Lifecycle!GiveUp, Lifecycle!Retry
  <2> QED BY <2>3 DEF JobView
<1> QED BY <1>1, Invariance, PTL DEF Spec, SettledIsFinal
-----------------------------------------------------------------------------
(* The three writes of a result *)

\* A settled job keeps its status, a used one its asset.
LEMMA UsedJobs ==
  ASSUME IInv, [Next]_vars, NEW j \in JobIds, jobs[j].status # "unused"
  PROVE  /\ jobs'[j].asset = jobs[j].asset
         /\ jobs[j].status \in SettledStatus => jobs'[j].status = jobs[j].status
<1>1. JobView[j].status # "unused" /\ JobView[j].asset = jobs[j].asset
      /\ JobView[j].status = jobs[j].status
  BY DEF JobView
<1>2. Lifecycle!Next \/ JobView' = JobView
  BY StepRefines
<1>3. /\ JobView'[j].asset = JobView[j].asset
      /\ JobView[j].status \in SettledStatus => JobView'[j].status = JobView[j].status
  <2>1. CASE \E k \in JobIds, a \in Assets : Lifecycle!Submit(k, a)
    BY <1>1, <2>1 DEF Lifecycle!Submit, JobView
  <2>2. CASE \E S \in SUBSET JobIds : Lifecycle!Start(S)
    BY <1>1, <2>2 DEF Lifecycle!Start, SettledStatus
  <2>3. ASSUME NEW k \in JobIds, NEW status, Lifecycle!Settle(k, status)
        PROVE  /\ JobView'[j].asset = JobView[j].asset
               /\ JobView[j].status \in SettledStatus => JobView'[j].status = JobView[j].status
    <3>1. /\ JobView[k].status = "running"
          /\ JobView' = [JobView EXCEPT ![k].status = status]
      BY <2>3 DEF Lifecycle!Settle
    <3>2. \A i \in JobIds \ {k} : JobView'[i] = JobView[i]
      BY <3>1 DEF JobView
    <3>3. JobView'[k].asset = JobView[k].asset
      BY <2>3, <3>1 DEF JobView
    <3> QED BY <3>1, <3>2, <3>3 DEF SettledStatus
  <2> QED BY <1>2, <2>1, <2>2, <2>3 DEF Lifecycle!Next, Lifecycle!GiveUp, Lifecycle!Retry
<1> QED BY <1>1, <1>3 DEF JobView

\* What a claim does to the jobs, the bindings and the tasks.
LEMMA ClaimEffect ==
  ASSUME IInv, NEW w \in Workers, Claim(w)
  PROVE  \E S \in SUBSET Ready :
           /\ \A j \in JobIds :
                /\ task[w][j].pc = "none"
                /\ jobs'[j].asset = jobs[j].asset
                /\ jobs'[j].status = IF j \in S THEN "running" ELSE jobs[j].status
                /\ task'[w][j].pc = IF j \in S THEN "queued" ELSE "none"
                /\ \A v \in Workers \ {w} : task'[v][j] = task[v][j]
           /\ \A a \in Assets : binding'[a] \in {"running", binding[a]}
           /\ UNCHANGED <<alert, req, faults>>
<1> DEFINE Started(j) == [pc |-> "queued", attempt |-> jobs[j].attempt + 1,
                          outcome |-> "unknown", rev |-> 0]
<1>1. PICK S \in SUBSET Ready :
        /\ jobs' = [j \in JobIds |->
                      IF j \in S
                      THEN [jobs[j] EXCEPT !.status = "running", !.attempt = jobs[j].attempt + 1]
                      ELSE jobs[j]]
        /\ binding' = [a \in Assets |->
                         IF \E j \in S : jobs[j].asset = a THEN "running" ELSE binding[a]]
        /\ task' = [task EXCEPT ![w] =
                      [j \in JobIds |-> IF j \in S THEN Started(j) ELSE NoTask]]
  BY DEF Claim
<1>2. \A j \in JobIds : Started(j).pc = "queued" /\ NoTask.pc = "none"
  BY DEF NoTask
<1> HIDE DEF Started
<1>3. \A j \in JobIds :
        /\ task'[w][j] = IF j \in S THEN Started(j) ELSE NoTask
        /\ \A v \in Workers \ {w} : task'[v][j] = task[v][j]
  BY <1>1 DEF IInv, TypeOK
<1>4. \A j \in JobIds : /\ jobs'[j].asset = jobs[j].asset
                        /\ jobs'[j].status = IF j \in S THEN "running" ELSE jobs[j].status
  <2>1. \A j \in JobIds : jobs[j] \in Job
    BY DEF IInv, TypeOK
  <2> QED BY <1>1, <2>1 DEF Job
<1>5. \A j \in JobIds : task[w][j].pc = "none"
  BY DEF Claim, Busy
<1>6. \A a \in Assets : binding'[a] \in {"running", binding[a]}
  BY <1>1
<1>7. UNCHANGED <<alert, req, faults>>
  BY DEF Claim
<1>8. \A j \in JobIds :
        /\ task[w][j].pc = "none"
        /\ jobs'[j].asset = jobs[j].asset
        /\ jobs'[j].status = IF j \in S THEN "running" ELSE jobs[j].status
        /\ task'[w][j].pc = IF j \in S THEN "queued" ELSE "none"
        /\ \A v \in Workers \ {w} : task'[v][j] = task[v][j]
  BY <1>2, <1>3, <1>4, <1>5
<1> QED BY <1>6, <1>7, <1>8

\* A step of one task sets that task alone.
LEMMA TaskSet ==
  ASSUME IInv, NEW w \in Workers, NEW j \in JobIds, NEW next, SetTask(w, j, next)
  PROVE  \A v \in Workers, k \in JobIds :
            task'[v][k] = IF v = w /\ k = j THEN next ELSE task[v][k]
  BY DEF IInv, TypeOK, SetTask

\* Each of the steps of a task, and where it leaves the task.
LEMMA TaskMoves ==
  ASSUME IInv, NEW w \in Workers, NEW j \in JobIds, TaskStep(w, j) \/ TaskAborts(w, j)
  PROVE  /\ task[w][j].pc # "none"
         /\ \A v \in Workers, k \in JobIds :
              v # w \/ k # j => task'[v][k] = task[v][k]
         /\ LoadAsset(w, j) => /\ task[w][j].pc = "queued"
                               /\ task'[w][j].pc \in {"provision", "mark"}
         /\ Provision(w, j) => task[w][j].pc = "provision" /\ task'[w][j].pc = "mark"
         /\ MarkJob(w, j) => task[w][j].pc = "mark" /\ task'[w][j].pc = "bind"
         /\ MarkBinding(w, j) => task[w][j].pc = "bind" /\ task'[w][j].pc = "alert"
         /\ MarkAlert(w, j) => task[w][j].pc = "alert" /\ task'[w][j].pc = "none"
         /\ TaskAborts(w, j) => task'[w][j].pc = "none"
         /\ MarkJob(w, j) \/ MarkBinding(w, j) =>
              /\ task'[w][j].outcome = task[w][j].outcome
              /\ task'[w][j].attempt = task[w][j].attempt
<1>0. task[w][j] \in Task
  BY DEF IInv, TypeOK
<1>1. ASSUME NEW next, SetTask(w, j, next)
      PROVE  /\ task'[w][j] = next
             /\ \A v \in Workers, k \in JobIds : v # w \/ k # j => task'[v][k] = task[v][k]
  BY <1>1, TaskSet
<1>2. PICK next : SetTask(w, j, next)
  BY DEF TaskStep, LoadAsset, Provision, MarkJob, MarkBinding, MarkAlert, TaskAborts
<1>3. task[w][j].pc # "none" /\ \A v \in Workers, k \in JobIds :
                                 v # w \/ k # j => task'[v][k] = task[v][k]
  BY <1>1, <1>2 DEF TaskStep, LoadAsset, Provision, MarkJob, MarkBinding, MarkAlert, TaskAborts
<1>4. ASSUME LoadAsset(w, j)
      PROVE  task[w][j].pc = "queued" /\ task'[w][j].pc \in {"provision", "mark"}
  <2> DEFINE p == [task[w][j] EXCEPT !.pc = "provision", !.rev = asset[jobs[j].asset].rev]
             m == [task[w][j] EXCEPT !.pc = "mark", !.outcome = "skipped"]
  <2>1. p.pc = "provision" /\ m.pc = "mark"
    BY <1>0 DEF Task
  <2>2. task[w][j].pc = "queued" /\ (SetTask(w, j, p) \/ SetTask(w, j, m))
    BY <1>4 DEF LoadAsset
  <2> HIDE DEF p, m
  <2> QED BY <1>1, <2>1, <2>2
<1>5. ASSUME Provision(w, j)
      PROVE  task[w][j].pc = "provision" /\ task'[w][j].pc = "mark"
  <2>1. PICK outcome \in {"success", "failed"} :
          SetTask(w, j, [task[w][j] EXCEPT !.pc = "mark", !.outcome = outcome])
    BY <1>5 DEF Provision
  <2> DEFINE m == [task[w][j] EXCEPT !.pc = "mark", !.outcome = outcome]
  <2>2. m.pc = "mark"
    BY <1>0 DEF Task
  <2>3. task[w][j].pc = "provision" /\ SetTask(w, j, m)
    BY <1>5, <2>1 DEF Provision
  <2> HIDE DEF m
  <2> QED BY <1>1, <2>2, <2>3
<1>6. ASSUME NEW from \in {"mark", "bind"}, NEW to \in {"bind", "alert"},
             task[w][j].pc = from, SetTask(w, j, [task[w][j] EXCEPT !.pc = to])
      PROVE  /\ task'[w][j].pc = to
             /\ task'[w][j].outcome = task[w][j].outcome
             /\ task'[w][j].attempt = task[w][j].attempt
  <2> DEFINE b == [task[w][j] EXCEPT !.pc = to]
  <2>1. b.pc = to /\ b.outcome = task[w][j].outcome /\ b.attempt = task[w][j].attempt
    BY <1>0 DEF Task
  <2>2. SetTask(w, j, b)
    BY <1>6
  <2> HIDE DEF b
  <2> QED BY <1>1, <2>1, <2>2
<1>7. ASSUME MarkJob(w, j)
      PROVE  /\ task[w][j].pc = "mark" /\ task'[w][j].pc = "bind"
             /\ task'[w][j].outcome = task[w][j].outcome
             /\ task'[w][j].attempt = task[w][j].attempt
  <2>1. task[w][j].pc = "mark" /\ SetTask(w, j, [task[w][j] EXCEPT !.pc = "bind"])
    BY <1>7 DEF MarkJob
  <2> QED BY <1>6, <2>1
<1>8. ASSUME MarkBinding(w, j)
      PROVE  /\ task[w][j].pc = "bind" /\ task'[w][j].pc = "alert"
             /\ task'[w][j].outcome = task[w][j].outcome
             /\ task'[w][j].attempt = task[w][j].attempt
  <2>1. task[w][j].pc = "bind" /\ SetTask(w, j, [task[w][j] EXCEPT !.pc = "alert"])
    BY <1>8 DEF MarkBinding
  <2> QED BY <1>6, <2>1
<1>9. ASSUME MarkAlert(w, j) \/ TaskAborts(w, j)
      PROVE  task'[w][j].pc = "none" /\ (MarkAlert(w, j) => task[w][j].pc = "alert")
  <2>1. NoTask.pc = "none" /\ SetTask(w, j, NoTask)
    BY <1>9 DEF MarkAlert, TaskAborts, NoTask
  <2> QED BY <1>1, <2>1 DEF MarkAlert
<1> QED BY <1>3, <1>4, <1>5, <1>7, <1>8, <1>9

LEMMA RestartEffect ==
  ASSUME IInv, NEW w \in Workers, WorkerRestarts(w)
  PROVE  /\ \A v \in Workers, k \in JobIds :
              task'[v][k].pc # "none" => v # w /\ task'[v][k] = task[v][k]
         /\ UNCHANGED <<jobs, binding, alert, req>> /\ faults' = faults + 1
<1>1. NoTask.pc = "none"
  BY DEF NoTask
<1>2. \A v \in Workers, k \in JobIds :
        task'[v][k] = IF v = w THEN NoTask ELSE task[v][k]
  BY DEF IInv, TypeOK, WorkerRestarts
<1> QED BY <1>1, <1>2 DEF WorkerRestarts, Fault

\* The steps that are neither a claim nor a task's leave the tasks alone.
LEMMA TasksUnchanged ==
  ASSUME IInv, [Next]_vars
  PROVE  \/ UNCHANGED task
         \/ \E w \in Workers : Claim(w) \/ WorkerRestarts(w)
         \/ \E w \in Workers, j \in JobIds : TaskStep(w, j) \/ TaskAborts(w, j)
  BY DEF Next, vars, EnqueueStep, CreateAsset, UpdateAsset, TriggerSync, EnqueueReadClass,
         EnqueueReadInflight, EnqueueRefresh, EnqueueInsert, EnqueueBind, RequestAborts,
         BackoffElapses, CloseAlert

\* The steps that make a job run, or end its run.
LEMMA OrphanNext ==
  ASSUME IInv, OrphanOnlyByFault, [Next]_vars
  PROVE  OrphanOnlyByFault'
<1> SUFFICES ASSUME faults' = 0, NEW j \in JobIds, jobs'[j].status = "running"
             PROVE  \E w \in Workers : task'[w][j].pc \in {"queued", "provision", "mark"}
  BY DEF OrphanOnlyByFault, Orphaned, Owning
<1>1. ASSUME faults' = faults + 1
      PROVE  FALSE
  BY <1>1 DEF IInv, TypeOK
<1>2. faults = 0 /\ jobs[j].status = "running" =>
        \E w \in Workers : task[w][j].pc \in {"queued", "provision", "mark"}
  BY DEF OrphanOnlyByFault, Orphaned, Owning
<1>3. ASSUME NEW w \in Workers, Claim(w)
      PROVE  \E v \in Workers : task'[v][j].pc \in {"queued", "provision", "mark"}
  BY <1>2, <1>3, ClaimEffect
<1>4. ASSUME NEW w \in Workers, NEW k \in JobIds, TaskStep(w, k)
      PROVE  \E v \in Workers : task'[v][j].pc \in {"queued", "provision", "mark"}
  <2>1. faults = 0 /\ jobs[j].status = "running"
    <3>1. CASE MarkJob(w, k)
      BY <1>4, <3>1, MarkEffect DEF MarkJob
    <3> QED BY <1>4, <3>1 DEF TaskStep, LoadAsset, Provision, MarkBinding, MarkAlert
  <2>2. PICK v \in Workers : task[v][j].pc \in {"queued", "provision", "mark"}
    BY <1>2, <2>1
  <2>3. CASE v # w \/ k # j
    BY <1>4, <2>2, <2>3, TaskMoves
  <2>4. CASE v = w /\ k = j
    <3>1. ~MarkJob(w, k)
      BY <2>4, MarkEffect
    <3> QED BY <1>4, <2>2, <2>4, <3>1, TaskMoves DEF TaskStep
  <2> QED BY <2>3, <2>4
<1>5. ASSUME UNCHANGED task, faults' # faults + 1
      PROVE  \E v \in Workers : task'[v][j].pc \in {"queued", "provision", "mark"}
  <2>1. jobs[j].status = "running" /\ faults = 0
    <3>1. CASE \E r \in Requests : EnqueueRefresh(r)
      <4>1. PICK r \in Requests : EnqueueRefresh(r)
        BY <3>1
      <4>2. req[r].job \in JobIds /\ jobs' = [jobs EXCEPT ![req[r].job].due = TRUE]
        BY <4>1 DEF IInv, RequestSound, EnqueueRefresh
      <4> QED BY <4>1, <4>2 DEF IInv, TypeOK, Job, EnqueueRefresh
    <3>2. CASE \E r \in Requests : EnqueueInsert(r)
      BY <3>2 DEF IInv, TypeOK, EnqueueInsert
    <3>3. CASE \E k \in JobIds : BackoffElapses(k)
      BY <3>3 DEF IInv, TypeOK, Job, BackoffElapses
    <3>4. CASE UNCHANGED <<jobs, faults>>
      BY <3>4
    <3>5. \/ UNCHANGED <<jobs, faults>> \/ faults' = faults + 1
          \/ \E r \in Requests : EnqueueRefresh(r) \/ EnqueueInsert(r)
          \/ \E k \in JobIds : BackoffElapses(k)
          \/ \E w \in Workers : Claim(w)
          \/ \E w \in Workers, k \in JobIds : TaskStep(w, k)
      BY DEF Next, vars, EnqueueStep, CreateAsset, UpdateAsset, TriggerSync,
             EnqueueReadClass, EnqueueReadInflight, EnqueueBind, RequestAborts,
             WorkerRestarts, TaskAborts, CloseAlert, Fault
    <3>6. ~(\E w \in Workers, k \in JobIds : TaskStep(w, k))
      BY <1>5, TaskMoves DEF TaskStep
    <3>7. CASE \E w \in Workers : Claim(w)
      BY <1>5, <3>7, ClaimEffect
    <3> QED BY <1>5, <3>1, <3>2, <3>3, <3>4, <3>5, <3>6, <3>7
  <2> QED BY <1>2, <1>5, <2>1
<1>6. ASSUME NEW w \in Workers, NEW k \in JobIds, TaskAborts(w, k)
      PROVE  FALSE
  BY <1>1, <1>6 DEF TaskAborts, Fault
<1>7. ASSUME NEW w \in Workers, WorkerRestarts(w)
      PROVE  FALSE
  BY <1>1, <1>7 DEF WorkerRestarts, Fault
<1> QED BY <1>1, <1>3, <1>4, <1>5, <1>6, <1>7, TasksUnchanged
-----------------------------------------------------------------------------
\* Between the job write and the binding write, the job shows the result that the
\* task is about to write, when that settles the job.
BindKnows ==
    \A w \in Workers, j \in JobIds :
        task[w][j].pc = "bind" /\ JobAfter(task[w][j]) \in SettledStatus =>
            jobs[j].status = JobAfter(task[w][j])

LEMMA BindKnowsNext ==
  ASSUME IInv, BindKnows, [Next]_vars
  PROVE  BindKnows'
<1> SUFFICES ASSUME NEW w \in Workers, NEW j \in JobIds, task'[w][j].pc = "bind",
                    JobAfter(task'[w][j]) \in SettledStatus
             PROVE  jobs'[j].status = JobAfter(task'[w][j])
  BY DEF BindKnows, JobAfter
<1>1. CASE task'[w][j] = task[w][j]
  <2>1. jobs[j].status = JobAfter(task[w][j]) /\ jobs[j].status # "unused"
    BY <1>1 DEF BindKnows, SettledStatus
  <2> QED BY <1>1, <2>1, UsedJobs
<1>2. CASE MarkJob(w, j)
  <2>1. JobAfter(task'[w][j]) = JobAfter(task[w][j])
    BY <1>2, TaskMoves DEF JobAfter, TaskStep
  <2> QED BY <1>2, <2>1, MarkEffect
<1>3. task'[w][j] = task[w][j] \/ MarkJob(w, j)
  <2>1. ASSUME NEW v \in Workers, Claim(v)
        PROVE  task'[w][j] = task[w][j]
    BY <2>1, ClaimEffect
  <2>2. ASSUME NEW v \in Workers, WorkerRestarts(v)
        PROVE  task'[w][j] = task[w][j]
    BY <2>2, RestartEffect
  <2>3. ASSUME NEW v \in Workers, NEW k \in JobIds, TaskStep(v, k) \/ TaskAborts(v, k),
               task'[w][j] # task[w][j]
        PROVE  MarkJob(w, j)
    <3>1. v = w /\ k = j
      BY <2>3, TaskMoves
    <3> QED BY <2>3, <3>1, TaskMoves DEF TaskStep
  <2> QED BY <2>1, <2>2, <2>3, TasksUnchanged
<1> QED BY <1>1, <1>2, <1>3

\* The writes of a binding.
LEMMA BindingEffect ==
  ASSUME IInv, [Next]_vars, NEW a \in Assets
  PROVE  \/ binding'[a] \in {binding[a], "pending", "running", "failed"}
         \/ \E w \in Workers, j \in JobIds :
              MarkBinding(w, j) /\ jobs[j].asset = a /\ binding'[a] = JobAfter(task[w][j])
<1>0. binding \in [Assets -> BindingStatus]
  BY DEF IInv, TypeOK
<1>1. CASE \E w \in Workers : Claim(w)
  BY <1>1, ClaimEffect
<1>2. CASE \E r \in Requests : EnqueueBind(r)
  BY <1>0, <1>2 DEF EnqueueBind
<1>3. CASE \E w \in Workers, j \in JobIds : MarkBinding(w, j)
  <2>1. PICK w \in Workers, j \in JobIds : MarkBinding(w, j)
    BY <1>3
  <2> DEFINE result == IF JobAfter(task[w][j]) = "pending" THEN "failed" ELSE JobAfter(task[w][j])
  <2>2. binding' = [binding EXCEPT ![jobs[j].asset] = result]
    BY <2>1 DEF MarkBinding
  <2>3. binding'[a] = binding[a] \/ (jobs[j].asset = a /\ binding'[a] = result)
    BY <1>0, <2>2
  <2> QED BY <2>1, <2>3
<1>4. CASE UNCHANGED binding
  BY <1>4
<1> QED BY <1>1, <1>2, <1>3, <1>4
        DEF Next, vars, EnqueueStep, TaskStep, CreateAsset, UpdateAsset, TriggerSync,
            EnqueueReadClass, EnqueueReadInflight, EnqueueRefresh, EnqueueInsert, RequestAborts,
            WorkerRestarts, LoadAsset, Provision, MarkJob, MarkAlert, TaskAborts, BackoffElapses,
            CloseAlert

LEMMA TruthfulNext ==
  ASSUME IInv, BindKnows, BindingTruthful, [Next]_vars
  PROVE  BindingTruthful'
<1> SUFFICES ASSUME NEW a \in Assets, binding'[a] \in SettledStatus
             PROVE  \E j \in JobIds : jobs'[j].asset = a /\ jobs'[j].status = binding'[a]
  BY DEF BindingTruthful
<1>1. ASSUME NEW j \in JobIds, jobs[j].asset = a, jobs[j].status = binding'[a]
      PROVE  jobs'[j].asset = a /\ jobs'[j].status = binding'[a]
  <2>1. jobs[j].status # "unused" /\ jobs[j].status \in SettledStatus
    BY <1>1 DEF SettledStatus
  <2> QED BY <1>1, <2>1, UsedJobs
<1>2. \E j \in JobIds : jobs[j].asset = a /\ jobs[j].status = binding'[a]
  <2>1. CASE binding'[a] = binding[a]
    BY <2>1 DEF BindingTruthful
  <2>2. CASE \E w \in Workers, j \in JobIds :
               MarkBinding(w, j) /\ jobs[j].asset = a /\ binding'[a] = JobAfter(task[w][j])
    BY <2>2 DEF BindKnows, MarkBinding
  <2> QED BY <2>1, <2>2, BindingEffect DEF SettledStatus
<1> QED BY <1>1, <1>2

\* A worker has one task for an asset at most: its batches never overlap, and a
\* batch has one job of each asset.
TaskPerAsset ==
    \A w \in Workers, j, k \in JobIds :
        /\ task[w][j].pc # "none" /\ task[w][k].pc # "none"
        /\ jobs[j].asset = jobs[k].asset
        => j = k

LEMMA TaskPerAssetNext ==
  ASSUME IInv, TaskPerAsset, [Next]_vars
  PROVE  TaskPerAsset'
<1> SUFFICES ASSUME NEW w \in Workers, NEW j \in JobIds, NEW k \in JobIds,
                    task'[w][j].pc # "none", task'[w][k].pc # "none",
                    jobs'[j].asset = jobs'[k].asset
             PROVE  j = k
  BY DEF TaskPerAsset
<1>1. CASE Claim(w)
  <2>1. PICK S \in SUBSET Ready :
          \A i \in JobIds : /\ jobs'[i].asset = jobs[i].asset
                            /\ task'[w][i].pc = IF i \in S THEN "queued" ELSE "none"
    BY <1>1, ClaimEffect
  <2>2. jobs[j].status = "pending" /\ jobs[k].status = "pending"
    BY <2>1 DEF Ready
  <2> QED BY <2>1, <2>2 DEF IInv, OneInflight, InflightStatus
<1>2. CASE ~Claim(w)
  <2>1. task[w][j].pc # "none" /\ task[w][k].pc # "none"
    <3>1. ASSUME NEW v \in Workers, Claim(v)
          PROVE  task[w][j].pc # "none" /\ task[w][k].pc # "none"
      <4>1. v # w
        BY <1>2, <3>1
      <4> QED BY <3>1, <4>1, ClaimEffect
    <3>2. ASSUME NEW v \in Workers, NEW i \in JobIds, TaskStep(v, i) \/ TaskAborts(v, i)
          PROVE  task[w][j].pc # "none" /\ task[w][k].pc # "none"
      BY <3>2, TaskMoves
    <3>3. ASSUME NEW v \in Workers, WorkerRestarts(v)
          PROVE  task[w][j].pc # "none" /\ task[w][k].pc # "none"
      BY <3>3, RestartEffect
    <3> QED BY <3>1, <3>2, <3>3, TasksUnchanged
  <2>2. jobs'[j].asset = jobs[j].asset /\ jobs'[k].asset = jobs[k].asset
    BY <2>1, UsedJobs DEF IInv, TaskSound
  <2> QED BY <2>1, <2>2 DEF TaskPerAsset
<1> QED BY <1>1, <1>2

\* With one API process and no fault: between the binding write and the alert
\* write, the binding shows the task's outcome, or a later request's.
OutcomeShown ==
    faults = 0 =>
        \A w \in Workers, j \in JobIds : task[w][j].pc = "alert" =>
            /\ binding[jobs[j].asset] = "dead_letter" => task[w][j].outcome = "failed"
            /\ binding[jobs[j].asset] \in {"success", "skipped"} => task[w][j].outcome # "failed"

\* The alert does not agree with the binding.
AlertLate(a) ==
    \/ binding[a] = "dead_letter" /\ alert[a] \notin {"active", "closed_by_user"}
    \/ binding[a] \in {"success", "skipped"} /\ alert[a] = "active"

\* ... but the task that wrote the binding is about to write the alert.
AlertComing ==
    faults = 0 =>
        \A a \in Assets : AlertLate(a) =>
            \E w \in Workers, j \in JobIds : jobs[j].asset = a /\ task[w][j].pc = "alert"

LEMMA AlertNext ==
  ASSUME IInv, TaskPerAsset, OutcomeShown, AlertComing, [Next]_vars,
         \A v, w \in Workers : v = w
  PROVE  OutcomeShown' /\ AlertComing'
<1>0. /\ binding \in [Assets -> BindingStatus] /\ alert \in [Assets -> AlertStatus]
      /\ faults \in Nat
  BY DEF IInv, TypeOK
<1>1. ASSUME NEW w \in Workers, NEW j \in JobIds, task[w][j].pc # "none"
      PROVE  jobs[j].asset \in Assets /\ jobs'[j].asset = jobs[j].asset
  BY <1>1, UsedJobs DEF IInv, TaskSound, UsedHasAsset
\* A step that leaves the tasks at their alert where they are.
<1>2. ASSUME faults' = 0 => faults = 0,
             \A a \in Assets : \/ binding'[a] = binding[a] /\ alert'[a] \in {alert[a], "closed_by_user"}
                               \/ binding'[a] \in {"pending", "running"},
             \A w \in Workers, j \in JobIds :
                task'[w][j].pc = "alert" => task'[w][j] = task[w][j],
             \A w \in Workers, j \in JobIds :
                task[w][j].pc = "alert" => task'[w][j] = task[w][j]
      PROVE  OutcomeShown' /\ AlertComing'
  <2>1. OutcomeShown'
    <3> SUFFICES ASSUME faults = 0, NEW w \in Workers, NEW j \in JobIds, task'[w][j].pc = "alert"
                 PROVE  /\ binding'[jobs'[j].asset] = "dead_letter" =>
                             task'[w][j].outcome = "failed"
                        /\ binding'[jobs'[j].asset] \in {"success", "skipped"} =>
                             task'[w][j].outcome # "failed"
      BY <1>2 DEF OutcomeShown
    <3>1. task'[w][j] = task[w][j] /\ jobs'[j].asset = jobs[j].asset /\ jobs[j].asset \in Assets
      BY <1>1, <1>2
    <3> QED BY <1>2, <3>1 DEF OutcomeShown
  <2>2. AlertComing'
    <3> SUFFICES ASSUME faults = 0, NEW a \in Assets, AlertLate(a)'
                 PROVE  \E w \in Workers, j \in JobIds :
                          jobs'[j].asset = a /\ task'[w][j].pc = "alert"
      BY <1>2 DEF AlertComing
    <3>1. AlertLate(a)
      BY <1>2 DEF AlertLate
    <3> QED BY <1>1, <1>2, <3>1 DEF AlertComing
  <2> QED BY <2>1, <2>2
<1>3. ASSUME NEW w \in Workers, Claim(w)
      PROVE  OutcomeShown' /\ AlertComing'
  <2>1. PICK S \in SUBSET Ready :
          /\ \A j \in JobIds : /\ task[w][j].pc = "none"
                               /\ task'[w][j].pc = IF j \in S THEN "queued" ELSE "none"
          /\ \A a \in Assets : binding'[a] \in {"running", binding[a]}
          /\ UNCHANGED <<alert, faults>>
    BY <1>3, ClaimEffect
  <2> QED BY <1>2, <2>1
<1>4. ASSUME NEW w \in Workers, NEW j \in JobIds,
             LoadAsset(w, j) \/ Provision(w, j) \/ MarkJob(w, j)
      PROVE  OutcomeShown' /\ AlertComing'
  <2>1. UNCHANGED <<binding, alert, faults>>
    BY <1>4 DEF LoadAsset, Provision, MarkJob
  <2>2. /\ task[w][j].pc # "alert" /\ task'[w][j].pc # "alert"
        /\ \A v \in Workers, k \in JobIds : v # w \/ k # j => task'[v][k] = task[v][k]
    BY <1>4, TaskMoves DEF TaskStep
  <2> QED BY <1>2, <2>1, <2>2
<1>5. ASSUME NEW w \in Workers, NEW j \in JobIds, MarkBinding(w, j)
      PROVE  OutcomeShown' /\ AlertComing'
  <2> DEFINE a == jobs[j].asset
             result == IF JobAfter(task[w][j]) = "pending" THEN "failed" ELSE JobAfter(task[w][j])
  <2>1. /\ task[w][j].pc = "bind" /\ task'[w][j].pc = "alert"
        /\ task'[w][j].outcome = task[w][j].outcome
        /\ \A v \in Workers, k \in JobIds : v # w \/ k # j => task'[v][k] = task[v][k]
    BY <1>5, TaskMoves DEF TaskStep
  <2>2. UNCHANGED <<jobs, alert, faults>> /\ binding' = [binding EXCEPT ![a] = result]
    BY <1>5 DEF MarkBinding
  <2>3. /\ a \in Assets /\ task[w][j].outcome # "unknown" /\ task[w][j] \in Task
        /\ \A k \in JobIds \ {j} : task[w][k].pc # "none" => jobs[k].asset # a
    BY <1>1, <2>1 DEF TaskPerAsset, IInv, TaskSound, TypeOK
  <2>4. /\ result = "dead_letter" => task[w][j].outcome = "failed"
        /\ result \in {"success", "skipped"} => task[w][j].outcome # "failed"
    <3>1. /\ task[w][j].outcome \in {"success", "skipped", "failed"}
          /\ task[w][j].attempt >= MaxAttempts \/ task[w][j].attempt < MaxAttempts
      BY <2>3 DEF Task, Outcome
    <3>2. CASE task[w][j].outcome = "failed"
      <4>1. JobAfter(task[w][j]) \in {"dead_letter", "pending"}
        BY <3>1, <3>2 DEF JobAfter
      <4> QED BY <3>2, <4>1
    <3>3. CASE task[w][j].outcome # "failed"
      <4>1. JobAfter(task[w][j]) = task[w][j].outcome
        BY <3>3 DEF JobAfter
      <4> QED BY <3>1, <3>3, <4>1
    <3> QED BY <3>2, <3>3
  <2> HIDE DEF result
  <2>5. \A b \in Assets : binding'[b] = IF b = a THEN result ELSE binding[b]
    BY <1>0, <2>2
  <2>6. OutcomeShown'
    <3> SUFFICES ASSUME faults = 0, NEW k \in JobIds, task'[w][k].pc = "alert"
                 PROVE  /\ binding'[jobs[k].asset] = "dead_letter" =>
                             task'[w][k].outcome = "failed"
                        /\ binding'[jobs[k].asset] \in {"success", "skipped"} =>
                             task'[w][k].outcome # "failed"
      BY <2>2 DEF OutcomeShown
    <3>1. CASE k = j
      BY <2>1, <2>3, <2>4, <2>5, <3>1
    <3>2. CASE k # j
      <4>1. task'[w][k] = task[w][k] /\ jobs[k].asset # a /\ jobs[k].asset \in Assets
        BY <1>1, <2>1, <2>3, <3>2
      <4> QED BY <2>5, <4>1 DEF OutcomeShown
    <3> QED BY <3>1, <3>2
  <2>7. AlertComing'
    <3> SUFFICES ASSUME faults = 0, NEW b \in Assets, AlertLate(b)'
                 PROVE  \E k \in JobIds : jobs[k].asset = b /\ task'[w][k].pc = "alert"
      BY <2>2 DEF AlertComing
    <3>1. CASE b = a
      BY <2>1, <3>1
    <3>2. CASE b # a
      <4>1. AlertLate(b)
        BY <2>2, <2>5, <3>2 DEF AlertLate
      <4>2. PICK k \in JobIds : jobs[k].asset = b /\ task[w][k].pc = "alert"
        BY <4>1 DEF AlertComing
      <4> QED BY <2>1, <3>2, <4>2
    <3> QED BY <3>1, <3>2
  <2> QED BY <2>6, <2>7
<1>6. ASSUME NEW w \in Workers, NEW j \in JobIds, MarkAlert(w, j)
      PROVE  OutcomeShown' /\ AlertComing'
  <2> DEFINE a == jobs[j].asset
             new == AlertAfter(task[w][j], alert[a])
  <2>1. /\ task[w][j].pc = "alert" /\ task'[w][j].pc = "none"
        /\ \A v \in Workers, k \in JobIds : v # w \/ k # j => task'[v][k] = task[v][k]
    BY <1>6, TaskMoves DEF TaskStep
  <2>2. UNCHANGED <<jobs, binding, faults>> /\ alert' = [alert EXCEPT ![a] = new]
    BY <1>6 DEF MarkAlert
  <2>3. a \in Assets
    BY <1>1, <2>1
  <2>4. \A b \in Assets : alert'[b] = IF b = a THEN new ELSE alert[b]
    BY <1>0, <2>2
  <2>5. OutcomeShown'
    <3> SUFFICES ASSUME faults = 0, NEW k \in JobIds, task'[w][k].pc = "alert"
                 PROVE  task'[w][k] = task[w][k]
      BY <2>2 DEF OutcomeShown
    <3> QED BY <2>1
  <2>6. AlertComing'
    <3> SUFFICES ASSUME faults = 0, NEW b \in Assets, AlertLate(b)'
                 PROVE  \E k \in JobIds : jobs[k].asset = b /\ task'[w][k].pc = "alert"
      BY <2>2 DEF AlertComing
    <3>1. CASE b = a
      <4>1. /\ binding[a] = "dead_letter" => task[w][j].outcome = "failed"
            /\ binding[a] \in {"success", "skipped"} => task[w][j].outcome # "failed"
        BY <2>1 DEF OutcomeShown
      <4>2. /\ task[w][j].outcome = "failed" => new = "active"
            /\ task[w][j].outcome # "failed" => new # "active"
        <5>1. CASE task[w][j].outcome = "failed"
          BY <5>1 DEF AlertAfter
        <5>2. CASE task[w][j].outcome # "failed" /\ alert[a] = "active"
          BY <5>2 DEF AlertAfter
        <5>3. CASE task[w][j].outcome # "failed" /\ alert[a] # "active"
          BY <5>3 DEF AlertAfter
        <5> QED BY <5>1, <5>2, <5>3
      <4> QED BY <2>2, <2>4, <3>1, <4>1, <4>2 DEF AlertLate
    <3>2. CASE b # a
      <4>1. AlertLate(b)
        BY <2>2, <2>4, <3>2 DEF AlertLate
      <4>2. PICK k \in JobIds : jobs[k].asset = b /\ task[w][k].pc = "alert"
        BY <4>1 DEF AlertComing
      <4> QED BY <2>1, <3>2, <4>2
    <3> QED BY <3>1, <3>2
  <2> QED BY <2>5, <2>6
<1>7. ASSUME NEW a \in Assets, CloseAlert(a)
      PROVE  OutcomeShown' /\ AlertComing'
  <2>1. /\ UNCHANGED <<binding, task, faults>>
        /\ \A b \in Assets : alert'[b] \in {alert[b], "closed_by_user"}
    BY <1>0, <1>7 DEF CloseAlert
  <2> QED BY <1>2, <2>1
<1>8. ASSUME NEW r \in Requests, EnqueueBind(r)
      PROVE  OutcomeShown' /\ AlertComing'
  <2>1. /\ UNCHANGED <<alert, task, faults>>
        /\ \A b \in Assets : binding'[b] \in {binding[b], "pending"}
    BY <1>0, <1>8 DEF EnqueueBind
  <2> QED BY <1>2, <2>1
<1>9. CASE UNCHANGED <<binding, alert, task, faults>>
  BY <1>2, <1>9
<1>10. CASE faults' = faults + 1
  BY <1>0, <1>10 DEF OutcomeShown, AlertComing
<1> QED BY <1>3, <1>4, <1>5, <1>6, <1>7, <1>8, <1>9, <1>10
        DEF Next, vars, EnqueueStep, TaskStep, CreateAsset, UpdateAsset, TriggerSync,
            EnqueueReadClass, EnqueueReadInflight, EnqueueRefresh, EnqueueInsert, RequestAborts,
            WorkerRestarts, TaskAborts, BackoffElapses, Fault

\* The queue's own interleavings never leave a running job without a task.
THEOREM OrphansComeFromFaults == Spec => []OrphanOnlyByFault
<1>1. Init => OrphanOnlyByFault
  BY DEF Init, OrphanOnlyByFault, Orphaned
<1> QED BY <1>1, OrphanNext, Invariance, PTL DEF Spec

\* The result a binding shows is the result of a job of that asset, for every
\* order of the writes of handlers and of tasks of any number of API processes,
\* faults between the writes included.
THEOREM BindingsAreTruthful == Spec => []BindingTruthful
<1>1. Init => BindKnows /\ BindingTruthful
  BY DEF Init, BindKnows, BindingTruthful, NoTask, SettledStatus
<1>2. IInv /\ BindKnows /\ BindingTruthful /\ [Next]_vars => BindKnows' /\ BindingTruthful'
  BY BindKnowsNext, TruthfulNext
<1> QED BY <1>1, <1>2, Invariance, PTL DEF Spec

\* In one API process the three writes agree once a job's work is done: a dead
\* letter has its alert, and a recovery closed it.
THEOREM AlertsFollowBindings ==
  ASSUME \A v, w \in Workers : v = w
  PROVE  Spec => []AlertFollowsBinding
<1>1. Init => TaskPerAsset /\ OutcomeShown /\ AlertComing
  BY DEF Init, TaskPerAsset, OutcomeShown, AlertComing, AlertLate, NoTask
<1>2. IInv /\ TaskPerAsset /\ OutcomeShown /\ AlertComing /\ [Next]_vars =>
        TaskPerAsset' /\ OutcomeShown' /\ AlertComing'
  BY TaskPerAssetNext, AlertNext
<1>3. IInv /\ AlertComing => AlertFollowsBinding
  <2> SUFFICES ASSUME IInv, AlertComing, faults = 0, NEW a \in Assets, Quiet(a)
               PROVE  /\ binding[a] = "dead_letter" => alert[a] \in {"active", "closed_by_user"}
                      /\ binding[a] \in {"success", "skipped"} =>
                           alert[a] \in {"none", "closed_by_user", "closed_by_system"}
    BY DEF AlertFollowsBinding
  <2>1. ~AlertLate(a)
    BY DEF AlertComing, Quiet
  <2>2. alert[a] \in AlertStatus
    BY DEF IInv, TypeOK
  <2> QED BY <2>1, <2>2 DEF AlertLate, AlertStatus
<1> QED BY <1>1, <1>2, <1>3, Invariance, PTL DEF Spec
-----------------------------------------------------------------------------
(* Follow-ups of operators, in the behaviours of MCSyncOperations *)

Actions == {"acknowledge", "complete", "defer", "owner", "escalate"}
AnyRow == [state : {"acknowledged", "completed", "deferred"},
           defer : FollowInstants \cup {Absent}, owner : FollowOwners \cup {Absent}]
FollowRow == {row \in AnyRow : row.state = "deferred" => row.defer \in FollowInstants}
WriteRow == [task : FollowTasks, action : Actions, owner : FollowOwners \cup {Absent},
             saw : Nat, read : Nat]

FollowType ==
    /\ rows \in [FollowTasks -> FollowRow \cup {Absent}]
    /\ log \in Seq(WriteRow)
    /\ DOMAIN calls = Calls

\* What the first n writes leave of task t in its row.
CompletionKept(l, t, row, n) ==
    \A k \in 1..n : l[k].task = t /\ l[k].action = "complete" =>
        \/ row # Absent /\ row.state = "completed"
        \/ \E i \in k + 1..n :
             l[i].task = t /\ (l[i].action \in {"acknowledge", "defer"} \/ l[i].saw < k)

OwnerKept(l, t, row, n) ==
    \A k \in 1..n : l[k].task = t /\ l[k].action = "owner" =>
        \/ row # Absent /\ row.owner = l[k].owner
        \/ \E i \in k + 1..n : l[i].task = t /\ (l[i].action = "owner" \/ l[i].read < k)

EscalationKept(l, t, row, n) ==
    \A k \in 1..n : l[k].task = t /\ l[k].action = "escalate" =>
        \/ row # Absent /\ row.state = "acknowledged"
        \/ \E i \in k + 1..n : l[i].task = t /\ l[i].action # "escalate"

RowKept(l, t, row, n) == CompletionKept(l, t, row, n) /\ OwnerKept(l, t, row, n) /\ EscalationKept(l, t, row, n)

RowsKept == \A t \in FollowTasks : RowKept(log, t, rows[t], Len(log))

\* What was completed or escalated before somebody asked to escalate it is not
\* so any more: otherwise it was no candidate.
MayEscalate(l, t, n) ==
    /\ \A k \in 1..n : l[k].task = t /\ l[k].action = "complete" =>
         \E i \in k + 1..n :
           l[i].task = t /\ (l[i].action \in {"acknowledge", "defer"} \/ l[i].saw < k)
    /\ \A k \in 1..n : l[k].task = t /\ l[k].action = "escalate" =>
         \E i \in k + 1..n : l[i].task = t /\ l[i].action # "escalate"

\* What a request that acts on a task holds.
ActsRight(l, call) ==
    /\ call.pc \in {"reread", "write"}
    /\ call.task \in FollowTasks /\ call.action \in Actions
    /\ call.action = "owner" => call.extra \in FollowOwners
    /\ call.action \in {"acknowledge", "complete", "defer"} =>
         call.extra \in FollowInstants \cup {Absent}
    /\ call.action = "defer" => call.extra \in FollowInstants
    /\ call.saw \in 0..Len(l)
    /\ call.action = "escalate" => MayEscalate(l, call.task, call.saw)
    /\ call.pc = "write" => /\ call.read \in call.saw..Len(l)
                            /\ call.row \in FollowRow \cup {Absent}
                            /\ RowKept(l, call.task, call.row, call.read)

RequestsActRight == \A c \in Calls : calls[c].pc = "idle" \/ ActsRight(log, calls[c])

EscalatedApart ==
    \A i, j \in DOMAIN log :
        /\ i < j /\ log[i].task = log[j].task
        /\ log[i].action = "escalate" /\ log[j].action = "escalate" /\ i <= log[j].saw
        => \E m \in i + 1..j - 1 : log[m].task = log[i].task /\ log[m].action # "escalate"

FollowInv == FollowType /\ RowsKept /\ RequestsActRight /\ EscalatedApart

LEMMA FollowTyped ==
    ASSUME FollowType
    PROVE  /\ Len(log) \in Nat /\ DOMAIN log = 1..Len(log)
           /\ \A k \in DOMAIN log : log[k] \in WriteRow
           /\ \A t \in FollowTasks : rows[t] \in FollowRow \cup {Absent}
           /\ Absent \notin FollowRow
  BY RowAssumption, LenProperties, ElementOfSeq DEF FollowType, FollowRow, AnyRow

\* A step that writes no row.
LEMMA FollowKept ==
    ASSUME FollowInv, UNCHANGED <<rows, log>>, DOMAIN calls' = Calls,
           \A c \in Calls : \/ calls'[c] = calls[c] \/ calls'[c].pc = "idle"
                            \/ ActsRight(log, calls'[c])
    PROVE  FollowInv'
<1>1. FollowType' /\ RowsKept' /\ EscalatedApart'
  BY DEF FollowInv, FollowType, RowsKept, EscalatedApart
<1>2. RequestsActRight'
  BY DEF FollowInv, RequestsActRight
<1> QED BY <1>1, <1>2 DEF FollowInv

LEMMA BeginKept ==
    ASSUME FollowInv, NEW c \in Calls, NEW t \in FollowTasks, NEW action \in Actions, NEW extra,
           action = "owner" => extra \in FollowOwners,
           action \in {"acknowledge", "complete", "defer"} => extra \in FollowInstants \cup {Absent},
           action = "defer" => extra \in FollowInstants,
           action = "escalate" => MayEscalate(log, t, Len(log)),
           Following!Begin(c, t, action, extra)
    PROVE  FollowInv'
<1> DEFINE x == [pc |-> "reread", task |-> t, action |-> action, extra |-> extra,
                 saw |-> Len(log)]
<1>1. calls' = [calls EXCEPT ![c] = x] /\ UNCHANGED <<rows, log>>
  BY DEF Following!Begin
<1>2. DOMAIN calls = Calls /\ Len(log) \in Nat
  BY FollowTyped DEF FollowInv, FollowType
<1>3. ActsRight(log, x)
  BY <1>2 DEF ActsRight
<1> HIDE DEF x
<1>4. \A e \in Calls : calls'[e] = calls[e] \/ ActsRight(log, calls'[e])
  BY <1>1, <1>2, <1>3
<1> QED BY <1>1, <1>2, <1>4, FollowKept

LEMMA BeginActionKept ==
    ASSUME FollowInv, NEW c \in Calls,
           \/ Following!BeginFollowUp(c) \/ Following!BeginAssignment(c)
           \/ Following!BeginEscalation(c)
    PROVE  FollowInv'
<1>1. CASE Following!BeginFollowUp(c)
  <2>1. PICK t \in FollowTasks, action \in {"acknowledge", "complete", "defer"},
             until \in FollowInstants \cup {Absent} :
          /\ action = "defer" => until \in FollowInstants
          /\ Following!Begin(c, t, action, until)
    BY <1>1 DEF Following!BeginFollowUp
  <2> QED BY <2>1, BeginKept DEF Actions
<1>2. CASE Following!BeginAssignment(c)
  <2>1. PICK t \in FollowTasks, owner \in FollowOwners : Following!Begin(c, t, "owner", owner)
    BY <1>2 DEF Following!BeginAssignment
  <2> QED BY <2>1, BeginKept DEF Actions
<1>3. CASE Following!BeginEscalation(c)
  <2>1. PICK t \in Following!EscalationCandidates :
          Following!Begin(c, t, "escalate", Following!OwnerOf(t))
    BY <1>3 DEF Following!BeginEscalation
  <2>2. t \in FollowTasks
    BY <2>1 DEF Following!EscalationCandidates, Following!Carryover, Following!Candidates
  <2>3. Following!State(t) # "acknowledged" /\ Following!State(t) # "completed"
    BY <2>1 DEF Following!EscalationCandidates, Following!Carryover, Following!Status
  <2>4. rows[t] # Absent => rows[t].state \notin {"acknowledged", "completed"}
    BY <2>3 DEF Following!State
  <2>5. MayEscalate(log, t, Len(log))
    BY <2>2, <2>4 DEF FollowInv, RowsKept, RowKept, CompletionKept, EscalationKept, MayEscalate
  <2> QED BY <2>1, <2>2, <2>5, BeginKept DEF Actions
<1> QED BY <1>1, <1>2, <1>3

LEMMA RereadKept ==
    ASSUME FollowInv, NEW c \in Calls, Following!Reread(c)
    PROVE  FollowInv'
<1> DEFINE call == calls[c]
           x == [pc |-> "write", task |-> call.task, action |-> call.action,
                 extra |-> call.extra, saw |-> call.saw, read |-> Len(log),
                 row |-> rows[call.task]]
<1>1. calls' = [calls EXCEPT ![c] = x] /\ UNCHANGED <<rows, log>> /\ call.pc = "reread"
  BY DEF Following!Reread
<1>2. DOMAIN calls = Calls /\ Len(log) \in Nat /\ FollowType
  BY FollowTyped DEF FollowInv, FollowType
<1>3. ActsRight(log, call)
  BY <1>1 DEF FollowInv, RequestsActRight
<1>4. ActsRight(log, x)
  <2>1. RowKept(log, call.task, rows[call.task], Len(log))
    BY <1>3 DEF FollowInv, RowsKept, ActsRight
  <2>2. rows[call.task] \in FollowRow \cup {Absent}
    BY <1>2, <1>3, FollowTyped DEF ActsRight
  <2> QED BY <1>2, <1>3, <2>1, <2>2 DEF ActsRight
<1> HIDE DEF x
<1>5. \A e \in Calls : calls'[e] = calls[e] \/ ActsRight(log, calls'[e])
  BY <1>1, <1>2, <1>4
<1> QED BY <1>1, <1>2, <1>5, FollowKept

\* The row that an action writes.
WrittenRow(call) == CASE call.action = "owner" -> Following!AssignedRow(call)
                      [] call.action = "escalate" -> Following!EscalatedRow(call)
                      [] OTHER -> Following!FollowUpRow(call)

LEMMA RowWritten ==
    ASSUME FollowType, NEW call, ActsRight(log, call), call.pc = "write"
    PROVE  LET row == WrittenRow(call)
           IN /\ row \in FollowRow
              /\ call.action = "owner" =>
                   row.owner = call.extra /\ (call.row # Absent => row.state = call.row.state)
              /\ call.action # "owner" /\ call.row # Absent => row.owner = call.row.owner
              /\ call.action = "complete" => row.state = "completed"
              /\ call.action = "escalate" => row.state = "acknowledged"
<1>1. call.row \in FollowRow \cup {Absent} /\ call.action \in Actions
  BY DEF ActsRight
<1>2. CASE call.action = "owner"
  <2>1. call.extra \in FollowOwners /\ WrittenRow(call) = Following!AssignedRow(call)
    BY <1>2 DEF ActsRight, WrittenRow
  <2>2. CASE call.row = Absent
    BY <1>2, <2>1, <2>2 DEF Following!AssignedRow, FollowRow, AnyRow
  <2>3. CASE call.row # Absent
    <3>1. WrittenRow(call) = [call.row EXCEPT !.owner = call.extra] /\ call.row \in FollowRow
      BY <1>1, <2>1, <2>3 DEF Following!AssignedRow
    <3> QED BY <1>2, <2>1, <3>1 DEF FollowRow, AnyRow
  <2> QED BY <2>2, <2>3
<1>3. CASE call.action = "escalate"
  <2>1. WrittenRow(call) = Following!EscalatedRow(call)
    BY <1>3 DEF WrittenRow
  <2>2. CASE call.row = Absent
    BY <1>3, <2>1, <2>2 DEF Following!EscalatedRow, FollowRow, AnyRow
  <2>3. CASE call.row # Absent
    <3>1. WrittenRow(call) = [call.row EXCEPT !.state = "acknowledged"] /\ call.row \in FollowRow
      BY <1>1, <2>1, <2>3 DEF Following!EscalatedRow
    <3> QED BY <1>3, <3>1 DEF FollowRow, AnyRow
  <2> QED BY <2>2, <2>3
<1>4. CASE call.action \in {"acknowledge", "complete", "defer"}
  <2>1. /\ call.extra \in FollowInstants \cup {Absent}
        /\ call.action = "defer" => call.extra \in FollowInstants
    BY <1>4 DEF ActsRight
  <2>2. WrittenRow(call) = [state |-> Following!NewState[call.action], defer |-> call.extra,
                            owner |-> IF call.row = Absent THEN Absent ELSE call.row.owner]
    BY <1>4 DEF WrittenRow, Following!FollowUpRow
  <2>3. /\ Following!NewState[call.action] \in {"acknowledged", "completed", "deferred"}
        /\ call.action = "complete" => Following!NewState[call.action] = "completed"
        /\ Following!NewState[call.action] = "deferred" => call.action = "defer"
    BY <1>4 DEF Following!NewState
  <2>4. (IF call.row = Absent THEN Absent ELSE call.row.owner) \in FollowOwners \cup {Absent}
    BY <1>1 DEF FollowRow, AnyRow
  <2> QED BY <1>4, <2>1, <2>2, <2>3, <2>4 DEF FollowRow, AnyRow
<1> QED BY <1>1, <1>2, <1>3, <1>4 DEF Actions

\* A write appends its entry; what is known of earlier ones stays.
LEMMA FollowWriteKept ==
    ASSUME FollowInv, NEW c \in Calls, Following!Write(c)
    PROVE  FollowInv'
<1> DEFINE call == calls[c]
           n == Len(log)
           row == WrittenRow(call)
           entry == [task |-> call.task, action |-> call.action, owner |-> row.owner,
                     saw |-> call.saw, read |-> call.read]
           t == call.task
<1>1. /\ rows' = [rows EXCEPT ![t] = row] /\ log' = Append(log, entry)
      /\ calls' = [calls EXCEPT ![c] = Following!Idle] /\ call.pc = "write"
  BY DEF Following!Write, WrittenRow
<1>2. /\ FollowType /\ RowsKept /\ RequestsActRight /\ EscalatedApart
      /\ n \in Nat /\ DOMAIN log = 1..n /\ Absent \notin FollowRow /\ DOMAIN calls = Calls
      /\ \A u \in FollowTasks : rows[u] \in FollowRow \cup {Absent}
      /\ rows \in [FollowTasks -> FollowRow \cup {Absent}] /\ log \in Seq(WriteRow)
  BY FollowTyped DEF FollowInv, FollowType
<1>3. ActsRight(log, call)
  BY <1>1, <1>2 DEF RequestsActRight
<1>4. /\ t \in FollowTasks /\ call.action \in Actions
      /\ call.saw \in 0..n /\ call.read \in call.saw..n /\ call.read \in 0..n
      /\ RowKept(log, t, call.row, call.read)
  BY <1>1, <1>2, <1>3 DEF ActsRight
<1>5. /\ row \in FollowRow
      /\ call.action = "owner" =>
           row.owner = call.extra /\ (call.row # Absent => row.state = call.row.state)
      /\ call.action # "owner" /\ call.row # Absent => row.owner = call.row.owner
      /\ call.action = "complete" => row.state = "completed"
      /\ call.action = "escalate" => row.state = "acknowledged"
  BY <1>1, <1>2, <1>3, RowWritten
<1> HIDE DEF row
<1>6. entry \in WriteRow
  BY <1>4, <1>5 DEF WriteRow, FollowRow, AnyRow
<1>7. /\ log' \in Seq(WriteRow) /\ Len(log') = n + 1 /\ DOMAIN log' = 1..n + 1
      /\ \A k \in 1..n : log'[k] = log[k]
      /\ log'[n + 1] = entry
  <2> HIDE DEF entry
  <2> QED BY <1>1, <1>2, <1>6, AppendProperties, LenProperties
<1>8. /\ log'[n + 1].task = t /\ log'[n + 1].action = call.action
      /\ log'[n + 1].owner = row.owner /\ log'[n + 1].saw = call.saw
      /\ log'[n + 1].read = call.read
  BY <1>7
<1> HIDE DEF entry
<1>9. /\ rows'[t] = row /\ rows'[t] # Absent
      /\ \A u \in FollowTasks \ {t} : rows'[u] = rows[u]
      /\ rows' \in [FollowTasks -> FollowRow \cup {Absent}]
  BY <1>1, <1>2, <1>4, <1>5
<1>10. FollowType'
  BY <1>1, <1>2, <1>7, <1>9 DEF FollowType
\* Earlier writes, seen by row r.
<1>11. \A u, r : \A m \in 0..n : RowKept(log, u, r, m) => RowKept(log', u, r, m)
  <2> SUFFICES ASSUME NEW u, NEW r, NEW m \in 0..n, RowKept(log, u, r, m) PROVE RowKept(log', u, r, m)
    OBVIOUS
  <2>1. \A k \in 1..m : log'[k] = log[k]
    BY <1>2, <1>7
  <2>2. \A k \in 1..m : \A i \in k + 1..m : log'[i] = log[i]
    <3>1. \A k \in 1..m : \A i \in k + 1..m : i \in 1..m
      BY <1>2
    <3> QED BY <2>1, <3>1
  <2>3. CompletionKept(log', u, r, m)
    BY <2>1, <2>2 DEF RowKept, CompletionKept
  <2>4. OwnerKept(log', u, r, m)
    BY <2>1, <2>2 DEF RowKept, OwnerKept
  <2>5. EscalationKept(log', u, r, m)
    BY <2>1, <2>2 DEF RowKept, EscalationKept
  <2> QED BY <2>3, <2>4, <2>5 DEF RowKept
<1>12. RequestsActRight'
  <2> SUFFICES ASSUME NEW e \in Calls \ {c}, ActsRight(log, calls[e]), calls'[e] = calls[e]
               PROVE  ActsRight(log', calls'[e])
    <3>1. calls'[c].pc = "idle"
      BY <1>1, <1>2 DEF Following!Idle
    <3>2. \A e \in Calls \ {c} : calls'[e] = calls[e]
      BY <1>1, <1>2
    <3> QED BY <1>2, <3>1, <3>2 DEF RequestsActRight
  <2> DEFINE x == calls[e]
  <2>1. x.saw \in 0..n /\ x.saw \in 0..n + 1
    BY <1>2 DEF ActsRight
  <2>2. MayEscalate(log, x.task, x.saw) => MayEscalate(log', x.task, x.saw)
    <3>1. \A k \in 1..x.saw : log'[k] = log[k]
      BY <1>2, <1>7, <2>1
    <3>2. \A k \in 1..x.saw : \A i \in k + 1..x.saw : i \in 1..x.saw
      BY <1>2, <2>1
    <3> QED BY <3>1, <3>2 DEF MayEscalate
  <2>3. x.pc = "write" => /\ x.read \in 0..n /\ x.read \in x.saw..n + 1
                          /\ RowKept(log', x.task, x.row, x.read)
    BY <1>2, <1>11, <2>1 DEF ActsRight
  <2> QED BY <1>7, <2>1, <2>2, <2>3 DEF ActsRight
<1>13. RowsKept'
  <2> SUFFICES ASSUME NEW u \in FollowTasks PROVE RowKept(log', u, rows'[u], n + 1)
    BY <1>7 DEF RowsKept
  <2>1. RowKept(log, u, rows[u], n)
    BY <1>2 DEF RowsKept
  <2>2. CASE u # t
    <3>1. rows'[u] = rows[u]
      BY <1>9, <2>2
    <3>2. \A k \in 1..n + 1 : log'[k].task = u => k \in 1..n /\ log'[k] = log[k]
      BY <1>2, <1>7, <1>8, <2>2
    <3>3. \A k \in 1..n : \A i \in k + 1..n : i \in k + 1..n + 1 /\ log'[i] = log[i]
      BY <1>2, <1>7
    <3> QED BY <2>1, <3>1, <3>2, <3>3 DEF RowKept, CompletionKept, OwnerKept, EscalationKept
  <2>3. CASE u = t
    <3> SUFFICES RowKept(log', t, row, n + 1)
      BY <1>9, <2>3
    <3>1. \A k \in 1..n : \A m \in 0..n : \A i \in k + 1..m : i \in k + 1..n + 1 /\ log'[i] = log[i]
      BY <1>2, <1>7
    <3>2. \A k \in 1..n : n + 1 \in k + 1..n + 1
      BY <1>2
    <3>3. row # Absent
      BY <1>2, <1>5
    <3>4. CompletionKept(log', t, row, n + 1)
      <4> SUFFICES ASSUME NEW k \in 1..n + 1, log'[k].task = t, log'[k].action = "complete"
                   PROVE  \/ row.state = "completed"
                          \/ \E i \in k + 1..n + 1 :
                               /\ log'[i].task = t
                               /\ log'[i].action \in {"acknowledge", "defer"} \/ log'[i].saw < k
        BY <3>3 DEF CompletionKept
      <4>1. CASE k = n + 1
        BY <1>5, <1>8, <4>1
      <4>2. CASE k \in 1..n
        <5>1. log[k].task = t /\ log[k].action = "complete"
          BY <1>7, <4>2
        <5>2. CASE call.saw < k \/ call.action \in {"acknowledge", "defer"}
          BY <1>8, <3>2, <4>2, <5>2
        <5>3. CASE call.action = "complete"
          BY <1>5, <5>3
        <5>4. CASE call.action = "owner" /\ k <= call.saw
          <6>1. k \in 1..call.read
            BY <1>2, <1>4, <4>2, <5>4
          <6>2. \/ call.row # Absent /\ call.row.state = "completed"
                \/ \E i \in k + 1..call.read :
                     log[i].task = t /\ (log[i].action \in {"acknowledge", "defer"} \/ log[i].saw < k)
            BY <1>4, <5>1, <6>1 DEF RowKept, CompletionKept
          <6> QED BY <1>4, <1>5, <3>1, <4>2, <5>4, <6>2
        <5>5. CASE call.action = "escalate" /\ k <= call.saw
          <6>1. k \in 1..call.saw
            BY <1>2, <1>4, <4>2, <5>5
          <6>2. \E i \in k + 1..call.saw :
                  log[i].task = t /\ (log[i].action \in {"acknowledge", "defer"} \/ log[i].saw < k)
            BY <1>3, <5>1, <5>5, <6>1 DEF ActsRight, MayEscalate
          <6> QED BY <1>4, <3>1, <4>2, <6>2
        <5> QED BY <1>2, <1>4, <4>2, <5>2, <5>3, <5>4, <5>5 DEF Actions
      <4> QED BY <1>2, <4>1, <4>2
    <3>5. OwnerKept(log', t, row, n + 1)
      <4> SUFFICES ASSUME NEW k \in 1..n + 1, log'[k].task = t, log'[k].action = "owner"
                   PROVE  \/ row.owner = log'[k].owner
                          \/ \E i \in k + 1..n + 1 :
                               /\ log'[i].task = t
                               /\ log'[i].action = "owner" \/ log'[i].read < k
        BY <3>3 DEF OwnerKept
      <4>1. CASE k = n + 1
        BY <1>8, <4>1
      <4>2. CASE k \in 1..n
        <5>1. log[k].task = t /\ log[k].action = "owner" /\ log'[k] = log[k]
          BY <1>7, <4>2
        <5>2. CASE call.read < k \/ call.action = "owner"
          BY <1>8, <3>2, <4>2, <5>2
        <5>3. CASE call.action # "owner" /\ k <= call.read
          <6>1. k \in 1..call.read
            BY <1>2, <1>4, <4>2, <5>3
          <6>2. \/ call.row # Absent /\ call.row.owner = log[k].owner
                \/ \E i \in k + 1..call.read :
                     log[i].task = t /\ (log[i].action = "owner" \/ log[i].read < k)
            BY <1>4, <5>1, <6>1 DEF RowKept, OwnerKept
          <6> QED BY <1>4, <1>5, <3>1, <4>2, <5>1, <5>3, <6>2
        <5> QED BY <1>2, <1>4, <4>2, <5>2, <5>3
      <4> QED BY <1>2, <4>1, <4>2
    <3>6. EscalationKept(log', t, row, n + 1)
      <4> SUFFICES ASSUME NEW k \in 1..n + 1, log'[k].task = t, log'[k].action = "escalate",
                          call.action # "escalate"
                   PROVE  \E i \in k + 1..n + 1 : log'[i].task = t /\ log'[i].action # "escalate"
        BY <1>5, <3>3 DEF EscalationKept
      <4>1. k \in 1..n
        BY <1>2, <1>8
      <4> QED BY <1>8, <3>2, <4>1
    <3> QED BY <3>4, <3>5, <3>6 DEF RowKept
  <2> QED BY <2>2, <2>3
<1>14. EscalatedApart'
  <2> SUFFICES ASSUME NEW i \in 1..n + 1, NEW j \in 1..n + 1, i < j,
                      log'[i].task = log'[j].task, log'[i].action = "escalate",
                      log'[j].action = "escalate", i <= log'[j].saw
               PROVE  \E m \in i + 1..j - 1 :
                        log'[m].task = log'[i].task /\ log'[m].action # "escalate"
    BY <1>7 DEF EscalatedApart
  <2>1. i \in 1..n /\ log'[i] = log[i]
    BY <1>2, <1>7
  <2>2. CASE j \in 1..n
    <3>1. PICK m \in i + 1..j - 1 : log[m].task = log[i].task /\ log[m].action # "escalate"
      BY <1>2, <1>7, <2>1, <2>2 DEF EscalatedApart
    <3>2. log'[m] = log[m]
      BY <1>2, <1>7, <2>1, <2>2
    <3> QED BY <2>1, <3>1, <3>2
  <2>3. CASE j = n + 1
    <3>1. i \in 1..call.saw /\ log[i].task = t /\ call.action = "escalate"
      BY <1>4, <1>8, <2>1, <2>3
    <3>2. PICK m \in i + 1..call.saw : log[m].task = t /\ log[m].action # "escalate"
      BY <1>3, <2>1, <3>1 DEF ActsRight, MayEscalate
    <3>3. m \in i + 1..j - 1 /\ m \in 1..n
      BY <1>2, <1>4, <2>1, <2>3
    <3> QED BY <1>7, <2>1, <3>1, <3>2, <3>3
  <2> QED BY <1>2, <2>2, <2>3
<1> QED BY <1>10, <1>12, <1>13, <1>14 DEF FollowInv

LEMMA FollowingNext ==
    ASSUME FollowInv, Following!Next
    PROVE  FollowInv'
<1>1. CASE Following!Observe \/ Following!EditPolicy \/ Following!Tick
  <2>1. UNCHANGED <<rows, log, calls>>
    BY <1>1 DEF Following!Observe, Following!EditPolicy, Following!Tick
  <2> QED BY <2>1, FollowKept DEF FollowInv, FollowType
<1>2. ASSUME NEW c \in Calls, Following!Abandon(c) PROVE FollowInv'
  <2>1. calls' = [calls EXCEPT ![c] = Following!Idle] /\ UNCHANGED <<rows, log>>
    BY <1>2 DEF Following!Abandon
  <2>2. DOMAIN calls = Calls
    BY DEF FollowInv, FollowType
  <2>3. \A e \in Calls : calls'[e] = calls[e] \/ calls'[e].pc = "idle"
    BY <2>1, <2>2 DEF Following!Idle
  <2> QED BY <2>1, <2>2, <2>3, FollowKept
<1> QED BY <1>1, <1>2, BeginActionKept, RereadKept, FollowWriteKept DEF Following!Next

LEMMA FollowingKept ==
    ASSUME FollowInv
    PROVE  Following!FollowUpsAreKept
<1>1. Len(log) \in Nat /\ DOMAIN log = 1..Len(log) /\ RowsKept /\ EscalatedApart
  BY FollowTyped DEF FollowInv
<1> SUFFICES ASSUME NEW t \in FollowTasks
    PROVE  /\ \A k \in Following!Of(t, "complete") :
                \/ rows[t].state = "completed"
                \/ \E i \in Following!Writes(t, k) :
                     log[i].action \in {"acknowledge", "defer"} \/ log[i].saw < k
           /\ \A k \in Following!Of(t, "owner") :
                \/ rows[t].owner = log[k].owner
                \/ \E i \in Following!Writes(t, k) : log[i].action = "owner" \/ log[i].read < k
           /\ \A i, j \in Following!Of(t, "escalate") :
                i < j => \/ log[j].saw < i
                         \/ \E m \in Following!Writes(t, i) : m < j /\ log[m].action # "escalate"
  BY DEF Following!FollowUpsAreKept
<1>2. /\ \A k \in 1..Len(log) : \A i \in k + 1..Len(log) :
           log[i].task = t => i \in Following!Writes(t, k)
      /\ \A a : \A k \in Following!Of(t, a) :
           k \in 1..Len(log) /\ log[k].task = t /\ log[k].action = a
  BY <1>1 DEF Following!Of, Following!Writes
<1>3. RowKept(log, t, rows[t], Len(log))
  BY <1>1 DEF RowsKept
<1>4. \A k \in Following!Of(t, "complete") :
        \/ rows[t].state = "completed"
        \/ \E i \in Following!Writes(t, k) :
             log[i].action \in {"acknowledge", "defer"} \/ log[i].saw < k
  BY <1>2, <1>3 DEF RowKept, CompletionKept
<1>5. \A k \in Following!Of(t, "owner") :
        \/ rows[t].owner = log[k].owner
        \/ \E i \in Following!Writes(t, k) : log[i].action = "owner" \/ log[i].read < k
  BY <1>2, <1>3 DEF RowKept, OwnerKept
<1>6. ASSUME NEW i \in Following!Of(t, "escalate"), NEW j \in Following!Of(t, "escalate"),
             i < j, ~(log[j].saw < i)
      PROVE  \E m \in Following!Writes(t, i) : m < j /\ log[m].action # "escalate"
  <2>1. i <= log[j].saw
    <3>1. log[j].saw \in Nat /\ i \in Nat
      BY <1>1, <1>2, FollowTyped DEF FollowInv, WriteRow
    <3> QED BY <1>6, <3>1
  <2>2. PICK m \in i + 1..j - 1 : log[m].task = t /\ log[m].action # "escalate"
    BY <1>1, <1>2, <1>6, <2>1 DEF EscalatedApart
  <2> QED BY <1>1, <1>2, <2>2
<1> QED BY <1>4, <1>5, <1>6
-----------------------------------------------------------------------------
(* Profiles, in the behaviours of MCSyncOperations *)

SectionRow == [saved : ProfileNames \cup {"edited"}, own : {"edited", "set"},
               kept : {"edited", "default"}]
SectionRows == [ProfileSections -> SectionRow \cup {Absent}]
Values == ProfileNames \cup {"edited", Absent}
Snapshots == [ProfileSections -> Values]
SnapshotOf(sections) == [s \in ProfileSections |-> Applying!Saved(sections[s])]
CommitRow == [what : {"edit", "apply", "revert"}, run : Nat, saw : Nat, rows : SectionRows]
RunRow == [status : {"applied", "reverted"}, before : Snapshots]
Steps == Len(SectionOrder)

ProfileType ==
    /\ rows \in SectionRows
    /\ log \in Seq(CommitRow)
    /\ runs \in Seq(RunRow)
    /\ DOMAIN calls = Calls

\* The rows as the first n commits left them.
RowsAfter(l, n) == IF n = 0 THEN [s \in ProfileSections |-> Absent] ELSE l[n].rows

\* Only a commit changes rows.
RowsAreCommitted == rows = RowsAfter(log, Len(log))

\* A run knows the rows before it, and a reverted one is marked.
RunsAreKept ==
    \A i \in DOMAIN log :
        /\ log[i].what = "apply" =>
             /\ log[i].run \in DOMAIN runs
             /\ log[i].saw = i - 1 => runs[log[i].run].before = SnapshotOf(RowsAfter(log, i - 1))
             /\ log[i].saw = i - 1 =>
                  \E p \in ProfileNames : SnapshotOf(log[i].rows) = [s \in ProfileSections |-> p]
        /\ log[i].what = "revert" =>
             log[i].run \in DOMAIN runs /\ runs[log[i].run].status = "reverted"

\* What a request holds.
ReadCall == [pc : {"read"}, profile : ProfileNames, before : Snapshots, done : 0..Steps - 1,
             saw : Nat]
WriteCall == [pc : {"write"}, what : {"apply", "revert"}, run : Nat,
              before : Snapshots \cup {<<>>}, values : Snapshots,
              locks : SUBSET ProfileSections, found : {"unasked", "there", "missing"},
              done : 0..Steps, saw : Nat]

\* One that reads: the sections it has read are still so unless something
\* was committed since.
Reading(l, now_, call) ==
    /\ call \in ReadCall /\ call.saw <= Len(l)
    /\ call.saw = Len(l) =>
         \A k \in 1..call.done : call.before[SectionOrder[k]] = Applying!Saved(now_[SectionOrder[k]])

\* Unless something was committed since, a section that was written is locked,
\* one that was to be deleted is locked or is not there, and a row that was found
\* is there.
Locks(l, now_, call) ==
    call.saw = Len(l) =>
      /\ \A k \in 1..call.done :
           \/ SectionOrder[k] \in call.locks
           \/ call.values[SectionOrder[k]] = Absent /\ now_[SectionOrder[k]] = Absent
      /\ call.found = "there" => now_[SectionOrder[call.done + 1]] # Absent

Restoring(l, now_, made, call) ==
    /\ call \in WriteCall /\ call.saw <= Len(l)
    /\ Locks(l, now_, call)
    /\ \/ /\ call.what = "apply" /\ call.before \in Snapshots
          /\ \E p \in ProfileNames : call.values = [s \in ProfileSections |-> p]
          /\ call.saw = Len(l) => call.before = SnapshotOf(now_)
       \/ /\ call.what = "revert" /\ call.run \in DOMAIN made
          /\ call.values = made[call.run].before
          /\ \A i \in DOMAIN l : l[i].what = "revert" /\ l[i].run = call.run => call.saw < i

RequestsKnow ==
    \A c \in Calls : \/ calls[c].pc = "idle" \/ Reading(log, rows, calls[c])
                     \/ Restoring(log, rows, runs, calls[c])

\* A revert that saw the last commit before its own, of a run that did so too,
\* leaves the columns of the snapshot as they were before that run.
BringsBack(before, after) ==
    /\ SnapshotOf(after) = SnapshotOf(before)
    /\ \A s \in ProfileSections : before[s] # Absent => after[s].own = "set"
Restores ==
    \A i, j \in DOMAIN log :
        /\ log[i].what = "apply" /\ log[j].what = "revert" /\ log[i].run = log[j].run
        /\ log[i].saw = i - 1 /\ log[j].saw = j - 1
        => BringsBack(RowsAfter(log, i - 1), log[j].rows)

\* A profile leaves the other columns of a row that stays alone.
LeavesAlone(before, after) ==
    \A s \in ProfileSections :
        before[s] # Absent /\ after[s] # Absent => after[s].kept = before[s].kept
OthersAreKept ==
    \A i \in DOMAIN log : log[i].what # "edit" => LeavesAlone(RowsAfter(log, i - 1), log[i].rows)

RevertsLooked ==
    \A i, j \in DOMAIN log :
        /\ i < j /\ log[i].what = "revert" /\ log[j].what = "revert" /\ log[i].run = log[j].run
        => log[j].saw < i

ProfileInv == /\ ProfileType /\ RowsAreCommitted /\ RunsAreKept /\ RequestsKnow
              /\ Restores /\ OthersAreKept /\ RevertsLooked

LEMMA SectionsOrdered ==
    /\ Steps \in Nat \ {0} /\ DOMAIN SectionOrder = 1..Steps
    /\ \A k \in 1..Steps : SectionOrder[k] \in ProfileSections
    /\ \A s \in ProfileSections : \E k \in 1..Steps : SectionOrder[k] = s
    /\ Applying!Range(SectionOrder) = ProfileSections
<1> DEFINE m == Cardinality(ProfileSections)
           Is(order) == \A s \in ProfileSections : \E i \in DOMAIN order : order[i] = s
<1>1. m \in Nat /\ ExistsBijection(1..m, ProfileSections)
  BY SectionsAssumption, FS_CardinalityType
<1>2. \E order \in [1..m -> ProfileSections] : Is(order)
  <2>1. PICK order \in Bijection(1..m, ProfileSections) : TRUE
    BY <1>1 DEF ExistsBijection
  <2>2. order \in [1..m -> ProfileSections]
    BY <2>1 DEF Bijection, Injection
  <2>3. Is(order)
    BY <2>1, <2>2 DEF Bijection, Surjection
  <2> QED BY <2>2, <2>3
<1>3. SectionOrder \in [1..m -> ProfileSections] /\ Is(SectionOrder)
  <2>1. SectionOrder = CHOOSE order \in [1..m -> ProfileSections] : Is(order)
    BY DEF SectionOrder
  <2> HIDE DEF Is, m
  <2> QED BY <1>2, <2>1
<1>4. Steps = m
  <2> HIDE DEF m
  <2> QED BY <1>1, <1>3, LenProperties, IsASeq DEF Steps
<1>5. m # 0
  <2>1. PICK s \in ProfileSections : TRUE
    BY SectionsAssumption
  <2>2. \E i \in 1..m : SectionOrder[i] = s
    BY <1>3
  <2> QED BY <1>1, <2>2
<1>6. Applying!Range(SectionOrder) = ProfileSections
  BY <1>3 DEF Applying!Range
<1> HIDE DEF m
<1> QED BY <1>1, <1>3, <1>4, <1>5, <1>6

LEMMA ProfilesTyped ==
    ASSUME ProfileType
    PROVE  /\ Len(log) \in Nat /\ DOMAIN log = 1..Len(log)
           /\ \A i \in DOMAIN log : log[i] \in CommitRow
           /\ Len(runs) \in Nat /\ DOMAIN runs = 1..Len(runs)
           /\ \A r \in DOMAIN runs : runs[r] \in RunRow
  BY LenProperties, ElementOfSeq DEF ProfileType

\* What a snapshot keeps of the rows, and of a section whose row is there.
LEMMA SnapshotsTyped ==
    /\ \A r \in SectionRows : SnapshotOf(r) \in Snapshots
    /\ \A row \in SectionRow : row # Absent /\ row.saved # Absent
    /\ \A row \in SectionRow \cup {Absent} :
         Applying!Saved(row) \in Values /\ (row # Absent => Applying!Saved(row) # Absent)
<1>1. \A row \in SectionRow : row # Absent /\ row.saved # Absent
  BY SectionsAssumption DEF SectionRow
<1>2. \A row \in SectionRow \cup {Absent} :
        Applying!Saved(row) \in Values /\ (row # Absent => Applying!Saved(row) # Absent)
  BY <1>1 DEF Applying!Saved, SectionRow, Values
<1>3. \A r \in SectionRows : SnapshotOf(r) \in Snapshots
  BY <1>2 DEF SectionRows, SnapshotOf, Snapshots
<1> QED BY <1>1, <1>2, <1>3

LEMMA AllOfRows ==
    ASSUME NEW v
    PROVE  Applying!AllOf(v) = [s \in ProfileSections |-> v]
  BY SectionsOrdered DEF Applying!AllOf

\* A step of one request that commits nothing.
LEMMA RequestKept ==
    ASSUME ProfileInv, UNCHANGED <<rows, runs, log>>, NEW c \in Calls, NEW x,
           Applying!Goto(c, x),
           x.pc = "idle" \/ Reading(log, rows, x) \/ Restoring(log, rows, runs, x)
    PROVE  ProfileInv'
<1>1. calls' = [calls EXCEPT ![c] = x] /\ DOMAIN calls = Calls
  BY DEF Applying!Goto, ProfileInv, ProfileType
<1>2. RequestsKnow'
  BY <1>1 DEF ProfileInv, RequestsKnow
<1> QED BY <1>1, <1>2 DEF ProfileInv, ProfileType, RowsAreCommitted, RunsAreKept, Restores,
        OthersAreKept, RevertsLooked

LEMMA BeginApplyKept ==
    ASSUME ProfileInv, NEW c \in Calls, Applying!BeginApply(c)
    PROVE  ProfileInv'
<1>1. PICK p \in ProfileNames :
        Applying!Goto(c, [pc |-> "read", profile |-> p, before |-> Applying!AllOf(Absent),
                          done |-> 0, saw |-> Len(log)])
  BY DEF Applying!BeginApply
<1> DEFINE x == [pc |-> "read", profile |-> p, before |-> Applying!AllOf(Absent), done |-> 0,
                 saw |-> Len(log)]
<1>2. Applying!AllOf(Absent) \in Snapshots
  BY AllOfRows DEF Snapshots, Values
<1>3. x \in ReadCall
  BY <1>2, SectionsOrdered, ProfilesTyped DEF ReadCall, ProfileInv
<1>5. Reading(log, rows, x)
  BY <1>3, ProfilesTyped DEF Reading, ProfileInv
<1>4. UNCHANGED <<rows, runs, log>>
  BY DEF Applying!BeginApply
<1> HIDE DEF x
<1> QED BY <1>1, <1>4, <1>5, RequestKept DEF x

LEMMA ReadSectionKept ==
    ASSUME ProfileInv, NEW c \in Calls, Applying!ReadSection(c)
    PROVE  ProfileInv'
<1> DEFINE call == calls[c]
           s == SectionOrder[call.done + 1]
           before == [call.before EXCEPT ![s] = Applying!Saved(rows[s])]
           x == [call EXCEPT !.before = before, !.done = call.done + 1]
           y == Applying!Writing("apply", 0, before, Applying!AllOf(call.profile), call.saw)
<1>1. /\ Applying!Goto(c, IF call.done + 1 < Len(SectionOrder) THEN x ELSE y)
      /\ UNCHANGED <<rows, runs, log>> /\ call.pc = "read"
  BY DEF Applying!ReadSection, Applying!Section
<1>2. Reading(log, rows, call)
  BY <1>1 DEF ProfileInv, RequestsKnow, Restoring, WriteCall
<1>3. /\ rows \in SectionRows /\ Len(log) \in Nat
      /\ Steps \in Nat \ {0} /\ Len(SectionOrder) = Steps
      /\ \A k \in 1..Steps : SectionOrder[k] \in ProfileSections
      /\ \A v \in ProfileSections : \E k \in 1..Steps : SectionOrder[k] = v
  BY SectionsOrdered, ProfilesTyped DEF ProfileInv, ProfileType, Steps
<1>4. /\ call \in ReadCall /\ call.saw <= Len(log) /\ call.saw \in Nat
      /\ call.profile \in ProfileNames /\ call.done \in 0..Steps - 1
      /\ call.before \in Snapshots
      /\ call.saw = Len(log) =>
           \A k \in 1..call.done : call.before[SectionOrder[k]] = Applying!Saved(rows[SectionOrder[k]])
  BY <1>2 DEF Reading, ReadCall
<1>5. call.done + 1 \in 1..Steps /\ s \in ProfileSections
  BY <1>3, <1>4
<1> HIDE DEF s
<1>6. /\ before \in Snapshots
      /\ call.saw = Len(log) =>
           \A k \in 1..call.done + 1 : before[SectionOrder[k]] = Applying!Saved(rows[SectionOrder[k]])
  <2>1. before \in Snapshots
    <3>1. Applying!Saved(rows[s]) \in Values
      BY <1>3, <1>5, SnapshotsTyped DEF SectionRows
    <3> QED BY <1>4, <1>5, <3>1 DEF Snapshots
  <2>2. ASSUME call.saw = Len(log), NEW k \in 1..call.done + 1
        PROVE  before[SectionOrder[k]] = Applying!Saved(rows[SectionOrder[k]])
    <3>1. SectionOrder[k] \in ProfileSections
      BY <1>3, <1>4
    <3>2. CASE k = call.done + 1
      BY <1>4, <1>5, <3>2 DEF s, Snapshots
    <3>3. CASE k \in 1..call.done
      BY <1>4, <1>5, <2>2, <3>1, <3>3 DEF Snapshots
    <3> QED BY <1>4, <3>2, <3>3
  <2> QED BY <2>1, <2>2
<1> HIDE DEF before
<1>7. CASE call.done + 1 < Steps
  <2>1. Reading(log, rows, x)
    <3>1. /\ x.saw = call.saw /\ x.done = call.done + 1 /\ x.before = before
      BY <1>4 DEF ReadCall
    <3>2. x \in ReadCall
      <4>1. call.done + 1 \in 0..Steps - 1
        BY <1>3, <1>4, <1>7
      <4> QED BY <1>4, <1>6, <4>1 DEF ReadCall
    <3> HIDE DEF x
    <3> QED BY <1>4, <1>6, <3>1, <3>2 DEF Reading
  <2> HIDE DEF x, y
  <2> QED BY <1>1, <1>3, <1>7, <2>1, RequestKept
<1>8. CASE ~(call.done + 1 < Steps)
  <2>1. call.done + 1 = Steps
    BY <1>3, <1>4, <1>8
  <2>2. call.saw = Len(log) => before = SnapshotOf(rows)
    <3>1. ASSUME call.saw = Len(log), NEW v \in ProfileSections PROVE before[v] = Applying!Saved(rows[v])
      BY <1>3, <1>6, <2>1, <3>1
    <3> QED BY <1>6, <3>1 DEF Snapshots, SnapshotOf
  <2>3. Applying!AllOf(call.profile) = [v \in ProfileSections |-> call.profile]
    BY AllOfRows
  <2>4. [v \in ProfileSections |-> call.profile] \in Snapshots
    BY <1>4 DEF Snapshots, Values
  <2>5. y \in WriteCall
    BY <1>3, <1>4, <1>6, <2>3, <2>4 DEF WriteCall, Applying!Writing
  <2>6. /\ y.what = "apply" /\ y.before = before /\ y.saw = call.saw /\ y.done = 0
        /\ y.found = "unasked"
        /\ y.values = [v \in ProfileSections |-> call.profile]
    BY <2>3 DEF Applying!Writing
  <2>7. Locks(log, rows, y)
    BY <2>6 DEF Locks
  <2>8. Restoring(log, rows, runs, y)
    BY <1>4, <1>6, <2>2, <2>5, <2>6, <2>7 DEF Restoring
  <2> HIDE DEF x, y
  <2> QED BY <1>1, <1>3, <1>8, <2>8, RequestKept
<1> QED BY <1>7, <1>8

LEMMA BeginRevertKept ==
    ASSUME ProfileInv, NEW c \in Calls, Applying!BeginRevert(c)
    PROVE  ProfileInv'
<1>1. PICK r \in DOMAIN runs :
        /\ runs[r].status = "applied"
        /\ Applying!Goto(c, Applying!Writing("revert", r, <<>>, runs[r].before, Len(log)))
  BY DEF Applying!BeginRevert
<1> DEFINE x == Applying!Writing("revert", r, <<>>, runs[r].before, Len(log))
<1>2. UNCHANGED <<rows, runs, log>>
  BY DEF Applying!BeginRevert
<1>3. Len(log) \in Nat /\ runs[r].before \in Snapshots /\ Steps \in Nat
  BY ProfilesTyped, SectionsOrdered DEF ProfileInv, RunRow
<1>4. \A i \in DOMAIN log : log[i].what = "revert" => log[i].run # r
  BY <1>1 DEF ProfileInv, RunsAreKept
<1>5. x \in WriteCall /\ r \in DOMAIN runs
  BY <1>3, ProfilesTyped DEF WriteCall, Applying!Writing, ProfileInv
<1>6. Restoring(log, rows, runs, x)
  BY <1>3, <1>4, <1>5 DEF Restoring, Locks, Applying!Writing
<1> HIDE DEF x
<1> QED BY <1>1, <1>2, <1>6, RequestKept DEF x

\* What the steps of a request that writes keep of it.
LEMMA WritingKept ==
    ASSUME ProfileInv, NEW c \in Calls, Applying!Unfinished(c),
           NEW locks \in SUBSET ProfileSections, NEW n \in {calls[c].done, calls[c].done + 1},
           NEW found \in {"unasked", "there", "missing"}, UNCHANGED <<rows, runs, log>>,
           Applying!Goto(c, [calls[c] EXCEPT !.done = n, !.locks = @ \cup locks, !.found = found]),
           LET s == SectionOrder[calls[c].done + 1]
           IN calls[c].saw = Len(log) =>
                /\ n = calls[c].done + 1 =>
                     s \in locks \/ (calls[c].values[s] = Absent /\ rows[s] = Absent)
                /\ found = "there" => n = calls[c].done /\ rows[s] # Absent
    PROVE  ProfileInv'
<1> DEFINE call == calls[c]
           s == SectionOrder[call.done + 1]
<1>2. call.pc = "write" /\ call.done < Steps
  BY DEF Applying!Unfinished, Steps
<1>3. Restoring(log, rows, runs, call) /\ Steps \in Nat
  BY <1>2, SectionsOrdered DEF ProfileInv, RequestsKnow, Reading, ReadCall
<1>4. call \in WriteCall /\ call.done \in 0..Steps /\ call.locks \in SUBSET ProfileSections
  BY <1>3 DEF Restoring, WriteCall
<1>5. PICK x : x = [call EXCEPT !.done = n, !.locks = @ \cup locks, !.found = found]
  OBVIOUS
<1>6. /\ x.pc = call.pc /\ x.what = call.what /\ x.run = call.run /\ x.before = call.before
      /\ x.values = call.values /\ x.saw = call.saw
      /\ x.done = n /\ x.locks = call.locks \cup locks /\ x.found = found
  BY <1>4, <1>5 DEF WriteCall
<1>7. x \in WriteCall
  <2>1. n \in 0..Steps /\ call.locks \cup locks \in SUBSET ProfileSections
    BY <1>2, <1>3, <1>4
  <2> QED BY <1>4, <1>5, <2>1 DEF WriteCall
<1>8. Locks(log, rows, x)
  <2> SUFFICES ASSUME call.saw = Len(log)
               PROVE  /\ \A k \in 1..n :
                           \/ SectionOrder[k] \in x.locks
                           \/ x.values[SectionOrder[k]] = Absent /\ rows[SectionOrder[k]] = Absent
                      /\ found = "there" => rows[SectionOrder[n + 1]] # Absent
    BY <1>6 DEF Locks
  <2>1. ASSUME NEW k \in 1..n
        PROVE  \/ SectionOrder[k] \in x.locks
               \/ x.values[SectionOrder[k]] = Absent /\ rows[SectionOrder[k]] = Absent
    <3>1. CASE k = call.done + 1
      <4>1. n = call.done + 1
        BY <1>4, <3>1
      <4> QED BY <1>6, <3>1, <4>1
    <3>2. CASE k \in 1..call.done
      BY <1>3, <1>6, <3>2 DEF Restoring, Locks
    <3> QED BY <1>4, <3>1, <3>2
  <2> QED BY <2>1
<1>9. Restoring(log, rows, runs, x)
  BY <1>3, <1>6, <1>7, <1>8 DEF Restoring
<1> QED BY <1>5, <1>9, RequestKept

\* Writing a section, missing one that was deleted, and deleting one.
LEMMA WriteSectionKept ==
    ASSUME ProfileInv, NEW c \in Calls,
           \/ Applying!LookUp(c) \/ Applying!UpsertSection(c)
           \/ Applying!MissSection(c) \/ Applying!DeleteSection(c)
    PROVE  ProfileInv'
<1> DEFINE call == calls[c]
           s == SectionOrder[call.done + 1]
<1>1. Applying!Unfinished(c) /\ UNCHANGED <<rows, runs, log>> /\ call.pc = "write" /\ call.done < Steps
  BY DEF Applying!LookUp, Applying!UpsertSection, Applying!MissSection, Applying!DeleteSection,
         Applying!Unfinished, Steps
<1>2. Restoring(log, rows, runs, call) /\ Steps \in Nat
  BY <1>1, SectionsOrdered DEF ProfileInv, RequestsKnow, Reading, ReadCall
<1>3. call \in WriteCall /\ call.done \in 0..Steps
  BY <1>2 DEF Restoring, WriteCall
<1>4. call.done + 1 \in 1..Steps /\ s \in ProfileSections /\ call.done # call.done + 1
  BY <1>1, <1>3, SectionsOrdered
<1>5. CASE Applying!LookUp(c)
  <2>1. PICK found \in {"there", "missing"} :
          /\ Applying!Goto(c, [call EXCEPT !.found = found])
          /\ found = "there" => rows[s] # Absent
    BY <1>5 DEF Applying!LookUp, Applying!Section
  <2>2. call.locks \cup {} = call.locks /\ call.done \in {call.done, call.done + 1}
    OBVIOUS
  <2>3. [call EXCEPT !.found = found]
          = [call EXCEPT !.done = call.done, !.locks = @ \cup {}, !.found = found]
    BY <1>3, <2>2 DEF WriteCall
  <2>4. Applying!Goto(c, [call EXCEPT !.done = call.done, !.locks = @ \cup {}, !.found = found])
    BY <2>1, <2>3, Zenon
  <2>5. {} \in SUBSET ProfileSections /\ found \in {"unasked", "there", "missing"}
    BY <2>1
  <2>6. call.saw = Len(log) => /\ call.done = call.done + 1 =>
                                    s \in {} \/ (call.values[s] = Absent /\ rows[s] = Absent)
                               /\ found = "there" => call.done = call.done /\ rows[s] # Absent
    BY <1>4, <2>1
  <2> HIDE DEF s
  <2> QED BY <1>1, <2>2, <2>4, <2>5, <2>6, WritingKept DEF s
<1>6. CASE Applying!UpsertSection(c)
  BY <1>1, <1>4, <1>6, WritingKept DEF Applying!UpsertSection, Applying!Done, Applying!Section
<1>7. CASE Applying!MissSection(c)
  <2>1. call.saw # Len(log)
    BY <1>2, <1>7 DEF Applying!MissSection, Applying!Section, Restoring, Locks
  <2> QED BY <1>1, <1>4, <1>7, <2>1, WritingKept DEF Applying!MissSection, Applying!Done
<1>8. CASE Applying!DeleteSection(c)
  <2> DEFINE gone == {v \in ProfileSections : rows[v] = Absent}
  <2>1. /\ Applying!Goto(c, [call EXCEPT !.done = @ + 1, !.locks = @ \cup ({s} \ gone),
                                         !.found = "unasked"])
        /\ call.values[s] = Absent
    BY <1>8, SectionsOrdered DEF Applying!DeleteSection, Applying!Done, Applying!Section
  <2>2. {s} \ gone \in SUBSET ProfileSections /\ (s \in {s} \ gone \/ rows[s] = Absent)
    BY <1>4
  <2> HIDE DEF gone
  <2>3. PICK locks \in SUBSET ProfileSections : locks = {s} \ gone
    BY <2>2
  <2> QED BY <1>1, <1>4, <2>1, <2>2, <2>3, WritingKept
<1> QED BY <1>5, <1>6, <1>7, <1>8

LEMMA RollBackKept ==
    ASSUME ProfileInv, NEW c \in Calls, Applying!RollBack(c)
    PROVE  ProfileInv'
<1>1. Applying!Goto(c, Applying!Idle) /\ UNCHANGED <<rows, runs, log>>
  BY DEF Applying!RollBack
<1>2. Applying!Idle.pc = "idle"
  BY DEF Applying!Idle
<1> QED BY <1>1, <1>2, RequestKept

\* A commit: what has to be so of its entry in the log.
CommitsRight(l, now_, made, e) ==
    /\ e.what = "apply" =>
         /\ e.run \notin DOMAIN made
         /\ e.saw = Len(l) =>
              \E p \in ProfileNames : SnapshotOf(e.rows) = [s \in ProfileSections |-> p]
    /\ e.what # "edit" => LeavesAlone(now_, e.rows)
    /\ e.what = "revert" =>
         /\ e.run \in DOMAIN made
         /\ e.saw = Len(l) =>
              /\ SnapshotOf(e.rows) = made[e.run].before
              /\ \A s \in ProfileSections :
                   made[e.run].before[s] # Absent => e.rows[s].own = "set"
         /\ \A i \in DOMAIN l : l[i].what = "revert" /\ l[i].run = e.run => e.saw < i

LEMMA CommitKept ==
    ASSUME ProfileInv, NEW e \in CommitRow, CommitsRight(log, rows, runs, e),
           log' = Append(log, e), rows' = e.rows, runs' \in Seq(RunRow),
           \A r \in DOMAIN runs : /\ r \in DOMAIN runs' /\ runs'[r].before = runs[r].before
                                  /\ runs[r].status = "reverted" => runs'[r].status = "reverted",
           e.what = "apply" => /\ e.run \in DOMAIN runs'
                               /\ e.saw = Len(log) => runs'[e.run].before = SnapshotOf(rows),
           e.what = "revert" => runs'[e.run].status = "reverted",
           DOMAIN calls' = Calls,
           \A c \in Calls : calls'[c] = calls[c] \/ calls'[c].pc = "idle"
    PROVE  ProfileInv'
<1> DEFINE n == Len(log)
<1>1. /\ n \in Nat /\ DOMAIN log = 1..n /\ \A i \in 1..n : log[i] \in CommitRow
      /\ log \in Seq(CommitRow)
  BY ProfilesTyped DEF ProfileInv, ProfileType
<1>2. /\ log' \in Seq(CommitRow) /\ Len(log') = n + 1 /\ DOMAIN log' = 1..n + 1
      /\ \A i \in 1..n : log'[i] = log[i]
      /\ log'[n + 1] = e
  BY <1>1, AppendProperties
<1> HIDE DEF n
<1>0. /\ \A i \in 1..n : log[i].what = "apply" =>
            /\ log[i].run \in DOMAIN runs
            /\ log[i].saw = i - 1 => runs[log[i].run].before = SnapshotOf(RowsAfter(log, i - 1))
            /\ log[i].saw = i - 1 =>
                 \E p \in ProfileNames : SnapshotOf(log[i].rows) = [s \in ProfileSections |-> p]
      /\ \A i \in 1..n : log[i].what = "revert" =>
            log[i].run \in DOMAIN runs /\ runs[log[i].run].status = "reverted"
  BY <1>1 DEF ProfileInv, RunsAreKept
<1>3. ProfileType'
  BY <1>2 DEF ProfileType, CommitRow
<1>4. RowsAreCommitted'
  BY <1>1, <1>2 DEF RowsAreCommitted, RowsAfter
<1>5. \A i \in 1..n + 1 : RowsAfter(log', i - 1) = RowsAfter(log, i - 1)
  <2> SUFFICES ASSUME NEW i \in 1..n + 1 PROVE RowsAfter(log', i - 1) = RowsAfter(log, i - 1)
    OBVIOUS
  <2>1. i = 1 \/ i - 1 \in 1..n
    BY <1>1
  <2> QED BY <1>1, <1>2, <2>1 DEF RowsAfter
<1>6. rows = RowsAfter(log, n)
  BY DEF ProfileInv, RowsAreCommitted, n
<1>7. RunsAreKept'
  <2> SUFFICES ASSUME NEW i \in 1..n + 1
               PROVE  /\ log'[i].what = "apply" =>
                           /\ log'[i].run \in DOMAIN runs'
                           /\ log'[i].saw = i - 1 =>
                                runs'[log'[i].run].before = SnapshotOf(RowsAfter(log', i - 1))
                           /\ log'[i].saw = i - 1 =>
                                \E p \in ProfileNames :
                                  SnapshotOf(log'[i].rows) = [s \in ProfileSections |-> p]
                      /\ log'[i].what = "revert" =>
                           log'[i].run \in DOMAIN runs' /\ runs'[log'[i].run].status = "reverted"
    BY <1>2 DEF RunsAreKept
  <2>1. CASE i = n + 1
    BY <1>1, <1>2, <1>5, <1>6, <2>1 DEF CommitsRight, n
  <2>2. CASE i \in 1..n
    <3>1. log'[i] = log[i] /\ RowsAfter(log', i - 1) = RowsAfter(log, i - 1)
      BY <1>2, <1>5, <2>2
    <3>2. CASE log[i].what = "apply"
      BY <1>0, <2>2, <3>1, <3>2
    <3>3. CASE log[i].what = "revert"
      BY <1>0, <2>2, <3>1, <3>3
    <3> QED BY <3>1, <3>2, <3>3
  <2> QED BY <1>1, <2>1, <2>2
<1>8. RequestsKnow'
  <2> SUFFICES ASSUME NEW c \in Calls
               PROVE  \/ calls'[c].pc = "idle" \/ Reading(log', rows', calls'[c])
                      \/ Restoring(log', rows', runs', calls'[c])
    BY DEF RequestsKnow
  <2>1. CASE calls'[c].pc = "idle"
    BY <2>1
  <2>2. CASE calls'[c] = calls[c] /\ Reading(log, rows, calls[c])
    <3>1. calls[c] \in ReadCall /\ calls[c].saw <= n /\ calls[c].saw \in Nat
      BY <2>2 DEF Reading, ReadCall, n
    <3>2. calls[c].saw <= n + 1 /\ calls[c].saw # n + 1
      BY <1>1, <3>1
    <3> QED BY <1>2, <2>2, <3>1, <3>2 DEF Reading
  <2>3. CASE calls'[c] = calls[c] /\ Restoring(log, rows, runs, calls[c])
    <3>1. calls[c] \in WriteCall /\ calls[c].saw <= n /\ calls[c].saw \in Nat
      BY <2>3 DEF Restoring, WriteCall, n
    <3>2. calls[c].saw <= n + 1 /\ calls[c].saw # n + 1
      BY <1>1, <3>1
    <3>3. Locks(log', rows', calls[c])
      BY <1>2, <2>3, <3>2 DEF Restoring, Locks
    <3>4. \/ /\ calls[c].what = "apply" /\ calls[c].before \in Snapshots
             /\ \E p \in ProfileNames : calls[c].values = [s \in ProfileSections |-> p]
             /\ calls[c].saw = Len(log') => calls[c].before = SnapshotOf(rows')
          \/ /\ calls[c].what = "revert" /\ calls[c].run \in DOMAIN runs'
             /\ calls[c].values = runs'[calls[c].run].before
             /\ \A i \in DOMAIN log' :
                  log'[i].what = "revert" /\ log'[i].run = calls[c].run => calls[c].saw < i
      <4>1. CASE calls[c].what = "apply"
        BY <1>2, <2>3, <3>2, <4>1 DEF Restoring
      <4>2. CASE calls[c].what = "revert"
        <5>1. /\ calls[c].run \in DOMAIN runs /\ calls[c].values = runs[calls[c].run].before
              /\ \A i \in 1..n :
                   log[i].what = "revert" /\ log[i].run = calls[c].run => calls[c].saw < i
          BY <1>1, <2>3, <4>2 DEF Restoring
        <5>2. calls[c].saw < n + 1
          BY <1>1, <3>1
        <5>3. \A i \in 1..n + 1 : i = n + 1 \/ i \in 1..n
          BY <1>1
        <5> QED BY <1>2, <4>2, <5>1, <5>2, <5>3
      <4> QED BY <2>3, <4>1, <4>2 DEF Restoring
    <3> QED BY <1>2, <2>3, <3>1, <3>2, <3>3, <3>4 DEF Restoring
  <2> QED BY <2>1, <2>2, <2>3 DEF ProfileInv, RequestsKnow
<1>9. Restores'
  <2> SUFFICES ASSUME NEW i \in DOMAIN log', NEW j \in DOMAIN log',
                      log'[i].what = "apply", log'[j].what = "revert",
                      log'[i].run = log'[j].run, log'[i].saw = i - 1, log'[j].saw = j - 1
               PROVE  BringsBack(RowsAfter(log', i - 1), log'[j].rows)
    BY DEF Restores
  <2> i \in 1..n + 1 /\ j \in 1..n + 1
    BY <1>2
  <2>0. RowsAfter(log', i - 1) = RowsAfter(log, i - 1)
    BY <1>5
  <2> SUFFICES BringsBack(RowsAfter(log, i - 1), log'[j].rows)
    BY <2>0
  <2>1. CASE i \in 1..n /\ j \in 1..n
    <3>1. log'[i] = log[i] /\ log'[j] = log[j] /\ i \in DOMAIN log /\ j \in DOMAIN log
      BY <1>1, <1>2, <2>1
    <3> QED BY <3>1 DEF ProfileInv, Restores
  <2>2. CASE i \in 1..n /\ j = n + 1
    <3>0. log'[i] = log[i]
      BY <1>2, <2>2
    <3>1. runs[log[i].run].before = SnapshotOf(RowsAfter(log, i - 1))
      BY <1>0, <2>2, <3>0
    <3>2. e.saw = Len(log) /\ e.what = "revert" /\ e.run = log[i].run
      BY <1>1, <1>2, <2>2, <3>0 DEF n
    <3>3. /\ SnapshotOf(e.rows) = SnapshotOf(RowsAfter(log, i - 1))
          /\ \A s \in ProfileSections :
               SnapshotOf(RowsAfter(log, i - 1))[s] # Absent => e.rows[s].own = "set"
      BY <3>1, <3>2 DEF CommitsRight
    <3>4. ASSUME NEW s \in ProfileSections, RowsAfter(log, i - 1)[s] # Absent
          PROVE  SnapshotOf(RowsAfter(log, i - 1))[s] # Absent
      <4>1. RowsAfter(log, i - 1)[s] \in SectionRow
        <5>1. i - 1 = 0 \/ i - 1 \in 1..n
          BY <1>1, <2>2
        <5>2. RowsAfter(log, i - 1) \in SectionRows
          BY <1>1, <5>1 DEF RowsAfter, CommitRow, SectionRows
        <5> QED BY <3>4, <5>2 DEF SectionRows
      <4> QED BY <3>4, <4>1, SnapshotsTyped DEF SnapshotOf
    <3> QED BY <1>2, <2>2, <3>3, <3>4 DEF BringsBack
  <2>3. CASE i = n + 1 /\ j \in 1..n
    <3>1. log'[j] = log[j] /\ log[j].run \in DOMAIN runs
      BY <1>0, <1>2, <2>3
    <3> QED BY <1>2, <2>3, <3>1 DEF CommitsRight
  <2>4. CASE i = n + 1 /\ j = n + 1
    BY <1>2, <2>4
  <2> QED BY <1>1, <2>1, <2>2, <2>3, <2>4
<1>10. RevertsLooked'
  <2> SUFFICES ASSUME NEW i \in 1..n + 1, NEW j \in 1..n + 1, i < j,
                      log'[i].what = "revert", log'[j].what = "revert",
                      log'[i].run = log'[j].run
               PROVE  log'[j].saw < i
    BY <1>2 DEF RevertsLooked
  <2>1. i \in 1..n
    BY <1>1
  <2>2. CASE j \in 1..n
    BY <1>1, <1>2, <2>1, <2>2 DEF ProfileInv, RevertsLooked
  <2>3. CASE j = n + 1
    BY <1>1, <1>2, <2>1, <2>3 DEF CommitsRight
  <2> QED BY <1>1, <2>2, <2>3
<1>11. OthersAreKept'
  <2> SUFFICES ASSUME NEW i \in 1..n + 1, log'[i].what # "edit"
               PROVE  LeavesAlone(RowsAfter(log', i - 1), log'[i].rows)
    BY <1>2 DEF OthersAreKept, LeavesAlone
  <2>1. RowsAfter(log', i - 1) = RowsAfter(log, i - 1)
    BY <1>5
  <2>2. CASE i \in 1..n
    BY <1>1, <1>2, <2>1, <2>2 DEF ProfileInv, OthersAreKept
  <2>3. CASE i = n + 1
    <3>1. RowsAfter(log, i - 1) = rows
      BY <1>1, <1>6, <2>3
    <3> QED BY <1>2, <2>1, <2>3, <3>1 DEF CommitsRight
  <2> QED BY <1>1, <2>2, <2>3
<1> QED BY <1>3, <1>4, <1>7, <1>8, <1>9, <1>10, <1>11 DEF ProfileInv

LEMMA EditKept ==
    ASSUME ProfileInv, NEW s \in ProfileSections, Applying!Edit(s)
    PROVE  ProfileInv'
<1> DEFINE e == [what |-> "edit", run |-> 0, saw |-> Len(log), rows |-> rows']
<1>1. /\ log' = Append(log, e) /\ UNCHANGED <<runs, calls>>
      /\ rows' = [rows EXCEPT ![s] = [saved |-> "edited", own |-> "edited", kept |-> "edited"]]
  BY DEF Applying!Edit, Applying!Committed
<1>2. rows' \in SectionRows /\ Len(log) \in Nat
  BY <1>1, ProfilesTyped DEF ProfileInv, ProfileType, SectionRows, SectionRow
<1>3. e \in CommitRow
  BY <1>2 DEF CommitRow
<1>4. PICK x \in CommitRow : x = e
  BY <1>3
<1> HIDE DEF e
<1>5. x.what = "edit" /\ x.rows = rows'
  BY <1>4 DEF e
<1>6. CommitsRight(log, rows, runs, x)
  BY <1>5 DEF CommitsRight
<1>7. runs' \in Seq(RunRow) /\ DOMAIN calls' = Calls
  BY <1>1 DEF ProfileInv, ProfileType
<1> QED BY <1>1, <1>4, <1>5, <1>6, <1>7, CommitKept

LEMMA CommitActionKept ==
    ASSUME ProfileInv, NEW c \in Calls, Applying!Commit(c)
    PROVE  ProfileInv'
<1> DEFINE call == calls[c]
           id == IF call.what = "apply" THEN Len(runs) + 1 ELSE call.run
           e == [what |-> call.what, run |-> id, saw |-> call.saw, rows |-> rows']
<1>1. /\ call.pc = "write" /\ call.done = Steps
      /\ rows' = [s \in ProfileSections |->
                    IF s \notin call.locks THEN rows[s]
                    ELSE IF call.values[s] = Absent THEN Absent
                    ELSE Applying!Written(s, call.values[s])]
      /\ runs' = IF call.what = "apply"
                 THEN Append(runs, [status |-> "applied", before |-> call.before])
                 ELSE [runs EXCEPT ![id].status = "reverted"]
      /\ log' = Append(log, e)
      /\ Applying!Goto(c, Applying!Idle)
  BY SectionsOrdered DEF Applying!Commit, Applying!Restored, Applying!Committed, Steps
<1>2. Restoring(log, rows, runs, call)
  BY <1>1 DEF ProfileInv, RequestsKnow, Reading, ReadCall
<1>3. /\ call \in WriteCall /\ call.what \in {"apply", "revert"} /\ call.run \in Nat
      /\ call.saw \in Nat /\ call.values \in Snapshots
  BY <1>2 DEF Restoring, WriteCall
<1>4. /\ rows \in SectionRows /\ Len(log) \in Nat /\ Len(runs) \in Nat
      /\ DOMAIN runs = 1..Len(runs) /\ runs \in Seq(RunRow)
      /\ \A r \in DOMAIN runs : runs[r] \in RunRow
  BY ProfilesTyped DEF ProfileInv, ProfileType
<1>0. ASSUME NEW s \in ProfileSections, call.values[s] # Absent
      PROVE  LET row == Applying!Written(s, call.values[s])
             IN /\ row \in SectionRow /\ row.saved = call.values[s] /\ row.own = "set"
                /\ rows[s] # Absent => row.kept = rows[s].kept
  <2>1. call.values[s] \in ProfileNames \cup {"edited"} /\ rows[s] \in SectionRow \cup {Absent}
    BY <1>0, <1>3, <1>4 DEF Snapshots, Values, SectionRows
  <2> QED BY <2>1 DEF Applying!Written, SectionRow
<1>5. rows' \in SectionRows
  <2>1. \A s \in ProfileSections : rows'[s] \in SectionRow \cup {Absent}
    BY <1>0, <1>1, <1>4 DEF SectionRows
  <2> QED BY <1>1, <2>1 DEF SectionRows
<1>6. e \in CommitRow
  BY <1>3, <1>4, <1>5 DEF CommitRow
\* Every section was written, or was to be deleted and was not there, unless
\* something was committed since the request began.
<1>7. ASSUME NEW s \in ProfileSections
      PROVE  /\ call.values[s] # Absent /\ call.saw = Len(log) =>
                  Applying!Saved(rows'[s]) = call.values[s] /\ rows'[s].own = "set"
             /\ call.values[s] = Absent /\ call.saw = Len(log) => rows'[s] = Absent
             /\ rows[s] # Absent /\ rows'[s] # Absent => rows'[s].kept = rows[s].kept
  <2>1. PICK k \in 1..Steps : SectionOrder[k] = s
    BY SectionsOrdered
  <2>2. \/ s \in call.locks
        \/ call.saw = Len(log) => call.values[s] = Absent /\ rows[s] = Absent
    BY <1>1, <1>2, <2>1 DEF Restoring, Locks
  <2>3. rows'[s] = IF s \notin call.locks THEN rows[s]
                   ELSE IF call.values[s] = Absent THEN Absent
                   ELSE Applying!Written(s, call.values[s])
    BY <1>1
  <2>4. CASE call.values[s] = Absent
    BY <2>2, <2>3, <2>4
  <2>5. CASE call.values[s] # Absent
    <3>1. PICK row : row = Applying!Written(s, call.values[s])
      OBVIOUS
    <3>2. /\ row \in SectionRow /\ row.saved = call.values[s] /\ row.own = "set"
          /\ rows[s] # Absent => row.kept = rows[s].kept
      BY <1>0, <2>5, <3>1
    <3>3. rows'[s] = row \/ (call.saw # Len(log) /\ rows'[s] = rows[s])
      BY <2>2, <2>3, <2>5, <3>1
    <3> QED BY <2>5, <3>2, <3>3, SnapshotsTyped DEF Applying!Saved
  <2> QED BY <2>4, <2>5
<1>8. call.saw = Len(log) => SnapshotOf(rows') = call.values
  <2> SUFFICES ASSUME call.saw = Len(log) PROVE SnapshotOf(rows') = call.values
    OBVIOUS
  <2>1. \A s \in ProfileSections : Applying!Saved(rows'[s]) = call.values[s]
    BY <1>7 DEF Applying!Saved
  <2> QED BY <1>3, <2>1 DEF Snapshots, SnapshotOf
<1>14. LeavesAlone(rows, rows')
  BY <1>7 DEF LeavesAlone
<1>9. PICK x \in CommitRow : x = e
  BY <1>6
<1> HIDE DEF e
<1>10. /\ x.what = call.what /\ x.run = id /\ x.saw = call.saw /\ x.rows = rows'
  BY <1>9 DEF e
<1>11. DOMAIN calls' = Calls /\ \A d \in Calls : calls'[d] = calls[d] \/ calls'[d].pc = "idle"
  BY <1>1 DEF Applying!Goto, Applying!Idle, ProfileInv, ProfileType
<1>12. CASE call.what = "apply"
  <2>1. PICK p \in ProfileNames : call.values = [s \in ProfileSections |-> p]
    BY <1>2, <1>12 DEF Restoring
  <2>2. call.saw = Len(log) => SnapshotOf(rows') = [s \in ProfileSections |-> p]
    BY <1>8, <2>1
  <2>3. call.before \in Snapshots /\ (call.saw = Len(log) => call.before = SnapshotOf(rows))
    BY <1>2, <1>12 DEF Restoring
  <2>4. PICK y \in RunRow : y = [status |-> "applied", before |-> call.before]
    BY <2>3 DEF RunRow
  <2>5. runs' = Append(runs, y) /\ id = Len(runs) + 1
    BY <1>1, <1>12, <2>4
  <2> HIDE DEF id
  <2>6. /\ runs' \in Seq(RunRow) /\ DOMAIN runs' = 1..Len(runs) + 1
        /\ \A r \in 1..Len(runs) : runs'[r] = runs[r]
        /\ runs'[Len(runs) + 1] = y
    BY <1>4, <2>5, AppendProperties
  <2>7. \A r \in DOMAIN runs : r \in DOMAIN runs' /\ runs'[r] = runs[r]
    BY <1>4, <2>6
  <2>8. id \in DOMAIN runs' /\ id \notin DOMAIN runs
        /\ (call.saw = Len(log) => runs'[id].before = SnapshotOf(rows))
    BY <1>4, <2>3, <2>4, <2>5, <2>6
  <2>9. CommitsRight(log, rows, runs, x)
    BY <1>10, <1>12, <1>14, <2>2, <2>8 DEF CommitsRight
  <2> QED BY <1>1, <1>9, <1>10, <1>11, <1>12, <2>6, <2>7, <2>8, <2>9, CommitKept
<1>13. CASE call.what = "revert"
  <2>1. /\ call.run \in DOMAIN runs /\ call.values = runs[call.run].before
        /\ \A i \in DOMAIN log :
             log[i].what = "revert" /\ log[i].run = call.run => call.saw < i
    BY <1>2, <1>13 DEF Restoring
  <2>2. runs' = [runs EXCEPT ![call.run].status = "reverted"] /\ id = call.run
    BY <1>1, <1>13
  <2> HIDE DEF id
  <2>3. PICK y : y = [runs[call.run] EXCEPT !.status = "reverted"]
    OBVIOUS
  <2>4. y \in RunRow /\ y.status = "reverted" /\ y.before = runs[call.run].before
    BY <1>4, <2>1, <2>3 DEF RunRow
  <2>5. runs' = [runs EXCEPT ![call.run] = y]
    BY <2>2, <2>3
  <2>6. runs' \in Seq(RunRow) /\ DOMAIN runs' = DOMAIN runs
    BY <1>4, <2>1, <2>4, <2>5, ExceptSeq
  <2>7. \A r \in DOMAIN runs : runs'[r] = IF r = call.run THEN y ELSE runs[r]
    BY <2>5
  <2>8. \A r \in DOMAIN runs : /\ r \in DOMAIN runs' /\ runs'[r].before = runs[r].before
                               /\ runs[r].status = "reverted" => runs'[r].status = "reverted"
    BY <2>4, <2>6, <2>7
  <2>9. CommitsRight(log, rows, runs, x)
    BY <1>7, <1>8, <1>10, <1>13, <1>14, <2>1, <2>2 DEF CommitsRight
  <2>10. runs'[x.run].status = "reverted"
    BY <1>10, <2>1, <2>2, <2>4, <2>7
  <2> QED BY <1>1, <1>9, <1>10, <1>11, <1>13, <2>6, <2>8, <2>9, <2>10, CommitKept
<1> QED BY <1>3, <1>12, <1>13

LEMMA ApplyingNext ==
    ASSUME ProfileInv, Applying!Next
    PROVE  ProfileInv'
<1>1. CASE \E s \in ProfileSections : Applying!Edit(s)
  BY <1>1, EditKept
<1>2. ASSUME NEW c \in Calls,
             \/ Applying!BeginApply(c) \/ Applying!ReadSection(c) \/ Applying!BeginRevert(c)
             \/ Applying!LookUp(c) \/ Applying!UpsertSection(c) \/ Applying!MissSection(c)
             \/ Applying!DeleteSection(c) \/ Applying!Commit(c) \/ Applying!RollBack(c)
      PROVE  ProfileInv'
  BY <1>2, BeginApplyKept, ReadSectionKept, BeginRevertKept, WriteSectionKept,
     CommitActionKept, RollBackKept
<1> QED BY <1>1, <1>2, SectionsOrdered DEF Applying!Next

LEMMA ApplyingRestores ==
    ASSUME ProfileInv
    PROVE  Applying!RevertRestores
<1>1. \A i \in DOMAIN log : Applying!Before(i) = RowsAfter(log, i - 1)
  <2> SUFFICES ASSUME NEW i \in DOMAIN log PROVE Applying!Before(i) = RowsAfter(log, i - 1)
    OBVIOUS
  <2>1. i \in Nat /\ (i = 1 <=> i - 1 = 0)
    BY ProfilesTyped DEF ProfileInv
  <2> QED BY <2>1, AllOfRows DEF Applying!Before, RowsAfter
<1>0. \A r : Applying!SavedOf(r) = SnapshotOf(r)
  BY SectionsOrdered DEF Applying!SavedOf, SnapshotOf
<1>2. ASSUME NEW i \in Applying!Applies, Applying!Alone(i)
      PROVE  \E p \in ProfileNames : Applying!SavedOf(log[i].rows) = Applying!AllOf(p)
  BY <1>0, <1>2, AllOfRows DEF Applying!Applies, Applying!Alone, ProfileInv, RunsAreKept
<1>3. ASSUME NEW i \in Applying!Applies, NEW j \in Applying!Reverts,
             log[i].run = log[j].run, Applying!Alone(i), Applying!Alone(j)
      PROVE  /\ Applying!SavedOf(log[j].rows) = Applying!SavedOf(Applying!Before(i))
             /\ \A s \in ProfileSections :
                  Applying!Before(i)[s] # Absent => log[j].rows[s].own = "set"
  BY <1>0, <1>1, <1>3 DEF Applying!Applies, Applying!Reverts, Applying!Alone, ProfileInv, Restores,
                          BringsBack
<1>4. ASSUME NEW i \in Applying!Reverts, NEW j \in Applying!Reverts, i < j,
             log[i].run = log[j].run
      PROVE  log[j].saw < i
  BY <1>4 DEF Applying!Reverts, ProfileInv, RevertsLooked
<1>5. ASSUME NEW i \in Applying!Applies \cup Applying!Reverts, NEW s \in ProfileSections,
             Applying!Before(i)[s] # Absent, log[i].rows[s] # Absent
      PROVE  log[i].rows[s].kept = Applying!Before(i)[s].kept
  BY <1>1, <1>5 DEF Applying!Applies, Applying!Reverts, ProfileInv, OthersAreKept, LeavesAlone
<1> QED BY <1>2, <1>3, <1>4, <1>5, SectionsOrdered DEF Applying!RevertRestores
-----------------------------------------------------------------------------
(* Notifications: what is written of a delivery, and what an operator sees   *)

EndpointTypes == {e.type : e \in Endpoints}
ChannelRow == [name : Names \cup OwnerKeys, type : EndpointTypes, target : Endpoints,
               enabled : BOOLEAN, limit : Nat \ {0}]
SubscriptionRow == [channel : Nat, event : Events \cup {"risk"}, site : Sites \cup {"any"},
                    enabled : BOOLEAN]
DeliveryRow == [subscription : Nat, status : {"queued", "delivered", "failed", "skipped"},
                type : EndpointTypes \cup {"none"}, attempts : Nat]
NextCall == [pc : {"next"}, targets : SUBSET Nat]
SendCall == [pc : {"send", "finalize"}, targets : SUBSET Nat, row : Nat, attempts : Nat,
             status : {"queued", "delivered", "failed"}]
DispatchCall == {Notifying!Resting} \cup NextCall \cup SendCall

ChannelsTyped ==
    /\ channels \in Seq(ChannelRow)
    /\ \A c \in DOMAIN channels : channels[c].type = channels[c].target.type
SubscriptionsTyped ==
    /\ subscriptions \in Seq(SubscriptionRow)
    /\ \A s \in DOMAIN subscriptions : subscriptions[s].channel \in DOMAIN channels
ConfigType == ChannelsTyped /\ SubscriptionsTyped

DeliveryType ==
    /\ deliveries \in Seq(DeliveryRow)
    /\ \A i \in DOMAIN deliveries :
         deliveries[i].subscription \in DOMAIN subscriptions \cup {0}
    /\ received \in Seq(Nat) /\ Len(received) = Len(deliveries)
    /\ dispatch \in [Calls -> DispatchCall]
    /\ \A d \in Calls : dispatch[d].pc # "resting" => dispatch[d].targets \subseteq DOMAIN subscriptions
    /\ lost \in Nat

Sends(d) == dispatch[d].pc \in {"send", "finalize"}
ChannelFor(s) == channels[subscriptions[s].channel]

\* A row that is being sent is the dispatch's own; the endpoint got it no more
\* often than was tried, and of what is to be recorded it got a success, or the
\* attempts are used up.
SendsTrue(d) ==
    Sends(d) =>
        /\ dispatch[d].targets # {}
        /\ dispatch[d].row \in DOMAIN deliveries
        /\ deliveries[dispatch[d].row].status = "queued"
        /\ deliveries[dispatch[d].row].subscription = Notifying!First(d)
        /\ deliveries[dispatch[d].row].type = Notifying!ChannelOf(d).type
        /\ received[dispatch[d].row] <= dispatch[d].attempts
        /\ dispatch[d].pc = "send" =>
             /\ dispatch[d].attempts < Notifying!ChannelOf(d).limit
             /\ Notifying!ChannelOf(d).type = "email" => dispatch[d].attempts = 0
        /\ dispatch[d].pc = "finalize" =>
             /\ dispatch[d].status # "queued"
             /\ Notifying!ChannelOf(d).type = "webhook" =>
                  /\ dispatch[d].status = "delivered" => received[dispatch[d].row] >= 1
                  /\ dispatch[d].status = "failed" =>
                       dispatch[d].attempts = Notifying!ChannelOf(d).limit

RowTrue(i) ==
    deliveries[i].type = "webhook" =>
        /\ deliveries[i].status = "delivered" => received[i] \in 1..deliveries[i].attempts
        /\ deliveries[i].status = "failed" =>
             /\ received[i] <= deliveries[i].attempts
             /\ deliveries[i].subscription # 0
             /\ deliveries[i].attempts = ChannelFor(deliveries[i].subscription).limit

\* Rows stay queued while they are sent, or for a dispatch that was cut off.
QueuedRows == {i \in DOMAIN deliveries : deliveries[i].status = "queued"}
Senders == {d \in Calls : Sends(d)}

NotifyInv ==
    /\ ConfigType /\ DeliveryType
    /\ \A d \in Calls : SendsTrue(d)
    /\ \A d, e \in Senders : d # e => dispatch[d].row # dispatch[e].row
    /\ \A i \in DOMAIN deliveries : RowTrue(i)
    /\ Cardinality(QueuedRows) <= lost + Cardinality(Senders)
-----------------------------------------------------------------------------
LEMMA ConfigTyped ==
    ASSUME ConfigType
    PROVE  /\ Len(channels) \in Nat /\ DOMAIN channels = 1..Len(channels)
           /\ \A c \in DOMAIN channels : channels[c] \in ChannelRow
           /\ Len(subscriptions) \in Nat /\ DOMAIN subscriptions = 1..Len(subscriptions)
           /\ \A s \in DOMAIN subscriptions :
                subscriptions[s] \in SubscriptionRow /\ subscriptions[s].channel \in DOMAIN channels
           /\ \A s \in DOMAIN subscriptions : ChannelFor(s) \in ChannelRow
<1>1. channels \in Seq(ChannelRow) /\ subscriptions \in Seq(SubscriptionRow)
  BY DEF ConfigType, ChannelsTyped, SubscriptionsTyped
<1>2. /\ Len(channels) \in Nat /\ DOMAIN channels = 1..Len(channels)
      /\ \A c \in DOMAIN channels : channels[c] \in ChannelRow
      /\ Len(subscriptions) \in Nat /\ DOMAIN subscriptions = 1..Len(subscriptions)
      /\ \A s \in DOMAIN subscriptions : subscriptions[s] \in SubscriptionRow
  BY <1>1, LenProperties, ElementOfSeq
<1> QED BY <1>2 DEF ConfigType, SubscriptionsTyped, ChannelFor

LEMMA DeliveryTyped ==
    ASSUME DeliveryType
    PROVE  /\ Len(deliveries) \in Nat /\ DOMAIN deliveries = 1..Len(deliveries)
           /\ \A i \in DOMAIN deliveries : deliveries[i] \in DeliveryRow
           /\ DOMAIN received = DOMAIN deliveries
           /\ \A i \in DOMAIN deliveries : received[i] \in Nat
           /\ \A d \in Calls : dispatch[d] \in DispatchCall
           /\ \A d \in Calls : Sends(d) => dispatch[d] \in SendCall
           /\ \A d \in Calls : dispatch[d].pc = "next" => dispatch[d] \in NextCall
           /\ \A d \in Calls : dispatch[d].pc \in {"resting", "next", "send", "finalize"}
<1>1. deliveries \in Seq(DeliveryRow) /\ received \in Seq(Nat) /\ Len(received) = Len(deliveries)
  BY DEF DeliveryType
<1>2. /\ Len(deliveries) \in Nat /\ DOMAIN deliveries = 1..Len(deliveries)
      /\ \A i \in DOMAIN deliveries : deliveries[i] \in DeliveryRow
      /\ DOMAIN received = DOMAIN deliveries
      /\ \A i \in DOMAIN deliveries : received[i] \in Nat
  BY <1>1, LenProperties, ElementOfSeq
<1>3. ASSUME NEW x \in DispatchCall
      PROVE  /\ x.pc \in {"send", "finalize"} => x \in SendCall
             /\ x.pc = "next" => x \in NextCall
             /\ x.pc \in {"resting", "next", "send", "finalize"}
  BY <1>3 DEF DispatchCall, Notifying!Resting, NextCall, SendCall
<1> QED BY <1>2, <1>3 DEF DeliveryType, Sends

LEMMA LeastOf ==
    ASSUME NEW S \in SUBSET Nat, S # {}
    PROVE  Notifying!Min(S) \in S
<1>1. PICK x \in S : \A y \in S : <<y, x>> \notin OpToRel(<, Nat)
  BY NatLessThanWellFounded, WFMin
<1>2. ASSUME NEW y \in S PROVE x <= y
  <2>1. x \in Nat /\ y \in Nat
    OBVIOUS
  <2>2. ~(y < x)
    BY <1>1, <2>1 DEF OpToRel
  <2> QED BY <2>1, <2>2
<1> QED BY <1>2 DEF Notifying!Min

\* The target a dispatch is at.
LEMMA FirstTarget ==
    ASSUME ConfigType, DeliveryType, NEW d \in Calls,
           dispatch[d].pc # "resting", dispatch[d].targets # {}
    PROVE  /\ Notifying!First(d) \in dispatch[d].targets
           /\ Notifying!First(d) \in DOMAIN subscriptions
           /\ Notifying!ChannelOf(d) = ChannelFor(Notifying!First(d))
           /\ Notifying!ChannelOf(d) \in ChannelRow
<1>1. dispatch[d].targets \subseteq DOMAIN subscriptions /\ DOMAIN subscriptions \subseteq Nat
  BY ConfigTyped DEF DeliveryType
<1>2. Notifying!First(d) \in dispatch[d].targets
  BY <1>1, LeastOf DEF Notifying!First
<1> QED BY <1>1, <1>2, ConfigTyped DEF Notifying!ChannelOf, ChannelFor

LEMMA DispatchGoto ==
    ASSUME DeliveryType, NEW d \in Calls, NEW x, Notifying!Goto(d, x)
    PROVE  /\ dispatch'[d] = x /\ \A e \in Calls \ {d} : dispatch'[e] = dispatch[e]
           /\ x \in DispatchCall => dispatch' \in [Calls -> DispatchCall]
  BY DEF DeliveryType, Notifying!Goto

LEMMA SendersFinite ==
    ASSUME NotifyInv
    PROVE  /\ IsFiniteSet(QueuedRows) /\ Cardinality(QueuedRows) \in Nat
           /\ IsFiniteSet(Senders) /\ Cardinality(Senders) \in Nat
<1>1. IsFiniteSet(DOMAIN deliveries)
  BY DeliveryTyped, FS_Interval DEF NotifyInv
<1>2. IsFiniteSet(QueuedRows)
  BY <1>1, FS_Subset DEF QueuedRows
<1> DEFINE rowOf == [d \in Senders |-> dispatch[d].row]
<1>3. rowOf \in Injection(Senders, DOMAIN deliveries)
  <2>1. rowOf \in [Senders -> DOMAIN deliveries]
    BY DEF NotifyInv, Senders, SendsTrue
  <2>2. \A d, e \in Senders : rowOf[d] = rowOf[e] => d = e
    BY DEF NotifyInv
  <2> QED BY <2>1, <2>2 DEF Injection, IsInjective
<1>4. IsFiniteSet(Senders)
  BY <1>1, <1>3, FS_Injection
<1> QED BY <1>2, <1>4, FS_CardinalityType
-----------------------------------------------------------------------------
\* Channels and subscriptions are never removed; only names and switches change.
ChannelsGrow ==
    /\ DOMAIN channels \subseteq DOMAIN channels'
    /\ \A c \in DOMAIN channels :
         /\ channels'[c].type = channels[c].type /\ channels'[c].target = channels[c].target
         /\ channels'[c].limit = channels[c].limit
SubscriptionsGrow ==
    /\ DOMAIN subscriptions \subseteq DOMAIN subscriptions'
    /\ \A s \in DOMAIN subscriptions : subscriptions'[s].channel = subscriptions[s].channel

LEMMA ConfigSame ==
    ASSUME ConfigType, UNCHANGED <<channels, subscriptions>>
    PROVE  ConfigType' /\ ChannelsGrow /\ SubscriptionsGrow
  BY DEF ConfigType, ChannelsTyped, SubscriptionsTyped, ChannelsGrow, SubscriptionsGrow

LEMMA ChannelMade ==
    ASSUME ChannelsTyped, NEW r \in ChannelRow, r.type = r.target.type,
           channels' = Append(channels, r)
    PROVE  /\ ChannelsTyped' /\ ChannelsGrow
           /\ Len(channels) + 1 \in DOMAIN channels'
           /\ channels'[Len(channels) + 1] = r
<1>1. channels \in Seq(ChannelRow)
  BY DEF ChannelsTyped
<1>2. /\ channels' \in Seq(ChannelRow) /\ Len(channels') = Len(channels) + 1
      /\ \A c \in 1..Len(channels) : channels'[c] = channels[c]
      /\ channels'[Len(channels) + 1] = r
  BY <1>1, AppendProperties
<1>3. /\ DOMAIN channels = 1..Len(channels) /\ Len(channels) \in Nat
      /\ DOMAIN channels' = 1..Len(channels) + 1
  BY <1>1, <1>2, LenProperties
<1>4. DOMAIN channels' = DOMAIN channels \cup {Len(channels) + 1}
  BY <1>3
<1>5. \A c \in DOMAIN channels' : channels'[c].type = channels'[c].target.type
  BY <1>2, <1>3, <1>4 DEF ChannelsTyped
<1>6. ChannelsTyped'
  BY <1>2, <1>5 DEF ChannelsTyped
<1> QED BY <1>2, <1>3, <1>4, <1>6 DEF ChannelsGrow

LEMMA SubscriptionMade ==
    ASSUME SubscriptionsTyped, NEW r \in SubscriptionRow, ChannelsGrow,
           r.channel \in DOMAIN channels', subscriptions' = Append(subscriptions, r)
    PROVE  /\ SubscriptionsTyped' /\ SubscriptionsGrow
           /\ Len(subscriptions) + 1 \in DOMAIN subscriptions'
           /\ subscriptions'[Len(subscriptions) + 1] = r
<1>1. subscriptions \in Seq(SubscriptionRow)
  BY DEF SubscriptionsTyped
<1>2. /\ subscriptions' \in Seq(SubscriptionRow) /\ Len(subscriptions') = Len(subscriptions) + 1
      /\ \A s \in 1..Len(subscriptions) : subscriptions'[s] = subscriptions[s]
      /\ subscriptions'[Len(subscriptions) + 1] = r
  BY <1>1, AppendProperties
<1>3. /\ DOMAIN subscriptions = 1..Len(subscriptions) /\ Len(subscriptions) \in Nat
      /\ DOMAIN subscriptions' = 1..Len(subscriptions) + 1
  BY <1>1, <1>2, LenProperties
<1>4. DOMAIN subscriptions' = DOMAIN subscriptions \cup {Len(subscriptions) + 1}
  BY <1>3
<1>5. \A s \in DOMAIN subscriptions' : subscriptions'[s].channel \in DOMAIN channels'
  BY <1>2, <1>3, <1>4 DEF SubscriptionsTyped, ChannelsGrow
<1>6. SubscriptionsTyped'
  BY <1>2, <1>5 DEF SubscriptionsTyped
<1> QED BY <1>2, <1>3, <1>4, <1>6 DEF SubscriptionsGrow

LEMMA ChannelCreated ==
    ASSUME ConfigType, Notifying!CreateChannel
    PROVE  ConfigType' /\ ChannelsGrow /\ SubscriptionsGrow
<1>1. PICK target \in Endpoints, name \in Names, enabled \in BOOLEAN, limit \in AttemptLimits :
          channels' = Append(channels, [name |-> name, type |-> target.type, target |-> target,
                                        enabled |-> enabled, limit |-> limit])
  BY DEF Notifying!CreateChannel
<1> DEFINE r == [name |-> name, type |-> target.type, target |-> target,
                 enabled |-> enabled, limit |-> limit]
<1>2. r \in ChannelRow /\ r.type = r.target.type
  BY ChannelAssumption DEF ChannelRow, EndpointTypes
<1>3. ChannelsTyped' /\ ChannelsGrow
  BY <1>1, <1>2, ChannelMade DEF ConfigType
<1>4. subscriptions' = subscriptions
  BY DEF Notifying!CreateChannel
<1> QED BY <1>3, <1>4 DEF ConfigType, SubscriptionsTyped, ChannelsGrow, SubscriptionsGrow

LEMMA SubscriptionCreated ==
    ASSUME ConfigType, Notifying!CreateSubscription
    PROVE  ConfigType' /\ ChannelsGrow /\ SubscriptionsGrow
<1>1. PICK c \in DOMAIN channels, e \in Events, site \in Sites \cup {"any"}, enabled \in BOOLEAN :
          subscriptions' = Append(subscriptions,
              [channel |-> c, event |-> e, site |-> site, enabled |-> enabled])
  BY DEF Notifying!CreateSubscription
<1>2. channels' = channels
  BY DEF Notifying!CreateSubscription
<1>3. ChannelsTyped' /\ ChannelsGrow
  BY <1>2 DEF ConfigType, ChannelsTyped, ChannelsGrow
<1> DEFINE r == [channel |-> c, event |-> e, site |-> site, enabled |-> enabled]
<1>4. r \in SubscriptionRow /\ r.channel \in DOMAIN channels'
  BY <1>2, ConfigTyped DEF SubscriptionRow
<1> QED BY <1>1, <1>3, <1>4, SubscriptionMade DEF ConfigType

\* A nonempty set of naturals up to n has a greatest element: n less the
\* least of what its elements leave of n.
LEMMA GreatestOf ==
    ASSUME NEW n \in Nat, NEW S \in SUBSET (0..n), S # {}
    PROVE  Notifying!Max(S) \in S
<1> DEFINE T == {k \in Nat : k <= n /\ n - k \in S}
<1>1. T \in SUBSET Nat /\ T # {}
  <2>1. PICK s \in S : TRUE
    OBVIOUS
  <2> QED BY <2>1, n - s \in T
<1>2. PICK x \in T : \A y \in S : <<n - y, x>> \notin OpToRel(<, Nat)
  <2>1. PICK x \in T : \A k \in T : <<k, x>> \notin OpToRel(<, Nat)
    <3> HIDE DEF T
    <3> QED BY <1>1, NatLessThanWellFounded, WFMin
  <2>2. \A y \in S : n - y \in T
    OBVIOUS
  <2> QED BY <2>1, <2>2
<1>3. ASSUME NEW y \in S PROVE y <= n - x
  <2>1. x \in Nat /\ n - y \in Nat /\ y \in Nat
    OBVIOUS
  <2>2. ~(n - y < x)
    BY <1>2, <2>1 DEF OpToRel
  <2> QED BY <2>1, <2>2
<1>4. n - x \in S
  OBVIOUS
<1> QED BY <1>3, <1>4 DEF Notifying!Max
-----------------------------------------------------------------------------
(* What a repair or a bootstrap makes of the tables.                         *)

ChannelMeant(found) == IF found = {} THEN Len(channels) + 1 ELSE Notifying!Best(found)

LEMMA BestFound ==
    ASSUME NEW found \in SUBSET DOMAIN channels, ChannelsTyped, found # {}
    PROVE  Notifying!Best(found) \in found
<1>1. Len(channels) \in Nat /\ found \in SUBSET (0..Len(channels))
  BY LenProperties DEF ChannelsTyped
<1> DEFINE on == {c \in found : channels[c].enabled}
<1>2. on \in SUBSET (0..Len(channels)) /\ on \subseteq found
  BY <1>1
<1> HIDE DEF on
<1>3. /\ on # {} => Notifying!Max(on) \in on
      /\ Notifying!Max(found) \in found
  BY <1>1, <1>2, GreatestOf
<1> QED BY <1>2, <1>3 DEF Notifying!Best, on

LEMMA ChannelEnsured ==
    ASSUME ChannelsTyped, NEW found \in SUBSET DOMAIN channels, NEW target \in Endpoints,
           NEW name \in Names \cup OwnerKeys,
           \A c \in found : channels[c].target = target,
           channels' = Notifying!EnsuredChannels(found, name, target)
    PROVE  /\ ChannelsTyped' /\ ChannelsGrow
           /\ ChannelMeant(found) \in DOMAIN channels'
           /\ channels'[ChannelMeant(found)].enabled
           /\ channels'[ChannelMeant(found)].target = target
<1>1. CASE found = {}
  <2> DEFINE r == [name |-> name, type |-> target.type, target |-> target,
                   enabled |-> TRUE, limit |-> DefaultLimit]
  <2>1. channels' = Append(channels, r)
    BY <1>1 DEF Notifying!EnsuredChannels
  <2>2. r \in ChannelRow /\ r.type = r.target.type
    BY ChannelAssumption DEF ChannelRow, EndpointTypes
  <2>3. /\ ChannelsTyped' /\ ChannelsGrow /\ Len(channels) + 1 \in DOMAIN channels'
        /\ channels'[Len(channels) + 1] = r
    BY <2>1, <2>2, ChannelMade
  <2>4. ChannelMeant(found) = Len(channels) + 1
    BY <1>1 DEF ChannelMeant
  <2> QED BY <2>3, <2>4
<1>2. CASE found # {}
  <2> DEFINE b == Notifying!Best(found)
  <2>1. b \in found /\ b = ChannelMeant(found)
    BY <1>2, BestFound DEF ChannelMeant
  <2>2. CASE channels[b].enabled
    <3>1. channels' = channels
      BY <1>2, <2>2 DEF Notifying!EnsuredChannels
    <3> QED BY <2>1, <2>2, <3>1 DEF ChannelsTyped, ChannelsGrow
  <2>3. CASE ~channels[b].enabled
    <3>1. channels' = [channels EXCEPT ![b].enabled = TRUE, ![b].name = name]
      BY <1>2, <2>3 DEF Notifying!EnsuredChannels
    <3> DEFINE r == [channels[b] EXCEPT !.enabled = TRUE, !.name = name]
    <3>2. channels' = [channels EXCEPT ![b] = r]
      BY <3>1
    <3>3. channels \in Seq(ChannelRow) /\ b \in DOMAIN channels /\ DOMAIN channels = 1..Len(channels)
      BY <2>1, LenProperties DEF ChannelsTyped
    <3>4. channels[b] \in ChannelRow
      BY <3>3, ElementOfSeq
    <3>5. /\ r \in ChannelRow /\ r.enabled /\ r.type = channels[b].type
          /\ r.target = channels[b].target /\ r.limit = channels[b].limit
      BY <3>4 DEF ChannelRow
    <3> HIDE DEF r
    <3>6. channels' \in Seq(ChannelRow)
      BY <3>2, <3>3, <3>5, ExceptSeq
    <3>7. /\ DOMAIN channels' = DOMAIN channels /\ channels'[b] = r
          /\ \A c \in DOMAIN channels : c # b => channels'[c] = channels[c]
      BY <3>2, <3>3
    <3>8. ChannelsTyped'
      <4>1. ASSUME NEW c \in DOMAIN channels' PROVE channels'[c].type = channels'[c].target.type
        BY <3>5, <3>7, <4>1 DEF ChannelsTyped
      <4> QED BY <3>6, <4>1 DEF ChannelsTyped
    <3>9. ChannelsGrow
      BY <3>5, <3>7 DEF ChannelsGrow
    <3> QED BY <2>1, <3>3, <3>5, <3>7, <3>8, <3>9
  <2> QED BY <2>2, <2>3
<1> QED BY <1>1, <1>2

LEMMA SubscriptionEnsured ==
    ASSUME SubscriptionsTyped, NEW channel \in Nat, channel \in DOMAIN channels', ChannelsGrow,
           subscriptions' = Notifying!EnsuredSubscriptions(channel)
    PROVE  /\ SubscriptionsTyped' /\ SubscriptionsGrow
           /\ \E s \in DOMAIN subscriptions' :
                /\ subscriptions'[s].enabled /\ subscriptions'[s].event = "risk"
                /\ subscriptions'[s].channel = channel
<1> DEFINE found == {s \in DOMAIN subscriptions :
                        /\ subscriptions[s].channel = channel /\ subscriptions[s].event = "risk"
                        /\ subscriptions[s].site = "any"}
<1>1. CASE found = {}
  <2> DEFINE r == [channel |-> channel, event |-> "risk", site |-> "any", enabled |-> TRUE]
  <2>1. subscriptions' = Append(subscriptions, r)
    BY <1>1 DEF Notifying!EnsuredSubscriptions
  <2>2. r \in SubscriptionRow /\ r.channel \in DOMAIN channels'
    BY DEF SubscriptionRow
  <2>3. /\ SubscriptionsTyped' /\ SubscriptionsGrow
        /\ Len(subscriptions) + 1 \in DOMAIN subscriptions'
        /\ subscriptions'[Len(subscriptions) + 1] = r
    BY <2>1, <2>2, SubscriptionMade
  <2> QED BY <2>3
<1>2. CASE found # {}
  <2> DEFINE m == Notifying!Min(found)
  <2>1. subscriptions' = [subscriptions EXCEPT ![m].enabled = TRUE]
    BY <1>2 DEF Notifying!EnsuredSubscriptions
  <2>2. subscriptions \in Seq(SubscriptionRow) /\ DOMAIN subscriptions = 1..Len(subscriptions)
    BY LenProperties DEF SubscriptionsTyped
  <2>3. m \in found
    <3>1. found \in SUBSET Nat
      BY <2>2
    <3> QED BY <1>2, <3>1, LeastOf
  <2>4. /\ m \in DOMAIN subscriptions /\ subscriptions[m].channel = channel
        /\ subscriptions[m].event = "risk"
    BY <2>3
  <2> HIDE DEF m, found
  <2>5. subscriptions[m] \in SubscriptionRow
    BY <2>2, <2>4, ElementOfSeq
  <2> DEFINE r == [subscriptions[m] EXCEPT !.enabled = TRUE]
  <2>6. subscriptions' = [subscriptions EXCEPT ![m] = r]
    BY <2>1
  <2>7. /\ r \in SubscriptionRow /\ r.enabled /\ r.channel = subscriptions[m].channel
        /\ r.event = subscriptions[m].event
    BY <2>5 DEF SubscriptionRow
  <2> HIDE DEF r
  <2>8. subscriptions' \in Seq(SubscriptionRow)
    BY <2>2, <2>4, <2>6, <2>7, ExceptSeq
  <2>9. /\ DOMAIN subscriptions' = DOMAIN subscriptions /\ subscriptions'[m] = r
        /\ \A s \in DOMAIN subscriptions : s # m => subscriptions'[s] = subscriptions[s]
    BY <2>2, <2>4, <2>6
  <2>10. SubscriptionsTyped'
    <3>1. ASSUME NEW s \in DOMAIN subscriptions' PROVE subscriptions'[s].channel \in DOMAIN channels'
      BY <2>7, <2>9, <3>1 DEF SubscriptionsTyped, ChannelsGrow
    <3> QED BY <2>8, <3>1 DEF SubscriptionsTyped
  <2>11. SubscriptionsGrow
    BY <2>7, <2>9 DEF SubscriptionsGrow
  <2> QED BY <2>4, <2>7, <2>9, <2>10, <2>11
<1> QED BY <1>1, <1>2

LEMMA AllEnsured ==
    ASSUME ConfigType, NEW found \in SUBSET DOMAIN channels, NEW target \in Endpoints,
           NEW name \in Names \cup OwnerKeys,
           \A c \in found : channels[c].target = target,
           Notifying!EnsureAll(found, name, target)
    PROVE  /\ ConfigType' /\ ChannelsGrow /\ SubscriptionsGrow
           /\ template' = "on" /\ deliveries' = deliveries
           /\ \E s \in DOMAIN subscriptions' :
                /\ subscriptions'[s].enabled /\ subscriptions'[s].event = "risk"
                /\ subscriptions'[s].channel \in DOMAIN channels'
                /\ channels'[subscriptions'[s].channel].enabled
                /\ channels'[subscriptions'[s].channel].target = target
<1> DEFINE m == ChannelMeant(found)
<1>1. /\ channels' = Notifying!EnsuredChannels(found, name, target)
      /\ subscriptions' = Notifying!EnsuredSubscriptions(m)
      /\ template' = "on" /\ deliveries' = deliveries
  BY DEF Notifying!EnsureAll, ChannelMeant
<1>2. /\ ChannelsTyped' /\ ChannelsGrow /\ m \in DOMAIN channels'
      /\ channels'[m].enabled /\ channels'[m].target = target
  BY <1>1, ChannelEnsured DEF ConfigType
<1>3. m \in Nat
  <2>1. DOMAIN channels' = 1..Len(channels') /\ Len(channels') \in Nat
    BY <1>2, LenProperties DEF ChannelsTyped
  <2> QED BY <1>2, <2>1
<1> HIDE DEF m
<1>4. /\ SubscriptionsTyped' /\ SubscriptionsGrow
      /\ \E s \in DOMAIN subscriptions' :
           /\ subscriptions'[s].enabled /\ subscriptions'[s].event = "risk"
           /\ subscriptions'[s].channel = m
  BY <1>1, <1>2, <1>3, SubscriptionEnsured DEF ConfigType
<1> QED BY <1>1, <1>2, <1>4 DEF ConfigType
-----------------------------------------------------------------------------
(* The steps of a dispatch *)

\* Channels and subscriptions that are added or switched change nothing of
\* what is sent.
LEMMA ConfigKept ==
    ASSUME NotifyInv, ConfigType', ChannelsGrow, SubscriptionsGrow,
           UNCHANGED <<deliveries, received, dispatch, lost>>
    PROVE  NotifyInv'
<1>0. ConfigType /\ DeliveryType
  BY DEF NotifyInv
<1>1. DeliveryType'
  <2>1. \A d \in Calls : dispatch[d].pc # "resting" => dispatch[d].targets \subseteq DOMAIN subscriptions'
    BY <1>0 DEF DeliveryType, SubscriptionsGrow
  <2>2. \A i \in DOMAIN deliveries : deliveries[i].subscription \in DOMAIN subscriptions' \cup {0}
    BY <1>0 DEF DeliveryType, SubscriptionsGrow
  <2> QED BY <1>0, <2>1, <2>2 DEF DeliveryType
<1>2. \A s \in DOMAIN subscriptions :
        /\ ChannelFor(s)'.limit = ChannelFor(s).limit
        /\ ChannelFor(s)'.type = ChannelFor(s).type
  BY <1>0, ConfigTyped DEF ChannelFor, ChannelsGrow, SubscriptionsGrow
<1>3. ASSUME NEW d \in Calls PROVE SendsTrue(d)'
  <2> SUFFICES ASSUME Sends(d) PROVE SendsTrue(d)'
    BY DEF SendsTrue, Sends
  <2>1. SendsTrue(d) /\ dispatch[d].targets # {} /\ dispatch[d].pc # "resting"
    BY DEF NotifyInv, SendsTrue, Sends
  <2>2. /\ Notifying!First(d) \in DOMAIN subscriptions
        /\ Notifying!ChannelOf(d) = ChannelFor(Notifying!First(d))
    BY <1>0, <2>1, FirstTarget
  <2>3. Notifying!First(d)' = Notifying!First(d)
    BY DEF Notifying!First
  <2>4. Notifying!ChannelOf(d)' = ChannelFor(Notifying!First(d))'
    BY DEF Notifying!ChannelOf, ChannelFor
  <2>5. /\ Notifying!ChannelOf(d)'.limit = Notifying!ChannelOf(d).limit
        /\ Notifying!ChannelOf(d)'.type = Notifying!ChannelOf(d).type
    BY <1>2, <2>2, <2>3, <2>4 DEF ChannelFor
  <2> QED BY <2>1, <2>3, <2>5 DEF SendsTrue, Sends
<1>4. ASSUME NEW i \in DOMAIN deliveries PROVE RowTrue(i)'
  <2>1. RowTrue(i)
    BY DEF NotifyInv
  <2>2. CASE deliveries[i].subscription = 0
    BY <2>1, <2>2 DEF RowTrue
  <2>3. CASE deliveries[i].subscription \in DOMAIN subscriptions
    <3>1. ChannelFor(deliveries[i].subscription)'.limit = ChannelFor(deliveries[i].subscription).limit
      BY <1>2, <2>3 DEF ChannelFor
    <3> QED BY <2>1, <3>1 DEF RowTrue
  <2> QED BY <1>0, <2>2, <2>3 DEF DeliveryType
<1>5. Senders' = Senders /\ QueuedRows' = QueuedRows
  BY DEF Senders, Sends, QueuedRows
<1> QED BY <1>1, <1>3, <1>4, <1>5 DEF NotifyInv

LEMMA OtherSends ==
    ASSUME NEW e \in Calls, SendsTrue(e), dispatch'[e] = dispatch[e],
           UNCHANGED <<channels, subscriptions>>,
           Sends(e) => /\ dispatch[e].row \in DOMAIN deliveries'
                       /\ deliveries'[dispatch[e].row] = deliveries[dispatch[e].row]
                       /\ received'[dispatch[e].row] = received[dispatch[e].row]
    PROVE  SendsTrue(e)'
<1>1. Notifying!First(e)' = Notifying!First(e)
  BY DEF Notifying!First
<1>2. Notifying!ChannelOf(e)' = Notifying!ChannelOf(e)
  BY <1>1 DEF Notifying!ChannelOf
<1>3. Sends(e)' <=> Sends(e)
  BY DEF Sends
<1> QED BY <1>1, <1>2, <1>3 DEF SendsTrue

LEMMA RowStays ==
    ASSUME NEW i, RowTrue(i), deliveries'[i] = deliveries[i], received'[i] = received[i],
           UNCHANGED <<channels, subscriptions>>
    PROVE  RowTrue(i)'
<1>1. ChannelFor(deliveries[i].subscription)' = ChannelFor(deliveries'[i].subscription)
  BY DEF ChannelFor
<1> QED BY DEF RowTrue, ChannelFor

LEMMA RowInserted ==
    ASSUME DeliveryType, NEW r \in DeliveryRow, Notifying!Insert(r)
    PROVE  LET n == Len(deliveries) + 1
           IN /\ deliveries' \in Seq(DeliveryRow) /\ received' \in Seq(Nat)
              /\ Len(received') = Len(deliveries')
              /\ n \in Nat /\ DOMAIN deliveries' = DOMAIN deliveries \cup {n}
              /\ n \notin DOMAIN deliveries
              /\ deliveries'[n] = r /\ received'[n] = 0
              /\ \A i \in DOMAIN deliveries :
                   deliveries'[i] = deliveries[i] /\ received'[i] = received[i]
<1>1. /\ deliveries \in Seq(DeliveryRow) /\ received \in Seq(Nat)
      /\ Len(received) = Len(deliveries)
      /\ deliveries' = Append(deliveries, r) /\ received' = Append(received, 0)
  BY DEF DeliveryType, Notifying!Insert
<1>2. /\ deliveries' \in Seq(DeliveryRow) /\ Len(deliveries') = Len(deliveries) + 1
      /\ \A i \in 1..Len(deliveries) : deliveries'[i] = deliveries[i]
      /\ deliveries'[Len(deliveries) + 1] = r
      /\ received' \in Seq(Nat) /\ Len(received') = Len(received) + 1
      /\ \A i \in 1..Len(received) : received'[i] = received[i]
      /\ received'[Len(received) + 1] = 0
  BY <1>1, AppendProperties
<1>3. /\ Len(deliveries) \in Nat /\ DOMAIN deliveries = 1..Len(deliveries)
      /\ DOMAIN deliveries' = 1..Len(deliveries) + 1
  BY <1>1, <1>2, LenProperties
<1> QED BY <1>1, <1>2, <1>3

LEMMA ConfigStays ==
    ASSUME ConfigType, UNCHANGED <<channels, subscriptions>>
    PROVE  ConfigType'
  BY DEF ConfigType, ChannelsTyped, SubscriptionsTyped

\* A dispatch goes on without a row of its own being written.
LEMMA DispatchTyped ==
    ASSUME DeliveryType, UNCHANGED <<channels, subscriptions>>, NEW d \in Calls,
           NEW x \in DispatchCall, Notifying!Goto(d, x),
           x.pc # "resting" => x.targets \subseteq DOMAIN subscriptions
    PROVE  /\ dispatch' \in [Calls -> DispatchCall]
           /\ \A e \in Calls : dispatch'[e].pc # "resting" =>
                                  dispatch'[e].targets \subseteq DOMAIN subscriptions'
<1>1. /\ dispatch'[d] = x /\ \A e \in Calls \ {d} : dispatch'[e] = dispatch[e]
      /\ dispatch' \in [Calls -> DispatchCall]
  BY DispatchGoto
<1> QED BY <1>1 DEF DeliveryType

LEMMA DispatchBegun ==
    ASSUME NotifyInv, NEW d \in Calls, Notifying!Begin(d)
    PROVE  NotifyInv'
<1>0. /\ ConfigType /\ DeliveryType /\ UNCHANGED <<channels, subscriptions, lost>>
      /\ ~Sends(d) /\ dispatch[d].pc = "resting" /\ lost \in Nat
  BY DEF NotifyInv, Notifying!Begin, Notifying!At, Sends, DeliveryType
<1>1. PICK event \in Events, site \in Sites :
        IF Notifying!Targets(event, site) # {}
          THEN /\ Notifying!Goto(d, [pc |-> "next", targets |-> Notifying!Targets(event, site)])
               /\ UNCHANGED <<deliveries, received>>
          ELSE Notifying!Insert(Notifying!Row(0, "skipped", "none")) /\ UNCHANGED dispatch
  BY DEF Notifying!Begin
<1>2. CASE Notifying!Targets(event, site) # {}
  <2> DEFINE x == [pc |-> "next", targets |-> Notifying!Targets(event, site)]
  <2>1. Notifying!Goto(d, x) /\ UNCHANGED <<deliveries, received>>
    BY <1>1, <1>2
  <2>2. x \in DispatchCall /\ x.targets \subseteq DOMAIN subscriptions
    <3>1. x.targets \subseteq DOMAIN subscriptions /\ DOMAIN subscriptions \subseteq Nat
      BY <1>0, ConfigTyped DEF Notifying!Targets
    <3> QED BY <3>1 DEF DispatchCall, NextCall
  <2>3. x.pc = "next"
    OBVIOUS
  <2> HIDE DEF x
  <2>4. /\ dispatch'[d] = x /\ \A e \in Calls \ {d} : dispatch'[e] = dispatch[e]
    BY <1>0, <2>1, DispatchGoto
  <2>5. DeliveryType'
    BY <1>0, <2>1, <2>2, DispatchTyped DEF DeliveryType
  <2>6. \A e \in Calls : SendsTrue(e)'
    <3>1. SendsTrue(d)'
      BY <2>3, <2>4 DEF SendsTrue, Sends
    <3> QED BY <1>0, <2>1, <2>4, <3>1, OtherSends DEF NotifyInv, SendsTrue
  <2>7. Senders' = Senders /\ QueuedRows' = QueuedRows
    BY <1>0, <2>1, <2>3, <2>4 DEF Senders, Sends, QueuedRows
  <2>8. \A i \in DOMAIN deliveries' : RowTrue(i)'
    BY <1>0, <2>1, RowStays DEF NotifyInv
  <2>9. \A e \in Senders : dispatch'[e] = dispatch[e]
    BY <1>0, <2>4 DEF Senders
  <2> QED BY <1>0, <2>5, <2>6, <2>7, <2>8, <2>9, ConfigStays DEF NotifyInv
<1>3. CASE Notifying!Targets(event, site) = {}
  <2> DEFINE r == Notifying!Row(0, "skipped", "none")
  <2>1. r \in DeliveryRow /\ r.type = "none" /\ r.status = "skipped" /\ r.subscription = 0
    BY DEF Notifying!Row, DeliveryRow
  <2>2. Notifying!Insert(r) /\ UNCHANGED dispatch
    BY <1>1, <1>3
  <2> HIDE DEF r
  <2>0. PICK n : n = Len(deliveries) + 1
    OBVIOUS
  <2>3. /\ deliveries' \in Seq(DeliveryRow) /\ received' \in Seq(Nat)
        /\ Len(received') = Len(deliveries')
        /\ DOMAIN deliveries' = DOMAIN deliveries \cup {n} /\ n \notin DOMAIN deliveries
        /\ deliveries'[n] = r
        /\ \A i \in DOMAIN deliveries :
             deliveries'[i] = deliveries[i] /\ received'[i] = received[i]
    BY <1>0, <2>0, <2>1, <2>2, RowInserted
  <2>4. DeliveryType'
    BY <1>0, <2>1, <2>2, <2>3 DEF DeliveryType
  <2>5. \A e \in Calls : SendsTrue(e)'
    BY <1>0, <2>2, <2>3, OtherSends DEF NotifyInv, SendsTrue
  <2>6. Senders' = Senders /\ QueuedRows' = QueuedRows
    BY <2>1, <2>2, <2>3 DEF Senders, Sends, QueuedRows
  <2>7. RowTrue(n)'
    BY <2>1, <2>3 DEF RowTrue
  <2>8. \A i \in DOMAIN deliveries : RowTrue(i)'
    BY <1>0, <2>3, RowStays DEF NotifyInv
  <2> QED BY <1>0, <2>2, <2>3, <2>4, <2>5, <2>6, <2>7, <2>8, ConfigStays DEF NotifyInv
<1> QED BY <1>2, <1>3

LEMMA QueueKept ==
    ASSUME NotifyInv, NEW d \in Calls, Notifying!Queue(d)
    PROVE  NotifyInv'
<1>0. /\ ConfigType /\ DeliveryType /\ UNCHANGED <<channels, subscriptions, lost>>
      /\ ~Sends(d) /\ dispatch[d].pc = "next" /\ dispatch[d].targets # {} /\ lost \in Nat
  BY DEF NotifyInv, Notifying!Queue, Notifying!At, Sends, DeliveryType
<1>n. PICK n : n = Len(deliveries) + 1
  OBVIOUS
<1> DEFINE f == Notifying!First(d)
           r == Notifying!Row(f, "queued", Notifying!ChannelOf(d).type)
           x == [pc |-> "send", targets |-> dispatch[d].targets, row |-> n,
                 attempts |-> 0, status |-> "queued"]
<1>1. /\ f \in DOMAIN subscriptions /\ f \in Nat /\ Notifying!ChannelOf(d) = ChannelFor(f)
      /\ Notifying!ChannelOf(d) \in ChannelRow
      /\ dispatch[d].targets \subseteq DOMAIN subscriptions
      /\ dispatch[d].targets \in SUBSET Nat
  BY <1>0, FirstTarget, ConfigTyped DEF DeliveryType
<1>2. Notifying!Insert(r) /\ Notifying!Goto(d, x)
  BY <1>n DEF Notifying!Queue
<1>3. /\ r \in DeliveryRow /\ r.status = "queued" /\ r.subscription = f
      /\ r.type = Notifying!ChannelOf(d).type
  BY <1>1 DEF Notifying!Row, DeliveryRow, ChannelRow
<1>4. Len(deliveries) \in Nat
  BY <1>0, DeliveryTyped
<1>5. /\ x \in DispatchCall /\ x.pc = "send" /\ x.targets = dispatch[d].targets
      /\ x.row = n /\ x.attempts = 0
  BY <1>n, <1>1, <1>4 DEF DispatchCall, SendCall
<1> HIDE DEF r, x, f
<1>6. /\ deliveries' \in Seq(DeliveryRow) /\ received' \in Seq(Nat)
      /\ Len(received') = Len(deliveries')
      /\ DOMAIN deliveries' = DOMAIN deliveries \cup {n} /\ n \notin DOMAIN deliveries
      /\ deliveries'[n] = r /\ received'[n] = 0
      /\ \A i \in DOMAIN deliveries :
           deliveries'[i] = deliveries[i] /\ received'[i] = received[i]
  BY <1>n, <1>0, <1>2, <1>3, RowInserted
<1>7. dispatch'[d] = x /\ \A e \in Calls \ {d} : dispatch'[e] = dispatch[e]
  BY <1>0, <1>2, DispatchGoto
<1>8. DeliveryType'
  <2>1. \A i \in DOMAIN deliveries' : deliveries'[i].subscription \in DOMAIN subscriptions' \cup {0}
    BY <1>0, <1>1, <1>3, <1>6 DEF DeliveryType
  <2>2. /\ dispatch' \in [Calls -> DispatchCall]
        /\ \A e \in Calls : dispatch'[e].pc # "resting" =>
                               dispatch'[e].targets \subseteq DOMAIN subscriptions'
    BY <1>0, <1>1, <1>2, <1>5, DispatchTyped
  <2> QED BY <1>0, <1>6, <2>1, <2>2 DEF DeliveryType
<1>9. SendsTrue(d)'
  <2>1. Notifying!First(d)' = f
    BY <1>5, <1>7 DEF Notifying!First, f
  <2>2. Notifying!ChannelOf(d)' = Notifying!ChannelOf(d)
    BY <1>0, <2>1 DEF Notifying!ChannelOf, f
  <2>3. 0 < Notifying!ChannelOf(d).limit
    BY <1>1 DEF ChannelRow
  <2> QED BY <1>0, <1>3, <1>5, <1>6, <1>7, <2>1, <2>2, <2>3 DEF SendsTrue, Sends
<1>10. \A e \in Calls \ {d} : SendsTrue(e)'
  BY <1>0, <1>6, <1>7, OtherSends DEF NotifyInv, SendsTrue
<1>11. Senders' = Senders \cup {d} /\ d \notin Senders
  BY <1>0, <1>5, <1>7 DEF Senders, Sends
<1>12. QueuedRows' = QueuedRows \cup {n} /\ n \notin QueuedRows
  BY <1>3, <1>6 DEF QueuedRows
<1>13. \A e \in Senders : dispatch'[e] = dispatch[e] /\ dispatch[e].row # n
  BY <1>6, <1>7, <1>11 DEF NotifyInv, SendsTrue, Senders
<1>14. \A e1, e2 \in Senders' : e1 # e2 => dispatch'[e1].row # dispatch'[e2].row
  BY <1>5, <1>7, <1>11, <1>13 DEF NotifyInv
<1>15. Cardinality(QueuedRows') <= lost' + Cardinality(Senders')
  <2>1. /\ Cardinality(QueuedRows \cup {n}) = Cardinality(QueuedRows) + 1
        /\ Cardinality(Senders \cup {d}) = Cardinality(Senders) + 1
    BY <1>11, <1>12, SendersFinite, FS_AddElement
  <2> QED BY <1>0, <1>11, <1>12, <2>1, SendersFinite DEF NotifyInv
<1>16. RowTrue(n)'
  BY <1>3, <1>6 DEF RowTrue
<1>17. \A i \in DOMAIN deliveries : RowTrue(i)'
  BY <1>0, <1>6, RowStays DEF NotifyInv
<1> QED BY <1>0, <1>6, <1>8, <1>9, <1>10, <1>14, <1>15, <1>16, <1>17, ConfigStays DEF NotifyInv

\* A dispatch tries, or has tried, to send its row.
LEMMA SendingKept ==
    ASSUME NotifyInv, NEW d \in Calls, Sends(d), NEW x \in SendCall, Notifying!Goto(d, x),
           x.row = dispatch[d].row, x.targets = dispatch[d].targets,
           UNCHANGED <<channels, subscriptions, deliveries, lost>>,
           received' \in Seq(Nat), Len(received') = Len(received),
           \A i \in DOMAIN deliveries : i # x.row => received'[i] = received[i],
           received'[x.row] <= x.attempts,
           x.pc = "send" => x.attempts < Notifying!ChannelOf(d).limit
                            /\ Notifying!ChannelOf(d).type = "webhook",
           x.pc = "finalize" =>
             /\ x.status # "queued"
             /\ Notifying!ChannelOf(d).type = "webhook" =>
                  /\ x.status = "delivered" => received'[x.row] >= 1
                  /\ x.status = "failed" => x.attempts = Notifying!ChannelOf(d).limit
    PROVE  NotifyInv'
<1>0. /\ ConfigType /\ DeliveryType /\ SendsTrue(d) /\ x \in DispatchCall
      /\ x.pc \in {"send", "finalize"} /\ d \in Senders
  BY DEF NotifyInv, DispatchCall, SendCall, Senders
<1>1. dispatch'[d] = x /\ \A e \in Calls \ {d} : dispatch'[e] = dispatch[e]
  BY <1>0, DispatchGoto
<1>2. dispatch[d].pc # "resting" /\ dispatch[d].targets \subseteq DOMAIN subscriptions
  BY <1>0 DEF Sends, DeliveryType
<1>3. DeliveryType'
  <2>1. /\ dispatch' \in [Calls -> DispatchCall]
        /\ \A e \in Calls : dispatch'[e].pc # "resting" =>
                               dispatch'[e].targets \subseteq DOMAIN subscriptions'
    BY <1>0, <1>2, DispatchTyped
  <2> QED BY <1>0, <2>1 DEF DeliveryType
<1>4. SendsTrue(d)'
  <2>1. Notifying!First(d)' = Notifying!First(d)
    BY <1>1 DEF Notifying!First
  <2>2. Notifying!ChannelOf(d)' = Notifying!ChannelOf(d)
    BY <2>1 DEF Notifying!ChannelOf
  <2> QED BY <1>0, <1>1, <2>1, <2>2 DEF SendsTrue, Sends
<1>5. ASSUME NEW e \in Calls \ {d} PROVE SendsTrue(e)'
  <2>1. Sends(e) => dispatch[e].row \in DOMAIN deliveries /\ dispatch[e].row # x.row
    BY <1>0 DEF NotifyInv, SendsTrue, Senders
  <2> QED BY <1>1, <2>1, OtherSends DEF NotifyInv
<1>6. Senders' = Senders /\ QueuedRows' = QueuedRows
  BY <1>0, <1>1 DEF Senders, Sends, QueuedRows
<1>7. \A e \in Senders : dispatch'[e].row = dispatch[e].row
  BY <1>1 DEF Senders
<1>8. ASSUME NEW i \in DOMAIN deliveries PROVE RowTrue(i)'
  <2>1. CASE i = x.row
    BY <1>0, <2>1 DEF RowTrue, SendsTrue
  <2>2. CASE i # x.row
    BY <2>2, RowStays DEF NotifyInv
  <2> QED BY <2>1, <2>2
<1> QED BY <1>0, <1>3, <1>4, <1>5, <1>6, <1>7, <1>8, ConfigStays DEF NotifyInv

LEMMA SentTyped ==
    ASSUME NotifyInv, NEW d \in Calls, Sends(d)
    PROVE  /\ ConfigType /\ DeliveryType /\ SendsTrue(d) /\ dispatch[d] \in SendCall
           /\ Notifying!ChannelOf(d) \in ChannelRow
           /\ received[dispatch[d].row] \in Nat
<1>1. /\ ConfigType /\ DeliveryType /\ SendsTrue(d) /\ dispatch[d] \in SendCall
      /\ dispatch[d].pc # "resting" /\ dispatch[d].targets # {}
  BY DeliveryTyped DEF NotifyInv, SendsTrue, Sends
<1> QED BY <1>1, FirstTarget, DeliveryTyped DEF SendsTrue

LEMMA PostKept ==
    ASSUME NotifyInv, NEW d \in Calls, Notifying!PostWebhook(d)
    PROVE  NotifyInv'
<1>0. /\ Sends(d) /\ dispatch[d].pc = "send" /\ Notifying!ChannelOf(d).type = "webhook"
      /\ UNCHANGED <<channels, subscriptions, deliveries, lost>>
  BY DEF Notifying!PostWebhook, Notifying!At, Sends
<1>1. /\ ConfigType /\ DeliveryType /\ SendsTrue(d) /\ dispatch[d] \in SendCall
      /\ Notifying!ChannelOf(d) \in ChannelRow /\ received[dispatch[d].row] \in Nat
  BY <1>0, SentTyped
<1>2. PICK attempts : attempts = dispatch[d].attempts + 1
  OBVIOUS
<1>3. PICK limit : limit = Notifying!ChannelOf(d).limit
  OBVIOUS
<1>4. PICK r : r = dispatch[d].row
  OBVIOUS
<1>5. /\ attempts \in Nat /\ limit \in Nat \ {0} /\ r \in DOMAIN deliveries
      /\ dispatch[d].attempts \in Nat /\ dispatch[d].attempts < limit
      /\ received[r] \in Nat /\ received[r] <= dispatch[d].attempts
  BY <1>0, <1>1, <1>2, <1>3, <1>4 DEF SendCall, ChannelRow, SendsTrue
<1>6. PICK got \in BOOLEAN, well \in BOOLEAN :
        /\ well => got
        /\ received' = [received EXCEPT ![r] = @ + IF got THEN 1 ELSE 0]
        /\ IF well THEN Notifying!Sent(d, "delivered", attempts)
           ELSE IF attempts = limit THEN Notifying!Sent(d, "failed", attempts)
           ELSE Notifying!Goto(d, [dispatch[d] EXCEPT !.attempts = attempts])
  BY <1>2, <1>3, <1>4 DEF Notifying!PostWebhook
<1>7. /\ received' \in Seq(Nat) /\ Len(received') = Len(received)
      /\ received'[r] = received[r] + (IF got THEN 1 ELSE 0)
      /\ \A i \in DOMAIN deliveries : i # r => received'[i] = received[i]
  <2>1. received \in Seq(Nat) /\ DOMAIN received = DOMAIN deliveries
    BY <1>1, DeliveryTyped DEF DeliveryType
  <2>2. PICK v : v = received[r] + (IF got THEN 1 ELSE 0)
    OBVIOUS
  <2>3. v \in Nat
    BY <1>5, <2>2
  <2>4. received' = [received EXCEPT ![r] = v]
    BY <1>6, <2>2
  <2>5. received' \in Seq(Nat) /\ Len(received') = Len(received)
    BY <1>5, <2>1, <2>3, <2>4, ExceptSeq
  <2> QED BY <1>5, <2>1, <2>2, <2>4, <2>5
<1>8. /\ received'[r] <= attempts /\ (well => received'[r] >= 1)
      /\ (attempts # limit => attempts < limit)
  <2>1. PICK u \in {0, 1} : received'[r] = received[r] + u /\ (well => u = 1)
    BY <1>6, <1>7
  <2>2. attempts <= limit /\ received[r] + u <= attempts
    BY <1>2, <1>5
  <2>3. received[r] + 1 >= 1
    BY <1>5
  <2> QED BY <1>5, <2>1, <2>2, <2>3
<1>9. CASE well
  <2>1. PICK x : x = [dispatch[d] EXCEPT !.pc = "finalize", !.attempts = attempts,
                                         !.status = "delivered"]
    OBVIOUS
  <2>2. /\ x \in SendCall /\ x.row = r /\ x.targets = dispatch[d].targets
        /\ x.attempts = attempts /\ x.status = "delivered" /\ x.pc = "finalize"
    BY <1>1, <1>4, <1>5, <2>1 DEF SendCall
  <2>3. Notifying!Goto(d, x)
    BY <1>6, <1>9, <2>1 DEF Notifying!Sent
  <2> QED BY <1>0, <1>4, <1>7, <1>8, <1>9, <2>2, <2>3, SendingKept
<1>10. CASE ~well /\ attempts = limit
  <2>1. PICK x : x = [dispatch[d] EXCEPT !.pc = "finalize", !.attempts = attempts,
                                         !.status = "failed"]
    OBVIOUS
  <2>2. /\ x \in SendCall /\ x.row = r /\ x.targets = dispatch[d].targets
        /\ x.attempts = attempts /\ x.status = "failed" /\ x.pc = "finalize"
    BY <1>1, <1>4, <1>5, <2>1 DEF SendCall
  <2>3. Notifying!Goto(d, x)
    BY <1>6, <1>10, <2>1 DEF Notifying!Sent
  <2> QED BY <1>0, <1>3, <1>4, <1>7, <1>8, <1>10, <2>2, <2>3, SendingKept
<1>11. CASE ~well /\ attempts # limit
  <2>1. PICK x : x = [dispatch[d] EXCEPT !.attempts = attempts]
    OBVIOUS
  <2>2. /\ x \in SendCall /\ x.row = r /\ x.targets = dispatch[d].targets
        /\ x.attempts = attempts /\ x.pc = "send"
    BY <1>0, <1>1, <1>4, <1>5, <2>1 DEF SendCall
  <2>3. Notifying!Goto(d, x)
    BY <1>6, <1>11, <2>1
  <2> QED BY <1>0, <1>3, <1>4, <1>7, <1>8, <1>11, <2>2, <2>3, SendingKept
<1> QED BY <1>9, <1>10, <1>11

LEMMA EmailKept ==
    ASSUME NotifyInv, NEW d \in Calls, Notifying!SendEmail(d)
    PROVE  NotifyInv'
<1>0. /\ Sends(d) /\ dispatch[d].pc = "send" /\ Notifying!ChannelOf(d).type = "email"
      /\ UNCHANGED <<channels, subscriptions, deliveries, received, lost>>
      /\ Notifying!Sent(d, "delivered", 1)
  BY DEF Notifying!SendEmail, Notifying!At, Sends
<1>1. /\ ConfigType /\ DeliveryType /\ SendsTrue(d) /\ dispatch[d] \in SendCall
  BY <1>0, SentTyped
<1>2. PICK x : x = [dispatch[d] EXCEPT !.pc = "finalize", !.attempts = 1, !.status = "delivered"]
  OBVIOUS
<1>3. /\ x \in SendCall /\ x.row = dispatch[d].row /\ x.targets = dispatch[d].targets
      /\ x.attempts = 1 /\ x.status = "delivered" /\ x.pc = "finalize"
  BY <1>1, <1>2 DEF SendCall
<1>4. Notifying!Goto(d, x)
  BY <1>0, <1>2 DEF Notifying!Sent
<1>5. received \in Seq(Nat) /\ received'[x.row] <= 1
  <2>1. received[x.row] <= 0 /\ received[x.row] \in Nat
    BY <1>0, <1>1, <1>3, SentTyped DEF SendsTrue
  <2> QED BY <1>0, <1>1, <2>1 DEF DeliveryType
<1> QED BY <1>0, <1>3, <1>4, <1>5, SendingKept

\* What is recorded of a row is true of it, and the row is no longer sent.
LEMMA FinalizeKept ==
    ASSUME NotifyInv, NEW d \in Calls, Notifying!Finalize(d)
    PROVE  NotifyInv'
<1>0. /\ Sends(d) /\ dispatch[d].pc = "finalize"
      /\ UNCHANGED <<channels, subscriptions, received, lost>>
  BY DEF Notifying!Finalize, Notifying!At, Sends
<1>1. /\ ConfigType /\ DeliveryType /\ SendsTrue(d) /\ dispatch[d] \in SendCall
      /\ Notifying!ChannelOf(d) \in ChannelRow /\ received[dispatch[d].row] \in Nat
      /\ d \in Senders
  BY <1>0, SentTyped DEF Senders
<1>2. /\ dispatch[d].targets # {} /\ dispatch[d].pc # "resting"
      /\ dispatch[d].targets \subseteq DOMAIN subscriptions /\ dispatch[d].targets \subseteq Nat
  BY <1>0, <1>1 DEF SendsTrue, DeliveryType, SendCall
<1>3. /\ Notifying!First(d) \in DOMAIN subscriptions /\ Notifying!First(d) # 0
      /\ Notifying!ChannelOf(d) = ChannelFor(Notifying!First(d))
  BY <1>1, <1>2, FirstTarget, ConfigTyped
<1>4. PICK r : r = dispatch[d].row
  OBVIOUS
<1>5. PICK y : y = [deliveries[r] EXCEPT !.status = dispatch[d].status,
                                         !.attempts = dispatch[d].attempts]
  OBVIOUS
<1>6. /\ r \in DOMAIN deliveries /\ r \in QueuedRows /\ deliveries[r] \in DeliveryRow
      /\ deliveries[r].subscription = Notifying!First(d)
      /\ deliveries[r].type = Notifying!ChannelOf(d).type
  BY <1>0, <1>1, <1>4, DeliveryTyped DEF SendsTrue, QueuedRows
<1>7. /\ y \in DeliveryRow /\ y.status = dispatch[d].status /\ y.status # "queued"
      /\ y.attempts = dispatch[d].attempts /\ y.attempts \in Nat
      /\ y.subscription = Notifying!First(d) /\ y.type = Notifying!ChannelOf(d).type
  BY <1>0, <1>1, <1>5, <1>6 DEF DeliveryRow, SendCall, SendsTrue
<1>8. deliveries' = [deliveries EXCEPT ![r] = y]
  BY <1>4, <1>5 DEF Notifying!Finalize
<1>9. /\ deliveries' \in Seq(DeliveryRow) /\ Len(deliveries') = Len(deliveries)
      /\ DOMAIN deliveries' = DOMAIN deliveries /\ deliveries'[r] = y
      /\ \A i \in DOMAIN deliveries : i # r => deliveries'[i] = deliveries[i]
  BY <1>1, <1>6, <1>7, <1>8, ExceptSeq, DeliveryTyped DEF DeliveryType
<1> DEFINE x == [pc |-> "next", targets |-> dispatch[d].targets \ {Notifying!First(d)}]
<1>10. Notifying!Goto(d, x)
  BY DEF Notifying!Finalize
<1>11. /\ x \in DispatchCall /\ x.pc = "next" /\ x.targets \subseteq DOMAIN subscriptions
  BY <1>2 DEF DispatchCall, NextCall
<1> HIDE DEF x
<1>12. dispatch'[d] = x /\ \A e \in Calls \ {d} : dispatch'[e] = dispatch[e]
  BY <1>1, <1>10, DispatchGoto
<1>13. DeliveryType'
  <2>1. \A i \in DOMAIN deliveries' : deliveries'[i].subscription \in DOMAIN subscriptions' \cup {0}
    BY <1>0, <1>1, <1>3, <1>7, <1>9 DEF DeliveryType
  <2>2. /\ dispatch' \in [Calls -> DispatchCall]
        /\ \A e \in Calls : dispatch'[e].pc # "resting" =>
                               dispatch'[e].targets \subseteq DOMAIN subscriptions'
    BY <1>0, <1>1, <1>10, <1>11, DispatchTyped
  <2> QED BY <1>0, <1>1, <1>9, <2>1, <2>2 DEF DeliveryType
<1>14. SendsTrue(d)'
  BY <1>11, <1>12 DEF SendsTrue, Sends
<1>15. ASSUME NEW e \in Calls \ {d} PROVE SendsTrue(e)'
  <2>1. Sends(e) => dispatch[e].row \in DOMAIN deliveries /\ dispatch[e].row # r
    BY <1>1, <1>4 DEF NotifyInv, SendsTrue, Senders
  <2> QED BY <1>0, <1>9, <1>12, <2>1, OtherSends DEF NotifyInv
<1>16. Senders' = Senders \ {d}
  BY <1>11, <1>12 DEF Senders, Sends
<1>17. QueuedRows' = QueuedRows \ {r}
  BY <1>7, <1>9 DEF QueuedRows
<1>18. \A e \in Senders' : dispatch'[e] = dispatch[e] /\ e \in Senders
  BY <1>12, <1>16 DEF Senders
<1>19. Cardinality(QueuedRows') <= lost' + Cardinality(Senders')
  <2>1. /\ Cardinality(QueuedRows \ {r}) = Cardinality(QueuedRows) - 1
        /\ Cardinality(Senders \ {d}) = Cardinality(Senders) - 1
    BY <1>1, <1>6, SendersFinite, FS_RemoveElement
  <2> QED BY <1>0, <1>1, <1>16, <1>17, <2>1, SendersFinite DEF NotifyInv, DeliveryType
<1>20. RowTrue(r)'
  <2>1. ChannelFor(y.subscription)' = Notifying!ChannelOf(d)
    BY <1>0, <1>3, <1>7 DEF ChannelFor
  <2>2. /\ received[r] <= y.attempts /\ received[r] \in Nat
        /\ Notifying!ChannelOf(d).type = "webhook" =>
             /\ y.status = "delivered" => received[r] >= 1
             /\ y.status = "failed" => y.attempts = Notifying!ChannelOf(d).limit
    BY <1>0, <1>1, <1>4, <1>7 DEF SendsTrue
  <2>3. y.type = "webhook" =>
          /\ y.status = "delivered" => received[r] \in 1..y.attempts
          /\ y.status = "failed" =>
               /\ received[r] <= y.attempts /\ y.subscription # 0
               /\ y.attempts = ChannelFor(y.subscription)'.limit
    BY <1>3, <1>7, <2>1, <2>2
  <2> QED BY <1>0, <1>9, <2>3 DEF RowTrue, ChannelFor
<1>21. \A i \in DOMAIN deliveries : i # r => RowTrue(i)'
  BY <1>0, <1>9, RowStays DEF NotifyInv
<1>22. \A e1, e2 \in Senders' : e1 # e2 => dispatch'[e1].row # dispatch'[e2].row
  BY <1>18 DEF NotifyInv
<1> QED BY <1>0, <1>1, <1>9, <1>13, <1>14, <1>15, <1>19, <1>20, <1>21, <1>22, ConfigStays
        DEF NotifyInv

\* A dispatch ends, or is cut off: what it was sending stays queued.
LEMMA RestKept ==
    ASSUME NotifyInv, NEW d \in Calls, Notifying!Finish(d) \/ Notifying!Abort(d)
    PROVE  NotifyInv'
<1>0. /\ UNCHANGED <<channels, subscriptions, deliveries, received>>
      /\ Notifying!Goto(d, Notifying!Resting)
      /\ (lost' = lost /\ ~Sends(d)) \/ lost' = lost + 1
  BY DEF Notifying!Finish, Notifying!Abort, Notifying!At, Sends
<1>1. ConfigType /\ DeliveryType /\ lost \in Nat /\ lost' \in Nat
  BY <1>0 DEF NotifyInv, DeliveryType
<1>2. PICK x : x = Notifying!Resting
  OBVIOUS
<1>3. x \in DispatchCall /\ x.pc = "resting"
  BY <1>2 DEF DispatchCall, Notifying!Resting
<1>4. dispatch'[d] = x /\ \A e \in Calls \ {d} : dispatch'[e] = dispatch[e]
  BY <1>0, <1>1, <1>2, DispatchGoto
<1>5. DeliveryType'
  BY <1>0, <1>1, <1>2, <1>3, DispatchTyped DEF DeliveryType
<1>6. SendsTrue(d)'
  BY <1>3, <1>4 DEF SendsTrue, Sends
<1>7. \A e \in Calls \ {d} : SendsTrue(e)'
  BY <1>0, <1>4, OtherSends DEF NotifyInv, SendsTrue
<1>8. Senders' = Senders \ {d} /\ QueuedRows' = QueuedRows
  BY <1>0, <1>3, <1>4 DEF Senders, Sends, QueuedRows
<1>9. \A e \in Senders' : dispatch'[e] = dispatch[e] /\ e \in Senders
  BY <1>4, <1>8 DEF Senders
<1>10. \A i \in DOMAIN deliveries : RowTrue(i)'
  BY <1>0, RowStays DEF NotifyInv
<1>11. Cardinality(QueuedRows') <= lost' + Cardinality(Senders')
  <2>1. /\ Cardinality(QueuedRows) <= lost + Cardinality(Senders)
        /\ Cardinality(QueuedRows) \in Nat /\ Cardinality(Senders) \in Nat
    BY SendersFinite DEF NotifyInv
  <2>2. CASE d \in Senders
    <3>1. lost' = lost + 1
      BY <1>0, <2>2 DEF Senders
    <3>2. Cardinality(Senders') = Cardinality(Senders) - 1
      BY <1>8, <2>2, SendersFinite, FS_RemoveElement
    <3>3. lost + Cardinality(Senders) = lost + 1 + (Cardinality(Senders) - 1)
      BY <1>1, <2>1
    <3> QED BY <1>8, <2>1, <3>1, <3>2, <3>3
  <2>3. CASE d \notin Senders
    <3>1. Senders' = Senders
      BY <1>8, <2>3
    <3>2. lost + Cardinality(Senders) <= lost' + Cardinality(Senders)
      BY <1>0, <1>1, <2>1
    <3>3. Cardinality(QueuedRows) <= lost' + Cardinality(Senders)
      BY <1>1, <2>1, <3>2
    <3> QED BY <1>8, <3>1, <3>3
  <2> QED BY <2>2, <2>3
<1>12. \A e1, e2 \in Senders' : e1 # e2 => dispatch'[e1].row # dispatch'[e2].row
  BY <1>9 DEF NotifyInv
<1> QED BY <1>0, <1>1, <1>5, <1>6, <1>7, <1>10, <1>11, <1>12, ConfigStays DEF NotifyInv

LEMMA NotifyingNext ==
    ASSUME NotifyInv, Notifying!Next
    PROVE  NotifyInv'
<1>0. ConfigType
  BY DEF NotifyInv
<1>1. CASE Notifying!CreateChannel
  <2>1. UNCHANGED <<deliveries, received, dispatch, lost>>
    BY <1>1 DEF Notifying!CreateChannel
  <2> QED BY <1>0, <1>1, <2>1, ChannelCreated, ConfigKept
<1>2. CASE Notifying!CreateSubscription
  <2>1. UNCHANGED <<deliveries, received, dispatch, lost>>
    BY <1>2 DEF Notifying!CreateSubscription
  <2> QED BY <1>0, <1>2, <2>1, SubscriptionCreated, ConfigKept
<1>3. ASSUME NEW d \in Calls, Notifying!Begin(d) \/ Notifying!DispatchStep(d) \/ Notifying!Abort(d)
      PROVE  NotifyInv'
  BY <1>3, DispatchBegun, QueueKept, PostKept, EmailKept, FinalizeKept, RestKept
     DEF Notifying!DispatchStep
<1> QED BY <1>1, <1>2, <1>3 DEF Notifying!Next

LEMMA NotifyingInit == Notifying!Init => NotifyInv
<1> SUFFICES ASSUME Notifying!Init PROVE NotifyInv
  OBVIOUS
<1>1. /\ channels = <<>> /\ subscriptions = <<>> /\ deliveries = <<>> /\ received = <<>>
      /\ dispatch = [d \in Calls |-> Notifying!Resting] /\ lost = 0
      /\ Notifying!Resting.pc = "resting" /\ Notifying!Resting \in DispatchCall
  BY DEF Notifying!Init, Notifying!Resting, DispatchCall
<1>2. ConfigType /\ DeliveryType
  BY <1>1 DEF ConfigType, ChannelsTyped, SubscriptionsTyped, DeliveryType
<1>3. \A d \in Calls : ~Sends(d)
  BY <1>1 DEF Sends
<1>4. Senders = {} /\ QueuedRows = {}
  BY <1>1, <1>3 DEF Senders, QueuedRows
<1> QED BY <1>1, <1>2, <1>3, <1>4, FS_EmptySet DEF NotifyInv, SendsTrue
-----------------------------------------------------------------------------
(* What an operator sees of the deliveries *)

LEMMA NotifyingCounts ==
    \A S : Notifying!Cardinality(S) = Cardinality(S)
  BY Zenon DEF Notifying!Cardinality, Cardinality, Notifying!IsFiniteSet, IsFiniteSet

LEMMA FourParts ==
    ASSUME NEW A, NEW B, NEW C, NEW D, IsFiniteSet(A), IsFiniteSet(B), IsFiniteSet(C), IsFiniteSet(D),
           C \cap D = {}, B \cap (C \cup D) = {}, A \cap (B \cup (C \cup D)) = {}
    PROVE  Cardinality(A \cup (B \cup (C \cup D)))
             = Cardinality(A) + Cardinality(B) + Cardinality(C) + Cardinality(D)
<1>1. /\ IsFiniteSet(C \cup D)
      /\ Cardinality(C \cup D) = Cardinality(C) + Cardinality(D) - 0
  BY FS_Union, FS_EmptySet
<1>2. /\ IsFiniteSet(B \cup (C \cup D))
      /\ Cardinality(B \cup (C \cup D)) = Cardinality(B) + Cardinality(C \cup D) - 0
  BY <1>1, FS_Union, FS_EmptySet
<1>3. Cardinality(A \cup (B \cup (C \cup D)))
        = Cardinality(A) + Cardinality(B \cup (C \cup D)) - 0
  BY <1>2, FS_Union, FS_EmptySet
<1>4. /\ Cardinality(A) \in Nat /\ Cardinality(B) \in Nat /\ Cardinality(C) \in Nat
      /\ Cardinality(D) \in Nat
  BY FS_CardinalityType
<1> QED BY <1>1, <1>2, <1>3, <1>4

\* Rows are counted by their status, and those that are not are queued.
LEMMA SummaryCounts ==
    ASSUME NotifyInv
    PROVE  Notifying!Summary.total - Notifying!Summary.delivered - Notifying!Summary.failed
             - Notifying!Summary.skipped <= lost + Cardinality(Senders)
<1>1. /\ Notifying!Listed \subseteq DOMAIN deliveries /\ IsFiniteSet(DOMAIN deliveries)
      /\ \A i \in DOMAIN deliveries :
           deliveries[i].status \in {"queued", "delivered", "failed", "skipped"}
  BY DeliveryTyped, FS_Interval DEF NotifyInv, Notifying!Listed, DeliveryRow
<1>2. PICK Q : Q = {i \in Notifying!Listed : deliveries[i].status = "queued"}
  OBVIOUS
<1>3. PICK D : D = {i \in Notifying!Listed : deliveries[i].status = "delivered"}
  OBVIOUS
<1>4. PICK F : F = {i \in Notifying!Listed : deliveries[i].status = "failed"}
  OBVIOUS
<1>5. PICK S : S = {i \in Notifying!Listed : deliveries[i].status = "skipped"}
  OBVIOUS
<1>6. /\ Notifying!Summary.total = Cardinality(Notifying!Listed)
      /\ Notifying!Summary.delivered = Cardinality(D)
      /\ Notifying!Summary.failed = Cardinality(F)
      /\ Notifying!Summary.skipped = Cardinality(S)
  BY <1>3, <1>4, <1>5, NotifyingCounts DEF Notifying!Summary
<1>7. /\ Notifying!Listed = Q \cup (D \cup (F \cup S)) /\ F \cap S = {}
      /\ D \cap (F \cup S) = {} /\ Q \cap (D \cup (F \cup S)) = {}
      /\ Q \subseteq QueuedRows
  BY <1>1, <1>2, <1>3, <1>4, <1>5 DEF QueuedRows
<1>8. /\ Q \subseteq DOMAIN deliveries /\ D \subseteq DOMAIN deliveries
      /\ F \subseteq DOMAIN deliveries /\ S \subseteq DOMAIN deliveries
  BY <1>1, <1>2, <1>3, <1>4, <1>5
<1>9. IsFiniteSet(Q) /\ IsFiniteSet(D) /\ IsFiniteSet(F) /\ IsFiniteSet(S)
  BY <1>1, <1>8, FS_Subset
<1>10. /\ Cardinality(Q) \in Nat /\ Cardinality(D) \in Nat /\ Cardinality(F) \in Nat
       /\ Cardinality(S) \in Nat /\ Cardinality(Q) <= Cardinality(QueuedRows)
       /\ Cardinality(QueuedRows) \in Nat /\ Cardinality(Senders) \in Nat
  BY <1>7, <1>9, SendersFinite, FS_Subset, FS_CardinalityType
<1>11. Cardinality(Notifying!Listed)
         = Cardinality(Q) + Cardinality(D) + Cardinality(F) + Cardinality(S)
  BY <1>7, <1>9, FourParts
<1>12. Cardinality(QueuedRows) <= lost + Cardinality(Senders) /\ lost \in Nat
  BY DEF NotifyInv, DeliveryType
<1> QED BY <1>6, <1>10, <1>11, <1>12

LEMMA NotifyingTruthful ==
    ASSUME NotifyInv
    PROVE  Notifying!DeliveriesTruthful
<1>1. {d \in Calls : Notifying!At(d, "send") \/ Notifying!At(d, "finalize")} = Senders
  BY DEF Senders, Sends, Notifying!At
<1>2. \A i \in DOMAIN deliveries :
        LET row == deliveries[i]
        IN row.type = "webhook" =>
             /\ row.status = "delivered" => received[i] \in 1..row.attempts
             /\ row.status = "failed" =>
                  /\ received[i] <= row.attempts
                  /\ row.attempts = channels[subscriptions[row.subscription].channel].limit
  BY DEF NotifyInv, RowTrue, ChannelFor
<1>3. Notifying!Summary.total - Notifying!Summary.delivered - Notifying!Summary.failed
        - Notifying!Summary.skipped <= lost + Cardinality(Senders)
  BY SummaryCounts
<1>4. ASSUME lost = 0, \A d \in Calls : Notifying!At(d, "resting")
      PROVE  Notifying!Summary.latest # "queued"
  <2>1. Senders = {}
    BY <1>4 DEF Senders, Sends, Notifying!At
  <2>2. QueuedRows = {}
    BY <1>4, <2>1, SendersFinite, FS_EmptySet DEF NotifyInv
  <2>3. CASE Notifying!Listed = {}
    BY <2>3 DEF Notifying!Summary
  <2>4. CASE Notifying!Listed # {}
    <3>1. /\ Len(deliveries) \in Nat /\ Notifying!Listed \in SUBSET (0..Len(deliveries))
          /\ Notifying!Listed \subseteq DOMAIN deliveries
      BY DeliveryTyped DEF NotifyInv, Notifying!Listed
    <3>2. Notifying!Max(Notifying!Listed) \in DOMAIN deliveries
      BY <2>4, <3>1, GreatestOf
    <3> QED BY <2>2, <2>4, <3>2 DEF QueuedRows, Notifying!Summary
  <2> QED BY <2>3, <2>4
<1>5. lost = 0 /\ (\A d \in Calls : Notifying!At(d, "resting")) => Notifying!Summary.latest # "queued"
  BY <1>4
<1>6. Notifying!Summary.total - Notifying!Summary.delivered - Notifying!Summary.failed
        - Notifying!Summary.skipped
        <= lost + Cardinality({d \in Calls : Notifying!At(d, "send") \/ Notifying!At(d, "finalize")})
  BY <1>1, <1>3
<1> QED BY Zenon, <1>2, <1>5, <1>6, NotifyingCounts DEF Notifying!DeliveriesTruthful
-----------------------------------------------------------------------------
(* The owners of risks                                                       *)

RouteCall ==
    {Notifying!Idle} \cup [pc : {"rules"}, known : SUBSET OwnerKeys]
      \cup [pc : {"find"}, owner : OwnerKeys, target : Endpoints]
      \cup [pc : {"repair"}, owner : OwnerKeys, target : Endpoints, found : SUBSET Nat]

OwnersTyped ==
    /\ DOMAIN owners \subseteq OwnerKeys
    /\ \A o \in DOMAIN owners : owners[o] \in Notifying!OwnerEntry

\* The channels that a repair has found stay there, with the target they had.
FoundStands ==
    \A c \in Calls : calls[c].pc = "repair" =>
        /\ calls[c].found \subseteq DOMAIN channels
        /\ \A x \in calls[c].found : channels[x].target = calls[c].target

RouteInv == ConfigType /\ OwnersTyped /\ calls \in [Calls -> RouteCall] /\ FoundStands

LEMMA RouteCalls ==
    ASSUME NEW x \in RouteCall
    PROVE  /\ x.pc \in {"idle", "rules", "find", "repair"}
           /\ x.pc = "rules" => x.known \in SUBSET OwnerKeys
           /\ x.pc \in {"find", "repair"} => x.owner \in OwnerKeys /\ x.target \in Endpoints
  BY DEF RouteCall, Notifying!Idle

LEMMA RouteGoto ==
    ASSUME calls \in [Calls -> RouteCall], NEW c \in Calls, NEW x \in RouteCall, Notifying!Call(c, x)
    PROVE  /\ calls' \in [Calls -> RouteCall] /\ calls'[c] = x
           /\ \A e \in Calls \ {c} : calls'[e] = calls[e]
  BY DEF Notifying!Call

\* Whatever else is done to the tables, what was found stands.
LEMMA FoundStays ==
    ASSUME RouteInv, ChannelsGrow,
           \A c \in Calls : \/ calls'[c] = calls[c]
                            \/ calls'[c].pc \in {"idle", "rules", "find"}
    PROVE  FoundStands'
<1> SUFFICES ASSUME NEW c \in Calls, calls'[c].pc = "repair"
             PROVE  /\ calls'[c].found \subseteq DOMAIN channels'
                    /\ \A x \in calls'[c].found : channels'[x].target = calls'[c].target
  BY DEF FoundStands
<1>1. calls'[c] = calls[c]
  OBVIOUS
<1> QED BY <1>1 DEF RouteInv, FoundStands, ChannelsGrow

\* The dispatches and the forms do nothing to channels but add them.
LEMMA NextConfig ==
    ASSUME ConfigType, Notifying!Next
    PROVE  ConfigType' /\ ChannelsGrow
<1>1. CASE Notifying!CreateChannel
  BY <1>1, ChannelCreated
<1>2. CASE Notifying!CreateSubscription
  BY <1>2, SubscriptionCreated
<1>3. ASSUME NEW d \in Calls, Notifying!Begin(d) \/ Notifying!DispatchStep(d) \/ Notifying!Abort(d)
      PROVE  UNCHANGED <<channels, subscriptions>>
  BY <1>3 DEF Notifying!Begin, Notifying!DispatchStep, Notifying!Abort, Notifying!Queue,
     Notifying!PostWebhook, Notifying!SendEmail, Notifying!Finalize, Notifying!Finish
<1> QED BY <1>1, <1>2, <1>3, ConfigSame DEF Notifying!Next

LEMMA DirectoryKept ==
    ASSUME RouteInv, Notifying!ReplaceDirectory
    PROVE  RouteInv'
<1>1. PICK keys \in SUBSET OwnerKeys : \E directory \in [keys -> Notifying!OwnerEntry] :
          owners' = directory
  BY DEF Notifying!ReplaceDirectory
<1>2. OwnersTyped'
  BY <1>1 DEF OwnersTyped
<1>3. UNCHANGED <<channels, subscriptions, calls>>
  BY DEF Notifying!ReplaceDirectory, Notifying!vars
<1> QED BY <1>2, <1>3, ConfigSame, FoundStays DEF RouteInv

LEMMA ReadDirectoryKept ==
    ASSUME RouteInv, NEW c \in Calls, Notifying!ReadDirectory(c) \/ Notifying!ReplaceRules(c)
    PROVE  RouteInv'
<1>1. UNCHANGED <<channels, subscriptions, owners>>
  BY DEF Notifying!ReadDirectory, Notifying!ReplaceRules, Notifying!vars
<1>2. PICK x \in RouteCall : Notifying!Call(c, x) /\ x.pc \in {"idle", "rules"}
  <2>1. /\ [pc |-> "rules", known |-> DOMAIN owners] \in RouteCall
        /\ Notifying!Idle \in RouteCall /\ Notifying!Idle.pc = "idle"
    BY DEF RouteInv, OwnersTyped, RouteCall, Notifying!Idle
  <2> QED BY <2>1 DEF Notifying!ReadDirectory, Notifying!ReplaceRules
<1>3. /\ calls' \in [Calls -> RouteCall] /\ calls'[c] = x
      /\ \A e \in Calls \ {c} : calls'[e] = calls[e]
  BY <1>2, RouteGoto DEF RouteInv
<1>4. FoundStands'
  BY <1>1, <1>2, <1>3, ConfigSame, FoundStays DEF RouteInv
<1>5. OwnersTyped'
  BY <1>1 DEF RouteInv, OwnersTyped
<1> QED BY <1>1, <1>3, <1>4, <1>5, ConfigSame DEF RouteInv

LEMMA ReadReadinessKept ==
    ASSUME RouteInv, NEW c \in Calls, Notifying!ReadReadiness(c)
    PROVE  RouteInv'
<1>1. UNCHANGED <<channels, subscriptions, owners>>
  BY DEF Notifying!ReadReadiness, Notifying!vars
<1>2. PICK o \in DOMAIN owners :
        /\ owners[o].target # Notifying!NoTarget
        /\ Notifying!Call(c, [pc |-> "find", owner |-> o, target |-> owners[o].target])
  BY DEF Notifying!ReadReadiness
<1>3. PICK x : x = [pc |-> "find", owner |-> o, target |-> owners[o].target]
  OBVIOUS
<1>4. x \in RouteCall /\ x.pc = "find"
  <2>1. o \in OwnerKeys /\ owners[o].target \in Endpoints
    BY <1>2 DEF RouteInv, OwnersTyped, Notifying!OwnerEntry
  <2> QED BY <1>3, <2>1 DEF RouteCall
<1>5. /\ calls' \in [Calls -> RouteCall] /\ calls'[c] = x
      /\ \A e \in Calls \ {c} : calls'[e] = calls[e]
  BY <1>2, <1>3, <1>4, RouteGoto DEF RouteInv
<1>6. FoundStands'
  BY <1>1, <1>4, <1>5, ConfigSame, FoundStays DEF RouteInv
<1>7. OwnersTyped'
  BY <1>1 DEF RouteInv, OwnersTyped
<1> QED BY <1>1, <1>5, <1>6, <1>7, ConfigSame DEF RouteInv

LEMMA FindKept ==
    ASSUME RouteInv, NEW c \in Calls, Notifying!FindChannel(c)
    PROVE  RouteInv'
<1>1. /\ UNCHANGED <<channels, subscriptions, owners>> /\ calls[c].pc = "find"
      /\ calls[c] \in RouteCall
  BY DEF Notifying!FindChannel, Notifying!vars, RouteInv
<1>2. PICK found : found = {x \in DOMAIN channels : channels[x].target = calls[c].target
                                                    /\ channels[x].type = calls[c].target.type}
  OBVIOUS
<1>3. PICK x : x = [pc |-> "repair", owner |-> calls[c].owner, target |-> calls[c].target,
                    found |-> found]
  OBVIOUS
<1>4. Notifying!Call(c, x)
  BY <1>2, <1>3 DEF Notifying!FindChannel
<1>5. found \in SUBSET Nat
  BY <1>2, ConfigTyped DEF RouteInv
<1>6. x \in RouteCall /\ x.target = calls[c].target /\ x.found = found
  BY <1>1, <1>3, <1>5, RouteCalls DEF RouteCall
<1>7. /\ calls' \in [Calls -> RouteCall] /\ calls'[c] = x
      /\ \A e \in Calls \ {c} : calls'[e] = calls[e]
  BY <1>4, <1>6, RouteGoto DEF RouteInv
<1>8. FoundStands'
  <2> SUFFICES ASSUME NEW e \in Calls, calls'[e].pc = "repair"
               PROVE  /\ calls'[e].found \subseteq DOMAIN channels
                      /\ \A y \in calls'[e].found : channels[y].target = calls'[e].target
    BY <1>1 DEF FoundStands
  <2>1. CASE e = c
    BY <1>2, <1>6, <1>7, <2>1
  <2>2. CASE e # c
    BY <1>7, <2>2 DEF RouteInv, FoundStands
  <2> QED BY <2>1, <2>2
<1>9. OwnersTyped'
  BY <1>1 DEF RouteInv, OwnersTyped
<1> QED BY <1>1, <1>7, <1>8, <1>9, ConfigSame DEF RouteInv

LEMMA RepairKept ==
    ASSUME RouteInv, NEW c \in Calls, Notifying!Repair(c)
    PROVE  /\ RouteInv' /\ calls[c].target \in Endpoints /\ owners' = owners
           /\ template' = "on"
           /\ \E s \in DOMAIN subscriptions' :
                /\ subscriptions'[s].enabled /\ subscriptions'[s].event = "risk"
                /\ subscriptions'[s].channel \in DOMAIN channels'
                /\ channels'[subscriptions'[s].channel].enabled
                /\ channels'[subscriptions'[s].channel].target = calls[c].target
<1>1. /\ owners' = owners /\ calls[c].pc = "repair" /\ calls[c] \in RouteCall
      /\ Notifying!EnsureAll(calls[c].found, calls[c].owner, calls[c].target)
      /\ Notifying!Call(c, Notifying!Idle)
  BY DEF Notifying!Repair, RouteInv
<1>2. /\ calls[c].owner \in OwnerKeys /\ calls[c].target \in Endpoints
      /\ calls[c].found \in SUBSET DOMAIN channels
      /\ \A x \in calls[c].found : channels[x].target = calls[c].target
  BY <1>1, RouteCalls DEF RouteInv, FoundStands
<1>3. Notifying!Idle \in RouteCall /\ Notifying!Idle.pc = "idle"
  BY DEF RouteCall, Notifying!Idle
<1>4. /\ calls' \in [Calls -> RouteCall] /\ calls'[c] = Notifying!Idle
      /\ \A e \in Calls \ {c} : calls'[e] = calls[e]
  BY <1>1, <1>3, RouteGoto DEF RouteInv
<1>5. /\ ConfigType' /\ ChannelsGrow /\ template' = "on"
      /\ \E s \in DOMAIN subscriptions' :
           /\ subscriptions'[s].enabled /\ subscriptions'[s].event = "risk"
           /\ subscriptions'[s].channel \in DOMAIN channels'
           /\ channels'[subscriptions'[s].channel].enabled
           /\ channels'[subscriptions'[s].channel].target = calls[c].target
  BY <1>1, <1>2, AllEnsured DEF RouteInv
<1>6. FoundStands'
  BY <1>3, <1>4, <1>5, FoundStays
<1>7. OwnersTyped'
  BY <1>1 DEF RouteInv, OwnersTyped
<1> QED BY <1>1, <1>2, <1>4, <1>5, <1>6, <1>7 DEF RouteInv

LEMMA BootstrapKept ==
    ASSUME RouteInv, Notifying!BootstrapNotifications \/ Notifying!BootstrapFollowup
    PROVE  RouteInv'
<1>1. owners' = owners /\ calls' = calls
  BY DEF Notifying!BootstrapNotifications, Notifying!BootstrapFollowup
<1>2. ConfigType' /\ ChannelsGrow
  <2>1. CASE Notifying!BootstrapNotifications
    <3>1. PICK target \in Endpoints, name \in Names :
            Notifying!EnsureAll({x \in DOMAIN channels : channels[x].target = target
                                    /\ channels[x].name = name /\ channels[x].type = target.type},
                                name, target)
      BY <2>1 DEF Notifying!BootstrapNotifications
    <3> DEFINE found == {x \in DOMAIN channels : channels[x].target = target
                             /\ channels[x].name = name /\ channels[x].type = target.type}
    <3>2. found \in SUBSET DOMAIN channels /\ \A x \in found : channels[x].target = target
      OBVIOUS
    <3>3. Notifying!EnsureAll(found, name, target)
      BY <3>1
    <3> HIDE DEF found
    <3> QED BY <3>2, <3>3, AllEnsured DEF RouteInv
  <2>2. CASE Notifying!BootstrapFollowup
    BY <2>2, ConfigSame DEF Notifying!BootstrapFollowup, Notifying!vars, RouteInv
  <2> QED BY <2>1, <2>2
<1>3. FoundStands'
  BY <1>1, <1>2, FoundStays
<1>4. OwnersTyped'
  BY <1>1 DEF RouteInv, OwnersTyped
<1> QED BY <1>1, <1>2, <1>3, <1>4 DEF RouteInv

LEMMA DispatchRoutes ==
    ASSUME RouteInv, Notifying!Next, UNCHANGED Notifying!ownerVars
    PROVE  RouteInv'
<1>1. owners' = owners /\ calls' = calls
  BY DEF Notifying!ownerVars
<1>2. ConfigType' /\ ChannelsGrow
  BY NextConfig DEF RouteInv
<1>3. FoundStands'
  BY <1>1, <1>2, FoundStays
<1>4. OwnersTyped'
  BY <1>1 DEF RouteInv, OwnersTyped
<1> QED BY <1>1, <1>2, <1>3, <1>4 DEF RouteInv

LEMMA RoutingNext ==
    ASSUME RouteInv, Notifying!NextOwners
    PROVE  RouteInv'
<1>1. ASSUME NEW c \in Calls,
             \/ Notifying!ReadDirectory(c) \/ Notifying!ReplaceRules(c)
             \/ Notifying!ReadReadiness(c) \/ Notifying!FindChannel(c) \/ Notifying!Repair(c)
      PROVE  RouteInv'
  BY <1>1, ReadDirectoryKept, ReadReadinessKept, FindKept, RepairKept
<1> QED BY <1>1, DirectoryKept, BootstrapKept, DispatchRoutes DEF Notifying!NextOwners

LEMMA RoutingInit == Notifying!InitOwners => RouteInv
<1> SUFFICES ASSUME Notifying!InitOwners PROVE RouteInv
  OBVIOUS
<1>1. /\ channels = <<>> /\ subscriptions = <<>> /\ owners = <<>>
      /\ calls = [c \in Calls |-> Notifying!Idle] /\ Notifying!Idle.pc = "idle"
      /\ Notifying!Idle \in RouteCall
  BY DEF Notifying!InitOwners, Notifying!Init, Notifying!Idle, RouteCall
<1>2. ConfigType
  BY <1>1 DEF ConfigType, ChannelsTyped, SubscriptionsTyped
<1> QED BY <1>1, <1>2 DEF RouteInv, OwnersTyped, FoundStands

\* The dispatch of a ticket selects what makes its owner ready.
LEMMA RoutingTells ==
    ASSUME RouteInv
    PROVE  Notifying!ReadyIsTold
<1> SUFFICES ASSUME NEW o \in DOMAIN owners, Notifying!Readiness(o) = "ready"
             PROVE  /\ Notifying!NotificationsReady
                    /\ \A site \in Sites : \E s \in Notifying!Targets("risk", site) :
                         channels[subscriptions[s].channel].target = owners[o].target
  BY DEF Notifying!ReadyIsTold
<1>1. template = "on" /\ Notifying!Subscribed(owners[o].target) # {}
  BY DEF Notifying!Readiness
<1>2. PICK s \in DOMAIN subscriptions :
        /\ subscriptions[s].enabled /\ subscriptions[s].event = "risk"
        /\ subscriptions[s].channel \in Notifying!ChannelsTo(owners[o].target)
  BY <1>1 DEF Notifying!Subscribed
<1>3. /\ subscriptions[s].channel \in DOMAIN channels
      /\ channels[subscriptions[s].channel].enabled
      /\ channels[subscriptions[s].channel].target = owners[o].target
  BY <1>2 DEF Notifying!ChannelsTo
<1>4. Notifying!NotificationsReady
  BY <1>1, <1>2, <1>3 DEF Notifying!NotificationsReady
<1>5. \A site \in Sites : s \in Notifying!Targets("risk", site)
  BY <1>2, <1>3 DEF Notifying!Targets
<1> QED BY <1>3, <1>4, <1>5

LEMMA RoutingRepairs ==
    ASSUME RouteInv, Notifying!NextOwners
    PROVE  Notifying!RepairEndsReady
<1> SUFFICES ASSUME NEW c \in Calls, NEW o \in DOMAIN owners,
                    calls[c].pc = "repair", calls'[c].pc = "idle", calls[c].owner = o,
                    owners[o] = [enabled |-> TRUE, target |-> calls[c].target]
             PROVE  Notifying!Readiness(o)' = "ready"
  BY DEF Notifying!RepairEndsReady
<1>1. Notifying!Repair(c)
  <2>1. ASSUME calls' = calls PROVE FALSE
    BY <2>1
  <2>2. ASSUME NEW e \in Calls, calls[e].pc # "repair", NEW x, Notifying!Call(e, x) PROVE FALSE
    BY <2>2 DEF Notifying!Call, RouteInv
  <2>3. ASSUME NEW e \in Calls,
               \/ Notifying!ReadDirectory(e) \/ Notifying!ReplaceRules(e)
               \/ Notifying!ReadReadiness(e) \/ Notifying!FindChannel(e)
        PROVE  FALSE
    <3>1. CASE Notifying!ReadDirectory(e)
      BY <2>2, <3>1 DEF Notifying!ReadDirectory, Notifying!Idle
    <3>2. CASE Notifying!ReplaceRules(e)
      BY <2>2, <3>2 DEF Notifying!ReplaceRules
    <3>3. CASE Notifying!ReadReadiness(e)
      <4>1. calls[e].pc # "repair" /\ \E x : Notifying!Call(e, x)
        BY <3>3 DEF Notifying!ReadReadiness, Notifying!Idle
      <4> QED BY <2>2, <4>1
    <3>4. CASE Notifying!FindChannel(e)
      <4>1. calls[e].pc # "repair" /\ \E x : Notifying!Call(e, x)
        BY Zenon, <3>4 DEF Notifying!FindChannel
      <4> QED BY <2>2, <4>1
    <3> QED BY <2>3, <3>1, <3>2, <3>3, <3>4
  <2>4. ASSUME NEW e \in Calls \ {c}, Notifying!Repair(e) PROVE FALSE
    BY <2>4 DEF Notifying!Repair, Notifying!Call, RouteInv
  <2> QED BY <2>1, <2>3, <2>4 DEF Notifying!NextOwners, Notifying!ReplaceDirectory,
          Notifying!BootstrapNotifications, Notifying!BootstrapFollowup, Notifying!ownerVars
<1>2. PICK target : target = calls[c].target
  OBVIOUS
<1>3. /\ target \in Endpoints /\ owners' = owners /\ template' = "on"
      /\ owners[o].enabled /\ owners[o].target = target
  BY <1>1, <1>2, RepairKept
<1>4. PICK s \in DOMAIN subscriptions' :
        /\ subscriptions'[s].enabled /\ subscriptions'[s].event = "risk"
        /\ subscriptions'[s].channel \in DOMAIN channels'
        /\ channels'[subscriptions'[s].channel].enabled
        /\ channels'[subscriptions'[s].channel].target = target
  BY <1>1, <1>2, RepairKept
<1>5. subscriptions'[s].channel \in Notifying!ChannelsTo(target)'
  BY <1>4 DEF Notifying!ChannelsTo
<1>6. s \in Notifying!Subscribed(target)'
  BY <1>4, <1>5 DEF Notifying!Subscribed
<1>7. target # Notifying!NoTarget
  BY <1>3, ChannelAssumption
<1>8. /\ Notifying!ChannelsTo(owners[o].target)' = Notifying!ChannelsTo(target)'
      /\ Notifying!Subscribed(owners[o].target)' = Notifying!Subscribed(target)'
  BY <1>3 DEF Notifying!ChannelsTo, Notifying!Subscribed
<1> QED BY <1>3, <1>5, <1>6, <1>7, <1>8 DEF Notifying!Readiness
-----------------------------------------------------------------------------
(* What is urgent of daily tasks                                             *)

SourceRight(t, s) ==
    /\ s.at \in Int
    /\ Kinds[t] = "alert" =>
         s.weight \in DOMAIN Following!SeverityScore /\ s.status \in DOMAIN Following!AlertBoost
    /\ Kinds[t] = "ticket" =>
         s.weight \in DOMAIN Following!TicketScore /\ s.status \in DOMAIN Following!TicketBoost

\* Whatever the policy is set to, the windows are some number of minutes.
PolicyRight(p) == \A level \in DOMAIN Following!TicketScore : p.windows[level][1] \in Int

TasksRight(tasks, instants) ==
    /\ now \in instants /\ DOMAIN source = tasks /\ PolicyRight(policy)
    /\ \A t \in tasks : source[t] = Absent \/ SourceRight(t, source[t])

\* The more an alert scores, the shorter it may stay undone.
LEMMA LevelRises ==
    ASSUME NEW x \in Int, NEW y \in Int, x <= y
    PROVE  LET low == Following!Level(x, 920, 800)
               new == Following!Level(y, 920, 800)
           IN /\ Following!AlertWindows[low][1] \in Int /\ Following!AlertWindows[new][1] \in Int
              /\ Following!AlertWindows[new][1] <= Following!AlertWindows[low][1]
<1> DEFINE low == Following!Level(x, 920, 800)
           new == Following!Level(y, 920, 800)
           Rank(l) == CASE l = "critical" -> 4 [] l = "high" -> 3 [] l = "medium" -> 2 [] l = "low" -> 1
<1>1. /\ low \in {"critical", "high", "medium", "low"} /\ new \in {"critical", "high", "medium", "low"}
      /\ Rank(low) <= Rank(new)
  BY DEF Following!Level
<1>2. /\ Following!AlertWindows["critical"][1] = 30 /\ Following!AlertWindows["high"][1] = 120
      /\ Following!AlertWindows["medium"][1] = 360 /\ Following!AlertWindows["low"][1] = 720
  BY DEF Following!AlertWindows
<1> HIDE DEF low, new
<1>3. /\ Following!AlertWindows[low][1] \in Int /\ Following!AlertWindows[new][1] \in Int
      /\ Following!AlertWindows[new][1] <= Following!AlertWindows[low][1]
  BY <1>1, <1>2
<1> QED BY <1>3 DEF low, new

\* The score of an alert rises with the time.
LEMMA ScoreRises ==
    ASSUME NEW t, NEW s, SourceRight(t, s), Kinds[t] = "alert", now \in Int, now' \in Int, now <= now'
    PROVE  /\ Following!AlertWindows[Following!AlertLevel(s)][1] \in Int
           /\ Following!AlertWindows[Following!AlertLevel(s)'][1] \in Int
           /\ Following!AlertWindows[Following!AlertLevel(s)'][1]
                <= Following!AlertWindows[Following!AlertLevel(s)][1]
<1>1. ASSUME NEW b \in Int, NEW cap \in Int
      PROVE  LET x == Following!Least(b + Following!Least(now - s.at, cap), 999)
                 y == Following!Least(b + Following!Least(now' - s.at, cap), 999)
             IN x \in Int /\ y \in Int /\ x <= y
  BY DEF SourceRight, Following!Least
<1>2. PICK b : b = Following!SeverityScore[s.weight] + Following!AlertBoost[s.status]
  OBVIOUS
<1>3. b \in Int
  <2>1. \A w \in DOMAIN Following!SeverityScore : Following!SeverityScore[w] \in Int
    BY DEF Following!SeverityScore
  <2>2. \A w \in DOMAIN Following!AlertBoost : Following!AlertBoost[w] \in Int
    BY DEF Following!AlertBoost
  <2> QED BY <1>2, <2>1, <2>2 DEF SourceRight
<1>4. PICK x : x = Following!Least(b + Following!Least(now - s.at, 180), 999)
  OBVIOUS
<1>5. PICK y : y = Following!Least(b + Following!Least(now' - s.at, 180), 999)
  OBVIOUS
<1>6. x \in Int /\ y \in Int /\ x <= y
  BY <1>1, <1>3, <1>4, <1>5
<1>7. /\ Following!AlertLevel(s) = Following!Level(x, 920, 800)
      /\ Following!AlertLevel(s)' = Following!Level(y, 920, 800)
  BY <1>2, <1>4, <1>5 DEF Following!AlertLevel
<1>8. /\ Following!AlertWindows[Following!Level(x, 920, 800)][1] \in Int
      /\ Following!AlertWindows[Following!Level(y, 920, 800)][1] \in Int
      /\ Following!AlertWindows[Following!Level(y, 920, 800)][1]
           <= Following!AlertWindows[Following!Level(x, 920, 800)][1]
  BY <1>6, LevelRises
<1>9. (Following!AlertWindows[Following!AlertLevel(s)][1])'
        = Following!AlertWindows[Following!Level(y, 920, 800)][1]
  BY <1>7 DEF Following!AlertWindows
<1> QED BY <1>7, <1>8

\* A ticket is due later again only when the policy changes or gives more time.
DueLaterAgain(t) ==
    /\ Kinds[t] = "ticket"
    /\ \/ policy' # policy
       \/ policy.windows[Following!Priority(t)'][1] > policy.windows[Following!Priority(t)][1]

LEMMA OverdueLasts ==
    ASSUME NEW t, Kinds[t] \in {"alert", "ticket", "runbook", "go_live", "activation", "feedback"},
           SourceRight(t, source[t]), now \in Int, now' \in Int, now <= now',
           source'[t] = source[t], Following!Base(t) = "overdue", PolicyRight(policy)
    PROVE  Following!Base(t)' = "overdue" \/ DueLaterAgain(t)
<1> DEFINE s == source[t]
<1>1. /\ Kinds[t] \in {"alert", "ticket", "runbook"} /\ Following!DueAt(t) <= now
  BY DEF Following!Base
<1>2. Following!DueAt(t) = s.at + Following!Windows(t)[1] /\ s.at \in Int
  BY <1>1 DEF Following!DueAt, Following!ObservedAt, SourceRight
<1>3. Following!DueAt(t)' = s.at + Following!Windows(t)'[1]
  BY <1>1 DEF Following!DueAt, Following!ObservedAt
<1>4. CASE Kinds[t] = "alert"
  <2>1. Following!Windows(t)[1] = Following!AlertWindows[Following!AlertLevel(s)][1]
    BY <1>4 DEF Following!Windows, Following!Priority
  <2>2. Following!Windows(t)'[1] = Following!AlertWindows[Following!AlertLevel(s)'][1]
    <3>1. Following!AlertLevel(source[t])' = Following!AlertLevel(s)'
      OBVIOUS
    <3> QED BY <1>4, <3>1 DEF Following!Windows, Following!Priority
  <2>3. Following!DueAt(t)' <= now'
    BY <1>1, <1>2, <1>3, <1>4, <2>1, <2>2, ScoreRises
  <2> QED BY <1>4, <2>3 DEF Following!Base
<1>5. CASE Kinds[t] = "ticket"
  <2> SUFFICES ASSUME ~DueLaterAgain(t) PROVE Following!Base(t)' = "overdue"
    OBVIOUS
  <2>1. PICK old, new : old = Following!Priority(t) /\ new = Following!Priority(t)'
    OBVIOUS
  <2>2. old \in DOMAIN Following!TicketScore /\ new \in DOMAIN Following!TicketScore
    <3>1. old = Following!TicketLevel(source[t]) /\ new = Following!TicketLevel(source[t])'
      BY <1>5, <2>1 DEF Following!Priority
    <3> QED BY <3>1 DEF Following!TicketLevel, Following!Level, Following!TicketScore
  <2>3. policy' = policy /\ ~(policy.windows[new][1] > policy.windows[old][1])
    BY <1>5, <2>1 DEF DueLaterAgain
  <2>4. policy.windows[new][1] \in Int /\ policy.windows[old][1] \in Int
    BY <2>2 DEF PolicyRight
  <2>5. /\ Following!Windows(t)[1] = policy.windows[old][1]
        /\ Following!Windows(t)'[1] = policy.windows[new][1]
    BY <1>5, <2>1, <2>3 DEF Following!Windows
  <2>6. Following!DueAt(t)' <= now'
    BY <1>1, <1>2, <1>3, <2>3, <2>4, <2>5
  <2> QED BY <1>5, <2>6 DEF Following!Base
<1>6. CASE Kinds[t] = "runbook"
  <2>1. /\ Following!Windows(t)[1] = Following!RunbookWindows[Following!RunbookLevel(s)][1]
        /\ Following!Windows(t)'[1] = Following!RunbookWindows[Following!RunbookLevel(s)][1]
    BY <1>6 DEF Following!Windows, Following!Priority, Following!RunbookLevel
  <2>2. Following!RunbookWindows[Following!RunbookLevel(s)][1] \in Int
    BY DEF Following!RunbookWindows, Following!RunbookLevel
  <2>3. Following!DueAt(t)' <= now'
    BY <1>1, <1>2, <1>3, <2>1, <2>2
  <2> QED BY <1>6, <2>3 DEF Following!Base
<1> QED BY <1>1, <1>4, <1>5, <1>6

\* A task that is urgent is carried over, and while there is one, what is
\* recommended is urgent: whatever else ranks below it.
CandidatesOf(tasks) == {t \in tasks : source[t] # Absent}
UrgentOf(tasks) ==
    {t \in CandidatesOf(tasks) : Following!Base(t) \in {"blocked", "overdue"}
                                 /\ (rows[t] # Absent => rows[t].state # "completed")
                                 /\ (Following!State(t) = "deferred" => rows[t].defer <= now)}
RecommendedOf(tasks) ==
    {t \in CandidatesOf(tasks) : \A u \in CandidatesOf(tasks) : ~Following!Before(u, t)}

UrgentShownOf(tasks) ==
    /\ UrgentOf(tasks) \subseteq
         {t \in CandidatesOf(tasks) : Following!Status(t) \in {"overdue", "blocked"}}
    /\ UrgentOf(tasks) # {} => RecommendedOf(tasks) \subseteq UrgentOf(tasks)
OverdueLastsOf(tasks) ==
    \A t \in tasks : t \in CandidatesOf(tasks) /\ source'[t] = source[t] /\ Following!Base(t) = "overdue"
                       => Following!Base(t)' = "overdue" \/ DueLaterAgain(t)

LEMMA UrgentFirst ==
    ASSUME NEW tasks, tasks \subseteq DOMAIN Kinds, now \in Int,
           \A t \in tasks : rows[t] # Absent /\ rows[t].state = "deferred" => rows[t].defer \in Int
    PROVE  UrgentShownOf(tasks)
<1>1. ASSUME NEW t \in tasks
      PROVE  /\ Following!Base(t) \in {"blocked", "overdue", "due_today"}
             /\ Following!Status(t) \in {"completed", "deferred", Following!Base(t)}
  <2>1. Kinds[t] \in {"alert", "ticket", "runbook", "go_live", "activation", "feedback"}
    BY TaskAssumption
  <2> QED BY <2>1 DEF Following!Base, Following!Status
<1>2. ASSUME NEW t \in UrgentOf(tasks)
      PROVE  Following!Status(t) = Following!Base(t) /\ Following!Base(t) \in {"blocked", "overdue"}
  <2>1. /\ t \in tasks /\ Following!Base(t) \in {"blocked", "overdue"}
        /\ (rows[t] # Absent => rows[t].state # "completed")
        /\ (Following!State(t) = "deferred" => rows[t].defer <= now)
    BY DEF UrgentOf, CandidatesOf
  <2>2. Following!State(t) # "completed"
    BY <2>1 DEF Following!State
  <2>3. ~(Following!State(t) = "deferred" /\ rows[t].defer > now)
    BY <2>1 DEF Following!State
  <2> QED BY <2>1, <2>2, <2>3 DEF Following!Status
<1>3. ASSUME NEW t \in tasks, source[t] # Absent, Following!Status(t) \in {"blocked", "overdue"}
      PROVE  t \in UrgentOf(tasks)
  <2>1. Following!State(t) # "completed" /\ Following!Base(t) \in {"blocked", "overdue"}
    BY <1>1, <1>3 DEF Following!Status
  <2>2. ASSUME Following!State(t) = "deferred" PROVE rows[t].defer <= now
    <3>1. rows[t] # Absent /\ rows[t].state = "deferred"
      BY <2>2 DEF Following!State
    <3>2. rows[t].defer \in Int /\ rows[t].defer # Absent
      BY <3>1, TaskAssumption
    <3>3. ~(rows[t].defer > now)
      BY <1>3, <2>2, <3>2, <2>1 DEF Following!Status
    <3> QED BY <3>2, <3>3
  <2> QED BY <1>3, <2>1, <2>2 DEF UrgentOf, CandidatesOf, Following!State
<1>4. ASSUME NEW u \in UrgentOf(tasks), NEW t \in RecommendedOf(tasks)
      PROVE  t \in UrgentOf(tasks)
  <2>1. /\ t \in tasks /\ source[t] # Absent /\ u \in tasks /\ source[u] # Absent
        /\ ~Following!Before(u, t)
    BY DEF UrgentOf, RecommendedOf, CandidatesOf
  <2>2. SUFFICES ASSUME Following!Status(t) \notin {"blocked", "overdue"} PROVE FALSE
    BY <1>3, <2>1
  <2>3. Following!Status(t) \in {"due_today", "deferred", "completed"}
    BY <1>1, <2>1, <2>2
  <2>4. Following!Status(u) \in {"blocked", "overdue"}
    BY <1>2
  <2>5. -Following!StatusRank[Following!Status(u)] < -Following!StatusRank[Following!Status(t)]
    BY <2>3, <2>4 DEF Following!StatusRank
  <2>6. Following!Before(u, t)
    <3> DEFINE p == <<-Following!StatusRank[Following!Status(u)],
                      -Following!PriorityRank[Following!Priority(u)],
                      Following!DueAt(u), -Following!ObservedAt(u)>>
               q == <<-Following!StatusRank[Following!Status(t)],
                      -Following!PriorityRank[Following!Priority(t)],
                      Following!DueAt(t), -Following!ObservedAt(t)>>
    <3>1. p[1] < q[1] /\ 1 \in 1..4 /\ \A j \in 1..1 - 1 : p[j] = q[j]
      BY <2>5
    <3>2. \E i \in 1..4 : p[i] < q[i] /\ \A j \in 1..i - 1 : p[j] = q[j]
      BY <3>1
    <3> QED BY <3>2 DEF Following!Before
  <2> QED BY <2>1, <2>6
<1>5. UrgentOf(tasks) \subseteq CandidatesOf(tasks)
  BY DEF UrgentOf
<1> QED BY <1>2, <1>4, <1>5 DEF UrgentShownOf
-----------------------------------------------------------------------------
\* Time goes on and the tables change: what is known of a task stays right.
LEMMA Observed ==
    ASSUME NEW tasks, tasks \subseteq DOMAIN Kinds, NEW instants, instants \subseteq Int,
           TasksRight(tasks, instants),
           \/ /\ \E t \in tasks :
                   \/ \E s \in TaskSeen(Kinds[t]) : source' = [source EXCEPT ![t] = [s EXCEPT !.at = now]]
                   \/ source' = [source EXCEPT ![t] = Absent]
              /\ now' = now
           \/ now' \in instants /\ now < now' /\ source' = source
           \/ UNCHANGED <<source, now>>,
           policy' = policy \/ policy' \in TaskPolicies
    PROVE  TasksRight(tasks, instants)' /\ now \in Int /\ now' \in Int /\ now <= now'
<1>1. now \in Int /\ now \in instants /\ now' \in instants /\ now' \in Int /\ now <= now'
  BY DEF TasksRight
<1>0. PolicyRight(policy')
  BY TaskAssumption DEF TasksRight, PolicyRight
<1>2. CASE source' = source
  BY <1>0, <1>1, <1>2 DEF TasksRight, SourceRight, PolicyRight
<1>3. ASSUME NEW t \in tasks, NEW s \in TaskSeen(Kinds[t]),
             source' = [source EXCEPT ![t] = [s EXCEPT !.at = now]]
      PROVE  TasksRight(tasks, instants)'
  <2>1. PICK x : x = [s EXCEPT !.at = now]
    OBVIOUS
  <2>2. /\ "at" \in DOMAIN s
        /\ Kinds[t] \in {"alert", "ticket"} => {"weight", "status"} \subseteq DOMAIN s
        /\ Kinds[t] = "alert" => /\ s.weight \in DOMAIN Following!SeverityScore
                                 /\ s.status \in DOMAIN Following!AlertBoost
        /\ Kinds[t] = "ticket" => /\ s.weight \in DOMAIN Following!TicketScore
                                  /\ s.status \in DOMAIN Following!TicketBoost
    BY TaskAssumption
  <2>3. /\ x.at = now
        /\ Kinds[t] \in {"alert", "ticket"} => x.weight = s.weight /\ x.status = s.status
    BY <2>1, <2>2
  <2>4. SourceRight(t, x)
    BY <1>1, <2>2, <2>3 DEF SourceRight
  <2>5. /\ DOMAIN source' = tasks /\ source'[t] = x
        /\ \A u \in tasks : u # t => source'[u] = source[u]
    BY <1>3, <2>1 DEF TasksRight
  <2>6. \A u \in tasks : source'[u] = Absent \/ SourceRight(u, source'[u])
    BY <2>4, <2>5 DEF TasksRight
  <2> QED BY <1>0, <1>1, <2>5, <2>6 DEF TasksRight, SourceRight, PolicyRight
<1>4. ASSUME NEW t \in tasks, source' = [source EXCEPT ![t] = Absent]
      PROVE  TasksRight(tasks, instants)'
  BY <1>0, <1>1, <1>4 DEF TasksRight, SourceRight, PolicyRight
<1> QED BY <1>1, <1>2, <1>3, <1>4

LEMMA OverdueStaysOf ==
    ASSUME NEW tasks, tasks \subseteq DOMAIN Kinds, NEW instants,
           TasksRight(tasks, instants), now \in Int, now' \in Int, now <= now'
    PROVE  OverdueLastsOf(tasks)
<1> SUFFICES ASSUME NEW t \in tasks, source[t] # Absent, source'[t] = source[t],
                    Following!Base(t) = "overdue"
             PROVE  Following!Base(t)' = "overdue" \/ DueLaterAgain(t)
  BY DEF OverdueLastsOf, CandidatesOf
<1> QED BY OverdueLasts, TaskAssumption DEF TasksRight

\* The three instances look at different tasks, and at them in the same way.
LEMMA FollowingLooks ==
    /\ Following!UrgentIsShown <=> UrgentShownOf(FollowTasks)
    /\ Following!StillOverdue <=> OverdueLastsOf(FollowTasks)
<1>1. Following!UrgentIsShown <=> UrgentShownOf(FollowTasks)
  BY Zenon DEF Following!UrgentIsShown, UrgentShownOf, UrgentOf, RecommendedOf, CandidatesOf,
     Following!Candidates, Following!Carryover, Following!Recommended
<1>2. Following!StillOverdue <=> OverdueLastsOf(FollowTasks)
  BY Zenon DEF Following!StillOverdue, OverdueLastsOf, DueLaterAgain, CandidatesOf, Following!Candidates
<1> QED BY <1>1, <1>2

LEMMA AgeingDues ==
    \A t : /\ Ageing!Priority(t) = Following!Priority(t)
           /\ Ageing!ObservedAt(t) = Following!ObservedAt(t)
           /\ Ageing!DueAt(t) = Following!DueAt(t)
           /\ Ageing!Base(t) = Following!Base(t)
<1>1. \A s : Ageing!AlertLevel(s) = Following!AlertLevel(s)
  BY Zenon DEF Ageing!AlertLevel, Following!AlertLevel, Ageing!Level, Following!Level, Ageing!Least,
     Following!Least, Ageing!SeverityScore, Following!SeverityScore, Ageing!AlertBoost,
     Following!AlertBoost
<1>2. \A s : Ageing!TicketLevel(s) = Following!TicketLevel(s)
  BY Zenon DEF Ageing!TicketLevel, Following!TicketLevel, Ageing!Level, Following!Level, Ageing!Least,
     Following!Least, Ageing!TicketScore, Following!TicketScore, Ageing!TicketBoost,
     Following!TicketBoost
<1>3. \A s : Ageing!RunbookLevel(s) = Following!RunbookLevel(s)
  BY Zenon DEF Ageing!RunbookLevel, Following!RunbookLevel
<1>4. \A t : Ageing!Priority(t) = Following!Priority(t)
  BY Zenon, <1>1, <1>2, <1>3 DEF Ageing!Priority, Following!Priority
<1>5. \A t : Ageing!Windows(t) = Following!Windows(t)
  <2>1. /\ Ageing!AlertWindows = Following!AlertWindows
        /\ Ageing!RunbookWindows = Following!RunbookWindows
    BY Zenon DEF Ageing!AlertWindows, Following!AlertWindows, Ageing!RunbookWindows, Following!RunbookWindows
  <2> QED BY Zenon, <1>4, <2>1 DEF Ageing!Windows, Following!Windows
<1>6. \A t : Ageing!ObservedAt(t) = Following!ObservedAt(t)
  BY Zenon DEF Ageing!ObservedAt, Following!ObservedAt
<1>7. \A t : Ageing!DueAt(t) = Following!DueAt(t)
  BY Zenon, <1>5, <1>6 DEF Ageing!DueAt, Following!DueAt
<1>8. \A t : Ageing!Base(t) = Following!Base(t)
  BY Zenon, <1>7 DEF Ageing!Base, Following!Base
<1> QED BY <1>4, <1>6, <1>7, <1>8

LEMMA AgeingLooks ==
    /\ Ageing!UrgentIsShown <=> UrgentShownOf(AgeingTasks)
    /\ Ageing!StillOverdue <=> OverdueLastsOf(AgeingTasks)
<1>1. \A t : Ageing!State(t) = Following!State(t)
  BY Zenon DEF Ageing!State, Following!State
<1>2. \A t : Ageing!Status(t) = Following!Status(t)
  BY Zenon, <1>1, AgeingDues DEF Ageing!Status, Following!Status
<1>3. \A t, u : Ageing!Before(t, u) <=> Following!Before(t, u)
  <2>1. Ageing!StatusRank = Following!StatusRank /\ Ageing!PriorityRank = Following!PriorityRank
    BY Zenon DEF Ageing!StatusRank, Following!StatusRank, Ageing!PriorityRank, Following!PriorityRank
  <2> SUFFICES ASSUME NEW t, NEW u PROVE Ageing!Before(t, u) <=> Following!Before(t, u)
    OBVIOUS
  <2>2. ASSUME NEW v
        PROVE  <<-Ageing!StatusRank[Ageing!Status(v)], -Ageing!PriorityRank[Ageing!Priority(v)],
                 Ageing!DueAt(v), -Ageing!ObservedAt(v)>>
               = <<-Following!StatusRank[Following!Status(v)],
                   -Following!PriorityRank[Following!Priority(v)],
                   Following!DueAt(v), -Following!ObservedAt(v)>>
    <3>1. /\ Ageing!Status(v) = Following!Status(v) /\ Ageing!Priority(v) = Following!Priority(v)
          /\ Ageing!DueAt(v) = Following!DueAt(v) /\ Ageing!ObservedAt(v) = Following!ObservedAt(v)
      BY <1>2, AgeingDues
    <3> QED BY Zenon, <2>1, <3>1
  <2> QED BY Zenon, <2>2 DEF Ageing!Before, Following!Before
<1>4. Ageing!UrgentIsShown <=> UrgentShownOf(AgeingTasks)
  BY Zenon, <1>1, <1>2, <1>3, AgeingDues DEF Ageing!UrgentIsShown, UrgentShownOf, UrgentOf,
     RecommendedOf, CandidatesOf, Ageing!Candidates, Ageing!Carryover, Ageing!Recommended
<1>5. (\A t : Ageing!Base(t) = Following!Base(t) /\ Ageing!Priority(t) = Following!Priority(t))'
  <2>1. \A t : Ageing!Base(t) = Following!Base(t) /\ Ageing!Priority(t) = Following!Priority(t)
    BY AgeingDues
  <2> QED BY <2>1, PTL
<1>6. Ageing!StillOverdue <=> OverdueLastsOf(AgeingTasks)
  BY Zenon, <1>5, AgeingDues DEF Ageing!StillOverdue, OverdueLastsOf, DueLaterAgain, CandidatesOf,
     Ageing!Candidates
<1> QED BY <1>4, <1>6

LEMMA BriefingDues ==
    \A t : /\ Briefing!Priority(t) = Following!Priority(t)
           /\ Briefing!ObservedAt(t) = Following!ObservedAt(t)
           /\ Briefing!DueAt(t) = Following!DueAt(t)
           /\ Briefing!Base(t) = Following!Base(t)
<1>1. \A s : Briefing!AlertLevel(s) = Following!AlertLevel(s)
  BY Zenon DEF Briefing!AlertLevel, Following!AlertLevel, Briefing!Level, Following!Level, Briefing!Least,
     Following!Least, Briefing!SeverityScore, Following!SeverityScore, Briefing!AlertBoost,
     Following!AlertBoost
<1>2. \A s : Briefing!TicketLevel(s) = Following!TicketLevel(s)
  BY Zenon DEF Briefing!TicketLevel, Following!TicketLevel, Briefing!Level, Following!Level, Briefing!Least,
     Following!Least, Briefing!TicketScore, Following!TicketScore, Briefing!TicketBoost,
     Following!TicketBoost
<1>3. \A s : Briefing!RunbookLevel(s) = Following!RunbookLevel(s)
  BY Zenon DEF Briefing!RunbookLevel, Following!RunbookLevel
<1>4. \A t : Briefing!Priority(t) = Following!Priority(t)
  BY Zenon, <1>1, <1>2, <1>3 DEF Briefing!Priority, Following!Priority
<1>5. \A t : Briefing!Windows(t) = Following!Windows(t)
  <2>1. /\ Briefing!AlertWindows = Following!AlertWindows
        /\ Briefing!RunbookWindows = Following!RunbookWindows
    BY Zenon DEF Briefing!AlertWindows, Following!AlertWindows, Briefing!RunbookWindows, Following!RunbookWindows
  <2> QED BY Zenon, <1>4, <2>1 DEF Briefing!Windows, Following!Windows
<1>6. \A t : Briefing!ObservedAt(t) = Following!ObservedAt(t)
  BY Zenon DEF Briefing!ObservedAt, Following!ObservedAt
<1>7. \A t : Briefing!DueAt(t) = Following!DueAt(t)
  BY Zenon, <1>5, <1>6 DEF Briefing!DueAt, Following!DueAt
<1>8. \A t : Briefing!Base(t) = Following!Base(t)
  BY Zenon, <1>7 DEF Briefing!Base, Following!Base
<1> QED BY <1>4, <1>6, <1>7, <1>8

LEMMA BriefingLooks ==
    /\ Briefing!UrgentIsShown <=> UrgentShownOf(BriefingTasks)
    /\ Briefing!StillOverdue <=> OverdueLastsOf(BriefingTasks)
<1>1. \A t : Briefing!State(t) = Following!State(t)
  BY Zenon DEF Briefing!State, Following!State
<1>2. \A t : Briefing!Status(t) = Following!Status(t)
  BY Zenon, <1>1, BriefingDues DEF Briefing!Status, Following!Status
<1>3. \A t, u : Briefing!Before(t, u) <=> Following!Before(t, u)
  <2>1. Briefing!StatusRank = Following!StatusRank /\ Briefing!PriorityRank = Following!PriorityRank
    BY Zenon DEF Briefing!StatusRank, Following!StatusRank, Briefing!PriorityRank, Following!PriorityRank
  <2> SUFFICES ASSUME NEW t, NEW u PROVE Briefing!Before(t, u) <=> Following!Before(t, u)
    OBVIOUS
  <2>2. ASSUME NEW v
        PROVE  <<-Briefing!StatusRank[Briefing!Status(v)], -Briefing!PriorityRank[Briefing!Priority(v)],
                 Briefing!DueAt(v), -Briefing!ObservedAt(v)>>
               = <<-Following!StatusRank[Following!Status(v)],
                   -Following!PriorityRank[Following!Priority(v)],
                   Following!DueAt(v), -Following!ObservedAt(v)>>
    <3>1. /\ Briefing!Status(v) = Following!Status(v) /\ Briefing!Priority(v) = Following!Priority(v)
          /\ Briefing!DueAt(v) = Following!DueAt(v) /\ Briefing!ObservedAt(v) = Following!ObservedAt(v)
      BY <1>2, BriefingDues
    <3> QED BY Zenon, <2>1, <3>1
  <2> QED BY Zenon, <2>2 DEF Briefing!Before, Following!Before
<1>4. Briefing!UrgentIsShown <=> UrgentShownOf(BriefingTasks)
  BY Zenon, <1>1, <1>2, <1>3, BriefingDues DEF Briefing!UrgentIsShown, UrgentShownOf, UrgentOf,
     RecommendedOf, CandidatesOf, Briefing!Candidates, Briefing!Carryover, Briefing!Recommended
<1>5. (\A t : Briefing!Base(t) = Following!Base(t) /\ Briefing!Priority(t) = Following!Priority(t))'
  <2>1. \A t : Briefing!Base(t) = Following!Base(t) /\ Briefing!Priority(t) = Following!Priority(t)
    BY BriefingDues
  <2> QED BY <2>1, PTL
<1>6. Briefing!StillOverdue <=> OverdueLastsOf(BriefingTasks)
  BY Zenon, <1>5, BriefingDues DEF Briefing!StillOverdue, OverdueLastsOf, DueLaterAgain, CandidatesOf,
     Briefing!Candidates
<1> QED BY <1>4, <1>6
-----------------------------------------------------------------------------
\* What a step does to the tasks and to the clock.
LEMMA FollowingTime ==
    ASSUME Following!Next
    PROVE  /\ \/ /\ \E t \in FollowTasks :
                      \/ \E s \in TaskSeen(Kinds[t]) : source' = [source EXCEPT ![t] = [s EXCEPT !.at = now]]
                      \/ source' = [source EXCEPT ![t] = Absent]
                 /\ now' = now
              \/ now' \in FollowInstants /\ now < now' /\ source' = source
              \/ UNCHANGED <<source, now>>
           /\ policy' = policy \/ policy' \in TaskPolicies
<1>1. CASE Following!Observe
  BY <1>1 DEF Following!Observe
<1>2. CASE Following!Tick
  BY <1>2 DEF Following!Tick
<1>3. ASSUME NEW c \in Calls,
             \/ Following!BeginFollowUp(c) \/ Following!BeginAssignment(c)
             \/ Following!BeginEscalation(c) \/ Following!Reread(c) \/ Following!Write(c)
             \/ Following!Abandon(c)
      PROVE  UNCHANGED <<source, policy, now>>
  BY <1>3 DEF Following!BeginFollowUp, Following!BeginAssignment, Following!BeginEscalation,
     Following!Begin, Following!Reread, Following!Write, Following!Abandon
<1>4. CASE Following!EditPolicy
  BY <1>4 DEF Following!EditPolicy
<1> QED BY <1>1, <1>2, <1>3, <1>4 DEF Following!Next

LEMMA AgeingTime ==
    ASSUME Ageing!Next
    PROVE  /\ \/ /\ \E t \in AgeingTasks :
                      \/ \E s \in TaskSeen(Kinds[t]) : source' = [source EXCEPT ![t] = [s EXCEPT !.at = now]]
                      \/ source' = [source EXCEPT ![t] = Absent]
                 /\ now' = now
              \/ now' \in AgeingInstants /\ now < now' /\ source' = source
              \/ UNCHANGED <<source, now>>
           /\ policy' = policy \/ policy' \in TaskPolicies
           /\ rows' = rows
<1>1. Ageing!Observe \/ Ageing!EditPolicy \/ Ageing!Tick
  BY DEF Ageing!Next
<1>2. CASE Ageing!Observe
  BY <1>2 DEF Ageing!Observe
<1>3. CASE Ageing!Tick
  BY <1>3 DEF Ageing!Tick
<1>4. CASE Ageing!EditPolicy
  BY <1>4 DEF Ageing!EditPolicy
<1> QED BY <1>1, <1>2, <1>3, <1>4

LEMMA BriefingTime ==
    ASSUME Briefing!Next
    PROVE  /\ \/ /\ \E t \in BriefingTasks :
                      \/ \E s \in TaskSeen(Kinds[t]) : source' = [source EXCEPT ![t] = [s EXCEPT !.at = now]]
                      \/ source' = [source EXCEPT ![t] = Absent]
                 /\ now' = now
              \/ now' \in FollowInstants /\ now < now' /\ source' = source
              \/ UNCHANGED <<source, now>>
           /\ policy' = policy \/ policy' \in TaskPolicies
           /\ rows' = rows
<1>1. Briefing!Observe \/ Briefing!EditPolicy \/ Briefing!Tick
  BY DEF Briefing!Next
<1>2. CASE Briefing!Observe
  BY <1>2 DEF Briefing!Observe
<1>3. CASE Briefing!Tick
  BY <1>3 DEF Briefing!Tick
<1>4. CASE Briefing!EditPolicy
  BY <1>4 DEF Briefing!EditPolicy
<1> QED BY <1>1, <1>2, <1>3, <1>4
-----------------------------------------------------------------------------
(* The run: a behaviour follows one of its components, and the others rest   *)

UntouchedRows(tasks) == \A t \in tasks : rows[t] = Absent

AllInv == /\ focus = "following" => FollowInv /\ TasksRight(FollowTasks, FollowInstants)
          /\ focus = "ageing" => TasksRight(AgeingTasks, AgeingInstants) /\ UntouchedRows(AgeingTasks)
          /\ focus = "briefing" => TasksRight(BriefingTasks, FollowInstants) /\ UntouchedRows(BriefingTasks)
          /\ focus = "applying" => ProfileInv
          /\ focus = "dispatching" => NotifyInv
          /\ focus = "routing" => RouteInv

LEMMA DefaultRight ==
    PolicyRight(Following!DefaultPolicy) /\ PolicyRight(Ageing!DefaultPolicy)
      /\ PolicyRight(Briefing!DefaultPolicy)
BY DEF PolicyRight, Following!TicketScore, Following!DefaultPolicy, Ageing!DefaultPolicy,
   Briefing!DefaultPolicy

LEMMA AllInitInv == AllInit => AllInv
<1> SUFFICES ASSUME AllInit PROVE AllInv
  OBVIOUS
<1>1. ASSUME focus = "following" PROVE FollowInv
  <2>1. Following!Init
    BY <1>1 DEF AllInit
  <2>2. /\ rows = [t \in FollowTasks |-> Absent] /\ log = <<>>
        /\ calls = [c \in Calls |-> Following!Idle] /\ Following!Idle.pc = "idle"
    BY <2>1 DEF Following!Init, Following!Idle
  <2>3. Len(log) = 0 /\ DOMAIN log = {} /\ log \in Seq(WriteRow)
    BY <2>2
  <2>4. FollowType
    BY <2>2, <2>3 DEF FollowType
  <2>5. RowsKept
    BY <2>3 DEF RowsKept, RowKept, CompletionKept, OwnerKept, EscalationKept
  <2> QED BY <2>2, <2>3, <2>4, <2>5 DEF FollowInv, RequestsActRight, EscalatedApart
<1>2. ASSUME focus = "applying" PROVE ProfileInv
  <2>1. Applying!Init
    BY <1>2 DEF AllInit
  <2>2. /\ rows = [s \in ProfileSections |-> Absent] /\ log = <<>> /\ runs = <<>>
        /\ calls = [c \in Calls |-> Applying!Idle] /\ Applying!Idle.pc = "idle"
    BY <2>1, AllOfRows DEF Applying!Init, Applying!Idle
  <2>3. Len(log) = 0 /\ DOMAIN log = {} /\ log \in Seq(CommitRow) /\ runs \in Seq(RunRow)
    BY <2>2
  <2>4. ProfileType
    BY <2>2, <2>3 DEF ProfileType, SectionRows
  <2> QED BY <2>2, <2>3, <2>4 DEF ProfileInv, RowsAreCommitted, RowsAfter, RunsAreKept,
          RequestsKnow, Restores, OthersAreKept, RevertsLooked
<1>3. ASSUME focus = "following" PROVE TasksRight(FollowTasks, FollowInstants)
  <2>1. Following!Init
    BY <1>3 DEF AllInit
  <2> QED BY <2>1, DefaultRight DEF Following!Init, TasksRight
<1>4. ASSUME focus = "ageing"
      PROVE  TasksRight(AgeingTasks, AgeingInstants) /\ UntouchedRows(AgeingTasks)
  <2>1. Ageing!Init
    BY <1>4 DEF AllInit
  <2> QED BY <2>1, DefaultRight DEF Ageing!Init, TasksRight, UntouchedRows
<1>5. ASSUME focus = "briefing"
      PROVE  TasksRight(BriefingTasks, FollowInstants) /\ UntouchedRows(BriefingTasks)
  <2>1. Briefing!Init
    BY <1>5 DEF AllInit
  <2> QED BY <2>1, DefaultRight DEF Briefing!Init, TasksRight, UntouchedRows
<1>6. ASSUME focus = "dispatching" PROVE NotifyInv
  <2>1. Notifying!Init
    BY <1>6 DEF AllInit
  <2> QED BY <2>1, NotifyingInit
<1>7. ASSUME focus = "routing" PROVE RouteInv
  <2>1. Notifying!InitOwners
    BY <1>7 DEF AllInit
  <2> QED BY <2>1, RoutingInit
<1> QED BY <1>1, <1>2, <1>3, <1>4, <1>5, <1>6, <1>7 DEF AllInv

LEMMA AllNextInv == AllInv /\ [AllNext]_allVars => AllInv'
<1> SUFFICES ASSUME AllInv, [AllNext]_allVars PROVE AllInv'
  OBVIOUS
<1>1. CASE UNCHANGED allVars
  <2>1. UNCHANGED <<focus, calls, rows, log, runs, source, policy, now>>
    BY <1>1 DEF allVars, sharedVars, taskVars
  <2>2. FollowInv => FollowInv'
    BY <2>1 DEF FollowInv, FollowType, RowsKept, RequestsActRight, EscalatedApart
  <2>3. ProfileInv => ProfileInv'
    BY <2>1 DEF ProfileInv, ProfileType, RowsAreCommitted, RunsAreKept, RequestsKnow, Restores,
       OthersAreKept, RevertsLooked
  <2>4. UNCHANGED <<owners, rules, template, channels, subscriptions, deliveries, received, dispatch, lost>>
    BY <1>1 DEF allVars, notifyVars, ownerVars
  <2>5. NotifyInv => NotifyInv'
    BY <2>4, ConfigSame, ConfigKept DEF NotifyInv
  <2>6. RouteInv => RouteInv'
    BY <2>1, <2>4, ConfigSame DEF RouteInv, OwnersTyped, FoundStands
  <2>7. \A tasks, instants : TasksRight(tasks, instants) => TasksRight(tasks, instants)'
    BY <2>1 DEF TasksRight, SourceRight, PolicyRight
  <2>8. \A tasks : UntouchedRows(tasks) => UntouchedRows(tasks)'
    BY <2>1 DEF UntouchedRows
  <2> QED BY <2>1, <2>2, <2>3, <2>5, <2>6, <2>7, <2>8 DEF AllInv
<1>2. CASE AllNext
  <2>1. focus' = focus
    BY <1>2 DEF AllNext
  <2>2. ASSUME focus = "following" PROVE FollowInv' /\ TasksRight(FollowTasks, FollowInstants)'
    <3>1. Following!Next
      BY <1>2, <2>2 DEF AllNext
    <3>2. FollowInv /\ TasksRight(FollowTasks, FollowInstants)
      BY <2>2 DEF AllInv
    <3>3. TasksRight(FollowTasks, FollowInstants)'
      BY <3>1, <3>2, FollowingTime, Observed, TaskAssumption
    <3> QED BY <3>1, <3>2, <3>3, FollowingNext
  <2>3. ASSUME focus = "applying" PROVE ProfileInv'
    <3>1. Applying!Next
      BY <1>2, <2>3 DEF AllNext
    <3> QED BY <2>3, <3>1, ApplyingNext DEF AllInv
  <2>4. ASSUME focus = "ageing"
        PROVE  TasksRight(AgeingTasks, AgeingInstants)' /\ UntouchedRows(AgeingTasks)'
    <3>1. Ageing!Next
      BY <1>2, <2>4 DEF AllNext
    <3>2. TasksRight(AgeingTasks, AgeingInstants) /\ UntouchedRows(AgeingTasks)
      BY <2>4 DEF AllInv
    <3>3. TasksRight(AgeingTasks, AgeingInstants)'
      BY <3>1, <3>2, AgeingTime, Observed, TaskAssumption
    <3> QED BY <3>1, <3>2, <3>3, AgeingTime DEF UntouchedRows
  <2>5. ASSUME focus = "briefing"
        PROVE  TasksRight(BriefingTasks, FollowInstants)' /\ UntouchedRows(BriefingTasks)'
    <3>1. Briefing!Next
      BY <1>2, <2>5 DEF AllNext
    <3>2. TasksRight(BriefingTasks, FollowInstants) /\ UntouchedRows(BriefingTasks)
      BY <2>5 DEF AllInv
    <3>3. TasksRight(BriefingTasks, FollowInstants)'
      BY <3>1, <3>2, BriefingTime, Observed, TaskAssumption
    <3> QED BY <3>1, <3>2, <3>3, BriefingTime DEF UntouchedRows
  <2>6. ASSUME focus = "dispatching" PROVE NotifyInv'
    <3>1. Notifying!Next
      BY <1>2, <2>6 DEF AllNext
    <3> QED BY <2>6, <3>1, NotifyingNext DEF AllInv
  <2>7. ASSUME focus = "routing" PROVE RouteInv'
    <3>1. Notifying!NextOwners
      BY <1>2, <2>7 DEF AllNext
    <3> QED BY <2>7, <3>1, RoutingNext DEF AllInv
  <2> QED BY <2>1, <2>2, <2>3, <2>4, <2>5, <2>6, <2>7 DEF AllInv
<1> QED BY <1>1, <1>2

\* Follow-ups of daily tasks, any number of requests: a completion stays unless
\* the task is acknowledged or deferred later or written by a request that had
\* looked before; an owner stays unless the task is assigned again or written by
\* a request that had read its row before; and nobody escalates twice what
\* nothing else happened to in between, having looked after the first time.
THEOREM FollowUpsInRun == AllSpec => []FollowUpsAreKept
<1>1. AllInv => FollowUpsAreKept
  BY FollowingKept DEF AllInv, FollowUpsAreKept
<1> QED BY <1>1, AllInitInv, AllNextInv, PTL DEF AllSpec

\* A profile that nothing else gets in between is applied as a whole, and the
\* reverting of its run brings back what its snapshot keeps of the rows that had
\* been there, while the columns that profiles set by themselves are not brought
\* back, for every set of sections and profiles and any number of requests that
\* overlap.
THEOREM RevertInRun == AllSpec => []RevertRestores
<1>1. AllInv => RevertRestores
  BY ApplyingRestores DEF AllInv, RevertRestores
<1> QED BY <1>1, AllInitInv, AllNextInv, PTL DEF AllSpec

\* Of a webhook's deliveries, for any number of dispatches, channels and
\* attempts: what is shown as delivered was got by the endpoint, what is shown
\* as failed used up its attempts, and none was posted more often than its
\* attempts say.  The counts of the summary miss only what is being sent or was
\* cut off, and with neither the latest delivery is not shown as queued.
THEOREM DeliveriesInRun == AllSpec => []DeliveriesTruthful
<1>1. AllInv => DeliveriesTruthful
  BY NotifyingTruthful DEF AllInv, DeliveriesTruthful
<1> QED BY <1>1, AllInitInv, AllNextInv, PTL DEF AllSpec

\* An owner who is shown as ready is told of a ticket at whatever site; and the
\* repair of an enabled owner whose target is unchanged ends in readiness,
\* whatever other repairs and bootstraps come between its reads and its writes.
THEOREM OwnersInRun == AllSpec => OwnersAreTold
<1>1. AllInv => (focus = "routing" => Notifying!ReadyIsTold)
  BY RoutingTells DEF AllInv
<1>2. AllInv /\ [AllNext]_allVars => [focus = "routing" => Notifying!RepairEndsReady]_allVars
  <2> SUFFICES ASSUME AllInv, AllNext, focus = "routing" PROVE Notifying!RepairEndsReady
    OBVIOUS
  <2>1. Notifying!NextOwners
    BY DEF AllNext
  <2> QED BY <2>1, RoutingRepairs DEF AllInv
<1> QED BY <1>1, <1>2, AllInitInv, AllNextInv, PTL DEF AllSpec, OwnersAreTold

LEMMA UrgencyInv ==
    ASSUME AllInv
    PROVE  /\ focus = "following" => Following!UrgentIsShown
           /\ focus = "ageing" => Ageing!UrgentIsShown
           /\ focus = "briefing" => Briefing!UrgentIsShown
<1>1. ASSUME focus = "following" PROVE Following!UrgentIsShown
  <2>1. FollowInv /\ TasksRight(FollowTasks, FollowInstants)
    BY <1>1 DEF AllInv
  <2>2. now \in Int
    BY <2>1, TaskAssumption DEF TasksRight
  <2>3. \A t \in FollowTasks : rows[t] # Absent /\ rows[t].state = "deferred" => rows[t].defer \in Int
    BY <2>1, FollowTyped, TaskAssumption DEF FollowInv, FollowRow
  <2> QED BY <2>2, <2>3, UrgentFirst, FollowingLooks, TaskAssumption
<1>2. ASSUME focus = "ageing" PROVE Ageing!UrgentIsShown
  <2>1. TasksRight(AgeingTasks, AgeingInstants) /\ UntouchedRows(AgeingTasks)
    BY <1>2 DEF AllInv
  <2>2. now \in Int
    BY <2>1, TaskAssumption DEF TasksRight
  <2> QED BY <2>1, <2>2, UrgentFirst, AgeingLooks, TaskAssumption DEF UntouchedRows
<1>3. ASSUME focus = "briefing" PROVE Briefing!UrgentIsShown
  <2>1. TasksRight(BriefingTasks, FollowInstants) /\ UntouchedRows(BriefingTasks)
    BY <1>3 DEF AllInv
  <2>2. now \in Int
    BY <2>1, TaskAssumption DEF TasksRight
  <2> QED BY <2>1, <2>2, UrgentFirst, BriefingLooks, TaskAssumption DEF UntouchedRows
<1> QED BY <1>1, <1>2, <1>3

LEMMA OverdueSteps ==
    ASSUME AllInv, AllNext
    PROVE  /\ focus = "following" => Following!StillOverdue
           /\ focus = "ageing" => Ageing!StillOverdue
           /\ focus = "briefing" => Briefing!StillOverdue
<1>1. ASSUME focus = "following" PROVE Following!StillOverdue
  <2>1. Following!Next /\ TasksRight(FollowTasks, FollowInstants)
    BY <1>1 DEF AllInv, AllNext
  <2>2. now \in Int /\ now' \in Int /\ now <= now'
    BY <2>1, FollowingTime, Observed, TaskAssumption
  <2> QED BY <2>1, <2>2, OverdueStaysOf, FollowingLooks, TaskAssumption
<1>2. ASSUME focus = "ageing" PROVE Ageing!StillOverdue
  <2>1. Ageing!Next /\ TasksRight(AgeingTasks, AgeingInstants)
    BY <1>2 DEF AllInv, AllNext
  <2>2. now \in Int /\ now' \in Int /\ now <= now'
    BY <2>1, AgeingTime, Observed, TaskAssumption
  <2> QED BY <2>1, <2>2, OverdueStaysOf, AgeingLooks, TaskAssumption
<1>3. ASSUME focus = "briefing" PROVE Briefing!StillOverdue
  <2>1. Briefing!Next /\ TasksRight(BriefingTasks, FollowInstants)
    BY <1>3 DEF AllInv, AllNext
  <2>2. now \in Int /\ now' \in Int /\ now <= now'
    BY <2>1, BriefingTime, Observed, TaskAssumption
  <2> QED BY <2>1, <2>2, OverdueStaysOf, BriefingLooks, TaskAssumption
<1> QED BY <1>1, <1>2, <1>3

\* For any tasks, instants, policies and what the tables say of the tasks: one
\* that is blocked or overdue is carried over unless it is completed or deferred
\* into the future, and while there is one nothing else is recommended.  What is
\* overdue stays so as time goes on, until it is seen again, changes or goes; a
\* ticket may also cease to be overdue when the policy is edited or gives its
\* new priority more time, an alert and a runbook never.
THEOREM UrgencyInRun == AllSpec => UrgencyIsKept
<1>1. AllInv => /\ focus = "following" => Following!UrgentIsShown
                /\ focus = "ageing" => Ageing!UrgentIsShown
                /\ focus = "briefing" => Briefing!UrgentIsShown
  BY UrgencyInv
<1>2. AllInv /\ [AllNext]_allVars
        => [/\ focus = "following" => Following!StillOverdue
            /\ focus = "ageing" => Ageing!StillOverdue
            /\ focus = "briefing" => Briefing!StillOverdue]_allVars
  BY OverdueSteps
<1> QED BY <1>1, <1>2, AllInitInv, AllNextInv, PTL DEF AllSpec, UrgencyIsKept
-----------------------------------------------------------------------------
(* Policies and parameters *)

\* The day and the time of a moment.
LEMMA Division ==
    ASSUME NEW n \in Nat \ {0}, NEW q \in Int, NEW r \in 0..n - 1
    PROVE  (q * n + r) \div n = q /\ (q * n + r) % n = r
<1> DEFINE t == q * n + r
<1>1. t \in Int /\ q * n \in Int
  OBVIOUS
<1>2. PICK d, m : d = t \div n /\ m = t % n
  OBVIOUS
<1>3. d \in Int /\ m \in 0..n - 1 /\ t = n * d + m
  BY <1>1, <1>2
<1>4. q * n + r = d * n + m
  BY <1>1, <1>3
<1>5. (q - d) * n = m - r
  BY <1>3, <1>4
<1>6. m - r < n /\ m - r > -n
  BY <1>3
<1>7. CASE q - d >= 1
  <2>1. (q - d) * n >= n
    BY <1>3, <1>7
  <2> QED BY <1>3, <1>5, <1>6, <2>1
<1>8. CASE q - d <= -1
  <2>1. (q - d) * n <= -n
    BY <1>3, <1>8
  <2> QED BY <1>3, <1>5, <1>6, <2>1
<1>9. CASE q - d = 0
  <2>1. q = d
    BY <1>3, <1>9
  <2> QED BY <1>2, <1>3, <1>4, <2>1
<1> QED BY <1>3, <1>7, <1>8, <1>9

LEMMA Moment ==
    ASSUME NEW t \in Nat
    PROVE  /\ Windows!DayOf(t) \in Nat /\ Windows!TimeOfDay(t) \in 0..DayLength - 1
           /\ t = Windows!DayOf(t) * DayLength + Windows!TimeOfDay(t)
BY MomentAssumption DEF Windows!DayOf, Windows!TimeOfDay

LEMMA MomentOf ==
    ASSUME NEW d \in Nat, NEW x \in 0..DayLength - 1
    PROVE  /\ d * DayLength + x \in Nat
           /\ Windows!DayOf(d * DayLength + x) = d /\ Windows!TimeOfDay(d * DayLength + x) = x
<1>1. DayLength \in Nat \ {0}
  BY MomentAssumption
<1>2. d * DayLength + x \in Nat
  BY <1>1
<1> QED BY <1>1, <1>2, Division DEF Windows!DayOf, Windows!TimeOfDay

\* Days do not run backwards.
LEMMA DaysGoOn ==
    ASSUME NEW s \in Nat, NEW t \in Nat, s <= t
    PROVE  Windows!DayOf(s) <= Windows!DayOf(t)
<1>1. PICK d, e, x, y : /\ d = Windows!DayOf(s) /\ e = Windows!DayOf(t)
                        /\ x = Windows!TimeOfDay(s) /\ y = Windows!TimeOfDay(t)
  OBVIOUS
<1>2. /\ d \in Nat /\ e \in Nat /\ x \in 0..DayLength - 1 /\ y \in 0..DayLength - 1
      /\ s = d * DayLength + x /\ t = e * DayLength + y
  BY <1>1, Moment
<1>3. ASSUME e < d PROVE FALSE
  <2>1. (d - e) * DayLength >= DayLength
    BY <1>2, <1>3, MomentAssumption
  <2>2. d * DayLength - e * DayLength >= DayLength
    BY <1>2, <2>1, MomentAssumption
  <2> QED BY <1>2, <2>2, MomentAssumption
<1> QED BY <1>1, <1>2, <1>3

\* A moment on a day that begins at or before another and ends after it.
LEMMA SameDay ==
    ASSUME NEW s \in Nat, NEW k \in Int, Windows!TimeOfDay(s) + k \in 0..DayLength - 1
    PROVE  /\ s + k \in Nat
           /\ Windows!DayOf(s + k) = Windows!DayOf(s)
           /\ Windows!TimeOfDay(s + k) = Windows!TimeOfDay(s) + k
           /\ Windows!Weekday(s + k) = Windows!Weekday(s)
<1>1. PICK d, x : d = Windows!DayOf(s) /\ x = Windows!TimeOfDay(s)
  OBVIOUS
<1>2. d \in Nat /\ x \in 0..DayLength - 1 /\ s = d * DayLength + x
  BY <1>1, Moment
<1>3. s + k = d * DayLength + (x + k)
  BY <1>2, MomentAssumption
<1> QED BY <1>1, <1>3, MomentOf, <1>2 DEF Windows!Weekday

\* Every day of the week comes within a week.
LEMMA WeekdayComes ==
    ASSUME NEW D \in Nat, NEW k \in 0..WeekLength - 1
    PROVE  \E d \in D + 1..D + WeekLength : d % WeekLength = k
<1>0. WeekLength \in Nat \ {0}
  BY MomentAssumption
<1>1. PICK q, r : q = (D + 1) \div WeekLength /\ r = (D + 1) % WeekLength
  OBVIOUS
<1>2. q \in Nat /\ r \in 0..WeekLength - 1 /\ D + 1 = q * WeekLength + r
  BY <1>1, MomentAssumption
<1>3. CASE k >= r
  <2>4. q \in Int
    BY <1>2
  <2>1. (q * WeekLength + k) % WeekLength = k
    BY <1>0, <2>4, Division
  <2>2. q * WeekLength + k = D + 1 + (k - r)
    BY <1>2, MomentAssumption
  <2>3. D + 1 + (k - r) \in D + 1..D + WeekLength
    BY <1>2, <1>3, MomentAssumption
  <2> QED BY <2>1, <2>2, <2>3
<1>4. CASE k < r
  <2>1. q + 1 \in Int
    BY <1>2
  <2>4. ((q + 1) * WeekLength + k) % WeekLength = k
    BY <1>0, <2>1, Division
  <2>2. (q + 1) * WeekLength + k = D + 1 + (WeekLength + k - r)
    BY <1>2, MomentAssumption
  <2>3. D + 1 + (WeekLength + k - r) \in D + 1..D + WeekLength
    BY <1>2, <1>4, MomentAssumption
  <2> QED BY <2>4, <2>2, <2>3
<1> QED BY <1>2, <1>3, <1>4

\* The opening of a window on the days that are searched.
LEMMA Opening ==
    ASSUME NEW ws \in SUBSET Windows!Windows, NEW t \in Nat, NEW n \in Nat, NEW x
    PROVE  x \in Windows!Openings(ws, t, n) <=>
             /\ x \in Nat /\ x > t
             /\ Windows!DayOf(x) \in Windows!DayOf(t)..Windows!DayOf(t) + n - 1
             /\ \E w \in ws : w.day = Windows!Weekday(x) /\ w.start = Windows!TimeOfDay(x)
<1>1. \A w \in ws : w.start \in 0..DayLength - 1
  BY DEF Windows!Windows, Windows!TimesOfDay
<1>2. Windows!DayOf(t) \in Nat
  BY Moment
<1>3. ASSUME x \in Windows!Openings(ws, t, n)
      PROVE  /\ x \in Nat /\ x > t
             /\ Windows!DayOf(x) \in Windows!DayOf(t)..Windows!DayOf(t) + n - 1
             /\ \E w \in ws : w.day = Windows!Weekday(x) /\ w.start = Windows!TimeOfDay(x)
  <2>1. PICK d \in Windows!DayOf(t)..Windows!DayOf(t) + n - 1, w \in ws :
               x = d * DayLength + w.start
    BY <1>3 DEF Windows!Openings
  <2>2. x > t /\ \E v \in ws : v.day = Windows!Weekday(x) /\ v.start = Windows!TimeOfDay(x)
    BY <1>3 DEF Windows!Openings
  <2>3. d \in Nat /\ w.start \in 0..DayLength - 1
    BY <1>1, <1>2, <2>1
  <2>4. x \in Nat /\ Windows!DayOf(x) = d
    BY <2>1, <2>3, MomentOf
  <2> QED BY <2>1, <2>2, <2>4
<1>4. ASSUME x \in Nat, x > t,
             Windows!DayOf(x) \in Windows!DayOf(t)..Windows!DayOf(t) + n - 1,
             NEW w \in ws, w.day = Windows!Weekday(x), w.start = Windows!TimeOfDay(x)
      PROVE  x \in Windows!Openings(ws, t, n)
  <2>1. x = Windows!DayOf(x) * DayLength + w.start
    BY <1>4, Moment
  <2> QED BY <1>4, <2>1 DEF Windows!Openings
<1> QED BY <1>3, <1>4

\* The earliest of some moments.
LEMMA EarliestOf ==
    ASSUME NEW S \in SUBSET Nat, S # {}
    PROVE  Windows!Earliest(S) \in S /\ \A y \in S : Windows!Earliest(S) <= y
<1>1. PICK x \in S : \A y \in S : <<y, x>> \notin OpToRel(<, Nat)
  BY NatLessThanWellFounded, WFMin
<1>2. ASSUME NEW y \in S PROVE x <= y
  <2>1. x \in Nat /\ y \in Nat
    OBVIOUS
  <2>2. ~(y < x)
    BY <1>1, <2>1 DEF OpToRel
  <2> QED BY <2>1, <2>2
<1> QED BY <1>2 DEF Windows!Earliest, Windows!Min

\* A refused execution is told when it would be let in, for every policy.
LEMMA HintUsable ==
    ASSUME NEW ws \in SUBSET Windows!Windows, Windows!Acceptable(ws), NEW t \in Nat
    PROVE  Windows!HintIsUsable(ws, t)
<1> DEFINE next == Windows!NextAllowed(ws, t)
           S == Windows!Openings(ws, t, 2 * WeekLength)
<1>1. 2 * WeekLength \in Nat /\ WeekLength \in Nat \ {0} /\ DayLength \in Nat \ {0}
  BY MomentAssumption
<1>2. \A w \in ws : /\ w.day \in 1..WeekLength /\ w.start < w.end
                    /\ w.start \in 0..DayLength - 1 /\ w.end \in 0..DayLength - 1
  BY DEF Windows!Acceptable, Windows!Windows, Windows!TimesOfDay
<1>3. S \subseteq Nat
  BY <1>1, Opening
<1>4. S # {}
  <2>1. PICK w \in ws : TRUE
    BY DEF Windows!Acceptable
  <2>2. PICK D : D = Windows!DayOf(t) /\ D \in Nat
    BY Moment
  <2>3. w.day - 1 \in 0..WeekLength - 1
    BY <1>1, <1>2
  <2>4. PICK d \in D + 1..D + WeekLength : d % WeekLength = w.day - 1
    BY <2>2, <2>3, WeekdayComes
  <2>5. PICK x : x = d * DayLength + w.start
    OBVIOUS
  <2>6. x \in Nat /\ Windows!DayOf(x) = d /\ Windows!TimeOfDay(x) = w.start
    BY <1>2, <2>2, <2>4, <2>5, MomentOf
  <2>7. Windows!Weekday(x) = w.day
    BY <1>1, <1>2, <2>4, <2>6 DEF Windows!Weekday
  <2>8. x > t
    BY <2>2, <2>4, <2>6, DaysGoOn
  <2>9. d \in D..D + 2 * WeekLength - 1
    BY <1>1, <2>2, <2>4
  <2> QED BY <1>1, <2>2, <2>6, <2>7, <2>8, <2>9, Opening
<1>5. next \in S /\ \A y \in S : next <= y
  BY <1>3, <1>4, EarliestOf DEF Windows!NextAllowed
<1>6. PICK n : n = next
  OBVIOUS
<1>7. /\ n \in Nat /\ n > t
      /\ Windows!DayOf(n) \in Windows!DayOf(t)..Windows!DayOf(t) + 2 * WeekLength - 1
      /\ \E w \in ws : w.day = Windows!Weekday(n) /\ w.start = Windows!TimeOfDay(n)
  BY <1>1, <1>5, <1>6, Opening
<1>8. Windows!IsInWindow(ws, n)
  BY <1>2, <1>7 DEF Windows!IsInWindow
<1>9. Windows!NextMaintenanceSlot(ws, t) = n
  <2>1. Windows!Kept(ws) = ws
    BY <1>2 DEF Windows!Kept
  <2> QED BY <1>6, <2>1 DEF Windows!NextMaintenanceSlot, Windows!NextAllowed
<1>10. ASSUME NEW x \in t + 1..n - 1, Windows!IsInWindow(ws, x)
       PROVE  Windows!IsInWindow(ws, x - 1)
  <2>1. PICK w \in ws : /\ w.day = Windows!Weekday(x)
                        /\ w.start <= Windows!TimeOfDay(x) /\ Windows!TimeOfDay(x) < w.end
    BY <1>10 DEF Windows!IsInWindow
  <2>2. x \in Nat /\ x > t /\ x < n /\ x <= n /\ t <= x
    BY <1>7
  <2>3. Windows!TimeOfDay(x) \in 0..DayLength - 1 /\ Windows!DayOf(x) \in Nat
        /\ Windows!DayOf(t) \in Nat /\ Windows!DayOf(n) \in Nat
    BY <1>7, <2>2, Moment
  <2>4. ASSUME w.start = Windows!TimeOfDay(x) PROVE FALSE
    <3>1. Windows!DayOf(t) <= Windows!DayOf(x) /\ Windows!DayOf(x) <= Windows!DayOf(n)
      BY <1>7, <2>2, DaysGoOn
    <3>2. Windows!DayOf(x) \in Windows!DayOf(t)..Windows!DayOf(t) + 2 * WeekLength - 1
      BY <1>1, <1>7, <2>3, <3>1
    <3>3. x \in S
      BY <1>1, <2>1, <2>2, <2>4, <3>2, Opening
    <3> QED BY <1>5, <1>6, <1>7, <2>2, <3>3
  <2>5. /\ Windows!TimeOfDay(x) + (-1) \in 0..DayLength - 1
        /\ w.start <= Windows!TimeOfDay(x) + (-1) /\ Windows!TimeOfDay(x) + (-1) < w.end
    BY <1>1, <1>2, <2>1, <2>3, <2>4
  <2>6. /\ Windows!TimeOfDay(x + (-1)) = Windows!TimeOfDay(x) + (-1)
        /\ Windows!Weekday(x + (-1)) = Windows!Weekday(x)
    BY <2>2, <2>5, SameDay
  <2>7. x + (-1) = x - 1
    BY <2>2
  <2> QED BY <2>1, <2>5, <2>6, <2>7 DEF Windows!IsInWindow
<1> QED BY <1>6, <1>7, <1>8, <1>9, <1>10 DEF Windows!HintIsUsable

\* A moment of the same day between two times of a window is in the window.
LEMMA Inside ==
    ASSUME NEW ws \in SUBSET Windows!Windows, NEW w \in ws, NEW s \in Nat, NEW e \in Nat,
           w.day = Windows!Weekday(s), w.start <= Windows!TimeOfDay(s),
           Windows!TimeOfDay(s) + (e - s) <= w.end
    PROVE  Windows!OpenThroughout(ws, s, e)
<1>1. w.start \in 0..DayLength - 1 /\ w.end \in 0..DayLength - 1
  BY DEF Windows!Windows, Windows!TimesOfDay
<1>2. Windows!TimeOfDay(s) \in 0..DayLength - 1
  BY Moment
<1>3. ASSUME NEW u \in s..e - 1 PROVE Windows!IsInWindow(ws, u)
  <2>1. PICK k : k = u - s
    OBVIOUS
  <2>2. k \in Nat /\ k < e - s /\ u = s + k
    BY <2>1
  <2>3. /\ Windows!TimeOfDay(s) + k \in 0..DayLength - 1
        /\ w.start <= Windows!TimeOfDay(s) + k /\ Windows!TimeOfDay(s) + k < w.end
    BY <1>1, <1>2, <2>2, MomentAssumption
  <2>4. /\ Windows!TimeOfDay(u) = Windows!TimeOfDay(s) + k
        /\ Windows!Weekday(u) = Windows!Weekday(s)
    BY <2>2, <2>3, SameDay
  <2> QED BY <2>3, <2>4 DEF Windows!IsInWindow
<1> QED BY <1>3 DEF Windows!OpenThroughout

\* What is recommended is accepted, and open all through.
LEMMA RecommendedFit ==
    ASSUME NEW ws \in SUBSET Windows!Windows, NEW t \in Nat, NEW n \in Nat
    PROVE  Windows!RecommendedSlotsFit(ws, t, n)
<1>1. ASSUME NEW s \in Windows!CandidateStarts(ws, t, n)
      PROVE  Windows!SlotIsInWindow(ws, s, s + n) /\ Windows!OpenThroughout(ws, s, s + n)
  <2>1. s \in t + 1..t + 3 * WeekLength * DayLength
    BY <1>1 DEF Windows!CandidateStarts
  <2>2. PICK w \in ws : /\ w.day = Windows!Weekday(s) /\ w.start <= Windows!TimeOfDay(s)
                        /\ Windows!TimeOfDay(s) + n <= w.end
    BY <1>1 DEF Windows!CandidateStarts
  <2>3. s \in Nat /\ s + n \in Nat /\ n = (s + n) - s
    BY <2>1, MomentAssumption
  <2>4. w.end \in 0..DayLength - 1 /\ Windows!TimeOfDay(s) \in 0..DayLength - 1
    BY <2>3, Moment DEF Windows!Windows, Windows!TimesOfDay
  <2>5. Windows!TimeOfDay(s) + n \in 0..DayLength - 1
    BY <2>2, <2>4, MomentAssumption
  <2>6. Windows!TimeOfDay(s + n) = Windows!TimeOfDay(s) + n
    BY <2>3, <2>5, SameDay
  <2>7. Windows!SlotIsInWindow(ws, s, s + n)
    BY <2>2, <2>6 DEF Windows!SlotIsInWindow
  <2> QED BY <2>2, <2>3, <2>7, Inside
<1> QED BY <1>1 DEF Windows!RecommendedSlotsFit

\* Within a day the check of a slot means that the window is open throughout.
LEMMA SameDayOpen ==
    ASSUME NEW ws \in SUBSET Windows!Windows, NEW t \in Nat, NEW n \in Nat
    PROVE  Windows!SameDaySlotsAreOpen(ws, t, n)
<1> SUFFICES ASSUME Windows!DayOf(t) = Windows!DayOf(t + n), Windows!SlotIsInWindow(ws, t, t + n)
             PROVE  Windows!OpenThroughout(ws, t, t + n)
  BY DEF Windows!SameDaySlotsAreOpen
<1>1. PICK w \in ws : /\ w.day = Windows!Weekday(t) /\ w.start <= Windows!TimeOfDay(t)
                      /\ Windows!TimeOfDay(t + n) <= w.end
  BY DEF Windows!SlotIsInWindow
<1>2. PICK d, x, y : /\ d = Windows!DayOf(t)
                     /\ x = Windows!TimeOfDay(t) /\ y = Windows!TimeOfDay(t + n)
  OBVIOUS
<1>3. /\ d \in Nat /\ x \in Nat /\ y \in Nat /\ t + n \in Nat
      /\ t = d * DayLength + x /\ t + n = d * DayLength + y
  BY <1>2, Moment, MomentAssumption
<1>4. y = x + ((t + n) - t)
  BY <1>3, MomentAssumption
<1> QED BY <1>1, <1>2, <1>3, <1>4, Inside
-----------------------------------------------------------------------------
\* A value of a parameter, in a schema or not.
IsParam(v) == /\ v.type \in {"string", "integer", "number", "boolean"}
              /\ v = [type |-> v.type, v |-> v.v, padded |-> v.padded]

\* What a valid value is stored as is valid, and stored as it is.
LEMMA StoredAgain ==
    ASSUME NEW f, NEW v, IsParam(v), f.type \in Params!Types, Params!IsValid(f, v)
    PROVE  /\ Params!IsValid(f, Params!Stored(f, v))
           /\ Params!Stored(f, Params!Stored(f, v)) = Params!Stored(f, v)
<1>1. CASE f.type = "string"
  BY <1>1 DEF IsParam, Params!IsValid, Params!Stored, Params!Types
<1>2. CASE f.type = "enum"
  BY <1>2 DEF IsParam, Params!IsValid, Params!Stored, Params!Types
<1>3. CASE f.type = "integer"
  BY <1>3 DEF IsParam, Params!IsValid, Params!Stored, Params!Types
<1>4. CASE f.type = "number"
  BY <1>4 DEF IsParam, Params!IsValid, Params!Stored, Params!Types, Params!InRange
<1>5. CASE f.type = "boolean"
  BY <1>5 DEF IsParam, Params!IsValid, Params!Stored, Params!Types
<1> QED BY <1>1, <1>2, <1>3, <1>4, <1>5 DEF Params!Types

\* A replay keeps the parameters of what it repeats, for every schema.
LEMMA ReplayKeeps ==
    ASSUME NEW schema, NEW params,
           \A k \in DOMAIN schema : schema[k] \in Params!Field,
           \A k \in DOMAIN params : IsParam(params[k])
    PROVE  Params!ReplayKeepsParams(schema, params)
<1> SUFFICES ASSUME NEW stored \in Params!Normalized(schema, params)
             PROVE  Params!Normalized(schema, stored) = {stored}
  BY DEF Params!ReplayKeepsParams
<1> DEFINE G(k) == Params!Given(schema, params, k)
           A(k) == Params!Given(schema, stored, k)
           K == {k \in DOMAIN schema : G(k) # {}}
           One(k) == CHOOSE value \in G(k) : TRUE
<1>1. /\ DOMAIN params \subseteq DOMAIN schema
      /\ \A k \in DOMAIN schema :
           IF G(k) = {} THEN ~schema[k].required
           ELSE \E value \in G(k) : Params!IsValid(schema[k], value)
      /\ stored = [k \in K |-> Params!Stored(schema[k], One(k))]
  BY DEF Params!Normalized
<1>2. ASSUME NEW k \in K
      PROVE  /\ G(k) = {One(k)} /\ Params!IsValid(schema[k], One(k))
             /\ IsParam(One(k)) /\ schema[k].type \in Params!Types
  <2>1. schema[k] \in Params!Field /\ schema[k].type \in Params!Types
    BY <1>2 DEF Params!Field
  <2>2. PICK d \in SUBSET ParamSizes : d = schema[k].default /\ (d = {} \/ \E x : d = {x})
    BY <2>1 DEF Params!Field
  <2>3. \E x : G(k) = {x} /\ IsParam(x)
    <3>1. CASE k \in DOMAIN params
      BY <3>1 DEF Params!Given
    <3>2. CASE k \notin DOMAIN params
      <4>1. G(k) = {[type |-> Params!TypeOfDefault(schema[k]), v |-> x, padded |-> TRUE] : x \in d}
        BY <2>2, <3>2 DEF Params!Given
      <4>2. PICK x : d = {x}
        BY <1>2, <2>2, <4>1
      <4>3. Params!TypeOfDefault(schema[k]) \in {"string", "integer", "number", "boolean"}
        BY <2>1 DEF Params!TypeOfDefault, Params!Types
      <4>4. PICK y : y = [type |-> Params!TypeOfDefault(schema[k]), v |-> x, padded |-> TRUE]
        OBVIOUS
      <4>5. IsParam(y)
        BY <4>3, <4>4 DEF IsParam
      <4>6. G(k) = {y}
        BY <4>1, <4>2, <4>4
      <4> QED BY <4>5, <4>6
    <3> QED BY <3>1, <3>2
  <2>4. G(k) = {One(k)}
    BY <2>3
  <2> QED BY <1>1, <1>2, <2>1, <2>3, <2>4
<1>3. DOMAIN stored = K
  BY <1>1
<1>4. ASSUME NEW k \in K
      PROVE  /\ A(k) = {stored[k]} /\ Params!IsValid(schema[k], stored[k])
             /\ Params!Stored(schema[k], stored[k]) = stored[k]
  <2>1. stored[k] = Params!Stored(schema[k], One(k))
    BY <1>1
  <2>2. A(k) = {stored[k]}
    BY <1>3 DEF Params!Given
  <2> HIDE DEF One
  <2> QED BY <1>2, <2>1, <2>2, StoredAgain
<1>5. ASSUME NEW k \in DOMAIN schema \ K
      PROVE  A(k) = {} /\ ~schema[k].required
  <2>1. k \notin DOMAIN params
    BY <1>5 DEF Params!Given
  <2>2. A(k) = G(k)
    BY <1>3, <2>1, <1>5 DEF Params!Given
  <2> QED BY <1>1, <2>2
<1>6. {k \in DOMAIN schema : A(k) # {}} = K
  BY <1>4, <1>5
<1>7. \A k \in K : (CHOOSE value \in A(k) : TRUE) = stored[k]
  BY <1>4
<1>8. stored = [k \in {x \in DOMAIN schema : A(x) # {}} |->
                  Params!Stored(schema[k], CHOOSE value \in A(k) : TRUE)]
  BY <1>1, <1>4, <1>6, <1>7
<1>9. ~ \/ DOMAIN stored \ DOMAIN schema # {}
        \/ \E k \in DOMAIN schema :
             IF A(k) = {} THEN schema[k].required
             ELSE \A value \in A(k) : ~Params!IsValid(schema[k], value)
  BY <1>3, <1>4, <1>5
<1> QED BY <1>8, <1>9 DEF Params!Normalized

\* The inputs stay, and are such policies and parameters.
InputsInv ==
    /\ focus = "windows" => input \in WindowInputs
    /\ focus = "params" => input \in ParamInputs

\* For every policy, moment and duration: hints, recommendations and checks of
\* slots agree; and for every schema a replay keeps the parameters of the run.
THEOREM InputsInRun == AllSpec => []PlaybookInputsAgree
<1>1. AllInit => InputsInv
  BY DEF AllInit, InputsInv
<1>2. InputsInv /\ [AllNext]_allVars => InputsInv'
  BY DEF InputsInv, AllNext, allVars
<1>3. InputsInv => PlaybookInputsAgree
  <2> SUFFICES ASSUME InputsInv PROVE PlaybookInputsAgree
    OBVIOUS
  <2>1. ASSUME focus = "windows"
        PROVE  /\ Windows!HintIsUsable(input.windows, input.at)
               /\ Windows!RecommendedSlotsFit(input.windows, input.at, input.duration)
               /\ Windows!SameDaySlotsAreOpen(input.windows, input.at, input.duration)
    <3>1. /\ input.windows \in SUBSET Windows!Windows /\ Windows!Acceptable(input.windows)
          /\ input.at \in Nat /\ input.duration \in Nat
      BY <2>1, MomentAssumption DEF InputsInv, WindowInputs
    <3> QED BY <3>1, HintUsable, RecommendedFit, SameDayOpen
  <2>2. ASSUME focus = "params"
        PROVE  Params!ReplayKeepsParams(input.schema, input.params)
    <3>1. /\ input.schema \in [ParamKeys -> Params!Field]
          /\ input.params \in (UNION {[keys -> Params!Value] : keys \in SUBSET ParamKeys}) \cup {Unknown}
      BY <2>2 DEF InputsInv, ParamInputs
    <3>2. \A v \in Params!Value : IsParam(v)
      BY DEF Params!Value, IsParam
    <3>3. \A k \in DOMAIN input.params : IsParam(input.params[k])
      <4>1. CASE input.params = Unknown
        BY <4>1 DEF Unknown, IsParam
      <4>2. CASE input.params # Unknown
        <5>1. PICK keys \in SUBSET ParamKeys : input.params \in [keys -> Params!Value]
          <6>1. input.params \in UNION {[keys -> Params!Value] : keys \in SUBSET ParamKeys}
            BY <3>1, <4>2
          <6>2. PICK S \in {[keys -> Params!Value] : keys \in SUBSET ParamKeys} : input.params \in S
            BY <6>1
          <6> QED BY <6>2
        <5> QED BY <3>2, <5>1
      <4> QED BY <4>1, <4>2
    <3>4. \A k \in DOMAIN input.schema : input.schema[k] \in Params!Field
      BY <3>1
    <3> QED BY <3>3, <3>4, ReplayKeeps
  <2> QED BY <2>1, <2>2 DEF PlaybookInputsAgree
<1> QED BY <1>1, <1>2, <1>3, PTL DEF AllSpec
=============================================================================
