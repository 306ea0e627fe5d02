------------------------------ MODULE Workflow ------------------------------
(***************************************************************************)
(* A workflow request: requested, approved or rejected, then executed step *)
(* by step of its template.  Executing is done by the HTTP handlers        *)
(* themselves: each reads the request, runs on from the step index it      *)
(* read, and writes progress with unconditional updates, so that several   *)
(* handlers may walk the same request at once.                             *)
(*                                                                         *)
(* A script that is blocked by policy, fails to launch, exits non-zero or  *)
(* times out is one that fails.                                            *)
(***************************************************************************)
EXTENDS Integers, Sequences

CONSTANTS
    Template,     \* kinds of the steps of the template
    Handlers,     \* concurrent execute and manual-complete calls
    MaxStarts,    \* bound: execute calls accepted
    MaxFaults     \* bound: handlers that end half way

StepKind == {"approval", "manual", "script", "manual_script"}

ASSUME TemplateAssumption == Template \in Seq(StepKind) /\ Len(Template) >= 1
ASSUME BoundsAssumption == MaxStarts \in Nat /\ MaxFaults \in Nat

VARIABLES
    status,   \* workflow_requests.status
    cursor,   \* workflow_requests.current_step_index, counted from 1
    done,     \* steps with a 'success' or 'skipped' row in the execution log
    runs,     \* runs[s]: times the script of step s was started
    call,     \* call[h]: local state of handler h
    alone,    \* no two calls were ever under way at the same time
    starts, faults

vars == <<status, cursor, done, runs, call, alone, starts, faults>>
-----------------------------------------------------------------------------
Steps == 1..Len(Template)
Scripts == {s \in Steps : Template[s] = "script"}
Status == {"absent", "pending_approval", "approved", "rejected", "running",
           "waiting_manual", "completed", "failed"}
Call == [pc : {"idle", "start", "complete", "advance", "step", "script", "progress",
               "wait", "fail"},
         step : 0..Len(Template) + 1]

IdleCall == [pc |-> "idle", step |-> 0]
At(h, pc) == call[h].pc = pc
Goto(h, pc) == call' = [call EXCEPT ![h].pc = pc]

\* A manual step, or a script that is not run automatically.
Barrier(s) == s \in Steps /\ Template[s] \in {"manual", "manual_script"}

TypeOK ==
    /\ status \in Status
    /\ cursor \in 1..Len(Template) + 1
    /\ done \in SUBSET Steps
    /\ runs \in [Steps -> Nat]
    /\ call \in [Handlers -> Call]
    /\ alone \in BOOLEAN
    /\ starts \in 0..MaxStarts
    /\ faults \in 0..MaxFaults

Init ==
    /\ status = "absent"
    /\ cursor = 1
    /\ done = {}
    /\ runs = [s \in Steps |-> 0]
    /\ call = [h \in Handlers |-> IdleCall]
    /\ alone = TRUE
    /\ starts = 0
    /\ faults = 0
-----------------------------------------------------------------------------
(* The request and its decision *)

CreateRequest ==
    /\ status = "absent"
    /\ status' = "pending_approval"
    /\ UNCHANGED <<cursor, done, runs, call, alone, starts, faults>>

ApproveRequest ==
    /\ status = "pending_approval"
    /\ status' = "approved"
    /\ UNCHANGED <<cursor, done, runs, call, alone, starts, faults>>

RejectRequest ==
    /\ status = "pending_approval"
    /\ status' = "rejected"
    /\ UNCHANGED <<cursor, done, runs, call, alone, starts, faults>>
-----------------------------------------------------------------------------
(* execute_request and complete_manual_step: the context is read first, and  *)
(* acted on by later, unconditional statements.                              *)

Enters(h) == alone' = (alone /\ \A k \in Handlers \ {h} : At(k, "idle"))

\* Seeded fault: only rejected and waiting requests are refused.
ExecuteAlmostAny(h) ==
    /\ At(h, "idle")
    /\ status \notin {"absent", "rejected", "waiting_manual"}
    /\ starts < MaxStarts
    /\ starts' = starts + 1
    /\ call' = [call EXCEPT ![h] = [pc |-> "start", step |-> cursor]]
    /\ Enters(h)
    /\ UNCHANGED <<status, cursor, done, runs, faults>>

ExecuteRead(h) ==
    /\ At(h, "idle")
    /\ status \in {"approved", "running"}
    /\ starts < MaxStarts
    /\ starts' = starts + 1
    /\ call' = [call EXCEPT ![h] = [pc |-> "start", step |-> cursor]]
    /\ Enters(h)
    /\ UNCHANGED <<status, cursor, done, runs, faults>>

ExecuteStart(h) ==
    /\ At(h, "start")
    /\ status' = "running"
    /\ Goto(h, "step")
    /\ UNCHANGED <<cursor, done, runs, alone, starts, faults>>

ManualRead(h) ==
    /\ At(h, "idle")
    /\ status = "waiting_manual"
    /\ Barrier(cursor)
    /\ call' = [call EXCEPT ![h] = [pc |-> "complete", step |-> cursor]]
    /\ Enters(h)
    /\ UNCHANGED <<status, cursor, done, runs, starts, faults>>

ManualLog(h) ==
    /\ At(h, "complete")
    /\ done' = done \cup {call[h].step}
    /\ Goto(h, "advance")
    /\ UNCHANGED <<status, cursor, runs, alone, starts, faults>>

\* Seeded fault: after a manual step the template is run from its beginning.
ManualRestarts(h) ==
    /\ At(h, "advance")
    /\ status' = "running"
    /\ cursor' = call[h].step + 1
    /\ call' = [call EXCEPT ![h] = [pc |-> "step", step |-> 1]]
    /\ UNCHANGED <<done, runs, alone, starts, faults>>

ManualAdvance(h) ==
    /\ At(h, "advance")
    /\ status' = "running"
    /\ cursor' = call[h].step + 1
    /\ call' = [call EXCEPT ![h] = [pc |-> "step", step |-> call[h].step + 1]]
    /\ UNCHANGED <<done, runs, alone, starts, faults>>
-----------------------------------------------------------------------------
(* execute_from_step *)

SkipApproval(h) ==
    /\ At(h, "step")
    /\ call[h].step \in Steps /\ Template[call[h].step] = "approval"
    /\ done' = done \cup {call[h].step}
    /\ Goto(h, "progress")
    /\ UNCHANGED <<status, cursor, runs, alone, starts, faults>>

\* Seeded fault: a barrier is passed by, logged as waiting.
PassBarrier(h) ==
    /\ At(h, "step")
    /\ Barrier(call[h].step)
    /\ Goto(h, "progress")
    /\ UNCHANGED <<status, cursor, done, runs, alone, starts, faults>>

\* The log row 'manual_wait', then update_request_waiting_manual.
ReachBarrier(h) ==
    /\ At(h, "step")
    /\ Barrier(call[h].step)
    /\ Goto(h, "wait")
    /\ UNCHANGED <<status, cursor, done, runs, alone, starts, faults>>

\* Seeded fault: the handler returns without marking the wait.
WaitUnmarked(h) ==
    /\ At(h, "wait")
    /\ cursor' = call[h].step
    /\ call' = [call EXCEPT ![h] = IdleCall]
    /\ UNCHANGED <<status, done, runs, alone, starts, faults>>

MarkWaiting(h) ==
    /\ At(h, "wait")
    /\ status' = "waiting_manual"
    /\ cursor' = call[h].step
    /\ call' = [call EXCEPT ![h] = IdleCall]
    /\ UNCHANGED <<done, runs, alone, starts, faults>>

RunScript(h) ==
    /\ At(h, "step")
    /\ call[h].step \in Scripts
    /\ runs' = [runs EXCEPT ![call[h].step] = @ + 1]
    /\ Goto(h, "script")
    /\ UNCHANGED <<status, cursor, done, alone, starts, faults>>

ScriptSucceeds(h) ==
    /\ At(h, "script")
    /\ done' = done \cup {call[h].step}
    /\ Goto(h, "progress")
    /\ UNCHANGED <<status, cursor, runs, alone, starts, faults>>

\* The row 'failed' is logged, the request marked by a later statement.
ScriptFails(h) ==
    /\ At(h, "script")
    /\ Goto(h, "fail")
    /\ UNCHANGED <<status, cursor, done, runs, alone, starts, faults>>

\* Seeded fault: the loop counts the step twice.
ProgressTwice(h) ==
    /\ At(h, "progress")
    /\ status' = "running"
    /\ cursor' = call[h].step + 2
    /\ call' = [call EXCEPT ![h] = [pc |-> "step", step |-> call[h].step + 1]]
    /\ UNCHANGED <<done, runs, alone, starts, faults>>

\* update_request_progress
Progress(h) ==
    /\ At(h, "progress")
    /\ status' = "running"
    /\ cursor' = call[h].step + 1
    /\ call' = [call EXCEPT ![h] = [pc |-> "step", step |-> call[h].step + 1]]
    /\ UNCHANGED <<done, runs, alone, starts, faults>>

MarkFailed(h) ==
    /\ At(h, "fail")
    /\ status' = "failed"
    /\ cursor' = call[h].step
    /\ call' = [call EXCEPT ![h] = IdleCall]
    /\ UNCHANGED <<done, runs, alone, starts, faults>>

MarkCompleted(h) ==
    /\ At(h, "step")
    /\ call[h].step = Len(Template) + 1
    /\ status' = "completed"
    /\ cursor' = call[h].step
    /\ call' = [call EXCEPT ![h] = IdleCall]
    /\ UNCHANGED <<done, runs, alone, starts, faults>>

\* A failed statement, a dropped connection or a restart ends the handler; a
\* script that runs is killed with it.
HandlerAborts(h) ==
    /\ ~At(h, "idle")
    /\ faults < MaxFaults
    /\ faults' = faults + 1
    /\ call' = [call EXCEPT ![h] = IdleCall]
    /\ UNCHANGED <<status, cursor, done, runs, alone, starts>>
-----------------------------------------------------------------------------
HandlerStep(h) ==
    \/ ExecuteStart(h)
    \/ ManualLog(h)
    \/ ManualAdvance(h)
    \/ SkipApproval(h)
    \/ ReachBarrier(h)
    \/ MarkWaiting(h)
    \/ RunScript(h)
    \/ ScriptSucceeds(h)
    \/ ScriptFails(h)
    \/ Progress(h)
    \/ MarkFailed(h)
    \/ MarkCompleted(h)

Next ==
    \/ CreateRequest
    \/ ApproveRequest
    \/ RejectRequest
    \/ \E h \in Handlers :
         ExecuteRead(h) \/ ManualRead(h) \/ HandlerStep(h) \/ HandlerAborts(h)

Spec == Init /\ [][Next]_vars

\* A handler that was called runs on: statements and scripts (which have a
\* timeout) end.  Nobody is obliged to approve, execute or complete.
FairSpec == Spec /\ \A h \in Handlers : WF_vars(HandlerStep(h))
-----------------------------------------------------------------------------
(* Properties *)

\* However many handlers walk the request, a script starts only when every
\* earlier step has been done: approvals skipped, scripts run with success,
\* and every manual barrier completed by an operator.
StepsInOrder ==
    \A h \in Handlers : At(h, "script") => \A s \in 1..call[h].step - 1 : s \in done

\* The same of the position that is stored, from which the next call resumes.
CursorBehindDone == \A s \in 1..cursor - 1 : s \in done

\* A request shown as completed has every step in its execution log, though
\* stale handlers overwrite status and index without a condition.
CompletedMeansDone == status = "completed" => done = Steps

\* No step is done, and no handler at work, before the approval or after a
\* rejection.
UndecidedIsUntouched ==
    status \in {"absent", "pending_approval", "rejected"} =>
        done = {} /\ \A h \in Handlers : call[h] = IdleCall

\* A rejection is final.
RejectionIsFinal == [][status = "rejected" => UNCHANGED vars]_vars

\* Unless a handler was cut off, a request shown as running has a handler
\* behind it: the overlapping unconditional updates never leave it stuck.
RunningHasHandler ==
    faults = 0 /\ status = "running" => \E h \in Handlers : ~At(h, "idle")

\* As long as calls come one at a time a script is run once, plus once for
\* every call that was cut off; with overlapping calls it is not.
RunsAreAccounted == alone => \A s \in Scripts : runs[s] <= 1 + faults

\* As long as calls come one at a time a request that ended stays ended.
EndIsFinal ==
    [][alone' /\ status \in {"completed", "failed"} => status' = status]_vars

\* An execution comes to rest unless a handler is cut off.
ExecutionRests ==
    status = "running" ~> status \in {"waiting_manual", "completed", "failed"} \/ faults > 0
=============================================================================
