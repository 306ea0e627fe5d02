--------------------------- MODULE WorkflowProofs ---------------------------
(***************************************************************************)
(* Proofs about Workflow for every template and every number of handlers,  *)
(* calls and faults; and, at the end, the theorems of RunbooksProofs in    *)
(* the behaviours that the run explores.                                   *)
(***************************************************************************)
EXTENDS MCWorkflowRunbooks, TLAPS

-----------------------------------------------------------------------------
(* The inductive invariant *)

Active(h) == ~At(h, "idle")
Ended == {"completed", "failed"}

\* A handler is at a step of the template, or past its end.
InRange ==
    \A h \in Handlers :
        /\ Active(h) => call[h].step \in 1..Len(Template) + 1
        /\ call[h].pc \in {"complete", "advance", "script", "progress", "wait", "fail"} =>
             call[h].step \in Steps

\* The steps before a handler's are done, and its own before it moves on.
HandlerBehindDone ==
    \A h \in Handlers :
        /\ Active(h) => \A s \in 1..call[h].step - 1 : s \in done
        /\ call[h].pc \in {"advance", "progress"} => call[h].step \in done

\* While calls come one at a time, one handler is active, at the cursor, and
\* none once the request has ended.
OneActive == \A h, k \in Handlers : Active(h) /\ Active(k) => h = k
AtCursor == \A h \in Handlers : Active(h) => call[h].step = cursor
RestsWhenEnded == status \in Ended => \A h \in Handlers : ~Active(h)

\* A script was run in vain only by calls that were cut off; its last run is
\* under way, passed, or the one the request failed at.
LastRun(s) ==
    \/ s < cursor
    \/ status = "failed"
    \/ \E h \in Handlers : call[h].step = s /\ call[h].pc \in {"script", "progress", "fail"}
RunsPaid ==
    \A s \in Scripts : runs[s] <= faults \/ (runs[s] <= 1 + faults /\ LastRun(s))

OrderInv == TypeOK /\ InRange /\ CursorBehindDone /\ HandlerBehindDone
StatusInv == CompletedMeansDone /\ UndecidedIsUntouched /\ RunningHasHandler
AloneInv == alone => OneActive /\ AtCursor /\ RestsWhenEnded /\ RunsPaid
IInv == OrderInv /\ StatusInv /\ AloneInv

USE TemplateAssumption, BoundsAssumption
-----------------------------------------------------------------------------
LEMMA Length == Len(Template) \in Nat \ {0}
  OBVIOUS

LEMMA InitInv == Init => IInv
<1> SUFFICES ASSUME Init PROVE IInv
  OBVIOUS
<1> USE Length DEF Init
<1>1. OrderInv
  BY DEF OrderInv, TypeOK, InRange, CursorBehindDone, HandlerBehindDone, Active, At,
         IdleCall, Call, Status, Steps
<1>2. StatusInv
  BY DEF StatusInv, CompletedMeansDone, UndecidedIsUntouched, RunningHasHandler
<1>3. AloneInv
  BY DEF AloneInv, OneActive, AtCursor, RestsWhenEnded, RunsPaid, Ended, Active, At,
         IdleCall, Scripts, Steps
<1> QED BY <1>1, <1>2, <1>3 DEF IInv
-----------------------------------------------------------------------------
(* One handler's state changes at a time *)

\* Handler h goes on at pc, at step n; the others stay where they are.
Becomes(h, pc, n) ==
    /\ call' \in [Handlers -> Call]
    /\ call'[h].pc = pc /\ call'[h].step = n
    /\ \A k \in Handlers : k # h => call'[k] = call[k]

LEMMA CallUpdate ==
  ASSUME call \in [Handlers -> Call], NEW h \in Handlers, NEW pc, NEW n,
         [pc |-> pc, step |-> n] \in Call,
         call' = [call EXCEPT ![h] = [pc |-> pc, step |-> n]]
  PROVE  Becomes(h, pc, n)
  BY DEF Becomes

LEMMA GotoUpdate ==
  ASSUME call \in [Handlers -> Call], NEW h \in Handlers,
         NEW pc \in {"start", "complete", "advance", "step", "script", "progress", "wait", "fail"},
         Goto(h, pc)
  PROVE  Becomes(h, pc, call[h].step)
  BY DEF Goto, Call, Becomes

\* What each step does to the handler that takes it.
LEMMA Moves ==
  ASSUME OrderInv, NEW h \in Handlers
  PROVE  /\ ExecuteRead(h) => Becomes(h, "start", cursor)
         /\ ManualRead(h) => Becomes(h, "complete", cursor)
         /\ ExecuteStart(h) => Becomes(h, "step", call[h].step)
         /\ ManualLog(h) => Becomes(h, "advance", call[h].step)
         /\ ManualAdvance(h) \/ Progress(h) => Becomes(h, "step", call[h].step + 1)
         /\ SkipApproval(h) \/ ScriptSucceeds(h) => Becomes(h, "progress", call[h].step)
         /\ ReachBarrier(h) => Becomes(h, "wait", call[h].step)
         /\ RunScript(h) => Becomes(h, "script", call[h].step)
         /\ ScriptFails(h) => Becomes(h, "fail", call[h].step)
         /\ MarkWaiting(h) \/ MarkFailed(h) \/ MarkCompleted(h) \/ HandlerAborts(h) =>
              Becomes(h, "idle", 0)
<1>1. call \in [Handlers -> Call] /\ cursor \in 1..Len(Template) + 1
  BY DEF OrderInv, TypeOK
<1>2. call[h].pc \in {"advance", "progress"} => call[h].step \in Steps
  BY DEF OrderInv, InRange
<1>3. ExecuteRead(h) => Becomes(h, "start", cursor)
  <2>1. [pc |-> "start", step |-> cursor] \in Call
    BY Length, <1>1 DEF Call
  <2> QED BY <1>1, <2>1, CallUpdate DEF ExecuteRead
<1>4. ManualRead(h) => Becomes(h, "complete", cursor)
  <2>1. [pc |-> "complete", step |-> cursor] \in Call
    BY Length, <1>1 DEF Call
  <2> QED BY <1>1, <2>1, CallUpdate DEF ManualRead
<1>5. ASSUME ManualAdvance(h) \/ Progress(h)
      PROVE  Becomes(h, "step", call[h].step + 1)
  <2>1. call[h].step \in Steps
    BY <1>2, <1>5 DEF ManualAdvance, Progress, At
  <2>2. [pc |-> "step", step |-> call[h].step + 1] \in Call
    BY Length, <2>1 DEF Call, Steps
  <2> QED BY <1>1, <1>5, <2>2, CallUpdate DEF ManualAdvance, Progress
<1>6. ASSUME MarkWaiting(h) \/ MarkFailed(h) \/ MarkCompleted(h) \/ HandlerAborts(h)
      PROVE  Becomes(h, "idle", 0)
  <2>1. [pc |-> "idle", step |-> 0] \in Call
    BY Length DEF Call
  <2>2. call' = [call EXCEPT ![h] = [pc |-> "idle", step |-> 0]]
    BY <1>6 DEF MarkWaiting, MarkFailed, MarkCompleted, HandlerAborts, IdleCall
  <2> QED BY <1>1, <2>1, <2>2, CallUpdate
<1>7. /\ ExecuteStart(h) => Becomes(h, "step", call[h].step)
      /\ ManualLog(h) => Becomes(h, "advance", call[h].step)
      /\ SkipApproval(h) => Becomes(h, "progress", call[h].step)
      /\ ScriptSucceeds(h) => Becomes(h, "progress", call[h].step)
  BY <1>1, GotoUpdate DEF ExecuteStart, ManualLog, SkipApproval, ScriptSucceeds
<1>8. /\ ReachBarrier(h) => Becomes(h, "wait", call[h].step)
      /\ RunScript(h) => Becomes(h, "script", call[h].step)
      /\ ScriptFails(h) => Becomes(h, "fail", call[h].step)
  BY <1>1, GotoUpdate DEF ReachBarrier, RunScript, ScriptFails
<1> QED BY <1>3, <1>4, <1>5, <1>6, <1>7, <1>8
-----------------------------------------------------------------------------
(* The order of the steps *)

HandlerAction(h) == ExecuteRead(h) \/ ManualRead(h) \/ HandlerStep(h) \/ HandlerAborts(h)
Decision == CreateRequest \/ ApproveRequest \/ RejectRequest

LEMMA NextActions == Next <=> Decision \/ \E h \in Handlers : HandlerAction(h)
  BY DEF Next, Decision, HandlerAction

LEMMA RunsType ==
  ASSUME runs \in [Steps -> Nat], NEW s \in Steps, runs' = [runs EXCEPT ![s] = @ + 1]
  PROVE  /\ runs' \in [Steps -> Nat]
         /\ runs'[s] = runs[s] + 1
         /\ \A t \in Steps : t # s => runs'[t] = runs[t]
  OBVIOUS

LEMMA TypeStep ==
  ASSUME OrderInv, NEW h \in Handlers, HandlerAction(h)
  PROVE  TypeOK'
<1> USE Length
<1>1. TypeOK /\ call' \in [Handlers -> Call]
  <2>1. \E pc, n : Becomes(h, pc, n)
    BY Moves DEF HandlerAction, HandlerStep
  <2> QED BY <2>1 DEF OrderInv, Becomes
<1>2. call[h].pc \in {"complete", "advance", "script", "progress", "wait", "fail"} =>
        call[h].step \in Steps
  BY DEF OrderInv, InRange
<1>3. CASE ExecuteRead(h)
  BY <1>1, <1>3 DEF ExecuteRead, TypeOK, Enters
<1>4. CASE ManualRead(h)
  BY <1>1, <1>4 DEF ManualRead, TypeOK, Enters
<1>5. CASE ExecuteStart(h)
  BY <1>1, <1>5 DEF ExecuteStart, TypeOK, Status
<1>6. CASE ManualLog(h)
  BY <1>1, <1>2, <1>6 DEF ManualLog, TypeOK, At
<1>7. CASE ManualAdvance(h) \/ Progress(h)
  <2>1. cursor' \in 1..Len(Template) + 1
    BY <1>2, <1>7 DEF ManualAdvance, Progress, At, Steps
  <2> QED BY <1>1, <1>7, <2>1 DEF ManualAdvance, Progress, TypeOK, Status
<1>8. CASE SkipApproval(h)
  BY <1>1, <1>8 DEF SkipApproval, TypeOK
<1>9. CASE ReachBarrier(h) \/ ScriptFails(h)
  BY <1>1, <1>9 DEF ReachBarrier, ScriptFails, TypeOK
<1>10. CASE MarkWaiting(h) \/ MarkFailed(h)
  <2>1. cursor' \in 1..Len(Template) + 1
    BY <1>2, <1>10 DEF MarkWaiting, MarkFailed, At, Steps
  <2> QED BY <1>1, <1>10, <2>1 DEF MarkWaiting, MarkFailed, TypeOK, Status
<1>11. CASE RunScript(h)
  <2>1. call[h].step \in Steps
    BY <1>11 DEF RunScript, Scripts
  <2>2. runs' \in [Steps -> Nat]
    BY <1>1, <1>11, <2>1, RunsType DEF RunScript, TypeOK
  <2> QED BY <1>1, <1>11, <2>2 DEF RunScript, TypeOK
<1>12. CASE ScriptSucceeds(h)
  BY <1>1, <1>2, <1>12 DEF ScriptSucceeds, TypeOK, At
<1>13. CASE MarkCompleted(h)
  BY <1>1, <1>13 DEF MarkCompleted, TypeOK, Status
<1>14. CASE HandlerAborts(h)
  BY <1>1, <1>14 DEF HandlerAborts, TypeOK
<1> QED BY <1>3, <1>4, <1>5, <1>6, <1>7, <1>8, <1>9, <1>10, <1>11, <1>12, <1>13, <1>14
        DEF HandlerAction, HandlerStep

\* What a step that leaves the handlers in order has to tell of its own.
LEMMA HandlerInOrder ==
  ASSUME OrderInv, NEW h \in Handlers, NEW pc, NEW n, Becomes(h, pc, n), done \subseteq done',
         pc # "idle" => n \in 1..Len(Template) + 1 /\ \A s \in 1..n - 1 : s \in done',
         pc \in {"complete", "advance", "script", "progress", "wait", "fail"} => n \in Steps,
         pc \in {"advance", "progress"} => n \in done'
  PROVE  InRange' /\ HandlerBehindDone'
<1>1. ASSUME NEW k \in Handlers
      PROVE  /\ Active(k)' => call'[k].step \in 1..Len(Template) + 1
             /\ call'[k].pc \in {"complete", "advance", "script", "progress", "wait", "fail"} =>
                  call'[k].step \in Steps
             /\ Active(k)' => \A s \in 1..call'[k].step - 1 : s \in done'
             /\ call'[k].pc \in {"advance", "progress"} => call'[k].step \in done'
  <2>1. CASE k = h
    BY <2>1 DEF Becomes, Active, At
  <2>2. CASE k # h
    BY <2>2 DEF Becomes, Active, At, OrderInv, InRange, HandlerBehindDone
  <2> QED BY <2>1, <2>2
<1> QED BY <1>1 DEF InRange, HandlerBehindDone, Active, At

\* A prefix that is done, one longer.
LEMMA Prefix ==
  ASSUME NEW n \in Nat, NEW S, \A s \in 1..n - 1 : s \in S, n \in S
  PROVE  \A s \in 1..(n + 1) - 1 : s \in S
<1>1. \A s \in 1..(n + 1) - 1 : s \in 1..n - 1 \/ s = n
  OBVIOUS
<1> QED BY <1>1

LEMMA OrderStep ==
  ASSUME OrderInv, NEW h \in Handlers, HandlerAction(h)
  PROVE  OrderInv'
<1> USE Length
<1>1. TypeOK'
  BY TypeStep
<1>2. cursor \in 1..Len(Template) + 1 /\ \A s \in 1..cursor - 1 : s \in done
  BY DEF OrderInv, TypeOK, CursorBehindDone
<1>3. ASSUME ~At(h, "idle")
      PROVE  /\ call[h].step \in 1..Len(Template) + 1
             /\ \A s \in 1..call[h].step - 1 : s \in done
  BY <1>3 DEF OrderInv, InRange, HandlerBehindDone, Active
<1>4. /\ call[h].pc \in {"complete", "advance", "script", "progress", "wait", "fail"} =>
           call[h].step \in Steps
      /\ call[h].pc \in {"advance", "progress"} => call[h].step \in done
  BY DEF OrderInv, InRange, HandlerBehindDone
<1> DEFINE n == call[h].step
<1>5. CASE ExecuteRead(h)
  <2>1. InRange' /\ HandlerBehindDone'
    BY <1>2, <1>5, Moves, HandlerInOrder DEF ExecuteRead
  <2> QED BY <1>1, <1>2, <1>5, <2>1 DEF ExecuteRead, OrderInv, CursorBehindDone
<1>6. CASE ManualRead(h)
  <2>1. InRange' /\ HandlerBehindDone'
    BY <1>2, <1>6, Moves, HandlerInOrder DEF ManualRead, Barrier
  <2> QED BY <1>1, <1>2, <1>6, <2>1 DEF ManualRead, OrderInv, CursorBehindDone
<1>7. CASE ExecuteStart(h)
  <2>1. InRange' /\ HandlerBehindDone'
    BY <1>3, <1>7, Moves, HandlerInOrder DEF ExecuteStart, At
  <2> QED BY <1>1, <1>2, <1>7, <2>1 DEF ExecuteStart, OrderInv, CursorBehindDone
<1>8. CASE ManualLog(h)
  <2>1. InRange' /\ HandlerBehindDone'
    BY <1>3, <1>4, <1>8, Moves, HandlerInOrder DEF ManualLog, At
  <2> QED BY <1>1, <1>2, <1>8, <2>1 DEF ManualLog, OrderInv, CursorBehindDone
<1>9. CASE ManualAdvance(h) \/ Progress(h)
  <2>1. n \in Steps /\ n \in done /\ (\A s \in 1..n - 1 : s \in done) /\ done' = done
    BY <1>3, <1>4, <1>9 DEF ManualAdvance, Progress, At
  <2>2. n + 1 \in 1..Len(Template) + 1 /\ \A s \in 1..(n + 1) - 1 : s \in done'
    BY <2>1, Prefix DEF Steps
  <2>3. InRange' /\ HandlerBehindDone'
    BY <1>9, <2>1, <2>2, Moves, HandlerInOrder
  <2>4. cursor' = n + 1
    BY <1>9 DEF ManualAdvance, Progress
  <2> QED BY <1>1, <2>2, <2>3, <2>4 DEF OrderInv, CursorBehindDone
<1>10. CASE SkipApproval(h)
  <2>1. InRange' /\ HandlerBehindDone'
    BY <1>3, <1>10, Moves, HandlerInOrder DEF SkipApproval, At
  <2> QED BY <1>1, <1>2, <1>10, <2>1 DEF SkipApproval, OrderInv, CursorBehindDone
<1>11. CASE ReachBarrier(h)
  <2>1. InRange' /\ HandlerBehindDone'
    BY <1>3, <1>11, Moves, HandlerInOrder DEF ReachBarrier, At, Barrier
  <2> QED BY <1>1, <1>2, <1>11, <2>1 DEF ReachBarrier, OrderInv, CursorBehindDone
<1>12. CASE RunScript(h)
  <2>1. InRange' /\ HandlerBehindDone'
    BY <1>3, <1>12, Moves, HandlerInOrder DEF RunScript, At, Scripts
  <2> QED BY <1>1, <1>2, <1>12, <2>1 DEF RunScript, OrderInv, CursorBehindDone
<1>13. CASE ScriptSucceeds(h)
  <2>1. InRange' /\ HandlerBehindDone'
    BY <1>3, <1>4, <1>13, Moves, HandlerInOrder DEF ScriptSucceeds, At
  <2> QED BY <1>1, <1>2, <1>13, <2>1 DEF ScriptSucceeds, OrderInv, CursorBehindDone
<1>14. CASE ScriptFails(h)
  <2>1. InRange' /\ HandlerBehindDone'
    BY <1>3, <1>4, <1>14, Moves, HandlerInOrder DEF ScriptFails, At
  <2> QED BY <1>1, <1>2, <1>14, <2>1 DEF ScriptFails, OrderInv, CursorBehindDone
<1>15. CASE MarkWaiting(h) \/ MarkFailed(h) \/ MarkCompleted(h)
  <2>1. done' = done /\ cursor' = n /\ ~At(h, "idle")
    BY <1>15 DEF MarkWaiting, MarkFailed, MarkCompleted, At
  <2>2. InRange' /\ HandlerBehindDone'
    BY <1>15, <2>1, Moves, HandlerInOrder
  <2> QED BY <1>1, <1>3, <2>1, <2>2 DEF OrderInv, CursorBehindDone
<1>16. CASE HandlerAborts(h)
  <2>1. InRange' /\ HandlerBehindDone'
    BY <1>16, Moves, HandlerInOrder DEF HandlerAborts
  <2> QED BY <1>1, <1>2, <1>16, <2>1 DEF HandlerAborts, OrderInv, CursorBehindDone
<1> QED BY <1>5, <1>6, <1>7, <1>8, <1>9, <1>10, <1>11, <1>12, <1>13, <1>14, <1>15, <1>16
        DEF HandlerAction, HandlerStep
-----------------------------------------------------------------------------
(* The status of the request *)

\* The steps with which a handler returns.
Returns(h) == MarkWaiting(h) \/ MarkFailed(h) \/ MarkCompleted(h)

LEMMA StatusMoves ==
  ASSUME OrderInv, NEW h \in Handlers, HandlerAction(h)
  PROVE  /\ done \subseteq done'
         /\ At(h, "idle") => status \in {"approved", "running", "waiting_manual"} /\ status' = status
         /\ \/ status' = status
            \/ status' \in {"running", "waiting_manual", "failed"}
            \/ MarkCompleted(h) /\ status' = "completed"
<1>1. CASE ExecuteRead(h) \/ ManualRead(h)
  BY <1>1 DEF ExecuteRead, ManualRead
<1>2. CASE ExecuteStart(h) \/ ManualLog(h) \/ ManualAdvance(h) \/ SkipApproval(h)
  BY <1>2 DEF ExecuteStart, ManualLog, ManualAdvance, SkipApproval, At
<1>3. CASE ReachBarrier(h) \/ RunScript(h) \/ ScriptSucceeds(h) \/ ScriptFails(h)
  BY <1>3 DEF ReachBarrier, RunScript, ScriptSucceeds, ScriptFails, At
<1>4. CASE Progress(h) \/ Returns(h) \/ HandlerAborts(h)
  BY <1>4 DEF Progress, Returns, MarkWaiting, MarkFailed, MarkCompleted, HandlerAborts, At
<1> QED BY <1>1, <1>2, <1>3, <1>4 DEF HandlerAction, HandlerStep, Returns

\* A handler is active after its step unless it returns or is cut off.
LEMMA StaysActive ==
  ASSUME OrderInv, NEW h \in Handlers, HandlerAction(h)
  PROVE  Returns(h) \/ HandlerAborts(h) \/ Active(h)'
<1>1. SUFFICES ASSUME NEW pc, NEW n, Becomes(h, pc, n), pc # "idle"
               PROVE  Active(h)'
  BY Moves DEF HandlerAction, HandlerStep, Returns
<1> QED BY <1>1 DEF Becomes, Active, At

LEMMA StatusStep ==
  ASSUME OrderInv, OrderInv', StatusInv, NEW h \in Handlers, HandlerAction(h)
  PROVE  StatusInv'
<1> USE Length
<1>1. done \in SUBSET Steps /\ done' \in SUBSET Steps /\ faults \in Nat /\ faults' \in Nat
  BY DEF OrderInv, TypeOK
<1>2. CompletedMeansDone'
  <2>1. CASE MarkCompleted(h)
    <3>1. call[h].step = Len(Template) + 1 /\ done' = done /\ Active(h)
      BY <2>1 DEF MarkCompleted, Active, At
    <3>2. \A s \in Steps : s \in done
      BY <3>1 DEF OrderInv, HandlerBehindDone, Steps
    <3> QED BY <1>1, <3>1, <3>2 DEF CompletedMeansDone
  <2>2. CASE ~MarkCompleted(h)
    <3>1. status' = "completed" => status = "completed"
      BY <2>2, StatusMoves
    <3> QED BY <1>1, <3>1, StatusMoves DEF StatusInv, CompletedMeansDone
  <2> QED BY <2>1, <2>2
<1>3. UndecidedIsUntouched'
  <2>1. status \notin {"absent", "pending_approval", "rejected"}
    BY StatusMoves DEF StatusInv, UndecidedIsUntouched, IdleCall, At
  <2> QED BY <2>1, StatusMoves DEF UndecidedIsUntouched
<1>4. RunningHasHandler'
  <2>1. CASE Returns(h)
    BY <2>1 DEF RunningHasHandler, Returns, MarkWaiting, MarkFailed, MarkCompleted
  <2>2. CASE HandlerAborts(h)
    BY <1>1, <2>2 DEF RunningHasHandler, HandlerAborts
  <2>3. CASE Active(h)'
    BY <2>3 DEF RunningHasHandler, Active
  <2> QED BY <2>1, <2>2, <2>3, StaysActive
<1> QED BY <1>2, <1>3, <1>4 DEF StatusInv
-----------------------------------------------------------------------------
(* Calls that come one at a time *)

\* As long as the calls stay alone, a handler that acts is the only active
\* one, and the request has not ended.
LEMMA AloneStarts ==
  ASSUME OrderInv, AloneInv, NEW h \in Handlers, HandlerAction(h), alone'
  PROVE  /\ alone
         /\ \A k \in Handlers : k # h => ~Active(k)
         /\ status \notin Ended
         /\ Active(h) => call[h].step = cursor
<1>1. CASE ExecuteRead(h) \/ ManualRead(h)
  <2>1. alone /\ \A k \in Handlers : k # h => ~Active(k)
    BY <1>1 DEF ExecuteRead, ManualRead, Enters, Active
  <2>2. status \notin Ended /\ ~Active(h)
    BY <1>1 DEF ExecuteRead, ManualRead, Ended, Active
  <2> QED BY <2>1, <2>2
<1>2. CASE HandlerStep(h) \/ HandlerAborts(h)
  <2>1. alone' = alone /\ Active(h)
    BY <1>2 DEF HandlerStep, ExecuteStart, ManualLog, ManualAdvance, SkipApproval, ReachBarrier,
                MarkWaiting, RunScript, ScriptSucceeds, ScriptFails, Progress, MarkFailed,
                MarkCompleted, HandlerAborts, Active, At
  <2> QED BY <2>1 DEF AloneInv, OneActive, RestsWhenEnded, AtCursor
<1> QED BY <1>1, <1>2 DEF HandlerAction

LEMMA OthersRest ==
  ASSUME OrderInv, NEW h \in Handlers, HandlerAction(h)
  PROVE  \A k \in Handlers : k # h => call'[k] = call[k]
<1>1. SUFFICES ASSUME NEW pc, NEW n, Becomes(h, pc, n)
               PROVE  \A k \in Handlers : k # h => call'[k] = call[k]
  BY Moves DEF HandlerAction, HandlerStep
<1> QED BY <1>1 DEF Becomes

\* The handler that acts stays at the cursor.
LEMMA StaysAtCursor ==
  ASSUME OrderInv, NEW h \in Handlers, HandlerAction(h), Active(h) => call[h].step = cursor
  PROVE  Active(h)' => call'[h].step = cursor'
<1>1. CASE ExecuteRead(h) \/ ManualRead(h)
  <2>1. call'[h].step = cursor
    BY <1>1, Moves DEF Becomes
  <2> QED BY <1>1, <2>1 DEF ExecuteRead, ManualRead
<1>2. CASE ExecuteStart(h) \/ ManualLog(h) \/ SkipApproval(h) \/ ScriptSucceeds(h)
  <2>1. call'[h].step = call[h].step
    BY <1>2, Moves DEF Becomes
  <2> QED BY <1>2, <2>1 DEF ExecuteStart, ManualLog, SkipApproval, ScriptSucceeds, Active, At
<1>3. CASE ReachBarrier(h) \/ RunScript(h) \/ ScriptFails(h)
  <2>1. call'[h].step = call[h].step
    BY <1>3, Moves DEF Becomes
  <2> QED BY <1>3, <2>1 DEF ReachBarrier, RunScript, ScriptFails, Active, At
<1>4. CASE ManualAdvance(h) \/ Progress(h)
  <2>1. call'[h].step = call[h].step + 1
    BY <1>4, Moves DEF Becomes
  <2> QED BY <1>4, <2>1 DEF ManualAdvance, Progress
<1>5. CASE Returns(h) \/ HandlerAborts(h)
  BY <1>5, Moves DEF Returns, Becomes, Active, At
<1> QED BY <1>1, <1>2, <1>3, <1>4, <1>5 DEF HandlerAction, HandlerStep, Returns

\* A request is ended by a handler that returns.
LEMMA EndsByReturn ==
  ASSUME OrderInv, NEW h \in Handlers, HandlerAction(h), status \notin Ended, status' \in Ended
  PROVE  ~Active(h)'
<1>1. Returns(h)
  <2>1. ~(ExecuteRead(h) \/ ManualRead(h) \/ ExecuteStart(h) \/ ManualLog(h) \/ ManualAdvance(h))
    BY DEF ExecuteRead, ManualRead, ExecuteStart, ManualLog, ManualAdvance, Ended
  <2>2. ~(SkipApproval(h) \/ ReachBarrier(h) \/ RunScript(h) \/ ScriptSucceeds(h) \/ ScriptFails(h))
    BY DEF SkipApproval, ReachBarrier, RunScript, ScriptSucceeds, ScriptFails
  <2>3. ~(Progress(h) \/ HandlerAborts(h))
    BY DEF Progress, HandlerAborts, Ended
  <2> QED BY <2>1, <2>2, <2>3 DEF HandlerAction, HandlerStep, Returns
<1> QED BY <1>1, Moves DEF Returns, Becomes, Active, At

\* The last run of s when h alone may be at it.
LastRunAt(h, s) ==
    \/ s < cursor
    \/ status = "failed"
    \/ call[h].step = s /\ call[h].pc \in {"script", "progress", "fail"}

LEMMA RunsStep ==
  ASSUME OrderInv, OrderInv', NEW h \in Handlers, HandlerAction(h), status \notin Ended,
         Active(h) => call[h].step = cursor,
         NEW s \in Scripts,
         runs[s] <= faults \/ (runs[s] <= 1 + faults /\ LastRunAt(h, s))
  PROVE  runs'[s] <= faults' \/ (runs'[s] <= 1 + faults' /\ LastRunAt(h, s)')
<1>1. /\ s \in Steps /\ s \in Int /\ cursor \in Int /\ cursor' \in Int
      /\ runs \in [Steps -> Nat] /\ runs[s] \in Nat /\ faults \in Nat /\ faults' \in Nat
  BY Length DEF Scripts, Steps, OrderInv, TypeOK
<1>2. CASE RunScript(h)
  <2>1. call[h].step \in Steps /\ Active(h) /\ call[h].pc = "step" /\ UNCHANGED <<cursor, status, faults>>
    BY <1>2 DEF RunScript, Active, At, Scripts
  <2>2. CASE s = call[h].step
    <3>1. ~LastRunAt(h, s)
      BY <1>1, <2>1, <2>2 DEF LastRunAt, Ended
    <3>2. runs'[s] = runs[s] + 1
      BY <1>1, <1>2, <2>2, RunsType DEF RunScript
    <3>3. LastRunAt(h, s)'
      BY <1>2, <2>2, Moves DEF Becomes, LastRunAt
    <3> QED BY <1>1, <2>1, <3>1, <3>2, <3>3
  <2>3. CASE s # call[h].step
    <3>1. runs'[s] = runs[s]
      BY <1>1, <1>2, <2>1, <2>3, RunsType DEF RunScript
    <3>2. LastRunAt(h, s) => LastRunAt(h, s)'
      BY <2>1, <2>3 DEF LastRunAt
    <3> QED BY <2>1, <3>1, <3>2
  <2> QED BY <2>2, <2>3
<1>3. CASE HandlerAborts(h)
  BY <1>1, <1>3 DEF HandlerAborts
<1>4. CASE ~RunScript(h) /\ ~HandlerAborts(h)
  <2>1. runs' = runs /\ faults' = faults
    BY <1>4 DEF HandlerAction, HandlerStep, ExecuteRead, ManualRead, ExecuteStart, ManualLog,
                ManualAdvance, SkipApproval, ReachBarrier, MarkWaiting, ScriptSucceeds,
                ScriptFails, Progress, MarkFailed, MarkCompleted
  <2>2. ASSUME LastRunAt(h, s) PROVE LastRunAt(h, s)'
    <3>1. CASE ExecuteRead(h) \/ ManualRead(h) \/ ExecuteStart(h) \/ ManualLog(h)
      BY <2>2, <3>1 DEF ExecuteRead, ManualRead, ExecuteStart, ManualLog, LastRunAt, At, Ended
    <3>2. CASE SkipApproval(h) \/ ReachBarrier(h)
      BY <2>2, <3>2 DEF SkipApproval, ReachBarrier, LastRunAt, At, Ended
    <3>3. CASE ScriptSucceeds(h) \/ ScriptFails(h)
      <4>1. call'[h].step = call[h].step /\ call'[h].pc \in {"progress", "fail"}
        BY <3>3, Moves DEF Becomes
      <4> QED BY <2>2, <3>3, <4>1 DEF ScriptSucceeds, ScriptFails, LastRunAt, Ended
    <3>4. CASE ManualAdvance(h) \/ Progress(h)
      <4>1. cursor' = cursor + 1 /\ call[h].step = cursor
        BY <3>4 DEF ManualAdvance, Progress, Active, At
      <4> QED BY <1>1, <2>2, <4>1 DEF LastRunAt, Ended
    <3>5. CASE Returns(h)
      <4>1. cursor' = cursor
        BY <3>5 DEF Returns, MarkWaiting, MarkFailed, MarkCompleted, Active, At
      <4>2. call[h].pc = "fail" => status' = "failed"
        BY <3>5 DEF Returns, MarkWaiting, MarkFailed, MarkCompleted, At
      <4>3. call[h].pc \in {"wait", "step", "fail"}
        BY <3>5 DEF Returns, MarkWaiting, MarkFailed, MarkCompleted, At
      <4> QED BY <2>2, <4>1, <4>2, <4>3 DEF LastRunAt, Ended
    <3> QED BY <1>4, <3>1, <3>2, <3>3, <3>4, <3>5 DEF HandlerAction, HandlerStep, Returns
  <2> QED BY <2>1, <2>2
<1> QED BY <1>2, <1>3, <1>4

LEMMA AloneStep ==
  ASSUME OrderInv, OrderInv', AloneInv, NEW h \in Handlers, HandlerAction(h)
  PROVE  AloneInv'
<1> SUFFICES ASSUME alone' PROVE (OneActive /\ AtCursor /\ RestsWhenEnded /\ RunsPaid)'
  BY DEF AloneInv
<1>1. /\ alone
      /\ status \notin Ended
      /\ Active(h) => call[h].step = cursor
  BY AloneStarts
<1>2. \A k \in Handlers : k # h => ~Active(k) /\ ~Active(k)'
  BY AloneStarts, OthersRest DEF Active, At
<1>3. OneActive'
  BY <1>2 DEF OneActive
<1>4. AtCursor'
  BY <1>1, <1>2, StaysAtCursor DEF AtCursor
<1>5. RestsWhenEnded'
  BY <1>1, <1>2, EndsByReturn DEF RestsWhenEnded
<1>6. RunsPaid'
  <2>1. SUFFICES ASSUME NEW s \in Scripts
                 PROVE  runs'[s] <= faults' \/ (runs'[s] <= 1 + faults' /\ LastRun(s)')
    BY DEF RunsPaid
  <2>2. LastRun(s) => LastRunAt(h, s)
    BY <1>2 DEF LastRun, LastRunAt, Active, At
  <2>3. runs[s] <= faults \/ (runs[s] <= 1 + faults /\ LastRunAt(h, s))
    BY <1>1, <2>2 DEF AloneInv, RunsPaid
  <2>4. LastRunAt(h, s)' => LastRun(s)'
    BY DEF LastRun, LastRunAt
  <2> QED BY <1>1, <2>3, <2>4, RunsStep
<1> QED BY <1>3, <1>4, <1>5, <1>6
-----------------------------------------------------------------------------
(* The invariant and what follows from it *)

LEMMA DecisionStep ==
  ASSUME IInv, Decision
  PROVE  IInv'
<1> USE DEF Decision, CreateRequest, ApproveRequest, RejectRequest
<1>1. /\ UNCHANGED <<cursor, done, runs, call, alone, starts, faults>>
      /\ status \in {"absent", "pending_approval"}
      /\ status' \in {"pending_approval", "approved", "rejected"}
  OBVIOUS
<1>2. OrderInv'
  BY <1>1 DEF IInv, OrderInv, TypeOK, InRange, CursorBehindDone, HandlerBehindDone, Active, At,
              Status
<1>3. StatusInv'
  BY <1>1 DEF IInv, StatusInv, CompletedMeansDone, UndecidedIsUntouched, RunningHasHandler
<1>4. AloneInv'
  <2>1. status # "failed" /\ status' \notin Ended
    BY <1>1 DEF Ended
  <2>2. \A s \in Scripts : LastRun(s) => LastRun(s)'
    BY <1>1, <2>1 DEF LastRun
  <2> QED BY <1>1, <2>1, <2>2 DEF IInv, AloneInv, OneActive, AtCursor, RestsWhenEnded, RunsPaid,
                                  Active, At
<1> QED BY <1>2, <1>3, <1>4 DEF IInv

LEMMA NextInv == IInv /\ [Next]_vars => IInv'
<1> SUFFICES ASSUME IInv, [Next]_vars PROVE IInv'
  OBVIOUS
<1>1. CASE Decision
  BY <1>1, DecisionStep
<1>2. ASSUME NEW h \in Handlers, HandlerAction(h) PROVE IInv'
  <2>1. OrderInv'
    BY <1>2, OrderStep DEF IInv
  <2> QED BY <1>2, <2>1, StatusStep, AloneStep DEF IInv
<1>3. CASE UNCHANGED vars
  <2>1. OrderInv'
    BY <1>3 DEF vars, IInv, OrderInv, TypeOK, InRange, CursorBehindDone, HandlerBehindDone,
                Active, At
  <2>2. StatusInv'
    BY <1>3 DEF vars, IInv, StatusInv, CompletedMeansDone, UndecidedIsUntouched,
                RunningHasHandler, At
  <2>3. AloneInv'
    BY <1>3 DEF vars, IInv, AloneInv, OneActive, AtCursor, RestsWhenEnded, RunsPaid, LastRun,
                Active, At
  <2> QED BY <2>1, <2>2, <2>3 DEF IInv
<1> QED BY <1>1, <1>2, <1>3, NextActions

\* The inductive invariant holds in every reachable state.
THEOREM Invariance == Spec => []IInv
BY InitInv, NextInv, PTL DEF Spec

\* Every variable of a request keeps its type: the cursor and the step of
\* every handler stay within the template and the place behind its end.
THEOREM TypeCorrect == Spec => []TypeOK
<1>1. IInv => TypeOK
  BY DEF IInv, OrderInv
<1> QED BY <1>1, Invariance, PTL

\* For every template and any number of handlers on one request, a script
\* starts, and the stored position stands, only behind steps that are done.
THEOREM OrderTheorem == Spec => [](StepsInOrder /\ CursorBehindDone)
<1>1. IInv => StepsInOrder /\ CursorBehindDone
  <2> SUFFICES ASSUME IInv, NEW h \in Handlers, At(h, "script")
               PROVE  \A s \in 1..call[h].step - 1 : s \in done
    BY DEF IInv, OrderInv, StepsInOrder
  <2> QED BY DEF IInv, OrderInv, HandlerBehindDone, Active, At
<1> QED BY <1>1, Invariance, PTL

\* A completed request has every step done, an undecided or rejected one is
\* untouched, and a running one has a handler unless one was cut off.
THEOREM StatusTheorem == Spec => [](CompletedMeansDone /\ UndecidedIsUntouched /\ RunningHasHandler)
<1>1. IInv => CompletedMeansDone /\ UndecidedIsUntouched /\ RunningHasHandler
  BY DEF IInv, StatusInv
<1> QED BY <1>1, Invariance, PTL

\* No approval, execution or manual completion follows a rejection.
THEOREM RejectionTheorem == Spec => RejectionIsFinal
<1>1. IInv /\ [Next]_vars => [status = "rejected" => UNCHANGED vars]_vars
  <2> SUFFICES ASSUME IInv, Next, status = "rejected" PROVE FALSE
    BY DEF vars
  <2>1. ~Decision
    BY DEF Decision, CreateRequest, ApproveRequest, RejectRequest
  <2>2. ASSUME NEW h \in Handlers, HandlerAction(h) PROVE FALSE
    <3>1. At(h, "idle")
      BY DEF IInv, StatusInv, UndecidedIsUntouched, IdleCall, At
    <3> QED BY <2>2, <3>1, StatusMoves DEF IInv
  <2> QED BY <2>1, <2>2, NextActions
<1> QED BY <1>1, Invariance, PTL DEF Spec, RejectionIsFinal

\* While calls come one at a time, a script is run once, plus once for every
\* call that was cut off, whatever the template and the number of calls.
THEOREM RunsTheorem == Spec => []RunsAreAccounted
<1>1. IInv => RunsAreAccounted
  <2> SUFFICES ASSUME IInv, alone, NEW s \in Scripts PROVE runs[s] <= 1 + faults
    BY DEF RunsAreAccounted
  <2>1. runs[s] \in Nat /\ faults \in Nat
    BY DEF IInv, OrderInv, TypeOK, Scripts
  <2>2. runs[s] <= faults \/ runs[s] <= 1 + faults
    BY DEF IInv, AloneInv, RunsPaid
  <2> QED BY <2>1, <2>2
<1> QED BY <1>1, Invariance, PTL

\* While calls come one at a time, an ended request stays as it ended.
THEOREM EndTheorem == Spec => EndIsFinal
<1>1. IInv /\ [Next]_vars =>
        [alone' /\ status \in {"completed", "failed"} => status' = status]_vars
  <2> SUFFICES ASSUME IInv, Next, alone', status \in {"completed", "failed"} PROVE FALSE
    BY DEF vars
  <2>1. ~Decision
    BY DEF Decision, CreateRequest, ApproveRequest, RejectRequest
  <2>2. ASSUME NEW h \in Handlers, HandlerAction(h) PROVE FALSE
    BY <2>2, AloneStarts DEF IInv, Ended
  <2> QED BY <2>1, <2>2, NextActions
<1> QED BY <1>1, Invariance, PTL DEF Spec, EndIsFinal
-----------------------------------------------------------------------------
(* Runbooks in the behaviours of MCWorkflowRunbooks: RunbooksProofs is      *)
(* instantiated as that module instantiates RunbookAnalytics, and the steps *)
(* of each focus are steps of its instance.                                 *)

RP == INSTANCE RunbooksProofs WITH
    runs <- executions, Calls <- {"c", "d"}, Templates <- {"dependency_check"},
    PresetNames <- {}, OwnInputs <- {Good}, FailInputs <- {0, 2}, Thresholds <- {50},
    Samples <- {1}, ScanRows <- 1, FeedRows <- 1, MaxRuns <- 2, MaxPresets <- 0

PP == INSTANCE RunbooksProofs WITH
    runs <- executions, Calls <- {"c"}, Templates <- {"dependency_check", "backup_verify"},
    PresetNames <- {}, FailInputs <- {0, 4}, Thresholds <- {50}, Samples <- {1, 2},
    OwnInputs <- {Good, Wrong, [form |-> "text", is |-> "bad"],
                  [form |-> "absent", is |-> "nothing"]},
    ScanRows <- 2, FeedRows <- 1, MaxRuns <- 3, MaxPresets <- 0

TP == INSTANCE RunbooksProofs WITH
    runs <- executions, Calls <- {"c"}, Templates <- {"backup_verify"}, PresetNames <- {"p", "q"},
    OwnInputs <- {Good, Wrong, [form |-> "null", is |-> "nothing"]}, FailInputs <- {0, 1},
    Thresholds <- {50}, Samples <- {1}, ScanRows <- 2, FeedRows <- 1, MaxRuns <- 0,
    MaxPresets <- 2

\* The inductive invariant of the instance that is in focus.
RunbooksInv ==
    /\ focus = "racing" => RP!IInv
    /\ focus = "replaying" => PP!IInv
    /\ focus = "presetting" => TP!IInv

LEMMA RacingStep ==
    ASSUME Racing!Next
    PROVE  RP!Next
<1>1. ASSUME Racing!UpdateAnalytics PROVE RP!UpdateAnalytics
  BY <1>1, Zenon
     DEF Racing!UpdateAnalytics, RP!UpdateAnalytics
<1>2. ASSUME Racing!CreatePreset PROVE RP!CreatePreset
  BY <1>2, Zenon
     DEF Racing!CreatePreset, RP!CreatePreset, Racing!Modes, RP!Modes,
         Racing!NormalParams, RP!NormalParams, Racing!OwnParam, RP!OwnParam,
         Racing!Supports, RP!Supports, Racing!BuiltIn, RP!BuiltIn,
         Racing!ServiceRestartSafe, RP!ServiceRestartSafe, Racing!DependencyCheck,
         RP!DependencyCheck, Racing!BackupVerify, RP!BackupVerify,
         Racing!MaintenanceCloseout, RP!MaintenanceCloseout
<1>3. ASSUME Racing!UpdatePreset PROVE RP!UpdatePreset
  BY <1>3, Zenon
     DEF Racing!UpdatePreset, RP!UpdatePreset, Racing!Modes, RP!Modes,
         Racing!NormalParams, RP!NormalParams, Racing!OwnParam, RP!OwnParam,
         Racing!Supports, RP!Supports, Racing!BuiltIn, RP!BuiltIn,
         Racing!ServiceRestartSafe, RP!ServiceRestartSafe, Racing!DependencyCheck,
         RP!DependencyCheck, Racing!BackupVerify, RP!BackupVerify,
         Racing!MaintenanceCloseout, RP!MaintenanceCloseout
<1>4. ASSUME Racing!DeletePreset PROVE RP!DeletePreset
  BY <1>4, Zenon
     DEF Racing!DeletePreset, RP!DeletePreset
<1>5. ASSUME NEW c, Racing!ReadPolicy(c) PROVE RP!ReadPolicy(c)
  BY <1>5, Zenon
     DEF Racing!ReadPolicy, RP!ReadPolicy, Racing!Idle, RP!Idle, Racing!Goto, RP!Goto
<1>6. ASSUME NEW c, Racing!WritePolicy(c) PROVE RP!WritePolicy(c)
  BY <1>6, Zenon
     DEF Racing!WritePolicy, RP!WritePolicy, Racing!At, RP!At, Racing!Goto, RP!Goto,
         Racing!Idle, RP!Idle, Racing!PolicyInputs, RP!PolicyInputs, Racing!Fields,
         RP!Fields, Racing!IsPolicy, RP!IsPolicy, Racing!Supports, RP!Supports,
         Racing!BuiltIn, RP!BuiltIn, Racing!ServiceRestartSafe, RP!ServiceRestartSafe,
         Racing!DependencyCheck, RP!DependencyCheck, Racing!BackupVerify,
         RP!BackupVerify, Racing!MaintenanceCloseout, RP!MaintenanceCloseout
<1>7. ASSUME NEW c, Racing!Execute(c) PROVE RP!Execute(c)
  BY <1>7, Zenon
     DEF Racing!Execute, RP!Execute, Racing!Idle, RP!Idle, Racing!Goto, RP!Goto,
         Racing!Begin, RP!Begin, Racing!Modes, RP!Modes, Racing!NoRun, RP!NoRun,
         Racing!NormalParams, RP!NormalParams, Racing!OwnParam, RP!OwnParam,
         Racing!Allows, RP!Allows, Racing!MayFail, RP!MayFail, Racing!NoStep, RP!NoStep,
         Racing!Supports, RP!Supports, Racing!BuiltIn, RP!BuiltIn,
         Racing!ServiceRestartSafe, RP!ServiceRestartSafe, Racing!DependencyCheck,
         RP!DependencyCheck, Racing!BackupVerify, RP!BackupVerify,
         Racing!MaintenanceCloseout, RP!MaintenanceCloseout
<1>8. ASSUME NEW c, Racing!Replay(c) PROVE RP!Replay(c)
  BY <1>8, Zenon
     DEF Racing!Replay, RP!Replay, Racing!Idle, RP!Idle, Racing!Goto, RP!Goto,
         Racing!Begin, RP!Begin, Racing!Modes, RP!Modes, Racing!NormalParams,
         RP!NormalParams, Racing!OwnParam, RP!OwnParam, Racing!Allows, RP!Allows,
         Racing!MayFail, RP!MayFail, Racing!NoStep, RP!NoStep, Racing!Supports,
         RP!Supports, Racing!BuiltIn, RP!BuiltIn, Racing!ServiceRestartSafe,
         RP!ServiceRestartSafe, Racing!DependencyCheck, RP!DependencyCheck,
         Racing!BackupVerify, RP!BackupVerify, Racing!MaintenanceCloseout,
         RP!MaintenanceCloseout
<1>9. ASSUME NEW c, Racing!InsertRun(c) PROVE RP!InsertRun(c)
  BY <1>9, Zenon
     DEF Racing!InsertRun, RP!InsertRun, Racing!At, RP!At, Racing!Goto, RP!Goto,
         Racing!Idle, RP!Idle, Racing!Outcomes, RP!Outcomes, Racing!NoStep, RP!NoStep,
         Racing!LastStep, RP!LastStep, Racing!FirstFailure, RP!FirstFailure, Racing!Min,
         RP!Min, Racing!StepFails, RP!StepFails, Racing!BuiltIn, RP!BuiltIn,
         Racing!ServiceRestartSafe, RP!ServiceRestartSafe, Racing!DependencyCheck,
         RP!DependencyCheck, Racing!BackupVerify, RP!BackupVerify,
         Racing!MaintenanceCloseout, RP!MaintenanceCloseout
<1>10. ASSUME NEW c, Racing!CutOff(c) PROVE RP!CutOff(c)
  BY <1>10, Zenon
     DEF Racing!CutOff, RP!CutOff, Racing!Idle, RP!Idle, Racing!Goto, RP!Goto
<1> QED BY <1>1, <1>2, <1>3, <1>4, <1>5, <1>6, <1>7, <1>8, <1>9, <1>10
     DEF Racing!Next, RP!Next

LEMMA ReplayingStep ==
    ASSUME Replaying!Next
    PROVE  PP!Next
<1>1. ASSUME Replaying!UpdateAnalytics PROVE PP!UpdateAnalytics
  BY <1>1, Zenon
     DEF Replaying!UpdateAnalytics, PP!UpdateAnalytics
<1>2. ASSUME Replaying!CreatePreset PROVE PP!CreatePreset
  BY <1>2, Zenon
     DEF Replaying!CreatePreset, PP!CreatePreset, Replaying!Modes, PP!Modes,
         Replaying!NormalParams, PP!NormalParams, Replaying!OwnParam, PP!OwnParam,
         Replaying!Supports, PP!Supports, Replaying!BuiltIn, PP!BuiltIn,
         Replaying!ServiceRestartSafe, PP!ServiceRestartSafe, Replaying!DependencyCheck,
         PP!DependencyCheck, Replaying!BackupVerify, PP!BackupVerify,
         Replaying!MaintenanceCloseout, PP!MaintenanceCloseout
<1>3. ASSUME Replaying!UpdatePreset PROVE PP!UpdatePreset
  BY <1>3, Zenon
     DEF Replaying!UpdatePreset, PP!UpdatePreset, Replaying!Modes, PP!Modes,
         Replaying!NormalParams, PP!NormalParams, Replaying!OwnParam, PP!OwnParam,
         Replaying!Supports, PP!Supports, Replaying!BuiltIn, PP!BuiltIn,
         Replaying!ServiceRestartSafe, PP!ServiceRestartSafe, Replaying!DependencyCheck,
         PP!DependencyCheck, Replaying!BackupVerify, PP!BackupVerify,
         Replaying!MaintenanceCloseout, PP!MaintenanceCloseout
<1>4. ASSUME Replaying!DeletePreset PROVE PP!DeletePreset
  BY <1>4, Zenon
     DEF Replaying!DeletePreset, PP!DeletePreset
<1>5. ASSUME NEW c, Replaying!ReadPolicy(c) PROVE PP!ReadPolicy(c)
  BY <1>5, Zenon
     DEF Replaying!ReadPolicy, PP!ReadPolicy, Replaying!Idle, PP!Idle, Replaying!Goto,
         PP!Goto
<1>6. ASSUME NEW c, Replaying!WritePolicy(c) PROVE PP!WritePolicy(c)
  BY <1>6, Zenon
     DEF Replaying!WritePolicy, PP!WritePolicy, Replaying!At, PP!At, Replaying!Goto,
         PP!Goto, Replaying!Idle, PP!Idle, Replaying!PolicyInputs, PP!PolicyInputs,
         Replaying!Fields, PP!Fields, Replaying!IsPolicy, PP!IsPolicy,
         Replaying!Supports, PP!Supports, Replaying!BuiltIn, PP!BuiltIn,
         Replaying!ServiceRestartSafe, PP!ServiceRestartSafe, Replaying!DependencyCheck,
         PP!DependencyCheck, Replaying!BackupVerify, PP!BackupVerify,
         Replaying!MaintenanceCloseout, PP!MaintenanceCloseout
<1>7. ASSUME NEW c, Replaying!Execute(c) PROVE PP!Execute(c)
  BY <1>7, Zenon
     DEF Replaying!Execute, PP!Execute, Replaying!Idle, PP!Idle, Replaying!Goto,
         PP!Goto, Replaying!Begin, PP!Begin, Replaying!Modes, PP!Modes, Replaying!NoRun,
         PP!NoRun, Replaying!NormalParams, PP!NormalParams, Replaying!OwnParam,
         PP!OwnParam, Replaying!Allows, PP!Allows, Replaying!MayFail, PP!MayFail,
         Replaying!NoStep, PP!NoStep, Replaying!Supports, PP!Supports,
         Replaying!BuiltIn, PP!BuiltIn, Replaying!ServiceRestartSafe,
         PP!ServiceRestartSafe, Replaying!DependencyCheck, PP!DependencyCheck,
         Replaying!BackupVerify, PP!BackupVerify, Replaying!MaintenanceCloseout,
         PP!MaintenanceCloseout
<1>8. ASSUME NEW c, Replaying!Replay(c) PROVE PP!Replay(c)
  BY <1>8, Zenon
     DEF Replaying!Replay, PP!Replay, Replaying!Idle, PP!Idle, Replaying!Goto, PP!Goto,
         Replaying!Begin, PP!Begin, Replaying!Modes, PP!Modes, Replaying!NormalParams,
         PP!NormalParams, Replaying!OwnParam, PP!OwnParam, Replaying!Allows, PP!Allows,
         Replaying!MayFail, PP!MayFail, Replaying!NoStep, PP!NoStep, Replaying!Supports,
         PP!Supports, Replaying!BuiltIn, PP!BuiltIn, Replaying!ServiceRestartSafe,
         PP!ServiceRestartSafe, Replaying!DependencyCheck, PP!DependencyCheck,
         Replaying!BackupVerify, PP!BackupVerify, Replaying!MaintenanceCloseout,
         PP!MaintenanceCloseout
<1>9. ASSUME NEW c, Replaying!InsertRun(c) PROVE PP!InsertRun(c)
  BY <1>9, Zenon
     DEF Replaying!InsertRun, PP!InsertRun, Replaying!At, PP!At, Replaying!Goto,
         PP!Goto, Replaying!Idle, PP!Idle, Replaying!Outcomes, PP!Outcomes,
         Replaying!NoStep, PP!NoStep, Replaying!LastStep, PP!LastStep,
         Replaying!FirstFailure, PP!FirstFailure, Replaying!Min, PP!Min,
         Replaying!StepFails, PP!StepFails, Replaying!BuiltIn, PP!BuiltIn,
         Replaying!ServiceRestartSafe, PP!ServiceRestartSafe, Replaying!DependencyCheck,
         PP!DependencyCheck, Replaying!BackupVerify, PP!BackupVerify,
         Replaying!MaintenanceCloseout, PP!MaintenanceCloseout
<1>10. ASSUME NEW c, Replaying!CutOff(c) PROVE PP!CutOff(c)
  BY <1>10, Zenon
     DEF Replaying!CutOff, PP!CutOff, Replaying!Idle, PP!Idle, Replaying!Goto, PP!Goto
<1> QED BY <1>1, <1>2, <1>3, <1>4, <1>5, <1>6, <1>7, <1>8, <1>9, <1>10
     DEF Replaying!Next, PP!Next

LEMMA PresettingStep ==
    ASSUME Presetting!Next
    PROVE  TP!Next
<1>1. ASSUME Presetting!UpdateAnalytics PROVE TP!UpdateAnalytics
  BY <1>1, Zenon
     DEF Presetting!UpdateAnalytics, TP!UpdateAnalytics
<1>2. ASSUME Presetting!CreatePreset PROVE TP!CreatePreset
  BY <1>2, Zenon
     DEF Presetting!CreatePreset, TP!CreatePreset, Presetting!Modes, TP!Modes,
         Presetting!NormalParams, TP!NormalParams, Presetting!OwnParam, TP!OwnParam,
         Presetting!Supports, TP!Supports, Presetting!BuiltIn, TP!BuiltIn,
         Presetting!ServiceRestartSafe, TP!ServiceRestartSafe,
         Presetting!DependencyCheck, TP!DependencyCheck, Presetting!BackupVerify,
         TP!BackupVerify, Presetting!MaintenanceCloseout, TP!MaintenanceCloseout,
         Presetting!Cardinality, TP!Cardinality, Presetting!IsFiniteSet, TP!IsFiniteSet
<1>3. ASSUME Presetting!UpdatePreset PROVE TP!UpdatePreset
  BY <1>3, Zenon
     DEF Presetting!UpdatePreset, TP!UpdatePreset, Presetting!Modes, TP!Modes,
         Presetting!NormalParams, TP!NormalParams, Presetting!OwnParam, TP!OwnParam,
         Presetting!Supports, TP!Supports, Presetting!BuiltIn, TP!BuiltIn,
         Presetting!ServiceRestartSafe, TP!ServiceRestartSafe,
         Presetting!DependencyCheck, TP!DependencyCheck, Presetting!BackupVerify,
         TP!BackupVerify, Presetting!MaintenanceCloseout, TP!MaintenanceCloseout
<1>4. ASSUME Presetting!DeletePreset PROVE TP!DeletePreset
  BY <1>4, Zenon
     DEF Presetting!DeletePreset, TP!DeletePreset
<1>5. ASSUME NEW c, Presetting!ReadPolicy(c) PROVE TP!ReadPolicy(c)
  BY <1>5, Zenon
     DEF Presetting!ReadPolicy, TP!ReadPolicy, Presetting!Idle, TP!Idle,
         Presetting!Goto, TP!Goto
<1>6. ASSUME NEW c, Presetting!WritePolicy(c) PROVE TP!WritePolicy(c)
  BY <1>6, Zenon
     DEF Presetting!WritePolicy, TP!WritePolicy, Presetting!At, TP!At, Presetting!Goto,
         TP!Goto, Presetting!Idle, TP!Idle, Presetting!PolicyInputs, TP!PolicyInputs,
         Presetting!Fields, TP!Fields, Presetting!IsPolicy, TP!IsPolicy,
         Presetting!Supports, TP!Supports, Presetting!BuiltIn, TP!BuiltIn,
         Presetting!ServiceRestartSafe, TP!ServiceRestartSafe,
         Presetting!DependencyCheck, TP!DependencyCheck, Presetting!BackupVerify,
         TP!BackupVerify, Presetting!MaintenanceCloseout, TP!MaintenanceCloseout
<1>7. ASSUME NEW c, Presetting!Execute(c) PROVE TP!Execute(c)
  BY <1>7, Zenon
     DEF Presetting!Execute, TP!Execute, Presetting!Idle, TP!Idle, Presetting!Goto,
         TP!Goto, Presetting!Begin, TP!Begin, Presetting!Modes, TP!Modes,
         Presetting!NoRun, TP!NoRun, Presetting!NormalParams, TP!NormalParams,
         Presetting!OwnParam, TP!OwnParam, Presetting!Allows, TP!Allows,
         Presetting!MayFail, TP!MayFail, Presetting!NoStep, TP!NoStep,
         Presetting!Supports, TP!Supports, Presetting!BuiltIn, TP!BuiltIn,
         Presetting!ServiceRestartSafe, TP!ServiceRestartSafe,
         Presetting!DependencyCheck, TP!DependencyCheck, Presetting!BackupVerify,
         TP!BackupVerify, Presetting!MaintenanceCloseout, TP!MaintenanceCloseout
<1>8. ASSUME NEW c, Presetting!Replay(c) PROVE TP!Replay(c)
  BY <1>8, Zenon
     DEF Presetting!Replay, TP!Replay, Presetting!Idle, TP!Idle, Presetting!Goto,
         TP!Goto, Presetting!Begin, TP!Begin, Presetting!Modes, TP!Modes,
         Presetting!NormalParams, TP!NormalParams, Presetting!OwnParam, TP!OwnParam,
         Presetting!Allows, TP!Allows, Presetting!MayFail, TP!MayFail,
         Presetting!NoStep, TP!NoStep, Presetting!Supports, TP!Supports,
         Presetting!BuiltIn, TP!BuiltIn, Presetting!ServiceRestartSafe,
         TP!ServiceRestartSafe, Presetting!DependencyCheck, TP!DependencyCheck,
         Presetting!BackupVerify, TP!BackupVerify, Presetting!MaintenanceCloseout,
         TP!MaintenanceCloseout
<1>9. ASSUME NEW c, Presetting!InsertRun(c) PROVE TP!InsertRun(c)
  BY <1>9, Zenon
     DEF Presetting!InsertRun, TP!InsertRun, Presetting!At, TP!At, Presetting!Goto,
         TP!Goto, Presetting!Idle, TP!Idle, Presetting!Outcomes, TP!Outcomes,
         Presetting!NoStep, TP!NoStep, Presetting!LastStep, TP!LastStep,
         Presetting!FirstFailure, TP!FirstFailure, Presetting!Min, TP!Min,
         Presetting!StepFails, TP!StepFails, Presetting!BuiltIn, TP!BuiltIn,
         Presetting!ServiceRestartSafe, TP!ServiceRestartSafe,
         Presetting!DependencyCheck, TP!DependencyCheck, Presetting!BackupVerify,
         TP!BackupVerify, Presetting!MaintenanceCloseout, TP!MaintenanceCloseout
<1>10. ASSUME NEW c, Presetting!CutOff(c) PROVE TP!CutOff(c)
  BY <1>10, Zenon
     DEF Presetting!CutOff, TP!CutOff, Presetting!Idle, TP!Idle, Presetting!Goto,
         TP!Goto
<1> QED BY <1>1, <1>2, <1>3, <1>4, <1>5, <1>6, <1>7, <1>8, <1>9, <1>10
     DEF Presetting!Next, TP!Next

LEMMA ParametersHold == RP!ParametersOK /\ PP!ParametersOK /\ TP!ParametersOK
<1> USE DEF Good, Wrong
<1>1. RP!ParametersOK
  BY DEF RP!ParametersOK, RP!Given, RP!FailSteps, RP!NoStep, RP!LastStep, RP!BuiltIn
<1>2. PP!ParametersOK
  BY DEF PP!ParametersOK, PP!Given, PP!FailSteps, PP!NoStep, PP!LastStep, PP!BuiltIn
<1>3. TP!ParametersOK
  BY DEF TP!ParametersOK, TP!Given, TP!FailSteps, TP!NoStep, TP!LastStep, TP!BuiltIn
<1> QED BY <1>1, <1>2, <1>3

LEMMA RunbooksInitInv ==
    ASSUME AllInit
    PROVE  RunbooksInv
<1>1. focus = "racing" => RP!Init
  BY Zenon DEF AllInit, Racing!Init, RP!Init, Racing!Idle, RP!Idle
<1>2. focus = "replaying" => PP!Init
  BY Zenon DEF AllInit, Replaying!Init, PP!Init, Replaying!Idle, PP!Idle
<1>3. focus = "presetting" => TP!Init
  BY Zenon DEF AllInit, Presetting!Init, TP!Init, Presetting!Idle, TP!Idle
<1> QED BY <1>1, <1>2, <1>3, ParametersHold, RP!InitInv, PP!InitInv, TP!InitInv DEF RunbooksInv

LEMMA RunbooksNextInv ==
    ASSUME RunbooksInv, [AllNext]_<<focus, vars, runbookVars>>
    PROVE  RunbooksInv'
<1>1. focus' = focus
  BY DEF AllNext
<1>2. CASE UNCHANGED runbookVars
  <2>1. UNCHANGED RP!vars /\ UNCHANGED PP!vars /\ UNCHANGED TP!vars
    BY <1>2 DEF runbookVars, RP!vars, PP!vars, TP!vars
  <2> QED BY <1>1, <2>1, ParametersHold, RP!NextInv, PP!NextInv, TP!NextInv DEF RunbooksInv
<1>3. CASE focus = "racing" /\ Racing!Next
  BY <1>1, <1>3, RacingStep, ParametersHold, RP!NextInv DEF RunbooksInv
<1>4. CASE focus = "replaying" /\ Replaying!Next
  BY <1>1, <1>4, ReplayingStep, ParametersHold, PP!NextInv DEF RunbooksInv
<1>5. CASE focus = "presetting" /\ Presetting!Next
  BY <1>1, <1>5, PresettingStep, ParametersHold, TP!NextInv DEF RunbooksInv
<1> QED BY <1>2, <1>3, <1>4, <1>5 DEF AllNext

LEMMA RunbooksInductive == AllFairSpec => []RunbooksInv
<1>1. AllInit => RunbooksInv
  BY RunbooksInitInv
<1>2. RunbooksInv /\ [AllNext]_<<focus, vars, runbookVars>> => RunbooksInv'
  BY RunbooksNextInv
<1> QED BY <1>1, <1>2, PTL DEF AllFairSpec

\* Whatever requests race, the policy is one that an update may ask for, and a
\* simulated replay repeats its source (replay_runbook_template_execution).
THEOREM RunbooksInRun == AllFairSpec => []RunbooksRepeat
<1>1. RunbooksInv => RunbooksRepeat
  <2>1. RP!IInv => Racing!PolicyStaysCoherent /\ Racing!ReplayRepeats
    <3>1. RP!IInv => Racing!PolicyStaysCoherent
      BY Zenon
         DEF RP!IInv, Racing!PolicyStaysCoherent, RP!PolicyStaysCoherent, Racing!IsPolicy,
             RP!IsPolicy, Racing!Supports, RP!Supports, Racing!BuiltIn, RP!BuiltIn,
             Racing!ServiceRestartSafe, RP!ServiceRestartSafe, Racing!DependencyCheck,
             RP!DependencyCheck, Racing!BackupVerify, RP!BackupVerify,
             Racing!MaintenanceCloseout, RP!MaintenanceCloseout
    <3>2. RP!IInv => Racing!ReplayRepeats
      BY RP!RepeatsFromInv, Zenon
         DEF Racing!ReplayRepeats, RP!ReplayRepeats, Racing!NoStep, RP!NoStep,
             Racing!LastStep, RP!LastStep, Racing!NoRun, RP!NoRun
    <3> QED BY <3>1, <3>2
  <2>2. PP!IInv => Replaying!PolicyStaysCoherent /\ Replaying!ReplayRepeats
    <3>1. PP!IInv => Replaying!PolicyStaysCoherent
      BY Zenon
         DEF PP!IInv, Replaying!PolicyStaysCoherent, PP!PolicyStaysCoherent, Replaying!IsPolicy,
             PP!IsPolicy, Replaying!Supports, PP!Supports, Replaying!BuiltIn,
             PP!BuiltIn, Replaying!ServiceRestartSafe, PP!ServiceRestartSafe,
             Replaying!DependencyCheck, PP!DependencyCheck, Replaying!BackupVerify,
             PP!BackupVerify, Replaying!MaintenanceCloseout, PP!MaintenanceCloseout
    <3>2. PP!IInv => Replaying!ReplayRepeats
      BY PP!RepeatsFromInv, Zenon
         DEF Replaying!ReplayRepeats, PP!ReplayRepeats, Replaying!NoStep, PP!NoStep,
             Replaying!LastStep, PP!LastStep, Replaying!NoRun, PP!NoRun
    <3> QED BY <3>1, <3>2
  <2>3. TP!IInv => Presetting!PolicyStaysCoherent
    BY Zenon
       DEF TP!IInv, Presetting!PolicyStaysCoherent, TP!PolicyStaysCoherent, Presetting!IsPolicy,
           TP!IsPolicy, Presetting!Supports, TP!Supports, Presetting!BuiltIn,
           TP!BuiltIn, Presetting!ServiceRestartSafe, TP!ServiceRestartSafe,
           Presetting!DependencyCheck, TP!DependencyCheck, Presetting!BackupVerify,
           TP!BackupVerify, Presetting!MaintenanceCloseout, TP!MaintenanceCloseout
  <2> QED BY <2>1, <2>2, <2>3 DEF RunbooksInv, RunbooksRepeat
<1> QED BY <1>1, RunbooksInductive, PTL

\* The list of risk alerts, the aggregate of a ticket, the summary and the feed
\* of failures agree in every state of the run.
THEOREM AnalyticsInRun == AllFairSpec => []AnalyticsAgree
<1>1. RunbooksInv => AnalyticsAgree
  <2>1. RP!AnalyticsAgree => Racing!AnalyticsAgree
    BY Zenon
       DEF Racing!AnalyticsAgree, RP!AnalyticsAgree, Racing!Queries, RP!Queries,
           Racing!Modes, RP!Modes, Racing!Summary, RP!Summary, Racing!Counts, RP!Counts,
           Racing!Scanned, RP!Scanned, Racing!Rows, RP!Rows, Racing!Truncated,
           RP!Truncated, Racing!OfTemplate, RP!OfTemplate, Racing!Failed, RP!Failed,
           Racing!NoRun, RP!NoRun, Racing!FeedTotal, RP!FeedTotal, Racing!ListedAlert,
           RP!ListedAlert, Racing!Alert, RP!Alert, Racing!Aggregate, RP!Aggregate,
           Racing!Feed, RP!Feed, Racing!NoAlert, RP!NoAlert, Racing!Rate, RP!Rate,
           Racing!TopFailedStep, RP!TopFailedStep, Racing!FailedAt, RP!FailedAt,
           Racing!LastStep, RP!LastStep, Racing!NoStep, RP!NoStep, Racing!Min, RP!Min,
           Racing!Max, RP!Max, Racing!Cardinality, RP!Cardinality, Racing!IsFiniteSet,
           RP!IsFiniteSet
  <2>2. PP!AnalyticsAgree => Replaying!AnalyticsAgree
    BY Zenon
       DEF Replaying!AnalyticsAgree, PP!AnalyticsAgree, Replaying!Queries, PP!Queries,
           Replaying!Modes, PP!Modes, Replaying!Summary, PP!Summary, Replaying!Counts,
           PP!Counts, Replaying!Scanned, PP!Scanned, Replaying!Rows, PP!Rows,
           Replaying!Truncated, PP!Truncated, Replaying!OfTemplate, PP!OfTemplate,
           Replaying!Failed, PP!Failed, Replaying!NoRun, PP!NoRun, Replaying!FeedTotal,
           PP!FeedTotal, Replaying!ListedAlert, PP!ListedAlert, Replaying!Alert,
           PP!Alert, Replaying!Aggregate, PP!Aggregate, Replaying!Feed, PP!Feed,
           Replaying!NoAlert, PP!NoAlert, Replaying!Rate, PP!Rate,
           Replaying!TopFailedStep, PP!TopFailedStep, Replaying!FailedAt, PP!FailedAt,
           Replaying!LastStep, PP!LastStep, Replaying!NoStep, PP!NoStep, Replaying!Min,
           PP!Min, Replaying!Max, PP!Max, Replaying!Cardinality, PP!Cardinality,
           Replaying!IsFiniteSet, PP!IsFiniteSet
  <2> QED BY <2>1, <2>2, ParametersHold, RP!AnalyticsFromType, PP!AnalyticsFromType
          DEF RunbooksInv, AnalyticsAgree, RP!IInv, PP!IInv
<1> QED BY <1>1, RunbooksInductive, PTL
=============================================================================
