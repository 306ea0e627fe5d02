-------------------------- MODULE PlaybooksProofs ---------------------------
(***************************************************************************)
(* Proofs about Playbooks and ChangeCalendar for every set of calls,       *)
(* operators, approvals, dry runs and slots, and any number of executions: *)
(* an approval is spent once, by somebody other than who gave it, the      *)
(* change freeze is what was last asked for, and two reservations overlap  *)
(* only when the count of the later one could not see the earlier one.     *)
(***************************************************************************)
EXTENDS Playbooks, SequenceTheorems, TLAPS

\* A token lives for some ticks, and slots are intervals of ticks.
ParametersOK == TTL \in Nat /\ Slots \in SUBSET [start : Int, end : Int]
-----------------------------------------------------------------------------
(* Types *)

WindowSets == WindowInputs \cup {DefaultWindows}
Policy == [freeze : BOOLEAN, windows : WindowSets]
DryRunRow == [status : {"planned", "succeeded", "expired"}, by : Actors, expires : Int]
Approval == [status : {"pending", "approved", "rejected", "expired", "used"},
             dryRun : DryRunIds, by : Actors, approver : Actors, token : Nat, expires : Int]
RunRow == [by : Actors, approval : ApprovalIds]

PolicyCall == [pc : {"policy"}, seen : Policy, freeze : FreezeInputs, windows : WindowSets]
RequestCall == [pc : {"request"}, dryRun : DryRunIds, by : Actors,
                expired : SUBSET ApprovalIds, expires : Int]
DecideCall == [pc : {"approve", "reject"}, id : ApprovalIds, by : Actors, seen : Approval]
ExecuteCall == [pc : {"approval"}, by : Actors, dryRun : DryRunIds, id : ApprovalIds,
                token : Nat]
SpendCall == [pc : {"consume", "confirm", "confirmed", "insert"}, by : Actors,
              dryRun : DryRunIds, id : ApprovalIds, seen : Approval]
ReserveCall == [pc : {"evaluate", "reserve"}, start : Int, end : Int,
                site : Sites \cup {Everywhere}, risk : RiskLevels, saw : Nat]

Call == {Idle} \cup PolicyCall \cup RequestCall \cup DecideCall \cup ExecuteCall
          \cup SpendCall \cup ReserveCall

TypeOK ==
    /\ now \in Nat
    /\ policy \in Policy
    /\ asked \in BOOLEAN
    /\ approvals \in [ApprovalIds -> Approval \cup {NoRow}]
    /\ dryRuns \in [DryRunIds -> DryRunRow \cup {NoRow}]
    /\ runs \in Seq(RunRow)
    /\ reservations \in Seq(ReserveCall)
    /\ calls \in [Calls -> Call]
-----------------------------------------------------------------------------
(* The inductive invariant *)

\* A call that decides on an approval read it as pending, and one that is
\* about to consume it as approved by somebody else.
DecidesPending == \A c \in Calls : calls[c].pc \in {"approve", "reject"} =>
                                     calls[c].seen.status = "pending"
ConsumesApproved ==
    \A c \in Calls : calls[c].pc = "consume" =>
        calls[c].seen.status = "approved" /\ calls[c].seen.approver # calls[c].by

\* A row that was inserted stays.
RowsStay ==
    \A c \in Calls :
        /\ calls[c].pc \in {"approve", "reject", "approval", "consume"} =>
             approvals[calls[c].id] # NoRow
        /\ calls[c].pc = "confirmed" => dryRuns[calls[c].dryRun] # NoRow

\* The calls that have consumed approval a and not yet inserted their run.
Spending(a) == {c \in Calls : calls[c].pc \in {"confirm", "confirmed", "insert"}
                              /\ calls[c].id = a}

\* Unless two calls overlapped on its row, a consumed approval is in the hands
\* of one call or of one run, and of nobody's who gave it.
HeldOnce ==
    \A c \in Calls : \A a \in ApprovalIds \ stale : c \in Spending(a) =>
        /\ approvals[a].status = "used" /\ approvals[a].approver # calls[c].by
        /\ \A e \in Spending(a) : e = c
        /\ \A i \in DOMAIN runs : runs[i].approval # a

\* A reservation that is under way counted rows that are there, and overlaps
\* nothing of them.
CountedIsFree ==
    \A c \in Calls : calls[c].pc \in {"evaluate", "reserve"} =>
        /\ calls[c].saw <= Len(reservations)
        /\ \A i \in DOMAIN reservations :
             /\ i <= calls[c].saw
             /\ reservations[i].site = calls[c].site
             => ~(reservations[i].start < calls[c].end /\ calls[c].start < reservations[i].end)

SpendInv == DecidesPending /\ ConsumesApproved /\ RowsStay /\ HeldOnce /\ ApprovalSpentOnce
SlotInv == CountedIsFree /\ NoUnseenOverlap
IInv == TypeOK /\ SpendInv /\ FreezeIsKept /\ SlotInv
-----------------------------------------------------------------------------
(* Types *)

\* What a call holds at each place.
LEMMA CallAt ==
    ASSUME TypeOK, NEW c \in Calls
    PROVE  /\ calls[c].pc = "policy" => calls[c] \in PolicyCall
           /\ calls[c].pc = "request" => calls[c] \in RequestCall
           /\ calls[c].pc \in {"approve", "reject"} => calls[c] \in DecideCall
           /\ calls[c].pc = "approval" => calls[c] \in ExecuteCall
           /\ calls[c].pc \in {"consume", "confirm", "confirmed", "insert"} => calls[c] \in SpendCall
           /\ calls[c].pc \in {"evaluate", "reserve"} => calls[c] \in ReserveCall
<1>1. calls[c] \in Call
  BY DEF TypeOK
<1> QED
  BY <1>1 DEF Call, Idle, PolicyCall, RequestCall, DecideCall, ExecuteCall, SpendCall, ReserveCall

\* A step that takes call c to state x.
LEMMA GotoEffect ==
    ASSUME TypeOK, NEW c \in Calls, NEW x, Goto(c, x)
    PROVE  calls'[c] = x /\ \A e \in Calls \ {c} : calls'[e] = calls[e]
  BY DEF TypeOK, Goto

LEMMA GotoType ==
    ASSUME TypeOK, NEW c \in Calls, NEW x \in Call, Goto(c, x)
    PROVE  calls' \in [Calls -> Call]
  BY DEF TypeOK, Goto

LEMMA ReturnType ==
    ASSUME TypeOK, NEW c \in Calls, Return(c)
    PROVE  calls' \in [Calls -> Call] /\ calls'[c] = Idle
           /\ \A e \in Calls \ {c} : calls'[e] = calls[e]
<1>1. Idle \in Call
  BY DEF Call
<1> QED BY <1>1, GotoType, GotoEffect DEF Return

\* The two updates of an approval by id.
LEMMA OverwriteType ==
    ASSUME TypeOK, NEW c, NEW a \in ApprovalIds, NEW row \in Approval \cup {NoRow}, Overwrite(c, a, row)
    PROVE  approvals' \in [ApprovalIds -> Approval \cup {NoRow}]
  BY DEF TypeOK, Overwrite

LEMMA RowUpdates ==
    ASSUME TypeOK, NEW a \in ApprovalIds, approvals[a] # NoRow
    PROVE  /\ approvals[a] \in Approval
           /\ \A status \in {"pending", "approved", "rejected", "expired", "used"} :
                /\ [approvals[a] EXCEPT !.status = status] \in Approval
                /\ [approvals[a] EXCEPT !.status = status].status = status
                /\ [approvals[a] EXCEPT !.status = status].approver = approvals[a].approver
  BY DEF TypeOK, Approval

LEMMA PolicyTypes ==
    ASSUME TypeOK, NEW c \in Calls, UpdatePolicyRead(c) \/ UpdatePolicyWrite(c)
    PROVE  TypeOK'
<1>1. CASE UpdatePolicyRead(c)
  <2>1. PICK freeze \in FreezeInputs, windows \in WindowInputs :
          Goto(c, [pc |-> "policy", seen |-> policy, freeze |-> freeze,
                   windows |-> IF windows = {} THEN policy.windows ELSE windows])
    BY <1>1 DEF UpdatePolicyRead
  <2>2. policy \in Policy /\ policy.windows \in WindowSets
    BY DEF TypeOK, Policy
  <2>3. (IF windows = {} THEN policy.windows ELSE windows) \in WindowSets
    BY <2>2 DEF WindowSets
  <2>4. [pc |-> "policy", seen |-> policy, freeze |-> freeze,
         windows |-> IF windows = {} THEN policy.windows ELSE windows] \in PolicyCall
    BY <2>2, <2>3 DEF PolicyCall
  <2>5. calls' \in [Calls -> Call]
    BY <2>1, <2>4, GotoType DEF Call
  <2> QED BY <1>1, <2>5 DEF UpdatePolicyRead, bookVars, TypeOK
<1>2. CASE UpdatePolicyWrite(c)
  <2>1. calls' \in [Calls -> Call]
    BY <1>2, ReturnType DEF UpdatePolicyWrite
  <2>2. calls[c] \in PolicyCall
    BY <1>2, CallAt DEF UpdatePolicyWrite, At
  <2>3. calls[c].seen.freeze \in BOOLEAN /\ calls[c].windows \in WindowSets
    BY <2>2 DEF PolicyCall, Policy
  <2> DEFINE given == TRUE \in calls[c].freeze
             freeze == IF calls[c].freeze = {} THEN calls[c].seen.freeze ELSE given
             last == IF calls[c].freeze = {} THEN asked ELSE given
  <2>4. given \in BOOLEAN /\ asked \in BOOLEAN
    <3>1. given \in BOOLEAN
      OBVIOUS
    <3> QED BY <3>1 DEF TypeOK
  <2>5. freeze \in BOOLEAN /\ last \in BOOLEAN
    <3> HIDE DEF given
    <3> QED BY <2>3, <2>4, Zenon
  <2>6. policy' = [freeze |-> freeze, windows |-> calls[c].windows] /\ asked' = last
    BY <1>2 DEF UpdatePolicyWrite
  <2>7. policy' \in Policy /\ asked' \in BOOLEAN
    <3> HIDE DEF freeze, last
    <3> QED BY <2>3, <2>5, <2>6 DEF Policy
  <2> QED BY <1>2, <2>1, <2>7 DEF UpdatePolicyWrite, TypeOK
<1> QED BY <1>1, <1>2

\* The lesser of two integers is an integer.
LEMMA Lesser ==
    ASSUME NEW m \in Int, NEW n \in Int
    PROVE  Min({m, n}) \in Int
<1>1. CASE m <= n
  BY <1>1 DEF Min
<1>2. CASE n <= m
  BY <1>2 DEF Min
<1> QED BY <1>1, <1>2

LEMMA RequestTypes ==
    ASSUME ParametersOK, TypeOK, NEW c \in Calls, RequestApproval(c) \/ InsertApproval(c)
    PROVE  TypeOK'
<1>1. CASE RequestApproval(c)
  <2>1. PICK d \in DryRunIds :
          /\ dryRuns[d].status \in {"planned", "succeeded"}
          /\ Goto(c, [pc |-> "request", dryRun |-> d, by |-> dryRuns[d].by,
                      expired |-> ActiveApproval(d),
                      expires |-> Min({dryRuns[d].expires, now + TTL})])
    BY <1>1 DEF RequestApproval
  <2>2. dryRuns[d] \in DryRunRow
    BY <2>1 DEF TypeOK, NoRow
  <2>3. dryRuns[d].by \in Actors /\ dryRuns[d].expires \in Int /\ now + TTL \in Int
    BY <2>2 DEF DryRunRow, ParametersOK, TypeOK
  <2>4. Min({dryRuns[d].expires, now + TTL}) \in Int
    BY <2>3, Lesser
  <2>5. ActiveApproval(d) \in SUBSET ApprovalIds
    BY DEF ActiveApproval
  <2>6. [pc |-> "request", dryRun |-> d, by |-> dryRuns[d].by, expired |-> ActiveApproval(d),
         expires |-> Min({dryRuns[d].expires, now + TTL})] \in RequestCall
    BY <2>3, <2>4, <2>5 DEF RequestCall
  <2>7. calls' \in [Calls -> Call]
    BY <2>1, <2>6, GotoType DEF Call
  <2> QED BY <1>1, <2>7 DEF RequestApproval, bookVars, TypeOK
<1>2. CASE InsertApproval(c)
  <2>1. calls' \in [Calls -> Call]
    BY <1>2, ReturnType DEF InsertApproval
  <2>2. calls[c] \in RequestCall
    BY <1>2, CallAt DEF InsertApproval, At
  <2> DEFINE new == [status |-> "pending", dryRun |-> calls[c].dryRun,
                     by |-> calls[c].by, approver |-> calls[c].by, token |-> 0,
                     expires |-> calls[c].expires]
             marked == [a \in ApprovalIds |->
                          IF a \in calls[c].expired /\ approvals[a].status \in Active
                            THEN [approvals[a] EXCEPT !.status = "expired"] ELSE approvals[a]]
  <2>3. new \in Approval
    BY <2>2 DEF RequestCall, Approval
  <2>4. marked \in [ApprovalIds -> Approval \cup {NoRow}]
    <3>1. ASSUME NEW a \in ApprovalIds, approvals[a].status \in Active
          PROVE  [approvals[a] EXCEPT !.status = "expired"] \in Approval
      <4>1. approvals[a] # NoRow
        BY <3>1 DEF Active, NoRow
      <4> QED BY <4>1, RowUpdates
    <3> QED BY <3>1 DEF TypeOK
  <2>5. approvals' \in [ApprovalIds -> Approval \cup {NoRow}]
    <3>1. \E a \in ApprovalIds : approvals' \in {marked, [marked EXCEPT ![a] = new]}
      BY <1>2 DEF InsertApproval
    <3> HIDE DEF new, marked
    <3> QED BY <2>3, <2>4, <3>1
  <2> QED BY <1>2, <2>1, <2>5 DEF InsertApproval, TypeOK
<1> QED BY <1>1, <1>2

LEMMA ApprovedRow ==
    ASSUME NEW x \in Approval, NEW by \in Actors
    PROVE  [x EXCEPT !.status = "approved", !.approver = by, !.token = x.token + 1] \in Approval
<1>1. x.token + 1 \in Nat
  BY DEF Approval
<1>2. \A n \in Nat : [x EXCEPT !.status = "approved", !.approver = by, !.token = n] \in Approval
  BY DEF Approval
<1> QED BY <1>1, <1>2

\* Approving and rejecting: read, and written by id alone.
LEMMA DecisionTypes ==
    ASSUME TypeOK, RowsStay, NEW c \in Calls,
           ReadToApprove(c) \/ Approve(c) \/ ReadToReject(c) \/ Reject(c)
    PROVE  TypeOK'
<1>1. ASSUME NEW a \in ApprovalIds, NEW by \in Actors, NEW pc \in {"approve", "reject"},
             approvals[a].status = "pending",
             Goto(c, [pc |-> pc, id |-> a, by |-> by, seen |-> approvals[a]]),
             UNCHANGED <<now, policy, workflowPending, reservations, bookVars>>
      PROVE  TypeOK'
  <2>1. approvals[a] \in Approval
    BY <1>1 DEF TypeOK, NoRow
  <2>2. [pc |-> pc, id |-> a, by |-> by, seen |-> approvals[a]] \in DecideCall
    BY <2>1 DEF DecideCall
  <2>3. calls' \in [Calls -> Call]
    BY <1>1, <2>2, GotoType DEF Call
  <2> QED BY <1>1, <2>3 DEF bookVars, TypeOK
<1>2. CASE ReadToApprove(c)
  BY <1>1, <1>2 DEF ReadToApprove
<1>3. CASE ReadToReject(c)
  BY <1>1, <1>3 DEF ReadToReject
<1>4. ASSUME At(c, "approve") \/ At(c, "reject"), NEW row \in Approval,
             Overwrite(c, calls[c].id, row) \/ UNCHANGED <<approvals, stale>>, Return(c),
             UNCHANGED <<now, policy, workflowPending, reservations, dryRuns, runs, asked>>
      PROVE  TypeOK'
  <2>1. calls[c].id \in ApprovalIds
    BY <1>4, CallAt DEF At, DecideCall
  <2>2. approvals' \in [ApprovalIds -> Approval \cup {NoRow}]
    BY <1>4, <2>1, OverwriteType DEF TypeOK
  <2>3. calls' \in [Calls -> Call]
    BY <1>4, ReturnType
  <2> QED BY <1>4, <2>2, <2>3 DEF TypeOK
<1>5. CASE Approve(c)
  <2> DEFINE row == [approvals[calls[c].id] EXCEPT !.status = "approved", !.approver = calls[c].by,
                                                   !.token = approvals[calls[c].id].token + 1]
  <2>1. calls[c].id \in ApprovalIds /\ calls[c].by \in Actors
    BY <1>5, CallAt DEF Approve, At, DecideCall
  <2>2. approvals[calls[c].id] \in Approval
    BY <1>5, <2>1 DEF Approve, At, RowsStay, TypeOK
  <2>3. row \in Approval
    BY <2>1, <2>2, ApprovedRow
  <2>4. Overwrite(c, calls[c].id, row) \/ UNCHANGED <<approvals, stale>>
    BY <1>5 DEF Approve
  <2> HIDE DEF row
  <2> QED BY <1>4, <1>5, <2>3, <2>4 DEF Approve
<1>6. CASE Reject(c)
  <2> DEFINE row == [approvals[calls[c].id] EXCEPT !.status = "rejected", !.approver = calls[c].by]
  <2>1. calls[c].id \in ApprovalIds /\ calls[c].by \in Actors
    BY <1>6, CallAt DEF Reject, At, DecideCall
  <2>2. approvals[calls[c].id] \in Approval
    BY <1>6, <2>1 DEF Reject, At, RowsStay, TypeOK
  <2>3. row \in Approval
    BY <2>1, <2>2 DEF Approval
  <2>4. Overwrite(c, calls[c].id, row)
    BY <1>6 DEF Reject
  <2> HIDE DEF row
  <2> QED BY <1>4, <1>6, <2>3, <2>4 DEF Reject
<1> QED BY <1>2, <1>3, <1>5, <1>6

LEMMA ExecutionTypes ==
    ASSUME TypeOK, RowsStay, NEW c \in Calls,
           Execute(c) \/ VerifyApproval(c) \/ ConsumeApproval(c) \/ InsertRun(c)
    PROVE  TypeOK'
<1>1. CASE Execute(c)
  <2>1. PICK by \in Actors, d \in DryRunIds, a \in ApprovalIds :
          /\ approvals[a].status # "none"
          /\ Goto(c, [pc |-> "approval", by |-> by, dryRun |-> d, id |-> a,
                      token |-> approvals[a].token])
    BY <1>1 DEF Execute
  <2>2. approvals[a] \in Approval
    BY <2>1 DEF TypeOK, NoRow
  <2>3. [pc |-> "approval", by |-> by, dryRun |-> d, id |-> a, token |-> approvals[a].token]
          \in ExecuteCall
    BY <2>2 DEF ExecuteCall, Approval
  <2>4. calls' \in [Calls -> Call]
    BY <2>1, <2>3, GotoType DEF Call
  <2> QED BY <1>1, <2>4 DEF Execute, bookVars, TypeOK
<1>2. CASE VerifyApproval(c)
  <2>1. calls[c] \in ExecuteCall
    BY <1>2, CallAt DEF VerifyApproval, At
  <2>2. approvals[calls[c].id] \in Approval /\ calls[c].id \in ApprovalIds
    BY <1>2, <2>1 DEF VerifyApproval, At, RowsStay, TypeOK, ExecuteCall
  <2> DEFINE next == [pc |-> "consume", by |-> calls[c].by, dryRun |-> calls[c].dryRun,
                      id |-> calls[c].id, seen |-> approvals[calls[c].id]]
             expired == [approvals[calls[c].id] EXCEPT !.status = "expired"]
  <2>3. next \in SpendCall /\ expired \in Approval
    BY <2>1, <2>2 DEF ExecuteCall, SpendCall, Approval
  <2>4. /\ Goto(c, next) \/ Return(c)
        /\ approvals' \in {approvals, [approvals EXCEPT ![calls[c].id] = expired]}
    BY <1>2 DEF VerifyApproval
  <2> HIDE DEF next, expired
  <2>5. calls' \in [Calls -> Call]
    BY <2>3, <2>4, GotoType, ReturnType DEF Call
  <2>6. approvals' \in [ApprovalIds -> Approval \cup {NoRow}]
    BY <2>3, <2>4 DEF TypeOK
  <2> QED BY <1>2, <2>5, <2>6 DEF VerifyApproval, TypeOK
<1>3. CASE ConsumeApproval(c)
  <2>1. calls[c] \in SpendCall
    BY <1>3, CallAt DEF ConsumeApproval, At
  <2>2. approvals[calls[c].id] # NoRow /\ calls[c].id \in ApprovalIds
    BY <1>3, <2>1 DEF ConsumeApproval, At, RowsStay, SpendCall
  <2> DEFINE row == [approvals[calls[c].id] EXCEPT !.status = "used"]
             next == [calls[c] EXCEPT !.pc = "confirm"]
  <2>3. row \in Approval /\ next \in SpendCall
    BY <2>1, <2>2, RowUpdates DEF SpendCall
  <2>4. Overwrite(c, calls[c].id, row) /\ Goto(c, next)
    BY <1>3 DEF ConsumeApproval
  <2> HIDE DEF row, next
  <2>5. calls' \in [Calls -> Call]
    BY <2>3, <2>4, GotoType DEF Call
  <2>6. approvals' \in [ApprovalIds -> Approval \cup {NoRow}]
    BY <2>2, <2>3, <2>4, OverwriteType
  <2> QED BY <1>3, <2>5, <2>6 DEF ConsumeApproval, TypeOK
<1>4. CASE InsertRun(c)
  <2>1. calls[c] \in SpendCall
    BY <1>4, CallAt DEF InsertRun, At
  <2> DEFINE new == [by |-> calls[c].by, approval |-> calls[c].id]
  <2>2. new \in RunRow
    BY <2>1 DEF SpendCall, RunRow
  <2>3. runs' = Append(runs, new) /\ runs \in Seq(RunRow)
    BY <1>4 DEF InsertRun, TypeOK
  <2>4. runs' \in Seq(RunRow)
    <3> HIDE DEF new
    <3> QED BY <2>2, <2>3, AppendProperties
  <2>5. calls' \in [Calls -> Call]
    BY <1>4, ReturnType DEF InsertRun
  <2> QED BY <1>4, <2>4, <2>5 DEF InsertRun, TypeOK
<1> QED BY <1>1, <1>2, <1>3, <1>4

\* The dry run behind an execution.
LEMMA ConfirmationTypes ==
    ASSUME TypeOK, RowsStay, NEW c \in Calls, VerifyConfirmation(c) \/ ConfirmDryRun(c)
    PROVE  TypeOK'
<1>1. calls[c] \in SpendCall
  BY CallAt DEF VerifyConfirmation, ConfirmDryRun, At
<1>2. calls[c].dryRun \in DryRunIds /\ dryRuns[calls[c].dryRun] \in DryRunRow \cup {NoRow}
  BY <1>1 DEF SpendCall, TypeOK
<1>3. \A pc \in {"confirmed", "insert"} : [calls[c] EXCEPT !.pc = pc] \in Call
  <2>1. \A pc \in {"confirmed", "insert"} : [calls[c] EXCEPT !.pc = pc] \in SpendCall
    BY <1>1 DEF SpendCall
  <2> QED BY <2>1 DEF Call
<1>4. CASE VerifyConfirmation(c)
  <2> DEFINE d == dryRuns[calls[c].dryRun]
             row == [d EXCEPT !.status = "expired"]
  <2>1. Verdict(d, calls[c].by) = "expired" => d.status \in {"planned", "succeeded"}
    BY DEF Verdict
  <2>2. Verdict(d, calls[c].by) = "expired" => row \in DryRunRow
    BY <1>2, <2>1 DEF DryRunRow, NoRow
  <2>3. dryRuns' = dryRuns \/ (Verdict(d, calls[c].by) = "expired"
                               /\ dryRuns' = [dryRuns EXCEPT ![calls[c].dryRun] = row])
    BY <1>4 DEF VerifyConfirmation
  <2>4. Goto(c, [calls[c] EXCEPT !.pc = "confirmed"]) \/ Return(c)
    BY <1>4 DEF VerifyConfirmation
  <2> HIDE DEF d, row
  <2>5. dryRuns' \in [DryRunIds -> DryRunRow \cup {NoRow}]
    BY <2>2, <2>3 DEF TypeOK
  <2>6. calls' \in [Calls -> Call]
    BY <1>3, <2>4, GotoType, ReturnType
  <2> QED BY <1>4, <2>5, <2>6 DEF VerifyConfirmation, TypeOK
<1>5. CASE ConfirmDryRun(c)
  <2> DEFINE row == [dryRuns[calls[c].dryRun] EXCEPT !.status = "succeeded"]
  <2>1. row \in DryRunRow
    BY <1>2, <1>5 DEF ConfirmDryRun, At, RowsStay, DryRunRow
  <2>2. dryRuns' = [dryRuns EXCEPT ![calls[c].dryRun] = row]
    BY <1>5 DEF ConfirmDryRun
  <2> HIDE DEF row
  <2>3. dryRuns' \in [DryRunIds -> DryRunRow \cup {NoRow}]
    BY <2>1, <2>2 DEF TypeOK
  <2>4. calls' \in [Calls -> Call]
    BY <1>3, <1>5, GotoType DEF ConfirmDryRun
  <2> QED BY <1>5, <2>3, <2>4 DEF ConfirmDryRun, TypeOK
<1> QED BY <1>4, <1>5

LEMMA ReservationTypes ==
    ASSUME ParametersOK, TypeOK, NEW c \in Calls, ReservationStep(c)
    PROVE  TypeOK'
<1>1. CASE CountOverlaps(c)
  <2>1. PICK slot \in Slots, site \in Sites \cup {Everywhere}, risk \in RiskLevels,
             counted \in Counted :
          Goto(c, [pc |-> "evaluate", start |-> slot.start, end |-> slot.end,
                   site |-> site, risk |-> risk,
                   saw |-> IF counted THEN Len(reservations) ELSE 0])
    BY <1>1 DEF CountOverlaps
  <2>2. slot.start \in Int /\ slot.end \in Int /\ Len(reservations) \in Nat
    BY LenProperties DEF ParametersOK, TypeOK
  <2>3. [pc |-> "evaluate", start |-> slot.start, end |-> slot.end, site |-> site, risk |-> risk,
         saw |-> IF counted THEN Len(reservations) ELSE 0] \in ReserveCall
    BY <2>2 DEF ReserveCall
  <2>4. calls' \in [Calls -> Call]
    BY <2>1, <2>3, GotoType DEF Call
  <2> QED BY <1>1, <2>4 DEF CountOverlaps, ReservationStep, TypeOK
<1>2. CASE EvaluateConflicts(c)
  <2>1. calls[c] \in ReserveCall
    BY <1>2, CallAt DEF EvaluateConflicts, At
  <2>2. [calls[c] EXCEPT !.pc = "reserve"] \in Call
    <3>1. [calls[c] EXCEPT !.pc = "reserve"] \in ReserveCall
      BY <2>1 DEF ReserveCall
    <3> QED BY <3>1 DEF Call
  <2>3. calls' \in [Calls -> Call]
    BY <1>2, <2>2, GotoType, ReturnType DEF EvaluateConflicts
  <2> QED BY <1>2, <2>3 DEF EvaluateConflicts, ReservationStep, TypeOK
<1>3. CASE InsertReservation(c)
  <2>1. calls[c] \in ReserveCall /\ reservations \in Seq(ReserveCall)
    BY <1>3, CallAt DEF InsertReservation, At, TypeOK
  <2>2. reservations' \in Seq(ReserveCall)
    BY <1>3, <2>1, AppendProperties DEF InsertReservation
  <2>3. calls' \in [Calls -> Call]
    BY <1>3, ReturnType DEF InsertReservation
  <2> QED BY <1>3, <2>2, <2>3 DEF InsertReservation, ReservationStep, TypeOK
<1> QED BY <1>1, <1>2, <1>3 DEF ReservationStep, CalendarStep

\* A step without a call.
OtherStep ==
    \/ ClockTicks \/ WorkflowBacklogChanges \/ ExpireApproval
    \/ \E by \in Actors : DryRun(by)

LEMMA OtherTypes ==
    ASSUME ParametersOK, TypeOK, OtherStep
    PROVE  TypeOK'
<1>1. CASE ClockTicks \/ WorkflowBacklogChanges
  BY <1>1 DEF ClockTicks, WorkflowBacklogChanges, bookVars, TypeOK
<1>2. CASE ExpireApproval
  <2>1. PICK a \in ApprovalIds :
          /\ approvals[a].status \in Active
          /\ approvals' = [approvals EXCEPT ![a] = [approvals[a] EXCEPT !.status = "expired"]]
    BY <1>2 DEF ExpireApproval
  <2>2. approvals[a] # NoRow
    BY <2>1 DEF Active, NoRow
  <2>3. [approvals[a] EXCEPT !.status = "expired"] \in Approval
    BY <2>2, RowUpdates
  <2>4. approvals' \in [ApprovalIds -> Approval \cup {NoRow}]
    BY <2>1, <2>3 DEF TypeOK
  <2> QED BY <1>2, <2>4 DEF ExpireApproval, TypeOK
<1>3. ASSUME NEW by \in Actors, DryRun(by) PROVE TypeOK'
  <2>1. PICK d \in DryRunIds :
          dryRuns' = [dryRuns EXCEPT ![d] =
                        [status |-> "planned", by |-> by, expires |-> now + TTL]]
    BY <1>3 DEF DryRun
  <2>2. [status |-> "planned", by |-> by, expires |-> now + TTL] \in DryRunRow
    BY DEF ParametersOK, TypeOK, DryRunRow
  <2>3. dryRuns' \in [DryRunIds -> DryRunRow \cup {NoRow}]
    BY <2>1, <2>2 DEF TypeOK
  <2> QED BY <1>3, <2>3 DEF DryRun, TypeOK
<1> QED BY <1>1, <1>2, <1>3 DEF OtherStep
-----------------------------------------------------------------------------
(* What an approval pays for *)

SpendPlaces == {"confirm", "confirmed", "insert"}
RowPlaces == {"approve", "reject", "approval", "consume"}

LEMMA RunsTyped ==
    ASSUME TypeOK
    PROVE  /\ Len(runs) \in Nat /\ DOMAIN runs = 1..Len(runs)
           /\ \A i \in DOMAIN runs : runs[i] \in RunRow /\ runs[i].approval \in ApprovalIds
<1>1. runs \in Seq(RunRow)
  BY DEF TypeOK
<1>2. \A i \in 1..Len(runs) : runs[i] \in RunRow
  BY <1>1, ElementOfSeq
<1> QED BY <1>1, <1>2, LenProperties DEF RunRow

\* A step that inserts no run and gives nobody an approval keeps the invariant
\* when rows stay, used ones as they are unless they become stale.
LEMMA SpendKept ==
    ASSUME TypeOK, SpendInv, stale \subseteq stale', UNCHANGED runs,
           \A a \in ApprovalIds : approvals[a] # NoRow => approvals'[a] # NoRow,
           \A a \in ApprovalIds : a \notin stale' /\ approvals[a].status = "used"
                                    => approvals'[a] = approvals[a],
           \A d \in DryRunIds : dryRuns[d] # NoRow => dryRuns'[d] # NoRow,
           \A e \in Calls : calls'[e] # calls[e] =>
             /\ calls'[e].pc \in {"approve", "reject"} => calls'[e].seen.status = "pending"
             /\ calls'[e].pc = "consume" => /\ calls'[e].seen.status = "approved"
                                            /\ calls'[e].seen.approver # calls'[e].by
             /\ calls'[e].pc \in RowPlaces => approvals'[calls'[e].id] # NoRow
             /\ calls'[e].pc = "confirmed" => dryRuns'[calls'[e].dryRun] # NoRow
             /\ calls'[e].pc \in SpendPlaces => /\ calls[e].pc \in SpendPlaces
                                                /\ calls'[e].id = calls[e].id
                                                /\ calls'[e].by = calls[e].by
    PROVE  SpendInv'
<1>1. DecidesPending' /\ ConsumesApproved'
  BY DEF SpendInv, DecidesPending, ConsumesApproved
<1>2. RowsStay'
  <2> SUFFICES ASSUME NEW e \in Calls
               PROVE  /\ calls'[e].pc \in RowPlaces => approvals'[calls'[e].id] # NoRow
                      /\ calls'[e].pc = "confirmed" => dryRuns'[calls'[e].dryRun] # NoRow
    BY DEF RowsStay, RowPlaces
  <2>1. CASE calls'[e] = calls[e]
    <3>1. calls[e].pc \in RowPlaces => calls[e].id \in ApprovalIds
      BY CallAt DEF RowPlaces, DecideCall, ExecuteCall, SpendCall
    <3>2. calls[e].pc = "confirmed" => calls[e].dryRun \in DryRunIds
      BY CallAt DEF SpendCall
    <3> QED BY <2>1, <3>1, <3>2 DEF SpendInv, RowsStay, RowPlaces
  <2> QED BY <2>1
<1>3. ASSUME NEW e \in Calls, NEW a \in ApprovalIds, e \in Spending(a)'
      PROVE  e \in Spending(a) /\ calls'[e].by = calls[e].by
  BY <1>3 DEF Spending, SpendPlaces
<1>4. HeldOnce'
  <2> SUFFICES ASSUME NEW e \in Calls, NEW a \in ApprovalIds, a \notin stale', e \in Spending(a)'
               PROVE  /\ approvals'[a].status = "used" /\ approvals'[a].approver # calls'[e].by
                      /\ \A f \in Spending(a)' : f = e
                      /\ \A i \in DOMAIN runs' : runs'[i].approval # a
    BY DEF HeldOnce
  <2>1. e \in Spending(a) /\ calls'[e].by = calls[e].by /\ a \notin stale
    BY <1>3
  <2>2. /\ approvals[a].status = "used" /\ approvals[a].approver # calls[e].by
        /\ \A f \in Spending(a) : f = e
        /\ \A i \in DOMAIN runs : runs[i].approval # a
    BY <2>1 DEF SpendInv, HeldOnce
  <2>3. approvals'[a] = approvals[a]
    BY <2>2
  <2>4. \A f \in Spending(a)' : f \in Spending(a)
    BY <1>3 DEF Spending
  <2> QED BY <2>1, <2>2, <2>3, <2>4
<1>5. ApprovalSpentOnce'
  BY RunsTyped DEF SpendInv, ApprovalSpentOnce
<1> QED BY <1>1, <1>2, <1>4, <1>5 DEF SpendInv

\* A consumed approval was in nobody's hands if it was read as it still is.
LEMMA ConsumeSpend ==
    ASSUME TypeOK, SpendInv, NEW c \in Calls, ConsumeApproval(c)
    PROVE  SpendInv'
<1> SUFFICES ASSUME NEW a, a = calls[c].id PROVE SpendInv'
  OBVIOUS
<1>1. calls[c] \in SpendCall /\ calls[c].pc = "consume" /\ a \in ApprovalIds
  BY CallAt DEF ConsumeApproval, At, SpendCall
<1>2. approvals[a] # NoRow /\ calls[c].seen.status = "approved"
      /\ calls[c].seen.approver # calls[c].by
  BY <1>1 DEF SpendInv, RowsStay, ConsumesApproved
<1>3. /\ approvals'[a].status = "used" /\ approvals'[a].approver = approvals[a].approver
      /\ \A b \in ApprovalIds \ {a} : approvals'[b] = approvals[b]
  <2> DEFINE row == [approvals[a] EXCEPT !.status = "used"]
  <2>1. row.status = "used" /\ row.approver = approvals[a].approver
    BY <1>1, <1>2, RowUpdates
  <2>2. approvals' = [approvals EXCEPT ![a] = row]
    BY DEF ConsumeApproval, Overwrite
  <2> HIDE DEF row
  <2> QED BY <1>1, <2>1, <2>2 DEF TypeOK
<1>4. /\ calls'[c].pc = "confirm" /\ calls'[c].id = a /\ calls'[c].by = calls[c].by
      /\ \A e \in Calls \ {c} : calls'[e] = calls[e]
  <2> DEFINE next == [calls[c] EXCEPT !.pc = "confirm"]
  <2>1. next.pc = "confirm" /\ next.id = a /\ next.by = calls[c].by
    BY <1>1 DEF SpendCall
  <2>2. Goto(c, next)
    BY DEF ConsumeApproval
  <2> HIDE DEF next
  <2> QED BY <2>1, <2>2, GotoEffect
<1>5. stale \subseteq stale' /\ (a \notin stale' => calls[c].seen = approvals[a])
      /\ UNCHANGED <<runs, dryRuns>>
  BY DEF ConsumeApproval, Overwrite
<1>6. ASSUME a \notin stale'
      PROVE  /\ Spending(a) = {} /\ \A i \in DOMAIN runs : runs[i].approval # a
             /\ approvals[a].approver # calls[c].by
  <2>1. approvals[a].status = "approved" /\ a \notin stale /\ approvals[a].approver # calls[c].by
    BY <1>2, <1>5, <1>6
  <2>2. \A e \in Calls : e \notin Spending(a)
    BY <1>1, <2>1 DEF SpendInv, HeldOnce
  <2> QED BY <2>1, <2>2 DEF SpendInv, ApprovalSpentOnce, Spending
<1>7. DecidesPending' /\ ConsumesApproved'
  BY <1>4 DEF SpendInv, DecidesPending, ConsumesApproved
<1>8. RowsStay'
  <2> SUFFICES ASSUME NEW e \in Calls
               PROVE  /\ calls'[e].pc \in RowPlaces => approvals'[calls'[e].id] # NoRow
                      /\ calls'[e].pc = "confirmed" => dryRuns'[calls'[e].dryRun] # NoRow
    BY DEF RowsStay, RowPlaces
  <2>1. CASE e # c
    <3>1. calls[e].pc \in RowPlaces => calls[e].id \in ApprovalIds
      BY CallAt DEF RowPlaces, DecideCall, ExecuteCall, SpendCall
    <3>2. approvals'[a] # NoRow
      BY <1>3 DEF NoRow
    <3> QED BY <1>3, <1>4, <1>5, <2>1, <3>1, <3>2 DEF SpendInv, RowsStay, RowPlaces
  <2>2. CASE e = c
    BY <1>4, <2>2 DEF RowPlaces
  <2> QED BY <2>1, <2>2
<1>9. ASSUME NEW e \in Calls, NEW b \in ApprovalIds, e \in Spending(b)'
      PROVE  (b = a /\ e = c) \/ e \in Spending(b)
  BY <1>4, <1>9 DEF Spending
<1>10. HeldOnce'
  <2> SUFFICES ASSUME NEW e \in Calls, NEW b \in ApprovalIds, b \notin stale', e \in Spending(b)'
               PROVE  /\ approvals'[b].status = "used" /\ approvals'[b].approver # calls'[e].by
                      /\ \A f \in Spending(b)' : f = e
                      /\ \A i \in DOMAIN runs' : runs'[i].approval # b
    BY DEF HeldOnce
  <2>1. Spending(b)' \subseteq Calls
    BY DEF Spending
  <2>2. CASE b = a
    BY <1>3, <1>4, <1>5, <1>6, <1>9, <2>1, <2>2
  <2>3. CASE b # a
    <3>1. e \in Spending(b) /\ e # c /\ approvals'[b] = approvals[b]
      BY <1>3, <1>4, <1>9, <2>3 DEF Spending
    <3>2. \A f \in Spending(b)' : f \in Spending(b)
      BY <1>9, <2>1, <2>3
    <3> QED BY <1>4, <1>5, <3>1, <3>2 DEF SpendInv, HeldOnce
  <2> QED BY <2>2, <2>3
<1>11. ApprovalSpentOnce'
  <2>1. ASSUME NEW i \in DOMAIN runs, runs[i].approval \notin stale'
        PROVE  approvals'[runs[i].approval] = approvals[runs[i].approval]
    <3>1. runs[i].approval \in ApprovalIds /\ runs[i].approval # a
      BY <1>6, <2>1, RunsTyped
    <3> QED BY <1>3, <3>1
  <2> QED BY <1>5, <2>1 DEF SpendInv, ApprovalSpentOnce
<1> QED BY <1>7, <1>8, <1>10, <1>11 DEF SpendInv

\* The run takes over what its call held.
LEMMA InsertSpend ==
    ASSUME TypeOK, SpendInv, NEW c \in Calls, InsertRun(c)
    PROVE  SpendInv'
<1> SUFFICES ASSUME NEW a, a = calls[c].id PROVE SpendInv'
  OBVIOUS
<1> DEFINE n == Len(runs) + 1
<1>1. calls[c] \in SpendCall /\ calls[c].pc = "insert" /\ a \in ApprovalIds /\ c \in Spending(a)
  BY CallAt DEF InsertRun, At, SpendCall, Spending
<1>2. /\ DOMAIN runs' = 1..n /\ runs'[n].by = calls[c].by /\ runs'[n].approval = a
      /\ DOMAIN runs = 1..Len(runs) /\ Len(runs) \in Nat
      /\ \A i \in DOMAIN runs : runs'[i] = runs[i] /\ i # n
  <2> DEFINE new == [by |-> calls[c].by, approval |-> calls[c].id]
  <2>1. new \in RunRow /\ new.by = calls[c].by /\ new.approval = a
    BY <1>1 DEF SpendCall, RunRow
  <2>2. runs' = Append(runs, new) /\ runs \in Seq(RunRow)
    BY DEF InsertRun, TypeOK
  <2> HIDE DEF new
  <2> QED BY <2>1, <2>2, AppendProperties, RunsTyped, LenProperties
<1>3. calls'[c].pc = "idle" /\ \A e \in Calls \ {c} : calls'[e] = calls[e]
  BY ReturnType DEF InsertRun, Idle
<1>4. UNCHANGED <<approvals, dryRuns, stale>>
  BY DEF InsertRun
<1>5. DecidesPending' /\ ConsumesApproved' /\ RowsStay'
  BY <1>3, <1>4 DEF SpendInv, DecidesPending, ConsumesApproved, RowsStay
<1>6. ASSUME a \notin stale
      PROVE  /\ approvals[a].status = "used" /\ approvals[a].approver # calls[c].by
             /\ \A e \in Spending(a) : e = c
             /\ \A i \in DOMAIN runs : runs[i].approval # a
  BY <1>1, <1>6 DEF SpendInv, HeldOnce
<1>7. HeldOnce'
  <2> SUFFICES ASSUME NEW e \in Calls, NEW b \in ApprovalIds, b \notin stale', e \in Spending(b)'
               PROVE  /\ approvals'[b].status = "used" /\ approvals'[b].approver # calls'[e].by
                      /\ \A f \in Spending(b)' : f = e
                      /\ \A i \in DOMAIN runs' : runs'[i].approval # b
    BY DEF HeldOnce
  <2>1. \A f \in Spending(b)' : f \in Spending(b) /\ f # c
    BY <1>3 DEF Spending
  <2>2. b # a /\ b \notin stale
    BY <1>4, <1>6, <2>1
  <2>3. /\ approvals[b].status = "used" /\ approvals[b].approver # calls[e].by
        /\ \A f \in Spending(b) : f = e
        /\ \A i \in DOMAIN runs : runs[i].approval # b
    BY <2>1, <2>2 DEF SpendInv, HeldOnce
  <2>4. \A i \in DOMAIN runs' : i = n \/ i \in DOMAIN runs
    BY <1>2
  <2> QED BY <1>2, <1>3, <1>4, <2>1, <2>2, <2>3, <2>4
<1>8. ApprovalSpentOnce'
  <2> SUFFICES ASSUME NEW i \in DOMAIN runs', runs'[i].approval \notin stale'
               PROVE  /\ approvals'[runs'[i].approval].status = "used"
                      /\ approvals'[runs'[i].approval].approver # runs'[i].by
                      /\ \A j \in DOMAIN runs' : runs'[j].approval = runs'[i].approval => j = i
    BY DEF ApprovalSpentOnce
  <2>1. \A j \in DOMAIN runs' : j = n \/ j \in DOMAIN runs
    BY <1>2
  <2>2. CASE i = n
    BY <1>2, <1>4, <1>6, <2>1, <2>2
  <2>3. CASE i \in DOMAIN runs
    <3>1. runs[i].approval # a /\ runs[i].approval \notin stale
      BY <1>2, <1>4, <1>6, <2>3
    <3>2. /\ approvals[runs[i].approval].status = "used"
          /\ approvals[runs[i].approval].approver # runs[i].by
          /\ \A j \in DOMAIN runs : runs[j].approval = runs[i].approval => j = i
      BY <2>3, <3>1 DEF SpendInv, ApprovalSpentOnce
    <3> QED BY <1>2, <1>4, <2>1, <2>3, <3>1, <3>2
  <2> QED BY <2>1, <2>2, <2>3
<1> QED BY <1>5, <1>7, <1>8 DEF SpendInv

\* Steps that touch neither approvals nor dry runs nor runs.
LEMMA QuietSpend ==
    ASSUME TypeOK, SpendInv, stale \subseteq stale', UNCHANGED <<approvals, dryRuns, runs>>,
           \A e \in Calls : calls'[e] # calls[e] =>
             calls'[e].pc \in {"idle", "policy", "request", "evaluate", "reserve"}
    PROVE  SpendInv'
  BY SpendKept DEF SpendPlaces, RowPlaces

LEMMA PolicySpend ==
    ASSUME TypeOK, SpendInv, NEW c \in Calls,
           UpdatePolicyRead(c) \/ UpdatePolicyWrite(c) \/ RequestApproval(c) \/ ReservationStep(c)
    PROVE  SpendInv'
<1>1. UNCHANGED <<approvals, dryRuns, runs>> /\ stale \subseteq stale'
  BY DEF UpdatePolicyRead, UpdatePolicyWrite, RequestApproval, ReservationStep, CalendarStep,
     CountOverlaps, EvaluateConflicts, InsertReservation, bookVars
<1>2. ASSUME NEW x, Goto(c, x), x.pc \in {"idle", "policy", "request", "evaluate", "reserve"}
      PROVE  SpendInv'
  BY <1>1, <1>2, GotoEffect, QuietSpend
<1>3. CASE UpdatePolicyRead(c)
  <2>1. \E x : Goto(c, x) /\ x.pc = "policy"
    BY <1>3 DEF UpdatePolicyRead
  <2> QED BY <1>2, <2>1
<1>4. CASE UpdatePolicyWrite(c)
  BY <1>2, <1>4 DEF UpdatePolicyWrite, Return, Idle
<1>5. CASE RequestApproval(c)
  <2>1. \E x : Goto(c, x) /\ x.pc = "request"
    BY <1>5 DEF RequestApproval
  <2> QED BY <1>2, <2>1
<1>6. CASE CountOverlaps(c)
  <2>1. \E x : Goto(c, x) /\ x.pc = "evaluate"
    BY <1>6 DEF CountOverlaps
  <2> QED BY <1>2, <2>1
<1>7. CASE EvaluateConflicts(c)
  <2>1. calls[c] \in ReserveCall
    BY <1>7, CallAt DEF EvaluateConflicts, At
  <2>2. [calls[c] EXCEPT !.pc = "reserve"].pc = "reserve"
    BY <2>1 DEF ReserveCall
  <2>3. CASE Goto(c, [calls[c] EXCEPT !.pc = "reserve"])
    BY <1>2, <2>2, <2>3
  <2>4. CASE Return(c)
    BY <1>2, <2>4 DEF Return, Idle
  <2> QED BY <1>7, <2>3, <2>4 DEF EvaluateConflicts
<1>8. CASE InsertReservation(c)
  BY <1>2, <1>8 DEF InsertReservation, Return, Idle
<1> QED BY <1>3, <1>4, <1>5, <1>6, <1>7, <1>8 DEF ReservationStep, CalendarStep

LEMMA ReadSpend ==
    ASSUME TypeOK, SpendInv, NEW c \in Calls,
           ReadToApprove(c) \/ ReadToReject(c) \/ Execute(c)
    PROVE  SpendInv'
<1>1. UNCHANGED <<approvals, dryRuns, runs, stale>>
  BY DEF ReadToApprove, ReadToReject, Execute, bookVars
<1>2. ASSUME NEW a \in ApprovalIds, NEW by, NEW pc \in {"approve", "reject"},
             approvals[a].status = "pending",
             Goto(c, [pc |-> pc, id |-> a, by |-> by, seen |-> approvals[a]])
      PROVE  SpendInv'
  <2>1. /\ calls'[c] = [pc |-> pc, id |-> a, by |-> by, seen |-> approvals[a]]
        /\ \A e \in Calls \ {c} : calls'[e] = calls[e]
    BY <1>2, GotoEffect
  <2>2. approvals[a] # NoRow
    BY <1>2 DEF NoRow
  <2>3. /\ calls'[c].pc = pc /\ calls'[c].seen.status = "pending"
        /\ approvals'[calls'[c].id] # NoRow
    BY <1>1, <1>2, <2>1, <2>2
  <2> QED BY <1>1, <2>1, <2>3, SpendKept DEF SpendPlaces, RowPlaces
<1>3. CASE ReadToApprove(c)
  BY <1>2, <1>3 DEF ReadToApprove
<1>4. CASE ReadToReject(c)
  BY <1>2, <1>4 DEF ReadToReject
<1>5. CASE Execute(c)
  <2>1. PICK by \in Actors, d \in DryRunIds, a \in ApprovalIds :
          /\ approvals[a].status # "none"
          /\ Goto(c, [pc |-> "approval", by |-> by, dryRun |-> d, id |-> a,
                      token |-> approvals[a].token])
    BY <1>5 DEF Execute
  <2>2. /\ calls'[c].pc = "approval" /\ calls'[c].id = a
        /\ \A e \in Calls \ {c} : calls'[e] = calls[e]
    BY <2>1, GotoEffect
  <2>3. approvals'[calls'[c].id] # NoRow
    BY <1>1, <2>1, <2>2 DEF NoRow
  <2> QED BY <1>1, <2>2, <2>3, SpendKept DEF SpendPlaces, RowPlaces
<1> QED BY <1>3, <1>4, <1>5

LEMMA DecideSpend ==
    ASSUME TypeOK, SpendInv, NEW c \in Calls, Approve(c) \/ Reject(c)
    PROVE  SpendInv'
<1> SUFFICES ASSUME NEW a, a = calls[c].id PROVE SpendInv'
  OBVIOUS
<1>1. /\ a \in ApprovalIds /\ calls[c].by \in Actors /\ approvals[a] # NoRow
      /\ calls[c].seen.status = "pending"
  <2>1. calls[c] \in DecideCall /\ calls[c].pc \in {"approve", "reject"}
    BY CallAt DEF Approve, Reject, At
  <2> QED BY <2>1 DEF DecideCall, SpendInv, RowsStay, DecidesPending
<1>2. approvals[a] \in Approval
  BY <1>1 DEF TypeOK
<1>3. \E row \in Approval : Overwrite(c, a, row) \/ UNCHANGED <<approvals, stale>>
  <2>1. CASE Approve(c)
    <3> DEFINE row == [approvals[a] EXCEPT !.status = "approved", !.approver = calls[c].by,
                                           !.token = approvals[a].token + 1]
    <3>1. row \in Approval
      BY <1>1, <1>2, ApprovedRow
    <3>2. Overwrite(c, a, row) \/ UNCHANGED <<approvals, stale>>
      BY <2>1 DEF Approve
    <3> HIDE DEF row
    <3> QED BY <3>1, <3>2
  <2>2. CASE Reject(c)
    <3> DEFINE row == [approvals[a] EXCEPT !.status = "rejected", !.approver = calls[c].by]
    <3>1. row \in Approval
      BY <1>1, <1>2 DEF Approval
    <3>2. Overwrite(c, a, row)
      BY <2>2 DEF Reject
    <3> HIDE DEF row
    <3> QED BY <3>1, <3>2
  <2> QED BY <2>1, <2>2
<1>4. PICK row \in Approval : Overwrite(c, a, row) \/ UNCHANGED <<approvals, stale>>
  BY <1>3
<1>5. stale \subseteq stale' /\ \A b \in ApprovalIds \ {a} : approvals'[b] = approvals[b]
  BY <1>1, <1>4 DEF Overwrite, TypeOK
<1>6. approvals'[a] # NoRow
  BY <1>1, <1>4 DEF Overwrite, TypeOK, Approval, NoRow
<1>7. a \notin stale' /\ approvals[a].status = "used" => approvals'[a] = approvals[a]
  BY <1>1, <1>4 DEF Overwrite
<1>8. UNCHANGED <<dryRuns, runs>> /\ calls'[c].pc = "idle"
      /\ \A e \in Calls \ {c} : calls'[e] = calls[e]
  BY ReturnType DEF Approve, Reject, Idle
<1> QED BY <1>5, <1>6, <1>7, <1>8, SpendKept DEF SpendPlaces, RowPlaces

\* Rows that are marked expired were active, and a new one has a new id.
LEMMA InsertApprovalSpend ==
    ASSUME TypeOK, SpendInv, NEW c \in Calls, InsertApproval(c)
    PROVE  SpendInv'
<1> DEFINE marked == [a \in ApprovalIds |->
                        IF a \in calls[c].expired /\ approvals[a].status \in Active
                          THEN [approvals[a] EXCEPT !.status = "expired"] ELSE approvals[a]]
           new == [status |-> "pending", dryRun |-> calls[c].dryRun,
                   by |-> calls[c].by, approver |-> calls[c].by, token |-> 0,
                   expires |-> calls[c].expires]
<1>1. ASSUME NEW a \in ApprovalIds
      PROVE  /\ approvals[a] # NoRow => marked[a] # NoRow
             /\ approvals[a].status = "used" => marked[a] = approvals[a]
  <2>1. CASE approvals[a].status \in Active
    <3>1. approvals[a] # NoRow /\ approvals[a].status # "used"
      BY <2>1 DEF Active, NoRow
    <3>2. [approvals[a] EXCEPT !.status = "expired"] # NoRow
      BY <3>1, RowUpdates DEF Approval, NoRow
    <3> QED BY <3>1, <3>2
  <2>2. CASE approvals[a].status \notin Active
    BY <2>2
  <2> QED BY <2>1, <2>2
<1>2. PICK a \in ApprovalIds : /\ approvals[a] = NoRow
                               /\ approvals' \in {marked, [marked EXCEPT ![a] = new]}
  BY DEF InsertApproval
<1>3. new # NoRow
  BY DEF NoRow
<1>4. ASSUME NEW b \in ApprovalIds
      PROVE  /\ approvals[b] # NoRow => approvals'[b] # NoRow
             /\ approvals[b].status = "used" => approvals'[b] = approvals[b]
  <2>1. DOMAIN marked = ApprovalIds
    OBVIOUS
  <2>2. approvals[a].status # "used"
    BY <1>2 DEF NoRow
  <2> HIDE DEF marked, new
  <2> QED BY <1>1, <1>2, <1>3, <2>1, <2>2
<1>5. UNCHANGED <<dryRuns, runs, stale>> /\ calls'[c].pc = "idle"
      /\ \A e \in Calls \ {c} : calls'[e] = calls[e]
  BY ReturnType DEF InsertApproval, Idle
<1> HIDE DEF marked, new
<1> QED BY <1>4, <1>5, SpendKept DEF SpendPlaces, RowPlaces

LEMMA VerifySpend ==
    ASSUME TypeOK, SpendInv, NEW c \in Calls, VerifyApproval(c)
    PROVE  SpendInv'
<1> SUFFICES ASSUME NEW a, a = calls[c].id PROVE SpendInv'
  OBVIOUS
<1>1. calls[c] \in ExecuteCall /\ a \in ApprovalIds /\ approvals[a] # NoRow
  <2>1. calls[c] \in ExecuteCall /\ calls[c].pc = "approval"
    BY CallAt DEF VerifyApproval, At
  <2> QED BY <2>1 DEF ExecuteCall, SpendInv, RowsStay
<1>2. UNCHANGED <<dryRuns, runs, stale>>
  BY DEF VerifyApproval
<1>3. CASE Return(c) /\ UNCHANGED approvals
  BY <1>2, <1>3, ReturnType, QuietSpend DEF Idle
<1>4. CASE /\ Return(c) /\ approvals[a].status = "approved"
           /\ approvals' = [approvals EXCEPT ![a] = [approvals[a] EXCEPT !.status = "expired"]]
  <2>1. [approvals[a] EXCEPT !.status = "expired"] # NoRow
    BY <1>1, RowUpdates DEF Approval, NoRow
  <2>2. approvals'[a] # NoRow /\ \A b \in ApprovalIds \ {a} : approvals'[b] = approvals[b]
    BY <1>1, <1>4, <2>1 DEF TypeOK
  <2>3. calls'[c].pc = "idle" /\ \A e \in Calls \ {c} : calls'[e] = calls[e]
    BY <1>4, ReturnType DEF Idle
  <2> QED BY <1>2, <1>4, <2>2, <2>3, SpendKept DEF SpendPlaces, RowPlaces
<1>5. CASE /\ approvals[a].status = "approved" /\ approvals[a].approver # calls[c].by
           /\ Goto(c, [pc |-> "consume", by |-> calls[c].by, dryRun |-> calls[c].dryRun,
                       id |-> a, seen |-> approvals[a]])
           /\ UNCHANGED approvals
  <2>1. /\ calls'[c].pc = "consume" /\ calls'[c].id = a /\ calls'[c].by = calls[c].by
        /\ calls'[c].seen = approvals[a]
        /\ \A e \in Calls \ {c} : calls'[e] = calls[e]
    BY <1>5, GotoEffect
  <2>2. /\ calls'[c].seen.status = "approved" /\ calls'[c].seen.approver # calls'[c].by
        /\ approvals'[calls'[c].id] # NoRow
    BY <1>1, <1>5, <2>1
  <2> QED BY <1>2, <1>5, <2>1, <2>2, SpendKept DEF SpendPlaces, RowPlaces
<1> QED BY <1>3, <1>4, <1>5 DEF VerifyApproval

\* A call that holds an approval keeps holding it, or gives up.
LEMMA ConfirmSpend ==
    ASSUME TypeOK, SpendInv, NEW c \in Calls, VerifyConfirmation(c) \/ ConfirmDryRun(c)
    PROVE  SpendInv'
<1> SUFFICES ASSUME NEW d, d = calls[c].dryRun PROVE SpendInv'
  OBVIOUS
<1>1. /\ calls[c] \in SpendCall /\ d \in DryRunIds /\ calls[c].pc \in SpendPlaces
      /\ dryRuns[d] \in DryRunRow \cup {NoRow}
  BY CallAt DEF VerifyConfirmation, ConfirmDryRun, At, SpendCall, SpendPlaces, TypeOK
<1>2. UNCHANGED <<approvals, runs, stale>>
  BY DEF VerifyConfirmation, ConfirmDryRun
<1>3. ASSUME NEW status \in {"expired", "succeeded"}, dryRuns[d] # NoRow
      PROVE  [dryRuns[d] EXCEPT !.status = status] # NoRow
  BY <1>1, <1>3 DEF DryRunRow, NoRow
<1>4. /\ \A e \in DryRunIds : dryRuns[e] # NoRow => dryRuns'[e] # NoRow
  <2>1. \/ dryRuns' = dryRuns
        \/ \E status \in {"expired", "succeeded"} :
             dryRuns' = [dryRuns EXCEPT ![d] = [dryRuns[d] EXCEPT !.status = status]]
    BY DEF VerifyConfirmation, ConfirmDryRun
  <2> QED BY <1>1, <1>3, <2>1 DEF TypeOK
<1>5. ASSUME NEW pc \in {"confirmed", "insert"}, Goto(c, [calls[c] EXCEPT !.pc = pc]),
             pc = "confirmed" => dryRuns'[d] # NoRow
      PROVE  SpendInv'
  <2> DEFINE next == [calls[c] EXCEPT !.pc = pc]
  <2>1. next.pc = pc /\ next.id = calls[c].id /\ next.by = calls[c].by /\ next.dryRun = d
    BY <1>1 DEF SpendCall
  <2>2. calls'[c] = next /\ \A e \in Calls \ {c} : calls'[e] = calls[e]
    BY <1>5, GotoEffect
  <2> HIDE DEF next
  <2>3. /\ calls'[c].pc = pc /\ calls'[c].id = calls[c].id /\ calls'[c].by = calls[c].by
        /\ calls'[c].dryRun = d
    BY <2>1, <2>2
  <2> QED BY <1>1, <1>2, <1>4, <1>5, <2>2, <2>3, SpendKept DEF SpendPlaces, RowPlaces
<1>6. CASE Return(c)
  <2>1. calls'[c].pc = "idle" /\ \A e \in Calls \ {c} : calls'[e] = calls[e]
    BY <1>6, ReturnType DEF Idle
  <2> QED BY <1>2, <1>4, <2>1, SpendKept DEF SpendPlaces, RowPlaces
<1>7. CASE Verdict(dryRuns[d], calls[c].by) = "confirmed"
             /\ Goto(c, [calls[c] EXCEPT !.pc = "confirmed"])
  <2>1. dryRuns[d] # NoRow
    BY <1>7 DEF Verdict, NoRow
  <2> QED BY <1>1, <1>4, <1>5, <1>7, <2>1
<1>8. CASE ConfirmDryRun(c)
  BY <1>5, <1>8 DEF ConfirmDryRun
<1> QED BY <1>6, <1>7, <1>8 DEF VerifyConfirmation

LEMMA OtherSpend ==
    ASSUME TypeOK, SpendInv, OtherStep
    PROVE  SpendInv'
<1>1. CASE ClockTicks \/ WorkflowBacklogChanges
  BY <1>1, QuietSpend DEF ClockTicks, WorkflowBacklogChanges, bookVars
<1>2. CASE ExpireApproval
  <2>1. PICK a \in ApprovalIds :
          /\ approvals[a].status \in Active
          /\ approvals' = [approvals EXCEPT ![a] = [approvals[a] EXCEPT !.status = "expired"]]
    BY <1>2 DEF ExpireApproval
  <2>2. approvals[a] # NoRow /\ approvals[a].status # "used"
    BY <2>1 DEF Active, NoRow
  <2>3. [approvals[a] EXCEPT !.status = "expired"] # NoRow
    BY <2>2, RowUpdates DEF Approval, NoRow
  <2>4. approvals'[a] # NoRow /\ \A b \in ApprovalIds \ {a} : approvals'[b] = approvals[b]
    BY <2>1, <2>3 DEF TypeOK
  <2>5. UNCHANGED <<calls, dryRuns, runs, stale>>
    BY <1>2 DEF ExpireApproval
  <2> QED BY <2>2, <2>4, <2>5, SpendKept
<1>3. ASSUME NEW by \in Actors, DryRun(by) PROVE SpendInv'
  <2>1. PICK d \in DryRunIds :
          dryRuns' = [dryRuns EXCEPT ![d] =
                        [status |-> "planned", by |-> by, expires |-> now + TTL]]
    BY <1>3 DEF DryRun
  <2>2. [status |-> "planned", by |-> by, expires |-> now + TTL] # NoRow
    BY DEF NoRow
  <2>3. \A e \in DryRunIds : dryRuns[e] # NoRow => dryRuns'[e] # NoRow
    BY <2>1, <2>2 DEF TypeOK
  <2>4. UNCHANGED <<calls, approvals, runs, stale>>
    BY <1>3 DEF DryRun
  <2> QED BY <2>3, <2>4, SpendKept
<1> QED BY <1>1, <1>2, <1>3 DEF OtherStep
-----------------------------------------------------------------------------
(* The freeze *)

\* An update whose call read the policy as it still is keeps or sets the
\* freeze; one that read an older version makes the policy stale.
LEMMA FreezeNext ==
    ASSUME FreezeIsKept, [Next]_vars
    PROVE  FreezeIsKept'
<1>1. ASSUME UNCHANGED <<policy, asked>>, stale \subseteq stale' PROVE FreezeIsKept'
  BY <1>1 DEF FreezeIsKept
<1>2. ASSUME NEW c \in Calls, UpdatePolicyWrite(c) PROVE FreezeIsKept'
  <2>1. CASE calls[c].seen = policy
    BY <1>2, <2>1 DEF UpdatePolicyWrite, FreezeIsKept
  <2>2. CASE calls[c].seen # policy
    BY <1>2, <2>2 DEF UpdatePolicyWrite, FreezeIsKept
  <2> QED BY <2>1, <2>2
<1>3. ASSUME NEW c \in Calls,
             \/ UpdatePolicyRead(c) \/ RequestApproval(c) \/ InsertApproval(c)
             \/ ReadToApprove(c) \/ ReadToReject(c) \/ Execute(c)
      PROVE  FreezeIsKept'
  BY <1>1, <1>3 DEF UpdatePolicyRead, RequestApproval, InsertApproval, ReadToApprove, ReadToReject,
     Execute, bookVars
<1>4. ASSUME NEW c \in Calls, Approve(c) \/ Reject(c) \/ ConsumeApproval(c) PROVE FreezeIsKept'
  <2>1. UNCHANGED <<policy, asked>>
    BY <1>4 DEF Approve, Reject, ConsumeApproval
  <2>2. stale \subseteq stale'
    BY <1>4 DEF Approve, Reject, ConsumeApproval, Overwrite
  <2> QED BY <1>1, <2>1, <2>2
<1>5. ASSUME NEW c \in Calls,
             VerifyApproval(c) \/ VerifyConfirmation(c) \/ ConfirmDryRun(c) \/ InsertRun(c)
      PROVE  FreezeIsKept'
  BY <1>1, <1>5 DEF VerifyApproval, VerifyConfirmation, ConfirmDryRun, InsertRun
<1>6. ASSUME NEW c \in Calls, ReservationStep(c) PROVE FreezeIsKept'
  <2>1. UNCHANGED <<policy, asked, stale>>
    BY <1>6 DEF ReservationStep, CalendarStep, CountOverlaps, EvaluateConflicts, InsertReservation
  <2> QED BY <1>1, <2>1
<1>7. CASE OtherStep
  BY <1>1, <1>7 DEF OtherStep, ClockTicks, WorkflowBacklogChanges, ExpireApproval, DryRun, bookVars
<1>8. CASE UNCHANGED vars
  BY <1>1, <1>8 DEF vars, calendarVars
<1> QED
  BY <1>2, <1>3, <1>4, <1>5, <1>6, <1>7, <1>8 DEF Next, CallStep, Replay, ReplayDryRun, OtherStep
-----------------------------------------------------------------------------
(* The calendar *)

\* A step that inserts no reservation and begins none.
LEMMA SlotsKept ==
    ASSUME SlotInv, UNCHANGED reservations,
           \A e \in Calls : calls'[e].pc \in {"evaluate", "reserve"} => calls'[e] = calls[e]
    PROVE  SlotInv'
  BY DEF SlotInv, CountedIsFree, NoUnseenOverlap

LEMMA ReservationSlots ==
    ASSUME ParametersOK, TypeOK, SlotInv, NEW c \in Calls, ReservationStep(c)
    PROVE  SlotInv'
<1>0. /\ reservations \in Seq(ReserveCall) /\ Len(reservations) \in Nat
      /\ DOMAIN reservations = 1..Len(reservations)
      /\ \A i \in DOMAIN reservations : reservations[i] \in ReserveCall
  <2>1. reservations \in Seq(ReserveCall)
    BY DEF TypeOK
  <2> QED BY <2>1, LenProperties, ElementOfSeq
<1>1. CASE CountOverlaps(c)
  <2>1. PICK slot \in Slots, site \in Sites \cup {Everywhere}, risk \in RiskLevels,
             counted \in Counted :
          /\ counted => Overlaps(slot.start, slot.end, site) = {}
          /\ Goto(c, [pc |-> "evaluate", start |-> slot.start, end |-> slot.end,
                      site |-> site, risk |-> risk,
                      saw |-> IF counted THEN Len(reservations) ELSE 0])
    BY <1>1 DEF CountOverlaps
  <2>2. /\ calls'[c].start = slot.start /\ calls'[c].end = slot.end /\ calls'[c].site = site
        /\ calls'[c].saw = IF counted THEN Len(reservations) ELSE 0
        /\ \A e \in Calls \ {c} : calls'[e] = calls[e]
    BY <2>1, GotoEffect
  <2>3. reservations' = reservations
    BY <1>1 DEF CountOverlaps
  <2>4. ASSUME NEW i \in DOMAIN reservations, i <= calls'[c].saw, reservations[i].site = site,
               reservations[i].start < slot.end, slot.start < reservations[i].end
        PROVE  FALSE
    <3>1. counted
      BY <1>0, <2>2, <2>4
    <3>2. reservations[i].start \in Int /\ reservations[i].end \in Int
      BY <1>0 DEF ReserveCall
    <3>3. slot.start \in Int /\ slot.end \in Int
      BY DEF ParametersOK
    <3>4. i \in Overlaps(slot.start, slot.end, site)
      BY <2>4, <3>2, <3>3 DEF Overlaps
    <3> QED BY <2>1, <3>1, <3>4
  <2>5. CountedIsFree'
    BY <2>2, <2>3, <2>4 DEF CountedIsFree, SlotInv
  <2> QED BY <2>3, <2>5 DEF SlotInv, NoUnseenOverlap
<1>2. CASE EvaluateConflicts(c)
  <2>1. calls[c] \in ReserveCall /\ calls[c].pc = "evaluate"
    BY <1>2, CallAt DEF EvaluateConflicts, At
  <2>2. reservations' = reservations
    BY <1>2 DEF EvaluateConflicts
  <2>3. CASE Goto(c, [calls[c] EXCEPT !.pc = "reserve"])
    <3>1. /\ calls'[c].start = calls[c].start /\ calls'[c].end = calls[c].end
          /\ calls'[c].site = calls[c].site /\ calls'[c].saw = calls[c].saw
          /\ \A e \in Calls \ {c} : calls'[e] = calls[e]
      BY <2>1, <2>3, GotoEffect DEF ReserveCall
    <3> QED BY <2>1, <2>2, <3>1 DEF SlotInv, CountedIsFree, NoUnseenOverlap
  <2>4. CASE Return(c)
    BY <2>2, <2>4, ReturnType, SlotsKept DEF Idle
  <2> QED BY <1>2, <2>3, <2>4 DEF EvaluateConflicts
<1>3. CASE InsertReservation(c)
  <2> DEFINE n == Len(reservations) + 1
  <2>1. calls[c] \in ReserveCall /\ calls[c].pc = "reserve"
    BY <1>3, CallAt DEF InsertReservation, At
  <2>2. reservations' = Append(reservations, calls[c])
    BY <1>3 DEF InsertReservation
  <2>3. /\ DOMAIN reservations' = 1..n /\ reservations'[n] = calls[c]
        /\ \A i \in DOMAIN reservations : reservations'[i] = reservations[i]
    BY <1>0, <2>1, <2>2, AppendProperties, LenProperties
  <2>4. calls'[c].pc = "idle" /\ \A e \in Calls \ {c} : calls'[e] = calls[e]
    BY <1>3, ReturnType DEF InsertReservation, Idle
  <2>5. NoUnseenOverlap'
    <3> SUFFICES ASSUME NEW i \in 1..n, NEW j \in 1..n, i < j,
                        reservations'[i].site = reservations'[j].site,
                        reservations'[i].start < reservations'[j].end,
                        reservations'[j].start < reservations'[i].end
                 PROVE  reservations'[j].saw < i
      BY <2>3 DEF NoUnseenOverlap
    <3>1. i \in DOMAIN reservations /\ (j \in DOMAIN reservations \/ j = n)
      BY <1>0
    <3>2. CASE j \in DOMAIN reservations
      BY <2>3, <3>1, <3>2 DEF SlotInv, NoUnseenOverlap
    <3>3. CASE j = n
      <4>1. /\ reservations[i].site = calls[c].site /\ reservations[i].start < calls[c].end
            /\ calls[c].start < reservations[i].end /\ calls[c].saw \in Nat
        BY <2>1, <2>3, <3>1, <3>3 DEF ReserveCall
      <4>2. ~(i <= calls[c].saw)
        BY <2>1, <3>1, <4>1 DEF SlotInv, CountedIsFree
      <4> QED BY <1>0, <2>3, <3>3, <4>1, <4>2
    <3> QED BY <3>1, <3>2, <3>3
  <2>6. CountedIsFree'
    <3> SUFFICES ASSUME NEW e \in Calls, calls'[e].pc \in {"evaluate", "reserve"}
                 PROVE  /\ calls'[e].saw <= Len(reservations')
                        /\ \A i \in DOMAIN reservations' :
                             /\ i <= calls'[e].saw
                             /\ reservations'[i].site = calls'[e].site
                             => ~(/\ reservations'[i].start < calls'[e].end
                                  /\ calls'[e].start < reservations'[i].end)
      BY DEF CountedIsFree
    <3>1. e # c /\ calls'[e] = calls[e]
      BY <2>4
    <3>2. calls[e].saw <= Len(reservations) /\ calls[e].saw \in Nat
      BY <3>1, CallAt DEF SlotInv, CountedIsFree, ReserveCall
    <3>3. Len(reservations') = n
      BY <1>0, <2>1, <2>2, AppendProperties
    <3>4. \A i \in DOMAIN reservations' : i <= calls[e].saw => i \in DOMAIN reservations
      BY <1>0, <2>3, <3>2
    <3>5. calls[e].saw <= Len(reservations')
      BY <1>0, <3>2, <3>3
    <3>6. ASSUME NEW i \in DOMAIN reservations', i <= calls[e].saw,
                 reservations'[i].site = calls[e].site
          PROVE  ~(/\ reservations'[i].start < calls[e].end
                   /\ calls[e].start < reservations'[i].end)
      <4>1. i \in DOMAIN reservations /\ reservations'[i] = reservations[i]
        BY <2>3, <3>4, <3>6
      <4>2. calls[e].pc \in {"evaluate", "reserve"}
        BY <3>1
      <4> QED BY <3>6, <4>1, <4>2 DEF SlotInv, CountedIsFree
    <3> QED BY <3>1, <3>5, <3>6
  <2> QED BY <2>5, <2>6 DEF SlotInv
<1> QED BY <1>1, <1>2, <1>3 DEF ReservationStep, CalendarStep
\* A step of the approvals or executions leaves the calendar alone.
LEMMA SpendSlots ==
    ASSUME TypeOK, SlotInv, NEW c \in Calls,
           \/ UpdatePolicyRead(c) \/ UpdatePolicyWrite(c) \/ RequestApproval(c)
           \/ InsertApproval(c) \/ ReadToApprove(c) \/ Approve(c) \/ ReadToReject(c) \/ Reject(c)
           \/ Execute(c) \/ VerifyApproval(c) \/ ConsumeApproval(c)
           \/ VerifyConfirmation(c) \/ ConfirmDryRun(c) \/ InsertRun(c)
    PROVE  SlotInv'
<1>1. UNCHANGED reservations
  BY DEF UpdatePolicyRead, UpdatePolicyWrite, RequestApproval, InsertApproval, ReadToApprove,
     Approve, ReadToReject, Reject, Execute, VerifyApproval, ConsumeApproval,
     VerifyConfirmation, ConfirmDryRun, InsertRun
<1>2. ASSUME NEW x, Goto(c, x), x.pc \notin {"evaluate", "reserve"} PROVE SlotInv'
  BY <1>1, <1>2, GotoEffect, SlotsKept
<1>3. CASE \/ UpdatePolicyWrite(c) \/ InsertApproval(c) \/ Approve(c) \/ Reject(c) \/ InsertRun(c)
  BY <1>2, <1>3 DEF UpdatePolicyWrite, InsertApproval, Approve, Reject, InsertRun, Return, Idle
<1>4. CASE UpdatePolicyRead(c)
  <2>1. \E x : Goto(c, x) /\ x.pc = "policy"
    BY <1>4 DEF UpdatePolicyRead
  <2> QED BY <1>2, <2>1
<1>5. CASE RequestApproval(c)
  <2>1. \E x : Goto(c, x) /\ x.pc = "request"
    BY <1>5 DEF RequestApproval
  <2> QED BY <1>2, <2>1
<1>6. CASE ReadToApprove(c)
  <2>1. \E x : Goto(c, x) /\ x.pc = "approve"
    BY <1>6 DEF ReadToApprove
  <2> QED BY <1>2, <2>1
<1>7. CASE ReadToReject(c)
  <2>1. \E x : Goto(c, x) /\ x.pc = "reject"
    BY <1>7 DEF ReadToReject
  <2> QED BY <1>2, <2>1
<1>8. CASE Execute(c)
  <2>1. \E x : Goto(c, x) /\ x.pc = "approval"
    BY <1>8 DEF Execute
  <2> QED BY <1>2, <2>1
<1>9. CASE VerifyApproval(c)
  <2>1. \E x : Goto(c, x) /\ x.pc \in {"consume", "idle"}
    BY <1>9 DEF VerifyApproval, Return, Idle
  <2> QED BY <1>2, <2>1
<1>10. CASE ConsumeApproval(c) \/ VerifyConfirmation(c) \/ ConfirmDryRun(c)
  <2>1. calls[c] \in SpendCall
    BY <1>10, CallAt DEF ConsumeApproval, VerifyConfirmation, ConfirmDryRun, At
  <2>2. \A pc \in {"confirm", "confirmed", "insert"} : [calls[c] EXCEPT !.pc = pc].pc = pc
    BY <2>1 DEF SpendCall
  <2>3. \/ \E pc \in {"confirm", "confirmed", "insert"} : Goto(c, [calls[c] EXCEPT !.pc = pc])
        \/ Return(c)
    BY <1>10 DEF ConsumeApproval, VerifyConfirmation, ConfirmDryRun
  <2>4. CASE Return(c)
    BY <1>2, <2>4 DEF Return, Idle
  <2> QED BY <1>2, <2>2, <2>3, <2>4
<1> QED BY <1>3, <1>4, <1>5, <1>6, <1>7, <1>8, <1>9, <1>10

LEMMA OtherSlots ==
    ASSUME SlotInv, OtherStep
    PROVE  SlotInv'
<1>1. UNCHANGED <<calls, reservations>>
  BY DEF OtherStep, ClockTicks, WorkflowBacklogChanges, ExpireApproval, DryRun
<1> QED BY <1>1, SlotsKept
-----------------------------------------------------------------------------
(* The invariant is inductive *)

LEMMA InitInv ==
    ASSUME Init
    PROVE  IInv
<1>1. /\ reservations = <<>> /\ runs = <<>> /\ asked = FALSE
      /\ policy = [freeze |-> FALSE, windows |-> DefaultWindows]
      /\ calls = [c \in Calls |-> Idle]
      /\ approvals = [a \in ApprovalIds |-> NoRow] /\ dryRuns = [d \in DryRunIds |-> NoRow]
      /\ now = 0
  BY DEF Init
<1>2. TypeOK
  <2>1. policy \in Policy
    BY <1>1 DEF Policy, WindowSets
  <2>2. runs \in Seq(RunRow) /\ reservations \in Seq(ReserveCall)
    BY <1>1
  <2>3. Idle \in Call
    BY DEF Call
  <2> QED BY <1>1, <2>1, <2>2, <2>3 DEF TypeOK
<1>3. \A c \in Calls : calls[c].pc = "idle"
  BY <1>1 DEF Idle
<1>4. DOMAIN runs = {} /\ DOMAIN reservations = {}
  BY <1>1
<1>5. SpendInv
  BY <1>3, <1>4 DEF SpendInv, DecidesPending, ConsumesApproved, RowsStay, HeldOnce, Spending,
     ApprovalSpentOnce
<1>6. SlotInv
  BY <1>3, <1>4 DEF SlotInv, CountedIsFree, NoUnseenOverlap
<1>7. FreezeIsKept
  BY <1>1 DEF FreezeIsKept
<1> QED BY <1>2, <1>5, <1>6, <1>7 DEF IInv

LEMMA NextInv ==
    ASSUME ParametersOK, IInv, [Next]_vars
    PROVE  IInv'
<1>1. FreezeIsKept'
  BY FreezeNext DEF IInv
<1>2. TypeOK /\ SpendInv /\ SlotInv /\ RowsStay
  BY DEF IInv, SpendInv
<1>3. ASSUME NEW c \in Calls, UpdatePolicyRead(c) \/ UpdatePolicyWrite(c) PROVE IInv'
  BY <1>1, <1>2, <1>3, PolicyTypes, PolicySpend, SpendSlots DEF IInv
<1>4. ASSUME NEW c \in Calls, RequestApproval(c) \/ InsertApproval(c) PROVE IInv'
  BY <1>1, <1>2, <1>4, RequestTypes, PolicySpend, InsertApprovalSpend, SpendSlots DEF IInv
<1>5. ASSUME NEW c \in Calls, ReadToApprove(c) \/ Approve(c) \/ ReadToReject(c) \/ Reject(c)
      PROVE  IInv'
  BY <1>1, <1>2, <1>5, DecisionTypes, ReadSpend, DecideSpend, SpendSlots DEF IInv
<1>6. ASSUME NEW c \in Calls,
             Execute(c) \/ VerifyApproval(c) \/ ConsumeApproval(c) \/ InsertRun(c)
      PROVE  IInv'
  BY <1>1, <1>2, <1>6, ExecutionTypes, ReadSpend, VerifySpend, ConsumeSpend, InsertSpend,
     SpendSlots DEF IInv
<1>7. ASSUME NEW c \in Calls, VerifyConfirmation(c) \/ ConfirmDryRun(c) PROVE IInv'
  BY <1>1, <1>2, <1>7, ConfirmationTypes, ConfirmSpend, SpendSlots DEF IInv
<1>8. ASSUME NEW c \in Calls, ReservationStep(c) PROVE IInv'
  BY <1>1, <1>2, <1>8, ReservationTypes, PolicySpend, ReservationSlots DEF IInv
<1>9. CASE OtherStep
  BY <1>1, <1>2, <1>9, OtherTypes, OtherSpend, OtherSlots DEF IInv
<1>10. CASE UNCHANGED vars
  <2>1. UNCHANGED <<calls, reservations, approvals, dryRuns, runs, stale>>
    BY <1>10 DEF vars, calendarVars
  <2>2. TypeOK'
    BY <1>2, <1>10 DEF TypeOK, vars, calendarVars
  <2>3. SpendInv' /\ SlotInv'
    BY <1>2, <2>1, QuietSpend, SlotsKept
  <2> QED BY <1>1, <2>2, <2>3 DEF IInv
<1> QED
  BY <1>3, <1>4, <1>5, <1>6, <1>7, <1>8, <1>9, <1>10 DEF Next, CallStep, Replay, ReplayDryRun,
     OtherStep
-----------------------------------------------------------------------------
LEMMA Inductive ==
    ASSUME ParametersOK
    PROVE  Spec => []IInv
<1>1. Init => IInv
  BY InitInv
<1>2. IInv /\ [Next]_vars => IInv'
  BY NextInv
<1> QED BY <1>1, <1>2, PTL DEF Spec

\* Every table, and what every call holds at each of its statements, has its
\* type: a row that a call decides on or consumes is there to be updated.
THEOREM TypeCorrect ==
    ASSUME ParametersOK
    PROVE  Spec => []TypeOK
<1>1. IInv => TypeOK
  BY DEF IInv
<1> QED BY <1>1, Inductive, PTL

\* Unless two calls overlapped on its row, an approval lets one execution
\* happen and was given by somebody other than who executed: consuming it,
\* confirming the dry run and inserting the execution are three statements.
THEOREM ApprovalSpentTheorem ==
    ASSUME ParametersOK
    PROVE  Spec => []ApprovalSpentOnce
<1>1. IInv => ApprovalSpentOnce
  BY DEF IInv, SpendInv
<1> QED BY <1>1, Inductive, PTL

\* Unless two updates of the policy overlapped, the change freeze is what an
\* operator last asked for, whatever else is updated meanwhile.
THEOREM FreezeTheorem == Spec => []FreezeIsKept
<1>1. Init => FreezeIsKept
  BY InitInv DEF IInv
<1>2. FreezeIsKept /\ [Next]_vars => FreezeIsKept'
  BY FreezeNext
<1> QED BY <1>1, <1>2, PTL DEF Spec

\* Two reservations of one scope overlap only if the count of the later one
\* came before the earlier one was inserted, or failed.
THEOREM OverlapTheorem ==
    ASSUME ParametersOK
    PROVE  Spec => []NoUnseenOverlap
<1>1. IInv => NoUnseenOverlap
  BY DEF IInv, SlotInv
<1> QED BY <1>1, Inductive, PTL
=============================================================================
