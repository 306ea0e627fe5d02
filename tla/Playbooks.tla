----------------------------- MODULE Playbooks -----------------------------
(***************************************************************************)
(* Running a playbook.  A risky one needs a dry run, an approval of that   *)
(* dry run by somebody else, the two tokens they give out, and a moment at *)
(* which policy and calendar allow it (or an override).  Every check reads *)
(* a row that a later statement updates by id alone, so that calls that    *)
(* overlap act on what they read and not on what is stored.                *)
(*                                                                         *)
(* Reservations of the change calendar are made beside it, by calls of the *)
(* same API.  A replay goes through the same steps as an execution.        *)
(***************************************************************************)
EXTENDS ChangeCalendar

CONSTANTS
    Actors,       \* operators
    DryRunIds, ApprovalIds,
    TTL,          \* lifetime of a dry run's token and of an approval, in ticks
    FreezeInputs, WindowInputs,  \* what a policy update may give, {} for "not given"
    Backlogs,     \* whether a workflow request may wait for approval
    MaxNow,       \* bound: the clock
    MaxRuns       \* bound: executions and reservations

VARIABLES
    dryRuns,   \* workflow_playbook_executions with mode dry_run, by id
    runs,      \* those with mode execute, in order of insertion
    asked,     \* the last value of the change freeze that an operator asked for
    stale      \* history: rows updated by a call that had read an older version

vars == <<calendarVars, dryRuns, runs, asked, stale>>
bookVars == <<approvals, dryRuns, runs, asked, stale>>

NoRow == [status |-> "none"]
Active == {"pending", "approved"}

ActiveApproval(d) ==
    {a \in ApprovalIds : approvals[a].status \in Active /\ approvals[a].dryRun = d}

\* The partial unique index: one active approval per dry run.
IndexAllows(a, row) ==
    row.status \in Active => ActiveApproval(row.dryRun) \subseteq {a}

\* An update of row a by call c, which had read it as calls[c].seen.
Overwrite(c, a, row) ==
    /\ approvals' = [approvals EXCEPT ![a] = row]
    /\ stale' = IF calls[c].seen = approvals[a] THEN stale ELSE stale \cup {a}

Init ==
    /\ now = 0
    /\ policy = [freeze |-> FALSE, windows |-> DefaultWindows]
    /\ approvals = [a \in ApprovalIds |-> NoRow]
    /\ workflowPending = FALSE
    /\ reservations = <<>>
    /\ calls = [c \in Calls |-> Idle]
    /\ dryRuns = [d \in DryRunIds |-> NoRow]
    /\ runs = <<>>
    /\ asked = FALSE
    /\ stale = {}
-----------------------------------------------------------------------------
(* The policy: read, merged with what the request gives, written back        *)

\* Seeded fault: what the request leaves out is reset.
ResetWhenNotGiven(c) ==
    /\ At(c, "policy")
    /\ policy' = [freeze |-> TRUE \in calls[c].freeze, windows |-> calls[c].windows]
    /\ asked' = IF calls[c].freeze = {} THEN asked ELSE TRUE \in calls[c].freeze
    /\ stale' = IF calls[c].seen = policy THEN stale ELSE stale \cup {"policy"}
    /\ Return(c)
    /\ UNCHANGED <<now, approvals, workflowPending, reservations, dryRuns, runs>>

UpdatePolicyRead(c) ==
    /\ At(c, "idle")
    /\ \E freeze \in FreezeInputs, windows \in WindowInputs :
         /\ windows # {} => Acceptable(windows)
         /\ Goto(c, [pc |-> "policy", seen |-> policy, freeze |-> freeze,
                     windows |-> IF windows = {} THEN policy.windows ELSE windows])
    /\ UNCHANGED <<now, policy, workflowPending, reservations, bookVars>>

UpdatePolicyWrite(c) ==
    /\ At(c, "policy")
    /\ LET freeze == calls[c].freeze
       IN /\ policy' = [freeze  |-> IF freeze = {} THEN calls[c].seen.freeze ELSE TRUE \in freeze,
                        windows |-> calls[c].windows]
          /\ asked' = IF freeze = {} THEN asked ELSE TRUE \in freeze
    /\ stale' = IF calls[c].seen = policy THEN stale ELSE stale \cup {"policy"}
    /\ Return(c)
    /\ UNCHANGED <<now, approvals, workflowPending, reservations, dryRuns, runs>>
-----------------------------------------------------------------------------
(* Dry run, request of an approval, and its decision                         *)

DryRun(by) ==
    /\ \E d \in DryRunIds :
         /\ dryRuns[d] = NoRow
         /\ dryRuns' = [dryRuns EXCEPT ![d] =
                          [status |-> "planned", by |-> by, expires |-> now + TTL]]
    /\ UNCHANGED <<now, policy, workflowPending, reservations, calls, approvals, runs, asked, stale>>

\* A replay as a dry run repeats any execution, dry runs included.
ReplayDryRun(by) ==
    /\ runs # <<>> \/ \E d \in DryRunIds : dryRuns[d] # NoRow
    /\ DryRun(by)

\* The dry run is read, then the approval that is active for it.
RequestApproval(c) ==
    /\ At(c, "idle")
    /\ \E d \in DryRunIds :
         /\ dryRuns[d].status \in {"planned", "succeeded"}
         /\ dryRuns[d].expires > now
         /\ \A a \in ActiveApproval(d) : approvals[a].expires <= now
         /\ Goto(c, [pc |-> "request", dryRun |-> d, by |-> dryRuns[d].by,
                     expired |-> ActiveApproval(d),
                     expires |-> Min({dryRuns[d].expires, now + TTL})])
    /\ UNCHANGED <<now, policy, workflowPending, reservations, bookVars>>

\* What was found expired is marked so, and the new request inserted unless
\* the unique index finds another active one.
InsertApproval(c) ==
    /\ At(c, "request")
    /\ LET marked == [a \in ApprovalIds |->
                        IF a \in calls[c].expired /\ approvals[a].status \in Active
                          THEN [approvals[a] EXCEPT !.status = "expired"] ELSE approvals[a]]
       IN \E a \in ApprovalIds :
            /\ approvals[a] = NoRow
            /\ approvals' = IF ActiveApproval(calls[c].dryRun) \subseteq calls[c].expired
                              THEN [marked EXCEPT ![a] =
                                      [status |-> "pending", dryRun |-> calls[c].dryRun,
                                       by |-> calls[c].by, approver |-> calls[c].by, token |-> 0,
                                       expires |-> calls[c].expires]]
                              ELSE marked
    /\ Return(c)
    /\ UNCHANGED <<now, policy, workflowPending, reservations, dryRuns, runs, asked, stale>>

\* Seeded fault: a request that was decided, or used, may be approved again.
ReadToApproveAgain(c) ==
    /\ At(c, "idle")
    /\ \E a \in ApprovalIds, by \in Actors :
         /\ approvals[a].status # "none" /\ by # approvals[a].by
         /\ approvals[a].expires > now
         /\ Goto(c, [pc |-> "approve", id |-> a, by |-> by, seen |-> approvals[a]])
    /\ UNCHANGED <<now, policy, workflowPending, reservations, bookVars>>

ReadToApprove(c) ==
    /\ At(c, "idle")
    /\ \E a \in ApprovalIds, by \in Actors :
         /\ approvals[a].status = "pending" /\ by # approvals[a].by
         /\ approvals[a].expires > now
         /\ Goto(c, [pc |-> "approve", id |-> a, by |-> by, seen |-> approvals[a]])
    /\ UNCHANGED <<now, policy, workflowPending, reservations, bookVars>>

Approve(c) ==
    /\ At(c, "approve")
    /\ LET a == calls[c].id
           row == [approvals[a] EXCEPT !.status = "approved", !.approver = calls[c].by,
                                       !.token = approvals[a].token + 1]
       IN IF IndexAllows(a, row) THEN Overwrite(c, a, row) ELSE UNCHANGED <<approvals, stale>>
    /\ Return(c)
    /\ UNCHANGED <<now, policy, workflowPending, reservations, dryRuns, runs, asked>>

ReadToReject(c) ==
    /\ At(c, "idle")
    /\ \E a \in ApprovalIds, by \in Actors :
         /\ approvals[a].status = "pending" /\ approvals[a].expires > now
         /\ Goto(c, [pc |-> "reject", id |-> a, by |-> by, seen |-> approvals[a]])
    /\ UNCHANGED <<now, policy, workflowPending, reservations, bookVars>>

Reject(c) ==
    /\ At(c, "reject")
    /\ LET a == calls[c].id
       IN Overwrite(c, a, [approvals[a] EXCEPT !.status = "rejected", !.approver = calls[c].by])
    /\ Return(c)
    /\ UNCHANGED <<now, policy, workflowPending, reservations, dryRuns, runs, asked>>

\* A decision on a request that is past its time marks it instead.
ExpireApproval ==
    /\ \E a \in ApprovalIds :
         /\ approvals[a].status \in Active /\ approvals[a].expires <= now
         /\ approvals' = [approvals EXCEPT ![a].status = "expired"]
    /\ UNCHANGED <<now, policy, workflowPending, reservations, calls, dryRuns, runs, asked, stale>>
-----------------------------------------------------------------------------
(* Execution *)

RuntimeAllows == ~policy.freeze /\ IsInWindow(policy.windows, now)

\* enforce_playbook_execution_policy: a backlog of approvals counts here.
PolicyAllows == RuntimeAllows /\ Conflicts(now, now + 1, "high") = {}

Execute(c) ==
    /\ At(c, "idle")
    /\ Len(runs) < MaxRuns
    /\ \E by \in Actors, d \in DryRunIds, a \in ApprovalIds, override \in BOOLEAN :
         /\ PolicyAllows \/ override
         /\ approvals[a].status # "none"
         /\ Goto(c, [pc |-> "approval", by |-> by, dryRun |-> d, id |-> a,
                     token |-> approvals[a].token])
    /\ UNCHANGED <<now, policy, workflowPending, reservations, bookVars>>

\* A replay is an execution with the stored parameters of another one.
Replay(c) ==
    /\ runs # <<>> \/ \E d \in DryRunIds : dryRuns[d] # NoRow
    /\ Execute(c)

\* verify_and_consume_approval, up to its update
VerifyApproval(c) ==
    /\ At(c, "approval")
    /\ LET a == approvals[calls[c].id]
           meant == /\ calls[c].dryRun = a.dryRun /\ calls[c].by = a.by
                    /\ a.approver # calls[c].by /\ a.status = "approved"
       IN IF /\ meant /\ a.expires > now /\ calls[c].token = a.token
            THEN /\ Goto(c, [pc |-> "consume", by |-> calls[c].by, dryRun |-> calls[c].dryRun,
                             id |-> calls[c].id, seen |-> a])
                 /\ UNCHANGED approvals
            ELSE /\ Return(c)
                 /\ approvals' = IF meant /\ a.expires <= now
                                   THEN [approvals EXCEPT ![calls[c].id].status = "expired"]
                                   ELSE approvals
    /\ UNCHANGED <<now, policy, workflowPending, reservations, dryRuns, runs, asked, stale>>

\* Seeded fault: the approval stays as it is.
ConsumeNothing(c) ==
    /\ At(c, "consume")
    /\ Goto(c, [calls[c] EXCEPT !.pc = "confirm"])
    /\ UNCHANGED <<now, policy, workflowPending, reservations, bookVars>>

ConsumeApproval(c) ==
    /\ At(c, "consume")
    /\ Overwrite(c, calls[c].id, [approvals[calls[c].id] EXCEPT !.status = "used"])
    /\ Goto(c, [calls[c] EXCEPT !.pc = "confirm"])
    /\ UNCHANGED <<now, policy, workflowPending, reservations, dryRuns, runs, asked>>

\* validate_confirmation_transition: a dry run may have been confirmed before.
Verdict(d, by) ==
    IF d.by # by \/ d.status \notin {"planned", "succeeded"} THEN "refused"
    ELSE IF d.expires < now THEN "expired" ELSE "confirmed"

\* The token of the dry run may be wrong; an approval that was consumed stays so.
VerifyConfirmation(c) ==
    /\ At(c, "confirm")
    /\ LET verdict == Verdict(dryRuns[calls[c].dryRun], calls[c].by)
       IN \/ /\ verdict = "confirmed"
             /\ Goto(c, [calls[c] EXCEPT !.pc = "confirmed"])
             /\ UNCHANGED dryRuns
          \/ /\ Return(c)
             /\ dryRuns' = IF verdict = "expired"
                             THEN [dryRuns EXCEPT ![calls[c].dryRun].status = "expired"]
                             ELSE dryRuns
    /\ UNCHANGED <<now, policy, workflowPending, reservations, approvals, runs, asked, stale>>

ConfirmDryRun(c) ==
    /\ At(c, "confirmed")
    /\ dryRuns' = [dryRuns EXCEPT ![calls[c].dryRun].status = "succeeded"]
    /\ Goto(c, [calls[c] EXCEPT !.pc = "insert"])
    /\ UNCHANGED <<now, policy, workflowPending, reservations, approvals, runs, asked, stale>>

InsertRun(c) ==
    /\ At(c, "insert")
    /\ runs' = Append(runs, [by |-> calls[c].by, approval |-> calls[c].id])
    /\ Return(c)
    /\ UNCHANGED <<now, policy, workflowPending, reservations, approvals, dryRuns, asked, stale>>
-----------------------------------------------------------------------------
ClockTicks ==
    /\ now < MaxNow
    /\ now' = now + 1
    /\ UNCHANGED <<policy, workflowPending, reservations, calls, bookVars>>

\* Requests of the workflow component come and are decided.
WorkflowBacklogChanges ==
    /\ workflowPending' \in Backlogs
    /\ UNCHANGED <<now, policy, reservations, calls, bookVars>>

ReservationStep(c) ==
    /\ Len(reservations) < MaxRuns
    /\ CalendarStep(c)
    /\ UNCHANGED <<dryRuns, runs, asked, stale>>

CallStep(c) ==
    \/ UpdatePolicyRead(c) \/ UpdatePolicyWrite(c)
    \/ RequestApproval(c) \/ InsertApproval(c)
    \/ ReadToApprove(c) \/ Approve(c) \/ ReadToReject(c) \/ Reject(c)
    \/ Execute(c) \/ Replay(c) \/ VerifyApproval(c) \/ ConsumeApproval(c)
    \/ VerifyConfirmation(c) \/ ConfirmDryRun(c) \/ InsertRun(c)
    \/ ReservationStep(c)

Next ==
    \/ ClockTicks \/ WorkflowBacklogChanges \/ ExpireApproval
    \/ \E by \in Actors : DryRun(by) \/ ReplayDryRun(by)
    \/ \E c \in Calls : CallStep(c)

Spec == Init /\ [][Next]_vars
-----------------------------------------------------------------------------
(* Properties *)

\* Unless two calls overlapped on its row, an approval lets one execution
\* happen, whatever is tried again, expires or is decided meanwhile; and it
\* was given, and not taken back, by somebody other than who executed.
ApprovalSpentOnce ==
    \A i \in DOMAIN runs :
        LET a == runs[i].approval
        IN a \notin stale =>
             /\ approvals[a].status = "used" /\ approvals[a].approver # runs[i].by
             /\ \A j \in DOMAIN runs : runs[j].approval = a => j = i

\* Unless two updates of the policy overlapped, the change freeze is what an
\* operator last asked for, through any update of something else.
FreezeIsKept == "policy" \notin stale => policy.freeze = asked

\* Two reservations of one scope overlap only if their calls did, the later one
\* having counted before the earlier one was inserted, or if its count failed.
NoUnseenOverlap ==
    \A i, j \in DOMAIN reservations :
        LET r == reservations[i]
            s == reservations[j]
        IN i < j /\ r.site = s.site /\ r.start < s.end /\ s.start < r.end => s.saw < i
=============================================================================
