--------------------------- MODULE ChangeCalendar ---------------------------
(***************************************************************************)
(* The change calendar: what speaks against an operation in a slot, the    *)
(* reservation of slots, and what the calendar shows.  A reservation is    *)
(* made by a handler that counts overlaps, evaluates the conflicts and     *)
(* inserts, each by a statement of its own.                                *)
(*                                                                         *)
(* The tables of the policy, of the playbook approvals and of the workflow *)
(* requests belong to other components; this one reads them.               *)
(***************************************************************************)
EXTENDS MaintenanceWindows, Sequences

CONSTANTS
    Calls,       \* concurrent requests to the API
    Slots,       \* slots asked for, [start, end]
    Sites,       \* sites a slot is reserved for
    Everywhere,  \* no site given
    Counted      \* whether the query that counts overlaps succeeds

VARIABLES
    now,              \* the clock
    policy,           \* workflow_playbook_execution_policies: [freeze, windows]
    approvals,        \* workflow_playbook_approval_requests, by id
    workflowPending,  \* whether some workflow request is 'pending_approval'
    reservations,     \* ops_change_calendar_reservations in order of insertion
    calls             \* calls[c]: the handler's local state

calendarVars == <<now, policy, approvals, workflowPending, reservations, calls>>

Idle == [pc |-> "idle"]
At(c, pc) == calls[c].pc = pc
Goto(c, state) == calls' = [calls EXCEPT ![c] = state]
Return(c) == Goto(c, Idle)

RiskLevels == {"medium", "high"}
NeedsWindow(risk) == risk \in {"high", "critical"}
-----------------------------------------------------------------------------
(* Conflicts *)

PendingPlaybooks == {a \in DOMAIN approvals :
                        approvals[a].status = "pending" /\ approvals[a].expires > now}

Conflicts(s, e, risk) ==
    {code \in {"change_freeze", "outside_maintenance_window", "approval_backlog"} :
        CASE code = "change_freeze" -> policy.freeze
          [] code = "approval_backlog" -> workflowPending \/ PendingPlaybooks # {}
          [] OTHER -> NeedsWindow(risk) /\ ~SlotIsInWindow(Kept(policy.windows), s, e)}

\* A backlog of approvals is shown but does not stand against a reservation.
Blocking(s, e, risk) == Conflicts(s, e, risk) \ {"approval_backlog"}

\* Seeded fault: an overlap needs the same beginning.
SameStart(s, e, site) ==
    {i \in DOMAIN reservations : reservations[i].start = s
                                  /\ site \in {Everywhere, reservations[i].site}}

\* Reserved slots that overlap, as far as the scope asked for sees them: a
\* site does not see what is reserved for everywhere.
Overlaps(s, e, site) ==
    {i \in DOMAIN reservations :
        /\ reservations[i].start < e /\ reservations[i].end > s
        /\ site \in {Everywhere, reservations[i].site}}

\* Slots to recommend: free ones without a blocking conflict.
Recommended(from, duration, site, risk) ==
    {s \in CandidateStarts(Kept(policy.windows), from, duration) :
        Overlaps(s, s + duration, site) = {} /\ Blocking(s, s + duration, risk) = {}}

\* Intervals the calendar lists for a range of dates.
Events(first, last) ==
    LET b == first * DayLength
        e == (last + 1) * DayLength - 1
    IN UNION {WindowBounds(Kept(policy.windows), d) : d \in first..last}
       \cup {<<d * DayLength, (d + 1) * DayLength - 1>> :
                d \in {x \in first..last : policy.freeze}}
       \cup {<<b, approvals[a].expires>> :   \* since it was requested
                a \in {x \in DOMAIN approvals : /\ approvals[x].status = "pending"
                                                /\ approvals[x].expires >= b}}
       \cup {<<reservations[i].start, reservations[i].end>> :
                i \in {j \in DOMAIN reservations : reservations[j].start <= e
                                                   /\ reservations[j].end >= b}}
-----------------------------------------------------------------------------
(* create_change_calendar_reservation *)

\* A query that fails counts as no overlap.
CountOverlaps(c) ==
    /\ At(c, "idle")
    /\ \E slot \in Slots, site \in Sites \cup {Everywhere}, risk \in RiskLevels,
          counted \in Counted :
         /\ slot.end > slot.start
         /\ counted => Overlaps(slot.start, slot.end, site) = {}
         /\ Goto(c, [pc |-> "evaluate", start |-> slot.start, end |-> slot.end,
                     site |-> site, risk |-> risk,
                     saw |-> IF counted THEN Len(reservations) ELSE 0])
    /\ UNCHANGED <<now, policy, approvals, workflowPending, reservations>>

EvaluateConflicts(c) ==
    /\ At(c, "evaluate")
    /\ IF Blocking(calls[c].start, calls[c].end, calls[c].risk) = {}
         THEN Goto(c, [calls[c] EXCEPT !.pc = "reserve"])
         ELSE Return(c)
    /\ UNCHANGED <<now, policy, approvals, workflowPending, reservations>>

InsertReservation(c) ==
    /\ At(c, "reserve")
    /\ reservations' = Append(reservations, calls[c])
    /\ Return(c)
    /\ UNCHANGED <<now, policy, approvals, workflowPending>>

CalendarStep(c) == CountOverlaps(c) \/ EvaluateConflicts(c) \/ InsertReservation(c)
=============================================================================
