----------------------------- MODULE FollowUps -----------------------------
(***************************************************************************)
(* The daily operations of the cockpit.  The tasks are derived from alerts,*)
(* tickets, runbook failures, readiness domains and setup, each time they  *)
(* are asked for; what an operator has done about a task is a row of its   *)
(* own, found by the key of the task.  An action derives the tasks, reads  *)
(* the row again and writes the whole row back; nothing is locked.         *)
(***************************************************************************)
EXTENDS Integers, Sequences, FiniteSets

CONSTANTS
    Calls,          \* requests under way
    Tasks,          \* task keys
    Kind,           \* alert, ticket, runbook, go_live, activation, feedback
    Seen(_),        \* what the tables can say of a task of a kind, without the time
    Owners,
    Policies,       \* what the default policy of ticket escalation is set to: for each
                    \* priority two windows, of which the first is the shorter, and an owner
    Instants,       \* the minutes the clock shows
    MaxWrites,      \* bound on the rows written
    Absent

VARIABLES
    source,     \* what the other tables say of a task, or Absent
    policy,     \* the row default-ticket-sla, read whenever tasks are derived
    rows,       \* ops_daily_follow_up_states: task -> row or Absent
    calls,
    log,        \* the rows written: by what action, and what it had read
    now

vars == <<source, policy, rows, calls, log, now>>

Idle == [pc |-> "idle"]
Least(x, y) == IF x < y THEN x ELSE y
-----------------------------------------------------------------------------
(* From an alert or a ticket to a priority: the score rises with the age. *)
SeverityScore == [critical |-> 930, warning |-> 780, info |-> 620]
AlertBoost    == [open |-> 40, acknowledged |-> 10]
TicketScore   == [critical |-> 900, high |-> 820, medium |-> 710, low |-> 620]
TicketBoost   == [open |-> 35, in_progress |-> 15]

Level(score, critical, high) ==
    IF score >= critical THEN "critical"
    ELSE IF score >= high THEN "high" ELSE IF score >= 680 THEN "medium" ELSE "low"

AlertLevel(s) ==
    Level(Least(SeverityScore[s.weight] + AlertBoost[s.status] + Least(now - s.at, 180), 999), 920, 800)
TicketLevel(s) ==
    Level(Least(TicketScore[s.weight] + TicketBoost[s.status] + Least(now - s.at, 120), 999), 900, 780)
RunbookLevel(s) ==
    IF s.failed >= 3 \/ 2 * s.failed >= s.runs THEN "critical"
    ELSE IF s.failed >= 2 \/ 4 * s.failed >= s.runs THEN "high" ELSE "medium"

Priority(t) ==
    CASE Kind[t] = "alert"   -> AlertLevel(source[t])
      [] Kind[t] = "ticket"  -> TicketLevel(source[t])
      [] Kind[t] = "runbook" -> RunbookLevel(source[t])
      [] Kind[t] = "go_live" -> IF source[t].weight = "blocking" THEN "critical" ELSE "high"
      [] OTHER -> source[t].weight

\* Seeded fault: the windows of an alert grow with its priority.
AlertWindowsSwapped == [critical |-> <<120, 240>>, high |-> <<30, 60>>,
                        medium |-> <<360, 720>>, low |-> <<720, 1440>>]

\* What stands for a policy that is not there; a row of it need not give a higher
\* priority less time, as each priority's windows are checked by themselves.
DefaultPolicy == [windows |-> [critical |-> <<30, 60>>, high |-> <<60, 120>>,
                               medium |-> <<120, 240>>, low |-> <<240, 480>>],
                  owner   |-> "ops-escalation"]

\* Minutes until a task is due and until it is escalated.
AlertWindows   == [critical |-> <<30, 60>>, high |-> <<120, 240>>,
                   medium |-> <<360, 720>>, low |-> <<720, 1440>>]
RunbookWindows == [critical |-> <<360, 720>>, high |-> <<720, 1440>>, medium |-> <<1440, 2880>>]

Windows(t) ==
    CASE Kind[t] = "alert"    -> AlertWindows[Priority(t)]
      [] Kind[t] = "ticket"   -> policy.windows[Priority(t)]
      [] Kind[t] = "runbook"  -> RunbookWindows[Priority(t)]
      [] Kind[t] = "go_live"  -> IF source[t].weight = "blocking" THEN <<0, 60>> ELSE <<720, 1440>>
      [] Kind[t] = "feedback" -> <<0, 360>>
      [] OTHER -> IF source[t].weight = "high" THEN <<720, 1440>> ELSE <<1080, 1800>>

Candidates == {t \in Tasks : source[t] # Absent}

\* A readiness domain and a setup task count from the moment they are looked at.
ObservedAt(t) == IF Kind[t] \in {"go_live", "activation"} THEN now ELSE source[t].at
DueAt(t)      == ObservedAt(t) + Windows(t)[1]
EscalateAt(t) == ObservedAt(t) + Windows(t)[2]

Base(t) ==
    CASE Kind[t] \in {"alert", "ticket", "runbook"} -> IF DueAt(t) <= now THEN "overdue" ELSE "due_today"
      [] Kind[t] = "go_live"  -> IF source[t].weight = "blocking" THEN "blocked" ELSE "due_today"
      [] Kind[t] = "feedback" -> "blocked"
      [] OTHER -> "due_today"
-----------------------------------------------------------------------------
(* From a task and its row to what is shown. *)
State(t) == IF rows[t] = Absent THEN "new" ELSE rows[t].state

\* Seeded fault: a deferral without an end.
DeferredForGood(t) ==
    IF State(t) = "completed" THEN "completed"
    ELSE IF State(t) = "deferred" THEN "deferred" ELSE Base(t)

Status(t) ==
    IF State(t) = "completed" THEN "completed"
    ELSE IF State(t) = "deferred" /\ rows[t].defer # Absent /\ rows[t].defer > now THEN "deferred"
    ELSE Base(t)

\* A ticket has its assignee, a runbook the owner of its route.
OwnerOf(t) ==
    IF rows[t] # Absent /\ rows[t].owner # Absent THEN rows[t].owner
    ELSE IF Kind[t] \in {"ticket", "runbook"} /\ source[t].assignee # Absent THEN source[t].assignee
    ELSE policy.owner

StatusRank == [blocked |-> 5, overdue |-> 4, due_today |-> 3, deferred |-> 2, completed |-> 1]
PriorityRank == [critical |-> 4, high |-> 3, medium |-> 2, low |-> 1]

Before(t, u) ==
    LET p == <<-StatusRank[Status(t)], -PriorityRank[Priority(t)], DueAt(t), -ObservedAt(t)>>
        q == <<-StatusRank[Status(u)], -PriorityRank[Priority(u)], DueAt(u), -ObservedAt(u)>>
    IN \E i \in 1..4 : p[i] < q[i] /\ \A j \in 1..i - 1 : p[j] = q[j]

\* Tasks that tie are in the order of their keys.
Recommended == {t \in Candidates : \A u \in Candidates : ~Before(u, t)}

Carryover == {t \in Candidates : Status(t) \in {"overdue", "blocked"}}
EscalationCandidates ==
    {t \in Carryover : /\ Priority(t) \in {"critical", "high"}
                       /\ State(t) # "acknowledged"
                       /\ EscalateAt(t) <= now}

Summary == [status   |-> [s \in DOMAIN StatusRank |-> Cardinality({t \in Candidates : Status(t) = s})],
            priority |-> [p \in DOMAIN PriorityRank |-> Cardinality({t \in Candidates : Priority(t) = p})],
            acknowledged |-> Cardinality({t \in Candidates : State(t) = "acknowledged"})]
-----------------------------------------------------------------------------
Init == /\ source = [t \in Tasks |-> Absent]
        /\ policy = DefaultPolicy
        /\ rows = [t \in Tasks |-> Absent]
        /\ calls = [c \in Calls |-> Idle]
        /\ log = <<>>
        /\ now \in Instants /\ \A i \in Instants : now <= i

\* The other tables change: a task appears, is seen again, changes or goes.
Observe ==
    /\ \E t \in Tasks :
         \/ \E s \in Seen(Kind[t]) : source' = [source EXCEPT ![t] = [s EXCEPT !.at = now]]
         \/ source' = [source EXCEPT ![t] = Absent]
    /\ UNCHANGED <<policy, rows, calls, log, now>>

\* update_ticket_escalation_policy, or a profile that is applied or reverted.
EditPolicy == /\ policy' \in Policies
              /\ UNCHANGED <<source, rows, calls, log, now>>

Tick == /\ \E next \in Instants : /\ next > now
                                  /\ \A other \in Instants : other > now => other >= next
                                  /\ now' = next
        /\ UNCHANGED <<source, policy, rows, calls, log>>

Begin(c, t, action, extra) ==
    /\ calls[c] = Idle /\ t \in Candidates
    /\ calls' = [calls EXCEPT ![c] = [pc |-> "reread", task |-> t, action |-> action,
                                      extra |-> extra, saw |-> Len(log)]]
    /\ UNCHANGED <<source, policy, rows, log, now>>

\* Only a deferral needs a time, and it has to be ahead.
BeginFollowUp(c) ==
    \E t \in Tasks, action \in {"acknowledge", "complete", "defer"}, until \in Instants \cup {Absent} :
      /\ IF action = "defer" THEN until \in Instants /\ until > now ELSE until = Absent
      /\ Begin(c, t, action, until)

BeginAssignment(c) == \E t \in Tasks, owner \in Owners : Begin(c, t, "owner", owner)

BeginEscalation(c) == \E t \in EscalationCandidates : Begin(c, t, "escalate", OwnerOf(t))

\* The upsert reads the row once more, for what it keeps of it.
Reread(c) ==
    /\ calls[c].pc = "reread"
    /\ calls' = [calls EXCEPT ![c] = [pc |-> "write", task |-> @.task, action |-> @.action,
                    extra |-> @.extra, saw |-> @.saw, read |-> Len(log), row |-> rows[@.task]]]
    /\ UNCHANGED <<source, policy, rows, log, now>>

NewState == [acknowledge |-> "acknowledged", complete |-> "completed", defer |-> "deferred"]

\* Seeded fault: a follow-up writes a row without the owner assigned before.
FreshFollowUp(call) == [state |-> NewState[call.action], defer |-> call.extra, owner |-> Absent]

FollowUpRow(call) ==
    [state |-> NewState[call.action], defer |-> call.extra,
     owner |-> IF call.row = Absent THEN Absent ELSE call.row.owner]

AssignedRow(call) ==
    IF call.row = Absent THEN [state |-> "acknowledged", defer |-> Absent, owner |-> call.extra]
    ELSE [call.row EXCEPT !.owner = call.extra]

EscalatedRow(call) ==
    IF call.row = Absent THEN [state |-> "acknowledged", defer |-> Absent, owner |-> Absent]
    ELSE [call.row EXCEPT !.state = "acknowledged"]

Write(c) ==
    /\ calls[c].pc = "write" /\ Len(log) < MaxWrites
    /\ LET call == calls[c]
           row == CASE call.action = "owner" -> AssignedRow(call)
                    [] call.action = "escalate" -> EscalatedRow(call)
                    [] OTHER -> FollowUpRow(call)
       IN /\ rows' = [rows EXCEPT ![call.task] = row]
          /\ log' = Append(log, [task |-> call.task, action |-> call.action, owner |-> row.owner,
                                 saw |-> call.saw, read |-> call.read])
    /\ calls' = [calls EXCEPT ![c] = Idle]
    /\ UNCHANGED <<source, policy, now>>

Abandon(c) == /\ calls[c] # Idle
              /\ calls' = [calls EXCEPT ![c] = Idle]
              /\ UNCHANGED <<source, policy, rows, log, now>>

Next == \/ Observe \/ EditPolicy \/ Tick
        \/ \E c \in Calls : \/ BeginFollowUp(c) \/ BeginAssignment(c) \/ BeginEscalation(c)
                            \/ Reread(c) \/ Write(c) \/ Abandon(c)

Spec == Init /\ [][Next]_vars
-----------------------------------------------------------------------------
(* Properties *)

Of(t, action) == {i \in DOMAIN log : log[i].task = t /\ log[i].action = action}
Writes(t, from) == {i \in DOMAIN log : i > from /\ log[i].task = t}

\* Whoever acts at the same time: a task that was completed stays so until
\* somebody acknowledges or defers it, or an action is written that had looked
\* before; an owner stays assigned until an action is written that had read the
\* row before; and a task is escalated twice only by two that looked together,
\* or after another action in between.
FollowUpsAreKept ==
    \A t \in Tasks :
      /\ \A k \in Of(t, "complete") :
           \/ rows[t].state = "completed"
           \/ \E i \in Writes(t, k) : log[i].action \in {"acknowledge", "defer"} \/ log[i].saw < k
      /\ \A k \in Of(t, "owner") :
           \/ rows[t].owner = log[k].owner
           \/ \E i \in Writes(t, k) : log[i].action = "owner" \/ log[i].read < k
      /\ \A i, j \in Of(t, "escalate") :
           i < j => log[j].saw < i \/ \E m \in Writes(t, i) : m < j /\ log[m].action # "escalate"

\* A task that is overdue stays so until it is seen again, changes or goes: an
\* alert's priority rises with its age and the time allowed gets shorter.  Only a
\* ticket may be due later again: when the policy is edited, or when its priority
\* rises to one that the policy gives more time.
StillOverdue ==
    \A t \in Tasks :
        t \in Candidates /\ source'[t] = source[t] /\ Base(t) = "overdue" =>
          \/ Base(t)' = "overdue"
          \/ /\ Kind[t] = "ticket"
             /\ \/ policy' # policy
                \/ policy.windows[Priority(t)'][1] > policy.windows[Priority(t)][1]
OverdueStays == [][StillOverdue]_vars

\* A task that is blocked or overdue is carried over unless it is completed or
\* its deferral still lasts; and while there is such a task, such a one is
\* recommended.
UrgentIsShown ==
    LET urgent == {t \in Candidates : Base(t) \in {"blocked", "overdue"}
                                      /\ (rows[t] # Absent => rows[t].state # "completed")
                                      /\ (State(t) = "deferred" => rows[t].defer <= now)}
    IN urgent \subseteq Carryover /\ (urgent # {} => Recommended \subseteq urgent)
=============================================================================
