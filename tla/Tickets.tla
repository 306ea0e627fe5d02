------------------------------ MODULE Tickets ------------------------------
(***************************************************************************)
(* Tickets and their escalation.  A run of the escalation reads the policy *)
(* and the oldest active tickets, and hands over those that are past their *)
(* time in a transaction that comes later and writes them by id, whatever  *)
(* has become of them.  Nothing keeps two runs, a run and an operator, or  *)
(* two updates of the policy apart.                                        *)
(***************************************************************************)
EXTENDS Integers, Sequences, FiniteSets, FiniteSetsExt

CONSTANTS
    Calls,          \* concurrent requests to the API
    Users,          \* whom a ticket can be assigned to
    Nobody,         \* no assignee
    Priorities,
    Thresholds,     \* values of a window, in ticks of the clock
    ActiveLimit,    \* tickets one escalation run reads
    QueueLimit,     \* tickets the queue of the console reads
    HasWorkflow,    \* whether tickets ask for a workflow request
    MaxTickets, MaxNow, MaxActions   \* bounds

VARIABLES
    tickets,    \* in order of creation
    requests,   \* workflow requests made for tickets, in order
    actions,    \* ticket_escalation_actions, in order of insertion
    policy,     \* ticket_escalation_policies: the one row
    now,        \* the clock
    calls       \* calls[c]: the handler's local state

vars == <<tickets, requests, actions, policy, now, calls>>

Active == {"open", "in_progress"}
Settled == {"resolved", "closed", "cancelled"}

Idle == [pc |-> "idle"]
Goto(c, state) == calls' = [calls EXCEPT ![c] = state]

\* validate_escalation_pair, for every priority
IsPolicy(p) == \A x \in Priorities : 0 < p.near[x] /\ p.near[x] < p.breach[x]

EscalationPolicies == {p \in [enabled : BOOLEAN, near : [Priorities -> Thresholds],
                              breach : [Priorities -> Thresholds], owner : Users] : IsPolicy(p)}

Init ==
    /\ tickets = <<>> /\ requests = <<>> /\ actions = <<>>
    /\ policy \in EscalationPolicies /\ policy.enabled
    /\ now = 0
    /\ calls = [c \in Calls |-> Idle]
-----------------------------------------------------------------------------
(* Evaluation *)

\* The state of a ticket's escalation at an age.
StateAtAge(p, priority, status, age) ==
    IF ~p.enabled \/ status \notin Active THEN "normal"
    ELSE IF age >= p.breach[priority] THEN "breached"
    ELSE IF age >= p.near[priority] THEN "near_breach" ELSE "normal"

\* Seeded fault: an age is rounded down once too often.
StateOfLate(p, t, at) == StateAtAge(p, t.priority, t.status, Max({0, at - t.created - 1}))

StateOf(p, t, at) == StateAtAge(p, t.priority, t.status, Max({0, at - t.created}))

\* The preview of the policy editor.
Preview(p, priority, status, age, assignee) ==
    StateAtAge(p, priority, status, age) = "breached" /\ assignee # p.owner

ActiveIds == {i \in DOMAIN tickets : tickets[i].status \in Active}

\* Tickets are numbered as they are created: the limits of the two lists and
\* the order in which a run works through its own.
Oldest(n, ids) == {i \in ids : Cardinality({j \in ids : j < i}) < n}
Newest(n, ids) == {i \in ids : Cardinality({j \in ids : j > i}) < n}
InOrder(ids) ==
    [k \in 1..Cardinality(ids) |-> CHOOSE i \in ids : Cardinality({j \in ids : j < i}) = k - 1]

\* list_ticket_escalation_queue: of the newest active tickets, those in danger.
Queue == {i \in Newest(QueueLimit, ActiveIds) : StateOf(policy, tickets[i], now) # "normal"}
-----------------------------------------------------------------------------
(* Operators *)

CreateTicket ==
    /\ Len(tickets) < MaxTickets
    /\ \E priority \in Priorities, assignee \in Users \cup {Nobody}, workflow \in HasWorkflow :
         /\ requests' = IF workflow THEN Append(requests, "pending_approval") ELSE requests
         /\ tickets' = Append(tickets, [status |-> "open", priority |-> priority,
                                        assignee |-> assignee, created |-> now,
                                        request |-> IF workflow THEN Len(requests) + 1 ELSE 0])
    /\ UNCHANGED <<actions, policy, now, calls>>

\* Any status may follow any other; a settled ticket may be opened again.
UpdateStatus ==
    /\ \E i \in DOMAIN tickets, status \in Active \cup Settled :
         tickets' = [tickets EXCEPT ![i].status = status]
    /\ UNCHANGED <<requests, actions, policy, now, calls>>

ReadPolicy(c) ==
    /\ calls[c] = Idle
    /\ Goto(c, [pc |-> "policy", seen |-> policy])
    /\ UNCHANGED <<tickets, requests, actions, policy, now>>

\* What the request leaves out is taken from the row that was read.
WritePolicy(c) ==
    /\ calls[c].pc = "policy"
    /\ \E p \in EscalationPolicies :
         /\ \E kept \in {{}, {"owner"}, {"near", "breach"}, {"enabled", "owner"}} :
              policy' = [f \in DOMAIN p |-> IF f \in kept THEN calls[c].seen[f] ELSE p[f]]
    /\ Goto(c, Idle)
    /\ UNCHANGED <<tickets, requests, actions, now>>
-----------------------------------------------------------------------------
(* run_ticket_escalation *)

ReadForRun(c) ==
    /\ calls[c] = Idle
    /\ Goto(c, [pc |-> "candidates", policy |-> policy])
    /\ UNCHANGED <<tickets, requests, actions, policy, now>>

\* The tickets as they are read, the oldest first.
ReadCandidates(c) ==
    /\ calls[c].pc = "candidates"
    /\ Goto(c, [pc |-> "escalate", policy |-> calls[c].policy, at |-> now, saw |-> Len(actions),
                read |-> [i \in Oldest(ActiveLimit, ActiveIds) |-> tickets[i]]])
    /\ UNCHANGED <<tickets, requests, actions, policy, now>>

DueIn(c) == {i \in DOMAIN calls[c].read :
                StateOf(calls[c].policy, calls[c].read[i], calls[c].at) = "breached"}

\* Seeded fault: what the owner already has is handed over again.
OwnedInNone(c) == {}

OwnedIn(c) == {i \in DueIn(c) : calls[c].read[i].assignee = calls[c].policy.owner}

\* The transaction; a dry run rolls it back.
Escalate(c) ==
    /\ calls[c].pc = "escalate"
    /\ Len(actions) + Cardinality(DueIn(c)) <= MaxActions
    /\ LET owner == calls[c].policy.owner
           row(i) == [ticket |-> i, kind |-> IF i \in OwnedIn(c) THEN "skipped" ELSE "escalated",
                      to |-> owner, saw |-> calls[c].saw]
           ids == InOrder(DueIn(c))
       IN \/ /\ tickets' = [i \in DOMAIN tickets |->
                              IF i \in DueIn(c) \ OwnedIn(c)
                                THEN [tickets[i] EXCEPT !.assignee = owner] ELSE tickets[i]]
             /\ actions' = actions \o [k \in DOMAIN ids |-> row(ids[k])]
          \/ UNCHANGED <<tickets, actions>>
    /\ Goto(c, Idle)
    /\ UNCHANGED <<requests, policy, now>>
-----------------------------------------------------------------------------
ClockTicks == /\ now < MaxNow
              /\ now' = now + 1
              /\ UNCHANGED <<tickets, requests, actions, policy, calls>>

Next ==
    \/ CreateTicket \/ UpdateStatus \/ ClockTicks
    \/ \E c \in Calls : \/ ReadPolicy(c) \/ WritePolicy(c)
                        \/ ReadForRun(c) \/ ReadCandidates(c) \/ Escalate(c)

Spec == Init /\ [][Next]_vars
-----------------------------------------------------------------------------
(* Properties *)

\* A ticket is handed over to an owner once: again only after it went to
\* another one, or by a run that had read it before.
EscalatedOnce ==
    \A i, j \in DOMAIN actions :
        LET a == actions[i]
            b == actions[j]
        IN /\ i < j /\ b.saw >= i /\ a.ticket = b.ticket
           /\ a.kind = "escalated" /\ b.kind = "escalated" /\ a.to = b.to
           => \E k \in i + 1..j - 1 : actions[k].ticket = a.ticket /\ actions[k].to # a.to

\* A run started now would hand over what the queue shows as breached, unless
\* one of the two limits cuts the list.
QueueShowsDue ==
    Cardinality(ActiveIds) <= Min({ActiveLimit, QueueLimit}) =>
        \A i \in DOMAIN tickets :
            LET t == tickets[i]
            IN Preview(policy, t.priority, t.status, now - t.created, t.assignee)
               <=> /\ i \in Queue /\ StateOf(policy, t, now) = "breached"
                   /\ t.assignee # policy.owner
=============================================================================
