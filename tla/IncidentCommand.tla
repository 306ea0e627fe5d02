-------------------------- MODULE IncidentCommand --------------------------
(***************************************************************************)
(* The command of an incident: one row for an alert and the events that    *)
(* tell how it came about.  An update begins its transaction, reads the    *)
(* row, checks the transition from the status it read and writes the whole *)
(* row back.  The reading locks nothing, and the time of an event is that  *)
(* of the beginning.                                                       *)
(***************************************************************************)
EXTENDS Integers, Sequences

CONSTANTS
    Writers,    \* requests that update the command
    Owners,
    Absent,     \* no row, no ETA, or a field the request leaves out
    Etas,       \* values of an ETA
    MaxUpdates  \* bound on the requests that are begun

VARIABLES
    command,    \* the row of the alert, or Absent
    events,     \* ops_incident_command_events, by id
    writers,    \* writers[w]: the local state of a request
    begun       \* transactions begun: NOW() is the start of a transaction

vars == <<command, events, writers, begun>>

Statuses == {"triage", "in_progress", "blocked", "mitigated", "postmortem"}
Idle == [pc |-> "idle"]

\* validate_incident_transition
Successors == [triage      |-> {"in_progress", "blocked", "mitigated"},
               in_progress |-> {"blocked", "mitigated", "postmortem"},
               blocked     |-> {"in_progress", "mitigated"},
               mitigated   |-> {"postmortem", "in_progress"},
               postmortem  |-> {"in_progress"}]
Allowed(from, to) == to = from \/ to \in Successors[from]

\* validate_incident_required_fields
Complete(status, eta) == status \in {"in_progress", "blocked"} => eta # Absent

StatusOf(row) == IF row = Absent THEN "triage" ELSE row.status

Init == /\ command = Absent /\ events = <<>> /\ begun = 0
        /\ writers = [w \in Writers |-> Idle]

Begin(w) ==
    /\ writers[w] = Idle /\ begun < MaxUpdates
    /\ begun' = begun + 1
    /\ writers' = [writers EXCEPT ![w] = [pc |-> "read", at |-> begun + 1, began |-> Len(events)]]
    /\ UNCHANGED <<command, events>>

ReadCommand(w) ==
    /\ writers[w].pc = "read"
    /\ writers' = [writers EXCEPT ![w] = [pc |-> "write", at |-> writers[w].at,
                                          began |-> writers[w].began, saw |-> Len(events),
                                          read |-> command]]
    /\ UNCHANGED <<command, events, begun>>

\* What the row becomes: a field that is left out is taken from the row that
\* was read; an ETA may also be cleared.
Merged(read, status, owner, eta, actor) ==
    [status |-> IF status = Absent THEN StatusOf(read) ELSE status,
     owner |-> IF owner # Absent THEN owner ELSE IF read = Absent THEN actor ELSE read.owner,
     eta |-> IF eta # "left out" THEN eta ELSE IF read = Absent THEN Absent ELSE read.eta]

\* Seeded fault: only what the request gives is written over the row.
WriteGivenOnly(w, status, owner, eta, actor) ==
    LET row == IF command = Absent THEN Absent ELSE command
    IN Merged(row, status, owner, eta, actor)

Written(w, status, owner, eta, actor) == Merged(writers[w].read, status, owner, eta, actor)

\* The transition is checked against the row that was read; a request that
\* changes nothing, its blocker and its summary neither, writes no row and no
\* event.
Update(w, status, owner, eta, actor, retold) ==
    LET read == writers[w].read
        next == Merged(read, status, owner, eta, actor)
        row == Written(w, status, owner, eta, actor)
    IN /\ Allowed(StatusOf(read), next.status) /\ Complete(next.status, next.eta)
       /\ IF next = read /\ ~retold THEN UNCHANGED <<command, events>>
          ELSE /\ command' = row
               /\ events' = Append(events,
                    [status |-> next.status, owner |-> next.owner, eta |-> next.eta,
                     from |-> StatusOf(read), at |-> writers[w].at,
                     began |-> writers[w].began, saw |-> writers[w].saw])

WriteCommand(w) ==
    /\ writers[w].pc = "write"
    /\ \E status \in Statuses \cup {Absent}, owner \in Owners \cup {Absent},
          eta \in Etas \cup {Absent, "left out"}, actor \in Owners, retold \in BOOLEAN :
         Update(w, status, owner, eta, actor, retold)
    /\ writers' = [writers EXCEPT ![w] = Idle]
    /\ UNCHANGED begun

\* A request that is refused, or fails, rolls back.
Refuse(w) == /\ writers[w].pc \in {"read", "write"}
             /\ writers' = [writers EXCEPT ![w] = Idle]
             /\ UNCHANGED <<command, events, begun>>

Next == \E w \in Writers : Begin(w) \/ ReadCommand(w) \/ WriteCommand(w) \/ Refuse(w)

Spec == Init /\ [][Next]_vars
-----------------------------------------------------------------------------
(* What is shown: an alert without a row counts as in triage. *)
ListItem == [status |-> StatusOf(command),
             owner |-> IF command = Absent THEN "unassigned" ELSE command.owner]

\* The timeline has the newest first: by the start of the transaction, then by
\* id.
ShownBefore(i, j) == \/ events[i].at > events[j].at
                     \/ events[i].at = events[j].at /\ i > j
-----------------------------------------------------------------------------
(* Properties *)

\* Whoever updates at the same time, a command that is worked on or blocked has
\* an ETA; a transition in the order of the writes that is not allowed came
\* from a request that had read before the other wrote; what was written last is
\* what the command shows; and the timeline has an event before one that was
\* written later only when the later one's transaction had begun before the
\* other wrote, as then the time it carries is the older one.
CommandIsCoherent ==
    /\ command # Absent => Complete(command.status, command.eta)
    /\ \A i \in DOMAIN events \ {1} :
         events[i].saw >= i - 1 => Allowed(events[i - 1].status, events[i].status)
    /\ events # <<>> =>
         LET last == events[Len(events)]
         IN ListItem = [status |-> last.status, owner |-> last.owner]
    /\ \A i, j \in DOMAIN events : i < j /\ ShownBefore(i, j) => events[j].began < i
=============================================================================
