----------------------- MODULE MCAlertsTicketsProofs -----------------------
(***************************************************************************)
(* Proofs about Tickets, RiskTickets, IncidentCommand and BackupDr in the  *)
(* behaviours of MCAlertsTickets, for any requests, sources, tickets,      *)
(* limits, updates, schedules and runs: why a breach is escalated once and *)
(* shown, why a risk has one ticket, why the command and its events tell   *)
(* one story, why a backup is run once for a time it was due, and why a    *)
(* closure stays.                                                          *)
(***************************************************************************)
EXTENDS MCAlertsTickets, SequenceTheorems, FiniteSetTheorems, WellFoundedInduction, TLAPS

(* Tickets of risks *)

TicketRow == [status : Linking!Active \cup Linking!Settled, priority : RiskPriorities,
              assignee : RiskUsers \cup {"nobody"}, created : Nat, request : Nat]
RiskRow == [source : Sources, saw : Nat]
LinkCall == [pc : {"link"}, source : Sources, found : SUBSET Nat, saw : Nat,
             unassigned : SUBSET Nat]

LinkingType ==
    /\ ticketRows \in Seq(TicketRow)
    /\ now \in Nat
    /\ links \in [Sources -> Nat]
    /\ DOMAIN risk \subseteq DOMAIN ticketRows
    /\ \A i \in DOMAIN risk : risk[i] \in RiskRow
    /\ calls \in [Calls -> {Linking!Idle} \cup LinkCall]

\* What is settled has been recorded as such.
SettledKnown ==
    \A i \in DOMAIN ticketRows : ticketRows[i].status \in Linking!Settled => i \in settled

\* A link goes to the newest ticket of its source.
LinksNewest ==
    /\ \A s \in Sources : links[s] # 0 => links[s] \in DOMAIN risk /\ risk[links[s]].source = s
    /\ \A i \in DOMAIN risk : i <= links[risk[i].source]

\* Ticket i was settled, or the link was turned away from it, to a ticket up to
\* j, by a request that had looked before ticket i was there.
Passed(i, j) ==
    \/ i \in settled
    \/ \E k \in DOMAIN risk :
         i < k /\ k <= j /\ risk[k].source = risk[i].source /\ risk[k].saw < i

\* A later ticket of the source needs that, whatever became of both since.
LaterNeedsPassed ==
    \A i, j \in DOMAIN risk : i < j /\ risk[i].source = risk[j].source => Passed(i, j)

\* A request that found no ticket saw only tickets that had been passed.
LookedAt ==
    \A c \in Calls : calls[c].pc = "link" =>
        /\ calls[c].saw <= Len(ticketRows)
        /\ calls[c].found = {} =>
             \A i \in DOMAIN risk :
                 i <= calls[c].saw /\ risk[i].source = calls[c].source
                   => Passed(i, Len(ticketRows))

LinkingInv == LinkingType /\ SettledKnown /\ LinksNewest /\ LaterNeedsPassed /\ LookedAt
-----------------------------------------------------------------------------
(* Escalations *)

BreachPolicy == [enabled : BOOLEAN, near : [TicketPriorities -> {1, 2}],
                 breach : [TicketPriorities -> {1, 2}], owner : TicketUsers]
BreachTicket == [status : Escalating!Active \cup Escalating!Settled, priority : TicketPriorities,
                 assignee : TicketUsers \cup {"nobody"}, created : Nat, request : {0}]
ActionRow == [ticket : Nat, kind : {"skipped", "escalated"}, to : TicketUsers, saw : Nat]

BreachType ==
    /\ ticketRows \in Seq(BreachTicket)
    /\ actions \in Seq(ActionRow)
    /\ \A i \in DOMAIN actions : actions[i].ticket \in DOMAIN ticketRows
    /\ now \in Nat
    /\ \A i \in DOMAIN ticketRows : ticketRows[i].created <= now
    /\ policy \in BreachPolicy
    /\ DOMAIN calls = Calls

\* Among the first n actions, what ticket t was handed over by is followed by
\* one that handed it to its assignee: the last one did.
HandedOver(t, n, assignee) ==
    \A i \in 1..n : actions[i].ticket = t /\ actions[i].kind = "escalated" =>
        \E k \in i..n : /\ actions[k].ticket = t /\ actions[k].kind = "escalated"
                        /\ actions[k].to = assignee

AssigneesFollow ==
    \A t \in DOMAIN ticketRows : HandedOver(t, Len(actions), ticketRows[t].assignee)

\* So it was when a run read its candidates.
HasRead(c) ==
    /\ calls[c].policy \in BreachPolicy
    /\ calls[c].saw \in 0..Len(actions)
    /\ DOMAIN calls[c].read \subseteq DOMAIN ticketRows
    /\ \A t \in DOMAIN calls[c].read : HandedOver(t, calls[c].saw, calls[c].read[t].assignee)

RunsHaveRead ==
    \A c \in Calls :
        \/ calls[c].pc = "idle"
        \/ calls[c].pc = "policy" /\ calls[c].seen \in BreachPolicy
        \/ calls[c].pc = "candidates" /\ calls[c].policy \in BreachPolicy
        \/ calls[c].pc = "escalate" /\ HasRead(c)

BreachInv == BreachType /\ AssigneesFollow /\ RunsHaveRead /\ Escalating!EscalatedOnce
-----------------------------------------------------------------------------
(* The incident command *)

CommandRow == [status : Commanding!Statuses, owner : CommandOwners, eta : Etas \cup {Absent}]
EventRow == [status : Commanding!Statuses, owner : CommandOwners, eta : Etas \cup {Absent},
             from : Commanding!Statuses, at : Nat, began : Nat, saw : Nat]
BeginCall == [pc : {"read"}, at : Nat, began : Nat]
WriteCall == [pc : {"write"}, at : Nat, began : Nat, saw : Nat, read : CommandRow \cup {Absent}]
CommandCalls == {Commanding!Idle} \cup BeginCall \cup WriteCall

CommandType ==
    /\ command \in CommandRow \cup {Absent}
    /\ events \in Seq(EventRow)
    /\ begun \in Nat
    /\ writers \in [Calls -> CommandCalls]

\* The newest event by id tells what the row is.
NewestIsRow ==
    events # <<>> =>
        LET e == events[Len(events)]
        IN command = [status |-> e.status, owner |-> e.owner, eta |-> e.eta]

RowIsComplete == command # Absent => Commanding!Complete(command.status, command.eta)

\* A request that nobody has overtaken read the row as it is.
ReadsCurrent ==
    \A w \in Calls : writers[w].pc = "write" =>
        /\ writers[w].saw <= Len(events)
        /\ writers[w].saw = Len(events) => writers[w].read = command

\* A transaction is later than the events that had been written when it began.
BeganLater ==
    \A w \in Calls : writers[w].pc \in {"read", "write"} =>
        /\ writers[w].at <= begun /\ writers[w].began <= Len(events)
        /\ \A k \in DOMAIN events : k <= writers[w].began => events[k].at < writers[w].at

\* So is its event, and no later than now.
EventsInOrder ==
    \A i \in DOMAIN events :
        /\ events[i].at <= begun
        /\ \A k \in DOMAIN events : k < i /\ k <= events[i].began => events[k].at < events[i].at

SeenTransitions ==
    \A i \in DOMAIN events \ {1} :
        events[i].saw >= i - 1 => Commanding!Allowed(events[i - 1].status, events[i].status)

CommandInv == /\ CommandType /\ NewestIsRow /\ RowIsComplete
              /\ ReadsCurrent /\ BeganLater /\ EventsInOrder /\ SeenTransitions

-----------------------------------------------------------------------------
(* Backups and the evidence of restores *)

Time == Int \cup {Absent}
PolicyRow == [backup : BackupSchedules, drill : DrillSchedules, enabled : BOOLEAN,
              nextBackup : Int, nextDrill : Time]
BackupEntry == [p : BackupKeys, type : {"backup", "drill"}, due : Time]
BackupRun == [p : BackupKeys, type : {"backup", "drill"}, due : Time,
              status : {"failed", "succeeded"}, at : Nat, done : BOOLEAN, after : SUBSET Nat]
EvidenceRow == [run : Nat, closure : [status : {"open", "closed"}, at : Time]]
ComplianceRow == [mode : {"advisory", "enforced"}, sla : Slas, of : SUBSET {"failed", "drill"}]

ChangeCall == [pc : {"update"}, p : BackupKeys, read : PolicyRow, old : BOOLEAN, at : Nat]
QueueCall == [pc : {"run"}, fails : BOOLEAN, done : SUBSET Nat, queue : SUBSET BackupEntry]
RunCall == [pc : {"insert", "reschedule"}, p : BackupKeys, type : {"backup", "drill"}, due : Time,
            fails : BOOLEAN, done : SUBSET Nat, queue : SUBSET BackupEntry,
            read : PolicyRow, old : BOOLEAN, at : Nat, row : Nat]
AttachCall == [pc : {"attach"}, run : Nat, close : BOOLEAN]
EvidenceCall == [pc : {"evidence"}, row : Nat, close : BOOLEAN, at : EvidenceRow]
ComplianceCall == [pc : {"compliance"}, read : ComplianceRow]
BackupCall == {Backups!Idle} \cup ChangeCall \cup QueueCall \cup RunCall
              \cup AttachCall \cup EvidenceCall \cup ComplianceCall

BackupType ==
    /\ DOMAIN policy \subseteq BackupKeys
    /\ \A p \in DOMAIN policy : policy[p] \in PolicyRow
    /\ policy = [p \in DOMAIN policy |-> policy[p]]
    /\ runs \in Seq(BackupRun)
    /\ \A i \in DOMAIN runs : runs[i].p \in DOMAIN policy
    /\ evidence \in Seq(EvidenceRow)
    /\ compliance \in ComplianceRow
    /\ now \in Nat
    /\ calls \in [Calls -> BackupCall]

Holds(c) == calls[c].pc \in {"update", "insert", "reschedule"}
Runs(c) == calls[c].pc \in {"run", "insert", "reschedule"}

\* What was due is not after a time.
Until(due, t) == due # Absent => due <= t

\* A policy nobody overwrote has a next drill when it has drills, and its next
\* times are after what was run for them.
TimesAhead ==
    \A p \in DOMAIN policy \ outdated :
        /\ policy[p].enabled <=> policy[p].nextDrill # Absent
        /\ \A i \in DOMAIN runs : runs[i].done /\ runs[i].p = p /\ runs[i].due # Absent =>
               \/ Backups!NextTime(p, runs[i].type) = Absent
               \/ Backups!NextTime(p, runs[i].type) > runs[i].due

\* A call that has read the policy read it in time, and what it read is the row
\* unless the row was written since.
ReadKnown(c) == Holds(c) => calls[c].p \in DOMAIN policy /\ calls[c].at <= now
ReadFresh(c) ==
    Holds(c) /\ ~calls[c].old =>
        /\ calls[c].read = policy[calls[c].p]
        /\ \A i \in DOMAIN runs : runs[i].done /\ runs[i].p = calls[c].p =>
               Until(runs[i].due, calls[c].at)

\* The runs a tick had seen as done were not for the time the entry is due.
Again(i, e) == /\ e.p \notin outdated /\ e.due # Absent
               /\ runs[i].p = e.p /\ runs[i].type = e.type /\ runs[i].due = e.due
EntriesNew(c) ==
    Runs(c) =>
        /\ calls[c].done \subseteq DOMAIN runs
        /\ \A e \in calls[c].queue : /\ e.p \in DOMAIN policy /\ Until(e.due, now)
                                     /\ \A i \in calls[c].done : ~Again(i, e)
RunNew(c) ==
    Holds(c) /\ Runs(c) =>
        /\ Until(calls[c].due, calls[c].at)
        /\ calls[c].pc = "insert" => \A i \in calls[c].done : ~Again(i, calls[c])
        /\ calls[c].pc = "reschedule" =>
             /\ calls[c].row \in DOMAIN runs
             /\ runs[calls[c].row].p = calls[c].p /\ runs[calls[c].row].type = calls[c].type
             /\ runs[calls[c].row].due = calls[c].due
CallOk(c) == ReadKnown(c) /\ ReadFresh(c) /\ EntriesNew(c) /\ RunNew(c)
RunsNew == \A j \in DOMAIN runs :
    /\ Until(runs[j].due, now)
    /\ \A i \in runs[j].after : i \in DOMAIN runs /\ ~Again(i, runs[j])

\* A closure has a time; a call updates evidence it had read while it was open.
ClosuresPast ==
    /\ \A e \in DOMAIN evidence : evidence[e].closure.status = "closed" =>
           evidence[e].closure.at \in Nat /\ evidence[e].closure.at <= now
    /\ \A c \in Calls : calls[c].pc = "evidence" =>
           calls[c].row \in DOMAIN evidence /\ calls[c].at.closure.status = "open"

BackupInv == /\ BackupType /\ TimesAhead /\ RunsNew /\ ClosuresPast
             /\ \A c \in Calls : CallOk(c)

AllInv == /\ focus = "escalating" => BreachInv
          /\ focus = "linking" => LinkingInv
          /\ focus = "commanding" => CommandInv
          /\ focus \in {"scheduling", "proving"} => BackupInv
-----------------------------------------------------------------------------
(* Tickets of risks: every step keeps the invariant *)

LEMMA TicketsTyped ==
    ASSUME LinkingType
    PROVE  /\ Len(ticketRows) \in Nat /\ DOMAIN ticketRows = 1..Len(ticketRows)
           /\ \A i \in DOMAIN ticketRows : ticketRows[i] \in TicketRow
<1>1. ticketRows \in Seq(TicketRow)
  BY DEF LinkingType
<1> QED BY <1>1, LenProperties, ElementOfSeq

\* A step that makes no ticket and leaves links and risks alone.
LEMMA LinkingKept ==
    ASSUME LinkingInv, UNCHANGED <<now, links, risk>>, settled \subseteq settled',
           ticketRows' \in Seq(TicketRow), DOMAIN ticketRows' = DOMAIN ticketRows,
           \A i \in DOMAIN ticketRows : ticketRows'[i].status \in Linking!Settled => i \in settled',
           calls' \in [Calls -> {Linking!Idle} \cup LinkCall],
           \A c \in Calls : calls'[c].pc = "link" =>
             \/ calls'[c] = calls[c]
             \/ /\ calls'[c].saw <= Len(ticketRows)
                /\ calls'[c].found = {} =>
                     \A i \in DOMAIN risk :
                         i <= calls'[c].saw /\ risk[i].source = calls'[c].source
                           => Passed(i, Len(ticketRows))
    PROVE  LinkingInv'
<1>1. Len(ticketRows') = Len(ticketRows)
  <2>1. DOMAIN ticketRows' = 1..Len(ticketRows') /\ Len(ticketRows') \in Nat
    BY LenProperties
  <2>2. DOMAIN ticketRows = 1..Len(ticketRows) /\ Len(ticketRows) \in Nat
    BY TicketsTyped DEF LinkingInv
  <2>3. \A m, n \in Nat : 1..m = 1..n => m = n
    <3> SUFFICES ASSUME NEW m \in Nat, NEW n \in Nat, 1..m = 1..n PROVE m = n
      OBVIOUS
    <3>1. m > 0 => m \in 1..n
      OBVIOUS
    <3>2. n > 0 => n \in 1..m
      OBVIOUS
    <3> QED BY <3>1, <3>2
  <2> QED BY <2>1, <2>2, <2>3
<1>2. LinkingType'
  BY DEF LinkingInv, LinkingType
<1>3. SettledKnown' /\ LinksNewest'
  BY DEF LinkingInv, SettledKnown, LinksNewest
<1>4. \A i, j : Passed(i, j) => Passed(i, j)'
  BY DEF Passed
<1>5. LaterNeedsPassed'
  BY <1>4 DEF LinkingInv, LaterNeedsPassed
<1>6. LookedAt'
  <2> SUFFICES ASSUME NEW c \in Calls, calls'[c].pc = "link"
               PROVE  /\ calls'[c].saw <= Len(ticketRows)
                      /\ calls'[c].found = {} =>
                           \A i \in DOMAIN risk :
                               i <= calls'[c].saw /\ risk[i].source = calls'[c].source
                                 => Passed(i, Len(ticketRows))
    BY <1>1, <1>4 DEF LookedAt
  <2>1. CASE calls'[c] = calls[c]
    BY <2>1 DEF LinkingInv, LookedAt
  <2> QED BY <2>1
<1> QED BY <1>2, <1>3, <1>5, <1>6 DEF LinkingInv

LEMMA LinkAt ==
    ASSUME LinkingType, NEW c \in Calls, calls[c].pc = "link"
    PROVE  calls[c] \in LinkCall
  BY DEF LinkingType, Linking!Idle

LEMMA LinkGoto ==
    ASSUME LinkingType, NEW c \in Calls, NEW x, Linking!Goto(c, x)
    PROVE  /\ calls'[c] = x /\ \A e \in Calls \ {c} : calls'[e] = calls[e]
           /\ x \in {Linking!Idle} \cup LinkCall
                => calls' \in [Calls -> {Linking!Idle} \cup LinkCall]
  BY DEF LinkingType, Linking!Goto

\* Of the steps of Tickets only the update of a status is left.
LEMMA TicketStepKept ==
    ASSUME LinkingInv, Linking!Next, OnlyLinking, UNCHANGED <<links, risk>>,
           settled' = settled \cup {i \in DOMAIN ticketRows :
                                       ticketRows'[i].status \in Linking!Settled}
    PROVE  LinkingInv'
<1>1. LinkingType
  BY DEF LinkingInv
<1>2. CASE Linking!UpdateStatus
  <2>1. PICK i \in DOMAIN ticketRows, status \in Linking!Active \cup Linking!Settled :
          ticketRows' = [ticketRows EXCEPT ![i] = [ticketRows[i] EXCEPT !.status = status]]
    BY <1>2 DEF Linking!UpdateStatus
  <2>2. [ticketRows[i] EXCEPT !.status = status] \in TicketRow
    <3>1. ticketRows[i] \in TicketRow
      BY <1>1, TicketsTyped
    <3> QED BY <3>1 DEF TicketRow
  <2>3. ticketRows \in Seq(TicketRow)
    BY <1>1 DEF LinkingType
  <2>4. ticketRows' \in Seq(TicketRow) /\ DOMAIN ticketRows' = DOMAIN ticketRows
    BY <1>1, <2>1, <2>2, <2>3, ExceptSeq, TicketsTyped
  <2>5. UNCHANGED <<now, calls>>
    BY <1>2 DEF Linking!UpdateStatus
  <2>6. calls' \in [Calls -> {Linking!Idle} \cup LinkCall]
    BY <1>1, <2>5 DEF LinkingType
  <2> QED BY <2>4, <2>5, <2>6, LinkingKept
<1>3. ~Linking!CreateTicket
  BY DEF Linking!CreateTicket
<1>4. ~Linking!ClockTicks
  BY <1>1 DEF Linking!ClockTicks, LinkingType
<1>5. ASSUME NEW c \in Calls PROVE calls[c].pc \in {"idle", "link"}
  BY <1>1 DEF LinkingType, Linking!Idle, LinkCall
<1>6. ASSUME NEW c \in Calls PROVE ~Linking!ReadPolicy(c) /\ ~Linking!ReadForRun(c)
  <2>1. ASSUME NEW x, Linking!Goto(c, x) PROVE x.pc \in {"idle", "link"}
    BY <1>1, <2>1, LinkGoto DEF OnlyLinking
  <2>2. ~Linking!ReadPolicy(c)
    BY <2>1 DEF Linking!ReadPolicy
  <2>3. ~Linking!ReadForRun(c)
    BY <2>1 DEF Linking!ReadForRun
  <2> QED BY <2>2, <2>3
<1>7. ASSUME NEW c \in Calls
      PROVE  ~Linking!WritePolicy(c) /\ ~Linking!ReadCandidates(c) /\ ~Linking!Escalate(c)
  BY <1>5 DEF Linking!WritePolicy, Linking!ReadCandidates, Linking!Escalate
<1> QED BY <1>2, <1>3, <1>4, <1>6, <1>7 DEF Linking!Next

\* What is not found is settled, or passed up to the ticket that is.
LEMMA ReadLinkKept ==
    ASSUME LinkingInv, NEW c \in Calls, Linking!ReadLink(c)
    PROVE  LinkingInv'
<1>1. LinkingType /\ SettledKnown /\ LinksNewest /\ LaterNeedsPassed
  BY DEF LinkingInv
<1>2. PICK s \in Sources :
        Linking!Goto(c, [pc |-> "link", source |-> s, found |-> Linking!Linked(s),
                         saw |-> Len(ticketRows),
                         unassigned |-> {i \in Linking!Linked(s) : ticketRows[i].assignee = "nobody"}])
  BY DEF Linking!ReadLink
<1>3. links[s] \in Nat /\ Linking!Linked(s) \subseteq Nat /\ Len(ticketRows) \in Nat
  BY <1>1, TicketsTyped DEF LinkingType, Linking!Linked
<1> DEFINE x == [pc |-> "link", source |-> s, found |-> Linking!Linked(s),
                 saw |-> Len(ticketRows),
                 unassigned |-> {i \in Linking!Linked(s) : ticketRows[i].assignee = "nobody"}]
<1>4. x \in LinkCall
  BY <1>3 DEF LinkCall
<1>5. UNCHANGED <<ticketRows, now, links, risk, settled>>
  BY DEF Linking!ReadLink
<1>6. /\ calls'[c].saw = Len(ticketRows) /\ calls'[c].found = Linking!Linked(s)
      /\ calls'[c].source = s
      /\ \A e \in Calls \ {c} : calls'[e] = calls[e]
      /\ calls' \in [Calls -> {Linking!Idle} \cup LinkCall]
  BY <1>1, <1>2, <1>4, LinkGoto
<1>7. ASSUME Linking!Linked(s) = {}, NEW i \in DOMAIN risk, risk[i].source = s
      PROVE  Passed(i, Len(ticketRows))
  <2> SUFFICES ASSUME NEW l, l = links[s] PROVE Passed(i, Len(ticketRows))
    OBVIOUS
  <2>1. i \in DOMAIN ticketRows /\ i \in Nat /\ i # 0 /\ i <= l /\ l \in Nat
    BY <1>1, <1>3, <1>7, TicketsTyped DEF LinksNewest, LinkingType
  <2>2. l # 0
    BY <2>1
  <2>3. l \in DOMAIN risk /\ risk[l].source = s /\ l \in DOMAIN ticketRows
    BY <1>1, <2>2 DEF LinksNewest, LinkingType
  <2>4. ticketRows[l].status \notin Linking!Active
    BY <1>7, <2>2 DEF Linking!Linked
  <2>5. l \in settled
    <3>1. ticketRows[l].status \in Linking!Active \cup Linking!Settled
      BY <1>1, <2>3, TicketsTyped DEF TicketRow
    <3> QED BY <1>1, <2>3, <2>4, <3>1 DEF SettledKnown
  <2>6. CASE i = l
    BY <2>5, <2>6 DEF Passed
  <2>7. CASE i < l
    <3>1. Passed(i, l)
      BY <1>1, <1>7, <2>3, <2>7 DEF LaterNeedsPassed
    <3>2. l <= Len(ticketRows) /\ \A k \in DOMAIN risk : k \in Nat
      BY <1>1, <2>3, TicketsTyped DEF LinkingType
    <3> QED BY <1>3, <2>1, <3>1, <3>2 DEF Passed
  <2> QED BY <2>1, <2>6, <2>7
<1>8. \A i \in DOMAIN ticketRows : ticketRows'[i].status \in Linking!Settled => i \in settled'
  BY <1>1, <1>5 DEF SettledKnown
<1>9. ticketRows' \in Seq(TicketRow)
  BY <1>1, <1>5 DEF LinkingType
<1> HIDE DEF x
<1> QED BY <1>3, <1>5, <1>6, <1>7, <1>8, <1>9, LinkingKept

LEMMA AssignLinkedKept ==
    ASSUME LinkingInv, NEW c \in Calls, Linking!AssignLinked(c)
    PROVE  LinkingInv'
<1>1. LinkingType /\ SettledKnown
  BY DEF LinkingInv
<1>2. PICK owner \in RiskUsers :
        ticketRows' = [i \in DOMAIN ticketRows |->
                         IF i \in calls[c].unassigned
                           THEN [ticketRows[i] EXCEPT !.assignee = owner] ELSE ticketRows[i]]
  BY DEF Linking!AssignLinked
<1>3. \A i \in DOMAIN ticketRows : ticketRows[i] \in TicketRow
  BY <1>1, TicketsTyped
<1>4. \A i \in DOMAIN ticketRows :
        ticketRows'[i] \in TicketRow /\ ticketRows'[i].status = ticketRows[i].status
  BY <1>2, <1>3 DEF TicketRow
<1>5. DOMAIN ticketRows' = DOMAIN ticketRows /\ ticketRows' \in [DOMAIN ticketRows -> TicketRow]
  BY <1>2, <1>4
<1>6. ticketRows' \in Seq(TicketRow)
  BY <1>1, <1>5, TicketsTyped, SeqDef
<1>7. UNCHANGED <<now, links, risk, settled>>
  BY DEF Linking!AssignLinked
<1>8. /\ calls'[c] = Linking!Idle /\ \A e \in Calls \ {c} : calls'[e] = calls[e]
      /\ calls' \in [Calls -> {Linking!Idle} \cup LinkCall]
  BY <1>1, LinkGoto DEF Linking!AssignLinked
<1> QED BY <1>1, <1>4, <1>5, <1>6, <1>7, <1>8, LinkingKept DEF SettledKnown, Linking!Idle

LEMMA RollBackKept ==
    ASSUME LinkingInv, NEW c \in Calls, Linking!RollBack(c)
    PROVE  LinkingInv'
<1>1. LinkingType /\ SettledKnown
  BY DEF LinkingInv
<1>2. UNCHANGED <<ticketRows, now, links, risk, settled>>
  BY DEF Linking!RollBack
<1>3. /\ calls'[c] = Linking!Idle /\ \A e \in Calls \ {c} : calls'[e] = calls[e]
      /\ calls' \in [Calls -> {Linking!Idle} \cup LinkCall]
  BY <1>1, LinkGoto DEF Linking!RollBack
<1>4. ticketRows' \in Seq(TicketRow)
  BY <1>1, <1>2 DEF LinkingType
<1> QED BY <1>1, <1>2, <1>3, <1>4, LinkingKept DEF SettledKnown, Linking!Idle

\* A new ticket needs the earlier ones of its source to be passed: what its
\* request saw was, and what it did not see the new one passes itself.
LEMMA CreateLinkedKept ==
    ASSUME LinkingInv, NEW c \in Calls, Linking!CreateLinked(c)
    PROVE  LinkingInv'
<1> SUFFICES ASSUME NEW s, s = calls[c].source, NEW saw, saw = calls[c].saw,
                    NEW n, n = Len(ticketRows) + 1
             PROVE  LinkingInv'
  OBVIOUS
<1>1. LinkingType /\ SettledKnown /\ LinksNewest /\ LaterNeedsPassed /\ LookedAt
  BY DEF LinkingInv
<1>2. calls[c] \in LinkCall /\ calls[c].pc = "link" /\ calls[c].found = {}
      /\ s \in Sources /\ saw \in Nat
  BY <1>1, LinkAt DEF Linking!CreateLinked, LinkCall
<1>3. /\ Len(ticketRows) \in Nat /\ DOMAIN ticketRows = 1..Len(ticketRows)
      /\ n \in Nat /\ n \notin DOMAIN ticketRows
      /\ \A i \in DOMAIN risk : i \in DOMAIN ticketRows /\ i < n /\ i # 0 /\ i \in Nat
  <2>1. Len(ticketRows) \in Nat /\ DOMAIN ticketRows = 1..Len(ticketRows)
    BY <1>1, TicketsTyped
  <2> QED BY <1>1, <2>1 DEF LinkingType
<1>4. UNCHANGED <<now, settled>>
  BY DEF Linking!CreateLinked
<1>5. /\ ticketRows' \in Seq(TicketRow) /\ DOMAIN ticketRows' = 1..n /\ Len(ticketRows') = n
      /\ \A i \in DOMAIN ticketRows : ticketRows'[i] = ticketRows[i]
      /\ ticketRows'[n].status = "open"
  <2>1. PICK owner \in RiskUsers, priority \in RiskPriorities :
          ticketRows' = Append(ticketRows, [status |-> "open", priority |-> priority,
                                            assignee |-> owner, created |-> now, request |-> 0])
    BY DEF Linking!CreateLinked
  <2> DEFINE opened == [status |-> "open", priority |-> priority,
                        assignee |-> owner, created |-> now, request |-> 0]
  <2>2. opened \in TicketRow /\ opened.status = "open"
    BY <1>1 DEF TicketRow, LinkingType, Linking!Active
  <2>3. ticketRows \in Seq(TicketRow) /\ ticketRows' = Append(ticketRows, opened)
    BY <1>1, <2>1 DEF LinkingType
  <2> HIDE DEF opened
  <2> QED BY <1>3, <2>2, <2>3, AppendProperties, LenProperties
<1>6. links' = [links EXCEPT ![s] = n] /\ links' \in [Sources -> Nat]
  BY <1>1, <1>2, <1>3 DEF Linking!CreateLinked, LinkingType
<1>7. /\ DOMAIN risk' = DOMAIN risk \cup {n}
      /\ risk'[n] = [source |-> s, saw |-> saw]
      /\ \A i \in DOMAIN risk : risk'[i] = risk[i]
  BY <1>3 DEF Linking!CreateLinked
<1>8. risk'[n] \in RiskRow /\ risk'[n].source = s /\ risk'[n].saw = saw
  BY <1>2, <1>7 DEF RiskRow
<1>9. /\ calls'[c] = Linking!Idle /\ \A e \in Calls \ {c} : calls'[e] = calls[e]
      /\ calls' \in [Calls -> {Linking!Idle} \cup LinkCall]
  BY <1>1, LinkGoto DEF Linking!CreateLinked
<1>10. LinkingType'
  <2>1. \A i \in DOMAIN risk' : risk'[i] \in RiskRow
    BY <1>1, <1>7, <1>8 DEF LinkingType
  <2>2. DOMAIN risk' \subseteq DOMAIN ticketRows'
    BY <1>3, <1>5, <1>7
  <2> QED BY <1>1, <1>4, <1>5, <1>6, <1>9, <2>1, <2>2 DEF LinkingType
<1>11. SettledKnown'
  <2> SUFFICES ASSUME NEW i \in 1..n, ticketRows'[i].status \in Linking!Settled
               PROVE  i \in settled
    BY <1>4, <1>5 DEF SettledKnown
  <2>1. i # n
    BY <1>5 DEF Linking!Settled
  <2> QED BY <1>1, <1>3, <1>5, <2>1 DEF SettledKnown
<1>12. LinksNewest'
  <2>1. ASSUME NEW t \in Sources, links'[t] # 0
        PROVE  links'[t] \in DOMAIN risk' /\ risk'[links'[t]].source = t
    <3>1. CASE t = s
      BY <1>1, <1>6, <1>7, <1>8, <3>1 DEF LinkingType
    <3>2. CASE t # s
      BY <1>1, <1>6, <1>7, <2>1, <3>2 DEF LinkingType, LinksNewest
    <3> QED BY <3>1, <3>2
  <2>2. ASSUME NEW i \in DOMAIN risk' PROVE i <= links'[risk'[i].source]
    <3>1. links'[s] = n
      BY <1>1, <1>2, <1>6 DEF LinkingType
    <3>2. CASE i = n
      BY <1>3, <1>8, <3>1, <3>2
    <3>3. CASE i \in DOMAIN risk
      <4>1. risk'[i].source = risk[i].source /\ risk[i].source \in Sources
        BY <1>1, <1>7, <3>3 DEF LinkingType, RiskRow
      <4>2. i <= links[risk[i].source] /\ i <= n
        BY <1>1, <1>3, <3>3 DEF LinksNewest
      <4>3. CASE risk[i].source = s
        BY <3>1, <4>1, <4>2, <4>3
      <4>4. CASE risk[i].source # s
        BY <1>1, <1>6, <4>1, <4>2, <4>4 DEF LinkingType
      <4> QED BY <4>3, <4>4
    <3> QED BY <1>7, <3>2, <3>3
  <2> QED BY <2>1, <2>2 DEF LinksNewest
<1>13. ASSUME NEW i \in DOMAIN risk, NEW j \in Nat, Passed(i, j) PROVE Passed(i, j)'
  BY <1>4, <1>7, <1>13 DEF Passed
<1>14. LaterNeedsPassed'
  <2> SUFFICES ASSUME NEW i \in DOMAIN risk', NEW j \in DOMAIN risk', i < j,
                      risk'[i].source = risk'[j].source
               PROVE  Passed(i, j)'
    BY DEF LaterNeedsPassed
  <2>1. i \in DOMAIN risk /\ i # n
    BY <1>3, <1>7
  <2>2. CASE j \in DOMAIN risk
    <3>1. Passed(i, j) /\ j \in Nat
      BY <1>1, <1>3, <1>7, <2>1, <2>2 DEF LaterNeedsPassed
    <3> QED BY <1>13, <2>1, <3>1
  <2>3. CASE j = n
    <3>1. risk[i].source = s /\ risk'[i] = risk[i]
      BY <1>7, <1>8, <2>1, <2>3
    <3>2. CASE saw < i
      BY <1>3, <1>7, <1>8, <2>1, <2>3, <3>1, <3>2 DEF Passed
    <3>3. CASE i <= saw
      <4>1. Passed(i, Len(ticketRows))
        BY <1>1, <1>2, <2>1, <3>1, <3>3 DEF LookedAt
      <4>2. Passed(i, Len(ticketRows))'
        BY <1>4, <1>7, <2>1, <4>1, <1>5, <1>3 DEF Passed
      <4> QED BY <1>5, <2>3, <4>2
    <3> QED BY <1>2, <1>3, <2>1, <3>2, <3>3
  <2> QED BY <1>7, <2>2, <2>3
<1>15. LookedAt'
  <2> SUFFICES ASSUME NEW e \in Calls, calls'[e].pc = "link"
               PROVE  /\ calls'[e].saw <= n
                      /\ calls'[e].found = {} =>
                           \A i \in DOMAIN risk' :
                               i <= calls'[e].saw /\ risk'[i].source = calls'[e].source
                                 => Passed(i, n)'
    BY <1>5, <1>3 DEF LookedAt
  <2>1. e # c /\ calls'[e] = calls[e]
    BY <1>9 DEF Linking!Idle
  <2>2. calls[e].saw <= Len(ticketRows) /\ calls[e].saw \in Nat
    BY <1>1, <2>1, LinkAt DEF LookedAt, LinkCall
  <2>3. ASSUME calls[e].found = {}, NEW i \in DOMAIN risk', i <= calls[e].saw,
               risk'[i].source = calls[e].source
        PROVE  Passed(i, n)'
    <3>1. i \in DOMAIN risk /\ risk'[i] = risk[i]
      BY <1>3, <1>7, <2>2, <2>3
    <3>2. Passed(i, Len(ticketRows))
      BY <1>1, <2>1, <2>3, <3>1 DEF LookedAt
    <3>3. Passed(i, n)
      BY <1>3, <3>2 DEF Passed
    <3> QED BY <1>3, <1>13, <3>1, <3>3
  <2> QED BY <1>3, <2>1, <2>2, <2>3
<1> QED BY <1>10, <1>11, <1>12, <1>14, <1>15 DEF LinkingInv

LEMMA LinkingNext ==
    ASSUME LinkingInv, Linking!NextRisk, OnlyLinking
    PROVE  LinkingInv'
  BY TicketStepKept, ReadLinkKept, AssignLinkedKept, RollBackKept, CreateLinkedKept
     DEF Linking!NextRisk
-----------------------------------------------------------------------------
(* The incident command: every step keeps the invariant *)

LEMMA EventsTyped ==
    ASSUME CommandType
    PROVE  /\ Len(events) \in Nat /\ DOMAIN events = 1..Len(events)
           /\ \A i \in DOMAIN events : events[i] \in EventRow
           /\ events = <<>> <=> Len(events) = 0
<1>1. events \in Seq(EventRow)
  BY DEF CommandType
<1> QED BY <1>1, LenProperties, ElementOfSeq, EmptySeq

LEMMA WriterAt ==
    ASSUME CommandType, NEW w \in Calls
    PROVE  /\ writers[w].pc = "read" => writers[w] \in BeginCall
           /\ writers[w].pc = "write" => writers[w] \in WriteCall
  BY DEF CommandType, CommandCalls, BeginCall, WriteCall, Commanding!Idle

\* A row is not NULL, and its status is one of the five.
LEMMA StatusTyped ==
    ASSUME NEW seen \in CommandRow \cup {Absent}
    PROVE  /\ Commanding!StatusOf(seen) \in Commanding!Statuses
           /\ seen # Absent => seen \in CommandRow /\ Commanding!StatusOf(seen) = seen.status
  BY DEF CommandRow, Commanding!StatusOf, Commanding!Statuses

LEMMA BeginKept ==
    ASSUME CommandInv, NEW w \in Calls, Commanding!Begin(w)
    PROVE  CommandInv'
<1>1. CommandType
  BY DEF CommandInv
<1> DEFINE x == [pc |-> "read", at |-> begun + 1, began |-> Len(events)]
<1>2. x \in BeginCall
  BY <1>1, EventsTyped DEF BeginCall, CommandType
<1>3. /\ writers'[w] = x /\ \A v \in Calls \ {w} : writers'[v] = writers[v]
      /\ writers' \in [Calls -> CommandCalls]
  <2>1. writers' = [writers EXCEPT ![w] = x]
    BY DEF Commanding!Begin
  <2>2. x \in CommandCalls
    BY <1>2 DEF CommandCalls
  <2> HIDE DEF x
  <2> QED BY <1>1, <2>1, <2>2 DEF CommandType
<1>4. begun' = begun + 1 /\ begun \in Nat /\ UNCHANGED <<command, events>>
  BY <1>1 DEF Commanding!Begin, CommandType
<1>5. CommandType'
  BY <1>1, <1>3, <1>4 DEF CommandType
<1>6. NewestIsRow' /\ RowIsComplete' /\ SeenTransitions'
  BY <1>4 DEF CommandInv, NewestIsRow, RowIsComplete, SeenTransitions
<1>7. \A k \in DOMAIN events : events[k].at \in Nat /\ events[k].at <= begun
  BY <1>1, EventsTyped DEF EventRow, CommandInv, EventsInOrder
<1>8. EventsInOrder'
  BY <1>4, <1>7 DEF CommandInv, EventsInOrder
<1>9. ReadsCurrent'
  <2> SUFFICES ASSUME NEW v \in Calls, writers'[v].pc = "write"
               PROVE  /\ writers'[v].saw <= Len(events)
                      /\ writers'[v].saw = Len(events) => writers'[v].read = command
    BY <1>4 DEF ReadsCurrent
  <2>1. v # w
    BY <1>3
  <2> QED BY <1>3, <2>1 DEF CommandInv, ReadsCurrent
<1>10. BeganLater'
  <2> SUFFICES ASSUME NEW v \in Calls, writers'[v].pc \in {"read", "write"}
               PROVE  /\ writers'[v].at <= begun' /\ writers'[v].began <= Len(events)
                      /\ \A k \in DOMAIN events :
                           k <= writers'[v].began => events[k].at < writers'[v].at
    BY <1>4 DEF BeganLater
  <2>1. CASE v = w
    BY <1>1, <1>3, <1>4, <1>7, <2>1, EventsTyped
  <2>2. CASE v # w
    <3>1. writers'[v] = writers[v] /\ writers[v].at \in Nat
      BY <1>1, <1>3, <2>2, WriterAt DEF BeginCall, WriteCall
    <3>2. /\ writers[v].at <= begun /\ writers[v].began <= Len(events)
          /\ \A k \in DOMAIN events : k <= writers[v].began => events[k].at < writers[v].at
      BY <3>1 DEF CommandInv, BeganLater
    <3> QED BY <1>4, <3>1, <3>2
  <2> QED BY <2>1, <2>2
<1> QED BY <1>5, <1>6, <1>8, <1>9, <1>10 DEF CommandInv

LEMMA ReadCommandKept ==
    ASSUME CommandInv, NEW w \in Calls, Commanding!ReadCommand(w)
    PROVE  CommandInv'
<1>1. CommandType /\ writers[w] \in BeginCall /\ UNCHANGED <<command, events, begun>>
  BY WriterAt DEF CommandInv, Commanding!ReadCommand
<1> DEFINE x == [pc |-> "write", at |-> writers[w].at, began |-> writers[w].began,
                 saw |-> Len(events), read |-> command]
<1>2. x \in WriteCall
  BY <1>1, EventsTyped DEF BeginCall, WriteCall, CommandType
<1>3. /\ writers'[w] = x /\ \A v \in Calls \ {w} : writers'[v] = writers[v]
      /\ writers' \in [Calls -> CommandCalls]
  <2>1. writers' = [writers EXCEPT ![w] = x]
    BY DEF Commanding!ReadCommand
  <2>2. x \in CommandCalls
    BY <1>2 DEF CommandCalls
  <2> HIDE DEF x
  <2> QED BY <1>1, <2>1, <2>2 DEF CommandType
<1>4. CommandType'
  BY <1>1, <1>3 DEF CommandType
<1>5. NewestIsRow' /\ RowIsComplete' /\ SeenTransitions' /\ EventsInOrder'
  BY <1>1 DEF CommandInv, NewestIsRow, RowIsComplete, SeenTransitions, EventsInOrder
<1>6. Len(events) \in Nat
  BY <1>1, EventsTyped
<1>7. ReadsCurrent'
  <2> SUFFICES ASSUME NEW v \in Calls, writers'[v].pc = "write"
               PROVE  /\ writers'[v].saw <= Len(events)
                      /\ writers'[v].saw = Len(events) => writers'[v].read = command
    BY <1>1 DEF ReadsCurrent
  <2> QED BY <1>3, <1>6 DEF CommandInv, ReadsCurrent
<1>8. BeganLater'
  <2> SUFFICES ASSUME NEW v \in Calls, writers'[v].pc \in {"read", "write"}
               PROVE  /\ writers'[v].at <= begun /\ writers'[v].began <= Len(events)
                      /\ \A k \in DOMAIN events :
                           k <= writers'[v].began => events[k].at < writers'[v].at
    BY <1>1 DEF BeganLater
  <2>1. writers'[v].at = writers[v].at /\ writers'[v].began = writers[v].began
    BY <1>3
  <2>2. writers[v].pc \in {"read", "write"}
    BY <1>1, <1>3 DEF BeginCall
  <2> QED BY <2>1, <2>2 DEF CommandInv, BeganLater
<1> QED BY <1>4, <1>5, <1>7, <1>8 DEF CommandInv

\* A request that ends without writing.
LEMMA WriterLeaves ==
    ASSUME CommandInv, NEW w \in Calls, writers' = [writers EXCEPT ![w] = Commanding!Idle],
           UNCHANGED <<command, events, begun>>
    PROVE  CommandInv'
<1>1. /\ writers'[w] = Commanding!Idle /\ \A v \in Calls \ {w} : writers'[v] = writers[v]
      /\ writers' \in [Calls -> CommandCalls]
  BY DEF CommandInv, CommandType, CommandCalls
<1>2. CommandType'
  BY <1>1 DEF CommandInv, CommandType
<1>3. ReadsCurrent' /\ BeganLater'
  BY <1>1 DEF CommandInv, ReadsCurrent, BeganLater, Commanding!Idle
<1> QED
  BY <1>2, <1>3 DEF CommandInv, NewestIsRow, RowIsComplete, EventsInOrder, SeenTransitions

\* What a request writes is what it read with what it gives: a row, in a
\* status that may follow the one it read.
LEMMA RowWritten ==
    ASSUME CommandType, NEW w \in Calls, Commanding!WriteCommand(w)
    PROVE  \E next \in CommandRow :
             /\ Commanding!Allowed(Commanding!StatusOf(writers[w].read), next.status)
             /\ Commanding!Complete(next.status, next.eta)
             /\ \/ UNCHANGED <<command, events>>
                \/ /\ command' = next
                   /\ events' = Append(events,
                        [status |-> next.status, owner |-> next.owner, eta |-> next.eta,
                         from |-> Commanding!StatusOf(writers[w].read),
                         at |-> writers[w].at, began |-> writers[w].began,
                         saw |-> writers[w].saw])
<1> DEFINE read == writers[w].read
           merged(status, owner, eta, actor) == Commanding!Merged(read, status, owner, eta, actor)
<1>1. writers[w] \in WriteCall /\ read \in CommandRow \cup {Absent}
  BY WriterAt DEF Commanding!WriteCommand, WriteCall
<1>2. ASSUME NEW status \in Commanding!Statuses \cup {Absent},
             NEW owner \in CommandOwners \cup {Absent},
             NEW eta \in Etas \cup {Absent, "left out"}, NEW actor \in CommandOwners
      PROVE  merged(status, owner, eta, actor) \in CommandRow
  <2>1. Commanding!StatusOf(read) \in Commanding!Statuses
    BY <1>1, StatusTyped
  <2>2. (IF status = Absent THEN Commanding!StatusOf(read) ELSE status) \in Commanding!Statuses
    BY <2>1
  <2>3. (IF owner # Absent THEN owner ELSE IF read = Absent THEN actor ELSE read.owner)
          \in CommandOwners
    BY <1>1 DEF CommandRow
  <2>4. (IF eta # "left out" THEN eta ELSE IF read = Absent THEN Absent ELSE read.eta)
          \in Etas \cup {Absent}
    BY <1>1 DEF CommandRow
  <2> QED BY <2>2, <2>3, <2>4 DEF CommandRow, Commanding!Merged
<1>3. PICK status \in Commanding!Statuses \cup {Absent}, owner \in CommandOwners \cup {Absent},
           eta \in Etas \cup {Absent, "left out"}, actor \in CommandOwners, retold \in BOOLEAN :
        Commanding!Update(w, status, owner, eta, actor, retold)
  BY Zenon DEF Commanding!WriteCommand
<1>4. merged(status, owner, eta, actor) \in CommandRow
  BY <1>2
<1>5. Commanding!Written(w, status, owner, eta, actor) = merged(status, owner, eta, actor)
  BY DEF Commanding!Written
<1>6. PICK next \in CommandRow : next = merged(status, owner, eta, actor)
  BY <1>4
<1>7. /\ Commanding!Allowed(Commanding!StatusOf(read), next.status)
      /\ Commanding!Complete(next.status, next.eta)
      /\ \/ UNCHANGED <<command, events>>
         \/ /\ command' = next
            /\ events' = Append(events,
                 [status |-> next.status, owner |-> next.owner, eta |-> next.eta,
                  from |-> Commanding!StatusOf(read), at |-> writers[w].at,
                  began |-> writers[w].began, saw |-> writers[w].saw])
  <2> HIDE DEF merged
  <2> QED BY <1>3, <1>5, <1>6, Zenon DEF Commanding!Update, merged, read
<1> QED BY <1>7, Zenon DEF read

LEMMA WriteCommandKept ==
    ASSUME CommandInv, NEW w \in Calls, Commanding!WriteCommand(w)
    PROVE  CommandInv'
<1>0. PICK read : read = writers[w].read
  OBVIOUS
<1>1. /\ CommandType /\ NewestIsRow /\ RowIsComplete /\ ReadsCurrent /\ BeganLater
      /\ EventsInOrder /\ SeenTransitions
  BY DEF CommandInv
<1>2. writers[w] \in WriteCall /\ writers[w].pc = "write" /\ read \in CommandRow \cup {Absent}
      /\ writers[w].at \in Nat /\ writers[w].began \in Nat /\ writers[w].saw \in Nat
  BY <1>0, <1>1, WriterAt DEF Commanding!WriteCommand, WriteCall
<1>3. PICK next \in CommandRow :
        /\ Commanding!Allowed(Commanding!StatusOf(read), next.status)
        /\ Commanding!Complete(next.status, next.eta)
        /\ \/ UNCHANGED <<command, events>>
           \/ /\ command' = next
              /\ events' = Append(events,
                   [status |-> next.status, owner |-> next.owner, eta |-> next.eta,
                    from |-> Commanding!StatusOf(read), at |-> writers[w].at,
                    began |-> writers[w].began, saw |-> writers[w].saw])
  BY <1>0, <1>1, RowWritten, Zenon
<1>4. Commanding!StatusOf(read) \in Commanding!Statuses
  BY <1>2, StatusTyped
<1>5. writers' = [writers EXCEPT ![w] = Commanding!Idle] /\ begun' = begun
  BY DEF Commanding!WriteCommand
<1>6. CASE UNCHANGED <<command, events>>
  BY <1>5, <1>6, WriterLeaves
<1>7. CASE ~ UNCHANGED <<command, events>>
  <2> DEFINE new == [status |-> next.status, owner |-> next.owner, eta |-> next.eta,
                     from |-> Commanding!StatusOf(read), at |-> writers[w].at,
                     began |-> writers[w].began, saw |-> writers[w].saw]
  <2>1. /\ new \in EventRow /\ new.status = next.status /\ new.at = writers[w].at
        /\ new.began = writers[w].began /\ new.saw = writers[w].saw
        /\ next = [status |-> new.status, owner |-> new.owner, eta |-> new.eta]
    BY <1>2, <1>4 DEF EventRow, CommandRow
  <2>2. command' = next /\ events' = Append(events, new)
    BY <1>3, <1>7
  <2> HIDE DEF new
  <2>3. /\ Len(events) \in Nat /\ DOMAIN events = 1..Len(events)
        /\ \A i \in DOMAIN events : events[i] \in EventRow
        /\ events = <<>> <=> Len(events) = 0
    BY <1>1, EventsTyped
  <2>n. PICK n \in Nat : n = Len(events) + 1
    BY <2>3
  <2>4. /\ events' \in Seq(EventRow) /\ Len(events') = n /\ DOMAIN events' = 1..n
        /\ events'[n] = new /\ \A i \in DOMAIN events : events'[i] = events[i]
        /\ n \in Nat /\ n \notin DOMAIN events
        /\ \A i \in 1..n : i = n \/ i \in DOMAIN events
    <3>1. events \in Seq(EventRow)
      BY <1>1 DEF CommandType
    <3>2. /\ events' \in Seq(EventRow) /\ Len(events') = Len(events) + 1
          /\ \A i \in 1..Len(events) : events'[i] = events[i]
          /\ events'[Len(events) + 1] = new
      BY <2>1, <2>2, <3>1, AppendProperties
    <3>3. n \in Nat /\ n = Len(events) + 1
      BY <2>n
    <3>4. DOMAIN events' = 1..n
      BY <3>2, <3>3, LenProperties
    <3> QED BY <2>3, <3>2, <3>3, <3>4
  <2>5. /\ writers'[w] = Commanding!Idle /\ \A v \in Calls \ {w} : writers'[v] = writers[v]
        /\ writers' \in [Calls -> CommandCalls]
    BY <1>1, <1>5 DEF CommandType, CommandCalls
  <2>6. CommandType'
    BY <1>1, <1>4, <1>5, <2>2, <2>4, <2>5 DEF CommandType
  <2>7. NewestIsRow'
    BY <2>1, <2>2, <2>4 DEF NewestIsRow
  <2>8. RowIsComplete'
    BY <1>3, <2>2 DEF RowIsComplete
  <2>9. writers[w].at <= begun /\ begun \in Nat
    BY <1>1, <1>2 DEF BeganLater, ReadsCurrent, CommandType
  <2>10. EventsInOrder'
    <3> SUFFICES ASSUME NEW i \in 1..n
                 PROVE  /\ events'[i].at <= begun
                        /\ \A k \in 1..n : k < i /\ k <= events'[i].began
                                             => events'[k].at < events'[i].at
      BY <1>5, <2>4 DEF EventsInOrder
    <3>1. CASE i = n
      <4>1. \A k \in DOMAIN events : k <= writers[w].began => events[k].at < writers[w].at
        BY <1>1, <1>2 DEF BeganLater
      <4> QED BY <2>1, <2>3, <2>n, <2>4, <2>9, <3>1, <4>1
    <3>2. CASE i \in DOMAIN events
      <4>1. /\ events[i].at <= begun
            /\ \A k \in DOMAIN events : k < i /\ k <= events[i].began => events[k].at < events[i].at
        BY <1>1, <3>2 DEF EventsInOrder
      <4>2. \A k \in 1..n : k < i => k \in DOMAIN events
        BY <2>3, <2>n, <2>4, <3>2
      <4> QED BY <2>4, <3>2, <4>1, <4>2
    <3> QED BY <2>4, <3>1, <3>2
  <2>11. SeenTransitions'
    <3> SUFFICES ASSUME NEW i \in 1..n, i # 1, events'[i].saw >= i - 1
                 PROVE  Commanding!Allowed(events'[i - 1].status, events'[i].status)
      BY <2>4 DEF SeenTransitions
    <3>1. i - 1 \in DOMAIN events /\ events'[i - 1] = events[i - 1]
      BY <2>3, <2>n, <2>4
    <3>2. CASE i \in DOMAIN events
      BY <1>1, <2>4, <3>1, <3>2 DEF SeenTransitions
    <3>3. CASE i = n
      <4>1. i - 1 = Len(events) /\ writers[w].saw = Len(events)
        BY <1>0, <1>1, <1>2, <2>1, <2>3, <2>n, <2>4, <3>3 DEF ReadsCurrent
      <4>2. read = command /\ events # <<>>
        BY <1>0, <1>1, <1>2, <2>3, <3>1, <4>1 DEF ReadsCurrent
      <4>3. command = [status |-> events[i - 1].status, owner |-> events[i - 1].owner,
                       eta |-> events[i - 1].eta]
        BY <1>1, <4>1, <4>2 DEF NewestIsRow
      <4>4. command \in CommandRow
        BY <2>3, <3>1, <4>3 DEF EventRow, CommandRow
      <4>5. command # Absent
        BY <4>4, AbsentAssumption DEF CommandRow
      <4>6. Commanding!StatusOf(read) = events[i - 1].status
        BY <4>2, <4>3, <4>5 DEF Commanding!StatusOf
      <4>7. Commanding!Allowed(Commanding!StatusOf(read), next.status)
        BY <1>3
      <4> QED BY <2>1, <2>4, <3>1, <3>3, <4>6, <4>7
    <3> QED BY <2>4, <3>2, <3>3
  <2>12. ReadsCurrent'
    <3> SUFFICES ASSUME NEW v \in Calls, writers'[v].pc = "write"
                 PROVE  writers'[v].saw <= n /\ writers'[v].saw # n
      BY <2>4 DEF ReadsCurrent
    <3>1. v # w /\ writers'[v] = writers[v] /\ writers[v] \in WriteCall
      BY <1>1, <2>5, WriterAt DEF Commanding!Idle
    <3>2. writers[v].saw <= Len(events) /\ writers[v].saw \in Nat
      BY <1>1, <3>1 DEF ReadsCurrent, WriteCall
    <3> QED BY <2>3, <2>n, <3>1, <3>2
  <2>13. BeganLater'
    <3> SUFFICES ASSUME NEW v \in Calls, writers'[v].pc \in {"read", "write"}
                 PROVE  /\ writers'[v].at <= begun /\ writers'[v].began <= n
                        /\ \A k \in 1..n : k <= writers'[v].began => events'[k].at < writers'[v].at
      BY <1>5, <2>4 DEF BeganLater
    <3>1. v # w /\ writers'[v] = writers[v] /\ writers[v].began \in Nat
      BY <1>1, <2>5, WriterAt DEF Commanding!Idle, BeginCall, WriteCall
    <3>2. /\ writers[v].at <= begun /\ writers[v].began <= Len(events)
          /\ \A k \in DOMAIN events : k <= writers[v].began => events[k].at < writers[v].at
      BY <1>1, <3>1 DEF BeganLater
    <3> QED BY <2>3, <2>n, <2>4, <3>1, <3>2
  <2> QED BY <2>6, <2>7, <2>8, <2>10, <2>11, <2>12, <2>13 DEF CommandInv
<1> QED BY <1>6, <1>7

LEMMA CommandNext ==
    ASSUME CommandInv, Commanding!Next
    PROVE  CommandInv'
<1>1. ASSUME NEW w \in Calls, Commanding!Refuse(w) PROVE CommandInv'
  BY <1>1, WriterLeaves DEF Commanding!Refuse
<1> QED BY <1>1, BeginKept, ReadCommandKept, WriteCommandKept DEF Commanding!Next

LEMMA Coherent ==
    ASSUME CommandInv
    PROVE  Commanding!CommandIsCoherent
<1>1. command # Absent => Commanding!Complete(command.status, command.eta)
  BY DEF CommandInv, RowIsComplete
<1>2. \A i \in DOMAIN events \ {1} :
        events[i].saw >= i - 1 => Commanding!Allowed(events[i - 1].status, events[i].status)
  BY DEF CommandInv, SeenTransitions
<1>3. ASSUME events # <<>>
      PROVE  LET last == events[Len(events)]
             IN Commanding!ListItem = [status |-> last.status, owner |-> last.owner]
  <2> SUFFICES ASSUME NEW e, e = events[Len(events)]
               PROVE  Commanding!ListItem = [status |-> e.status, owner |-> e.owner]
    OBVIOUS
  <2>1. command = [status |-> e.status, owner |-> e.owner, eta |-> e.eta]
    BY <1>3 DEF CommandInv, NewestIsRow
  <2>2. e \in EventRow
    BY <1>3, EventsTyped DEF CommandInv
  <2>3. command \in CommandRow
    BY <2>1, <2>2 DEF EventRow, CommandRow
  <2>4. command # Absent
    BY <2>3, AbsentAssumption DEF CommandRow
  <2> QED BY <2>1, <2>4 DEF Commanding!ListItem, Commanding!StatusOf
<1>4. ASSUME NEW i \in DOMAIN events, NEW j \in DOMAIN events, i < j, Commanding!ShownBefore(i, j)
      PROVE  events[j].began < i
  <2>1. /\ i \in Nat /\ j \in Nat
        /\ events[i].at \in Nat /\ events[j].at \in Nat /\ events[j].began \in Nat
    BY EventsTyped DEF CommandInv, EventRow
  <2>2. events[i].at > events[j].at
    BY <1>4, <2>1 DEF Commanding!ShownBefore
  <2>3. i <= events[j].began => events[i].at < events[j].at
    BY <1>4 DEF CommandInv, EventsInOrder
  <2> QED BY <2>1, <2>2, <2>3
<1> QED BY <1>1, <1>2, <1>3, <1>4 DEF Commanding!CommandIsCoherent
-----------------------------------------------------------------------------
(* Escalations: lists of tickets *)

LEMMA CardinalityIsOne ==
    \A S : Escalating!Cardinality(S) = Cardinality(S)
  BY Zenon DEF Escalating!Cardinality, Cardinality, Escalating!IsFiniteSet, IsFiniteSet

\* Of a finite set less than all elements stand on one side of each.
LEMMA SideIsLess ==
    ASSUME NEW S, IsFiniteSet(S), NEW i \in S, NEW T \in SUBSET S, i \notin T
    PROVE  /\ Cardinality(T) \in Nat /\ Cardinality(S) \in Nat
           /\ Cardinality(T) < Cardinality(S) /\ IsFiniteSet(T)
<1>1. /\ IsFiniteSet(T) /\ Cardinality(T) <= Cardinality(S)
      /\ Cardinality(S) = Cardinality(T) => S = T
  BY FS_Subset
<1>2. Cardinality(T) \in Nat /\ Cardinality(S) \in Nat
  BY <1>1, FS_CardinalityType
<1>3. S # T
  OBVIOUS
<1> QED BY <1>1, <1>2, <1>3

\* The ranks of a finite set of numbers are those up to its size, each once.
LEMMA Ranks ==
    ASSUME NEW S \in SUBSET Nat, IsFiniteSet(S)
    PROVE  /\ Cardinality(S) \in Nat
           /\ \A i \in S : Cardinality({j \in S : j < i}) \in 0..Cardinality(S) - 1
           /\ \A i, j \in S :
                Cardinality({x \in S : x < i}) = Cardinality({x \in S : x < j}) => i = j
           /\ \A k \in 1..Cardinality(S) : \E i \in S : Cardinality({j \in S : j < i}) = k - 1
<1> DEFINE below(i) == {j \in S : j < i}
           rank == [i \in S |-> Cardinality(below(i))]
           N == 0..Cardinality(S) - 1
<1>1. Cardinality(S) \in Nat
  BY FS_CardinalityType
<1>2. ASSUME NEW i \in S PROVE rank[i] \in N /\ IsFiniteSet(below(i))
  <2>1. below(i) \in SUBSET S /\ i \notin below(i)
    OBVIOUS
  <2> HIDE DEF below
  <2>2. /\ Cardinality(below(i)) \in Nat /\ Cardinality(below(i)) < Cardinality(S)
        /\ IsFiniteSet(below(i))
    BY <2>1, SideIsLess
  <2> QED BY <1>1, <2>2
<1>3. ASSUME NEW i \in S, NEW j \in S, i < j PROVE rank[i] < rank[j]
  <2>1. below(i) \in SUBSET below(j) /\ i \in below(j) /\ i \notin below(i)
    <3>1. i \in Nat /\ j \in Nat /\ \A x \in S : x \in Nat
      OBVIOUS
    <3>2. \A x \in below(i) : x \in below(j)
      BY <1>3, <3>1
    <3>3. i \in below(j) /\ i \notin below(i)
      BY <1>3, <3>1
    <3> HIDE DEF below
    <3> QED BY <3>2, <3>3
  <2>2. IsFiniteSet(below(j))
    BY <1>2
  <2> HIDE DEF below
  <2>3. Cardinality(below(i)) < Cardinality(below(j))
    BY <2>1, <2>2, SideIsLess
  <2> QED BY <2>3
<1>4. \A i, j \in S : rank[i] = rank[j] => i = j
  <2> SUFFICES ASSUME NEW i \in S, NEW j \in S, rank[i] = rank[j] PROVE i = j
    OBVIOUS
  <2>1. i \in Nat /\ j \in Nat /\ rank[i] \in Nat /\ rank[j] \in Nat
    BY <1>1, <1>2
  <2>2. ~(i < j) /\ ~(j < i)
    <3> HIDE DEF rank
    <3> QED BY <1>3, <2>1
  <2> QED BY <2>1, <2>2
<1>5. N = {rank[i] : i \in S}
  <2>1. IsFiniteSet(N) /\ Cardinality(N) = Cardinality(S)
    <3>1. \A n \in Nat : IsFiniteSet(0..n - 1) /\ Cardinality(0..n - 1) = n
      <4> SUFFICES ASSUME NEW n \in Nat
                   PROVE  IsFiniteSet(0..n - 1) /\ Cardinality(0..n - 1) = n
        OBVIOUS
      <4>1. /\ IsFiniteSet(0..n - 1)
            /\ Cardinality(0..n - 1) = IF 0 > n - 1 THEN 0 ELSE n - 1 - 0 + 1
        BY FS_Interval
      <4> QED BY <4>1
    <3> QED BY <1>1, <3>1
  <2>2. rank \in [S -> N]
    BY <1>2
  <2> HIDE DEF rank, N
  <2>3. rank \in Injection(S, N)
    BY <1>4, <2>2 DEF Injection, IsInjective
  <2>4. rank \in Surjection(S, N)
    BY <2>1, <2>3, FS_Injection
  <2> QED BY <2>2, <2>4 DEF Surjection
<1>6. ASSUME NEW k \in 1..Cardinality(S) PROVE \E i \in S : rank[i] = k - 1
  <2>1. k - 1 \in N
    BY <1>1
  <2> HIDE DEF N, rank
  <2> QED BY <1>5, <2>1
<1> QED BY <1>1, <1>2, <1>4, <1>6

\* A run works through its candidates: each has a place, and each place one.
LEMMA InOrderLists ==
    ASSUME NEW S \in SUBSET Nat, IsFiniteSet(S)
    PROVE  /\ Cardinality(S) \in Nat
           /\ Escalating!InOrder(S) \in [1..Cardinality(S) -> S]
           /\ \A i \in S : \E k \in 1..Cardinality(S) : Escalating!InOrder(S)[k] = i
<1> DEFINE rank(i) == Cardinality({j \in S : j < i})
<1>1. Escalating!InOrder(S) = [k \in 1..Cardinality(S) |-> CHOOSE i \in S : rank(i) = k - 1]
  BY Zenon DEF Escalating!InOrder, Escalating!Cardinality, Cardinality,
               Escalating!IsFiniteSet, IsFiniteSet
<1>2. /\ Cardinality(S) \in Nat
      /\ \A i \in S : rank(i) \in 0..Cardinality(S) - 1
      /\ \A i, j \in S : rank(i) = rank(j) => i = j
      /\ \A k \in 1..Cardinality(S) : \E i \in S : rank(i) = k - 1
  BY Ranks
<1> HIDE DEF rank
<1>3. \A k \in 1..Cardinality(S) : LET x == CHOOSE i \in S : rank(i) = k - 1
                                   IN x \in S /\ rank(x) = k - 1
  BY <1>2
<1>4. ASSUME NEW i \in S PROVE \E k \in 1..Cardinality(S) : Escalating!InOrder(S)[k] = i
  <2>1. rank(i) + 1 \in 1..Cardinality(S) /\ rank(i) + 1 - 1 = rank(i)
    BY <1>2
  <2>2. LET x == CHOOSE j \in S : rank(j) = rank(i) + 1 - 1
        IN x \in S /\ rank(x) = rank(i)
    BY <1>3, <2>1
  <2>3. Escalating!InOrder(S)[rank(i) + 1] = i
    BY <1>1, <1>2, <2>1, <2>2
  <2> QED BY <2>1, <2>3
<1> QED BY <1>1, <1>2, <1>3, <1>4
-----------------------------------------------------------------------------
(* Escalations: every step keeps the invariant *)

LEMMA BreachTyped ==
    ASSUME BreachType
    PROVE  /\ Len(ticketRows) \in Nat /\ DOMAIN ticketRows = 1..Len(ticketRows)
           /\ \A i \in DOMAIN ticketRows : ticketRows[i] \in BreachTicket
           /\ Len(actions) \in Nat /\ DOMAIN actions = 1..Len(actions)
           /\ \A i \in DOMAIN actions : actions[i] \in ActionRow
<1>1. ticketRows \in Seq(BreachTicket) /\ actions \in Seq(ActionRow)
  BY DEF BreachType
<1> QED BY <1>1, LenProperties, ElementOfSeq

\* A step that escalates nothing and gives no ticket to anyone else.
LEMMA BreachKept ==
    ASSUME BreachInv, actions' = actions,
           ticketRows' \in Seq(BreachTicket), DOMAIN ticketRows \subseteq DOMAIN ticketRows',
           \A i \in DOMAIN ticketRows : ticketRows'[i].assignee = ticketRows[i].assignee,
           now' \in Nat, \A i \in DOMAIN ticketRows' : ticketRows'[i].created <= now',
           policy' \in BreachPolicy, DOMAIN calls' = Calls,
           \A c \in Calls :
               \/ calls'[c] = calls[c]
               \/ calls'[c].pc = "idle"
               \/ calls'[c].pc = "policy" /\ calls'[c].seen \in BreachPolicy
               \/ calls'[c].pc = "candidates" /\ calls'[c].policy \in BreachPolicy
               \/ calls'[c].pc = "escalate" /\ HasRead(c)'
    PROVE  BreachInv'
<1>1. BreachType'
  BY DEF BreachInv, BreachType
<1>2. AssigneesFollow'
  <2> SUFFICES ASSUME NEW t \in DOMAIN ticketRows'
               PROVE  HandedOver(t, Len(actions), ticketRows'[t].assignee)
    BY DEF AssigneesFollow, HandedOver
  <2>1. CASE t \in DOMAIN ticketRows
    BY <2>1 DEF BreachInv, AssigneesFollow
  <2>2. CASE t \notin DOMAIN ticketRows
    <3>1. \A i \in 1..Len(actions) : actions[i].ticket # t
      BY <2>2, BreachTyped DEF BreachInv, BreachType
    <3> QED BY <3>1 DEF HandedOver
  <2> QED BY <2>1, <2>2
<1>3. RunsHaveRead'
  <2> SUFFICES ASSUME NEW c \in Calls, calls'[c] = calls[c], calls[c].pc = "escalate"
               PROVE  HasRead(c)'
    BY DEF RunsHaveRead, BreachInv
  <2>1. HasRead(c)
    BY DEF BreachInv, RunsHaveRead
  <2> QED BY <2>1 DEF HasRead, HandedOver
<1>4. Escalating!EscalatedOnce'
  BY DEF BreachInv, Escalating!EscalatedOnce
<1> QED BY <1>1, <1>2, <1>3, <1>4 DEF BreachInv

LEMMA EscalationGoto ==
    ASSUME BreachType, NEW c \in Calls, NEW x, Escalating!Goto(c, x)
    PROVE  calls'[c] = x /\ DOMAIN calls' = Calls /\ \A e \in Calls \ {c} : calls'[e] = calls[e]
  BY DEF BreachType, Escalating!Goto

LEMMA CreateTicketKept ==
    ASSUME BreachInv, Escalating!CreateTicket
    PROVE  BreachInv'
<1>1. PICK entry \in BreachTicket :
        entry.created = now /\ ticketRows' = Append(ticketRows, entry)
  <2>1. PICK p \in TicketPriorities, u \in TicketUsers \cup {"nobody"} :
          ticketRows' = Append(ticketRows, [status |-> "open", priority |-> p, assignee |-> u,
                                            created |-> now, request |-> 0])
    BY DEF Escalating!CreateTicket
  <2> DEFINE new == [status |-> "open", priority |-> p, assignee |-> u, created |-> now,
                     request |-> 0]
  <2>2. new \in BreachTicket
    BY DEF BreachInv, BreachType, BreachTicket, Escalating!Active
  <2> QED BY <2>1, <2>2
<1>2. UNCHANGED <<actions, policy, now, calls>>
  BY DEF Escalating!CreateTicket
<1>3. BreachType
  BY DEF BreachInv
<1>4. /\ ticketRows' \in Seq(BreachTicket)
      /\ DOMAIN ticketRows' = 1..Len(ticketRows) + 1
      /\ \A i \in 1..Len(ticketRows) : ticketRows'[i] = ticketRows[i]
      /\ ticketRows'[Len(ticketRows) + 1] = entry
  BY <1>1, <1>3, AppendProperties, LenProperties, BreachTyped DEF BreachType
<1>5. now \in Nat /\ \A i \in DOMAIN ticketRows' : ticketRows'[i].created <= now
  BY <1>1, <1>3, <1>4, BreachTyped DEF BreachType
<1>6. DOMAIN ticketRows \subseteq DOMAIN ticketRows'
  BY <1>3, <1>4, BreachTyped
<1>7. \A i \in DOMAIN ticketRows : ticketRows'[i].assignee = ticketRows[i].assignee
  BY <1>3, <1>4, BreachTyped
<1>8. policy' \in BreachPolicy /\ DOMAIN calls' = Calls
  BY <1>2, <1>3 DEF BreachType
<1> QED BY <1>2, <1>4, <1>5, <1>6, <1>7, <1>8, BreachKept

LEMMA UpdateStatusKept ==
    ASSUME BreachInv, Escalating!UpdateStatus
    PROVE  BreachInv'
<1>1. PICK i \in DOMAIN ticketRows, status \in Escalating!Active \cup Escalating!Settled :
        ticketRows' = [ticketRows EXCEPT ![i] = [ticketRows[i] EXCEPT !.status = status]]
  BY DEF Escalating!UpdateStatus
<1>2. UNCHANGED <<actions, policy, now, calls>>
  BY DEF Escalating!UpdateStatus
<1>3. BreachType
  BY DEF BreachInv
<1> DEFINE entry == [ticketRows[i] EXCEPT !.status = status]
<1>4. /\ entry \in BreachTicket /\ entry.assignee = ticketRows[i].assignee
      /\ entry.created = ticketRows[i].created
  <2>1. ticketRows[i] \in BreachTicket
    BY <1>3, BreachTyped
  <2> QED BY <2>1 DEF BreachTicket
<1> HIDE DEF entry
<1>5. ticketRows' \in Seq(BreachTicket) /\ DOMAIN ticketRows' = DOMAIN ticketRows
  <2>1. ticketRows \in Seq(BreachTicket)
    BY <1>3 DEF BreachType
  <2> QED BY <1>1, <1>3, <1>4, <2>1, ExceptSeq, BreachTyped DEF entry
<1>6. \A j \in DOMAIN ticketRows : /\ ticketRows'[j].assignee = ticketRows[j].assignee
                                   /\ ticketRows'[j].created = ticketRows[j].created
  BY <1>1, <1>4 DEF entry
<1>7. \A j \in DOMAIN ticketRows' : ticketRows'[j].created <= now
  BY <1>3, <1>5, <1>6 DEF BreachType
<1>8. policy' \in BreachPolicy /\ DOMAIN calls' = Calls /\ now' \in Nat
  BY <1>2, <1>3 DEF BreachType
<1> QED BY <1>2, <1>5, <1>6, <1>7, <1>8, BreachKept

LEMMA EscalationClockKept ==
    ASSUME BreachInv, Escalating!ClockTicks
    PROVE  BreachInv'
<1>1. BreachType
  BY DEF BreachInv
<1>2. now' = now + 1 /\ UNCHANGED <<ticketRows, actions, policy, calls>>
  BY DEF Escalating!ClockTicks
<1>3. now' \in Nat /\ \A i \in DOMAIN ticketRows : ticketRows[i].created <= now'
  <2>1. \A i \in DOMAIN ticketRows : ticketRows[i].created \in Nat
    BY <1>1, BreachTyped DEF BreachTicket
  <2> QED BY <1>1, <1>2, <2>1 DEF BreachType
<1> QED BY <1>1, <1>2, <1>3, BreachKept DEF BreachType

\* The four steps of calls that write no ticket.
LEMMA EscalationCallKept ==
    ASSUME BreachInv, NEW c \in Calls,
           \/ Escalating!ReadPolicy(c) \/ Escalating!WritePolicy(c)
           \/ Escalating!ReadForRun(c) \/ Escalating!ReadCandidates(c)
    PROVE  BreachInv'
<1>1. BreachType /\ AssigneesFollow /\ RunsHaveRead
  BY DEF BreachInv
<1>2. UNCHANGED <<ticketRows, actions, now>>
  BY DEF Escalating!ReadPolicy, Escalating!WritePolicy, Escalating!ReadForRun,
         Escalating!ReadCandidates
<1>3. ASSUME NEW x, Escalating!Goto(c, x), policy' \in BreachPolicy,
             \/ x.pc = "idle"
             \/ x.pc = "policy" /\ x.seen \in BreachPolicy
             \/ x.pc = "candidates" /\ x.policy \in BreachPolicy
             \/ x.pc = "escalate" /\ HasRead(c)'
      PROVE  BreachInv'
  <2>1. calls'[c] = x /\ DOMAIN calls' = Calls /\ \A e \in Calls \ {c} : calls'[e] = calls[e]
    BY <1>1, <1>3, EscalationGoto
  <2>2. now' \in Nat /\ ticketRows' \in Seq(BreachTicket)
    BY <1>1, <1>2 DEF BreachType
  <2>3. \A i \in DOMAIN ticketRows' : ticketRows'[i].created <= now'
    BY <1>1, <1>2 DEF BreachType
  <2>4. \A e \in Calls :
            \/ calls'[e] = calls[e]
            \/ calls'[e].pc = "idle"
            \/ calls'[e].pc = "policy" /\ calls'[e].seen \in BreachPolicy
            \/ calls'[e].pc = "candidates" /\ calls'[e].policy \in BreachPolicy
            \/ calls'[e].pc = "escalate" /\ HasRead(e)'
    BY <1>3, <2>1
  <2> QED BY <1>2, <1>3, <2>1, <2>2, <2>3, <2>4, BreachKept
<1>4. policy \in BreachPolicy
  BY <1>1 DEF BreachType
<1>5. CASE Escalating!ReadPolicy(c)
  BY <1>3, <1>4, <1>5 DEF Escalating!ReadPolicy
<1>6. CASE Escalating!WritePolicy(c)
  <2>1. calls[c].seen \in BreachPolicy
    BY <1>1, <1>6 DEF RunsHaveRead, Escalating!WritePolicy
  <2>2. \E p \in BreachPolicy : \E kept :
          policy' = [f \in DOMAIN p |-> IF f \in kept THEN calls[c].seen[f] ELSE p[f]]
    BY <1>6 DEF Escalating!WritePolicy, Escalating!EscalationPolicies, BreachPolicy
  <2>5. PICK p \in BreachPolicy : \E kept :
          policy' = [f \in DOMAIN p |-> IF f \in kept THEN calls[c].seen[f] ELSE p[f]]
    BY <2>2
  <2>6. PICK kept :
          policy' = [f \in DOMAIN p |-> IF f \in kept THEN calls[c].seen[f] ELSE p[f]]
    BY <2>5
  <2>3. policy' \in BreachPolicy
    <3> DEFINE f == calls[c].seen
               of(x) == IF x \in kept THEN f[x] ELSE p[x]
    <3>1. policy' = [enabled |-> of("enabled"), near |-> of("near"), breach |-> of("breach"),
                     owner |-> of("owner")]
      BY <2>6 DEF BreachPolicy
    <3>2. /\ of("enabled") \in BOOLEAN /\ of("near") \in [TicketPriorities -> {1, 2}]
          /\ of("breach") \in [TicketPriorities -> {1, 2}] /\ of("owner") \in TicketUsers
      BY <2>1, <2>6 DEF BreachPolicy
    <3> HIDE DEF of
    <3> QED BY <3>1, <3>2 DEF BreachPolicy
  <2>4. Escalating!Goto(c, Escalating!Idle)
    BY <1>6 DEF Escalating!WritePolicy
  <2> QED BY <1>3, <2>3, <2>4 DEF Escalating!Idle
<1>7. CASE Escalating!ReadForRun(c)
  BY <1>3, <1>4, <1>7 DEF Escalating!ReadForRun
<1>8. CASE Escalating!ReadCandidates(c)
  <2> DEFINE ids == Escalating!Oldest(ActiveLimit, Escalating!ActiveIds)
             x == [pc |-> "escalate", policy |-> calls[c].policy, at |-> now,
                   saw |-> Len(actions), read |-> [i \in ids |-> ticketRows[i]]]
  <2>1. calls[c].policy \in BreachPolicy
    BY <1>1, <1>8 DEF RunsHaveRead, Escalating!ReadCandidates
  <2>2. Escalating!Goto(c, x) /\ policy' = policy
    BY <1>8 DEF Escalating!ReadCandidates
  <2>3. ids \subseteq DOMAIN ticketRows
    BY DEF Escalating!Oldest, Escalating!ActiveIds
  <2>4. HasRead(c)'
    <3>1. calls'[c] = x
      BY <1>1, <2>2, EscalationGoto
    <3>2. Len(actions) \in 0..Len(actions)
      BY <1>1, BreachTyped
    <3>3. \A t \in ids : HandedOver(t, Len(actions), ticketRows[t].assignee)
      BY <1>1, <2>3 DEF AssigneesFollow
    <3> HIDE DEF ids
    <3> QED BY <1>2, <2>1, <2>3, <3>1, <3>2, <3>3 DEF HasRead, HandedOver
  <2> QED BY <1>3, <1>4, <2>2, <2>4
<1> QED BY <1>5, <1>6, <1>7, <1>8

\* The transaction appends a batch: one action for each ticket that was due
\* when the run read, and hands over those that were not the owner's.
LEMMA EscalateKept ==
    ASSUME BreachInv, NEW c \in Calls, Escalating!Escalate(c)
    PROVE  BreachInv'
<1> DEFINE owner == calls[c].policy.owner
           due == Escalating!DueIn(c)
           given == due \ Escalating!OwnedIn(c)
           m == Cardinality(due)
           entry(i) == [ticket |-> i,
                        kind |-> IF i \in Escalating!OwnedIn(c) THEN "skipped" ELSE "escalated",
                        to |-> owner, saw |-> calls[c].saw]
<1>1. BreachType /\ AssigneesFollow /\ RunsHaveRead /\ Escalating!EscalatedOnce
  BY DEF BreachInv
<1>2. /\ Escalating!Goto(c, Escalating!Idle) /\ UNCHANGED <<policy, now>>
      /\ \/ UNCHANGED <<ticketRows, actions>>
         \/ /\ ticketRows' = [i \in DOMAIN ticketRows |->
                                IF i \in given THEN [ticketRows[i] EXCEPT !.assignee = owner]
                                               ELSE ticketRows[i]]
            /\ actions' = actions \o [k \in DOMAIN Escalating!InOrder(due) |->
                                        entry(Escalating!InOrder(due)[k])]
  BY DEF Escalating!Escalate
<1>3. /\ HasRead(c) /\ owner \in TicketUsers /\ calls[c].saw \in 0..Len(actions)
      /\ due \subseteq DOMAIN ticketRows
      /\ \A i \in given : HandedOver(i, calls[c].saw, calls[c].read[i].assignee)
      /\ \A i \in given : calls[c].read[i].assignee # owner
  <2>1. HasRead(c)
    BY <1>1 DEF RunsHaveRead, Escalating!Escalate
  <2> QED BY <2>1 DEF HasRead, BreachPolicy, Escalating!DueIn, Escalating!OwnedIn
<1>4. /\ Len(ticketRows) \in Nat /\ DOMAIN ticketRows = 1..Len(ticketRows)
      /\ Len(actions) \in Nat /\ DOMAIN actions = 1..Len(actions)
      /\ \A i \in DOMAIN ticketRows : ticketRows[i] \in BreachTicket
      /\ \A i \in DOMAIN actions : actions[i] \in ActionRow
  BY <1>1, BreachTyped
<1>5. /\ calls'[c] = Escalating!Idle /\ DOMAIN calls' = Calls
      /\ \A e \in Calls \ {c} : calls'[e] = calls[e]
  BY <1>1, <1>2, EscalationGoto
<1>6. CASE UNCHANGED <<ticketRows, actions>>
  <2>1. now' \in Nat /\ ticketRows' \in Seq(BreachTicket) /\ policy' \in BreachPolicy
    BY <1>1, <1>2, <1>6 DEF BreachType
  <2>2. \A i \in DOMAIN ticketRows' : ticketRows'[i].created <= now'
    BY <1>1, <1>2, <1>6 DEF BreachType
  <2>3. calls'[c].pc = "idle"
    BY <1>5 DEF Escalating!Idle
  <2> QED BY <1>5, <1>6, <2>1, <2>2, <2>3, BreachKept
<1>7. CASE /\ ticketRows' = [i \in DOMAIN ticketRows |->
                               IF i \in given THEN [ticketRows[i] EXCEPT !.assignee = owner]
                                              ELSE ticketRows[i]]
           /\ actions' = actions \o [k \in DOMAIN Escalating!InOrder(due) |->
                                       entry(Escalating!InOrder(due)[k])]
  <2> DEFINE n == Len(actions)
             batch == [k \in 1..m |-> entry(Escalating!InOrder(due)[k])]
  <2>1. /\ m \in Nat /\ Escalating!InOrder(due) \in [1..m -> due]
        /\ \A i \in due : \E k \in 1..m : Escalating!InOrder(due)[k] = i
    <3>1. IsFiniteSet(due) /\ due \in SUBSET Nat
      <4>1. IsFiniteSet(1..Len(ticketRows))
        BY <1>4, FS_Interval
      <4> HIDE DEF due
      <4> QED BY <1>3, <1>4, <4>1, FS_Subset
    <3> HIDE DEF due
    <3> QED BY <3>1, InOrderLists
  <2>2. batch \in [1..m -> ActionRow]
    <3>1. ASSUME NEW i \in due PROVE entry(i) \in ActionRow
      <4>1. i \in Nat
        BY <1>3, <1>4
      <4> HIDE DEF due, owner
      <4> QED BY <1>3, <1>4, <4>1 DEF ActionRow
    <3> HIDE DEF entry, due
    <3> QED BY <2>1, <3>1
  <2>3. actions' = actions \o batch
    <3>1. DOMAIN Escalating!InOrder(due) = 1..m
      <4> HIDE DEF due, m
      <4> QED BY <2>1
    <3> HIDE DEF entry, due
    <3> QED BY <1>7, <3>1
  <2>4. /\ actions' \in Seq(ActionRow) /\ Len(actions') = n + m
        /\ DOMAIN actions' = 1..n + m
        /\ \A k \in 1..n : actions'[k] = actions[k]
        /\ \A k \in 1..m : actions'[n + k] = batch[k]
    <3>1. batch \in Seq(ActionRow) /\ Len(batch) = m
      <4> HIDE DEF batch, m
      <4> QED BY <2>1, <2>2, LenProperties, IsASeq
    <3>2. actions \in Seq(ActionRow)
      BY <1>1 DEF BreachType
    <3> HIDE DEF batch, m
    <3>3. /\ actions' \in Seq(ActionRow) /\ Len(actions') = n + m
          /\ \A i \in 1..n + m : actions'[i] = IF i <= n THEN actions[i] ELSE batch[i - n]
      BY <2>3, <3>1, <3>2, ConcatProperties
    <3>4. DOMAIN actions' = 1..n + m
      BY <3>3, LenProperties
    <3>5. \A k \in 1..n : actions'[k] = actions[k]
      BY <1>4, <2>1, <3>3
    <3>6. ASSUME NEW k \in 1..m PROVE actions'[n + k] = batch[k]
      <4>1. n + k \in 1..n + m /\ ~(n + k <= n) /\ n + k - n = k
        BY <1>4, <2>1
      <4> QED BY <3>3, <4>1
    <3> QED BY <3>3, <3>4, <3>5, <3>6
  <2>5. \A k \in 1..n + m : k > n => /\ k - n \in 1..m /\ actions'[k] = batch[k - n]
    <3> HIDE DEF batch, m
    <3> SUFFICES ASSUME NEW k \in 1..n + m, k > n
                 PROVE  k - n \in 1..m /\ actions'[k] = batch[k - n]
      OBVIOUS
    <3>1. k - n \in 1..m /\ n + (k - n) = k
      BY <1>4, <2>1
    <3> QED BY <2>4, <3>1
  \* An action of the batch.
  <2>6. \A k \in 1..n + m : k > n =>
          /\ actions'[k].ticket \in due /\ actions'[k].to = owner
          /\ actions'[k].saw = calls[c].saw
          /\ actions'[k].kind = "escalated" => actions'[k].ticket \in given
    <3> SUFFICES ASSUME NEW k \in 1..n + m, k > n,
                        NEW i \in due, actions'[k] = entry(i)
                 PROVE  /\ actions'[k].ticket \in due /\ actions'[k].to = owner
                        /\ actions'[k].saw = calls[c].saw
                        /\ actions'[k].kind = "escalated" => actions'[k].ticket \in given
      <4> HIDE DEF entry, due
      <4> QED BY <2>1, <2>5
    <3> QED OBVIOUS
  <2>7. \A i \in given : \E k \in 1..n + m :
          /\ k > n /\ actions'[k].ticket = i /\ actions'[k].kind = "escalated"
          /\ actions'[k].to = owner
    <3> SUFFICES ASSUME NEW i \in given
                 PROVE  \E k \in 1..n + m :
                          /\ k > n /\ actions'[k].ticket = i /\ actions'[k].kind = "escalated"
                          /\ actions'[k].to = owner
      OBVIOUS
    <3>1. PICK k \in 1..m : Escalating!InOrder(due)[k] = i
      BY <2>1
    <3>2. actions'[n + k] = entry(i)
      <4> HIDE DEF entry, due
      <4> QED BY <2>4, <3>1
    <3>3. n + k \in 1..n + m /\ n + k > n
      <4> HIDE DEF m
      <4> QED BY <1>4, <2>1
    <3>4. /\ entry(i).ticket = i /\ entry(i).kind = "escalated" /\ entry(i).to = owner
      OBVIOUS
    <3> HIDE DEF entry, m
    <3> QED BY <3>2, <3>3, <3>4
  <2>8. ASSUME NEW t, NEW a, NEW k \in 0..n PROVE HandedOver(t, k, a) => HandedOver(t, k, a)'
    <3>1. \A j \in 1..k : actions'[j] = actions[j]
      BY <1>4, <2>4
    <3> QED BY <3>1, <1>4 DEF HandedOver
  <2> HIDE DEF batch, entry, due, given, m, owner
  <2>9. /\ DOMAIN ticketRows' = DOMAIN ticketRows
        /\ \A i \in given : ticketRows'[i] = [ticketRows[i] EXCEPT !.assignee = owner]
        /\ \A i \in DOMAIN ticketRows \ given : ticketRows'[i] = ticketRows[i]
    BY <1>3, <1>7 DEF given
  <2>10. \A i \in DOMAIN ticketRows : /\ ticketRows'[i] \in BreachTicket
                                      /\ ticketRows'[i].created = ticketRows[i].created
                                      /\ i \in given => ticketRows'[i].assignee = owner
    <3> SUFFICES ASSUME NEW i \in DOMAIN ticketRows, i \in given
                 PROVE  /\ ticketRows'[i] \in BreachTicket
                        /\ ticketRows'[i].created = ticketRows[i].created
                        /\ ticketRows'[i].assignee = owner
      BY <1>4, <2>9
    <3>1. ticketRows'[i] = [ticketRows[i] EXCEPT !.assignee = owner]
      BY <2>9
    <3>2. ticketRows[i] \in BreachTicket
      BY <1>4
    <3> QED BY <1>3, <3>1, <3>2 DEF BreachTicket
  <2>11. BreachType'
    <3>1. ticketRows' \in Seq(BreachTicket)
      <4>1. ticketRows' \in [1..Len(ticketRows) -> BreachTicket]
        BY <1>4, <1>7, <2>9, <2>10
      <4> QED BY <1>4, <4>1, IsASeq
    <3>2. \A i \in DOMAIN actions' : actions'[i].ticket \in DOMAIN ticketRows'
      <4> SUFFICES ASSUME NEW i \in 1..n + m PROVE actions'[i].ticket \in DOMAIN ticketRows
        BY <2>4, <2>9
      <4>1. CASE i <= n
        <5>1. i \in 1..n /\ i \in DOMAIN actions
          BY <1>4, <4>1, <2>1
        <5> QED BY <1>1, <2>4, <5>1 DEF BreachType
      <4>2. CASE i > n
        BY <1>3, <2>6, <4>2
      <4> QED BY <1>4, <2>1, <4>1, <4>2
    <3>3. \A i \in DOMAIN ticketRows' : ticketRows'[i].created <= now'
      BY <1>1, <1>2, <2>9, <2>10 DEF BreachType
    <3> QED BY <1>1, <1>2, <1>5, <2>4, <3>1, <3>2, <3>3 DEF BreachType
  <2>12. AssigneesFollow'
    <3> SUFFICES ASSUME NEW t \in DOMAIN ticketRows, NEW i \in 1..n + m,
                        actions'[i].ticket = t, actions'[i].kind = "escalated"
                 PROVE  \E k \in i..n + m :
                          /\ actions'[k].ticket = t /\ actions'[k].kind = "escalated"
                          /\ actions'[k].to = ticketRows'[t].assignee
      BY <2>4, <2>9 DEF AssigneesFollow, HandedOver
    <3>1. CASE t \in given
      <4>1. PICK k \in 1..n + m :
              /\ k > n /\ actions'[k].ticket = t /\ actions'[k].kind = "escalated"
              /\ actions'[k].to = owner
        BY <2>7, <3>1
      <4>2. ticketRows'[t].assignee = owner
        BY <2>10, <3>1
      <4>3. CASE i > n
        <5>1. actions'[i].to = owner /\ i \in i..n + m
          BY <2>6, <4>3, <1>4, <2>1
        <5> QED BY <4>2, <5>1
      <4>4. CASE i <= n
        <5>1. k \in i..n + m
          BY <4>1, <4>4, <1>4, <2>1
        <5> QED BY <4>1, <4>2, <5>1
      <4> QED BY <4>3, <4>4, <1>4, <2>1
    <3>2. CASE t \notin given
      <4>1. i <= n
        BY <2>6, <3>2, <1>4, <2>1
      <4>2. i \in 1..n /\ actions'[i] = actions[i]
        BY <2>4, <4>1, <1>4, <2>1
      <4>3. PICK k \in i..n :
              /\ actions[k].ticket = t /\ actions[k].kind = "escalated"
              /\ actions[k].to = ticketRows[t].assignee
        BY <1>1, <4>2 DEF AssigneesFollow, HandedOver
      <4>4. k \in i..n + m /\ actions'[k] = actions[k] /\ ticketRows'[t] = ticketRows[t]
        BY <1>4, <2>1, <2>4, <2>9, <3>2, <4>3
      <4> QED BY <4>3, <4>4
    <3> QED BY <3>1, <3>2
  <2>13. RunsHaveRead'
    <3> SUFFICES ASSUME NEW e \in Calls \ {c}, calls[e].pc = "escalate", calls'[e] = calls[e]
                 PROVE  HasRead(e)'
      <4>1. calls'[c].pc = "idle"
        BY <1>5 DEF Escalating!Idle
      <4> QED BY <1>1, <1>5, <4>1 DEF RunsHaveRead
    <3>1. HasRead(e)
      BY <1>1 DEF RunsHaveRead
    <3>2. calls[e].saw \in 0..n /\ calls[e].saw \in 0..n + m
      BY <3>1, <1>4, <2>1 DEF HasRead
    <3>3. \A t \in DOMAIN calls[e].read :
            HandedOver(t, calls[e].saw, calls[e].read[t].assignee)'
      BY <2>8, <3>1, <3>2 DEF HasRead
    <3> QED BY <2>4, <2>9, <3>1, <3>2, <3>3 DEF HasRead
  <2>14. Escalating!EscalatedOnce'
    <3> SUFFICES ASSUME NEW i \in 1..n + m, NEW j \in 1..n + m, i < j, actions'[j].saw >= i,
                        actions'[i].ticket = actions'[j].ticket,
                        actions'[i].kind = "escalated", actions'[j].kind = "escalated",
                        actions'[i].to = actions'[j].to
                 PROVE  \E k \in i + 1..j - 1 : /\ actions'[k].ticket = actions'[i].ticket
                                                /\ actions'[k].to # actions'[i].to
      BY <2>4 DEF Escalating!EscalatedOnce
    <3>1. CASE j <= n
      <4>1. i \in 1..n /\ j \in 1..n /\ actions'[i] = actions[i] /\ actions'[j] = actions[j]
        BY <1>4, <2>1, <2>4, <3>1
      <4>2. PICK k \in i + 1..j - 1 : /\ actions[k].ticket = actions[i].ticket
                                      /\ actions[k].to # actions[i].to
        BY <1>1, <1>4, <4>1 DEF Escalating!EscalatedOnce
      <4>3. actions'[k] = actions[k]
        BY <1>4, <2>4, <4>1
      <4> QED BY <4>1, <4>2, <4>3
    <3>2. CASE j > n
      <4>1. /\ actions'[j].ticket \in given /\ actions'[j].to = owner
            /\ actions'[j].saw = calls[c].saw
        BY <2>6, <3>2
      <4>2. i \in 1..calls[c].saw /\ i \in 1..n /\ actions'[i] = actions[i]
        BY <1>3, <1>4, <2>4, <4>1
      <4> DEFINE t == actions'[j].ticket
      <4>3. PICK k \in i..calls[c].saw :
              actions[k].ticket = t /\ actions[k].to = calls[c].read[t].assignee
        <5>1. HandedOver(t, calls[c].saw, calls[c].read[t].assignee)
          BY <1>3, <4>1
        <5> QED BY <4>2, <5>1 DEF HandedOver
      <4>4. actions'[k] = actions[k] /\ actions[k].to # owner
        BY <1>3, <1>4, <2>4, <4>1, <4>2, <4>3
      <4>5. k # i
        BY <4>1, <4>2, <4>4
      <4>6. k \in i + 1..j - 1
        BY <1>3, <1>4, <3>2, <4>2, <4>5
      <4> QED BY <4>1, <4>3, <4>4, <4>6
    <3> QED BY <1>4, <2>1, <3>1, <3>2
  <2> QED BY <2>11, <2>12, <2>13, <2>14 DEF BreachInv
<1> QED BY <1>2, <1>6, <1>7

LEMMA EscalatingNext ==
    ASSUME BreachInv, Escalating!Next
    PROVE  BreachInv'
  BY CreateTicketKept, UpdateStatusKept, EscalationClockKept, EscalationCallKept, EscalateKept
  DEF Escalating!Next

\* Below both limits the queue reads every active ticket.
LEMMA QueueIsComplete ==
    ASSUME BreachType
    PROVE  Escalating!QueueShowsDue
<1> DEFINE ids == Escalating!ActiveIds
<1> SUFFICES ASSUME Cardinality(ids) <= Escalating!Min({ActiveLimit, QueueLimit}),
                    NEW i \in DOMAIN ticketRows
             PROVE  LET t == ticketRows[i]
                    IN Escalating!Preview(policy, t.priority, t.status, now - t.created, t.assignee)
                       <=> /\ i \in Escalating!Queue
                           /\ Escalating!StateOf(policy, t, now) = "breached"
                           /\ t.assignee # policy.owner
  BY CardinalityIsOne DEF Escalating!QueueShowsDue
<1>1. /\ Len(ticketRows) \in Nat /\ DOMAIN ticketRows = 1..Len(ticketRows)
      /\ ticketRows[i] \in BreachTicket
  BY BreachTyped
<1>2. now \in Nat /\ ticketRows[i].created \in Nat /\ ticketRows[i].created <= now
  BY <1>1 DEF BreachType, BreachTicket
<1>3. IsFiniteSet(ids) /\ Cardinality(ids) \in Nat
  <2>1. IsFiniteSet(1..Len(ticketRows)) /\ ids \in SUBSET (1..Len(ticketRows))
    BY <1>1, FS_Interval DEF Escalating!ActiveIds
  <2> HIDE DEF ids
  <2> QED BY <2>1, FS_Subset, FS_CardinalityType
<1>4. Cardinality(ids) <= QueueLimit
  <2>1. ActiveLimit \in Nat /\ QueueLimit \in Nat
    BY LimitsAssumption
  <2>2. \E x \in {ActiveLimit, QueueLimit} : \A y \in {ActiveLimit, QueueLimit} : x <= y
    BY <2>1
  <2>3. /\ Escalating!Min({ActiveLimit, QueueLimit}) \in {ActiveLimit, QueueLimit}
        /\ \A y \in {ActiveLimit, QueueLimit} : Escalating!Min({ActiveLimit, QueueLimit}) <= y
    BY <2>2 DEF Escalating!Min
  <2> HIDE DEF ids
  <2> QED BY <1>3, <2>1, <2>3
<1>5. i \in ids => i \in Escalating!Newest(QueueLimit, ids)
  <2> SUFFICES ASSUME i \in ids PROVE Cardinality({j \in ids : j > i}) < QueueLimit
    BY CardinalityIsOne DEF Escalating!Newest
  <2> DEFINE newer == {j \in ids : j > i}
  <2>1. newer \in SUBSET ids /\ i \notin newer
    BY <1>1
  <2> HIDE DEF newer, ids
  <2>2. Cardinality(newer) < Cardinality(ids) /\ Cardinality(newer) \in Nat
    BY <1>3, <2>1, SideIsLess
  <2>3. QueueLimit \in Nat
    BY LimitsAssumption
  <2>4. Cardinality(newer) < QueueLimit
    BY <1>3, <1>4, <2>2, <2>3
  <2> QED BY <2>4 DEF newer
<1>6. /\ Escalating!Max({0, now - ticketRows[i].created}) = now - ticketRows[i].created
  <2> DEFINE age == now - ticketRows[i].created
  <2>1. age \in Nat
    BY <1>2
  <2> HIDE DEF age
  <2>2. Escalating!Max({0, age}) = age
    BY <2>1 DEF Escalating!Max
  <2> QED BY <2>2 DEF age
<1> DEFINE state == Escalating!StateAtAge(policy, ticketRows[i].priority, ticketRows[i].status,
                                          now - ticketRows[i].created)
<1>7. Escalating!StateOf(policy, ticketRows[i], now) = state
  BY <1>6 DEF Escalating!StateOf
<1>8. state = "breached" => i \in ids
  BY DEF Escalating!StateAtAge, Escalating!ActiveIds
<1> HIDE DEF state, ids
<1>9. state = "breached" => i \in Escalating!Queue
  BY <1>5, <1>7, <1>8 DEF Escalating!Queue, ids
<1> QED BY <1>7, <1>9 DEF Escalating!Preview, state
-----------------------------------------------------------------------------
(* Schedules: the next time is after the time it is computed at *)

LEMMA DayBounds ==
    ASSUME NEW t \in Nat
    PROVE  /\ Backups!Day(t) \in Nat
           /\ Backups!Day(t) * DayLength <= t /\ t < (Backups!Day(t) + 1) * DayLength
  BY CalendarAssumption, SMT DEF Backups!Day

LEMMA LaterDay ==
    ASSUME NEW t \in Nat, NEW n \in Nat \ {0}, NEW s, s.time \in Nat
    PROVE  /\ Backups!TimeOn(Backups!Day(t) + n, s) \in Int
           /\ Backups!TimeOn(Backups!Day(t) + n, s) > t
<1> DEFINE d == Backups!Day(t)
<1>1. d \in Nat /\ t < (d + 1) * DayLength
  BY DayBounds
<1>2. DayLength \in Nat
  BY CalendarAssumption
<1>3. (d + n) * DayLength = (d + 1) * DayLength + (n - 1) * DayLength
  BY <1>1, <1>2
<1>4. (n - 1) * DayLength \in Nat /\ (d + 1) * DayLength \in Nat
  BY <1>1, <1>2
<1> QED BY <1>1, <1>3, <1>4 DEF Backups!TimeOn

LEMMA NextWeek ==
    ASSUME NEW t \in Nat, NEW s, s.time \in Nat, s.weekday \in Nat
    PROVE  Backups!NextWeekly(s, t) \in Int /\ Backups!NextWeekly(s, t) > t
<1> DEFINE d == Backups!Day(t)
           offset == (s.weekday - Backups!Weekday(t) + WeekLength) % WeekLength
<1>1. WeekLength \in Nat \ {0} /\ DayLength \in Nat \ {0} /\ d \in Nat
  BY CalendarAssumption, DayBounds
<1>2. Backups!Weekday(t) \in Nat
  BY <1>1 DEF Backups!Weekday
<1>3. offset \in Nat
  BY <1>1, <1>2
<1>4. Backups!TimeOn(d, s) \in Int
  BY <1>1 DEF Backups!TimeOn
<1>5. CASE offset = 0 /\ Backups!TimeOn(d, s) <= t
  BY <1>1, <1>5, LaterDay DEF Backups!NextWeekly
<1>6. CASE offset = 0 /\ ~(Backups!TimeOn(d, s) <= t)
  BY <1>1, <1>4, <1>6 DEF Backups!NextWeekly
<1>7. CASE offset # 0
  BY <1>3, <1>7, LaterDay DEF Backups!NextWeekly
<1> QED BY <1>5, <1>6, <1>7

LEMMA NextTimes ==
    ASSUME NEW t \in Nat
    PROVE  /\ \A b \in BackupSchedules : Backups!NextBackup(b, t) \in Int /\ Backups!NextBackup(b, t) > t
           /\ \A d \in DrillSchedules : Backups!NextDrill(d, t) \in Int /\ Backups!NextDrill(d, t) > t
<1>1. ASSUME NEW b \in BackupSchedules
      PROVE  Backups!NextBackup(b, t) \in Int /\ Backups!NextBackup(b, t) > t
  <2>1. b.every \in {"day", "week"} /\ b.time \in Nat /\ b.weekday \in Nat
    BY ScheduleAssumption, CalendarAssumption
  <2>2. CASE b.every = "day"
    <3>1. Backups!TimeOn(Backups!Day(t), b) \in Int
      BY <2>1, DayBounds, CalendarAssumption DEF Backups!TimeOn
    <3> QED BY <2>1, <2>2, <3>1, LaterDay DEF Backups!NextBackup, Backups!NextDaily
  <2>3. CASE b.every = "week"
    BY <2>1, <2>3, NextWeek DEF Backups!NextBackup
  <2> QED BY <2>1, <2>2, <2>3
<1>2. ASSUME NEW d \in DrillSchedules
      PROVE  Backups!NextDrill(d, t) \in Int /\ Backups!NextDrill(d, t) > t
  <2>1. d.every \in {"week", "month", "quarter"} /\ d.time \in Nat /\ d.weekday \in Nat
    BY ScheduleAssumption, CalendarAssumption
  <2>2. CASE d.every = "week"
    BY <2>1, <2>2, NextWeek DEF Backups!NextDrill
  <2>3. CASE d.every = "month"
    BY <2>1, <2>3, LaterDay, CalendarAssumption DEF Backups!NextDrill
  <2>4. CASE d.every = "quarter"
    BY <2>1, <2>4, LaterDay, CalendarAssumption DEF Backups!NextDrill
  <2> QED BY <2>1, <2>2, <2>3, <2>4
<1> QED BY <1>1, <1>2
-----------------------------------------------------------------------------
(* Backups: every step keeps the invariant *)

LEMMA BackupTyped ==
    ASSUME BackupType
    PROVE  /\ Len(runs) \in Nat /\ DOMAIN runs = 1..Len(runs)
           /\ \A i \in DOMAIN runs : runs[i] \in BackupRun
           /\ Len(evidence) \in Nat /\ DOMAIN evidence = 1..Len(evidence)
           /\ \A e \in DOMAIN evidence : evidence[e] \in EvidenceRow
           /\ \A c \in Calls : calls[c] \in BackupCall
           /\ \A c \in Calls : Holds(c) /\ ~Runs(c) => calls[c] \in ChangeCall
           /\ \A c \in Calls : Holds(c) /\ Runs(c) => calls[c] \in RunCall
           /\ \A c \in Calls : Runs(c) /\ ~Holds(c) => calls[c] \in QueueCall
           /\ \A c \in Calls : calls[c].pc = "evidence" => calls[c] \in EvidenceCall
           /\ \A c \in Calls : calls[c].pc = "attach" => calls[c] \in AttachCall
           /\ \A c \in Calls : calls[c].pc = "compliance" => calls[c] \in ComplianceCall
<1>1. runs \in Seq(BackupRun) /\ evidence \in Seq(EvidenceRow)
  BY DEF BackupType
<1>2. \A c \in Calls : calls[c] \in BackupCall
  BY DEF BackupType
<1>3. ASSUME NEW x \in BackupCall
      PROVE  /\ x.pc = "update" => x \in ChangeCall
             /\ x.pc \in {"insert", "reschedule"} => x \in RunCall
             /\ x.pc = "run" => x \in QueueCall
             /\ x.pc = "evidence" => x \in EvidenceCall
             /\ x.pc = "attach" => x \in AttachCall
             /\ x.pc = "compliance" => x \in ComplianceCall
  BY <1>3 DEF BackupCall, Backups!Idle, ChangeCall, QueueCall, RunCall, AttachCall,
              EvidenceCall, ComplianceCall
<1>4. \A c \in Calls : /\ Holds(c) /\ ~Runs(c) => calls[c].pc = "update"
                       /\ Holds(c) /\ Runs(c) => calls[c].pc \in {"insert", "reschedule"}
                       /\ Runs(c) /\ ~Holds(c) => calls[c].pc = "run"
  BY DEF Holds, Runs
<1> QED BY <1>1, <1>2, <1>3, <1>4, LenProperties, ElementOfSeq

\* Policies and runs only grow, and a run stays what it was.
Grows == /\ DOMAIN policy \subseteq DOMAIN policy' /\ outdated \subseteq outdated'
         /\ now <= now' /\ now' \in Nat
         /\ DOMAIN runs \subseteq DOMAIN runs'
         /\ \A i \in DOMAIN runs : /\ runs'[i].p = runs[i].p /\ runs'[i].type = runs[i].type
                                   /\ runs'[i].due = runs[i].due

LEMMA UntilLater ==
    ASSUME NEW due \in Time, NEW s \in Int, NEW t \in Int, Until(due, s), s <= t
    PROVE  Until(due, t)
  BY NeverAssumption DEF Until, Time

LEMMA CallStays ==
    ASSUME BackupType, NEW c \in Calls, CallOk(c), Grows,
           \/ calls'[c] = calls[c]
           \/ Holds(c) /\ calls'[c] = [calls[c] EXCEPT !.old = TRUE],
           ReadFresh(c)'
    PROVE  CallOk(c)'
<1>1. /\ Holds(c) => /\ calls'[c].p = calls[c].p /\ calls'[c].at = calls[c].at
                     /\ calls'[c].pc = calls[c].pc
      /\ Holds(c) /\ Runs(c) =>
           /\ calls'[c].type = calls[c].type /\ calls'[c].due = calls[c].due
           /\ calls'[c].done = calls[c].done /\ calls'[c].queue = calls[c].queue
           /\ calls'[c].row = calls[c].row
  <2>1. CASE calls'[c] = calls[c]
    BY <2>1
  <2>2. CASE Holds(c) /\ calls'[c] = [calls[c] EXCEPT !.old = TRUE]
    <3>1. CASE Runs(c)
      BY <2>2, <3>1, BackupTyped DEF RunCall
    <3>2. CASE ~Runs(c)
      BY <2>2, <3>2, BackupTyped DEF ChangeCall
    <3> QED BY <3>1, <3>2
  <2> QED BY <2>1, <2>2
<1>2. calls'[c].pc = calls[c].pc
  BY <1>1
<1>3. /\ Holds(c)' <=> Holds(c)
      /\ Runs(c)' <=> Runs(c)
  BY <1>2 DEF Holds, Runs
<1>4. Runs(c) => calls'[c].done = calls[c].done /\ calls'[c].queue = calls[c].queue
  BY <1>1
<1>5. ReadKnown(c)'
  <2> SUFFICES ASSUME Holds(c) PROVE calls'[c].p \in DOMAIN policy' /\ calls'[c].at <= now'
    BY <1>3 DEF ReadKnown
  <2>1. calls[c].at \in Nat /\ now \in Nat
    BY BackupTyped DEF ChangeCall, RunCall, BackupType
  <2> QED BY <1>1, <2>1 DEF CallOk, ReadKnown, Grows
<1>6. EntriesNew(c)'
  <2> SUFFICES ASSUME Runs(c)
               PROVE  /\ calls[c].done \subseteq DOMAIN runs'
                      /\ \A e \in calls[c].queue :
                           /\ e.p \in DOMAIN policy' /\ Until(e.due, now')
                           /\ \A i \in calls[c].done : ~Again(i, e)'
    BY <1>3, <1>4 DEF EntriesNew, Again
  <2>1. calls[c].done \subseteq DOMAIN runs
    BY DEF CallOk, EntriesNew
  <2>2. ASSUME NEW e \in calls[c].queue
        PROVE  e.p \in DOMAIN policy' /\ Until(e.due, now') /\ \A i \in calls[c].done : ~Again(i, e)'
    <3>1. e.p \in DOMAIN policy /\ Until(e.due, now) /\ \A i \in calls[c].done : ~Again(i, e)
      BY DEF CallOk, EntriesNew
    <3>2. calls[c].queue \in SUBSET BackupEntry
      BY BackupTyped DEF QueueCall, RunCall
    <3>3. e.due \in Time
      BY <3>2 DEF BackupEntry
    <3>4. now \in Int /\ now' \in Int
      BY DEF BackupType, Grows
    <3>5. Until(e.due, now')
      BY <3>1, <3>3, <3>4, UntilLater DEF Grows
    <3> QED BY <2>1, <3>1, <3>5 DEF Again, Grows
  <2> QED BY <2>1, <2>2 DEF Grows
<1>7. RunNew(c)'
  <2> SUFFICES ASSUME Holds(c), Runs(c)
               PROVE  /\ Until(calls[c].due, calls[c].at)
                      /\ calls[c].pc = "insert" => \A i \in calls[c].done : ~Again(i, calls[c])'
                      /\ calls[c].pc = "reschedule" =>
                           /\ calls[c].row \in DOMAIN runs'
                           /\ runs'[calls[c].row].p = calls[c].p
                           /\ runs'[calls[c].row].type = calls[c].type
                           /\ runs'[calls[c].row].due = calls[c].due
    BY <1>1, <1>3 DEF RunNew, Again
  <2>1. calls[c].done \subseteq DOMAIN runs
    BY DEF CallOk, EntriesNew
  <2> QED BY <1>1, <2>1 DEF CallOk, RunNew, Again, Grows
<1> QED BY <1>5, <1>6, <1>7 DEF CallOk

\* A step that leaves policies and runs alone.
LEMMA QuietKept ==
    ASSUME BackupInv, UNCHANGED <<policy, runs, outdated>>, now <= now', now' \in Nat,
           evidence' \in Seq(EvidenceRow), compliance' \in ComplianceRow,
           calls' \in [Calls -> BackupCall],
           \A c \in Calls : calls'[c] = calls[c] \/ CallOk(c)'
    PROVE  BackupType' /\ TimesAhead' /\ RunsNew' /\ \A c \in Calls : CallOk(c)'
<1>1. BackupType'
  BY DEF BackupInv, BackupType
<1>2. TimesAhead'
  BY DEF BackupInv, TimesAhead, Backups!NextTime
<1>4. RunsNew'
  <2>1. ASSUME NEW j \in DOMAIN runs PROVE Until(runs[j].due, now')
    <3>1. runs[j].due \in Time /\ now \in Int
      BY BackupTyped DEF BackupInv, BackupType, BackupRun
    <3> QED BY <3>1, UntilLater DEF BackupInv, RunsNew
  <2> QED BY <2>1 DEF BackupInv, RunsNew, Again
<1>3. ASSUME NEW c \in Calls, calls'[c] = calls[c] PROVE CallOk(c)'
  <2>1. Grows
    BY DEF Grows
  <2>2. ReadFresh(c)'
    BY <1>3 DEF BackupInv, CallOk, ReadFresh, Holds
  <2> QED BY <1>3, <2>1, <2>2, CallStays DEF BackupInv
<1> QED BY <1>1, <1>2, <1>3, <1>4

LEMMA BackupGoto ==
    ASSUME BackupType, NEW c \in Calls, NEW x, Backups!Goto(c, x)
    PROVE  /\ calls'[c] = x /\ \A e \in Calls \ {c} : calls'[e] = calls[e]
           /\ x \in BackupCall => calls' \in [Calls -> BackupCall]
  BY DEF BackupType, Backups!Goto

\* No call comes to hold evidence it has read, and the evidence stays.
LEMMA ClosuresKept ==
    ASSUME BackupInv, evidence' = evidence, now <= now', now' \in Nat,
           \A c \in Calls : calls'[c].pc = "evidence" => calls'[c] = calls[c]
    PROVE  ClosuresPast'
<1>1. \A e \in DOMAIN evidence : evidence[e].closure.status = "closed" =>
          evidence[e].closure.at \in Nat /\ evidence[e].closure.at <= now
  BY DEF BackupInv, ClosuresPast
<1>2. now \in Nat
  BY DEF BackupInv, BackupType
<1>3. \A e \in DOMAIN evidence' : evidence'[e].closure.status = "closed" =>
          evidence'[e].closure.at \in Nat /\ evidence'[e].closure.at <= now'
  BY <1>1, <1>2
<1>4. \A c \in Calls : calls'[c].pc = "evidence" =>
          calls'[c].row \in DOMAIN evidence' /\ calls'[c].at.closure.status = "open"
  BY DEF BackupInv, ClosuresPast
<1> QED BY <1>3, <1>4 DEF ClosuresPast

\* A call that ends, or that holds neither a policy nor what it has to run.
LEMMA RestsOk ==
    ASSUME NEW c \in Calls, ~Holds(c)', ~Runs(c)'
    PROVE  CallOk(c)'
  BY DEF CallOk, ReadKnown, ReadFresh, EntriesNew, RunNew

LEMMA ReadPolicyKept ==
    ASSUME BackupInv, NEW c \in Calls, Backups!ReadPolicy(c)
    PROVE  BackupInv'
<1> USE DEF BackupInv
<1>1. PICK p \in DOMAIN policy :
        Backups!Goto(c, [pc |-> "update", p |-> p, read |-> policy[p], old |-> FALSE, at |-> now])
  BY DEF Backups!ReadPolicy
<1>2. UNCHANGED <<policy, runs, evidence, compliance, now, outdated>>
  BY DEF Backups!ReadPolicy
<1>3. PICK x : x = [pc |-> "update", p |-> p, read |-> policy[p], old |-> FALSE, at |-> now]
  OBVIOUS
<1>4. x \in ChangeCall /\ now \in Nat
  BY <1>3 DEF ChangeCall, BackupType
<1>5. calls'[c] = x /\ calls' \in [Calls -> BackupCall] /\ \A e \in Calls \ {c} : calls'[e] = calls[e]
  <2>1. Backups!Goto(c, x) /\ x \in BackupCall
    BY <1>1, <1>3, <1>4 DEF BackupCall
  <2> QED BY <2>1, BackupGoto
<1>6. CallOk(c)'
  <2>1. ReadKnown(c)'
    BY <1>2, <1>3, <1>4, <1>5 DEF ReadKnown
  <2>2. ReadFresh(c)'
    <3>1. ASSUME NEW i \in DOMAIN runs, runs[i].done, runs[i].p = p
          PROVE  Until(runs[i].due, now)
      BY <3>1 DEF RunsNew
    <3> QED BY <1>2, <1>3, <1>5, <3>1 DEF ReadFresh
  <2>3. EntriesNew(c)' /\ RunNew(c)'
    BY <1>3, <1>5 DEF EntriesNew, RunNew, Runs
  <2> QED BY <2>1, <2>2, <2>3 DEF CallOk
<1>7. /\ BackupType' /\ TimesAhead' /\ RunsNew'
      /\ \A e \in Calls : CallOk(e)'
  BY <1>2, <1>4, <1>5, <1>6, QuietKept DEF BackupType
<1>8. ClosuresPast'
  BY <1>2, <1>3, <1>4, <1>5, ClosuresKept
<1> QED BY <1>7, <1>8

LEMMA RunByHandKept ==
    ASSUME BackupInv, NEW c \in Calls, Backups!RunByHand(c)
    PROVE  BackupInv'
<1> USE DEF BackupInv
<1>1. PICK p \in DOMAIN policy, type \in {"backup", "drill"}, fails \in Outcomes :
        Backups!Goto(c, [pc |-> "run", fails |-> fails, done |-> {},
                         queue |-> {[p |-> p, type |-> type, due |-> Absent]}])
  BY DEF Backups!RunByHand
<1>2. UNCHANGED <<policy, runs, evidence, compliance, now, outdated>>
  BY DEF Backups!RunByHand
<1>3. PICK e : e = [p |-> p, type |-> type, due |-> Absent]
  OBVIOUS
<1>4. PICK x : x = [pc |-> "run", fails |-> fails, done |-> {}, queue |-> {e}]
  OBVIOUS
<1>5. e \in BackupEntry /\ x \in QueueCall /\ now \in Nat
  BY <1>3, <1>4, OutcomesAssumption DEF QueueCall, BackupEntry, Time, BackupType
<1>6. calls'[c] = x /\ calls' \in [Calls -> BackupCall] /\ \A k \in Calls \ {c} : calls'[k] = calls[k]
  <2>1. Backups!Goto(c, x) /\ x \in BackupCall
    BY <1>1, <1>3, <1>4, <1>5 DEF BackupCall
  <2> QED BY <2>1, BackupGoto
<1>7. CallOk(c)'
  BY <1>2, <1>3, <1>4, <1>6 DEF CallOk, ReadKnown, ReadFresh, EntriesNew, RunNew, Holds, Runs, Until
<1>8. /\ BackupType' /\ TimesAhead' /\ RunsNew'
      /\ \A k \in Calls : CallOk(k)'
  BY <1>2, <1>5, <1>6, <1>7, QuietKept DEF BackupType
<1>9. ClosuresPast'
  BY <1>2, <1>4, <1>5, <1>6, ClosuresKept
<1> QED BY <1>8, <1>9

LEMMA SchedulerTickKept ==
    ASSUME BackupInv, NEW c \in Calls, Backups!SchedulerTick(c)
    PROVE  BackupInv'
<1> USE DEF BackupInv
<1>1. UNCHANGED <<policy, runs, evidence, compliance, now, outdated>>
  BY DEF Backups!SchedulerTick
<1>2. PICK x : x = [pc |-> "run", fails |-> FALSE, done |-> {i \in DOMAIN runs : runs[i].done},
                    queue |-> Backups!Due]
  OBVIOUS
<1>3. ASSUME NEW e \in Backups!Due
      PROVE  /\ e \in BackupEntry /\ e.p \in DOMAIN policy /\ Until(e.due, now)
             /\ \A i \in DOMAIN runs : runs[i].done => ~Again(i, e)
  <2>1. PICK p \in DOMAIN policy, type \in {"backup", "drill"} :
          e = [p |-> p, type |-> type, due |-> Backups!NextTime(p, type)]
    BY DEF Backups!Due
  <2>2. e.due # Absent /\ e.due <= now
    BY DEF Backups!Due
  <2>3. policy[p] \in PolicyRow
    BY DEF BackupType
  <2>4. Backups!NextTime(p, type) \in Time
    BY <2>3 DEF Backups!NextTime, PolicyRow, Time
  <2>5. e \in BackupEntry
    BY <2>1, <2>4 DEF BackupEntry, BackupType
  <2>6. ASSUME NEW i \in DOMAIN runs, runs[i].done, Again(i, e) PROVE FALSE
    <3>1. /\ p \in DOMAIN policy \ outdated /\ runs[i].p = p /\ runs[i].type = type
          /\ runs[i].due = Backups!NextTime(p, type) /\ runs[i].due # Absent
      BY <2>1, <2>6 DEF Again
    <3>2. Backups!NextTime(p, type) > runs[i].due
      BY <2>6, <3>1 DEF TimesAhead
    <3>3. runs[i].due \in Int
      BY <3>1, BackupTyped DEF BackupRun, Time
    <3> QED BY <3>1, <3>2, <3>3
  <2> QED BY <2>1, <2>2, <2>5, <2>6 DEF Until
<1>4. x \in QueueCall /\ now \in Nat
  <2>1. DOMAIN runs \subseteq Nat
    BY BackupTyped
  <2> QED BY <1>2, <1>3, <2>1 DEF QueueCall, BackupType
<1>5. calls'[c] = x /\ calls' \in [Calls -> BackupCall] /\ \A k \in Calls \ {c} : calls'[k] = calls[k]
  <2>1. Backups!Goto(c, x) /\ x \in BackupCall
    BY <1>2, <1>4 DEF BackupCall, Backups!SchedulerTick
  <2> QED BY <2>1, BackupGoto
<1>6. CallOk(c)'
  <2>1. EntriesNew(c)'
    BY <1>1, <1>2, <1>3, <1>5 DEF EntriesNew, Again
  <2> QED BY <1>2, <1>5, <2>1 DEF CallOk, ReadKnown, ReadFresh, RunNew, Holds
<1>7. /\ BackupType' /\ TimesAhead' /\ RunsNew'
      /\ \A k \in Calls : CallOk(k)'
  BY <1>1, <1>4, <1>5, <1>6, QuietKept DEF BackupType
<1>8. ClosuresPast'
  BY <1>1, <1>2, <1>4, <1>5, ClosuresKept
<1> QED BY <1>7, <1>8

LEMMA LoadForRunKept ==
    ASSUME BackupInv, NEW c \in Calls, Backups!LoadForRun(c)
    PROVE  BackupInv'
<1> USE DEF BackupInv
<1>1. PICK e \in calls[c].queue :
        Backups!Goto(c, [pc |-> "insert", p |-> e.p, type |-> e.type, due |-> e.due,
                     fails |-> calls[c].fails, done |-> calls[c].done, queue |-> calls[c].queue \ {e},
                     read |-> policy[e.p], old |-> FALSE, at |-> now, row |-> 0])
  BY DEF Backups!LoadForRun
<1>2. /\ UNCHANGED <<policy, runs, evidence, compliance, now, outdated>>
      /\ calls[c].pc = "run"
  BY DEF Backups!LoadForRun, Backups!At
<1>3. calls[c] \in QueueCall /\ Runs(c) /\ ~Holds(c)
  BY <1>2, BackupTyped DEF Runs, Holds
<1>4. PICK x : x = [pc |-> "insert", p |-> e.p, type |-> e.type, due |-> e.due,
                    fails |-> calls[c].fails, done |-> calls[c].done, queue |-> calls[c].queue \ {e},
                    read |-> policy[e.p], old |-> FALSE, at |-> now, row |-> 0]
  OBVIOUS
<1>5. /\ e \in BackupEntry /\ e.p \in DOMAIN policy /\ Until(e.due, now)
      /\ calls[c].done \subseteq DOMAIN runs
      /\ \A f \in calls[c].queue : /\ f.p \in DOMAIN policy /\ Until(f.due, now)
                                   /\ \A i \in calls[c].done : ~Again(i, f)
  BY <1>3 DEF CallOk, EntriesNew, QueueCall
<1>6. x \in RunCall /\ now \in Nat
  BY <1>3, <1>4, <1>5 DEF RunCall, QueueCall, BackupEntry, BackupType
<1>7. calls'[c] = x /\ calls' \in [Calls -> BackupCall] /\ \A k \in Calls \ {c} : calls'[k] = calls[k]
  <2>1. Backups!Goto(c, x) /\ x \in BackupCall
    BY <1>1, <1>4, <1>6 DEF BackupCall
  <2> QED BY <2>1, BackupGoto
<1>8. CallOk(c)'
  <2>1. ReadKnown(c)'
    BY <1>2, <1>4, <1>5, <1>6, <1>7 DEF ReadKnown
  <2>2. ReadFresh(c)'
    BY <1>2, <1>4, <1>7 DEF ReadFresh, RunsNew
  <2>3. EntriesNew(c)'
    BY <1>2, <1>4, <1>5, <1>7 DEF EntriesNew, Again
  <2>4. RunNew(c)'
    BY <1>2, <1>4, <1>5, <1>7 DEF RunNew, Again
  <2> QED BY <2>1, <2>2, <2>3, <2>4 DEF CallOk
<1>9. /\ BackupType' /\ TimesAhead' /\ RunsNew'
      /\ \A k \in Calls : CallOk(k)'
  BY <1>2, <1>6, <1>7, <1>8, QuietKept DEF BackupType
<1>10. ClosuresPast'
  BY <1>2, <1>4, <1>6, <1>7, ClosuresKept
<1> QED BY <1>9, <1>10

\* Steps about evidence and the compliance policy, and calls that end.
LEMMA EvidenceStepKept ==
    ASSUME BackupInv, NEW c \in Calls, UNCHANGED <<policy, runs, outdated, now>>,
           evidence' \in Seq(EvidenceRow), compliance' \in ComplianceRow,
           NEW x \in BackupCall, Backups!Goto(c, x),
           x.pc \in {"idle", "attach", "evidence", "compliance"}
    PROVE  BackupType' /\ TimesAhead' /\ RunsNew' /\ \A k \in Calls : CallOk(k)'
<1>1. calls'[c] = x /\ calls' \in [Calls -> BackupCall] /\ \A k \in Calls \ {c} : calls'[k] = calls[k]
  BY BackupGoto DEF BackupInv
<1>2. ~Holds(c)' /\ ~Runs(c)'
  BY <1>1 DEF Holds, Runs
<1>3. now' \in Nat /\ now <= now'
  BY DEF BackupInv, BackupType
<1> QED BY <1>1, <1>2, <1>3, RestsOk, QuietKept

LEMMA EndKept ==
    ASSUME BackupInv, NEW c \in Calls, Backups!Goto(c, Backups!Idle),
           UNCHANGED <<policy, runs, evidence, outdated, now>>, compliance' \in ComplianceRow
    PROVE  BackupInv'
<1>1. Backups!Idle \in BackupCall /\ Backups!Idle.pc = "idle"
  BY DEF BackupCall, Backups!Idle
<1>2. BackupType' /\ TimesAhead' /\ RunsNew' /\ \A k \in Calls : CallOk(k)'
  <2>1. evidence' \in Seq(EvidenceRow)
    BY DEF BackupInv, BackupType
  <2> QED BY <1>1, <2>1, EvidenceStepKept
<1>3. ClosuresPast'
  <2>1. calls'[c] = Backups!Idle /\ \A k \in Calls \ {c} : calls'[k] = calls[k]
    BY BackupGoto DEF BackupInv
  <2>2. now' \in Nat /\ now <= now'
    BY DEF BackupInv, BackupType
  <2> QED BY <1>1, <2>1, <2>2, ClosuresKept
<1> QED BY <1>2, <1>3 DEF BackupInv

LEMMA ReadComplianceKept ==
    ASSUME BackupInv, NEW c \in Calls, Backups!ReadCompliance(c)
    PROVE  BackupInv'
<1>1. PICK x : x = [pc |-> "compliance", read |-> compliance]
  OBVIOUS
<1>2. x \in BackupCall /\ x.pc = "compliance"
  BY <1>1 DEF BackupInv, BackupType, BackupCall, ComplianceCall
<1>3. Backups!Goto(c, x) /\ UNCHANGED <<policy, runs, evidence, compliance, now, outdated>>
  BY <1>1 DEF Backups!ReadCompliance
<1>4. BackupType' /\ TimesAhead' /\ RunsNew' /\ \A k \in Calls : CallOk(k)'
  <2>1. evidence' \in Seq(EvidenceRow) /\ compliance' \in ComplianceRow
    BY <1>3 DEF BackupInv, BackupType
  <2> QED BY <1>2, <1>3, <2>1, EvidenceStepKept
<1>5. ClosuresPast'
  <2>1. calls'[c] = x /\ \A k \in Calls \ {c} : calls'[k] = calls[k]
    BY <1>3, BackupGoto DEF BackupInv
  <2>2. now' \in Nat /\ now <= now'
    BY <1>3 DEF BackupInv, BackupType
  <2> QED BY <1>2, <1>3, <2>1, <2>2, ClosuresKept
<1> QED BY <1>4, <1>5 DEF BackupInv

LEMMA WriteComplianceKept ==
    ASSUME BackupInv, NEW c \in Calls, Backups!WriteCompliance(c)
    PROVE  BackupInv'
<1>1. calls[c] \in ComplianceCall
  BY BackupTyped DEF BackupInv, Backups!WriteCompliance, Backups!At
<1>2. PICK mode \in {"advisory", "enforced"}, sla \in Slas \cup {calls[c].read.sla},
           of \in (SUBSET {"failed", "drill"}) \ {{}} :
        compliance' = [mode |-> mode, sla |-> sla, of |-> of]
  BY DEF Backups!WriteCompliance
<1>3. sla \in Slas
  BY <1>1 DEF ComplianceCall, ComplianceRow
<1>4. compliance' \in ComplianceRow
  BY <1>2, <1>3 DEF ComplianceRow
<1> QED BY <1>4, EndKept DEF Backups!WriteCompliance

LEMMA AttachKept ==
    ASSUME BackupInv, NEW c \in Calls, Backups!CreateEvidenceRead(c)
    PROVE  BackupInv'
<1>1. PICK i \in DOMAIN runs, close \in BOOLEAN :
        Backups!Goto(c, [pc |-> "attach", run |-> i, close |-> close])
  BY DEF Backups!CreateEvidenceRead
<1>2. PICK x : x = [pc |-> "attach", run |-> i, close |-> close]
  OBVIOUS
<1>3. x \in BackupCall /\ x.pc = "attach"
  BY <1>2, BackupTyped DEF BackupInv, BackupCall, AttachCall
<1>4. Backups!Goto(c, x) /\ UNCHANGED <<policy, runs, evidence, compliance, now, outdated>>
  BY <1>1, <1>2 DEF Backups!CreateEvidenceRead
<1>5. BackupType' /\ TimesAhead' /\ RunsNew' /\ \A k \in Calls : CallOk(k)'
  <2>1. evidence' \in Seq(EvidenceRow) /\ compliance' \in ComplianceRow
    BY <1>4 DEF BackupInv, BackupType
  <2> QED BY <1>3, <1>4, <2>1, EvidenceStepKept
<1>6. ClosuresPast'
  <2>1. calls'[c] = x /\ \A k \in Calls \ {c} : calls'[k] = calls[k]
    BY <1>4, BackupGoto DEF BackupInv
  <2>2. now' \in Nat /\ now <= now'
    BY <1>4 DEF BackupInv, BackupType
  <2> QED BY <1>3, <1>4, <2>1, <2>2, ClosuresKept
<1> QED BY <1>5, <1>6 DEF BackupInv

LEMMA ReadEvidenceKept ==
    ASSUME BackupInv, NEW c \in Calls, Backups!UpdateEvidenceRead(c)
    PROVE  BackupInv'
<1>1. PICK i \in DOMAIN evidence, close \in BOOLEAN :
        /\ evidence[i].closure.status # "closed"
        /\ Backups!Goto(c, [pc |-> "evidence", row |-> i, close |-> close, at |-> evidence[i]])
  BY DEF Backups!UpdateEvidenceRead
<1>2. PICK x : x = [pc |-> "evidence", row |-> i, close |-> close, at |-> evidence[i]]
  OBVIOUS
<1>3. i \in Nat /\ evidence[i] \in EvidenceRow
  BY BackupTyped DEF BackupInv
<1>4. x \in BackupCall /\ x.pc = "evidence"
  BY <1>2, <1>3 DEF BackupCall, EvidenceCall
<1>5. Backups!Goto(c, x) /\ UNCHANGED <<policy, runs, evidence, compliance, now, outdated>>
  BY <1>1, <1>2 DEF Backups!UpdateEvidenceRead
<1>6. BackupType' /\ TimesAhead' /\ RunsNew' /\ \A k \in Calls : CallOk(k)'
  <2>1. evidence' \in Seq(EvidenceRow) /\ compliance' \in ComplianceRow
    BY <1>5 DEF BackupInv, BackupType
  <2> QED BY <1>4, <1>5, <2>1, EvidenceStepKept
<1>7. ClosuresPast'
  <2>1. calls'[c] = x /\ \A k \in Calls \ {c} : calls'[k] = calls[k]
    BY <1>5, BackupGoto DEF BackupInv
  <2>2. x.row \in DOMAIN evidence /\ x.at.closure.status = "open"
    BY <1>1, <1>2, <1>3 DEF EvidenceRow
  <2> QED BY <1>5, <2>1, <2>2 DEF BackupInv, ClosuresPast
<1> QED BY <1>6, <1>7 DEF BackupInv

\* What a request writes as the closure.
LEMMA ClosureTyped ==
    ASSUME BackupType, NEW close \in BOOLEAN
    PROVE  /\ Backups!Closure(close) \in [status : {"open", "closed"}, at : Time]
           /\ Backups!Closure(close).status = "closed" => Backups!Closure(close).at = now
  BY DEF Backups!Closure, Time, BackupType

LEMMA CreateEvidenceKept ==
    ASSUME BackupInv, NEW c \in Calls, Backups!CreateEvidence(c)
    PROVE  BackupInv'
<1>1. /\ Backups!Goto(c, Backups!Idle)
      /\ UNCHANGED <<policy, runs, compliance, now, outdated>>
      /\ calls[c] \in AttachCall
  BY BackupTyped DEF BackupInv, Backups!CreateEvidence, Backups!At
<1>2. PICK made : made = [run |-> calls[c].run, closure |-> Backups!Closure(calls[c].close)]
  OBVIOUS
<1>3. calls[c].close \in BOOLEAN /\ calls[c].run \in Nat
  BY <1>1 DEF AttachCall
<1>4. made \in EvidenceRow
  BY <1>2, <1>3, ClosureTyped DEF EvidenceRow, BackupInv
<1>5. evidence' = Append(evidence, made) /\ evidence \in Seq(EvidenceRow)
  BY <1>2 DEF Backups!CreateEvidence, BackupInv, BackupType
<1>6. Backups!Idle \in BackupCall /\ Backups!Idle.pc = "idle"
  BY DEF BackupCall, Backups!Idle
<1>7. BackupType' /\ TimesAhead' /\ RunsNew' /\ \A k \in Calls : CallOk(k)'
  <2>1. evidence' \in Seq(EvidenceRow) /\ compliance' \in ComplianceRow
    BY <1>1, <1>4, <1>5, AppendProperties DEF BackupInv, BackupType
  <2> QED BY <1>1, <1>6, <2>1, EvidenceStepKept
<1>8. ClosuresPast'
  <2>1. calls'[c] = Backups!Idle /\ \A k \in Calls \ {c} : calls'[k] = calls[k]
    BY <1>1, BackupGoto DEF BackupInv
  <2>2. /\ DOMAIN evidence' = DOMAIN evidence \cup {Len(evidence) + 1}
        /\ \A e \in DOMAIN evidence : evidence'[e] = evidence[e]
        /\ evidence'[Len(evidence) + 1] = made
    BY <1>4, <1>5, BackupTyped, AppendProperties DEF BackupInv
  <2>3. now \in Nat /\ made.closure.status = "closed" => made.closure.at = now
    BY <1>2, <1>3, ClosureTyped DEF BackupInv, BackupType
  <2>4. ASSUME NEW e \in DOMAIN evidence', evidence'[e].closure.status = "closed"
        PROVE  evidence'[e].closure.at \in Nat /\ evidence'[e].closure.at <= now'
    <3>1. CASE e \in DOMAIN evidence
      BY <1>1, <2>2, <2>4, <3>1 DEF BackupInv, ClosuresPast
    <3>2. CASE e = Len(evidence) + 1
      <4>1. now \in Nat
        BY DEF BackupInv, BackupType
      <4> QED BY <1>1, <2>2, <2>3, <2>4, <3>2, <4>1
    <3> QED BY <2>2, <3>1, <3>2
  <2>5. ASSUME NEW k \in Calls, calls'[k].pc = "evidence"
        PROVE  calls'[k].row \in DOMAIN evidence' /\ calls'[k].at.closure.status = "open"
    BY <1>6, <2>1, <2>2, <2>5 DEF BackupInv, ClosuresPast
  <2> QED BY <2>4, <2>5 DEF ClosuresPast
<1> QED BY <1>7, <1>8 DEF BackupInv

LEMMA UpdateEvidenceKept ==
    ASSUME BackupInv, NEW c \in Calls, Backups!UpdateEvidence(c)
    PROVE  BackupInv'
<1>1. /\ Backups!Goto(c, Backups!Idle)
      /\ UNCHANGED <<policy, runs, compliance, now, outdated>>
      /\ calls[c] \in EvidenceCall /\ calls[c].row \in DOMAIN evidence
  BY BackupTyped DEF BackupInv, Backups!UpdateEvidence, Backups!At, ClosuresPast
<1>2. PICK e : e = calls[c].row
  OBVIOUS
<1>3. PICK closure : closure = Backups!Closure(calls[c].close)
  OBVIOUS
<1>4. /\ closure \in [status : {"open", "closed"}, at : Time]
      /\ closure.status = "closed" => closure.at = now
  BY <1>1, <1>3, ClosureTyped DEF EvidenceCall, BackupInv
<1>5. evidence' = [evidence EXCEPT ![e].closure = closure] /\ evidence \in Seq(EvidenceRow)
  BY <1>2, <1>3 DEF Backups!UpdateEvidence, BackupInv, BackupType
<1>6. evidence[e] \in EvidenceRow /\ e \in DOMAIN evidence
  BY <1>1, <1>2, BackupTyped DEF BackupInv
<1>7. PICK made : made = [evidence[e] EXCEPT !.closure = closure]
  OBVIOUS
<1>8. made \in EvidenceRow /\ made.closure = closure
  BY <1>4, <1>6, <1>7 DEF EvidenceRow
<1>9. evidence' = [evidence EXCEPT ![e] = made]
  BY <1>5, <1>7
<1>10. Backups!Idle \in BackupCall /\ Backups!Idle.pc = "idle"
  BY DEF BackupCall, Backups!Idle
<1>11. BackupType' /\ TimesAhead' /\ RunsNew' /\ \A k \in Calls : CallOk(k)'
  <2>1. evidence' \in Seq(EvidenceRow) /\ compliance' \in ComplianceRow
    BY <1>1, <1>5, <1>6, <1>8, <1>9, BackupTyped, ExceptSeq DEF BackupInv, BackupType
  <2> QED BY <1>1, <1>10, <2>1, EvidenceStepKept
<1>12. ClosuresPast'
  <2>1. calls'[c] = Backups!Idle /\ \A k \in Calls \ {c} : calls'[k] = calls[k]
    BY <1>1, BackupGoto DEF BackupInv
  <2>2. /\ DOMAIN evidence' = DOMAIN evidence /\ evidence'[e] = made
        /\ \A k \in DOMAIN evidence \ {e} : evidence'[k] = evidence[k]
    BY <1>6, <1>9
  <2>3. ASSUME NEW k \in DOMAIN evidence', evidence'[k].closure.status = "closed"
        PROVE  evidence'[k].closure.at \in Nat /\ evidence'[k].closure.at <= now'
    <3>1. CASE k # e
      BY <1>1, <2>2, <2>3, <3>1 DEF BackupInv, ClosuresPast
    <3>2. CASE k = e
      <4>1. now \in Nat
        BY DEF BackupInv, BackupType
      <4> QED BY <1>1, <1>4, <1>8, <2>2, <2>3, <3>2, <4>1
    <3> QED BY <3>1, <3>2
  <2>4. ASSUME NEW k \in Calls, calls'[k].pc = "evidence"
        PROVE  calls'[k].row \in DOMAIN evidence' /\ calls'[k].at.closure.status = "open"
    BY <1>10, <2>1, <2>2, <2>4 DEF BackupInv, ClosuresPast
  <2> QED BY <2>3, <2>4 DEF ClosuresPast
<1> QED BY <1>11, <1>12 DEF BackupInv

LEMMA BackupClockKept ==
    ASSUME BackupInv, Backups!ClockTicks
    PROVE  BackupInv'
<1>1. /\ now' = now + 1 /\ now \in Nat
      /\ UNCHANGED <<policy, runs, evidence, compliance, calls, outdated>>
  BY DEF Backups!ClockTicks, BackupInv, BackupType
<1>2. now' \in Nat /\ now <= now'
  BY <1>1
<1>3. BackupType' /\ TimesAhead' /\ RunsNew' /\ \A k \in Calls : CallOk(k)'
  <2>1. /\ evidence' \in Seq(EvidenceRow) /\ compliance' \in ComplianceRow
        /\ calls' \in [Calls -> BackupCall]
    BY <1>1 DEF BackupInv, BackupType
  <2> QED BY <1>1, <1>2, <2>1, QuietKept
<1>4. ClosuresPast'
  BY <1>1, <1>2, ClosuresKept
<1> QED BY <1>3, <1>4 DEF BackupInv
-----------------------------------------------------------------------------
(* Policies are written and runs are made *)

LEMMA RowAhead ==
    ASSUME NEW b \in BackupSchedules, NEW d \in DrillSchedules, NEW on \in BOOLEAN, NEW t \in Nat,
           NEW x, x = Backups!Row(b, d, on, t)
    PROVE  /\ x \in PolicyRow /\ x.enabled = on
           /\ x.nextBackup \in Int /\ x.nextBackup > t
           /\ x.enabled <=> x.nextDrill # Absent
           /\ x.enabled => x.nextDrill \in Int /\ x.nextDrill > t
<1>1. /\ Backups!NextBackup(b, t) \in Int /\ Backups!NextBackup(b, t) > t
      /\ Backups!NextDrill(d, t) \in Int /\ Backups!NextDrill(d, t) > t
  BY NextTimes
<1>2. x = [backup |-> b, drill |-> d, enabled |-> on, nextBackup |-> Backups!NextBackup(b, t),
           nextDrill |-> IF on THEN Backups!NextDrill(d, t) ELSE Absent]
  BY DEF Backups!Row
<1> QED BY <1>1, <1>2, NeverAssumption DEF PolicyRow, Time

LEMMA CreatePolicyKept ==
    ASSUME BackupInv, Backups!CreatePolicy
    PROVE  BackupInv'
<1>1. PICK p \in BackupKeys \ DOMAIN policy, b \in BackupSchedules, d \in DrillSchedules, on \in BOOLEAN :
        policy' = [q \in DOMAIN policy \cup {p} |-> IF q = p THEN Backups!Row(b, d, on, now) ELSE policy[q]]
  BY DEF Backups!CreatePolicy
<1>2. UNCHANGED <<runs, evidence, compliance, now, calls, outdated>> /\ now \in Nat /\ now <= now'
  BY DEF Backups!CreatePolicy, BackupInv, BackupType
<1>3. PICK x : x = Backups!Row(b, d, on, now)
  OBVIOUS
<1>4. x \in PolicyRow /\ (x.enabled <=> x.nextDrill # Absent)
  BY <1>2, <1>3, RowAhead
<1>5. /\ DOMAIN policy' = DOMAIN policy \cup {p} /\ policy'[p] = x /\ p \notin DOMAIN policy
      /\ \A q \in DOMAIN policy : policy'[q] = policy[q]
      /\ policy' = [q \in DOMAIN policy' |-> policy'[q]]
  BY <1>1, <1>3
<1>6. Grows
  BY <1>2, <1>5 DEF Grows
<1>7. BackupType'
  <2>1. DOMAIN policy' \subseteq BackupKeys /\ \A q \in DOMAIN policy' : policy'[q] \in PolicyRow
    BY <1>4, <1>5 DEF BackupInv, BackupType
  <2>2. \A i \in DOMAIN runs' : runs'[i].p \in DOMAIN policy'
    BY <1>2, <1>5 DEF BackupInv, BackupType
  <2> QED BY <1>2, <1>5, <2>1, <2>2 DEF BackupInv, BackupType
<1>8. TimesAhead'
  <2> SUFFICES ASSUME NEW q \in DOMAIN policy' \ outdated
               PROVE  /\ policy'[q].enabled <=> policy'[q].nextDrill # Absent
                      /\ \A i \in DOMAIN runs :
                           runs[i].done /\ runs[i].p = q /\ runs[i].due # Absent =>
                             \/ Backups!NextTime(q, runs[i].type)' = Absent
                             \/ Backups!NextTime(q, runs[i].type)' > runs[i].due
    BY <1>2 DEF TimesAhead, Backups!NextTime
  <2>1. CASE q = p
    <3>1. \A i \in DOMAIN runs : runs[i].p # p
      BY <1>5 DEF BackupInv, BackupType
    <3>2. policy'[q] = x
      BY <1>5, <2>1
    <3>3. policy'[q].enabled <=> policy'[q].nextDrill # Absent
      BY <1>4, <3>2
    <3> QED BY <2>1, <3>1, <3>3
  <2>2. CASE q \in DOMAIN policy
    BY <1>2, <1>5, <2>2 DEF BackupInv, TimesAhead, Backups!NextTime
  <2> QED BY <1>5, <2>1, <2>2
<1>9. RunsNew' /\ ClosuresPast'
  BY <1>2 DEF BackupInv, RunsNew, ClosuresPast, Again
<1>10. ASSUME NEW c \in Calls PROVE CallOk(c)'
  <2>1. ReadFresh(c)'
    BY <1>2, <1>5 DEF BackupInv, CallOk, ReadKnown, ReadFresh, Holds
  <2> QED BY <1>2, <1>6, <2>1, CallStays DEF BackupInv
<1> QED BY <1>7, <1>8, <1>9, <1>10 DEF BackupInv

\* A write of policy p by call c makes what the others have read of it old.
LEMMA OthersKept ==
    ASSUME BackupInv, NEW c \in Calls, NEW p, NEW x, Backups!Written(c, p, x), Grows,
           \A q \in DOMAIN policy \ {p} : policy'[q] = policy[q],
           DOMAIN runs' = DOMAIN runs,
           \A i \in DOMAIN runs : runs'[i].done => runs[i].done \/ runs[i].p = p
    PROVE  /\ calls'[c] = x /\ (x \in BackupCall => calls' \in [Calls -> BackupCall])
           /\ outdated' = IF calls[c].old THEN outdated \cup {p} ELSE outdated
           /\ \A k \in Calls \ {c} : CallOk(k)'
           /\ \A k \in Calls \ {c} : calls'[k].pc = "evidence" => calls'[k] = calls[k]
<1>1. /\ calls' = [k \in Calls |-> IF k = c THEN x
                                   ELSE IF Holds(k) /\ calls[k].p = p
                                   THEN [calls[k] EXCEPT !.old = TRUE] ELSE calls[k]]
      /\ outdated' = IF calls[c].old THEN outdated \cup {p} ELSE outdated
  BY DEF Backups!Written, Holds
<1>2. ASSUME NEW k \in Calls \ {c}
      PROVE  /\ CallOk(k)' /\ calls'[k] \in BackupCall
             /\ calls'[k].pc = "evidence" => calls'[k] = calls[k]
  <2>1. CASE Holds(k) /\ calls[k].p = p
    <3>1. calls'[k] = [calls[k] EXCEPT !.old = TRUE]
      BY <1>1, <2>1
    <3>2. calls[k] \in ChangeCall \cup RunCall
      BY <2>1, BackupTyped DEF BackupInv
    <3>3. calls'[k].old = TRUE /\ calls'[k].pc # "evidence" /\ calls'[k] \in ChangeCall \cup RunCall
      <4>1. CASE calls[k] \in ChangeCall
        BY <3>1, <4>1 DEF ChangeCall
      <4>2. CASE calls[k] \in RunCall
        BY <3>1, <4>2 DEF RunCall
      <4> QED BY <3>2, <4>1, <4>2
    <3>4. ReadFresh(k)'
      BY <3>3 DEF ReadFresh
    <3>5. CallOk(k)'
      BY <2>1, <3>1, <3>4, CallStays DEF BackupInv
    <3> QED BY <3>3, <3>5 DEF BackupCall
  <2>2. CASE ~(Holds(k) /\ calls[k].p = p)
    <3>1. calls'[k] = calls[k]
      BY <1>1, <2>2
    <3>2. Holds(k)' <=> Holds(k)
      BY <3>1 DEF Holds
    <3>3. CallOk(k)
      BY DEF BackupInv
    <3>4. ReadFresh(k)'
      <4> SUFFICES ASSUME Holds(k), ~calls[k].old
                   PROVE  /\ calls[k].read = policy'[calls[k].p]
                          /\ \A i \in DOMAIN runs' : runs'[i].done /\ runs'[i].p = calls[k].p =>
                                 Until(runs'[i].due, calls[k].at)
        BY <3>1, <3>2 DEF ReadFresh
      <4>1. calls[k].p # p /\ calls[k].p \in DOMAIN policy
        BY <2>2, <3>3 DEF CallOk, ReadKnown
      <4>2. /\ calls[k].read = policy[calls[k].p]
            /\ \A i \in DOMAIN runs : runs[i].done /\ runs[i].p = calls[k].p =>
                   Until(runs[i].due, calls[k].at)
        BY <3>3 DEF CallOk, ReadFresh
      <4> QED BY <4>1, <4>2 DEF Grows
    <3>5. CallOk(k)'
      BY <3>1, <3>3, <3>4, CallStays DEF BackupInv
    <3> QED BY <3>1, <3>5, BackupTyped DEF BackupInv
  <2> QED BY <2>1, <2>2
<1> QED BY <1>1, <1>2

LEMMA UpdatePolicyKept ==
    ASSUME BackupInv, NEW c \in Calls, Backups!UpdatePolicy(c)
    PROVE  BackupInv'
<1>1. calls[c].pc = "update" /\ UNCHANGED <<runs, evidence, compliance, now>>
  BY DEF Backups!UpdatePolicy, Backups!At
<1>2. calls[c] \in ChangeCall /\ Holds(c)
  BY <1>1, BackupTyped DEF BackupInv, Holds, Runs
<1>3. PICK p : p = calls[c].p
  OBVIOUS
<1>4. PICK b \in BackupSchedules \cup {calls[c].read.backup},
           d \in DrillSchedules \cup {calls[c].read.drill}, on \in BOOLEAN :
        /\ policy' = [policy EXCEPT ![p] = Backups!Row(b, d, on, calls[c].at)]
        /\ Backups!Written(c, p, Backups!Idle)
  BY <1>3 DEF Backups!UpdatePolicy
<1>5. /\ b \in BackupSchedules /\ d \in DrillSchedules /\ calls[c].at \in Nat
      /\ calls[c].old \in BOOLEAN /\ now \in Nat
  BY <1>2 DEF ChangeCall, PolicyRow, BackupInv, BackupType
<1>6. PICK x : x = Backups!Row(b, d, on, calls[c].at)
  OBVIOUS
<1>7. /\ x \in PolicyRow /\ x.nextBackup \in Int /\ x.nextBackup > calls[c].at
      /\ x.enabled <=> x.nextDrill # Absent
      /\ x.enabled => x.nextDrill \in Int /\ x.nextDrill > calls[c].at
  BY <1>5, <1>6, RowAhead
<1>8. /\ p \in DOMAIN policy
      /\ ~calls[c].old => \A i \in DOMAIN runs : runs[i].done /\ runs[i].p = p =>
                              Until(runs[i].due, calls[c].at)
  BY <1>2, <1>3 DEF BackupInv, CallOk, ReadKnown, ReadFresh
<1>9. /\ policy' = [policy EXCEPT ![p] = x]
      /\ DOMAIN policy' = DOMAIN policy /\ policy'[p] = x
      /\ \A q \in DOMAIN policy \ {p} : policy'[q] = policy[q]
      /\ policy' = [q \in DOMAIN policy' |-> policy'[q]]
  BY <1>4, <1>6, <1>8
<1>10. outdated' = IF calls[c].old THEN outdated \cup {p} ELSE outdated
  BY <1>4 DEF Backups!Written
<1>11. Grows
  BY <1>1, <1>5, <1>9, <1>10 DEF Grows
<1>12. Backups!Idle \in BackupCall /\ Backups!Idle.pc = "idle"
  BY DEF BackupCall, Backups!Idle
<1>13. /\ calls'[c] = Backups!Idle /\ calls' \in [Calls -> BackupCall]
       /\ \A k \in Calls \ {c} : CallOk(k)'
       /\ \A k \in Calls \ {c} : calls'[k].pc = "evidence" => calls'[k] = calls[k]
  BY <1>1, <1>4, <1>9, <1>11, <1>12, OthersKept
<1>14. CallOk(c)'
  BY <1>12, <1>13, RestsOk DEF Holds, Runs
<1>15. BackupType'
  BY <1>1, <1>7, <1>9, <1>13 DEF BackupInv, BackupType
<1>16. TimesAhead'
  <2> SUFFICES ASSUME NEW q \in DOMAIN policy' \ outdated'
               PROVE  /\ policy'[q].enabled <=> policy'[q].nextDrill # Absent
                      /\ \A i \in DOMAIN runs :
                           runs[i].done /\ runs[i].p = q /\ runs[i].due # Absent =>
                             \/ Backups!NextTime(q, runs[i].type)' = Absent
                             \/ Backups!NextTime(q, runs[i].type)' > runs[i].due
    BY <1>1 DEF TimesAhead, Backups!NextTime
  <2>1. q \in DOMAIN policy \ outdated
    BY <1>9, <1>11 DEF Grows
  <2>2. CASE q # p
    <3>1. policy'[q] = policy[q]
      BY <1>9, <2>1, <2>2
    <3>2. /\ policy[q].enabled <=> policy[q].nextDrill # Absent
          /\ \A i \in DOMAIN runs : runs[i].done /\ runs[i].p = q /\ runs[i].due # Absent =>
                 \/ Backups!NextTime(q, runs[i].type) = Absent
                 \/ Backups!NextTime(q, runs[i].type) > runs[i].due
      BY <2>1 DEF BackupInv, TimesAhead
    <3>3. \A i \in DOMAIN runs : Backups!NextTime(q, runs[i].type)' = Backups!NextTime(q, runs[i].type)
      BY <1>1, <3>1 DEF Backups!NextTime
    <3> QED BY <3>1, <3>2, <3>3
  <2>3. CASE q = p
    <3>1. ~calls[c].old
      BY <1>10, <2>3
    <3>2. ASSUME NEW i \in DOMAIN runs, runs[i].done, runs[i].p = q, runs[i].due # Absent
          PROVE  \/ Backups!NextTime(q, runs[i].type)' = Absent
                 \/ Backups!NextTime(q, runs[i].type)' > runs[i].due
      <4>1. runs[i].due <= calls[c].at
        BY <1>8, <2>3, <3>1, <3>2 DEF Until
      <4>2. runs[i].due \in Int
        BY <3>2, BackupTyped DEF BackupInv, BackupRun, Time
      <4> QED BY <1>5, <1>7, <1>9, <2>3, <4>1, <4>2 DEF Backups!NextTime
    <3> QED BY <1>7, <1>9, <2>3, <3>2
  <2> QED BY <2>2, <2>3
<1>17. RunsNew'
  BY <1>1, <1>11 DEF BackupInv, RunsNew, Again, Grows
<1>18. ClosuresPast'
  BY <1>1, <1>5, <1>12, <1>13, ClosuresKept
<1> QED BY <1>13, <1>14, <1>15, <1>16, <1>17, <1>18 DEF BackupInv

LEMMA InsertRunKept ==
    ASSUME BackupInv, NEW c \in Calls, Backups!InsertRun(c)
    PROVE  BackupInv'
<1>1. /\ calls[c].pc = "insert"
      /\ UNCHANGED <<policy, evidence, compliance, now, outdated>>
      /\ now \in Nat /\ now <= now' /\ now' \in Nat
  BY DEF Backups!InsertRun, Backups!At, BackupInv, BackupType
<1>2. calls[c] \in RunCall /\ Holds(c) /\ Runs(c)
  BY <1>1, BackupTyped DEF BackupInv, Holds, Runs
<1>3. PICK r : r = [p |-> calls[c].p, type |-> calls[c].type, due |-> calls[c].due,
                    status |-> IF calls[c].fails THEN "failed" ELSE "succeeded", at |-> now,
                    done |-> FALSE, after |-> calls[c].done]
  OBVIOUS
<1>4. r \in BackupRun
  BY <1>1, <1>2, <1>3 DEF BackupRun, RunCall
<1>5. PICK n : n = Len(runs) + 1
  OBVIOUS
<1>6. n \in Nat /\ DOMAIN runs = 1..(n - 1) /\ n \notin DOMAIN runs
  BY <1>5, BackupTyped DEF BackupInv
<1>7. /\ runs' \in Seq(BackupRun) /\ DOMAIN runs' = DOMAIN runs \cup {n} /\ runs'[n] = r
      /\ \A i \in DOMAIN runs : runs'[i] = runs[i]
  <2>1. runs' = Append(runs, r) /\ runs \in Seq(BackupRun)
    BY <1>3 DEF Backups!InsertRun, BackupInv, BackupType
  <2> QED BY <1>4, <1>5, <2>1, AppendProperties, BackupTyped DEF BackupInv
<1>8. PICK x : x = [calls[c] EXCEPT !.pc = "reschedule", !.row = n]
  OBVIOUS
<1>9. /\ x \in RunCall /\ x.pc = "reschedule" /\ x.row = n
      /\ x.p = calls[c].p /\ x.type = calls[c].type /\ x.due = calls[c].due /\ x.done = calls[c].done
      /\ x.queue = calls[c].queue /\ x.read = calls[c].read /\ x.old = calls[c].old
      /\ x.at = calls[c].at
  BY <1>2, <1>6, <1>8 DEF RunCall
<1>10. calls'[c] = x /\ calls' \in [Calls -> BackupCall] /\ \A k \in Calls \ {c} : calls'[k] = calls[k]
  <2>1. Backups!Goto(c, x) /\ x \in BackupCall
    BY <1>5, <1>8, <1>9 DEF Backups!InsertRun, BackupCall
  <2> QED BY <2>1, BackupGoto DEF BackupInv
<1>11. Grows
  BY <1>1, <1>7 DEF Grows
<1>12. /\ calls[c].p \in DOMAIN policy /\ calls[c].at <= now
       /\ ~calls[c].old =>
            /\ calls[c].read = policy[calls[c].p]
            /\ \A i \in DOMAIN runs : runs[i].done /\ runs[i].p = calls[c].p =>
                   Until(runs[i].due, calls[c].at)
       /\ calls[c].done \subseteq DOMAIN runs
       /\ \A e \in calls[c].queue : /\ e.p \in DOMAIN policy /\ Until(e.due, now)
                                    /\ \A i \in calls[c].done : ~Again(i, e)
       /\ Until(calls[c].due, calls[c].at) /\ \A i \in calls[c].done : ~Again(i, calls[c])
  BY <1>1, <1>2 DEF BackupInv, CallOk, ReadKnown, ReadFresh, EntriesNew, RunNew
<1>13. BackupType'
  <2>1. \A i \in DOMAIN runs' : runs'[i].p \in DOMAIN policy'
    BY <1>1, <1>3, <1>7, <1>12 DEF BackupInv, BackupType
  <2> QED BY <1>1, <1>7, <1>10, <2>1 DEF BackupInv, BackupType
<1>14. r.done = FALSE /\ r.p = calls[c].p /\ r.type = calls[c].type /\ r.due = calls[c].due /\ r.after = calls[c].done
  BY <1>3
<1>15. TimesAhead'
  BY <1>1, <1>7, <1>14 DEF BackupInv, TimesAhead, Backups!NextTime
<1>16. RunsNew'
  <2>1. ASSUME NEW j \in DOMAIN runs
        PROVE  /\ Until(runs'[j].due, now')
               /\ \A i \in runs'[j].after : i \in DOMAIN runs' /\ ~Again(i, runs[j])'
    <3>1. Until(runs[j].due, now) /\ \A i \in runs[j].after : i \in DOMAIN runs /\ ~Again(i, runs[j])
      BY DEF BackupInv, RunsNew
    <3> QED BY <1>1, <1>7, <3>1 DEF Again
  <2>2. /\ Until(r.due, now')
        /\ \A i \in r.after : i \in DOMAIN runs' /\ ~Again(i, runs[n])'
    <3>1. Until(r.due, now')
      <4>1. calls[c].due \in Time /\ calls[c].at \in Int
        BY <1>2 DEF RunCall
      <4> QED BY <1>1, <1>12, <1>14, <4>1, UntilLater
    <3> QED BY <1>1, <1>7, <1>12, <1>14, <3>1 DEF Again
  <2> QED BY <1>7, <2>1, <2>2 DEF RunsNew
<1>17. ASSUME NEW k \in Calls, calls'[k] = calls[k] PROVE CallOk(k)'
  <2>1. Holds(k)' <=> Holds(k)
    BY <1>17 DEF Holds
  <2>2. ReadFresh(k)'
    <3> SUFFICES ASSUME Holds(k), ~calls[k].old
                 PROVE  /\ calls[k].read = policy'[calls[k].p]
                        /\ \A i \in DOMAIN runs' : runs'[i].done /\ runs'[i].p = calls[k].p =>
                               Until(runs'[i].due, calls[k].at)
      BY <1>17, <2>1 DEF ReadFresh
    <3>1. /\ calls[k].read = policy[calls[k].p]
          /\ \A i \in DOMAIN runs : runs[i].done /\ runs[i].p = calls[k].p =>
                 Until(runs[i].due, calls[k].at)
      BY DEF BackupInv, CallOk, ReadFresh
    <3> QED BY <1>1, <1>7, <1>14, <3>1
  <2> QED BY <1>11, <1>17, <2>2, CallStays DEF BackupInv
<1>18. CallOk(c)'
  <2>1. ReadKnown(c)'
    BY <1>1, <1>9, <1>10, <1>12 DEF ReadKnown
  <2>2. ReadFresh(c)'
    BY <1>1, <1>7, <1>9, <1>10, <1>12, <1>14 DEF ReadFresh
  <2>3. EntriesNew(c)'
    BY <1>1, <1>7, <1>9, <1>10, <1>12 DEF EntriesNew, Again
  <2>4. RunNew(c)'
    BY <1>1, <1>7, <1>9, <1>10, <1>12, <1>14 DEF RunNew
  <2> QED BY <2>1, <2>2, <2>3, <2>4 DEF CallOk
<1>19. ClosuresPast'
  <2>1. \A k \in Calls : calls'[k].pc = "evidence" => calls'[k] = calls[k]
    BY <1>9, <1>10
  <2> QED BY <1>1, <2>1, ClosuresKept
<1> QED BY <1>10, <1>13, <1>15, <1>16, <1>17, <1>18, <1>19 DEF BackupInv

LEMMA RescheduleKept ==
    ASSUME BackupInv, NEW c \in Calls, Backups!Reschedule(c)
    PROVE  BackupInv'
<1>1. /\ calls[c].pc = "reschedule"
      /\ UNCHANGED <<evidence, compliance, now>> /\ now \in Nat /\ now <= now' /\ now' \in Nat
  BY DEF Backups!Reschedule, Backups!At, BackupInv, BackupType
<1>2. calls[c] \in RunCall /\ Holds(c) /\ Runs(c)
  BY <1>1, BackupTyped DEF BackupInv, Holds, Runs
<1>3. PICK p : p = calls[c].p
  OBVIOUS
<1>4. PICK n : n = calls[c].row
  OBVIOUS
<1>5. /\ p \in DOMAIN policy /\ calls[c].at <= now
      /\ ~calls[c].old =>
           /\ calls[c].read = policy[p]
           /\ \A i \in DOMAIN runs : runs[i].done /\ runs[i].p = p =>
                  Until(runs[i].due, calls[c].at)
      /\ calls[c].done \subseteq DOMAIN runs
      /\ \A e \in calls[c].queue : /\ e.p \in DOMAIN policy /\ Until(e.due, now)
                                   /\ \A i \in calls[c].done : ~Again(i, e)
      /\ Until(calls[c].due, calls[c].at)
      /\ n \in DOMAIN runs /\ runs[n].p = p /\ runs[n].type = calls[c].type
      /\ runs[n].due = calls[c].due
  BY <1>1, <1>2, <1>3, <1>4 DEF BackupInv, CallOk, ReadKnown, ReadFresh, EntriesNew, RunNew
<1>6. /\ calls[c].at \in Nat /\ calls[c].old \in BOOLEAN /\ calls[c].type \in {"backup", "drill"}
      /\ calls[c].read.backup \in BackupSchedules /\ calls[c].read.drill \in DrillSchedules
      /\ calls[c].read.enabled \in BOOLEAN /\ policy[p] \in PolicyRow
  BY <1>2, <1>5 DEF RunCall, PolicyRow, BackupInv, BackupType
<1>7. PICK next : next = IF calls[c].type = "backup"
                           THEN Backups!NextBackup(calls[c].read.backup, calls[c].at)
                           ELSE IF calls[c].read.enabled
                                  THEN Backups!NextDrill(calls[c].read.drill, calls[c].at) ELSE Absent
  OBVIOUS
<1>8. /\ next \in Time
      /\ next # Absent => next \in Int /\ next > calls[c].at
      /\ calls[c].type = "backup" => next # Absent
      /\ calls[c].type # "backup" => (calls[c].read.enabled <=> next # Absent)
  <2>1. /\ Backups!NextBackup(calls[c].read.backup, calls[c].at) \in Int
        /\ Backups!NextBackup(calls[c].read.backup, calls[c].at) > calls[c].at
        /\ Backups!NextDrill(calls[c].read.drill, calls[c].at) \in Int
        /\ Backups!NextDrill(calls[c].read.drill, calls[c].at) > calls[c].at
    BY <1>6, NextTimes
  <2> QED BY <1>7, <2>1, NeverAssumption DEF Time
<1>9. PICK x : x = IF calls[c].type = "backup" THEN [policy[p] EXCEPT !.nextBackup = next]
                                               ELSE [policy[p] EXCEPT !.nextDrill = next]
  OBVIOUS
<1>10. /\ x \in PolicyRow /\ x.enabled = policy[p].enabled
       /\ calls[c].type = "backup" => x.nextBackup = next /\ x.nextDrill = policy[p].nextDrill
       /\ calls[c].type # "backup" => x.nextDrill = next /\ x.nextBackup = policy[p].nextBackup
  <2>1. CASE calls[c].type = "backup"
    BY <1>6, <1>8, <1>9, <2>1 DEF PolicyRow, Time
  <2>2. CASE calls[c].type # "backup"
    BY <1>6, <1>8, <1>9, <2>2 DEF PolicyRow, Time
  <2> QED BY <2>1, <2>2
<1>11. policy' = [policy EXCEPT ![p] = x]
  <2>1. CASE calls[c].type = "backup"
    BY <1>3, <1>7, <1>9, <2>1 DEF Backups!Reschedule
  <2>2. CASE calls[c].type # "backup"
    BY <1>3, <1>7, <1>9, <2>2 DEF Backups!Reschedule
  <2> QED BY <2>1, <2>2
<1>12. /\ DOMAIN policy' = DOMAIN policy /\ policy'[p] = x
       /\ \A q \in DOMAIN policy \ {p} : policy'[q] = policy[q]
       /\ policy' = [q \in DOMAIN policy' |-> policy'[q]]
  BY <1>5, <1>11
<1>13. PICK r : r = [runs[n] EXCEPT !.done = TRUE]
  OBVIOUS
<1>14. /\ r \in BackupRun /\ r.p = p /\ r.type = calls[c].type /\ r.due = calls[c].due
       /\ r.after = runs[n].after
  BY <1>5, <1>13, BackupTyped DEF BackupInv, BackupRun
<1>15. /\ runs' \in Seq(BackupRun) /\ DOMAIN runs' = DOMAIN runs /\ runs'[n] = r
       /\ \A i \in DOMAIN runs \ {n} : runs'[i] = runs[i]
  <2>1. runs' = [runs EXCEPT ![n] = r] /\ runs \in Seq(BackupRun)
    BY <1>4, <1>13 DEF Backups!Reschedule, BackupInv, BackupType
  <2> QED BY <1>5, <1>14, <2>1, ExceptSeq, BackupTyped DEF BackupInv
<1>16. \A i \in DOMAIN runs : /\ runs'[i].p = runs[i].p /\ runs'[i].type = runs[i].type
                              /\ runs'[i].due = runs[i].due /\ runs'[i].after = runs[i].after
                              /\ runs'[i].done => runs[i].done \/ i = n
  BY <1>5, <1>14, <1>15
<1>17. PICK y : y = IF calls[c].queue = {} THEN Backups!Idle
                    ELSE [pc |-> "run", fails |-> calls[c].fails, done |-> calls[c].done,
                          queue |-> calls[c].queue]
  OBVIOUS
<1>18. /\ y \in {Backups!Idle} \cup QueueCall /\ y.pc \in {"idle", "run"}
       /\ y.pc = "run" => y.done = calls[c].done /\ y.queue = calls[c].queue
  BY <1>2, <1>17 DEF Backups!Idle, QueueCall, RunCall
<1>19. Backups!Written(c, p, y)
  BY <1>3, <1>17 DEF Backups!Reschedule
<1>20. outdated' = IF calls[c].old THEN outdated \cup {p} ELSE outdated
  BY <1>19 DEF Backups!Written
<1>21. Grows
  BY <1>1, <1>12, <1>15, <1>16, <1>20 DEF Grows
<1>22. /\ calls'[c] = y /\ calls' \in [Calls -> BackupCall]
       /\ \A k \in Calls \ {c} : CallOk(k)'
       /\ \A k \in Calls \ {c} : calls'[k].pc = "evidence" => calls'[k] = calls[k]
  <2>1. y \in BackupCall
    BY <1>18 DEF BackupCall
  <2>2. \A i \in DOMAIN runs : runs'[i].done => runs[i].done \/ runs[i].p = p
    BY <1>5, <1>16
  <2> QED BY <1>12, <1>15, <1>19, <1>21, <2>1, <2>2, OthersKept
<1>23. CallOk(c)'
  <2>1. ~Holds(c)'
    BY <1>18, <1>22 DEF Holds
  <2>2. EntriesNew(c)'
    <3> SUFFICES ASSUME y.pc = "run"
                 PROVE  /\ y.done \subseteq DOMAIN runs'
                        /\ \A e \in y.queue : /\ e.p \in DOMAIN policy' /\ Until(e.due, now')
                                              /\ \A i \in y.done : ~Again(i, e)'
      BY <1>18, <1>22 DEF EntriesNew, Runs, Again
    <3> QED BY <1>1, <1>5, <1>12, <1>15, <1>16, <1>18, <1>21 DEF Again, Grows
  <2> QED BY <2>1, <2>2 DEF CallOk, ReadKnown, ReadFresh, RunNew
<1>24. BackupType'
  <2>1. \A q \in DOMAIN policy' : policy'[q] \in PolicyRow
    BY <1>10, <1>12 DEF BackupInv, BackupType
  <2>2. \A i \in DOMAIN runs' : runs'[i].p \in DOMAIN policy'
    BY <1>12, <1>15, <1>16 DEF BackupInv, BackupType
  <2> QED BY <1>1, <1>12, <1>15, <1>22, <2>1, <2>2 DEF BackupInv, BackupType
<1>25. TimesAhead'
  <2> SUFFICES ASSUME NEW q \in DOMAIN policy' \ outdated'
               PROVE  /\ policy'[q].enabled <=> policy'[q].nextDrill # Absent
                      /\ \A i \in DOMAIN runs :
                           runs'[i].done /\ runs[i].p = q /\ runs[i].due # Absent =>
                             \/ Backups!NextTime(q, runs[i].type)' = Absent
                             \/ Backups!NextTime(q, runs[i].type)' > runs[i].due
    BY <1>15, <1>16 DEF TimesAhead, Backups!NextTime
  <2>1. q \in DOMAIN policy \ outdated
    BY <1>12, <1>21 DEF Grows
  <2>2. CASE q # p
    <3>1. policy'[q] = policy[q]
      BY <1>12, <2>1, <2>2
    <3>2. \A i \in DOMAIN runs : runs'[i].done /\ runs[i].p = q => runs[i].done
      BY <1>5, <1>16, <2>2
    <3>3. /\ policy[q].enabled <=> policy[q].nextDrill # Absent
          /\ \A i \in DOMAIN runs : runs[i].done /\ runs[i].p = q /\ runs[i].due # Absent =>
                 \/ Backups!NextTime(q, runs[i].type) = Absent
                 \/ Backups!NextTime(q, runs[i].type) > runs[i].due
      BY <2>1 DEF BackupInv, TimesAhead
    <3>4. \A i \in DOMAIN runs : Backups!NextTime(q, runs[i].type)' = Backups!NextTime(q, runs[i].type)
      BY <1>16, <3>1 DEF Backups!NextTime
    <3> QED BY <3>1, <3>2, <3>3, <3>4
  <2>3. CASE q = p
    <3>1. ~calls[c].old
      BY <1>20, <2>3
    <3>2. policy'[q] = x /\ calls[c].read = policy[p]
      BY <1>5, <1>12, <2>3, <3>1
    <3>3. policy[p].enabled <=> policy[p].nextDrill # Absent
      BY <2>1, <2>3 DEF BackupInv, TimesAhead
    <3>4. policy'[q].enabled <=> policy'[q].nextDrill # Absent
      BY <1>8, <1>10, <3>2, <3>3
    <3>5. ASSUME NEW i \in DOMAIN runs, runs'[i].done, runs[i].p = q, runs[i].due # Absent
          PROVE  \/ Backups!NextTime(q, runs[i].type)' = Absent
                 \/ Backups!NextTime(q, runs[i].type)' > runs[i].due
      <4>1. runs[i].due \in Int /\ runs[i].type \in {"backup", "drill"}
        BY <3>5, BackupTyped DEF BackupInv, BackupRun, Time
      <4>2. runs[i].due <= calls[c].at
        BY <1>5, <1>16, <2>3, <3>1, <3>5 DEF Until
      <4>3. CASE runs[i].type = calls[c].type
        <5>1. CASE runs[i].type = "backup"
          BY <1>6, <1>8, <1>10, <1>16, <3>2, <4>1, <4>2, <4>3, <5>1 DEF Backups!NextTime
        <5>2. CASE runs[i].type = "drill"
          BY <1>6, <1>8, <1>10, <1>16, <3>2, <4>1, <4>2, <4>3, <5>2 DEF Backups!NextTime
        <5> QED BY <4>1, <5>1, <5>2
      <4>4. CASE runs[i].type # calls[c].type
        <5>1. runs[i].done
          BY <1>5, <1>16, <3>5, <4>4
        <5>2. \/ Backups!NextTime(p, runs[i].type) = Absent
              \/ Backups!NextTime(p, runs[i].type) > runs[i].due
          BY <2>1, <2>3, <3>5, <5>1 DEF BackupInv, TimesAhead
        <5>3. Backups!NextTime(q, runs[i].type)' = Backups!NextTime(p, runs[i].type)
          <6>1. CASE runs[i].type = "backup"
            BY <1>6, <1>10, <1>16, <2>3, <3>2, <4>4, <6>1 DEF Backups!NextTime
          <6>2. CASE runs[i].type = "drill"
            BY <1>6, <1>10, <1>16, <2>3, <3>2, <4>4, <6>2 DEF Backups!NextTime
          <6> QED BY <4>1, <6>1, <6>2
        <5> QED BY <5>2, <5>3
      <4> QED BY <4>3, <4>4
    <3> QED BY <3>4, <3>5
  <2> QED BY <2>2, <2>3
<1>26. RunsNew'
  <2>1. ASSUME NEW j \in DOMAIN runs
        PROVE  /\ Until(runs'[j].due, now')
               /\ \A i \in runs'[j].after : i \in DOMAIN runs' /\ ~Again(i, runs[j])'
    <3>1. Until(runs[j].due, now) /\ \A i \in runs[j].after : i \in DOMAIN runs /\ ~Again(i, runs[j])
      BY DEF BackupInv, RunsNew
    <3> QED BY <1>1, <1>15, <1>16, <1>21, <3>1 DEF Again, Grows
  <2> QED BY <1>15, <2>1 DEF RunsNew
<1>27. ClosuresPast'
  <2>1. \A k \in Calls : calls'[k].pc = "evidence" => calls'[k] = calls[k]
    BY <1>18, <1>22
  <2> QED BY <1>1, <2>1, ClosuresKept
<1> QED BY <1>22, <1>23, <1>24, <1>25, <1>26, <1>27 DEF BackupInv

LEMMA BackupsNext ==
    ASSUME BackupInv, Backups!Next
    PROVE  BackupInv'
<1>1. CASE Backups!CreatePolicy
  BY <1>1, CreatePolicyKept
<1>2. CASE Backups!ClockTicks
  BY <1>2, BackupClockKept
<1>3. ASSUME NEW c \in Calls, Backups!Abort(c) PROVE BackupInv'
  BY <1>3, EndKept DEF Backups!Abort, BackupInv, BackupType
<1>4. ASSUME NEW c \in Calls,
             \/ Backups!ReadPolicy(c) \/ Backups!UpdatePolicy(c) \/ Backups!RunByHand(c)
             \/ Backups!SchedulerTick(c) \/ Backups!LoadForRun(c) \/ Backups!InsertRun(c)
             \/ Backups!Reschedule(c) \/ Backups!CreateEvidenceRead(c) \/ Backups!CreateEvidence(c)
             \/ Backups!UpdateEvidenceRead(c) \/ Backups!UpdateEvidence(c)
             \/ Backups!ReadCompliance(c) \/ Backups!WriteCompliance(c)
      PROVE  BackupInv'
  BY <1>4, ReadPolicyKept, UpdatePolicyKept, RunByHandKept, SchedulerTickKept, LoadForRunKept,
     InsertRunKept, RescheduleKept, AttachKept, CreateEvidenceKept, ReadEvidenceKept,
     UpdateEvidenceKept, ReadComplianceKept, WriteComplianceKept
<1> QED BY <1>1, <1>2, <1>3, <1>4 DEF Backups!Next

LEMMA BackupsStutter ==
    ASSUME BackupInv, UNCHANGED Backups!vars
    PROVE  BackupInv'
<1>1. UNCHANGED <<policy, runs, evidence, compliance, now, calls, outdated>>
  BY DEF Backups!vars
<1>2. now' \in Nat /\ now <= now'
  BY <1>1 DEF BackupInv, BackupType
<1>3. BackupType' /\ TimesAhead' /\ RunsNew' /\ \A k \in Calls : CallOk(k)'
  <2>1. /\ evidence' \in Seq(EvidenceRow) /\ compliance' \in ComplianceRow
        /\ calls' \in [Calls -> BackupCall]
    BY <1>1 DEF BackupInv, BackupType
  <2> QED BY <1>1, <1>2, <2>1, QuietKept
<1>4. ClosuresPast'
  BY <1>1, <1>2, ClosuresKept
<1> QED BY <1>3, <1>4 DEF BackupInv

LEMMA BackupsInit ==
    ASSUME Backups!Init
    PROVE  BackupInv
<1>1. /\ policy = <<>> /\ runs = <<>> /\ evidence = <<>> /\ now = 0 /\ outdated = {}
      /\ calls = [c \in Calls |-> Backups!Idle]
  BY DEF Backups!Init
<1>2. PICK sla \in Slas : compliance = [mode |-> "advisory", sla |-> sla, of |-> {"failed", "drill"}]
  BY DEF Backups!Init
<1>3. DOMAIN policy = {} /\ DOMAIN runs = {} /\ DOMAIN evidence = {}
  BY <1>1
<1>4. \A c \in Calls : calls[c] = Backups!Idle /\ calls[c].pc = "idle"
  BY <1>1 DEF Backups!Idle
<1>5. BackupType
  <2>1. compliance \in ComplianceRow
    BY <1>2 DEF ComplianceRow
  <2>2. policy = [p \in DOMAIN policy |-> policy[p]]
    BY <1>1
  <2> QED BY <1>1, <1>3, <2>1, <2>2 DEF BackupType, BackupCall
<1>6. TimesAhead /\ RunsNew /\ ClosuresPast
  BY <1>3, <1>4 DEF TimesAhead, RunsNew, ClosuresPast
<1>7. \A c \in Calls : CallOk(c)
  BY <1>4 DEF CallOk, ReadKnown, ReadFresh, EntriesNew, RunNew, Holds, Runs
<1> QED BY <1>5, <1>6, <1>7 DEF BackupInv
-----------------------------------------------------------------------------
(* What follows: the schedule is kept, and a closure stays *)

LEMMA ScheduleKept ==
    ASSUME BackupInv
    PROVE  Backups!ScheduleIsKept
<1> SUFFICES ASSUME NEW p \in DOMAIN policy \ outdated
             PROVE  /\ policy[p].enabled <=> policy[p].nextDrill # Absent
                    /\ \A i, j \in DOMAIN runs :
                         /\ i < j /\ runs[i].p = p /\ runs[j].p = p /\ runs[i].type = runs[j].type
                         /\ runs[i].due # Absent /\ runs[i].due = runs[j].due
                         => ~(runs[i].done /\ i \in runs[j].after)
  BY DEF Backups!ScheduleIsKept
<1>1. policy[p].enabled <=> policy[p].nextDrill # Absent
  BY DEF BackupInv, TimesAhead
<1>2. ASSUME NEW i \in DOMAIN runs, NEW j \in DOMAIN runs,
             runs[i].p = p, runs[j].p = p, runs[i].type = runs[j].type,
             runs[i].due # Absent, runs[i].due = runs[j].due, i \in runs[j].after
      PROVE  FALSE
  BY <1>2 DEF BackupInv, RunsNew, Again
<1> QED BY <1>1, <1>2

LEMMA Earliest ==
    ASSUME NEW S \in SUBSET Nat, S # {}
    PROVE  Backups!Min(S) \in S /\ \A y \in S : Backups!Min(S) <= y
<1>1. PICK x \in S : \A y \in S : <<y, x>> \notin OpToRel(<, Nat)
  BY NatLessThanWellFounded, WFMin
<1>2. ASSUME NEW y \in S PROVE x <= y
  <2>1. x \in Nat /\ y \in Nat
    OBVIOUS
  <2>2. ~(y < x)
    BY <1>1, <2>1 DEF OpToRel
  <2> QED BY <2>1, <2>2
<1> QED BY <1>2 DEF Backups!Min

\* What is closed later does not come before what is closed.
LEMMA EarliestStays ==
    ASSUME NEW S \in SUBSET Nat, S # {}, NEW t \in Nat, \A y \in S : y <= t,
           NEW T, S \subseteq T, T \subseteq S \cup {t}
    PROVE  Backups!Min(T) = Backups!Min(S)
<1>1. T \in SUBSET Nat /\ T # {}
  OBVIOUS
<1>2. /\ Backups!Min(S) \in S /\ \A y \in S : Backups!Min(S) <= y
      /\ Backups!Min(T) \in T /\ \A y \in T : Backups!Min(T) <= y
  BY <1>1, Earliest
<1>3. Backups!Min(S) \in Nat /\ Backups!Min(T) \in Nat /\ Backups!Min(T) <= Backups!Min(S)
  BY <1>1, <1>2
<1>4. Backups!Min(S) <= Backups!Min(T)
  <2>1. CASE Backups!Min(T) \in S
    BY <1>2, <2>1
  <2>2. CASE Backups!Min(T) = t
    BY <1>2, <2>2
  <2> QED BY <1>2, <2>1, <2>2
<1> QED BY <1>3, <1>4

\* Closed evidence of run i is left alone, and what is closed now says so.
ClosesNow(i) ==
    /\ DOMAIN evidence \subseteq DOMAIN evidence'
    /\ \A e \in DOMAIN evidence : evidence[e].run = i /\ evidence[e].closure.status = "closed" =>
         evidence'[e] = evidence[e]
    /\ \A e \in DOMAIN evidence' : evidence'[e].run = i /\ evidence'[e].closure.status = "closed" =>
         \/ e \in DOMAIN evidence /\ evidence'[e] = evidence[e]
         \/ evidence'[e].closure.at = now

\* While every request that holds evidence of run i holds it as it is, a step
\* adds at most a closure of now.
LEMMA ClosedTimesGrow ==
    ASSUME BackupInv, BackupInv', [Backups!Next]_Backups!vars, NEW i \in DOMAIN runs,
           \A c \in Calls : Backups!At(c, "evidence") /\ evidence[calls[c].row].run = i =>
                              evidence[calls[c].row] = calls[c].at
    PROVE  /\ Backups!ClosedTimes(i) \subseteq Backups!ClosedTimes(i)'
           /\ Backups!ClosedTimes(i)' \subseteq Backups!ClosedTimes(i) \cup {now}
<1>1. /\ Len(evidence) \in Nat /\ DOMAIN evidence = 1..Len(evidence)
      /\ \A e \in DOMAIN evidence : evidence[e] \in EvidenceRow
  BY BackupTyped DEF BackupInv
<1>2. SUFFICES ClosesNow(i)
  BY DEF ClosesNow, Backups!ClosedTimes, Backups!EvidenceOf
<1>3. CASE evidence' = evidence
  BY <1>3 DEF ClosesNow
<1>4. ASSUME NEW c \in Calls, Backups!CreateEvidence(c)
      PROVE  ClosesNow(i)
  <2>1. calls[c] \in AttachCall
    BY <1>4, BackupTyped DEF BackupInv, Backups!CreateEvidence, Backups!At
  <2>2. PICK made : made = [run |-> calls[c].run, closure |-> Backups!Closure(calls[c].close)]
    OBVIOUS
  <2>3. made.closure.status = "closed" => made.closure.at = now
    BY <2>1, <2>2, ClosureTyped DEF AttachCall, BackupInv
  <2>4. evidence' = Append(evidence, made) /\ evidence \in Seq(EvidenceRow) /\ made \in EvidenceRow
    BY <1>4, <2>1, <2>2, ClosureTyped DEF Backups!CreateEvidence, BackupInv, BackupType, AttachCall, EvidenceRow
  <2>5. /\ DOMAIN evidence' = DOMAIN evidence \cup {Len(evidence) + 1}
        /\ \A e \in DOMAIN evidence : evidence'[e] = evidence[e]
        /\ evidence'[Len(evidence) + 1] = made
    BY <1>1, <2>4, AppendProperties
  <2> QED BY <2>3, <2>5 DEF ClosesNow
<1>5. ASSUME NEW c \in Calls, Backups!UpdateEvidence(c)
      PROVE  ClosesNow(i)
  <2>1. /\ calls[c] \in EvidenceCall /\ calls[c].row \in DOMAIN evidence
        /\ calls[c].at.closure.status = "open" /\ Backups!At(c, "evidence")
    BY <1>5, BackupTyped DEF BackupInv, Backups!UpdateEvidence, Backups!At, ClosuresPast
  <2>2. PICK k : k = calls[c].row
    OBVIOUS
  <2>3. PICK closure : closure = Backups!Closure(calls[c].close)
    OBVIOUS
  <2>4. closure.status = "closed" => closure.at = now
    BY <2>1, <2>3, ClosureTyped DEF EvidenceCall, BackupInv
  <2>5. PICK made : made = [evidence[k] EXCEPT !.closure = closure]
    OBVIOUS
  <2>6. made.closure = closure /\ made.run = evidence[k].run
    BY <1>1, <2>1, <2>2, <2>5 DEF EvidenceRow
  <2>7. evidence' = [evidence EXCEPT ![k] = made]
    BY <1>5, <2>2, <2>3, <2>5 DEF Backups!UpdateEvidence
  <2>8. /\ DOMAIN evidence' = DOMAIN evidence /\ evidence'[k] = made
        /\ \A e \in DOMAIN evidence \ {k} : evidence'[e] = evidence[e]
    BY <2>1, <2>2, <2>7
  <2>9. evidence[k].run = i => evidence[k].closure.status = "open"
    BY <2>1, <2>2
  <2> QED BY <2>4, <2>6, <2>8, <2>9 DEF ClosesNow
<1>6. ASSUME evidence' # evidence
      PROVE  \E c \in Calls : Backups!CreateEvidence(c) \/ Backups!UpdateEvidence(c)
  BY <1>6 DEF Backups!Next, Backups!vars, Backups!CreatePolicy, Backups!ClockTicks, Backups!ReadPolicy,
     Backups!UpdatePolicy, Backups!RunByHand, Backups!SchedulerTick, Backups!LoadForRun,
     Backups!InsertRun, Backups!Reschedule, Backups!Abort, Backups!CreateEvidenceRead,
     Backups!UpdateEvidenceRead, Backups!ReadCompliance, Backups!WriteCompliance
<1> QED BY <1>3, <1>4, <1>5, <1>6

\* A run stays what it was, whatever becomes of its next time.
LEMMA RunStays ==
    ASSUME BackupInv, [Backups!Next]_Backups!vars, NEW i \in DOMAIN runs
    PROVE  i \in DOMAIN runs' /\ runs'[i].at = runs[i].at
<1>1. Len(runs) \in Nat /\ DOMAIN runs = 1..Len(runs) /\ runs[i] \in BackupRun /\ runs \in Seq(BackupRun)
  BY BackupTyped DEF BackupInv, BackupType
<1>2. ASSUME NEW c \in Calls, Backups!InsertRun(c)
      PROVE  i \in DOMAIN runs' /\ runs'[i].at = runs[i].at
  <2>1. PICK r : runs' = Append(runs, r)
    BY <1>2 DEF Backups!InsertRun
  <2> QED BY <1>1, <2>1
<1>3. ASSUME NEW c \in Calls, Backups!Reschedule(c)
      PROVE  i \in DOMAIN runs' /\ runs'[i].at = runs[i].at
  <2>1. PICK n : runs' = [runs EXCEPT ![n].done = TRUE]
    BY <1>3 DEF Backups!Reschedule
  <2>2. DOMAIN runs' = DOMAIN runs
    BY <2>1
  <2>3. CASE i = n
    <3>1. runs'[i] = [runs[i] EXCEPT !.done = TRUE]
      BY <2>1, <2>3
    <3> QED BY <1>1, <2>2, <3>1 DEF BackupRun
  <2>4. CASE i # n
    BY <2>1, <2>2, <2>4
  <2> QED BY <2>3, <2>4
<1>4. ASSUME runs' # runs
      PROVE  \E c \in Calls : Backups!InsertRun(c) \/ Backups!Reschedule(c)
  BY <1>4 DEF Backups!Next, Backups!vars, Backups!CreatePolicy, Backups!ClockTicks, Backups!ReadPolicy,
     Backups!UpdatePolicy, Backups!RunByHand, Backups!SchedulerTick, Backups!LoadForRun,
     Backups!CreateEvidence, Backups!UpdateEvidence, Backups!Abort, Backups!CreateEvidenceRead,
     Backups!UpdateEvidenceRead, Backups!ReadCompliance, Backups!WriteCompliance
<1> QED BY <1>2, <1>3, <1>4

LEMMA ClosureKept ==
    ASSUME BackupInv, BackupInv', [Backups!Next]_Backups!vars
    PROVE  Backups!ClosureStands
<1> SUFFICES ASSUME compliance' = compliance, NEW i \in DOMAIN runs, Backups!ClosedTimes(i) # {},
                    \A c \in Calls : Backups!At(c, "evidence") /\ evidence[calls[c].row].run = i =>
                                       evidence[calls[c].row] = calls[c].at
             PROVE  /\ Backups!ClosureState(i, now)' = Backups!ClosureState(i, now)
                    /\ i \notin Backups!Coverage'.missing
  BY DEF Backups!ClosureStands
<1>1. /\ Backups!ClosedTimes(i) \subseteq Backups!ClosedTimes(i)'
      /\ Backups!ClosedTimes(i)' \subseteq Backups!ClosedTimes(i) \cup {now}
  BY ClosedTimesGrow
<1>2. now \in Nat /\ \A t \in Backups!ClosedTimes(i) : t \in Nat /\ t <= now
  BY DEF BackupInv, BackupType, ClosuresPast, Backups!ClosedTimes, Backups!EvidenceOf
<1>3. PICK S : S = Backups!ClosedTimes(i)
  OBVIOUS
<1>4. PICK T : T = Backups!ClosedTimes(i)'
  OBVIOUS
<1>5. Backups!Min(T) = Backups!Min(S) /\ T # {} /\ S # {}
  BY <1>1, <1>2, <1>3, <1>4, EarliestStays
<1>6. Backups!Deadline(runs[i])' = Backups!Deadline(runs[i])
  BY RunStays DEF Backups!Deadline
<1>7. Backups!ClosureState(i, now) =
        IF Backups!Min(S) <= Backups!Deadline(runs[i]) THEN "closed_within_sla" ELSE "closed_late"
  BY <1>3, <1>5 DEF Backups!ClosureState
<1>8. Backups!ClosureState(i, now)' =
        IF Backups!Min(T) <= Backups!Deadline(runs[i])' THEN "closed_within_sla" ELSE "closed_late"
  BY <1>4, <1>5 DEF Backups!ClosureState
<1>9. Backups!EvidenceOf(i)' # {}
  BY <1>4, <1>5 DEF Backups!ClosedTimes, Backups!EvidenceOf
<1>10. i \notin Backups!Coverage'.missing
  BY <1>9 DEF Backups!Coverage
<1> QED BY <1>5, <1>6, <1>7, <1>8, <1>10
-----------------------------------------------------------------------------
(* The behaviours of the run *)

LEMMA AllInitInv ==
    ASSUME AllInit
    PROVE  AllInv
<1>1. CASE focus = "linking"
  <2>1. /\ ticketRows = <<>> /\ now = 0 /\ calls = [c \in Calls |-> Linking!Idle]
        /\ links = [s \in Sources |-> 0] /\ risk = <<>>
    BY <1>1 DEF AllInit, Linking!InitRisk, Linking!Init
  <2>2. DOMAIN risk = {} /\ DOMAIN ticketRows = {}
    BY <2>1
  <2>3. LinkingType
    BY <2>1, <2>2 DEF LinkingType
  <2>4. SettledKnown /\ LinksNewest /\ LaterNeedsPassed
    BY <2>1, <2>2 DEF SettledKnown, LinksNewest, LaterNeedsPassed
  <2>5. LookedAt
    BY <2>1 DEF LookedAt, Linking!Idle
  <2> QED BY <1>1, <2>3, <2>4, <2>5 DEF AllInv, LinkingInv
<1>2. CASE focus = "commanding"
  <2>1. /\ command = Absent /\ events = <<>> /\ begun = 0
        /\ writers = [w \in Calls |-> Commanding!Idle]
    BY <1>2 DEF AllInit, Commanding!Init
  <2>2. DOMAIN events = {}
    BY <2>1
  <2>3. CommandType
    BY <2>1 DEF CommandType, CommandCalls
  <2>4. NewestIsRow /\ RowIsComplete /\ EventsInOrder /\ SeenTransitions
    BY <2>1, <2>2 DEF NewestIsRow, RowIsComplete, EventsInOrder, SeenTransitions
  <2>5. ReadsCurrent /\ BeganLater
    BY <2>1 DEF ReadsCurrent, BeganLater, Commanding!Idle
  <2> QED BY <1>2, <2>3, <2>4, <2>5 DEF AllInv, CommandInv
<1>3. CASE focus = "escalating"
  <2>1. /\ ticketRows = <<>> /\ actions = <<>> /\ now = 0
        /\ policy \in BreachPolicy /\ calls = [c \in Calls |-> Escalating!Idle]
    BY <1>3 DEF AllInit, Escalating!Init, Escalating!EscalationPolicies, BreachPolicy
  <2>2. DOMAIN ticketRows = {} /\ DOMAIN actions = {}
    BY <2>1
  <2>3. BreachType /\ AssigneesFollow /\ Escalating!EscalatedOnce
    BY <2>1, <2>2 DEF BreachType, AssigneesFollow, Escalating!EscalatedOnce
  <2>4. RunsHaveRead
    BY <2>1 DEF RunsHaveRead, Escalating!Idle
  <2> QED BY <1>3, <2>3, <2>4 DEF AllInv, BreachInv
<1>4. CASE focus \in {"scheduling", "proving"}
  BY <1>4, BackupsInit DEF AllInit, AllInv
<1> QED BY <1>1, <1>2, <1>3, <1>4 DEF AllInv

LEMMA AllNextInv ==
    ASSUME AllInv, [AllNext]_allVars
    PROVE  AllInv'
<1>1. focus' = focus
  BY DEF AllNext, allVars
<1>2. CASE focus = "linking"
  <2>1. LinkingInv
    BY <1>2 DEF AllInv
  <2>2. CASE UNCHANGED allVars
    <3>1. UNCHANGED <<ticketRows, now, links, risk, settled, calls>>
      BY <2>2 DEF allVars, sharedVars, ticketVars, linkVars
    <3> QED BY <1>1, <1>2, <2>1, <3>1 DEF AllInv, LinkingInv, LinkingType, SettledKnown,
            LinksNewest, LaterNeedsPassed, LookedAt, Passed
  <2>3. CASE AllNext
    BY <1>1, <1>2, <2>1, <2>3, LinkingNext DEF AllNext, AllInv
  <2> QED BY <2>2, <2>3
<1>3. CASE focus = "commanding"
  <2>1. CommandInv
    BY <1>3 DEF AllInv
  <2>2. CASE UNCHANGED allVars
    <3>1. UNCHANGED <<command, events, writers, begun>>
      BY <2>2 DEF allVars, commandVars
    <3> QED BY <1>1, <1>3, <2>1, <3>1 DEF AllInv, CommandInv, CommandType, NewestIsRow,
            RowIsComplete, ReadsCurrent, BeganLater, EventsInOrder, SeenTransitions
  <2>3. CASE AllNext
    BY <1>1, <1>3, <2>1, <2>3, CommandNext DEF AllNext, AllInv
  <2> QED BY <2>2, <2>3
<1>4. CASE focus = "escalating"
  <2>1. BreachInv
    BY <1>4 DEF AllInv
  <2>2. CASE UNCHANGED allVars
    <3>1. UNCHANGED <<ticketRows, actions, policy, now, calls>>
      BY <2>2 DEF allVars, sharedVars, ticketVars
    <3> QED BY <1>1, <1>4, <2>1, <3>1 DEF AllInv, BreachInv, BreachType, AssigneesFollow,
            RunsHaveRead, HasRead, HandedOver, Escalating!EscalatedOnce
  <2>3. CASE AllNext
    BY <1>1, <1>4, <2>1, <2>3, EscalatingNext DEF AllNext, AllInv
  <2> QED BY <2>2, <2>3
<1>5. CASE focus \in {"scheduling", "proving"}
  <2>1. BackupInv
    BY <1>5 DEF AllInv
  <2>2. CASE UNCHANGED allVars
    <3>1. UNCHANGED Backups!vars
      BY <2>2 DEF allVars, sharedVars, backupVars, Backups!vars
    <3>2. BackupInv'
      BY <2>1, <3>1, BackupsStutter
    <3> QED BY <1>1, <1>5, <3>2 DEF AllInv
  <2>3. CASE AllNext
    BY <1>1, <1>5, <2>1, <2>3, BackupsNext DEF AllNext, AllInv
  <2> QED BY <2>2, <2>3
<1> QED BY <1>1, <1>2, <1>3, <1>4, <1>5 DEF AllInv

LEMMA AllInductive == AllSpec => []AllInv
<1>1. AllInit => AllInv
  BY AllInitInv
<1>2. AllInv /\ [AllNext]_allVars => AllInv'
  BY AllNextInv
<1> QED BY <1>1, <1>2, PTL DEF AllSpec

\* Two active tickets of one risk have an excuse: the later request had looked
\* before the earlier ticket was there, or the earlier one was settled once, or
\* the link was turned away from it; and the list shows the newest.
THEOREM OneRiskTicketTheorem == AllSpec => []OneRiskTicket
<1>1. AllInv => OneRiskTicket
  <2> SUFFICES ASSUME LinkingInv PROVE Linking!OneRiskTicket
    BY DEF AllInv, OneRiskTicket
  <2>1. LinkingType /\ LinksNewest /\ LaterNeedsPassed
    BY DEF LinkingInv
  <2>2. \A i \in DOMAIN risk : i \in Nat /\ i # 0 /\ risk[i].source \in Sources
    BY <2>1, TicketsTyped DEF LinkingType, RiskRow
  <2>3. ASSUME NEW i \in DOMAIN risk, NEW j \in DOMAIN risk, i < j,
               risk[i].source = risk[j].source
        PROVE  \/ risk[j].saw < i
               \/ i \in settled
               \/ \E k \in DOMAIN risk :
                    i < k /\ k < j /\ risk[k].source = risk[i].source /\ risk[k].saw < i
    <3>1. Passed(i, j)
      BY <2>1, <2>3 DEF LaterNeedsPassed
    <3> QED BY <2>2, <3>1 DEF Passed
  <2>4. ASSUME NEW i \in DOMAIN risk
        PROVE  \E shown \in Linking!ShownLink(risk[i].source) : shown.ticket >= i
    <3> SUFFICES ASSUME NEW l, l = links[risk[i].source]
                 PROVE  \E shown \in Linking!ShownLink(risk[i].source) : shown.ticket >= i
      OBVIOUS
    <3>1. i <= l /\ l \in Nat
      BY <2>1, <2>2 DEF LinksNewest, LinkingType
    <3>2. Linking!ShownLink(risk[i].source)
            = {[ticket |-> l, status |-> ticketRows[l].status, assignee |-> ticketRows[l].assignee]}
      BY <2>2, <3>1 DEF Linking!ShownLink
    <3> QED BY <2>2, <3>1, <3>2
  <2> QED BY <2>3, <2>4 DEF Linking!OneRiskTicket
<1> QED BY <1>1, AllInductive, PTL

\* Whoever updates at the same time, a command that is worked on or blocked has
\* an ETA and shows what was written last; a transition that is not allowed comes
\* from a request that had read before another one wrote, and a timeline that is
\* not in the order of the writes from one that had begun before.
THEOREM CommandTheorem == AllSpec => []CommandIsCoherent
<1>1. AllInv => CommandIsCoherent
  BY Coherent DEF AllInv, CommandIsCoherent
<1> QED BY <1>1, AllInductive, PTL

\* However runs, operators and updates of the policy interleave, a ticket is
\* handed over to an owner a second time only after it went to another one, or
\* by a run that had read it before; and while neither limit cuts a list, a run
\* started now would hand over what the queue shows as breached.
THEOREM BreachTheorem == AllSpec => []BreachesAreShownAndEscalated
<1>1. AllInv => BreachesAreShownAndEscalated
  BY QueueIsComplete DEF AllInv, BreachInv, BreachesAreShownAndEscalated
<1> QED BY <1>1, AllInductive, PTL

\* However ticks, runs by hand and updates of a policy interleave, a backup or
\* drill is run once for a time it was due, unless the tick had read what is
\* due before the first run was recorded or somebody wrote the policy from an
\* old row; and a closure is undone only by a request that had read the
\* evidence while it was open.
THEOREM BackupsTheorem == AllSpec => BackupsAndEvidenceHold
<1>1. AllInv => (focus = "scheduling" => Backups!ScheduleIsKept)
  BY ScheduleKept DEF AllInv
<1>2. AllInv /\ AllInv' /\ [AllNext]_allVars
        => [focus = "proving" => Backups!ClosureStands]_allVars
  <2> SUFFICES ASSUME AllInv, AllInv', AllNext, focus = "proving"
               PROVE  Backups!ClosureStands
    OBVIOUS
  <2>1. focus' = focus /\ Backups!Next
    BY DEF AllNext
  <2>2. BackupInv /\ BackupInv'
    BY <2>1 DEF AllInv
  <2> QED BY <2>1, <2>2, ClosureKept
<1> QED BY <1>1, <1>2, AllInductive, PTL DEF AllSpec, BackupsAndEvidenceHold
=============================================================================
