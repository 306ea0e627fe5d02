---------------------------- MODULE AlertsProofs ----------------------------
(***************************************************************************)
(* Proofs about Alerts for every number of alerts, policies, reporters,    *)
(* operators and faults; and, at the end, the theorems of PlaybooksProofs  *)
(* in the behaviours that the run explores.                                *)
(***************************************************************************)
EXTENDS MCAlertsPlaybooks, TLAPS, FiniteSetTheorems

-----------------------------------------------------------------------------
(* The inductive invariant *)

\* A reporter past its first step has an alert, and past the insertion the row
\* of that alert exists; with a ticket under way it has a policy.
ReporterSound ==
    \A r \in Reporters :
        /\ rep[r].pc # "idle" => rep[r].alert \in AlertKeys
        /\ rep[r].pc \notin {"idle", "insert"} => row[rep[r].alert].status # "absent"
        /\ rep[r].pc \in {"ticket", "record", "note"} => rep[r].policy \in Policies
        /\ rep[r].pc = "insert" => rep[r].event = "observed" /\ MaxReports >= 1
        /\ rep[r].event \in {"closed", "reopened", "observed"}
        /\ rep[r].event = "closed" => rep[r].pc = "event"

\* A handler has an alert exactly while that alert's event is still to be written.
OperatorSound ==
    \A o \in Operators : op[o].pc = "event" => op[o].alert \in AlertKeys

\* The ticket that a reporter is about to record exists.
RecordHasTicket ==
    \A r \in Reporters : rep[r].pc = "record" => tickets[rep[r].policy][rep[r].alert] >= 1

\* Reporter r will still bring policy p to bear on its alert.
WillApply(r, p) ==
    \/ rep[r].pc = "event" /\ rep[r].event # "closed"
    \/ rep[r].pc = "evaluate"
    \/ rep[r].pc \in {"policies", "ticket", "record", "note"} /\ p \in rep[r].todo
    \/ rep[r].pc \in {"ticket", "record"} /\ rep[r].policy = p

\* An open alert has been seen by every policy of its severity, or a reporter
\* is on its way.
OpenIsCovered ==
    faults = 0 =>
        \A a \in AlertKeys, p \in Policies :
            row[a].status = "open" /\ MatchSeverity[p] = row[a].severity =>
                \/ lastAction[p][a] # "none"
                \/ \E r \in Reporters : rep[r].alert = a /\ WillApply(r, p)

\* An alert was observed exactly when it has a row, the events included that a
\* reporter is about to write.
ObservedIsWritten ==
    \A a \in AlertKeys :
        /\ timeline[a]["observed"] >= 1 => row[a].status # "absent"
        /\ faults = 0 /\ row[a].status # "absent" =>
             \/ timeline[a]["observed"] >= 1
             \/ \E r \in Reporters :
                  rep[r].alert = a /\ rep[r].pc = "event" /\ rep[r].event = "observed"

Recovering(a) ==
    {r \in Reporters : rep[r].pc = "event" /\ rep[r].event = "closed" /\ rep[r].alert = a}
Reopening(a) ==
    {r \in Reporters : rep[r].pc = "event" /\ rep[r].event = "reopened" /\ rep[r].alert = a}
Deciding(a) == {o \in Operators : op[o].pc = "event" /\ op[o].alert = a}

\* Events that end an alert, those about to be written included, keep up with
\* its reopenings.
EventsBalance ==
    faults = 0 =>
        \A a \in AlertKeys :
            LET ended == timeline[a]["acknowledged"] + timeline[a]["closed"]
                           + Cardinality(Recovering(a)) + Cardinality(Deciding(a))
                left == IF row[a].status \in {"acknowledged", "closed"} THEN 1 ELSE 0
            IN  ended >= timeline[a]["reopened"] + Cardinality(Reopening(a)) + left

Ticketing(p, a) ==
    {r \in Reporters : rep[r].pc = "ticket" /\ rep[r].policy = p /\ rep[r].alert = a}
Recording(p, a) ==
    {r \in Reporters : rep[r].pc = "record" /\ rep[r].policy = p /\ rep[r].alert = a}

\* Before the window is closed, a ticket belongs to a reporter that is about to
\* record it, or to one that failed; afterwards only the reporters that were
\* already past the check can add one.
WindowIsShared ==
    \A p \in Policies, a \in AlertKeys :
        IF lastAction[p][a] = "recent"
        THEN tickets[p][a] + Cardinality(Ticketing(p, a)) <= Cardinality(Reporters) + faults
        ELSE tickets[p][a] <= Cardinality(Recording(p, a)) + faults

TicketsPerWindow ==
    \A p \in Policies, a \in AlertKeys : tickets[p][a] <= Cardinality(Reporters) + faults

IInv ==
    /\ TypeOK
    /\ ReporterSound
    /\ OperatorSound
    /\ RecordHasTicket
    /\ SuppressionHasTicket
    /\ OpenIsCovered
    /\ ObservedIsWritten
    /\ EventsBalance
    /\ WindowIsShared

USE PolicyAssumption, ModesAssumption, BoundsAssumption, NullAssumption, FiniteAssumption
-----------------------------------------------------------------------------
(* Types, and what the handlers know *)

LEMMA CountOneMore ==
  ASSUME NEW S, NEW T, NEW f \in [S -> [T -> Nat]], NEW s \in S, NEW t \in T
  PROVE  LET g == [f EXCEPT ![s][t] = @ + 1]
         IN  /\ g \in [S -> [T -> Nat]]
             /\ \A x \in S, y \in T :
                  g[x][y] = IF x = s /\ y = t THEN f[x][y] + 1 ELSE f[x][y]
<1> DEFINE h == [f[s] EXCEPT ![t] = @ + 1]
           g == [f EXCEPT ![s] = h]
<1>1. h \in [T -> Nat] /\ \A y \in T : h[y] = IF y = t THEN f[s][y] + 1 ELSE f[s][y]
  OBVIOUS
<1> HIDE DEF h
<1>2. g \in [S -> [T -> Nat]] /\ \A x \in S : g[x] = IF x = s THEN h ELSE f[x]
  BY <1>1
<1>3. g = [f EXCEPT ![s][t] = @ + 1]
  BY DEF h
<1> HIDE DEF g
<1> QED BY <1>1, <1>2, <1>3

LEMMA PutOne ==
  ASSUME NEW S, NEW T, NEW V, NEW f \in [S -> [T -> V]], NEW s \in S, NEW t \in T, NEW v \in V
  PROVE  LET g == [f EXCEPT ![s][t] = v]
         IN  /\ g \in [S -> [T -> V]]
             /\ \A x \in S, y \in T : g[x][y] = IF x = s /\ y = t THEN v ELSE f[x][y]
<1> DEFINE h == [f[s] EXCEPT ![t] = v]
           g == [f EXCEPT ![s] = h]
<1>1. h \in [T -> V] /\ \A y \in T : h[y] = IF y = t THEN v ELSE f[s][y]
  OBVIOUS
<1> HIDE DEF h
<1>2. g \in [S -> [T -> V]] /\ \A x \in S : g[x] = IF x = s THEN h ELSE f[x]
  BY <1>1
<1>3. g = [f EXCEPT ![s][t] = v]
  BY DEF h
<1> HIDE DEF g
<1> QED BY <1>1, <1>2, <1>3

\* What writing an event of the table's CHECK does to the timeline.
LEMMA EventWritten ==
  ASSUME TypeOK, NEW a \in AlertKeys, NEW e \in EventType, InsertEvent(a, e)
  PROVE  /\ timeline' \in [AlertKeys -> [WrittenEvent -> Nat]]
         /\ \A b \in AlertKeys, f \in EventType :
              timeline'[b][f] = IF b = a /\ f = e THEN timeline[b][f] + 1 ELSE timeline[b][f]
<1>1. /\ timeline \in [AlertKeys -> [WrittenEvent -> Nat]] /\ EventType \subseteq WrittenEvent
      /\ timeline' = [timeline EXCEPT ![a][e] = @ + 1]
  BY DEF TypeOK, InsertEvent, WrittenEvent
<1> QED BY <1>1, CountOneMore

\* What a reporter's ticket and its record do.
LEMMA TicketCreated ==
  ASSUME TypeOK, ReporterSound, NEW r \in Reporters, CreateTicket(r)
  PROVE  /\ tickets' \in [Policies -> [AlertKeys -> Nat]]
         /\ \A p \in Policies, a \in AlertKeys :
              tickets'[p][a] = IF p = rep[r].policy /\ a = rep[r].alert
                               THEN tickets[p][a] + 1 ELSE tickets[p][a]
<1>1. /\ tickets \in [Policies -> [AlertKeys -> Nat]]
      /\ rep[r].policy \in Policies /\ rep[r].alert \in AlertKeys
      /\ tickets' = [tickets EXCEPT ![rep[r].policy][rep[r].alert] = @ + 1]
  BY DEF TypeOK, ReporterSound, CreateTicket
<1> QED BY <1>1, CountOneMore

LEMMA ActionRecorded ==
  ASSUME TypeOK, ReporterSound, NEW r \in Reporters, RecordAction(r)
  PROVE  /\ lastAction' \in [Policies -> [AlertKeys -> {"none", "recent", "old"}]]
         /\ \A p \in Policies, a \in AlertKeys :
              lastAction'[p][a] = IF p = rep[r].policy /\ a = rep[r].alert
                                  THEN "recent" ELSE lastAction[p][a]
<1>1. /\ lastAction \in [Policies -> [AlertKeys -> {"none", "recent", "old"}]]
      /\ rep[r].policy \in Policies /\ rep[r].alert \in AlertKeys
      /\ lastAction' = [lastAction EXCEPT ![rep[r].policy][rep[r].alert] = "recent"]
  BY DEF TypeOK, ReporterSound, RecordAction
<1> QED BY <1>1, PutOne

LEMMA InitSound == Init => TypeOK /\ ReporterSound /\ OperatorSound
  BY DEF Init, TypeOK, ReporterSound, OperatorSound, Row, Severity, WrittenEvent, EventType,
         Reporter, Operator, IdleReporter, IdleOperator

\* A step that changes reporter r alone among the handlers.
LEMMA ReporterMoves ==
  ASSUME TypeOK, ReporterSound, NEW r \in Reporters, NEW v \in Reporter,
         rep' = [rep EXCEPT ![r] = v],
         \A a \in AlertKeys : row[a].status # "absent" => row'[a].status # "absent",
         v.pc # "idle" => v.alert \in AlertKeys,
         v.pc \notin {"idle", "insert"} => row'[v.alert].status # "absent",
         v.pc \in {"ticket", "record", "note"} => v.policy \in Policies,
         v.pc = "insert" => v.event = "observed" /\ MaxReports >= 1,
         v.event \in {"closed", "reopened", "observed"},
         v.event = "closed" => v.pc = "event"
  PROVE  ReporterSound' /\ rep' \in [Reporters -> Reporter]
  BY DEF TypeOK, ReporterSound

LEMMA ReportSound ==
  ASSUME TypeOK, ReporterSound, OperatorSound,
         NEW r \in Reporters, NEW a \in AlertKeys, NEW severity \in Severity,
         Report(r, a, severity)
  PROVE  TypeOK' /\ ReporterSound' /\ OperatorSound'
<1>0. rep[r] \in Reporter /\ row[a] \in Row
  BY DEF TypeOK
<1>1. CASE row[a].status = "absent"
  <2> DEFINE v == [rep[r] EXCEPT !.pc = "insert", !.alert = a, !.severity = severity,
                                 !.event = "observed"]
  <2>1. v \in Reporter
    BY <1>0 DEF Reporter, EventType
  <2>2. rep' = [rep EXCEPT ![r] = v] /\ UNCHANGED row
    BY <1>1 DEF Report
  <2>3. v.pc = "insert" /\ v.alert = a /\ v.event = "observed" /\ MaxReports >= 1
    BY <1>0 DEF Reporter, Report, Row
  <2> HIDE DEF v
  <2>4. TypeOK'
    BY <2>1, <2>2 DEF Report, TypeOK
  <2>5. ReporterSound'
    BY <2>1, <2>2, <2>3, ReporterMoves
  <2> QED BY <2>4, <2>5 DEF Report, OperatorSound
<1>2. CASE row[a].status # "absent"
  <2> DEFINE v == [rep[r] EXCEPT !.pc = "event", !.alert = a, !.severity = severity,
                        !.event = IF row[a].status = "open" THEN "observed" ELSE "reopened"]
             new == Observed(row[a], severity)
  <2>1. v \in Reporter
    BY <1>0 DEF Reporter, EventType
  <2>2. rep' = [rep EXCEPT ![r] = v] /\ row' = [row EXCEPT ![a] = new]
    BY <1>2 DEF Report
  <2>3. v.pc = "event" /\ v.alert = a /\ v.event \in {"observed", "reopened"}
    BY <1>0 DEF Reporter
  <2>4. row[a].reports + 1 \in 0..MaxReports
    BY <1>0 DEF Report, Row
  <2>5. new \in Row /\ new.status = "open"
    BY <1>0, <2>4 DEF Row, Observed
  <2> HIDE DEF v, new
  <2>6. TypeOK'
    BY <2>1, <2>2, <2>5 DEF Report, TypeOK
  <2>7. ReporterSound'
    BY <2>1, <2>2, <2>3, <2>5, ReporterMoves DEF TypeOK
  <2> QED BY <2>6, <2>7 DEF Report, OperatorSound
<1> QED BY <1>1, <1>2

-----------------------------------------------------------------------------
(* What a step does to the reporter that takes it *)

Others(r) == \A q \in Reporters \ {r} : rep'[q] = rep[q]

\* The step leaves reporter r on its alert, with the same policy and policies to do.
SameWork(r) ==
    /\ rep'[r].alert = rep[r].alert /\ rep'[r].event = rep[r].event
    /\ rep'[r].policy = rep[r].policy /\ rep'[r].todo = rep[r].todo

LEMMA Assigned ==
  ASSUME TypeOK, NEW r \in Reporters, NEW v \in Reporter, rep' = [rep EXCEPT ![r] = v]
  PROVE  rep' \in [Reporters -> Reporter] /\ rep'[r] = v /\ Others(r)
  BY DEF TypeOK, Others

LEMMA IdleType == IdleReporter \in Reporter /\ IdleReporter.pc = "idle"
                  /\ IdleReporter.event = "observed" /\ IdleReporter.alert = NoAlert
  BY DEF IdleReporter, Reporter, Severity, EventType

LEMMA ReportEffect ==
  ASSUME TypeOK, NEW r \in Reporters, NEW a \in AlertKeys, NEW severity \in Severity,
         Report(r, a, severity)
  PROVE  /\ rep' \in [Reporters -> Reporter] /\ Others(r) /\ rep'[r].alert = a
         /\ IF row[a].status = "absent"
            THEN rep'[r].pc = "insert" /\ rep'[r].event = "observed"
            ELSE /\ rep'[r].pc = "event"
                 /\ rep'[r].event = IF row[a].status = "open" THEN "observed" ELSE "reopened"
<1> DEFINE u == [rep[r] EXCEPT !.pc = "insert", !.alert = a, !.severity = severity,
                               !.event = "observed"]
           v == [rep[r] EXCEPT !.pc = "event", !.alert = a, !.severity = severity,
                        !.event = IF row[a].status = "open" THEN "observed" ELSE "reopened"]
<1>1. rep[r] \in Reporter
  BY DEF TypeOK
<1>2. u \in Reporter /\ u.alert = a /\ u.pc = "insert" /\ u.event = "observed"
  BY <1>1 DEF Reporter, EventType
<1>3. /\ v \in Reporter /\ v.alert = a /\ v.pc = "event"
      /\ v.event = IF row[a].status = "open" THEN "observed" ELSE "reopened"
  BY <1>1 DEF Reporter, EventType
<1>4. rep' = [rep EXCEPT ![r] = IF row[a].status = "absent" THEN u ELSE v]
  BY DEF Report
<1> HIDE DEF u, v
<1> QED BY <1>2, <1>3, <1>4, Assigned

LEMMA RecoverEffect ==
  ASSUME TypeOK, NEW r \in Reporters, NEW a \in AlertKeys, Recover(r, a)
  PROVE  /\ rep' \in [Reporters -> Reporter] /\ Others(r)
         /\ rep'[r].alert = a /\ rep'[r].pc = "event" /\ rep'[r].event = "closed"
<1> DEFINE v == [rep[r] EXCEPT !.pc = "event", !.alert = a, !.event = "closed"]
<1>0. rep[r] \in Reporter
  BY DEF TypeOK
<1>1. v \in Reporter /\ v.alert = a /\ v.pc = "event" /\ v.event = "closed"
  BY <1>0 DEF Reporter, EventType
<1>2. rep' = [rep EXCEPT ![r] = v]
  BY DEF Recover
<1> HIDE DEF v
<1> QED BY <1>1, <1>2, Assigned

\* A step that only moves the program counter.
LEMMA MoveEffect ==
  ASSUME TypeOK, NEW r \in Reporters,
         NEW to \in {"event", "evaluate", "record", "note"},
         rep' = [rep EXCEPT ![r] = [@ EXCEPT !.pc = to]]
  PROVE  rep' \in [Reporters -> Reporter] /\ Others(r) /\ SameWork(r) /\ rep'[r].pc = to
<1> DEFINE v == [rep[r] EXCEPT !.pc = to]
<1>0. rep[r] \in Reporter
  BY DEF TypeOK
<1>1. /\ v \in Reporter /\ v.pc = to /\ v.alert = rep[r].alert /\ v.event = rep[r].event
      /\ v.policy = rep[r].policy /\ v.todo = rep[r].todo
  BY <1>0 DEF Reporter
<1>2. rep' = [rep EXCEPT ![r] = v]
  OBVIOUS
<1> HIDE DEF v
<1> QED BY <1>1, <1>2, Assigned DEF SameWork

LEMMA InsertEffect ==
  ASSUME TypeOK, NEW r \in Reporters, InsertAlert(r)
  PROVE  /\ rep' \in [Reporters -> Reporter] /\ Others(r)
         /\ IF row[rep[r].alert].status = "absent"
            THEN SameWork(r) /\ rep'[r].pc = "event"
            ELSE rep'[r] = IdleReporter
<1>1. CASE row[rep[r].alert].status = "absent"
  <2>1. rep' = [rep EXCEPT ![r] = [@ EXCEPT !.pc = "event"]]
    BY <1>1 DEF InsertAlert
  <2> QED BY <1>1, <2>1, MoveEffect
<1>2. CASE row[rep[r].alert].status # "absent"
  <2>1. rep' = [rep EXCEPT ![r] = IdleReporter]
    BY <1>2 DEF InsertAlert
  <2> QED BY <1>2, <2>1, IdleType, Assigned
<1> QED BY <1>1, <1>2

LEMMA WriteEffect ==
  ASSUME TypeOK, NEW r \in Reporters, WriteEvent(r)
  PROVE  /\ rep' \in [Reporters -> Reporter] /\ Others(r)
         /\ IF rep[r].event = "closed" THEN rep'[r] = IdleReporter
                                       ELSE SameWork(r) /\ rep'[r].pc = "evaluate"
<1>1. CASE rep[r].event = "closed"
  <2>1. rep' = [rep EXCEPT ![r] = IdleReporter]
    BY <1>1 DEF WriteEvent
  <2> QED BY <1>1, <2>1, IdleType, Assigned
<1>2. CASE rep[r].event # "closed"
  <2>1. rep' = [rep EXCEPT ![r] = [@ EXCEPT !.pc = "evaluate"]]
    BY <1>2 DEF WriteEvent
  <2> QED BY <1>2, <2>1, MoveEffect
<1> QED BY <1>1, <1>2

LEMMA EvaluateEffect ==
  ASSUME TypeOK, NEW r \in Reporters, Evaluate(r)
  PROVE  /\ rep' \in [Reporters -> Reporter] /\ Others(r)
         /\ IF row[rep[r].alert].status = "open"
            THEN /\ rep'[r].alert = rep[r].alert /\ rep'[r].event = rep[r].event
                 /\ rep'[r].pc = "policies"
                 /\ rep'[r].todo =
                      {p \in Policies : MatchSeverity[p] = row[rep[r].alert].severity}
            ELSE rep'[r] = IdleReporter
<1> DEFINE matching == {p \in Policies : MatchSeverity[p] = row[rep[r].alert].severity}
           v == [rep[r] EXCEPT !.pc = "policies", !.todo = matching]
<1>0. rep[r] \in Reporter
  BY DEF TypeOK
<1>1. /\ v \in Reporter /\ v.pc = "policies" /\ v.alert = rep[r].alert
      /\ v.event = rep[r].event /\ v.todo = matching
  BY <1>0 DEF Reporter
<1>2. rep' = [rep EXCEPT ![r] = IF row[rep[r].alert].status = "open" THEN v ELSE IdleReporter]
  BY DEF Evaluate
<1> HIDE DEF v
<1> QED BY <1>1, <1>2, IdleType, Assigned

LEMMA PolicyEffect ==
  ASSUME TypeOK, NEW r \in Reporters, NextPolicy(r)
  PROVE  /\ rep' \in [Reporters -> Reporter] /\ Others(r)
         /\ \/ rep[r].todo = {} /\ rep'[r] = IdleReporter
            \/ \E p \in rep[r].todo \cap Policies :
                 /\ rep'[r].alert = rep[r].alert /\ rep'[r].event = rep[r].event
                 /\ rep'[r].todo = rep[r].todo \ {p}
                 /\ IF WithinWindow(p, rep[r].alert)
                    THEN rep'[r].pc = "policies"
                    ELSE rep'[r].pc = "ticket" /\ rep'[r].policy = p
<1>1. rep[r] \in Reporter
  BY DEF TypeOK
<1>2. CASE rep[r].todo = {} /\ rep' = [rep EXCEPT ![r] = IdleReporter]
  BY <1>2, IdleType, Assigned
<1>3. ASSUME NEW p \in rep[r].todo,
             rep' = [rep EXCEPT ![r] =
               IF WithinWindow(p, rep[r].alert)
               THEN [@ EXCEPT !.todo = rep[r].todo \ {p}]
               ELSE [@ EXCEPT !.todo = rep[r].todo \ {p}, !.pc = "ticket", !.policy = p]]
      PROVE  /\ rep' \in [Reporters -> Reporter] /\ Others(r) /\ p \in Policies
             /\ rep'[r].alert = rep[r].alert /\ rep'[r].event = rep[r].event
             /\ rep'[r].todo = rep[r].todo \ {p}
             /\ IF WithinWindow(p, rep[r].alert)
                THEN rep'[r].pc = "policies"
                ELSE rep'[r].pc = "ticket" /\ rep'[r].policy = p
  <2> DEFINE u == [rep[r] EXCEPT !.todo = rep[r].todo \ {p}]
             v == [rep[r] EXCEPT !.todo = rep[r].todo \ {p}, !.pc = "ticket", !.policy = p]
  <2>1. p \in Policies /\ rep[r].pc = "policies"
    BY <1>1 DEF NextPolicy, Reporter
  <2>2. /\ u \in Reporter /\ u.alert = rep[r].alert /\ u.event = rep[r].event
        /\ u.pc = "policies" /\ u.todo = rep[r].todo \ {p}
    BY <1>1, <2>1 DEF Reporter
  <2>3. /\ v \in Reporter /\ v.alert = rep[r].alert /\ v.event = rep[r].event
        /\ v.pc = "ticket" /\ v.policy = p /\ v.todo = rep[r].todo \ {p}
    BY <1>1, <2>1 DEF Reporter
  <2>4. rep' = [rep EXCEPT ![r] = IF WithinWindow(p, rep[r].alert) THEN u ELSE v]
    BY <1>3
  <2> HIDE DEF u, v
  <2> QED BY <2>1, <2>2, <2>3, <2>4, Assigned
<1> QED BY <1>2, <1>3 DEF NextPolicy

LEMMA TicketEffect ==
  ASSUME TypeOK, NEW r \in Reporters
  PROVE  /\ CreateTicket(r) \/ RecordAction(r) =>
              rep' \in [Reporters -> Reporter] /\ Others(r) /\ SameWork(r)
         /\ CreateTicket(r) => rep'[r].pc = "record"
         /\ RecordAction(r) => rep'[r].pc = "note"
  BY MoveEffect DEF CreateTicket, RecordAction

LEMMA TicketEndEffect ==
  ASSUME TypeOK, NEW r \in Reporters, TicketFails(r) \/ NoteTicket(r)
  PROVE  /\ rep' \in [Reporters -> Reporter] /\ Others(r)
         /\ rep'[r].alert = rep[r].alert /\ rep'[r].event = rep[r].event
         /\ rep'[r].pc = "policies" /\ rep'[r].todo = rep[r].todo
<1> DEFINE v == [rep[r] EXCEPT !.pc = "policies", !.policy = NoPolicy]
<1>0. rep[r] \in Reporter
  BY DEF TypeOK
<1>1. /\ v \in Reporter /\ v.pc = "policies" /\ v.alert = rep[r].alert
      /\ v.event = rep[r].event /\ v.todo = rep[r].todo
  BY <1>0 DEF Reporter
<1>2. rep' = [rep EXCEPT ![r] = v]
  BY DEF TicketFails, NoteTicket
<1> HIDE DEF v
<1> QED BY <1>1, <1>2, Assigned

LEMMA AbortEffect ==
  ASSUME TypeOK, NEW r \in Reporters, ReporterAborts(r)
  PROVE  rep' \in [Reporters -> Reporter] /\ Others(r) /\ rep'[r] = IdleReporter
  BY IdleType, Assigned DEF ReporterAborts

\* The step leaves every row but a's alone.
OtherRows(a) == \A b \in AlertKeys \ {a} : row'[b] = row[b]

LEMMA RowEffect ==
  ASSUME TypeOK, NEW a \in AlertKeys
  PROVE  /\ \A r \in Reporters, severity \in Severity : Report(r, a, severity) =>
              IF row[a].status = "absent" THEN UNCHANGED row
              ELSE row'[a].status = "open" /\ OtherRows(a)
         /\ \A r \in Reporters : Recover(r, a) => row'[a].status = "closed" /\ OtherRows(a)
         /\ \A r \in Reporters : InsertAlert(r) /\ rep[r].alert = a =>
              IF row[a].status = "absent" THEN row'[a].status = "open" /\ OtherRows(a)
              ELSE UNCHANGED row
         /\ \A o \in Operators : UpdateStatus(o, a) =>
              IF row[a].status \in {"open", "acknowledged"}
              THEN row'[a].status = op[o].target /\ OtherRows(a)
              ELSE UNCHANGED row
<1>0. row[a] \in Row /\ row \in [AlertKeys -> Row]
  BY DEF TypeOK
<1>1. ASSUME NEW r \in Reporters, NEW severity \in Severity, Report(r, a, severity),
             row[a].status # "absent"
      PROVE  row'[a].status = "open" /\ OtherRows(a)
  <2> DEFINE new == Observed(row[a], severity)
  <2>1. new.status = "open" /\ row' = [row EXCEPT ![a] = new]
    BY <1>0, <1>1 DEF Report, Observed, Row
  <2> HIDE DEF new
  <2> QED BY <1>0, <2>1 DEF OtherRows
<1>2. ASSUME NEW r \in Reporters, Recover(r, a)
      PROVE  row'[a].status = "closed" /\ OtherRows(a)
  <2> DEFINE new == [row[a] EXCEPT !.status = "closed", !.closed = TRUE]
  <2>1. new.status = "closed" /\ row' = [row EXCEPT ![a] = new]
    BY <1>0, <1>2 DEF Recover, Row
  <2> HIDE DEF new
  <2> QED BY <1>0, <2>1 DEF OtherRows
<1>3. ASSUME NEW r \in Reporters, InsertAlert(r), rep[r].alert = a, row[a].status = "absent"
      PROVE  row'[a].status = "open" /\ OtherRows(a)
  <2> DEFINE new == [row[a] EXCEPT !.status = "open", !.reports = 1,
                                   !.severity = rep[r].severity]
  <2>1. new.status = "open" /\ row' = [row EXCEPT ![a] = new]
    BY <1>0, <1>3 DEF InsertAlert, Row
  <2> HIDE DEF new
  <2> QED BY <1>0, <2>1 DEF OtherRows
<1>4. ASSUME NEW o \in Operators, UpdateStatus(o, a),
             row[a].status \in {"open", "acknowledged"}
      PROVE  row'[a].status = op[o].target /\ OtherRows(a)
  <2> DEFINE target == op[o].target
             new == [row[a] EXCEPT !.status = target,
                                   !.acked = (target = "acknowledged" \/ row[a].acked),
                                   !.closed = (target = "closed")]
  <2>1. new.status = target /\ row' = [row EXCEPT ![a] = new]
    BY <1>0, <1>4 DEF UpdateStatus, Row
  <2> HIDE DEF new
  <2> QED BY <1>0, <2>1 DEF OtherRows
<1> QED BY <1>1, <1>2, <1>3, <1>4 DEF Report, InsertAlert, UpdateStatus


LEMMA RecoverSound ==
  ASSUME TypeOK, ReporterSound, OperatorSound,
         NEW r \in Reporters, NEW a \in AlertKeys, Recover(r, a)
  PROVE  TypeOK' /\ ReporterSound' /\ OperatorSound'
<1> DEFINE v == [rep[r] EXCEPT !.pc = "event", !.alert = a, !.event = "closed"]
           new == [row[a] EXCEPT !.status = "closed", !.closed = TRUE]
<1>0. rep[r] \in Reporter /\ row[a] \in Row
  BY DEF TypeOK
<1>1. v \in Reporter
  BY <1>0 DEF Reporter, EventType
<1>2. new \in Row /\ new.status = "closed"
  BY <1>0 DEF Row
<1>3. rep' = [rep EXCEPT ![r] = v] /\ row' = [row EXCEPT ![a] = new]
  BY DEF Recover
<1>4. v.pc = "event" /\ v.alert = a /\ v.event = "closed"
  BY <1>0 DEF Reporter
<1> HIDE DEF v, new
<1>5. ReporterSound' /\ rep' \in [Reporters -> Reporter]
  BY <1>1, <1>2, <1>3, <1>4, ReporterMoves DEF TypeOK
<1>6. UNCHANGED <<timeline, tickets, lastAction, op, executed, faults>>
  BY DEF Recover
<1>7. TypeOK'
  BY <1>2, <1>3, <1>5, <1>6 DEF TypeOK
<1> QED BY <1>5, <1>6, <1>7 DEF OperatorSound

LEMMA InsertSound ==
  ASSUME TypeOK, ReporterSound, OperatorSound, NEW r \in Reporters, InsertAlert(r)
  PROVE  TypeOK' /\ ReporterSound' /\ OperatorSound'
<1> DEFINE a == rep[r].alert
<1>0. /\ rep[r] \in Reporter /\ a \in AlertKeys /\ row[a] \in Row
      /\ rep[r].event = "observed" /\ MaxReports >= 1
  BY DEF TypeOK, ReporterSound, InsertAlert
<1>1. CASE row[a].status = "absent"
  <2> DEFINE v == [rep[r] EXCEPT !.pc = "event"]
             new == [row[a] EXCEPT !.status = "open", !.reports = 1,
                                   !.severity = rep[r].severity]
  <2>1. v \in Reporter /\ v.pc = "event" /\ v.alert = a /\ v.event = "observed"
    BY <1>0 DEF Reporter
  <2>2. rep[r].severity \in Severity /\ 1 \in 0..MaxReports
    BY <1>0 DEF Reporter
  <2>3. new \in Row /\ new.status = "open"
    BY <1>0, <2>2 DEF Row
  <2>4. rep' = [rep EXCEPT ![r] = v] /\ row' = [row EXCEPT ![a] = new]
    BY <1>1 DEF InsertAlert
  <2> HIDE DEF v, new
  <2>5. ReporterSound' /\ rep' \in [Reporters -> Reporter]
    BY <1>0, <2>1, <2>3, <2>4, ReporterMoves DEF TypeOK
  <2> QED BY <1>0, <2>3, <2>4, <2>5 DEF InsertAlert, TypeOK, OperatorSound
<1>2. CASE row[a].status # "absent"
  <2>1. rep' = [rep EXCEPT ![r] = IdleReporter] /\ UNCHANGED row
    BY <1>2 DEF InsertAlert
  <2>2. IdleReporter \in Reporter /\ IdleReporter.pc = "idle" /\ IdleReporter.event = "observed"
    BY DEF IdleReporter, Reporter, Severity, EventType
  <2>3. ReporterSound' /\ rep' \in [Reporters -> Reporter]
    BY <2>1, <2>2, ReporterMoves
  <2> QED BY <2>1, <2>3 DEF InsertAlert, TypeOK, OperatorSound
<1> QED BY <1>1, <1>2

\* The reporter's steps that leave the rows alone.
LEMMA ReporterSteps ==
  ASSUME TypeOK, ReporterSound, OperatorSound, NEW r \in Reporters,
         \/ WriteEvent(r) \/ Evaluate(r) \/ NextPolicy(r) \/ CreateTicket(r)
         \/ TicketFails(r) \/ RecordAction(r) \/ NoteTicket(r) \/ ReporterAborts(r)
  PROVE  TypeOK' /\ ReporterSound' /\ OperatorSound'
<1>0. rep[r] \in Reporter /\ UNCHANGED <<row, op, executed>>
  BY DEF TypeOK, WriteEvent, Evaluate, NextPolicy, CreateTicket, TicketFails, RecordAction,
         NoteTicket, ReporterAborts
<1>1. PICK v \in Reporter :
        /\ rep' = [rep EXCEPT ![r] = v]
        /\ v = IdleReporter
           \/ /\ rep[r].pc \notin {"idle", "insert"} /\ v.pc \notin {"idle", "insert", "event"}
              /\ v.alert = rep[r].alert /\ v.event = rep[r].event /\ v.event # "closed"
              /\ v.pc \in {"ticket", "record", "note"} => v.policy \in Policies
  <2>0. IdleReporter \in Reporter
    BY DEF IdleReporter, Reporter, Severity, EventType
  <2>1. CASE WriteEvent(r)
    <3> DEFINE v == [rep[r] EXCEPT !.pc = "evaluate"]
    <3>1. v \in Reporter /\ v.pc = "evaluate" /\ v.alert = rep[r].alert /\ v.event = rep[r].event
      BY <1>0 DEF Reporter
    <3>2. rep' = [rep EXCEPT ![r] = IF rep[r].event = "closed" THEN IdleReporter ELSE v]
      BY <2>1 DEF WriteEvent
    <3> HIDE DEF v
    <3> QED BY <2>0, <2>1, <3>1, <3>2 DEF WriteEvent
  <2>2. CASE Evaluate(r)
    <3> DEFINE matching == {p \in Policies : MatchSeverity[p] = row[rep[r].alert].severity}
               v == [rep[r] EXCEPT !.pc = "policies", !.todo = matching]
    <3>1. v \in Reporter /\ v.pc = "policies" /\ v.alert = rep[r].alert /\ v.event = rep[r].event
      BY <1>0 DEF Reporter
    <3>2. rep' = [rep EXCEPT ![r] = IF row[rep[r].alert].status = "open" THEN v
                                                                        ELSE IdleReporter]
      BY <2>2 DEF Evaluate
    <3> HIDE DEF v
    <3> QED BY <2>0, <2>2, <3>1, <3>2 DEF Evaluate, ReporterSound
  <2>3. CASE NextPolicy(r)
    <3>1. CASE rep' = [rep EXCEPT ![r] = IdleReporter]
      BY <2>0, <3>1
    <3>2. CASE rep' # [rep EXCEPT ![r] = IdleReporter]
      <4>1. PICK p \in rep[r].todo :
              rep' = [rep EXCEPT ![r] =
                IF WithinWindow(p, rep[r].alert)
                THEN [@ EXCEPT !.todo = rep[r].todo \ {p}]
                ELSE [@ EXCEPT !.todo = rep[r].todo \ {p}, !.pc = "ticket", !.policy = p]]
        BY <2>3, <3>2 DEF NextPolicy
      <4> DEFINE u == [rep[r] EXCEPT !.todo = rep[r].todo \ {p}]
                 v == [rep[r] EXCEPT !.todo = rep[r].todo \ {p}, !.pc = "ticket", !.policy = p]
      <4>2. p \in Policies
        BY <1>0 DEF Reporter
      <4>3. /\ u \in Reporter /\ u.alert = rep[r].alert /\ u.event = rep[r].event
            /\ u.pc = rep[r].pc
            /\ v \in Reporter /\ v.alert = rep[r].alert /\ v.event = rep[r].event
            /\ v.pc = "ticket" /\ v.policy = p
        BY <1>0, <4>2 DEF Reporter
      <4>4. rep' = [rep EXCEPT ![r] = u] \/ rep' = [rep EXCEPT ![r] = v]
        BY <4>1
      <4> HIDE DEF u, v
      <4>5. rep[r].pc = "policies" /\ rep[r].event # "closed"
        BY <2>3 DEF NextPolicy, ReporterSound
      <4> QED BY <4>2, <4>3, <4>4, <4>5
    <3> QED BY <3>1, <3>2
  <2>4. CASE CreateTicket(r) \/ RecordAction(r)
    <3> DEFINE v == [rep[r] EXCEPT !.pc = IF CreateTicket(r) THEN "record" ELSE "note"]
    <3>1. /\ v \in Reporter /\ v.pc \in {"record", "note"}
          /\ v.alert = rep[r].alert /\ v.event = rep[r].event /\ v.policy = rep[r].policy
      BY <1>0 DEF Reporter
    <3>2. rep' = [rep EXCEPT ![r] = v]
      BY <2>4 DEF CreateTicket, RecordAction
    <3> HIDE DEF v
    <3> QED BY <2>4, <3>1, <3>2 DEF CreateTicket, RecordAction, ReporterSound
  <2>5. CASE TicketFails(r) \/ NoteTicket(r)
    <3> DEFINE v == [rep[r] EXCEPT !.pc = "policies", !.policy = NoPolicy]
    <3>1. v \in Reporter /\ v.pc = "policies" /\ v.alert = rep[r].alert /\ v.event = rep[r].event
      BY <1>0 DEF Reporter
    <3>2. rep' = [rep EXCEPT ![r] = v]
      BY <2>5 DEF TicketFails, NoteTicket
    <3> HIDE DEF v
    <3> QED BY <2>5, <3>1, <3>2 DEF TicketFails, NoteTicket, ReporterSound
  <2>6. CASE ReporterAborts(r)
    BY <2>0, <2>6 DEF ReporterAborts
  <2> QED BY <2>1, <2>2, <2>3, <2>4, <2>5, <2>6
<1>2. ReporterSound' /\ rep' \in [Reporters -> Reporter]
  BY <1>0, <1>1, ReporterMoves DEF ReporterSound, IdleReporter, TypeOK
<1>3. timeline' \in [AlertKeys -> [WrittenEvent -> Nat]]
  <2>1. CASE UNCHANGED timeline
    BY <2>1 DEF TypeOK
  <2>2. CASE WriteEvent(r)
    <3>1. rep[r].alert \in AlertKeys /\ rep[r].event \in EventType
      BY <1>0, <2>2 DEF WriteEvent, ReporterSound, Reporter
    <3> QED BY <2>2, <3>1, EventWritten DEF WriteEvent
  <2>3. CASE NoteTicket(r)
    <3>1. rep[r].alert \in AlertKeys /\ "ticket_created" \in EventType
      BY <1>0, <2>3 DEF NoteTicket, ReporterSound, EventType
    <3> QED BY <2>3, <3>1, EventWritten DEF NoteTicket
  <2> QED BY <2>1, <2>2, <2>3 DEF Evaluate, NextPolicy, CreateTicket, TicketFails,
                                  RecordAction, ReporterAborts
<1>4. /\ tickets' \in [Policies -> [AlertKeys -> Nat]]
      /\ lastAction' \in [Policies -> [AlertKeys -> {"none", "recent", "old"}]]
  <2>1. CASE UNCHANGED <<tickets, lastAction>>
    BY <2>1 DEF TypeOK
  <2>2. CASE CreateTicket(r)
    BY <2>2, TicketCreated DEF CreateTicket, TypeOK
  <2>3. CASE RecordAction(r)
    BY <2>3, ActionRecorded DEF RecordAction, TypeOK
  <2> QED BY <2>1, <2>2, <2>3 DEF Evaluate, NextPolicy, WriteEvent, NoteTicket, TicketFails,
                                  ReporterAborts
<1>5. faults' \in 0..MaxFaults
  <2>1. CASE UNCHANGED faults
    BY <2>1 DEF TypeOK
  <2>2. CASE TicketFails(r) \/ ReporterAborts(r)
    BY <2>2 DEF TypeOK, TicketFails, ReporterAborts
  <2> QED BY <2>1, <2>2 DEF WriteEvent, Evaluate, NextPolicy, CreateTicket, RecordAction,
                            NoteTicket
<1> QED BY <1>0, <1>2, <1>3, <1>4, <1>5 DEF TypeOK, OperatorSound

LEMMA OperatorSteps ==
  ASSUME TypeOK, ReporterSound, OperatorSound, NEW o \in Operators,
         \/ \E S \in SUBSET AlertKeys, target \in {"acknowledged", "closed"} :
              StartBulk(o, S, target)
         \/ OperatorStep(o) \/ OperatorAborts(o)
  PROVE  TypeOK' /\ ReporterSound' /\ OperatorSound'
<1>0. op[o] \in Operator /\ UNCHANGED <<rep, tickets, lastAction, executed>>
  BY DEF TypeOK, StartBulk, OperatorStep, UpdateStatus, WriteStatusEvent, FinishBulk,
         OperatorAborts
<1>1. CASE \E S \in SUBSET AlertKeys, target \in {"acknowledged", "closed"} :
             StartBulk(o, S, target)
  BY <1>1 DEF StartBulk, TypeOK, Operator, ReporterSound, OperatorSound
<1>2. CASE \E a \in AlertKeys : UpdateStatus(o, a)
  <2>1. PICK a \in AlertKeys : UpdateStatus(o, a)
    BY <1>2
  <2>2. row[a] \in Row
    BY DEF TypeOK
  <2>3. CASE row[a].status \in {"open", "acknowledged"}
    <3> DEFINE target == op[o].target
               new == [row[a] EXCEPT !.status = target,
                                     !.acked = (target = "acknowledged" \/ row[a].acked),
                                     !.closed = (target = "closed")]
               v == [op[o] EXCEPT !.pc = "event", !.alert = a, !.todo = op[o].todo \ {a}]
    <3>1. new \in Row /\ new.status # "absent"
      BY <1>0, <2>2 DEF Row, Operator
    <3>2. v \in Operator /\ v.alert = a
      BY <1>0 DEF Operator
    <3>3. op' = [op EXCEPT ![o] = v] /\ row' = [row EXCEPT ![a] = new]
      BY <2>1, <2>3 DEF UpdateStatus
    <3> HIDE DEF new, v, target
    <3>4. TypeOK'
      BY <2>1, <3>1, <3>2, <3>3 DEF TypeOK, UpdateStatus
    <3>5. ReporterSound' /\ OperatorSound'
      BY <1>0, <3>1, <3>2, <3>3 DEF TypeOK, ReporterSound, OperatorSound
    <3> QED BY <3>4, <3>5
  <2>4. CASE row[a].status \notin {"open", "acknowledged"}
    <3> DEFINE v == [op[o] EXCEPT !.todo = op[o].todo \ {a}]
    <3>1. v \in Operator /\ v.pc = "update"
      BY <1>0, <2>1 DEF Operator, UpdateStatus
    <3>2. op' = [op EXCEPT ![o] = v] /\ UNCHANGED row
      BY <2>1, <2>4 DEF UpdateStatus
    <3> HIDE DEF v
    <3> QED BY <2>1, <3>1, <3>2 DEF TypeOK, UpdateStatus, ReporterSound, OperatorSound
  <2> QED BY <2>3, <2>4
<1>3. CASE WriteStatusEvent(o)
  <2>1. op[o].alert \in AlertKeys /\ op[o].target \in EventType
    BY <1>0, <1>3 DEF WriteStatusEvent, OperatorSound, Operator, EventType
  <2>2. timeline' \in [AlertKeys -> [WrittenEvent -> Nat]]
    BY <1>3, <2>1, EventWritten DEF WriteStatusEvent
  <2>3. op' \in [Operators -> Operator] /\ OperatorSound'
    BY <1>0, <1>3 DEF WriteStatusEvent, TypeOK, Operator, OperatorSound
  <2> QED BY <1>3, <2>2, <2>3 DEF WriteStatusEvent, TypeOK, ReporterSound
<1>4. CASE FinishBulk(o) \/ OperatorAborts(o)
  <2>1. IdleOperator \in Operator /\ IdleOperator.pc = "idle"
    BY DEF IdleOperator, Operator
  <2>2. op' = [op EXCEPT ![o] = IdleOperator] /\ UNCHANGED <<row, timeline>>
    BY <1>4 DEF FinishBulk, OperatorAborts
  <2>3. faults' \in 0..MaxFaults
    BY <1>4 DEF FinishBulk, OperatorAborts, TypeOK
  <2> QED BY <1>0, <2>1, <2>2, <2>3 DEF TypeOK, ReporterSound, OperatorSound
<1> QED BY <1>1, <1>2, <1>3, <1>4 DEF OperatorStep

LEMMA OtherSteps ==
  ASSUME TypeOK, ReporterSound, OperatorSound,
         \/ \E p \in Policies, a \in AlertKeys : WindowElapses(p, a)
         \/ \E a \in AlertKeys, mode \in Modes : Remediate(a, mode)
         \/ UNCHANGED vars
  PROVE  TypeOK' /\ ReporterSound' /\ OperatorSound'
<1>1. CASE \E p \in Policies, a \in AlertKeys : WindowElapses(p, a)
  BY <1>1 DEF WindowElapses, TypeOK, ReporterSound, OperatorSound
<1>2. CASE \E a \in AlertKeys, mode \in Modes : Remediate(a, mode)
  <2>1. UNCHANGED timeline
    BY <1>2 DEF Remediate, InsertEvent, EventType
  <2> QED BY <1>2, <2>1 DEF Remediate, TypeOK, ReporterSound, OperatorSound
<1>3. CASE UNCHANGED vars
  BY <1>3 DEF vars, TypeOK, ReporterSound, OperatorSound
<1> QED BY <1>1, <1>2, <1>3

LEMMA SoundNext ==
  ASSUME TypeOK, ReporterSound, OperatorSound, [Next]_vars
  PROVE  TypeOK' /\ ReporterSound' /\ OperatorSound'
<1>1. ASSUME NEW r \in Reporters, ReporterStep(r) \/ ReporterAborts(r)
      PROVE  TypeOK' /\ ReporterSound' /\ OperatorSound'
  BY <1>1, InsertSound, ReporterSteps DEF ReporterStep
<1> QED BY <1>1, ReportSound, RecoverSound, OperatorSteps, OtherSteps DEF Next
-----------------------------------------------------------------------------
(* The tickets behind suppressions *)

\* Steps that neither open tickets nor record them, and start no record.
LEMMA TicketsAlone ==
  ASSUME RecordHasTicket, SuppressionHasTicket, UNCHANGED <<tickets, lastAction>>,
         \A r \in Reporters : rep'[r].pc = "record" => rep'[r] = rep[r]
  PROVE  RecordHasTicket' /\ SuppressionHasTicket'
  BY DEF RecordHasTicket, SuppressionHasTicket

LEMMA TicketNext ==
  ASSUME TypeOK, ReporterSound, RecordHasTicket, SuppressionHasTicket, [Next]_vars
  PROVE  RecordHasTicket' /\ SuppressionHasTicket'
<1>1. ASSUME NEW r \in Reporters, CreateTicket(r)
      PROVE  RecordHasTicket' /\ SuppressionHasTicket'
  <2>1. \A q \in Reporters : /\ rep'[q].alert = rep[q].alert /\ rep'[q].policy = rep[q].policy
                             /\ q # r => rep'[q] = rep[q]
    BY <1>1, TicketEffect DEF SameWork, Others
  <2>2. /\ rep[r].policy \in Policies /\ rep[r].alert \in AlertKeys /\ UNCHANGED lastAction
        /\ tickets \in [Policies -> [AlertKeys -> Nat]]
    BY <1>1 DEF CreateTicket, ReporterSound, TypeOK
  <2>3. \A q \in Reporters : rep[q].pc = "record" =>
            rep[q].policy \in Policies /\ rep[q].alert \in AlertKeys
    BY DEF ReporterSound
  <2>4. \A p \in Policies, a \in AlertKeys : tickets[p][a] \in Nat
    BY <2>2
  <2>5. /\ tickets'[rep[r].policy][rep[r].alert] = tickets[rep[r].policy][rep[r].alert] + 1
        /\ \A p \in Policies, a \in AlertKeys : tickets'[p][a] >= tickets[p][a]
    BY <1>1, <2>2, <2>4, TicketCreated
  <2>6. SuppressionHasTicket'
    BY <2>2, <2>4, <2>5, TicketCreated, <1>1 DEF SuppressionHasTicket
  <2>7. ASSUME NEW q \in Reporters, rep'[q].pc = "record"
        PROVE  tickets'[rep'[q].policy][rep'[q].alert] >= 1
    <3>1. CASE q = r
      BY <2>1, <2>2, <2>4, <2>5, <3>1
    <3>2. CASE q # r
      BY <2>1, <2>3, <2>4, <2>5, <2>7, <3>2, TicketCreated, <1>1 DEF RecordHasTicket
    <3> QED BY <3>1, <3>2
  <2> QED BY <2>6, <2>7 DEF RecordHasTicket
<1>2. ASSUME NEW r \in Reporters, RecordAction(r)
      PROVE  RecordHasTicket' /\ SuppressionHasTicket'
  <2>1. /\ \A q \in Reporters : rep'[q].pc = "record" => rep'[q] = rep[q]
        /\ UNCHANGED tickets /\ rep[r].pc = "record"
    BY <1>2, TicketEffect DEF Others, RecordAction
  <2>2. SuppressionHasTicket'
    BY <1>2, <2>1, ActionRecorded DEF RecordHasTicket, SuppressionHasTicket
  <2> QED BY <2>1, <2>2 DEF RecordHasTicket
<1>3. ASSUME NEW p \in Policies, NEW a \in AlertKeys, WindowElapses(p, a)
      PROVE  RecordHasTicket' /\ SuppressionHasTicket'
  <2>1. \A q \in Policies, b \in AlertKeys :
            q # p \/ b # a => tickets'[q][b] = tickets[q][b] /\ lastAction'[q][b] = lastAction[q][b]
    BY <1>3 DEF WindowElapses, TypeOK
  <2>2. lastAction'[p][a] # "recent"
    BY <1>3 DEF WindowElapses, TypeOK
  <2>3. RecordHasTicket'
    BY <1>3, <2>1 DEF WindowElapses, RecordHasTicket, ReporterSound
  <2> QED BY <2>1, <2>2, <2>3 DEF SuppressionHasTicket
<1>4. ASSUME NEW r \in Reporters, NEW a \in AlertKeys, NEW severity \in Severity,
             Report(r, a, severity) \/ Recover(r, a) \/ InsertAlert(r) \/ WriteEvent(r)
               \/ Evaluate(r) \/ NextPolicy(r) \/ TicketFails(r) \/ NoteTicket(r)
               \/ ReporterAborts(r)
      PROVE  RecordHasTicket' /\ SuppressionHasTicket'
  <2>1. UNCHANGED <<tickets, lastAction>>
    BY <1>4 DEF Report, Recover, InsertAlert, WriteEvent, Evaluate, NextPolicy, TicketFails,
                NoteTicket, ReporterAborts
  <2>2. \A q \in Reporters : rep'[q].pc = "record" => rep'[q] = rep[q]
    <3>1. Others(r) /\ rep'[r].pc # "record"
      <4>1. CASE Report(r, a, severity) \/ Recover(r, a)
        BY <4>1, ReportEffect, RecoverEffect
      <4>2. CASE InsertAlert(r) \/ WriteEvent(r)
        BY <4>2, InsertEffect, WriteEffect, IdleType
      <4>3. CASE Evaluate(r) \/ NextPolicy(r)
        BY <4>3, EvaluateEffect, PolicyEffect, IdleType
      <4>4. CASE TicketFails(r) \/ NoteTicket(r) \/ ReporterAborts(r)
        BY <4>4, TicketEndEffect, AbortEffect, IdleType
      <4> QED BY <1>4, <4>1, <4>2, <4>3, <4>4
    <3> QED BY <3>1 DEF Others
  <2> QED BY <2>1, <2>2, TicketsAlone
<1>5. CASE UNCHANGED <<rep, tickets, lastAction>>
  BY <1>5, TicketsAlone
<1>6. ASSUME NEW o \in Operators, OperatorStep(o) \/ OperatorAborts(o)
                \/ \E S \in SUBSET AlertKeys, target \in {"acknowledged", "closed"} :
                     StartBulk(o, S, target)
      PROVE  UNCHANGED <<rep, tickets, lastAction>>
  BY <1>6 DEF OperatorStep, UpdateStatus, WriteStatusEvent, FinishBulk, OperatorAborts, StartBulk
<1>7. ASSUME NEW a \in AlertKeys, NEW mode \in Modes, Remediate(a, mode)
      PROVE  UNCHANGED <<rep, tickets, lastAction>>
  BY <1>7 DEF Remediate
<1>8. ASSUME NEW r \in Reporters, ReporterStep(r) \/ ReporterAborts(r)
      PROVE  RecordHasTicket' /\ SuppressionHasTicket'
  <2>1. rep[r].alert \in AlertKeys /\ "warning" \in Severity
    BY <1>8 DEF ReporterStep, ReporterAborts, InsertAlert, WriteEvent, Evaluate, NextPolicy,
                CreateTicket, TicketFails, RecordAction, NoteTicket, ReporterSound, Severity
  <2> QED BY <1>1, <1>2, <1>4, <1>8, <2>1 DEF ReporterStep
<1>9. CASE UNCHANGED vars
  BY <1>5, <1>9 DEF vars
<1>10. CASE \E r \in Reporters, a \in AlertKeys :
              Recover(r, a) \/ \E severity \in Severity : Report(r, a, severity)
  BY <1>4, <1>10 DEF Severity
<1> QED BY <1>3, <1>5, <1>6, <1>7, <1>8, <1>9, <1>10 DEF Next

-----------------------------------------------------------------------------
(* Open alerts are covered, rows are observed *)

\* A step keeps the cover when an alert that is open afterwards was open before
\* with the same severity, or has a new reporter on its way, and when a reporter
\* gives a policy up only once it has acted, or on an alert that is not open or
\* of another severity.
LEMMA CoverKept ==
  ASSUME OpenIsCovered, faults' = 0 => faults = 0,
         \A a \in AlertKeys : row'[a].status = "open" =>
            \/ row[a].status = "open" /\ row'[a].severity = row[a].severity
            \/ \A p \in Policies : \E r \in Reporters : rep'[r].alert = a /\ WillApply(r, p)',
         \A p \in Policies, a \in AlertKeys :
            lastAction[p][a] # "none" => lastAction'[p][a] # "none",
         \A r \in Reporters, p \in Policies : WillApply(r, p) /\ rep[r].alert \in AlertKeys =>
            \/ rep'[r].alert = rep[r].alert /\ WillApply(r, p)'
            \/ lastAction'[p][rep[r].alert] # "none"
            \/ row[rep[r].alert].status # "open"
            \/ row[rep[r].alert].severity # MatchSeverity[p]
  PROVE  OpenIsCovered'
<1> SUFFICES ASSUME faults' = 0, NEW a \in AlertKeys, NEW p \in Policies,
                    row'[a].status = "open", MatchSeverity[p] = row'[a].severity
             PROVE  \/ lastAction'[p][a] # "none"
                    \/ \E r \in Reporters : rep'[r].alert = a /\ WillApply(r, p)'
  BY DEF OpenIsCovered
<1>1. CASE row[a].status = "open" /\ row'[a].severity = row[a].severity
  <2>1. \/ lastAction[p][a] # "none"
        \/ \E r \in Reporters : rep[r].alert = a /\ WillApply(r, p)
    BY <1>1 DEF OpenIsCovered
  <2> QED BY <1>1, <2>1
<1> QED BY <1>1

\* An open row that is not written is open before the step as well.
LEMMA CoverNext ==
  ASSUME TypeOK, ReporterSound, OpenIsCovered, [Next]_vars
  PROVE  OpenIsCovered'
<1> DEFINE Kept(r) == \A p \in Policies : WillApply(r, p) /\ rep[r].alert \in AlertKeys =>
                         \/ rep'[r].alert = rep[r].alert /\ WillApply(r, p)'
                         \/ lastAction'[p][rep[r].alert] # "none"
                         \/ row[rep[r].alert].status # "open"
                         \/ row[rep[r].alert].severity # MatchSeverity[p]
<1>1. ASSUME NEW r \in Reporters, Others(r), Kept(r), faults' = 0 => faults = 0,
             UNCHANGED lastAction,
             \A a \in AlertKeys : row'[a].status = "open" =>
                \/ row'[a] = row[a]
                \/ rep'[r].alert = a /\ \A p \in Policies : WillApply(r, p)'
      PROVE  OpenIsCovered'
  <2>1. \A q \in Reporters : Kept(q)
    BY <1>1 DEF Others, WillApply
  <2> QED BY <1>1, <2>1, CoverKept
<1>2. ASSUME NEW r \in Reporters, NEW a \in AlertKeys, NEW severity \in Severity,
             Report(r, a, severity)
      PROVE  OpenIsCovered'
  <2>1. rep[r].pc = "idle" /\ UNCHANGED <<lastAction, faults>>
    BY <1>2 DEF Report
  <2>2. Kept(r)
    BY <2>1 DEF WillApply
  <2> QED BY <1>1, <1>2, <2>1, <2>2, ReportEffect, RowEffect DEF OtherRows, WillApply
<1>3. ASSUME NEW r \in Reporters, NEW a \in AlertKeys, Recover(r, a)
      PROVE  OpenIsCovered'
  <2>1. rep[r].pc = "idle" /\ UNCHANGED <<lastAction, faults>>
    BY <1>3 DEF Recover
  <2>2. Kept(r)
    BY <2>1 DEF WillApply
  <2> QED BY <1>1, <1>3, <2>1, <2>2, RecoverEffect, RowEffect DEF OtherRows, WillApply
<1>4. ASSUME NEW r \in Reporters, InsertAlert(r)
      PROVE  OpenIsCovered'
  <2>1. /\ rep[r].pc = "insert" /\ UNCHANGED <<lastAction, faults>>
        /\ rep[r].alert \in AlertKeys /\ rep[r].event = "observed"
    BY <1>4 DEF InsertAlert, ReporterSound
  <2>2. Kept(r)
    BY <2>1 DEF WillApply
  <2> QED BY <1>1, <1>4, <2>1, <2>2, InsertEffect, RowEffect DEF OtherRows, WillApply, SameWork
<1>5. ASSUME NEW r \in Reporters, WriteEvent(r)
      PROVE  OpenIsCovered'
  <2>1. rep[r].pc = "event" /\ UNCHANGED <<row, lastAction, faults>>
    BY <1>5 DEF WriteEvent
  <2>2. Kept(r)
    BY <1>5, <2>1, WriteEffect DEF WillApply, SameWork
  <2> QED BY <1>1, <1>5, <2>1, <2>2, WriteEffect
<1>6. ASSUME NEW r \in Reporters, Evaluate(r)
      PROVE  OpenIsCovered'
  <2>1. rep[r].pc = "evaluate" /\ UNCHANGED <<row, lastAction, faults>>
    BY <1>6 DEF Evaluate
  <2>2. Kept(r)
    BY <1>6, <2>1, EvaluateEffect DEF WillApply
  <2> QED BY <1>1, <1>6, <2>1, <2>2, EvaluateEffect
<1>7. ASSUME NEW r \in Reporters, NextPolicy(r)
      PROVE  OpenIsCovered'
  <2>1. rep[r].pc = "policies" /\ UNCHANGED <<row, lastAction, faults>>
    BY <1>7 DEF NextPolicy
  <2>2. Kept(r)
    BY <1>7, <2>1, PolicyEffect DEF WillApply, WithinWindow
  <2> QED BY <1>1, <1>7, <2>1, <2>2, PolicyEffect
<1>8. ASSUME NEW r \in Reporters, CreateTicket(r) \/ NoteTicket(r)
      PROVE  OpenIsCovered'
  <2>1. rep[r].pc \in {"ticket", "note"} /\ UNCHANGED <<row, lastAction, faults>>
    BY <1>8 DEF CreateTicket, NoteTicket
  <2>2. Kept(r) /\ Others(r)
    BY <1>8, <2>1, TicketEffect, TicketEndEffect DEF WillApply, SameWork, CreateTicket, NoteTicket
  <2> QED BY <1>1, <2>1, <2>2
<1>9. ASSUME NEW r \in Reporters, RecordAction(r)
      PROVE  OpenIsCovered'
  <2>1. /\ rep[r].pc = "record" /\ UNCHANGED <<row, faults>>
        /\ rep[r].policy \in Policies /\ rep[r].alert \in AlertKeys
    BY <1>9 DEF RecordAction, ReporterSound
  <2>2. \A p \in Policies, a \in AlertKeys :
            lastAction[p][a] # "none" => lastAction'[p][a] # "none"
    BY <1>9, ActionRecorded
  <2>3. Others(r) /\ SameWork(r) /\ rep'[r].pc = "note"
    BY <1>9, TicketEffect
  <2>4. lastAction'[rep[r].policy][rep[r].alert] # "none"
    BY <1>9, <2>1, ActionRecorded
  <2>5. \A q \in Reporters : Kept(q)
    BY <2>1, <2>3, <2>4 DEF WillApply, SameWork, Others
  <2> QED BY <2>1, <2>2, <2>5, CoverKept
<1>10. ASSUME NEW p \in Policies, NEW a \in AlertKeys, WindowElapses(p, a)
       PROVE  OpenIsCovered'
  <2>1. \A q \in Policies, b \in AlertKeys :
            lastAction[q][b] # "none" => lastAction'[q][b] # "none"
    BY <1>10 DEF WindowElapses, TypeOK
  <2>2. UNCHANGED <<row, rep, faults>>
    BY <1>10 DEF WindowElapses
  <2> QED BY <2>1, <2>2 DEF OpenIsCovered, WillApply
<1>11. ASSUME NEW o \in Operators, NEW a \in AlertKeys, UpdateStatus(o, a)
       PROVE  OpenIsCovered'
  <2>1. UNCHANGED <<lastAction, rep, faults>> /\ op[o].target # "open"
    BY <1>11 DEF UpdateStatus, TypeOK, Operator
  <2>2. \A b \in AlertKeys : row'[b].status = "open" => row'[b] = row[b]
    BY <1>11, <2>1, RowEffect DEF OtherRows
  <2> QED BY <2>1, <2>2 DEF OpenIsCovered, WillApply
<1>12. CASE faults' = faults + 1
  BY <1>12 DEF TypeOK, OpenIsCovered
<1>13. CASE UNCHANGED <<row, lastAction, rep, faults>>
  BY <1>13 DEF OpenIsCovered, WillApply
<1>14. ASSUME NEW r \in Reporters, ReporterStep(r) \/ ReporterAborts(r)
       PROVE  OpenIsCovered'
  <2>1. CASE TicketFails(r) \/ ReporterAborts(r)
    BY <1>12, <2>1 DEF TicketFails, ReporterAborts
  <2> QED BY <1>4, <1>5, <1>6, <1>7, <1>8, <1>9, <1>14, <2>1 DEF ReporterStep
<1>15. ASSUME NEW o \in Operators, OperatorStep(o) \/ OperatorAborts(o)
       PROVE  OpenIsCovered'
  <2>1. CASE WriteStatusEvent(o) \/ FinishBulk(o)
    BY <1>13, <2>1 DEF WriteStatusEvent, FinishBulk
  <2>2. CASE OperatorAborts(o)
    BY <1>12, <2>2 DEF OperatorAborts
  <2> QED BY <1>11, <1>15, <2>1, <2>2 DEF OperatorStep
<1>16. ASSUME \/ \E o \in Operators, S \in SUBSET AlertKeys,
                    target \in {"acknowledged", "closed"} : StartBulk(o, S, target)
              \/ \E a \in AlertKeys, mode \in Modes : Remediate(a, mode)
              \/ UNCHANGED vars
       PROVE  OpenIsCovered'
  BY <1>13, <1>16 DEF StartBulk, Remediate, vars
<1> QED BY <1>2, <1>3, <1>10, <1>14, <1>15, <1>16 DEF Next

\* The steps after which a timeline is longer.
LEMMA TimelineEffect ==
  ASSUME TypeOK, ReporterSound, OperatorSound
  PROVE  /\ \A r \in Reporters : WriteEvent(r) =>
              /\ rep[r].alert \in AlertKeys /\ rep[r].event \in EventType
              /\ InsertEvent(rep[r].alert, rep[r].event)
         /\ \A r \in Reporters : NoteTicket(r) =>
              rep[r].alert \in AlertKeys /\ InsertEvent(rep[r].alert, "ticket_created")
         /\ \A o \in Operators : WriteStatusEvent(o) =>
              /\ op[o].alert \in AlertKeys /\ op[o].target \in {"acknowledged", "closed"}
              /\ InsertEvent(op[o].alert, op[o].target)
<1>1. \A r \in Reporters : rep[r] \in Reporter
  BY DEF TypeOK
<1>2. \A o \in Operators : op[o] \in Operator
  BY DEF TypeOK
<1> QED BY <1>1, <1>2 DEF WriteEvent, NoteTicket, WriteStatusEvent, ReporterSound,
           OperatorSound, Reporter, Operator

\* A step that leaves the timelines, and keeps a reporter about to observe on its way.
LEMMA ObservedKept ==
  ASSUME ObservedIsWritten, faults' = 0 => faults = 0, UNCHANGED timeline,
         \A a \in AlertKeys : row[a].status # "absent" => row'[a].status # "absent",
         \A r \in Reporters : rep[r].pc = "event" /\ rep[r].event = "observed" =>
            rep'[r] = rep[r],
         \A a \in AlertKeys : row'[a].status # "absent" =>
            \/ row[a].status # "absent"
            \/ \E r \in Reporters :
                 rep'[r].alert = a /\ rep'[r].pc = "event" /\ rep'[r].event = "observed"
  PROVE  ObservedIsWritten'
  BY DEF ObservedIsWritten

LEMMA ObservedNext ==
  ASSUME TypeOK, ReporterSound, OperatorSound, ObservedIsWritten, [Next]_vars
  PROVE  ObservedIsWritten'
<1>0. timeline \in [AlertKeys -> [WrittenEvent -> Nat]] /\ "observed" \in EventType
  BY DEF TypeOK, EventType
<1>00. \A a \in AlertKeys : timeline[a]["observed"] \in Nat
  BY <1>0 DEF WrittenEvent, EventType
<1>1. ASSUME NEW r \in Reporters, NEW a \in AlertKeys, NEW severity \in Severity,
             Report(r, a, severity)
      PROVE  ObservedIsWritten'
  <2>1. rep[r].pc = "idle" /\ UNCHANGED <<timeline, faults>>
    BY <1>1 DEF Report
  <2> QED BY <1>1, <2>1, ObservedKept, ReportEffect, RowEffect DEF Others, OtherRows
<1>2. ASSUME NEW r \in Reporters, NEW a \in AlertKeys, Recover(r, a)
      PROVE  ObservedIsWritten'
  <2>1. /\ rep[r].pc = "idle" /\ UNCHANGED <<timeline, faults>>
        /\ row[a].status \in {"open", "acknowledged"}
    BY <1>2 DEF Recover
  <2> QED BY <1>2, <2>1, ObservedKept, RecoverEffect, RowEffect DEF Others, OtherRows
<1>3. ASSUME NEW r \in Reporters, InsertAlert(r)
      PROVE  ObservedIsWritten'
  <2>1. /\ rep[r].pc = "insert" /\ UNCHANGED <<timeline, faults>>
        /\ rep[r].alert \in AlertKeys /\ rep[r].event = "observed"
    BY <1>3 DEF InsertAlert, ReporterSound
  <2> QED BY <1>3, <2>1, ObservedKept, InsertEffect, RowEffect DEF Others, OtherRows, SameWork
<1>4. ASSUME NEW r \in Reporters, WriteEvent(r)
      PROVE  ObservedIsWritten'
  <2>1. rep[r].pc = "event" /\ UNCHANGED <<row, faults>>
    BY <1>4 DEF WriteEvent
  <2>2. rep[r].alert \in AlertKeys /\ row[rep[r].alert].status # "absent" /\ Others(r)
    BY <1>4, <2>1, WriteEffect DEF ReporterSound
  <2>3. \A b \in AlertKeys : timeline'[b]["observed"] =
            IF b = rep[r].alert /\ rep[r].event = "observed"
            THEN timeline[b]["observed"] + 1 ELSE timeline[b]["observed"]
    BY <1>0, <1>4, TimelineEffect, EventWritten
  <2> QED BY <1>00, <2>1, <2>2, <2>3 DEF ObservedIsWritten, Others
<1>5. ASSUME NEW r \in Reporters,
             \/ Evaluate(r) \/ NextPolicy(r) \/ CreateTicket(r) \/ TicketFails(r)
             \/ RecordAction(r) \/ ReporterAborts(r)
      PROVE  ObservedIsWritten'
  <2>0. UNCHANGED <<row, timeline>> /\ faults' \in {faults, faults + 1}
    BY <1>5 DEF Evaluate, NextPolicy, CreateTicket, TicketFails, RecordAction, ReporterAborts
  <2>1. UNCHANGED <<row, timeline>> /\ (faults' = 0 => faults = 0)
    BY <2>0 DEF TypeOK
  <2>2. CASE ReporterAborts(r)
    <3>1. faults' # 0
      BY <2>2 DEF ReporterAborts, TypeOK
    <3> QED BY <2>1, <3>1 DEF ObservedIsWritten
  <2>3. CASE ~ReporterAborts(r)
    <3>1. Others(r) /\ rep[r].pc # "event"
      BY <1>5, <2>3, EvaluateEffect, PolicyEffect, TicketEffect, TicketEndEffect
         DEF Evaluate, NextPolicy, CreateTicket, TicketFails, RecordAction
    <3> QED BY <2>1, <3>1, ObservedKept DEF Others
  <2> QED BY <2>2, <2>3
<1>6. ASSUME NEW r \in Reporters, NoteTicket(r)
      PROVE  ObservedIsWritten'
  <2>1. rep[r].pc = "note" /\ UNCHANGED <<row, faults>> /\ Others(r)
    BY <1>6, TicketEndEffect DEF NoteTicket
  <2>2. \A b \in AlertKeys : timeline'[b]["observed"] = timeline[b]["observed"]
    BY <1>0, <1>6, TimelineEffect, EventWritten DEF EventType
  <2> QED BY <2>1, <2>2 DEF ObservedIsWritten, Others
<1>7. ASSUME NEW o \in Operators, WriteStatusEvent(o)
      PROVE  ObservedIsWritten'
  <2>1. UNCHANGED <<row, rep, faults>>
    BY <1>7 DEF WriteStatusEvent
  <2>2. \A b \in AlertKeys : timeline'[b]["observed"] = timeline[b]["observed"]
    BY <1>0, <1>7, TimelineEffect, EventWritten DEF EventType
  <2> QED BY <2>1, <2>2 DEF ObservedIsWritten
<1>8. ASSUME NEW o \in Operators, NEW a \in AlertKeys, UpdateStatus(o, a)
      PROVE  ObservedIsWritten'
  <2>1. UNCHANGED <<timeline, rep, faults>> /\ op[o].target # "absent"
    BY <1>8 DEF UpdateStatus, TypeOK, Operator
  <2>2. \A b \in AlertKeys : row'[b].status = "absent" <=> row[b].status = "absent"
    BY <1>8, <2>1, RowEffect DEF OtherRows
  <2> QED BY <2>1, <2>2 DEF ObservedIsWritten
<1>9. CASE UNCHANGED <<row, timeline, rep>> /\ (faults' = 0 => faults = 0)
  BY <1>9 DEF ObservedIsWritten
<1>10. ASSUME \/ \E p \in Policies, a \in AlertKeys : WindowElapses(p, a)
              \/ \E o \in Operators, S \in SUBSET AlertKeys,
                    target \in {"acknowledged", "closed"} : StartBulk(o, S, target)
              \/ \E o \in Operators : FinishBulk(o) \/ OperatorAborts(o)
              \/ \E a \in AlertKeys, mode \in Modes : Remediate(a, mode)
              \/ UNCHANGED vars
       PROVE  ObservedIsWritten'
  BY <1>9, <1>10 DEF WindowElapses, StartBulk, FinishBulk, OperatorAborts, Remediate, vars,
                     InsertEvent, EventType, TypeOK
<1>11. ASSUME NEW r \in Reporters, ReporterStep(r) \/ ReporterAborts(r)
       PROVE  ObservedIsWritten'
  BY <1>3, <1>4, <1>5, <1>6, <1>11 DEF ReporterStep
<1>12. ASSUME NEW o \in Operators, OperatorStep(o) \/ OperatorAborts(o)
       PROVE  ObservedIsWritten'
  BY <1>7, <1>8, <1>10, <1>12 DEF OperatorStep
<1> QED BY <1>1, <1>2, <1>10, <1>11, <1>12 DEF Next

-----------------------------------------------------------------------------
(* Counting handlers *)

\* Two sets of handlers that agree on all but one of them.
LEMMA OneMoves ==
  ASSUME NEW S, IsFiniteSet(S), NEW T \in SUBSET S, NEW U \in SUBSET S, NEW x \in S,
         \A y \in S \ {x} : y \in T <=> y \in U
  PROVE  /\ Cardinality(T) \in Nat /\ Cardinality(U) \in Nat
         /\ Cardinality(U) + (IF x \in T THEN 1 ELSE 0)
              = Cardinality(T) + (IF x \in U THEN 1 ELSE 0)
<1>1. IsFiniteSet(T) /\ IsFiniteSet(U)
  BY FS_Subset
<1>2. T \ {x} = U \ {x}
  OBVIOUS
<1>3. /\ Cardinality(T) \in Nat /\ Cardinality(U) \in Nat
      /\ Cardinality(T \ {x}) = IF x \in T THEN Cardinality(T) - 1 ELSE Cardinality(T)
      /\ Cardinality(U \ {x}) = IF x \in U THEN Cardinality(U) - 1 ELSE Cardinality(U)
  BY <1>1, FS_CardinalityType, FS_RemoveElement
<1> QED BY <1>2, <1>3

\* A step that changes reporter r alone counts it in or out of each set.
LEMMA ReporterCounts ==
  ASSUME NEW r \in Reporters, Others(r), NEW a \in AlertKeys
  PROVE  /\ Cardinality(Recovering(a)) \in Nat /\ Cardinality(Recovering(a))' \in Nat
         /\ Cardinality(Reopening(a)) \in Nat /\ Cardinality(Reopening(a))' \in Nat
         /\ Cardinality(Recovering(a))' + (IF r \in Recovering(a) THEN 1 ELSE 0)
              = Cardinality(Recovering(a)) + (IF r \in Recovering(a)' THEN 1 ELSE 0)
         /\ Cardinality(Reopening(a))' + (IF r \in Reopening(a) THEN 1 ELSE 0)
              = Cardinality(Reopening(a)) + (IF r \in Reopening(a)' THEN 1 ELSE 0)
<1>1. /\ Recovering(a) \in SUBSET Reporters /\ Recovering(a)' \in SUBSET Reporters
      /\ \A q \in Reporters \ {r} : q \in Recovering(a) <=> q \in Recovering(a)'
  BY DEF Recovering, Others
<1>2. /\ Reopening(a) \in SUBSET Reporters /\ Reopening(a)' \in SUBSET Reporters
      /\ \A q \in Reporters \ {r} : q \in Reopening(a) <=> q \in Reopening(a)'
  BY DEF Reopening, Others
<1>3. /\ Cardinality(Recovering(a)) \in Nat /\ Cardinality(Recovering(a)') \in Nat
      /\ Cardinality(Recovering(a)') + (IF r \in Recovering(a) THEN 1 ELSE 0)
              = Cardinality(Recovering(a)) + (IF r \in Recovering(a)' THEN 1 ELSE 0)
  BY <1>1, OneMoves
<1>4. /\ Cardinality(Reopening(a)) \in Nat /\ Cardinality(Reopening(a)') \in Nat
      /\ Cardinality(Reopening(a)') + (IF r \in Reopening(a) THEN 1 ELSE 0)
              = Cardinality(Reopening(a)) + (IF r \in Reopening(a)' THEN 1 ELSE 0)
  BY <1>2, OneMoves
<1> QED BY <1>3, <1>4

LEMMA DecidingCounts ==
  ASSUME NEW o \in Operators, \A q \in Operators \ {o} : op'[q] = op[q], NEW a \in AlertKeys
  PROVE  /\ Cardinality(Deciding(a)) \in Nat /\ Cardinality(Deciding(a))' \in Nat
         /\ Cardinality(Deciding(a))' + (IF o \in Deciding(a) THEN 1 ELSE 0)
              = Cardinality(Deciding(a)) + (IF o \in Deciding(a)' THEN 1 ELSE 0)
<1>1. /\ Deciding(a) \in SUBSET Operators /\ Deciding(a)' \in SUBSET Operators
      /\ \A q \in Operators \ {o} : q \in Deciding(a) <=> q \in Deciding(a)'
  BY DEF Deciding
<1> QED BY <1>1, OneMoves

-----------------------------------------------------------------------------
(* Events and reopenings balance *)

Ended(a) == timeline[a]["acknowledged"] + timeline[a]["closed"]
              + Cardinality(Recovering(a)) + Cardinality(Deciding(a))
Left(a) == IF row[a].status \in {"acknowledged", "closed"} THEN 1 ELSE 0
Balanced(a) == Ended(a) >= timeline[a]["reopened"] + Cardinality(Reopening(a)) + Left(a)

LEMMA BalanceByAlert ==
  EventsBalance <=> (faults = 0 => \A a \in AlertKeys : Balanced(a))
  BY DEF EventsBalance, Balanced, Ended, Left

LEMMA BalanceTypes ==
  ASSUME TypeOK, NEW a \in AlertKeys
  PROVE  /\ timeline[a]["acknowledged"] \in Nat /\ timeline[a]["closed"] \in Nat
         /\ timeline[a]["reopened"] \in Nat
         /\ Cardinality(Recovering(a)) \in Nat /\ Cardinality(Reopening(a)) \in Nat
         /\ Cardinality(Deciding(a)) \in Nat
<1>1. timeline[a] \in [WrittenEvent -> Nat]
  BY DEF TypeOK
<1>2. /\ Recovering(a) \in SUBSET Reporters /\ Reopening(a) \in SUBSET Reporters
      /\ Deciding(a) \in SUBSET Operators
  BY DEF Recovering, Reopening, Deciding
<1>3. IsFiniteSet(Recovering(a)) /\ IsFiniteSet(Reopening(a)) /\ IsFiniteSet(Deciding(a))
  BY <1>2, FS_Subset
<1> QED BY <1>1, <1>3, FS_CardinalityType DEF WrittenEvent, EventType

\* The steps of a reporter: what its event was counts on one side, what it is
\* afterwards on the other, and the timeline takes up what it wrote.
LEMMA ReporterBalance ==
  ASSUME TypeOK, NEW r \in Reporters, Others(r), UNCHANGED op, NEW a \in AlertKeys, Balanced(a),
         timeline'[a]["acknowledged"] = timeline[a]["acknowledged"],
         timeline'[a]["closed"] =
            timeline[a]["closed"] + (IF r \in Recovering(a) THEN 1 ELSE 0),
         timeline'[a]["reopened"] =
            timeline[a]["reopened"] + (IF r \in Reopening(a) THEN 1 ELSE 0),
         Left(a)' + (IF r \in Reopening(a)' THEN 1 ELSE 0)
            <= Left(a) + (IF r \in Recovering(a)' THEN 1 ELSE 0)
  PROVE  Balanced(a)'
<1>1. Deciding(a)' = Deciding(a)
  BY DEF Deciding
<1>2. Cardinality(Deciding(a))' = Cardinality(Deciding(a))
  BY <1>1
<1>3. Left(a) \in {0, 1} /\ Left(a)' \in {0, 1}
  BY DEF Left
<1> DEFINE wasRecovering == IF r \in Recovering(a) THEN 1 ELSE 0
           wasReopening == IF r \in Reopening(a) THEN 1 ELSE 0
           isRecovering == IF r \in Recovering(a)' THEN 1 ELSE 0
           isReopening == IF r \in Reopening(a)' THEN 1 ELSE 0
<1>4. wasRecovering \in {0, 1} /\ wasReopening \in {0, 1}
      /\ isRecovering \in {0, 1} /\ isReopening \in {0, 1}
  OBVIOUS
<1>5. /\ timeline'[a]["closed"] = timeline[a]["closed"] + wasRecovering
      /\ timeline'[a]["reopened"] = timeline[a]["reopened"] + wasReopening
      /\ Left(a)' + isReopening <= Left(a) + isRecovering
      /\ Cardinality(Recovering(a))' + wasRecovering = Cardinality(Recovering(a)) + isRecovering
      /\ Cardinality(Reopening(a))' + wasReopening = Cardinality(Reopening(a)) + isReopening
      /\ Cardinality(Recovering(a))' \in Nat /\ Cardinality(Reopening(a))' \in Nat
  BY ReporterCounts
<1> HIDE DEF wasRecovering, wasReopening, isRecovering, isReopening
<1> QED BY <1>2, <1>3, <1>4, <1>5, BalanceTypes DEF Balanced, Ended

\* The same for an operator's handler.
LEMMA OperatorBalance ==
  ASSUME TypeOK, NEW o \in Operators, \A q \in Operators \ {o} : op'[q] = op[q],
         UNCHANGED rep, NEW a \in AlertKeys, Balanced(a),
         timeline'[a]["reopened"] = timeline[a]["reopened"],
         timeline'[a]["acknowledged"] + timeline'[a]["closed"] =
            timeline[a]["acknowledged"] + timeline[a]["closed"]
              + (IF o \in Deciding(a) THEN 1 ELSE 0),
         Left(a)' <= Left(a) + (IF o \in Deciding(a)' THEN 1 ELSE 0)
  PROVE  Balanced(a)'
<1>1. Recovering(a)' = Recovering(a) /\ Reopening(a)' = Reopening(a)
  BY DEF Recovering, Reopening
<1>2. /\ Cardinality(Recovering(a))' = Cardinality(Recovering(a))
      /\ Cardinality(Reopening(a))' = Cardinality(Reopening(a))
  BY <1>1
<1>3. Left(a) \in {0, 1} /\ Left(a)' \in {0, 1}
  BY DEF Left
<1> DEFINE was == IF o \in Deciding(a) THEN 1 ELSE 0
           is == IF o \in Deciding(a)' THEN 1 ELSE 0
           ended == timeline'[a]["acknowledged"] + timeline'[a]["closed"]
<1>4. was \in {0, 1} /\ is \in {0, 1}
  OBVIOUS
<1>5. /\ ended = timeline[a]["acknowledged"] + timeline[a]["closed"] + was
      /\ Left(a)' <= Left(a) + is
      /\ Cardinality(Deciding(a))' + was = Cardinality(Deciding(a)) + is
      /\ Cardinality(Deciding(a))' \in Nat
  BY DecidingCounts
<1>6. Ended(a)' = ended + Cardinality(Recovering(a))' + Cardinality(Deciding(a))'
  BY DEF Ended
<1> HIDE DEF was, is, ended
<1> QED BY <1>2, <1>3, <1>4, <1>5, <1>6, BalanceTypes DEF Balanced, Ended

\* A step that neither writes nor starts an event, and no status that counts.
LEMMA BalanceKept ==
  ASSUME EventsBalance, faults' = 0 => faults = 0, UNCHANGED <<timeline, rep, op>>,
         \A a \in AlertKeys : row'[a].status = row[a].status
  PROVE  EventsBalance'
<1>1. \A a \in AlertKeys :
        /\ Recovering(a)' = Recovering(a) /\ Reopening(a)' = Reopening(a)
        /\ Deciding(a)' = Deciding(a) /\ Left(a)' = Left(a)
  BY DEF Recovering, Reopening, Deciding, Left
<1>2. \A a \in AlertKeys : Balanced(a) => Balanced(a)'
  BY <1>1 DEF Balanced, Ended
<1> QED BY <1>2, BalanceByAlert DEF EventsBalance, Balanced, Ended, Left

LEMMA BalanceNext ==
  ASSUME TypeOK, ReporterSound, OperatorSound, EventsBalance, [Next]_vars
  PROVE  EventsBalance'
<1>0. \A a \in AlertKeys :
        /\ timeline[a]["acknowledged"] \in Nat /\ timeline[a]["closed"] \in Nat
        /\ timeline[a]["reopened"] \in Nat
  BY BalanceTypes
<1>1. ASSUME faults = 0, \A a \in AlertKeys : Balanced(a) => Balanced(a)'
      PROVE  EventsBalance'
  BY <1>1 DEF EventsBalance, Balanced, Ended, Left
<1>2. ASSUME faults = 0, NEW r \in Reporters, Others(r), UNCHANGED <<op, timeline>>,
             \A a \in AlertKeys :
                /\ r \notin Recovering(a) /\ r \notin Reopening(a)
                /\ Left(a)' + (IF r \in Reopening(a)' THEN 1 ELSE 0)
                     <= Left(a) + (IF r \in Recovering(a)' THEN 1 ELSE 0)
      PROVE  EventsBalance'
  <2>1. ASSUME NEW a \in AlertKeys, Balanced(a)
        PROVE  Balanced(a)'
    <3>1. /\ timeline'[a]["acknowledged"] = timeline[a]["acknowledged"]
          /\ timeline'[a]["closed"] =
               timeline[a]["closed"] + (IF r \in Recovering(a) THEN 1 ELSE 0)
          /\ timeline'[a]["reopened"] =
               timeline[a]["reopened"] + (IF r \in Reopening(a) THEN 1 ELSE 0)
      BY <1>0, <1>2
    <3> QED BY <1>2, <2>1, <3>1, ReporterBalance
  <2> QED BY <1>1, <1>2, <2>1
<1>3. ASSUME faults = 0, NEW r \in Reporters, NEW a \in AlertKeys, NEW severity \in Severity,
             Report(r, a, severity)
      PROVE  EventsBalance'
  <2>1. rep[r].pc = "idle" /\ UNCHANGED <<op, timeline>>
    BY <1>3 DEF Report
  <2>2. Others(r)
    BY <1>3, ReportEffect
  <2>3. \A b \in AlertKeys : /\ r \notin Recovering(b) /\ r \notin Reopening(b)
                             /\ r \notin Recovering(b)'
    BY <1>3, <2>1, ReportEffect DEF Recovering, Reopening
  <2>4. \A b \in AlertKeys : r \in Reopening(b)' =>
            Left(b) = 1 /\ Left(b)' = 0
    BY <1>3, ReportEffect, RowEffect DEF Reopening, Left, TypeOK, Row
  <2>5. \A b \in AlertKeys : Left(b)' <= Left(b)
    BY <1>3, RowEffect DEF Left, OtherRows
  <2>6. ASSUME NEW b \in AlertKeys
        PROVE  Left(b)' + (IF r \in Reopening(b)' THEN 1 ELSE 0)
                 <= Left(b) + (IF r \in Recovering(b)' THEN 1 ELSE 0)
    <3>1. Left(b) \in {0, 1} /\ Left(b)' \in {0, 1}
      BY DEF Left
    <3> QED BY <2>3, <2>4, <2>5, <3>1
  <2> QED BY <1>2, <1>3, <2>1, <2>2, <2>3, <2>6
<1>4. ASSUME faults = 0, NEW r \in Reporters, NEW a \in AlertKeys, Recover(r, a)
      PROVE  EventsBalance'
  <2>1. rep[r].pc = "idle" /\ UNCHANGED <<op, timeline>> /\ Others(r)
    BY <1>4, RecoverEffect DEF Recover
  <2>2. \A b \in AlertKeys : /\ r \notin Recovering(b) /\ r \notin Reopening(b)
                             /\ r \notin Reopening(b)'
                             /\ r \in Recovering(b)' <=> b = a
    BY <1>4, <2>1, RecoverEffect DEF Recovering, Reopening
  <2>3. \A b \in AlertKeys : Left(b)' <= Left(b) + (IF b = a THEN 1 ELSE 0)
    BY <1>4, RowEffect DEF Left, OtherRows
  <2>4. ASSUME NEW b \in AlertKeys
        PROVE  Left(b)' + (IF r \in Reopening(b)' THEN 1 ELSE 0)
                 <= Left(b) + (IF r \in Recovering(b)' THEN 1 ELSE 0)
    <3>1. Left(b) \in {0, 1} /\ Left(b)' \in {0, 1}
      BY DEF Left
    <3> QED BY <2>2, <2>3, <3>1
  <2> QED BY <1>2, <1>4, <2>1, <2>2, <2>4
<1>5. ASSUME faults = 0, NEW r \in Reporters, InsertAlert(r)
      PROVE  EventsBalance'
  <2>1. /\ rep[r].pc = "insert" /\ rep[r].event = "observed" /\ rep[r].alert \in AlertKeys
        /\ UNCHANGED <<op, timeline>> /\ Others(r)
    BY <1>5, InsertEffect DEF InsertAlert, ReporterSound
  <2>2. \A b \in AlertKeys : /\ r \notin Recovering(b) /\ r \notin Reopening(b)
                             /\ r \notin Reopening(b)' /\ r \notin Recovering(b)'
    BY <1>5, <2>1, InsertEffect, IdleType DEF Recovering, Reopening, SameWork
  <2>3. \A b \in AlertKeys : Left(b)' <= Left(b)
    BY <1>5, <2>1, RowEffect DEF Left, OtherRows
  <2> QED BY <1>2, <1>5, <2>1, <2>2, <2>3 DEF Left
<1>6. ASSUME faults = 0, NEW r \in Reporters, WriteEvent(r)
      PROVE  EventsBalance'
  <2>1. /\ rep[r].pc = "event" /\ rep[r].alert \in AlertKeys /\ rep[r].event \in EventType
        /\ rep[r].event \in {"closed", "reopened", "observed"}
        /\ UNCHANGED <<op, row>> /\ Others(r)
    BY <1>6, WriteEffect, TimelineEffect DEF WriteEvent, ReporterSound
  <2>2. rep'[r].pc \in {"idle", "evaluate"}
    BY <1>6, WriteEffect, IdleType
  <2>3. ASSUME NEW a \in AlertKeys, Balanced(a)
        PROVE  Balanced(a)'
    <3>1. \A e \in EventType : timeline'[a][e] =
            IF a = rep[r].alert /\ e = rep[r].event THEN timeline[a][e] + 1 ELSE timeline[a][e]
      BY <1>6, <2>1, TimelineEffect, EventWritten
    <3>2. /\ r \in Recovering(a) <=> a = rep[r].alert /\ rep[r].event = "closed"
          /\ r \in Reopening(a) <=> a = rep[r].alert /\ rep[r].event = "reopened"
          /\ r \notin Recovering(a)' /\ r \notin Reopening(a)'
          /\ Left(a)' = Left(a)
      BY <2>1, <2>2 DEF Recovering, Reopening, Left
    <3>3. {"acknowledged", "closed", "reopened"} \subseteq EventType
      BY DEF EventType
    <3>4. /\ timeline'[a]["acknowledged"] = timeline[a]["acknowledged"]
          /\ timeline'[a]["closed"] =
               timeline[a]["closed"] + (IF r \in Recovering(a) THEN 1 ELSE 0)
          /\ timeline'[a]["reopened"] =
               timeline[a]["reopened"] + (IF r \in Reopening(a) THEN 1 ELSE 0)
      BY <1>0, <2>1, <3>1, <3>2, <3>3
    <3>5. Left(a)' + (IF r \in Reopening(a)' THEN 1 ELSE 0)
            <= Left(a) + (IF r \in Recovering(a)' THEN 1 ELSE 0)
      BY <3>2 DEF Left
    <3> QED BY <2>1, <2>3, <3>4, <3>5, ReporterBalance
  <2> QED BY <1>1, <1>6, <2>3
<1>7. ASSUME faults = 0, NEW r \in Reporters,
             Evaluate(r) \/ NextPolicy(r) \/ CreateTicket(r) \/ RecordAction(r)
      PROVE  EventsBalance'
  <2>1. UNCHANGED <<row, op, timeline>> /\ rep[r].pc # "event"
    BY <1>7 DEF Evaluate, NextPolicy, CreateTicket, RecordAction
  <2>2. Others(r) /\ rep'[r].pc # "event"
    BY <1>7, EvaluateEffect, PolicyEffect, TicketEffect, IdleType
  <2>3. \A b \in AlertKeys : /\ r \notin Recovering(b) /\ r \notin Reopening(b)
                             /\ r \notin Reopening(b)' /\ r \notin Recovering(b)'
                             /\ Left(b)' = Left(b)
    BY <2>1, <2>2 DEF Recovering, Reopening, Left
  <2> QED BY <1>2, <1>7, <2>1, <2>2, <2>3 DEF Left
<1>8. ASSUME faults = 0, NEW r \in Reporters, NoteTicket(r)
      PROVE  EventsBalance'
  <2>1. /\ UNCHANGED <<row, op>> /\ rep[r].pc = "note" /\ Others(r) /\ rep'[r].pc # "event"
        /\ rep[r].alert \in AlertKeys
    BY <1>8, TicketEndEffect, TimelineEffect DEF NoteTicket
  <2>2. ASSUME NEW a \in AlertKeys, Balanced(a)
        PROVE  Balanced(a)'
    <3>1. /\ r \notin Recovering(a) /\ r \notin Reopening(a)
          /\ r \notin Reopening(a)' /\ r \notin Recovering(a)' /\ Left(a)' = Left(a)
      BY <2>1 DEF Recovering, Reopening, Left
    <3>2. \A e \in {"acknowledged", "closed", "reopened"} : timeline'[a][e] = timeline[a][e]
      BY <1>8, <2>1, TimelineEffect, EventWritten DEF EventType
    <3>3. /\ timeline'[a]["closed"] =
               timeline[a]["closed"] + (IF r \in Recovering(a) THEN 1 ELSE 0)
          /\ timeline'[a]["reopened"] =
               timeline[a]["reopened"] + (IF r \in Reopening(a) THEN 1 ELSE 0)
          /\ Left(a)' + (IF r \in Reopening(a)' THEN 1 ELSE 0)
               <= Left(a) + (IF r \in Recovering(a)' THEN 1 ELSE 0)
      BY <1>0, <3>1, <3>2 DEF Left
    <3> QED BY <2>1, <2>2, <3>2, <3>3, ReporterBalance
  <2> QED BY <1>1, <1>8, <2>2
<1>9. ASSUME faults = 0, NEW o \in Operators, NEW a \in AlertKeys, UpdateStatus(o, a)
      PROVE  EventsBalance'
  <2>1. /\ op[o].pc = "update" /\ op[o].target \in {"acknowledged", "closed"}
        /\ UNCHANGED <<rep, timeline>> /\ op[o] \in Operator
    BY <1>9 DEF UpdateStatus, TypeOK, Operator
  <2>2. /\ \A q \in Operators \ {o} : op'[q] = op[q]
        /\ row[a].status \in {"open", "acknowledged"} =>
             op'[o].pc = "event" /\ op'[o].alert = a
        /\ row[a].status \notin {"open", "acknowledged"} => op'[o].pc = "update"
    <3>1. CASE row[a].status \in {"open", "acknowledged"}
      <4> DEFINE v == [op[o] EXCEPT !.pc = "event", !.alert = a, !.todo = op[o].todo \ {a}]
      <4>1. v.pc = "event" /\ v.alert = a
        BY <2>1 DEF Operator
      <4>2. op' = [op EXCEPT ![o] = v]
        BY <1>9, <3>1 DEF UpdateStatus
      <4> HIDE DEF v
      <4> QED BY <3>1, <4>1, <4>2 DEF TypeOK
    <3>2. CASE row[a].status \notin {"open", "acknowledged"}
      <4> DEFINE v == [op[o] EXCEPT !.todo = op[o].todo \ {a}]
      <4>1. v.pc = "update"
        BY <2>1 DEF Operator
      <4>2. op' = [op EXCEPT ![o] = v]
        BY <1>9, <3>2 DEF UpdateStatus
      <4> HIDE DEF v
      <4> QED BY <3>2, <4>1, <4>2 DEF TypeOK
    <3> QED BY <3>1, <3>2
  <2>3. \A b \in AlertKeys : /\ o \notin Deciding(b)
                             /\ Left(b)' <= Left(b) + (IF o \in Deciding(b)' THEN 1 ELSE 0)
    BY <1>9, <2>1, <2>2, RowEffect DEF Deciding, Left, OtherRows
  <2>4. ASSUME NEW b \in AlertKeys, Balanced(b)
        PROVE  Balanced(b)'
    <3>1. timeline'[b]["acknowledged"] + timeline'[b]["closed"] =
            timeline[b]["acknowledged"] + timeline[b]["closed"]
              + (IF o \in Deciding(b) THEN 1 ELSE 0)
      BY <1>0, <2>1, <2>3
    <3>2. timeline'[b]["reopened"] = timeline[b]["reopened"]
      BY <2>1
    <3> QED BY <2>1, <2>2, <2>3, <2>4, <3>1, <3>2, OperatorBalance
  <2> QED BY <1>1, <1>9, <2>4
<1>10. ASSUME faults = 0, NEW o \in Operators, WriteStatusEvent(o)
       PROVE  EventsBalance'
  <2>1. /\ op[o].pc = "event" /\ op[o].alert \in AlertKeys
        /\ op[o].target \in {"acknowledged", "closed"}
        /\ UNCHANGED <<rep, row>> /\ op[o] \in Operator
    BY <1>10, TimelineEffect DEF WriteStatusEvent, TypeOK
  <2>2. (\A q \in Operators \ {o} : op'[q] = op[q]) /\ op'[o].pc = "update"
    <3> DEFINE v == [op[o] EXCEPT !.pc = "update", !.alert = NoAlert]
    <3>1. v.pc = "update"
      BY <2>1 DEF Operator
    <3>2. op' = [op EXCEPT ![o] = v]
      BY <1>10 DEF WriteStatusEvent
    <3> HIDE DEF v
    <3> QED BY <3>1, <3>2 DEF TypeOK
  <2>3. ASSUME NEW a \in AlertKeys, Balanced(a)
        PROVE  Balanced(a)'
    <3>1. op[o].target \in EventType /\ {"acknowledged", "closed", "reopened"} \subseteq EventType
      BY <2>1 DEF EventType
    <3>2. \A e \in EventType : timeline'[a][e] =
            IF a = op[o].alert /\ e = op[o].target THEN timeline[a][e] + 1 ELSE timeline[a][e]
      BY <1>10, <2>1, <3>1, TimelineEffect, EventWritten
    <3>3. (o \in Deciding(a) <=> a = op[o].alert) /\ Left(a)' = Left(a) /\ o \notin Deciding(a)'
      BY <2>1, <2>2 DEF Deciding, Left
    <3>4. /\ timeline'[a]["reopened"] = timeline[a]["reopened"]
          /\ timeline'[a]["acknowledged"] + timeline'[a]["closed"] =
               timeline[a]["acknowledged"] + timeline[a]["closed"]
                 + (IF o \in Deciding(a) THEN 1 ELSE 0)
      BY <1>0, <2>1, <3>1, <3>2, <3>3
    <3>5. Left(a)' <= Left(a) + (IF o \in Deciding(a)' THEN 1 ELSE 0)
      BY <3>3 DEF Left
    <3> QED BY <2>1, <2>2, <2>3, <3>4, <3>5, OperatorBalance
  <2> QED BY <1>1, <1>10, <2>3
<1>11. ASSUME faults = 0, NEW o \in Operators, op[o].pc # "event", op'[o].pc # "event",
              \A q \in Operators \ {o} : op'[q] = op[q], UNCHANGED <<row, timeline, rep>>
       PROVE  EventsBalance'
  <2>1. ASSUME NEW a \in AlertKeys, Balanced(a)
        PROVE  Balanced(a)'
    <3>1. o \notin Deciding(a) /\ o \notin Deciding(a)' /\ Left(a)' = Left(a)
      BY <1>11 DEF Deciding, Left
    <3>2. /\ timeline'[a]["acknowledged"] + timeline'[a]["closed"] =
               timeline[a]["acknowledged"] + timeline[a]["closed"]
                 + (IF o \in Deciding(a) THEN 1 ELSE 0)
          /\ Left(a)' <= Left(a) + (IF o \in Deciding(a)' THEN 1 ELSE 0)
      BY <1>0, <1>11, <3>1 DEF Left
    <3> QED BY <1>11, <2>1, <3>2, OperatorBalance
  <2> QED BY <1>1, <1>11, <2>1
<1>12. ASSUME faults = 0, NEW o \in Operators,
              \/ \E S \in SUBSET AlertKeys, target \in {"acknowledged", "closed"} :
                   StartBulk(o, S, target)
              \/ FinishBulk(o)
       PROVE  EventsBalance'
  <2>1. op[o].pc # "event" /\ UNCHANGED <<row, timeline, rep>>
    BY <1>12 DEF StartBulk, FinishBulk
  <2>2. op'[o].pc # "event" /\ \A q \in Operators \ {o} : op'[q] = op[q]
    BY <1>12 DEF StartBulk, FinishBulk, TypeOK, IdleOperator
  <2> QED BY <1>11, <1>12, <2>1, <2>2
<1>13. CASE faults' = faults + 1
  BY <1>13 DEF TypeOK, EventsBalance
<1>14. CASE UNCHANGED <<row, timeline, rep, op, faults>>
  BY <1>14, BalanceKept
<1>15. ASSUME \/ \E p \in Policies, a \in AlertKeys : WindowElapses(p, a)
              \/ \E a \in AlertKeys, mode \in Modes : Remediate(a, mode)
              \/ UNCHANGED vars
       PROVE  EventsBalance'
  BY <1>14, <1>15 DEF WindowElapses, Remediate, InsertEvent, EventType, vars
<1>16. ASSUME NEW r \in Reporters, ReporterStep(r) \/ ReporterAborts(r), faults = 0
       PROVE  EventsBalance'
  <2>1. CASE TicketFails(r) \/ ReporterAborts(r)
    BY <1>13, <2>1 DEF TicketFails, ReporterAborts
  <2> QED BY <1>5, <1>6, <1>7, <1>8, <1>16, <2>1 DEF ReporterStep
<1>17. ASSUME NEW o \in Operators, OperatorStep(o) \/ OperatorAborts(o), faults = 0
       PROVE  EventsBalance'
  <2>1. CASE OperatorAborts(o)
    BY <1>13, <2>1 DEF OperatorAborts
  <2> QED BY <1>9, <1>10, <1>12, <1>17, <2>1 DEF OperatorStep
<1>18. CASE faults # 0
  <2>1. faults' \in {faults, faults + 1}
    BY DEF Next, Report, Recover, ReporterStep, InsertAlert, WriteEvent, Evaluate, NextPolicy,
           CreateTicket, TicketFails, RecordAction, NoteTicket, ReporterAborts, WindowElapses,
           StartBulk, OperatorStep, UpdateStatus, WriteStatusEvent, FinishBulk, OperatorAborts,
           Remediate, vars
  <2> QED BY <1>18, <2>1 DEF TypeOK, EventsBalance
<1> QED BY <1>3, <1>4, <1>12, <1>15, <1>16, <1>17, <1>18 DEF Next

-----------------------------------------------------------------------------
(* The dedup window *)

LEMMA WindowTypes ==
  ASSUME TypeOK, NEW p \in Policies, NEW a \in AlertKeys
  PROVE  /\ tickets[p][a] \in Nat /\ faults \in Nat
         /\ Cardinality(Ticketing(p, a)) \in Nat /\ Cardinality(Recording(p, a)) \in Nat
         /\ Cardinality(Ticketing(p, a)) + Cardinality(Recording(p, a)) <= Cardinality(Reporters)
         /\ Cardinality(Reporters) \in Nat
<1> DEFINE T == Ticketing(p, a)
           R == Recording(p, a)
<1>1. T \in SUBSET Reporters /\ R \in SUBSET Reporters /\ T \cap R = {}
  BY DEF Ticketing, Recording
<1>2. tickets[p][a] \in Nat /\ faults \in Nat
  BY DEF TypeOK
<1> HIDE DEF T, R
<1>3. IsFiniteSet(T) /\ IsFiniteSet(R) /\ T \cup R \in SUBSET Reporters
  BY <1>1, FS_Subset
<1>4. /\ Cardinality(T) \in Nat /\ Cardinality(R) \in Nat /\ Cardinality(Reporters) \in Nat
      /\ Cardinality({}) = 0
  BY <1>3, FS_CardinalityType, FS_EmptySet
<1>5. Cardinality(T \cup R) = Cardinality(T) + Cardinality(R) - Cardinality(T \cap R)
  BY <1>3, FS_Union
<1>6. Cardinality(T \cup R) <= Cardinality(Reporters)
  BY <1>3, FS_Subset
<1>7. Cardinality(T \cap R) = 0
  BY <1>1, <1>4
<1>8. Cardinality(T) + Cardinality(R) <= Cardinality(Reporters)
  BY <1>4, <1>5, <1>6, <1>7
<1> QED BY <1>2, <1>4, <1>8 DEF T, R

LEMMA WindowCounts ==
  ASSUME NEW r \in Reporters, Others(r), NEW p \in Policies, NEW a \in AlertKeys
  PROVE  /\ Cardinality(Ticketing(p, a))' \in Nat /\ Cardinality(Recording(p, a))' \in Nat
         /\ Cardinality(Ticketing(p, a))' + (IF r \in Ticketing(p, a) THEN 1 ELSE 0)
              = Cardinality(Ticketing(p, a)) + (IF r \in Ticketing(p, a)' THEN 1 ELSE 0)
         /\ Cardinality(Recording(p, a))' + (IF r \in Recording(p, a) THEN 1 ELSE 0)
              = Cardinality(Recording(p, a)) + (IF r \in Recording(p, a)' THEN 1 ELSE 0)
<1>1. /\ Ticketing(p, a) \in SUBSET Reporters /\ Ticketing(p, a)' \in SUBSET Reporters
      /\ \A q \in Reporters \ {r} : q \in Ticketing(p, a) <=> q \in Ticketing(p, a)'
  BY DEF Ticketing, Others
<1>2. /\ Recording(p, a) \in SUBSET Reporters /\ Recording(p, a)' \in SUBSET Reporters
      /\ \A q \in Reporters \ {r} : q \in Recording(p, a) <=> q \in Recording(p, a)'
  BY DEF Recording, Others
<1>3. /\ Cardinality(Ticketing(p, a)') \in Nat
      /\ Cardinality(Ticketing(p, a)') + (IF r \in Ticketing(p, a) THEN 1 ELSE 0)
              = Cardinality(Ticketing(p, a)) + (IF r \in Ticketing(p, a)' THEN 1 ELSE 0)
  BY <1>1, OneMoves
<1>4. /\ Cardinality(Recording(p, a)') \in Nat
      /\ Cardinality(Recording(p, a)') + (IF r \in Recording(p, a) THEN 1 ELSE 0)
              = Cardinality(Recording(p, a)) + (IF r \in Recording(p, a)' THEN 1 ELSE 0)
  BY <1>2, OneMoves
<1> QED BY <1>3, <1>4

Shared(p, a) ==
    IF lastAction[p][a] = "recent"
    THEN tickets[p][a] + Cardinality(Ticketing(p, a)) <= Cardinality(Reporters) + faults
    ELSE tickets[p][a] <= Cardinality(Recording(p, a)) + faults

\* A reporter that neither leaves nor joins the two sets, or leaves one by a fault,
\* or joins the first while the window is not running.
LEMMA WindowKept ==
  ASSUME TypeOK, NEW r \in Reporters, Others(r), UNCHANGED <<tickets, lastAction>>,
         NEW p \in Policies, NEW a \in AlertKeys, Shared(p, a), faults' \in Nat,
         faults' >= faults + (IF r \in Recording(p, a) THEN 1 ELSE 0),
         r \in Ticketing(p, a)' => lastAction[p][a] # "recent"
  PROVE  Shared(p, a)'
<1> DEFINE was == IF r \in Recording(p, a) THEN 1 ELSE 0
           is == IF r \in Recording(p, a)' THEN 1 ELSE 0
<1>1. was \in {0, 1} /\ is \in {0, 1} /\ faults' >= faults + was
  OBVIOUS
<1>2. CASE lastAction[p][a] = "recent"
  <2>1. r \notin Ticketing(p, a)'
    BY <1>2
  <2>2. Cardinality(Ticketing(p, a))' <= Cardinality(Ticketing(p, a))
    BY <2>1, WindowCounts, WindowTypes
  <2>3. tickets[p][a] + Cardinality(Ticketing(p, a)) <= Cardinality(Reporters) + faults
    BY <1>2 DEF Shared
  <2>4. faults' >= faults /\ Cardinality(Ticketing(p, a))' \in Nat
    BY <1>1, WindowTypes, WindowCounts
  <2>5. tickets'[p][a] + Cardinality(Ticketing(p, a))' <= Cardinality(Reporters) + faults'
    BY <2>2, <2>3, <2>4, WindowTypes
  <2> QED BY <1>2, <2>5 DEF Shared
<1>3. CASE lastAction[p][a] # "recent"
  <2>1. Cardinality(Recording(p, a))' + was = Cardinality(Recording(p, a)) + is
    BY WindowCounts
  <2>2. tickets[p][a] <= Cardinality(Recording(p, a)) + faults
    BY <1>3 DEF Shared
  <2>3. Cardinality(Recording(p, a))' \in Nat
    BY WindowCounts
  <2> HIDE DEF was, is
  <2>4. tickets'[p][a] <= Cardinality(Recording(p, a))' + faults'
    BY <1>1, <2>1, <2>2, <2>3, WindowTypes
  <2> QED BY <1>3, <2>4 DEF Shared
<1> QED BY <1>2, <1>3

LEMMA WindowNext ==
  ASSUME TypeOK, ReporterSound, WindowIsShared, [Next]_vars
  PROVE  WindowIsShared'
<1>0. WindowIsShared <=> \A p \in Policies, a \in AlertKeys : Shared(p, a)
  BY DEF WindowIsShared, Shared
<1>00. (\A p \in Policies, a \in AlertKeys : Shared(p, a)') => WindowIsShared'
  BY DEF WindowIsShared, Shared
<1> SUFFICES ASSUME NEW p \in Policies, NEW a \in AlertKeys, Shared(p, a)
             PROVE  Shared(p, a)'
  BY <1>0, <1>00
<1>1. ASSUME NEW r \in Reporters, NEW b \in AlertKeys, NEW severity \in Severity,
             \/ Report(r, b, severity) \/ Recover(r, b) \/ InsertAlert(r) \/ WriteEvent(r)
             \/ Evaluate(r) \/ NextPolicy(r) \/ NoteTicket(r)
      PROVE  Shared(p, a)'
  <2>1. UNCHANGED <<tickets, lastAction, faults>> /\ rep[r].pc \notin {"ticket", "record"}
    BY <1>1 DEF Report, Recover, InsertAlert, WriteEvent, Evaluate, NextPolicy, NoteTicket
  <2>2. Others(r) /\ (rep'[r].pc = "ticket" =>
                        lastAction[rep'[r].policy][rep'[r].alert] # "recent")
    <3>1. CASE Report(r, b, severity) \/ Recover(r, b)
      BY <3>1, ReportEffect, RecoverEffect
    <3>2. CASE InsertAlert(r) \/ WriteEvent(r)
      BY <3>2, InsertEffect, WriteEffect, IdleType
    <3>3. CASE Evaluate(r) \/ NextPolicy(r)
      BY <3>3, EvaluateEffect, PolicyEffect, IdleType DEF WithinWindow
    <3>4. CASE NoteTicket(r)
      BY <3>4, TicketEndEffect
    <3> QED BY <1>1, <3>1, <3>2, <3>3, <3>4
  <2>3. r \notin Recording(p, a) /\ (r \in Ticketing(p, a)' => lastAction[p][a] # "recent")
    BY <2>1, <2>2 DEF Recording, Ticketing
  <2>4. faults' \in Nat /\ faults' >= faults + (IF r \in Recording(p, a) THEN 1 ELSE 0)
    BY <2>1, <2>3 DEF TypeOK
  <2> QED BY <2>1, <2>2, <2>3, <2>4, WindowKept
<1>2. ASSUME NEW r \in Reporters, TicketFails(r) \/ ReporterAborts(r)
      PROVE  Shared(p, a)'
  <2>1. UNCHANGED <<tickets, lastAction>> /\ faults' = faults + 1
    BY <1>2 DEF TicketFails, ReporterAborts
  <2>2. Others(r) /\ rep'[r].pc # "ticket"
    BY <1>2, TicketEndEffect, AbortEffect, IdleType
  <2>3. r \notin Ticketing(p, a)'
    BY <2>2 DEF Ticketing
  <2>4. faults' \in Nat /\ faults' >= faults + (IF r \in Recording(p, a) THEN 1 ELSE 0)
    BY <2>1 DEF TypeOK
  <2> QED BY <2>1, <2>2, <2>3, <2>4, WindowKept
<1>3. ASSUME NEW r \in Reporters, CreateTicket(r)
      PROVE  Shared(p, a)'
  <2>1. /\ Others(r) /\ SameWork(r) /\ rep[r].pc = "ticket" /\ rep'[r].pc = "record"
        /\ UNCHANGED <<lastAction, faults>>
    BY <1>3, TicketEffect DEF CreateTicket
  <2> DEFINE mine == p = rep[r].policy /\ a = rep[r].alert
  <2>2. /\ r \in Ticketing(p, a) <=> mine
        /\ r \notin Recording(p, a) /\ r \notin Ticketing(p, a)'
        /\ r \in Recording(p, a)' <=> mine
    BY <2>1 DEF Ticketing, Recording, SameWork
  <2>3. tickets'[p][a] = tickets[p][a] + (IF mine THEN 1 ELSE 0)
    BY <1>3, TicketCreated, WindowTypes
  <2>4. /\ Cardinality(Ticketing(p, a))' \in Nat /\ Cardinality(Recording(p, a))' \in Nat
        /\ Cardinality(Ticketing(p, a))' + (IF mine THEN 1 ELSE 0) = Cardinality(Ticketing(p, a))
        /\ Cardinality(Recording(p, a))' = Cardinality(Recording(p, a)) + (IF mine THEN 1 ELSE 0)
    BY <2>1, <2>2, WindowCounts, WindowTypes
  <2> DEFINE one == IF mine THEN 1 ELSE 0
  <2>5. one \in {0, 1}
    OBVIOUS
  <2> HIDE DEF one
  <2>6. /\ tickets'[p][a] = tickets[p][a] + one
        /\ Cardinality(Ticketing(p, a))' + one = Cardinality(Ticketing(p, a))
        /\ Cardinality(Recording(p, a))' = Cardinality(Recording(p, a)) + one
    BY <2>3, <2>4 DEF one
  <2>7. /\ lastAction[p][a] = "recent" =>
             tickets[p][a] + Cardinality(Ticketing(p, a)) <= Cardinality(Reporters) + faults
        /\ lastAction[p][a] # "recent" => tickets[p][a] <= Cardinality(Recording(p, a)) + faults
    BY DEF Shared
  <2>8. /\ lastAction[p][a] = "recent" =>
             tickets'[p][a] + Cardinality(Ticketing(p, a))' <= Cardinality(Reporters) + faults
        /\ lastAction[p][a] # "recent" =>
             tickets'[p][a] <= Cardinality(Recording(p, a))' + faults
    BY <2>4, <2>5, <2>6, <2>7, WindowTypes
  <2> QED BY <2>1, <2>8 DEF Shared
<1>4. ASSUME NEW r \in Reporters, RecordAction(r)
      PROVE  Shared(p, a)'
  <2>1. /\ Others(r) /\ SameWork(r) /\ rep[r].pc = "record" /\ rep'[r].pc = "note"
        /\ UNCHANGED <<tickets, faults>>
    BY <1>4, TicketEffect DEF RecordAction
  <2>2. r \notin Ticketing(p, a) /\ r \notin Ticketing(p, a)' /\ r \notin Recording(p, a)'
    BY <2>1 DEF Ticketing, Recording
  <2>3. Cardinality(Ticketing(p, a))' = Cardinality(Ticketing(p, a))
    BY <2>1, <2>2, WindowCounts, WindowTypes
  <2>4. CASE p = rep[r].policy /\ a = rep[r].alert
    <3>1. lastAction'[p][a] = "recent"
      BY <1>4, <2>4, ActionRecorded
    <3>2. tickets[p][a] + Cardinality(Ticketing(p, a)) <= Cardinality(Reporters) + faults
      BY WindowTypes DEF Shared
    <3> QED BY <2>1, <2>3, <3>1, <3>2 DEF Shared
  <2>5. CASE ~(p = rep[r].policy /\ a = rep[r].alert)
    <3>1. lastAction'[p][a] = lastAction[p][a]
      BY <1>4, <2>5, ActionRecorded
    <3>2. r \notin Recording(p, a)
      BY <2>5 DEF Recording
    <3>3. Cardinality(Recording(p, a))' = Cardinality(Recording(p, a))
      BY <2>1, <2>2, <3>2, WindowCounts, WindowTypes
    <3> QED BY <2>1, <2>3, <3>1, <3>3 DEF Shared
  <2> QED BY <2>4, <2>5
<1>5. ASSUME NEW q \in Policies, NEW b \in AlertKeys, WindowElapses(q, b)
      PROVE  Shared(p, a)'
  <2>1. /\ UNCHANGED <<rep, faults>>
        /\ Ticketing(p, a)' = Ticketing(p, a) /\ Recording(p, a)' = Recording(p, a)
    BY <1>5 DEF WindowElapses, Ticketing, Recording
  <2>2. CASE q = p /\ b = a
    <3>1. tickets'[p][a] = 0 /\ lastAction'[p][a] # "recent"
      BY <1>5, <2>2 DEF WindowElapses, TypeOK
    <3> QED BY <2>1, <3>1, WindowTypes DEF Shared
  <2>3. CASE ~(q = p /\ b = a)
    <3>1. tickets'[p][a] = tickets[p][a] /\ lastAction'[p][a] = lastAction[p][a]
      BY <1>5, <2>3 DEF WindowElapses, TypeOK
    <3> QED BY <2>1, <3>1 DEF Shared
  <2> QED BY <2>2, <2>3
<1>6. ASSUME UNCHANGED <<tickets, lastAction, rep>>, faults' \in {faults, faults + 1}
      PROVE  Shared(p, a)'
  <2>1. Ticketing(p, a)' = Ticketing(p, a) /\ Recording(p, a)' = Recording(p, a)
    BY <1>6 DEF Ticketing, Recording
  <2> QED BY <1>6, <2>1, WindowTypes DEF Shared
<1>7. ASSUME \/ \E o \in Operators, S \in SUBSET AlertKeys,
                   target \in {"acknowledged", "closed"} : StartBulk(o, S, target)
             \/ \E o \in Operators : OperatorStep(o) \/ OperatorAborts(o)
             \/ \E b \in AlertKeys, mode \in Modes : Remediate(b, mode)
             \/ UNCHANGED vars
      PROVE  Shared(p, a)'
  BY <1>6, <1>7 DEF StartBulk, OperatorStep, UpdateStatus, WriteStatusEvent, FinishBulk,
                    OperatorAborts, Remediate, vars
<1>8. "warning" \in Severity
  BY DEF Severity
<1>9. ASSUME NEW r \in Reporters, ReporterStep(r) \/ ReporterAborts(r)
      PROVE  Shared(p, a)'
  BY <1>1, <1>2, <1>3, <1>4, <1>8, <1>9 DEF ReporterStep
<1> QED BY <1>1, <1>5, <1>7, <1>8, <1>9 DEF Next

-----------------------------------------------------------------------------
(* The invariant and the theorems *)

LEMMA InitInv == Init => IInv
<1> SUFFICES ASSUME Init PROVE IInv
  OBVIOUS
<1>1. TypeOK /\ ReporterSound /\ OperatorSound
  BY InitSound
<1>2. /\ \A r \in Reporters : rep[r].pc = "idle" /\ rep[r].event = "observed"
      /\ \A o \in Operators : op[o].pc = "idle"
      /\ \A a \in AlertKeys : row[a].status = "absent"
      /\ \A p \in Policies, a \in AlertKeys : lastAction[p][a] = "none" /\ tickets[p][a] = 0
  BY DEF Init, IdleReporter, IdleOperator
<1>3. \A a \in AlertKeys, e \in EventType : timeline[a][e] = 0
  BY DEF Init, WrittenEvent
<1>4. RecordHasTicket /\ SuppressionHasTicket /\ OpenIsCovered
  BY <1>2 DEF RecordHasTicket, SuppressionHasTicket, OpenIsCovered
<1>5. ObservedIsWritten
  BY <1>2, <1>3 DEF ObservedIsWritten, EventType
<1>6. EventsBalance
  <2>1. ASSUME NEW a \in AlertKeys
        PROVE  Balanced(a)
    <3>1. Recovering(a) = {} /\ Reopening(a) = {} /\ Deciding(a) = {} /\ Left(a) = 0
      BY <1>2 DEF Recovering, Reopening, Deciding, Left
    <3>2. /\ timeline[a]["acknowledged"] = 0 /\ timeline[a]["closed"] = 0
          /\ timeline[a]["reopened"] = 0
      BY <1>3 DEF EventType
    <3> QED BY <3>1, <3>2, FS_EmptySet DEF Balanced, Ended
  <2> QED BY <2>1, BalanceByAlert
<1>7. WindowIsShared
  BY <1>1, <1>2, WindowTypes DEF WindowIsShared
<1> QED BY <1>1, <1>4, <1>5, <1>6, <1>7 DEF IInv

LEMMA NextInv == IInv /\ [Next]_vars => IInv'
  BY SoundNext, TicketNext, CoverNext, ObservedNext, BalanceNext, WindowNext DEF IInv

LEMMA Invariance == Spec => []IInv
  BY InitInv, NextInv, PTL DEF Spec

\* Every handler, row, timeline and count keeps its type: a handler between its
\* statements always has the alert, the event and the policy its next statement
\* needs.
THEOREM TypeCorrect == Spec => []TypeOK
<1>1. IInv => TypeOK
  BY DEF IInv
<1> QED BY <1>1, Invariance, PTL

\* Nobody is left with an alert and no ticket, whatever reports, recoveries,
\* operators and faults do to one another: upsert_monitoring_sync_alert and
\* evaluate_alert_ticket_policies, statement by statement.
THEOREM AlertsHaveTickets == Spec => []EveryAlertHasTicket
<1>1. IInv => EveryAlertHasTicket
  <2> SUFFICES ASSUME IInv PROVE OpenAlertHasTicket
    BY DEF IInv, EveryAlertHasTicket
  <2> SUFFICES ASSUME faults = 0, NEW a \in AlertKeys, Quiet(a), row[a].status = "open",
                      NEW p \in Policies, MatchSeverity[p] = row[a].severity
               PROVE  lastAction[p][a] # "none"
    BY DEF OpenAlertHasTicket
  <2> QED BY DEF IInv, OpenIsCovered, Quiet
<1> QED BY <1>1, Invariance, PTL

\* Unless a handler failed, the timeline of an alert at rest accounts for the
\* status of its row, although the row and the event are written by separate
\* statements.
THEOREM TimelinesAccount == Spec => []TimelineAccounts
<1>1. IInv => TimelineAccounts
  <2> SUFFICES ASSUME IInv, faults = 0, NEW a \in AlertKeys, Quiet(a)
               PROVE  /\ timeline[a]["acknowledged"] + timeline[a]["closed"]
                           >= timeline[a]["reopened"] + Left(a)
                      /\ timeline[a]["observed"] >= 1 <=> row[a].status # "absent"
    BY DEF TimelineAccounts, Left
  <2>1. Recovering(a) = {} /\ Reopening(a) = {} /\ Deciding(a) = {}
    BY DEF Quiet, Recovering, Reopening, Deciding
  <2>2. Balanced(a) /\ TypeOK
    BY BalanceByAlert DEF IInv
  <2>3. Left(a) \in {0, 1}
    BY DEF Left
  <2>4. timeline[a]["acknowledged"] + timeline[a]["closed"] >= timeline[a]["reopened"] + Left(a)
    BY <2>1, <2>2, <2>3, BalanceTypes, FS_EmptySet DEF Balanced, Ended
  <2>5. timeline[a]["observed"] >= 1 <=> row[a].status # "absent"
    BY DEF IInv, ObservedIsWritten, Quiet
  <2> QED BY <2>4, <2>5
<1> QED BY <1>1, Invariance, PTL

\* A policy opens at most one ticket for an alert within a dedup window for every
\* reporter of the alert and every handler that failed.
THEOREM TicketsPerWindowBounded == Spec => []TicketsPerWindow
<1>1. IInv => TicketsPerWindow
  <2> SUFFICES ASSUME IInv, NEW p \in Policies, NEW a \in AlertKeys
               PROVE  tickets[p][a] <= Cardinality(Reporters) + faults
    BY DEF TicketsPerWindow
  <2>1. TypeOK /\ Shared(p, a)
    BY DEF IInv, WindowIsShared, Shared
  <2> QED BY <2>1, WindowTypes DEF Shared
<1> QED BY <1>1, Invariance, PTL

\* With the reports of an alert coming from one process, the deduplication of
\* is_within_dedup_window holds: one ticket per policy, alert and window.
THEOREM OneTicketWithOneReporter ==
  ASSUME Cardinality(Reporters) = 1
  PROVE  Spec => []OneTicketPerWindow
<1>1. TicketsPerWindow => OneTicketPerWindow
  BY DEF TicketsPerWindow, OneTicketPerWindow
<1> QED BY <1>1, TicketsPerWindowBounded, PTL

\* The stamps acknowledged_by and closed_by agree with the status through every
\* race of reopening, acknowledging and closing.
THEOREM StampsAgree == Spec => []StampsMatchStatus
<1>1. Init => StampsMatchStatus
  <2>1. Init => \A a \in AlertKeys :
                  row[a].status = "absent" /\ ~row[a].acked /\ ~row[a].closed
    BY DEF Init
  <2> QED BY <2>1 DEF StampsMatchStatus
<1>2. IInv /\ StampsMatchStatus /\ [Next]_vars => StampsMatchStatus'
  <2> SUFFICES ASSUME TypeOK, StampsMatchStatus, [Next]_vars PROVE StampsMatchStatus'
    BY DEF IInv
  <2>0. row \in [AlertKeys -> Row]
    BY DEF TypeOK
  <2> DEFINE Agree(x) == CASE x.status \in {"absent", "open"} -> ~x.acked /\ ~x.closed
                           [] x.status = "acknowledged" -> x.acked /\ ~x.closed
                           [] x.status = "closed" -> x.closed
  <2>1. ASSUME NEW a \in AlertKeys, NEW new, Agree(new), row' = [row EXCEPT ![a] = new]
        PROVE  StampsMatchStatus'
    BY <2>0, <2>1 DEF StampsMatchStatus
  <2>2. ASSUME NEW r \in Reporters, NEW a \in AlertKeys, NEW severity \in Severity,
               Report(r, a, severity)
        PROVE  StampsMatchStatus'
    <3>1. CASE row[a].status = "absent"
      BY <2>2, <3>1 DEF Report, StampsMatchStatus
    <3>2. CASE row[a].status # "absent"
      <4> DEFINE new == Observed(row[a], severity)
      <4>1. new.status = "open" /\ ~new.acked /\ ~new.closed
        BY <2>0 DEF Row, Observed
      <4>2. row' = [row EXCEPT ![a] = new]
        BY <2>2, <3>2 DEF Report
      <4> HIDE DEF new
      <4> QED BY <2>1, <4>1, <4>2
    <3> QED BY <3>1, <3>2
  <2>3. ASSUME NEW r \in Reporters, NEW a \in AlertKeys, Recover(r, a)
        PROVE  StampsMatchStatus'
    <3> DEFINE new == [row[a] EXCEPT !.status = "closed", !.closed = TRUE]
    <3>1. new.status = "closed" /\ new.closed
      BY <2>0 DEF Row
    <3>2. row' = [row EXCEPT ![a] = new]
      BY <2>3 DEF Recover
    <3> HIDE DEF new
    <3> QED BY <2>1, <3>1, <3>2
  <2>4. ASSUME NEW r \in Reporters, InsertAlert(r)
        PROVE  StampsMatchStatus'
    <3> DEFINE a == rep[r].alert
               new == [row[a] EXCEPT !.status = "open", !.reports = 1,
                                     !.severity = rep[r].severity]
    <3>1. CASE row[a].status = "absent" /\ a \in AlertKeys
      <4>1. new.status = "open" /\ ~new.acked /\ ~new.closed
        BY <2>0, <3>1 DEF Row, StampsMatchStatus
      <4>2. row' = [row EXCEPT ![a] = new]
        BY <2>4, <3>1 DEF InsertAlert
      <4> HIDE DEF new, a
      <4> QED BY <2>1, <3>1, <4>1, <4>2
    <3>2. CASE a \notin AlertKeys
      <4>1. UNCHANGED row \/ \E x : row' = [row EXCEPT ![a] = x]
        BY <2>4 DEF InsertAlert
      <4> QED BY <2>0, <3>2, <4>1 DEF StampsMatchStatus
    <3>3. CASE row[a].status # "absent"
      BY <2>4, <3>3 DEF InsertAlert, StampsMatchStatus
    <3> QED BY <3>1, <3>2, <3>3
  <2>5. ASSUME NEW o \in Operators, NEW a \in AlertKeys, UpdateStatus(o, a)
        PROVE  StampsMatchStatus'
    <3>1. CASE row[a].status \in {"open", "acknowledged"}
      <4> DEFINE target == op[o].target
                 new == [row[a] EXCEPT !.status = target,
                                       !.acked = (target = "acknowledged" \/ row[a].acked),
                                       !.closed = (target = "closed")]
      <4>1. target \in {"acknowledged", "closed"}
        BY DEF TypeOK, Operator
      <4>2. /\ new.status = target
            /\ new.acked = (target = "acknowledged" \/ row[a].acked)
            /\ new.closed = (target = "closed")
        BY <2>0 DEF Row
      <4>3. row' = [row EXCEPT ![a] = new]
        BY <2>5, <3>1 DEF UpdateStatus
      <4> HIDE DEF new, target
      <4>4. Agree(new)
        BY <4>1, <4>2
      <4> QED BY <2>1, <4>3, <4>4
    <3>2. CASE row[a].status \notin {"open", "acknowledged"}
      BY <2>5, <3>2 DEF UpdateStatus, StampsMatchStatus
    <3> QED BY <3>1, <3>2
  <2>6. CASE UNCHANGED row
    BY <2>6 DEF StampsMatchStatus
  <2>7. ASSUME NEW r \in Reporters, ReporterStep(r) \/ ReporterAborts(r)
        PROVE  StampsMatchStatus'
    BY <2>4, <2>6, <2>7 DEF ReporterStep, WriteEvent, Evaluate, NextPolicy, CreateTicket,
                            TicketFails, RecordAction, NoteTicket, ReporterAborts
  <2>8. ASSUME NEW o \in Operators, OperatorStep(o) \/ OperatorAborts(o)
        PROVE  StampsMatchStatus'
    BY <2>5, <2>6, <2>8 DEF OperatorStep, WriteStatusEvent, FinishBulk, OperatorAborts
  <2> QED BY <2>2, <2>3, <2>6, <2>7, <2>8 DEF Next, WindowElapses, StartBulk, Remediate, vars
<1> QED BY <1>1, <1>2, Invariance, PTL DEF Spec

\* Only a new report of a failure revives a closed alert; an acknowledgement that
\* was under way when a recovery closed it does not.
THEOREM ClosedStaysClosed == Spec => ClosedUntilReported
<1> DEFINE Revived(a) == row[a].status = "closed" /\ row'[a].status # "closed" =>
                           /\ row'[a].status = "open"
                           /\ ~row'[a].acked /\ ~row'[a].closed
                           /\ row'[a].reports = row[a].reports + 1
<1>1. IInv /\ [Next]_vars => \A a \in AlertKeys : Revived(a)
  <2> SUFFICES ASSUME TypeOK, ReporterSound, [Next]_vars, NEW a \in AlertKeys,
                      row[a].status = "closed", row'[a].status # "closed"
               PROVE  /\ row'[a].status = "open"
                      /\ ~row'[a].acked /\ ~row'[a].closed
                      /\ row'[a].reports = row[a].reports + 1
    BY DEF IInv
  <2>0. row[a] \in Row /\ row \in [AlertKeys -> Row]
    BY DEF TypeOK
  <2>1. PICK r \in Reporters, b \in AlertKeys, severity \in Severity : Report(r, b, severity)
    <3>1. ASSUME NEW r \in Reporters, ReporterStep(r) \/ ReporterAborts(r) PROVE FALSE
      <4>1. CASE InsertAlert(r)
        BY <4>1, RowEffect DEF InsertAlert, ReporterSound, OtherRows
      <4> QED BY <3>1, <4>1 DEF ReporterStep, WriteEvent, Evaluate, NextPolicy, CreateTicket,
                                TicketFails, RecordAction, NoteTicket, ReporterAborts
    <3>2. ASSUME NEW o \in Operators, OperatorStep(o) \/ OperatorAborts(o) PROVE FALSE
      <4>1. ASSUME NEW b \in AlertKeys, UpdateStatus(o, b) PROVE FALSE
        BY <4>1, RowEffect DEF OtherRows
      <4> QED BY <3>2, <4>1 DEF OperatorStep, WriteStatusEvent, FinishBulk, OperatorAborts
    <3>3. ASSUME NEW r \in Reporters, NEW b \in AlertKeys, Recover(r, b) PROVE FALSE
      BY <3>3, RowEffect DEF OtherRows
    <3> QED BY <3>1, <3>2, <3>3 DEF Next, WindowElapses, StartBulk, Remediate, vars
  <2>2. a = b /\ row[a].status # "absent"
    BY <2>1, RowEffect DEF OtherRows
  <2> DEFINE new == Observed(row[a], severity)
  <2>3. /\ new.status = "open" /\ ~new.acked /\ ~new.closed
        /\ new.reports = row[a].reports + 1
    BY <2>0 DEF Row, Observed
  <2>4. row' = [row EXCEPT ![a] = new]
    BY <2>1, <2>2 DEF Report
  <2> HIDE DEF new
  <2> QED BY <2>0, <2>3, <2>4
<1> QED BY <1>1, Invariance, PTL DEF Spec, ClosedUntilReported
-----------------------------------------------------------------------------
(* Playbooks in the behaviours of MCAlertsPlaybooks: PlaybooksProofs is     *)
(* instantiated as that module instantiates Playbooks, and the steps of its *)
(* two foci are steps of the instances.                                     *)

AP == INSTANCE PlaybooksProofs WITH
    DayLength <- 2, WeekLength <- 2, TTL <- 1, MaxNow <- 2, MaxRuns <- 2, DryRunIds <- {"dry run"},
    Slots <- {}, Sites <- {}, Counted <- {}, FreezeInputs <- {}, WindowInputs <- {}, Backlogs <- {}

\* The initial state is the one of the other focus, with its dry run's row;
\* reserving takes no step for which there would have to be a dry run.
RP == INSTANCE PlaybooksProofs WITH
    DayLength <- 2, WeekLength <- 2, TTL <- 1, MaxNow <- 0, MaxRuns <- 2, DryRunIds <- {"dry run"},
    Slots <- {[start |-> 0, end |-> 3], [start |-> 1, end |-> 2]}, Sites <- {"site"},
    Counted <- BOOLEAN, FreezeInputs <- {{}, {TRUE}, {FALSE}}, Backlogs <- {TRUE},
    WindowInputs <- {{}, {[day |-> 1, start |-> 0, end |-> 1]}}

\* The inductive invariant of the instance that is in focus.
AllInv ==
    /\ focus \in Foci
    /\ focus # "reserving" => AP!IInv
    /\ focus = "reserving" => RP!IInv
-----------------------------------------------------------------------------
(* The steps of a focus are steps of its instance *)

LEMMA ApprovingStep ==
    ASSUME Approving!Next
    PROVE  AP!Next
<1>1. ASSUME NEW c, Approving!UpdatePolicyRead(c) PROVE AP!UpdatePolicyRead(c)
  BY <1>1, Zenon DEF Approving!UpdatePolicyRead, AP!UpdatePolicyRead, Approving!Acceptable,
     AP!Acceptable, Approving!At, AP!At, Approving!Goto, AP!Goto, Approving!bookVars, AP!bookVars
<1>2. ASSUME NEW c, Approving!UpdatePolicyWrite(c) PROVE AP!UpdatePolicyWrite(c)
  BY <1>2, Zenon DEF Approving!UpdatePolicyWrite, AP!UpdatePolicyWrite, Approving!At, AP!At,
     Approving!Return, AP!Return, Approving!Goto, AP!Goto, Approving!Idle, AP!Idle
<1>3. ASSUME NEW c, Approving!RequestApproval(c) PROVE AP!RequestApproval(c)
  BY <1>3, Zenon DEF Approving!RequestApproval, AP!RequestApproval, Approving!ActiveApproval,
     AP!ActiveApproval, Approving!At, AP!At, Approving!Goto, AP!Goto, Approving!Min, AP!Min,
     Approving!bookVars, AP!bookVars, Approving!Active, AP!Active
<1>4. ASSUME NEW c, Approving!InsertApproval(c) PROVE AP!InsertApproval(c)
  BY <1>4, Zenon DEF Approving!InsertApproval, AP!InsertApproval, Approving!Active, AP!Active,
     Approving!ActiveApproval, AP!ActiveApproval, Approving!At, AP!At, Approving!NoRow, AP!NoRow,
     Approving!Return, AP!Return, Approving!Goto, AP!Goto, Approving!Idle, AP!Idle
<1>5. ASSUME NEW c, Approving!ReadToApprove(c) PROVE AP!ReadToApprove(c)
  BY <1>5, Zenon DEF Approving!ReadToApprove, AP!ReadToApprove, Approving!At, AP!At, Approving!Goto,
     AP!Goto, Approving!bookVars, AP!bookVars
<1>6. ASSUME NEW c, Approving!Approve(c) PROVE AP!Approve(c)
  BY <1>6, Zenon DEF Approving!Approve, AP!Approve, Approving!At, AP!At, Approving!IndexAllows,
     AP!IndexAllows, Approving!Overwrite, AP!Overwrite, Approving!Return, AP!Return,
     Approving!Goto, AP!Goto, Approving!Idle, AP!Idle, Approving!Active, AP!Active,
     Approving!ActiveApproval, AP!ActiveApproval
<1>7. ASSUME NEW c, Approving!ReadToReject(c) PROVE AP!ReadToReject(c)
  BY <1>7, Zenon DEF Approving!ReadToReject, AP!ReadToReject, Approving!At, AP!At, Approving!Goto,
     AP!Goto, Approving!bookVars, AP!bookVars
<1>8. ASSUME NEW c, Approving!Reject(c) PROVE AP!Reject(c)
  BY <1>8, Zenon DEF Approving!Reject, AP!Reject, Approving!At, AP!At, Approving!Overwrite,
     AP!Overwrite, Approving!Return, AP!Return, Approving!Goto, AP!Goto, Approving!Idle, AP!Idle
<1>9. ASSUME NEW c, Approving!Execute(c) PROVE AP!Execute(c)
  BY <1>9, Zenon DEF Approving!Execute, AP!Execute, Approving!At, AP!At, Approving!Goto, AP!Goto,
     Approving!PolicyAllows, AP!PolicyAllows, Approving!bookVars, AP!bookVars, Approving!Conflicts,
     AP!Conflicts, Approving!RuntimeAllows, AP!RuntimeAllows, Approving!IsInWindow, AP!IsInWindow,
     Approving!TimeOfDay, AP!TimeOfDay, Approving!Weekday, AP!Weekday, Approving!DayOf, AP!DayOf,
     Approving!Kept, AP!Kept, Approving!NeedsWindow, AP!NeedsWindow, Approving!PendingPlaybooks,
     AP!PendingPlaybooks, Approving!SlotIsInWindow, AP!SlotIsInWindow
<1>10. ASSUME NEW c, Approving!VerifyApproval(c) PROVE AP!VerifyApproval(c)
  BY <1>10, Zenon DEF Approving!VerifyApproval, AP!VerifyApproval, Approving!At, AP!At, Approving!Goto,
     AP!Goto, Approving!Return, AP!Return, Approving!Idle, AP!Idle
<1>11. ASSUME NEW c, Approving!ConsumeApproval(c) PROVE AP!ConsumeApproval(c)
  BY <1>11, Zenon DEF Approving!ConsumeApproval, AP!ConsumeApproval, Approving!At, AP!At,
     Approving!Goto, AP!Goto, Approving!Overwrite, AP!Overwrite
<1>12. ASSUME NEW c, Approving!VerifyConfirmation(c) PROVE AP!VerifyConfirmation(c)
  BY <1>12, Zenon DEF Approving!VerifyConfirmation, AP!VerifyConfirmation, Approving!At, AP!At,
     Approving!Goto, AP!Goto, Approving!Return, AP!Return, Approving!Verdict, AP!Verdict,
     Approving!Idle, AP!Idle
<1>13. ASSUME NEW c, Approving!ConfirmDryRun(c) PROVE AP!ConfirmDryRun(c)
  BY <1>13, Zenon DEF Approving!ConfirmDryRun, AP!ConfirmDryRun, Approving!At, AP!At, Approving!Goto,
     AP!Goto
<1>14. ASSUME NEW c, Approving!InsertRun(c) PROVE AP!InsertRun(c)
  BY <1>14, Zenon DEF Approving!InsertRun, AP!InsertRun, Approving!At, AP!At, Approving!Return,
     AP!Return, Approving!Goto, AP!Goto, Approving!Idle, AP!Idle
<1>15. ASSUME NEW c, Approving!ReservationStep(c) PROVE AP!ReservationStep(c)
  BY <1>15, Zenon DEF Approving!ReservationStep, AP!ReservationStep, Approving!CalendarStep,
     AP!CalendarStep, Approving!CountOverlaps, AP!CountOverlaps, Approving!EvaluateConflicts,
     AP!EvaluateConflicts, Approving!InsertReservation, AP!InsertReservation, Approving!At, AP!At,
     Approving!Return, AP!Return, Approving!Goto, AP!Goto, Approving!Idle, AP!Idle,
     Approving!Blocking, AP!Blocking, Approving!Conflicts, AP!Conflicts, Approving!Kept, AP!Kept,
     Approving!NeedsWindow, AP!NeedsWindow, Approving!PendingPlaybooks, AP!PendingPlaybooks,
     Approving!SlotIsInWindow, AP!SlotIsInWindow, Approving!TimeOfDay, AP!TimeOfDay,
     Approving!Weekday, AP!Weekday, Approving!DayOf, AP!DayOf, Approving!Overlaps, AP!Overlaps,
     Approving!RiskLevels, AP!RiskLevels
<1>16. ASSUME Approving!ClockTicks PROVE AP!ClockTicks
  BY <1>16, Zenon DEF Approving!ClockTicks, AP!ClockTicks, Approving!bookVars, AP!bookVars
<1>17. ASSUME Approving!WorkflowBacklogChanges PROVE AP!WorkflowBacklogChanges
  BY <1>17, Zenon DEF Approving!WorkflowBacklogChanges, AP!WorkflowBacklogChanges, Approving!bookVars,
     AP!bookVars
<1>18. ASSUME Approving!ExpireApproval PROVE AP!ExpireApproval
  BY <1>18, Zenon DEF Approving!ExpireApproval, AP!ExpireApproval, Approving!Active, AP!Active
<1>19. ASSUME NEW by, Approving!DryRun(by) PROVE AP!DryRun(by)
  BY <1>19, Zenon DEF Approving!DryRun, AP!DryRun, Approving!NoRow, AP!NoRow
<1>20. ASSUME NEW c, Approving!CallStep(c) PROVE AP!CallStep(c)
  BY <1>20, <1>1, <1>2, <1>3, <1>4, <1>5, <1>6, <1>7,
     <1>8, <1>9, <1>10, <1>11, <1>12, <1>13, <1>14, <1>15
     DEF Approving!CallStep, AP!CallStep, Approving!Replay, AP!Replay
<1> QED BY <1>16, <1>17, <1>18, <1>19, <1>20
     DEF Approving!Next, AP!Next, Approving!ReplayDryRun, AP!ReplayDryRun

LEMMA ReservingStep ==
    ASSUME Reserving!Next
    PROVE  RP!Next
<1>1. ASSUME NEW c, Reserving!UpdatePolicyRead(c) PROVE RP!UpdatePolicyRead(c)
  BY <1>1, Zenon DEF Reserving!UpdatePolicyRead, RP!UpdatePolicyRead, Reserving!Acceptable,
     RP!Acceptable, Reserving!At, RP!At, Reserving!Goto, RP!Goto, Reserving!bookVars, RP!bookVars
<1>2. ASSUME NEW c, Reserving!UpdatePolicyWrite(c) PROVE RP!UpdatePolicyWrite(c)
  BY <1>2, Zenon DEF Reserving!UpdatePolicyWrite, RP!UpdatePolicyWrite, Reserving!At, RP!At,
     Reserving!Return, RP!Return, Reserving!Goto, RP!Goto, Reserving!Idle, RP!Idle
<1>3. ASSUME NEW c, Reserving!RequestApproval(c) PROVE RP!RequestApproval(c)
  BY <1>3, Zenon DEF Reserving!RequestApproval, RP!RequestApproval, Reserving!ActiveApproval,
     RP!ActiveApproval, Reserving!At, RP!At, Reserving!Goto, RP!Goto, Reserving!Min, RP!Min,
     Reserving!bookVars, RP!bookVars, Reserving!Active, RP!Active
<1>4. ASSUME NEW c, Reserving!InsertApproval(c) PROVE RP!InsertApproval(c)
  BY <1>4, Zenon DEF Reserving!InsertApproval, RP!InsertApproval, Reserving!Active, RP!Active,
     Reserving!ActiveApproval, RP!ActiveApproval, Reserving!At, RP!At, Reserving!NoRow, RP!NoRow,
     Reserving!Return, RP!Return, Reserving!Goto, RP!Goto, Reserving!Idle, RP!Idle
<1>5. ASSUME NEW c, Reserving!ReadToApprove(c) PROVE RP!ReadToApprove(c)
  BY <1>5, Zenon DEF Reserving!ReadToApprove, RP!ReadToApprove, Reserving!At, RP!At, Reserving!Goto,
     RP!Goto, Reserving!bookVars, RP!bookVars
<1>6. ASSUME NEW c, Reserving!Approve(c) PROVE RP!Approve(c)
  BY <1>6, Zenon DEF Reserving!Approve, RP!Approve, Reserving!At, RP!At, Reserving!IndexAllows,
     RP!IndexAllows, Reserving!Overwrite, RP!Overwrite, Reserving!Return, RP!Return,
     Reserving!Goto, RP!Goto, Reserving!Idle, RP!Idle, Reserving!Active, RP!Active,
     Reserving!ActiveApproval, RP!ActiveApproval
<1>7. ASSUME NEW c, Reserving!ReadToReject(c) PROVE RP!ReadToReject(c)
  BY <1>7, Zenon DEF Reserving!ReadToReject, RP!ReadToReject, Reserving!At, RP!At, Reserving!Goto,
     RP!Goto, Reserving!bookVars, RP!bookVars
<1>8. ASSUME NEW c, Reserving!Reject(c) PROVE RP!Reject(c)
  BY <1>8, Zenon DEF Reserving!Reject, RP!Reject, Reserving!At, RP!At, Reserving!Overwrite,
     RP!Overwrite, Reserving!Return, RP!Return, Reserving!Goto, RP!Goto, Reserving!Idle, RP!Idle
<1>9. ASSUME NEW c, Reserving!Execute(c) PROVE RP!Execute(c)
  BY <1>9, Zenon DEF Reserving!Execute, RP!Execute, Reserving!At, RP!At, Reserving!Goto, RP!Goto,
     Reserving!PolicyAllows, RP!PolicyAllows, Reserving!bookVars, RP!bookVars, Reserving!Conflicts,
     RP!Conflicts, Reserving!RuntimeAllows, RP!RuntimeAllows, Reserving!IsInWindow, RP!IsInWindow,
     Reserving!TimeOfDay, RP!TimeOfDay, Reserving!Weekday, RP!Weekday, Reserving!DayOf, RP!DayOf,
     Reserving!Kept, RP!Kept, Reserving!NeedsWindow, RP!NeedsWindow, Reserving!PendingPlaybooks,
     RP!PendingPlaybooks, Reserving!SlotIsInWindow, RP!SlotIsInWindow
<1>10. ASSUME NEW c, Reserving!VerifyApproval(c) PROVE RP!VerifyApproval(c)
  BY <1>10, Zenon DEF Reserving!VerifyApproval, RP!VerifyApproval, Reserving!At, RP!At, Reserving!Goto,
     RP!Goto, Reserving!Return, RP!Return, Reserving!Idle, RP!Idle
<1>11. ASSUME NEW c, Reserving!ConsumeApproval(c) PROVE RP!ConsumeApproval(c)
  BY <1>11, Zenon DEF Reserving!ConsumeApproval, RP!ConsumeApproval, Reserving!At, RP!At,
     Reserving!Goto, RP!Goto, Reserving!Overwrite, RP!Overwrite
<1>12. ASSUME NEW c, Reserving!VerifyConfirmation(c) PROVE RP!VerifyConfirmation(c)
  BY <1>12, Zenon DEF Reserving!VerifyConfirmation, RP!VerifyConfirmation, Reserving!At, RP!At,
     Reserving!Goto, RP!Goto, Reserving!Return, RP!Return, Reserving!Verdict, RP!Verdict,
     Reserving!Idle, RP!Idle
<1>13. ASSUME NEW c, Reserving!ConfirmDryRun(c) PROVE RP!ConfirmDryRun(c)
  BY <1>13, Zenon DEF Reserving!ConfirmDryRun, RP!ConfirmDryRun, Reserving!At, RP!At, Reserving!Goto,
     RP!Goto
<1>14. ASSUME NEW c, Reserving!InsertRun(c) PROVE RP!InsertRun(c)
  BY <1>14, Zenon DEF Reserving!InsertRun, RP!InsertRun, Reserving!At, RP!At, Reserving!Return,
     RP!Return, Reserving!Goto, RP!Goto, Reserving!Idle, RP!Idle
<1>15. ASSUME NEW c, Reserving!ReservationStep(c) PROVE RP!ReservationStep(c)
  BY <1>15, Zenon DEF Reserving!ReservationStep, RP!ReservationStep, Reserving!CalendarStep,
     RP!CalendarStep, Reserving!CountOverlaps, RP!CountOverlaps, Reserving!EvaluateConflicts,
     RP!EvaluateConflicts, Reserving!InsertReservation, RP!InsertReservation, Reserving!At, RP!At,
     Reserving!Return, RP!Return, Reserving!Goto, RP!Goto, Reserving!Idle, RP!Idle,
     Reserving!Blocking, RP!Blocking, Reserving!Conflicts, RP!Conflicts, Reserving!Kept, RP!Kept,
     Reserving!NeedsWindow, RP!NeedsWindow, Reserving!PendingPlaybooks, RP!PendingPlaybooks,
     Reserving!SlotIsInWindow, RP!SlotIsInWindow, Reserving!TimeOfDay, RP!TimeOfDay,
     Reserving!Weekday, RP!Weekday, Reserving!DayOf, RP!DayOf, Reserving!Overlaps, RP!Overlaps,
     Reserving!RiskLevels, RP!RiskLevels
<1>16. ASSUME Reserving!ClockTicks PROVE RP!ClockTicks
  BY <1>16, Zenon DEF Reserving!ClockTicks, RP!ClockTicks, Reserving!bookVars, RP!bookVars
<1>17. ASSUME Reserving!WorkflowBacklogChanges PROVE RP!WorkflowBacklogChanges
  BY <1>17, Zenon DEF Reserving!WorkflowBacklogChanges, RP!WorkflowBacklogChanges, Reserving!bookVars,
     RP!bookVars
<1>18. ASSUME Reserving!ExpireApproval PROVE RP!ExpireApproval
  BY <1>18, Zenon DEF Reserving!ExpireApproval, RP!ExpireApproval, Reserving!Active, RP!Active
<1>19. ASSUME NEW by, Reserving!DryRun(by) PROVE RP!DryRun(by)
  BY <1>19, Zenon DEF Reserving!DryRun, RP!DryRun, Reserving!NoRow, RP!NoRow
<1>20. ASSUME NEW c, Reserving!CallStep(c) PROVE RP!CallStep(c)
  BY <1>20, <1>1, <1>2, <1>3, <1>4, <1>5, <1>6, <1>7,
     <1>8, <1>9, <1>10, <1>11, <1>12, <1>13, <1>14, <1>15
     DEF Reserving!CallStep, RP!CallStep, Reserving!Replay, RP!Replay
<1> QED BY <1>16, <1>17, <1>18, <1>19, <1>20
     DEF Reserving!Next, RP!Next, Reserving!ReplayDryRun, RP!ReplayDryRun

-----------------------------------------------------------------------------
LEMMA ParametersHold == AP!ParametersOK /\ RP!ParametersOK
  BY DEF AP!ParametersOK, RP!ParametersOK

LEMMA AllInitInv ==
    ASSUME AllInit
    PROVE  AllInv
<1>1. focus \in Foci /\ Approving!Init
  BY DEF AllInit
<1>2. AP!Init /\ RP!Init
  BY <1>1 DEF Approving!Init, AP!Init, RP!Init, Approving!NoRow, AP!NoRow, RP!NoRow,
     Approving!Idle, AP!Idle, RP!Idle,
     Approving!DefaultWindows, AP!DefaultWindows, RP!DefaultWindows
<1> QED BY <1>1, <1>2, AP!InitInv, RP!InitInv DEF AllInv

LEMMA AllNextInv ==
    ASSUME AllInv, [AllNext]_<<focus, vars, playbookVars>>
    PROVE  AllInv'
<1>1. focus' = focus /\ focus \in Foci
  BY DEF AllNext, AllInv
<1>2. CASE UNCHANGED playbookVars
  <2>1. UNCHANGED AP!vars /\ UNCHANGED RP!vars
    BY <1>2 DEF playbookVars, AP!vars, RP!vars, AP!calendarVars, RP!calendarVars
  <2> QED BY <1>1, <2>1, ParametersHold, AP!NextInv, RP!NextInv DEF AllInv
<1>3. CASE focus = "approving" /\ Approving!Next
  BY <1>1, <1>3, ApprovingStep, ParametersHold, AP!NextInv DEF AllInv
<1>4. CASE focus = "reserving" /\ Reserving!Next
  BY <1>1, <1>4, ReservingStep, ParametersHold, RP!NextInv DEF AllInv
<1> QED BY <1>2, <1>3, <1>4 DEF AllNext

LEMMA AllInductive == AllSpec => []AllInv
<1>1. AllInit => AllInv
  BY AllInitInv
<1>2. AllInv /\ [AllNext]_<<focus, vars, playbookVars>> => AllInv'
  BY AllNextInv
<1> QED BY <1>1, <1>2, PTL DEF AllSpec

\* Unless two calls overlapped on its row, an approval lets one execution
\* happen, by somebody else than who gave it: for any number of requests and
\* operators, verify_and_consume_approval and execute_playbook in any order.
THEOREM ApprovalSpentInRun == AllSpec => []ApprovalSpentOnce
<1>1. AllInv => ApprovalSpentOnce
  BY DEF AllInv, ApprovalSpentOnce, Approving!ApprovalSpentOnce, AP!IInv, RP!IInv, AP!SpendInv,
     RP!SpendInv, AP!ApprovalSpentOnce, RP!ApprovalSpentOnce
<1> QED BY <1>1, AllInductive, PTL

\* Unless two updates of the policy overlapped, the freeze is what an operator
\* last asked for, through any update of something else.
THEOREM FreezeInRun == AllSpec => []FreezeIsKept
<1>1. AllInv => FreezeIsKept
  BY DEF AllInv, FreezeIsKept, Reserving!FreezeIsKept, AP!IInv, RP!IInv, AP!FreezeIsKept,
     RP!FreezeIsKept
<1> QED BY <1>1, AllInductive, PTL

\* Reservations of one scope overlap only if their calls did, or a count
\* failed, with any number of calls of create_change_calendar_reservation.
THEOREM OverlapInRun == AllSpec => []NoUnseenOverlap
<1>1. AllInv => NoUnseenOverlap
  BY DEF AllInv, NoUnseenOverlap, Reserving!NoUnseenOverlap, AP!IInv, RP!IInv, AP!SlotInv,
     RP!SlotInv, AP!NoUnseenOverlap, RP!NoUnseenOverlap
<1> QED BY <1>1, AllInductive, PTL
=============================================================================
