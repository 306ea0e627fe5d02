------------------------------- MODULE Alerts -------------------------------
(***************************************************************************)
(* The unified alert centre and its ticket policies.  Monitoring reports   *)
(* upsert and close alerts, operators acknowledge and close them one by    *)
(* one or in bulk, and every report ends in an evaluation of the ticket    *)
(* policies.  The row is written in one statement (or one locked           *)
(* transaction); its timeline event, the policy evaluation, the ticket and *)
(* the policy action follow in separate statements.                        *)
(*                                                                         *)
(* A policy matches on severity; a dedup window is open or over.           *)
(***************************************************************************)
EXTENDS Integers, FiniteSets

CONSTANTS
    AlertKeys, NoAlert,
    Policies, NoPolicy,
    MatchSeverity,  \* MatchSeverity[p]: match_severity of the enabled policy p
    Reporters,      \* tasks that report failures and recoveries
    Operators,      \* handlers of the alert API
    Modes,          \* modes in which playbooks are run for an alert
    MaxReports,     \* bound: failure reports of one alert
    MaxEvents,      \* bound: operators leave an alert alone after this many
                    \* acknowledgements and closures
    MaxFaults       \* bound: handlers that end half way

ASSUME PolicyAssumption == MatchSeverity \in [Policies -> {"warning", "critical"}]
ASSUME ModesAssumption == Modes \subseteq {"dry_run", "execute"}
ASSUME BoundsAssumption == MaxReports \in Nat /\ MaxEvents \in Nat /\ MaxFaults \in Nat
ASSUME NullAssumption == NoAlert \notin AlertKeys /\ NoPolicy \notin Policies
ASSUME FiniteAssumption == IsFiniteSet(Reporters) /\ IsFiniteSet(Operators)

VARIABLES
    row,         \* unified_alerts, one row per key
    timeline,    \* timeline[a][e]: events of type e in unified_alert_timeline
    tickets,     \* tickets[p][a]: tickets p opened for a in the dedup window
    lastAction,  \* lastAction[p][a]: latest ticket_created action of p for a
    rep,         \* rep[r]: local state of reporter r
    op,          \* op[o]: local state of operator handler o
    executed,    \* executed[a]: modes of the playbook executions related to a
    faults

vars == <<row, timeline, tickets, lastAction, rep, op, executed, faults>>
-----------------------------------------------------------------------------
Severity == {"warning", "critical"}
\* The events of chk_unified_alert_timeline_event_type, and those the code writes.
EventType == {"observed", "acknowledged", "closed", "reopened", "ticket_created"}
WrittenEvent == EventType \cup {"remediation_dry_run", "remediation_executed"}

Row == [status : {"absent", "open", "acknowledged", "closed"}, severity : Severity,
        acked : BOOLEAN, closed : BOOLEAN, reports : 0..MaxReports]
Reporter == [pc : {"idle", "insert", "event", "evaluate", "policies", "ticket", "record", "note"},
             alert : AlertKeys \cup {NoAlert}, severity : Severity,
             event : EventType, todo : SUBSET Policies, policy : Policies \cup {NoPolicy}]
Operator == [pc : {"idle", "update", "event"}, target : {"acknowledged", "closed"},
             todo : SUBSET AlertKeys, alert : AlertKeys \cup {NoAlert}]

IdleReporter == [pc |-> "idle", alert |-> NoAlert, severity |-> "warning",
                 event |-> "observed", todo |-> {}, policy |-> NoPolicy]
IdleOperator == [pc |-> "idle", target |-> "closed", todo |-> {}, alert |-> NoAlert]

TypeOK ==
    /\ row \in [AlertKeys -> Row]
    /\ timeline \in [AlertKeys -> [WrittenEvent -> Nat]]
    /\ tickets \in [Policies -> [AlertKeys -> Nat]]
    /\ lastAction \in [Policies -> [AlertKeys -> {"none", "recent", "old"}]]
    /\ rep \in [Reporters -> Reporter]
    /\ op \in [Operators -> Operator]
    /\ executed \in [AlertKeys -> SUBSET Modes]
    /\ faults \in 0..MaxFaults

Init ==
    /\ row = [a \in AlertKeys |-> [status |-> "absent", severity |-> "warning",
                                   acked |-> FALSE, closed |-> FALSE, reports |-> 0]]
    /\ timeline = [a \in AlertKeys |-> [e \in WrittenEvent |-> 0]]
    /\ tickets = [p \in Policies |-> [a \in AlertKeys |-> 0]]
    /\ lastAction = [p \in Policies |-> [a \in AlertKeys |-> "none"]]
    /\ rep = [r \in Reporters |-> IdleReporter]
    /\ op = [o \in Operators |-> IdleOperator]
    /\ executed = [a \in AlertKeys |-> {}]
    /\ faults = 0

\* insert_alert_timeline: the CHECK on event_type rejects any other event.
InsertEvent(a, e) ==
    timeline' = IF e \in EventType THEN [timeline EXCEPT ![a][e] = @ + 1] ELSE timeline
-----------------------------------------------------------------------------
(* upsert_monitoring_sync_alert *)

\* Seeded fault: a reopened alert keeps the stamps of its earlier life.
ReopenedKeepsStamps(old, severity) ==
    [old EXCEPT !.severity = severity, !.reports = @ + 1, !.status = "open"]

Observed(old, severity) ==
    [old EXCEPT !.severity = severity, !.reports = @ + 1, !.status = "open",
                !.acked = FALSE, !.closed = FALSE]

\* The upsert locks the row it finds; a row that is absent is inserted by a
\* later statement, which a second reporter's insert may precede.
Report(r, a, severity) ==
    /\ rep[r].pc = "idle"
    /\ row[a].reports < MaxReports
    /\ IF row[a].status = "absent"
       THEN /\ rep' = [rep EXCEPT ![r] = [@ EXCEPT !.pc = "insert", !.alert = a,
                                                   !.severity = severity,
                                                   !.event = "observed"]]
            /\ UNCHANGED row
       ELSE /\ row' = [row EXCEPT ![a] = Observed(@, severity)]
            /\ rep' = [rep EXCEPT ![r] =
                 [@ EXCEPT !.pc = "event", !.alert = a, !.severity = severity,
                           !.event = IF row[a].status = "open" THEN "observed" ELSE "reopened"]]
    /\ UNCHANGED <<timeline, tickets, lastAction, op, executed, faults>>

\* uq_unified_alerts_source_key rejects the second insert of a key.
InsertAlert(r) ==
    LET a == rep[r].alert
    IN  /\ rep[r].pc = "insert"
        /\ IF row[a].status = "absent"
           THEN /\ row' = [row EXCEPT ![a] = [@ EXCEPT !.status = "open", !.reports = 1,
                                                       !.severity = rep[r].severity]]
                /\ rep' = [rep EXCEPT ![r].pc = "event"]
           ELSE rep' = [rep EXCEPT ![r] = IdleReporter] /\ UNCHANGED row
        /\ UNCHANGED <<timeline, tickets, lastAction, op, executed, faults>>

\* Seeded fault: the event of a recovery is lost.
RecoveryWritesNoEvent(r) ==
    /\ rep[r].pc = "event"
    /\ IF rep[r].event = "closed" THEN UNCHANGED timeline
                                  ELSE InsertEvent(rep[r].alert, rep[r].event)
    /\ rep' = [rep EXCEPT ![r] = IF rep[r].event = "closed" THEN IdleReporter
                                                            ELSE [@ EXCEPT !.pc = "evaluate"]]
    /\ UNCHANGED <<row, tickets, lastAction, op, executed, faults>>

\* A failure report goes on to the policies, a recovery ends with its event.
WriteEvent(r) ==
    /\ rep[r].pc = "event"
    /\ InsertEvent(rep[r].alert, rep[r].event)
    /\ rep' = [rep EXCEPT ![r] = IF rep[r].event = "closed" THEN IdleReporter
                                                            ELSE [@ EXCEPT !.pc = "evaluate"]]
    /\ UNCHANGED <<row, tickets, lastAction, op, executed, faults>>

\* close_monitoring_sync_alert: one conditional update, then the event.
Recover(r, a) ==
    /\ rep[r].pc = "idle"
    /\ row[a].status \in {"open", "acknowledged"}
    /\ row' = [row EXCEPT ![a].status = "closed", ![a].closed = TRUE]
    /\ rep' = [rep EXCEPT ![r] = [@ EXCEPT !.pc = "event", !.alert = a, !.event = "closed"]]
    /\ UNCHANGED <<timeline, tickets, lastAction, op, executed, faults>>
-----------------------------------------------------------------------------
(* evaluate_alert_ticket_policies *)

\* The alert is read again: by now it may be acknowledged, closed, or of
\* another severity.
Evaluate(r) ==
    LET a == rep[r].alert
    IN  /\ rep[r].pc = "evaluate"
        /\ rep' = [rep EXCEPT ![r] =
             IF row[a].status = "open"
             THEN [@ EXCEPT !.pc = "policies",
                            !.todo = {p \in Policies : MatchSeverity[p] = row[a].severity}]
             ELSE IdleReporter]
        /\ UNCHANGED <<row, timeline, tickets, lastAction, op, executed, faults>>

\* Seeded fault: the dedup window is never open.
WithinWindowNever(p, a) == FALSE

\* Seeded fault: the comparison with the window is the wrong way round.
WithinWindowInverted(p, a) == lastAction[p][a] # "recent"

\* is_within_dedup_window, of the latest ticket_created action.
WithinWindow(p, a) == lastAction[p][a] = "recent"

\* One policy after the other, in any order; a suppressed one leaves a suppressed action.
NextPolicy(r) ==
    LET a == rep[r].alert
    IN  /\ rep[r].pc = "policies"
        /\ \/ /\ rep[r].todo = {}
              /\ rep' = [rep EXCEPT ![r] = IdleReporter]
           \/ \E p \in rep[r].todo :
                LET left == rep[r].todo \ {p}
                IN  rep' = [rep EXCEPT ![r] =
                      IF WithinWindow(p, a)
                      THEN [@ EXCEPT !.todo = left]
                      ELSE [@ EXCEPT !.todo = left, !.pc = "ticket", !.policy = p]]
        /\ UNCHANGED <<row, timeline, tickets, lastAction, op, executed, faults>>

\* Seeded fault: the action is recorded before the ticket exists.
RecordFirst(r) ==
    /\ rep[r].pc = "ticket"
    /\ lastAction' = [lastAction EXCEPT ![rep[r].policy][rep[r].alert] = "recent"]
    /\ rep' = [rep EXCEPT ![r].pc = "record"]
    /\ UNCHANGED <<row, timeline, tickets, op, executed, faults>>

\* create_ticket_from_alert, a transaction of its own; it opens the ticket
\* whatever became of the alert.
CreateTicket(r) ==
    /\ rep[r].pc = "ticket"
    /\ tickets' = [tickets EXCEPT ![rep[r].policy][rep[r].alert] = @ + 1]
    /\ rep' = [rep EXCEPT ![r].pc = "record"]
    /\ UNCHANGED <<row, timeline, lastAction, op, executed, faults>>

\* A ticket that could not be created is logged; the next policy follows.
TicketFails(r) ==
    /\ rep[r].pc = "ticket"
    /\ faults < MaxFaults
    /\ faults' = faults + 1
    /\ rep' = [rep EXCEPT ![r] = [@ EXCEPT !.pc = "policies", !.policy = NoPolicy]]
    /\ UNCHANGED <<row, timeline, tickets, lastAction, op, executed>>

RecordAction(r) ==
    /\ rep[r].pc = "record"
    /\ lastAction' = [lastAction EXCEPT ![rep[r].policy][rep[r].alert] = "recent"]
    /\ rep' = [rep EXCEPT ![r].pc = "note"]
    /\ UNCHANGED <<row, timeline, tickets, op, executed, faults>>

NoteTicket(r) ==
    /\ rep[r].pc = "note"
    /\ InsertEvent(rep[r].alert, "ticket_created")
    /\ rep' = [rep EXCEPT ![r] = [@ EXCEPT !.pc = "policies", !.policy = NoPolicy]]
    /\ UNCHANGED <<row, tickets, lastAction, op, executed, faults>>

\* The window, 30 s at least, outlasts an evaluation that is under way.
WindowElapses(p, a) ==
    /\ tickets[p][a] > 0 \/ lastAction[p][a] = "recent"
    /\ \A r \in Reporters : ~(rep[r].alert = a /\ rep[r].pc \in {"ticket", "record"})
    /\ tickets' = [tickets EXCEPT ![p][a] = 0]
    /\ lastAction' = [lastAction EXCEPT ![p][a] = IF @ = "recent" THEN "old" ELSE @]
    /\ UNCHANGED <<row, timeline, rep, op, executed, faults>>
-----------------------------------------------------------------------------
(* acknowledge, close, bulk acknowledge and bulk close; a single request is *)
(* a bulk of one.                                                           *)

StartBulk(o, S, target) ==
    /\ op[o].pc = "idle"
    /\ S # {}
    /\ \A a \in S : timeline[a]["acknowledged"] + timeline[a]["closed"] < MaxEvents
    /\ op' = [op EXCEPT ![o] = [pc |-> "update", target |-> target, todo |-> S,
                                alert |-> NoAlert]]
    /\ UNCHANGED <<row, timeline, tickets, lastAction, rep, executed, faults>>

\* Seeded fault: the update lost its status <> 'closed'.
UpdateAnyStatus(o, a) ==
    LET target == op[o].target
    IN  /\ op[o].pc = "update"
        /\ a \in op[o].todo
        /\ row[a].status # "absent"
        /\ row' = [row EXCEPT ![a] = [@ EXCEPT !.status = target,
                                               !.acked = (target = "acknowledged") \/ @,
                                               !.closed = (target = "closed")]]
        /\ op' = [op EXCEPT ![o] = [@ EXCEPT !.pc = "event", !.alert = a,
                                             !.todo = @ \ {a}]]
        /\ UNCHANGED <<timeline, tickets, lastAction, rep, executed, faults>>

\* update_alert_status: the update is conditional on the row not being
\* closed; an alert it does not find is skipped.
UpdateStatus(o, a) ==
    LET target == op[o].target
    IN  /\ op[o].pc = "update"
        /\ a \in op[o].todo
        /\ IF row[a].status \in {"open", "acknowledged"}
           THEN /\ row' = [row EXCEPT ![a] =
                     [@ EXCEPT !.status = target,
                               !.acked = (target = "acknowledged" \/ row[a].acked),
                               !.closed = (target = "closed")]]
                /\ op' = [op EXCEPT ![o] = [@ EXCEPT !.pc = "event", !.alert = a,
                                                     !.todo = op[o].todo \ {a}]]
           ELSE /\ op' = [op EXCEPT ![o].todo = op[o].todo \ {a}]
                /\ UNCHANGED row
        /\ UNCHANGED <<timeline, tickets, lastAction, rep, executed, faults>>

WriteStatusEvent(o) ==
    /\ op[o].pc = "event"
    /\ InsertEvent(op[o].alert, op[o].target)
    /\ op' = [op EXCEPT ![o] = [@ EXCEPT !.pc = "update", !.alert = NoAlert]]
    /\ UNCHANGED <<row, tickets, lastAction, rep, executed, faults>>

FinishBulk(o) ==
    /\ op[o].pc = "update"
    /\ op[o].todo = {}
    /\ op' = [op EXCEPT ![o] = IdleOperator]
    /\ UNCHANGED <<row, timeline, tickets, lastAction, rep, executed, faults>>
-----------------------------------------------------------------------------
(* A playbook run, or rehearsed, for an alert: the execution is inserted,    *)
(* then its timeline event, whose failure is only logged.                    *)

\* append_alert_remediation_timeline under write_..._best_effort.
Remediate(a, mode) ==
    /\ row[a].status # "absent"
    /\ mode \notin executed[a]
    /\ executed' = [executed EXCEPT ![a] = @ \cup {mode}]
    /\ InsertEvent(a, IF mode = "dry_run" THEN "remediation_dry_run" ELSE "remediation_executed")
    /\ UNCHANGED <<row, tickets, lastAction, rep, op, faults>>
-----------------------------------------------------------------------------
(* A failed statement, a dropped request or a restart ends a handler where   *)
(* it is: between the row and its event, or between ticket and action.       *)

ReporterAborts(r) ==
    /\ rep[r].pc # "idle"
    /\ faults < MaxFaults
    /\ faults' = faults + 1
    /\ rep' = [rep EXCEPT ![r] = IdleReporter]
    /\ UNCHANGED <<row, timeline, tickets, lastAction, op, executed>>

OperatorAborts(o) ==
    /\ op[o].pc # "idle"
    /\ faults < MaxFaults
    /\ faults' = faults + 1
    /\ op' = [op EXCEPT ![o] = IdleOperator]
    /\ UNCHANGED <<row, timeline, tickets, lastAction, rep, executed>>
-----------------------------------------------------------------------------
ReporterStep(r) ==
    \/ InsertAlert(r)
    \/ WriteEvent(r)
    \/ Evaluate(r)
    \/ NextPolicy(r)
    \/ CreateTicket(r)
    \/ TicketFails(r)
    \/ RecordAction(r)
    \/ NoteTicket(r)

OperatorStep(o) ==
    \/ \E a \in AlertKeys : UpdateStatus(o, a)
    \/ WriteStatusEvent(o)
    \/ FinishBulk(o)

Next ==
    \/ \E r \in Reporters, a \in AlertKeys, severity \in Severity : Report(r, a, severity)
    \/ \E r \in Reporters, a \in AlertKeys : Recover(r, a)
    \/ \E r \in Reporters : ReporterStep(r) \/ ReporterAborts(r)
    \/ \E p \in Policies, a \in AlertKeys : WindowElapses(p, a)
    \/ \E o \in Operators, S \in SUBSET AlertKeys, target \in {"acknowledged", "closed"} :
         StartBulk(o, S, target)
    \/ \E o \in Operators : OperatorStep(o) \/ OperatorAborts(o)
    \/ \E a \in AlertKeys, mode \in Modes : Remediate(a, mode)

Spec == Init /\ [][Next]_vars
-----------------------------------------------------------------------------
(* Properties *)

\* acknowledged_by and closed_by agree with the status through every race of
\* reopening, acknowledging and closing.
StampsMatchStatus ==
    \A a \in AlertKeys :
        CASE row[a].status \in {"absent", "open"} -> ~row[a].acked /\ ~row[a].closed
          [] row[a].status = "acknowledged" -> row[a].acked /\ ~row[a].closed
          [] row[a].status = "closed" -> row[a].closed

\* A suppression, or a record of a ticket, always has a ticket behind it:
\* an interrupted evaluation never silences an incident nobody has.
SuppressionHasTicket ==
    \A p \in Policies, a \in AlertKeys : lastAction[p][a] = "recent" => tickets[p][a] >= 1

Quiet(a) ==
    /\ \A r \in Reporters : rep[r].alert # a
    /\ \A o \in Operators : op[o].alert # a

\* Unless something failed, an alert left open has had a ticket from every
\* policy of its severity, however reports and operators interleaved.
OpenAlertHasTicket ==
    faults = 0 =>
        \A a \in AlertKeys : Quiet(a) /\ row[a].status = "open" =>
            \A p \in Policies :
                MatchSeverity[p] = row[a].severity => lastAction[p][a] # "none"

\* However reports, recoveries, operators and evaluations interleave, nobody is
\* left with an alert and no ticket: a suppression has a ticket behind it, and
\* unless something failed every policy of its severity has seen an open alert.
EveryAlertHasTicket == SuppressionHasTicket /\ OpenAlertHasTicket

\* Unless something failed, the timeline of an alert at rest accounts for its
\* status: one acknowledgement or closure more than reopenings when it is not
\* open, and at least as many when it is.
TimelineAccounts ==
    faults = 0 =>
        \A a \in AlertKeys : Quiet(a) =>
            LET ended == timeline[a]["acknowledged"] + timeline[a]["closed"]
                left == IF row[a].status \in {"acknowledged", "closed"} THEN 1 ELSE 0
            IN  /\ ended >= timeline[a]["reopened"] + left
                /\ timeline[a]["observed"] >= 1 <=> row[a].status # "absent"

\* A closed alert comes back only as open and with its stamps cleared: only a
\* new report revives it, never an acknowledgement that was under way.
ClosedUntilReported ==
    [][\A a \in AlertKeys : row[a].status = "closed" /\ row'[a].status # "closed" =>
           /\ row'[a].status = "open"
           /\ ~row'[a].acked /\ ~row'[a].closed
           /\ row'[a].reports = row[a].reports + 1]_vars

\* The dedup window: with the reports of an alert coming from one process, a
\* policy opens one ticket per alert and window unless an evaluation failed.
OneTicketPerWindow ==
    faults = 0 => \A p \in Policies, a \in AlertKeys : tickets[p][a] <= 1

\* Release note v0.1.3: remediation comes "with dry-run confirmation and
\* timeline persistence", so an executed remediation is on the timeline.
RemediationOnTimeline ==
    \A a \in AlertKeys :
        "execute" \in executed[a] => timeline[a]["remediation_executed"] >= 1
=============================================================================
