--------------------------- MODULE MCAlertsTickets ---------------------------
(***************************************************************************)
(* Alerts for TLC, and in the same run what follows an incident: tickets   *)
(* and their escalation, the tickets of runbook risks, the incident        *)
(* command, backups and the evidence of restores.                          *)
(*                                                                         *)
(* `focus` says which of them a behaviour is about.  The others rest, and  *)
(* components that are never active together share `policy`, `now`, `runs` *)
(* and `calls`.                                                            *)
(***************************************************************************)
EXTENDS Alerts, Sequences, TLC

CONSTANTS
    TicketUsers, TicketPriorities, ActiveLimit, QueueLimit, MaxTickets, MaxActions,
                                                         \* tickets and escalations
    RiskUsers, RiskPriorities, Sources, MaxRiskTickets,  \* tickets of risks
    CommandOwners, Etas, MaxUpdates,                     \* incident command
    BackupKeys, BackupSchedules, DrillSchedules, Slas, Outcomes,
    DayLength, WeekLength, MonthLength, QuarterLength,
    MaxTime, MaxBackups, MaxEvidence                     \* backups and evidence

Calls == Operators       \* so that one symmetry serves every component
Absent == NoAlert        \* a value that is neither a string nor a number

VARIABLES focus, policy, now, runs, calls,
          ticketRows, requests, actions, links, risk, settled,  \* tickets
          command, events, writers, begun,                      \* incident command
          evidence, compliance, outdated                        \* backups

sharedVars == <<policy, now, runs, calls>>
ticketVars == <<ticketRows, requests, actions>>
linkVars == <<links, risk, settled>>
commandVars == <<command, events, writers, begun>>
backupVars == <<evidence, compliance, outdated>>

MatchBySeverity == [p \in Policies |-> IF p = "service-degradation" THEN "warning"
                                                                     ELSE "critical"]
Symmetry == Permutations(AlertKeys) \cup Permutations(Operators)
-----------------------------------------------------------------------------
(* One ticket in all its states and its escalation, two requests.            *)
Escalating == INSTANCE Tickets WITH
    tickets <- ticketRows, Users <- TicketUsers, Nobody <- "nobody",
    Priorities <- TicketPriorities, Thresholds <- {1, 2}, HasWorkflow <- {FALSE}, MaxNow <- 2

ASSUME LimitsAssumption == ActiveLimit \in Nat /\ QueueLimit \in Nat

(* Tickets of risks.                                                         *)
Linking == INSTANCE RiskTickets WITH
    tickets <- ticketRows, Users <- RiskUsers, Nobody <- "nobody", Priorities <- RiskPriorities,
    Thresholds <- {1, 2}, ActiveLimit <- 2, QueueLimit <- 2, HasWorkflow <- {},
    MaxTickets <- MaxRiskTickets, MaxNow <- 0, MaxActions <- 0

Commanding == INSTANCE IncidentCommand WITH Writers <- Calls, Owners <- CommandOwners

\* NULL is not a row of the command.
ASSUME AbsentAssumption ==
    Absent \notin [status : Commanding!Statuses, owner : CommandOwners, eta : Etas \cup {Absent}]

(* Backups, restore drills and the evidence of restores.                     *)
Backups == INSTANCE BackupDr WITH
    Policies <- BackupKeys, Never <- Absent, MaxNow <- MaxTime, MaxRuns <- MaxBackups

\* A day of one tick: a daily backup and a weekly drill.  The hours of a
\* service level fit into that tick.
Daily == {[every |-> "day", time |-> 0, weekday |-> 1]}
Weekly == {[every |-> "week", time |-> 0, weekday |-> 1]}

ASSUME NeverAssumption == Absent \notin Int

ASSUME OutcomesAssumption == Outcomes \subseteq BOOLEAN

\* A day, a week, a month and a quarter last for some time.
ASSUME CalendarAssumption ==
    /\ DayLength \in Nat \ {0} /\ WeekLength \in Nat \ {0}
    /\ MonthLength \in Nat \ {0} /\ QuarterLength \in Nat \ {0}

\* normalize_hhmm, normalize_schedule_weekday and normalize_drill_weekday
ASSUME ScheduleAssumption ==
    /\ BackupSchedules \subseteq [every : {"day", "week"}, time : 0..(DayLength - 1),
                                  weekday : 1..WeekLength]
    /\ DrillSchedules \subseteq [every : {"week", "month", "quarter"}, time : 0..(DayLength - 1),
                                 weekday : 1..WeekLength]
-----------------------------------------------------------------------------
NoShared == policy = <<>> /\ now = <<>> /\ runs = <<>> /\ calls = <<>>
NoTickets == ticketRows = <<>> /\ requests = <<>> /\ actions = <<>>
NoLinks == links = <<>> /\ risk = <<>> /\ settled = <<>>
NoCommand == command = <<>> /\ events = <<>> /\ writers = <<>> /\ begun = <<>>
NoBackups == evidence = <<>> /\ compliance = <<>> /\ outdated = <<>>

AllInit ==
    /\ Init
    /\ \/ /\ focus = "alerts"
          /\ NoShared /\ NoTickets /\ NoLinks /\ NoCommand /\ NoBackups
       \/ /\ focus = "escalating" /\ Escalating!Init
          /\ runs = <<>> /\ NoLinks /\ NoCommand /\ NoBackups
       \/ /\ focus = "linking" /\ Linking!InitRisk
          /\ runs = <<>> /\ NoCommand /\ NoBackups
       \/ /\ focus = "commanding" /\ Commanding!Init
          /\ NoShared /\ NoTickets /\ NoLinks /\ NoBackups
       \/ /\ focus \in {"scheduling", "proving"} /\ Backups!Init
          /\ NoTickets /\ NoLinks /\ NoCommand

\* The links of risks are explored without escalations, the evidence of
\* restores without later backups, and the schedules without evidence.
OnlyLinking ==
    /\ UNCHANGED policy
    /\ \A c \in Calls : calls'[c].pc \in {"idle", "link"}

OnlyScheduling ==
    /\ UNCHANGED compliance
    /\ \A c \in Calls : calls'[c].pc \notin {"attach", "evidence", "compliance"}

OnlyProving ==
    /\ Len(runs') <= 1
    /\ \A c \in Calls : /\ calls'[c].pc # "update"
                        /\ calls'[c].pc = "run" => \A e \in calls'[c].queue : e.due = Absent

AllNext ==
    /\ UNCHANGED focus
    /\ focus # "alerts" => UNCHANGED vars
    /\ \/ /\ focus = "alerts" /\ Next
          /\ UNCHANGED <<sharedVars, ticketVars, linkVars, commandVars, backupVars>>
       \/ /\ focus = "escalating" /\ Escalating!Next
          /\ UNCHANGED <<runs, linkVars, commandVars, backupVars>>
       \/ /\ focus = "linking" /\ Linking!NextRisk /\ OnlyLinking
          /\ UNCHANGED <<runs, commandVars, backupVars>>
       \/ /\ focus = "commanding" /\ Commanding!Next
          /\ UNCHANGED <<sharedVars, ticketVars, linkVars, backupVars>>
       \/ /\ focus \in {"scheduling", "proving"} /\ Backups!Next
          /\ focus = "scheduling" => OnlyScheduling
          /\ focus = "proving" => OnlyProving
          /\ UNCHANGED <<ticketVars, linkVars, commandVars>>

allVars == <<focus, vars, sharedVars, ticketVars, linkVars, commandVars, backupVars>>

AllSpec == AllInit /\ [][AllNext]_allVars
-----------------------------------------------------------------------------
(* The properties of those components that the run checks.                   *)

\* Tickets: a breach is escalated once, and the queue shows what is due.
BreachesAreShownAndEscalated ==
    focus = "escalating" => Escalating!EscalatedOnce /\ Escalating!QueueShowsDue

\* RiskTickets: a risk has one ticket unless two requests were under way at once.
OneRiskTicket == focus = "linking" => Linking!OneRiskTicket

\* IncidentCommand: the command and its events tell one story.
CommandIsCoherent == focus = "commanding" => Commanding!CommandIsCoherent

\* BackupDr: the next backup follows the schedule, and a closure stays.
BackupsAndEvidenceHold ==
    /\ [](focus = "scheduling" => Backups!ScheduleIsKept)
    /\ [][focus = "proving" => Backups!ClosureStands]_allVars
=============================================================================
