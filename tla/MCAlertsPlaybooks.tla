------------------------- MODULE MCAlertsPlaybooks -------------------------
(***************************************************************************)
(* Alerts, playbooks and the change calendar for TLC.  The components that *)
(* share a run do not interact: `focus` says which of them the behaviour   *)
(* is about, and the others rest.                                          *)
(***************************************************************************)
EXTENDS Alerts, TLC

Calls == Reporters       \* so that one symmetry serves both components
Actors == Operators
ApprovalIds == {"first", "second"}
Everywhere == "everywhere"

VARIABLES focus, now, policy, approvals, workflowPending, reservations, calls,
          dryRuns, runs, asked, stale

playbookVars == <<now, policy, approvals, workflowPending, reservations, calls,
                  dryRuns, runs, asked, stale>>

MatchBySeverity == [p \in Policies |-> IF p = "service-degradation" THEN "warning"
                                                                     ELSE "critical"]
Symmetry == Permutations(AlertKeys) \cup Permutations(Reporters) \cup Permutations(Operators)

\* A day of two ticks and a week of two days; one dry run with two approvals.
Approving == INSTANCE Playbooks WITH
    DayLength <- 2, WeekLength <- 2, TTL <- 1, MaxNow <- 2, MaxRuns <- 2, DryRunIds <- {"dry run"},
    Slots <- {}, Sites <- {}, Counted <- {}, FreezeInputs <- {}, WindowInputs <- {}, Backlogs <- {}

\* Overlapping reservations and updates of the policy, on one day.
Reserving == INSTANCE Playbooks WITH
    DayLength <- 2, WeekLength <- 2, TTL <- 1, MaxNow <- 0, MaxRuns <- 2, DryRunIds <- {},
    Slots <- {[start |-> 0, end |-> 3], [start |-> 1, end |-> 2]}, Sites <- {"site"},
    Counted <- BOOLEAN, FreezeInputs <- {{}, {TRUE}, {FALSE}}, Backlogs <- {TRUE},
    WindowInputs <- {{}, {[day |-> 1, start |-> 0, end |-> 1]}}

Foci == {"alerts", "approving", "reserving"}

AllInit == focus \in Foci /\ Init /\ Approving!Init

AllNext ==
    /\ UNCHANGED focus
    /\ \/ focus = "alerts" /\ Next /\ UNCHANGED playbookVars
       \/ focus = "approving" /\ Approving!Next /\ UNCHANGED vars
       \/ focus = "reserving" /\ Reserving!Next /\ UNCHANGED vars

AllSpec == AllInit /\ [][AllNext]_<<focus, vars, playbookVars>>

\* The properties of Playbooks and ChangeCalendar that the run checks: what an
\* approval allows, what an update of the policy keeps, what a reservation saw.
ApprovalSpentOnce == Approving!ApprovalSpentOnce
FreezeIsKept == Reserving!FreezeIsKept
NoUnseenOverlap == Reserving!NoUnseenOverlap
=============================================================================
