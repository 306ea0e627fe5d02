------------------------- MODULE MCWorkflowRunbooks -------------------------
(***************************************************************************)
(* Workflow for TLC: a template with a step of every kind, a script before *)
(* and after the barriers.  In the same run, the runbooks and their        *)
(* analytics, which have no part in it: `focus` says what a behaviour is   *)
(* about.                                                                  *)
(***************************************************************************)
EXTENDS Workflow, TLC

MixedTemplate == <<"approval", "script", "manual", "manual_script", "script">>

VARIABLES focus, policy, analytics, presets, executions, calls

runbookVars == <<policy, analytics, presets, executions, calls>>

Good == [form |-> "text", is |-> "good"]
Wrong == [form |-> "number", is |-> "bad"]

(* Two requests race for the policy and the executions of a live template.   *)
Racing == INSTANCE RunbookAnalytics WITH
    runs <- executions, Calls <- {"c", "d"}, Templates <- {"dependency_check"},
    PresetNames <- {}, OwnInputs <- {Good}, FailInputs <- {0, 2}, Thresholds <- {50},
    Samples <- {1}, ScanRows <- 1, FeedRows <- 1, MaxRuns <- 2, MaxPresets <- 0

(* One request after the other, with every kind of parameter.                *)
Replaying == INSTANCE RunbookAnalytics WITH
    runs <- executions, Calls <- {"c"}, Templates <- {"dependency_check", "backup_verify"},
    PresetNames <- {}, FailInputs <- {0, 4}, Thresholds <- {50}, Samples <- {1, 2},
    OwnInputs <- {Good, Wrong, [form |-> "text", is |-> "bad"],
                  [form |-> "absent", is |-> "nothing"]},
    ScanRows <- 2, FeedRows <- 1, MaxRuns <- 3, MaxPresets <- 0

Presetting == INSTANCE RunbookAnalytics WITH
    runs <- executions, Calls <- {"c"}, Templates <- {"backup_verify"}, PresetNames <- {"p", "q"},
    OwnInputs <- {Good, Wrong, [form |-> "null", is |-> "nothing"]}, FailInputs <- {0, 1},
    Thresholds <- {50}, Samples <- {1}, ScanRows <- 2, FeedRows <- 1, MaxRuns <- 0,
    MaxPresets <- 2

AllInit ==
    /\ Init
    /\ \/ /\ focus = "workflow"
          /\ policy = <<>> /\ analytics = <<>> /\ presets = <<>> /\ executions = <<>> /\ calls = <<>>
       \/ focus = "racing" /\ Racing!Init
       \/ focus = "replaying" /\ Replaying!Init
       \/ focus = "presetting" /\ Presetting!Init

AllNext ==
    /\ UNCHANGED focus
    /\ \/ focus = "workflow" /\ Next /\ UNCHANGED runbookVars
       \/ focus = "racing" /\ Racing!Next /\ UNCHANGED vars
       \/ focus = "replaying" /\ Replaying!Next /\ UNCHANGED vars
       \/ focus = "presetting" /\ Presetting!Next /\ UNCHANGED vars

\* The fairness of Workflow; a runbook is under no obligation to proceed.
AllFairSpec ==
    /\ AllInit /\ [][AllNext]_<<focus, vars, runbookVars>>
    /\ \A h \in Handlers : WF_vars(HandlerStep(h) /\ UNCHANGED <<focus, runbookVars>>)
-----------------------------------------------------------------------------
(* The properties of the runbooks that the run checks.                       *)

\* Runbooks: the policy is never half of one request and half of another, and
\* a replay does what the execution did that it repeats.
RunbooksRepeat ==
    /\ focus = "racing" => Racing!PolicyStaysCoherent /\ Racing!ReplayRepeats
    /\ focus = "replaying" => Replaying!PolicyStaysCoherent /\ Replaying!ReplayRepeats
    /\ focus = "presetting" => Presetting!PolicyStaysCoherent

\* RunbookAnalytics: the ways of counting executions agree.
AnalyticsAgree ==
    /\ focus = "racing" => Racing!AnalyticsAgree
    /\ focus = "replaying" => Replaying!AnalyticsAgree
=============================================================================
