------------------------------ MODULE Runbooks ------------------------------
(***************************************************************************)
(* Runbook templates: their parameters, the policy that decides which may  *)
(* run for real, presets, executions with their timelines, replays, and    *)
(* the analytics computed from the stored executions.                      *)
(*                                                                         *)
(* Each template has three steps and one parameter of its own that can     *)
(* make a step fail.  A value is its JSON form and what the template makes *)
(* of it; checklists, evidence and timeouts are not distinguished.         *)
(***************************************************************************)
EXTENDS Integers, Sequences, FiniteSets, FiniteSetsExt

CONSTANTS
    Calls,        \* concurrent requests to the API
    Templates,    \* the templates in use, among those of built_in_runbook_templates
    PresetNames,
    OwnInputs,    \* what requests say of the template's own parameter, among Given
    FailInputs,   \* steps they ask to fail, among FailSteps
    Thresholds,   \* failure rates that raise a risk alert, in percent
    Samples,      \* fewest executions that do
    ScanRows,     \* rows the analytics read (MAX_ANALYTICS_SCAN_ROWS)
    FeedRows,     \* rows of a page of the failure feed
    MaxRuns, MaxPresets   \* bounds

VARIABLES
    policy,      \* ops_runbook_execution_policies: the one row
    analytics,   \* ops_runbook_analytics_policies: the one row
    presets,     \* ops_runbook_execution_presets
    runs,        \* ops_runbook_template_executions in order of insertion
    calls        \* calls[c]: the handler's local state

vars == <<policy, analytics, presets, runs, calls>>

Modes == {"simulate", "live"}
LastStep == 3
NoStep == 0
NoRun == 0

\* What tells the four templates apart: whether they may run for real, the
\* parameter that can make a step fail, its default, and which step that is.
ServiceRestartSafe == [live |-> FALSE, type |-> "text", default |-> {"good"}, step |-> 3]
DependencyCheck == [live |-> TRUE, type |-> "text", default |-> {}, step |-> 2]
BackupVerify == [live |-> FALSE, type |-> "number", default |-> {"good"}, step |-> 2]
MaintenanceCloseout == [live |-> FALSE, type |-> "number", default |-> {"good"}, step |-> 2]

BuiltIn == [service_restart_safe |-> ServiceRestartSafe, dependency_check |-> DependencyCheck,
            backup_verify |-> BackupVerify, maintenance_closeout |-> MaintenanceCloseout]

Supports(t, mode) == mode = "live" => BuiltIn[t].live

Idle == [pc |-> "idle"]
At(c, pc) == calls[c].pc = pc
Goto(c, state) == calls' = [calls EXCEPT ![c] = state]
-----------------------------------------------------------------------------
(* Parameters *)

\* What a request says of a parameter: nothing, null, or a value, that is
\* refused if it is empty, too long or out of bounds.
Given == [form : {"text", "number"}, is : {"good", "bad", "refused"}]
         \cup [form : {"absent", "null"}, is : {"nothing"}]

\* The template's own parameter is required: a default replaces what is absent
\* but not a null; a number may come as a text.
OwnParam(t, given) ==
    LET type == BuiltIn[t].type
    IN IF given.form = "absent" THEN {[form |-> type, is |-> d] : d \in BuiltIn[t].default}
       ELSE IF given.is \in {"good", "bad"} /\ given.form \in {"text", type}
       THEN {[form |-> type, is |-> given.is]}
       ELSE {}

\* normalize_runbook_params, without the keys no template knows: the empty set
\* is a refusal.
NormalParams(t, own, failAt) == {[own |-> p, failAt |-> failAt] : p \in OwnParam(t, own)}

\* simulate_failure_step may name any text: `LastStep + 1` is no step at all.
FailSteps == {NoStep} \cup 1..LastStep + 1

\* Seeded fault: the template's own check is made before the requested failure.
OwnCheckOnly(t, params, step) == step = BuiltIn[t].step /\ params.own.is = "bad"

StepFails(t, params, step) ==
    \/ params.failAt = step
    \/ step = BuiltIn[t].step /\ params.own.is = "bad"
-----------------------------------------------------------------------------
(* Policies *)

\* The row in which a mode runs for real names templates that can.
IsPolicy(p) == /\ p.mode = "hybrid_live" => p.live # {}
               /\ \A t \in p.live : Supports(t, "live")

Allows(p, t, mode) ==
    mode = "live" => p.mode = "hybrid_live" /\ Supports(t, "live") /\ t \in p.live

MayFail(p, mode, failAt) ==
    failAt # NoStep => mode = "simulate" /\ p.allowFailure

Init ==
    /\ policy = [mode |-> "simulate_only", live |-> {}, allowFailure |-> TRUE]
    /\ analytics \in [threshold : Thresholds, sample : Samples]
    /\ presets = {} /\ runs = <<>>
    /\ calls = [c \in Calls |-> Idle]

\* The update reads the row, puts the fields it was given in place of the
\* ones it read, and writes the whole row.
ReadPolicy(c) ==
    /\ calls[c] = Idle
    /\ Goto(c, [pc |-> "policy", seen |-> policy])
    /\ UNCHANGED <<policy, analytics, presets, runs>>

Fields == {"mode", "live", "allowFailure"}
PolicyInputs == [mode : {"simulate_only", "hybrid_live"}, live : SUBSET Templates,
                 allowFailure : BOOLEAN]

\* Seeded fault: only the given fields are written, over what is stored by then.
WriteGivenFields(c) ==
    /\ At(c, "policy")
    /\ \E input \in PolicyInputs, given \in SUBSET Fields :
         LET merged(p) == [f \in Fields |-> IF f \in given THEN input[f] ELSE p[f]]
         IN IsPolicy(merged(calls[c].seen)) /\ policy' = merged(policy)
    /\ Goto(c, Idle)
    /\ UNCHANGED <<analytics, presets, runs>>

WritePolicy(c) ==
    /\ At(c, "policy")
    /\ \E input \in PolicyInputs, given \in SUBSET Fields :
         LET merged == [f \in Fields |-> IF f \in given THEN input[f] ELSE calls[c].seen[f]]
         IN IsPolicy(merged) /\ policy' = merged
    /\ Goto(c, Idle)
    /\ UNCHANGED <<analytics, presets, runs>>

UpdateAnalytics ==
    /\ analytics' \in [threshold : Thresholds, sample : Samples]
    /\ UNCHANGED <<policy, presets, runs, calls>>
-----------------------------------------------------------------------------
(* Presets: a unique index stands behind the check for the name. *)

CreatePreset ==
    /\ Cardinality(presets) < MaxPresets
    /\ \E t \in Templates, name \in PresetNames, mode \in Modes, own \in OwnInputs, f \in FailInputs :
         /\ Supports(t, mode) /\ ~\E p \in presets : p.template = t /\ p.name = name
         /\ \E params \in NormalParams(t, own, f) :
              presets' = presets \cup {[template |-> t, name |-> name, mode |-> mode,
                                        params |-> params]}
    /\ UNCHANGED <<policy, analytics, runs, calls>>

UpdatePreset ==
    /\ \E p \in presets, name \in PresetNames, mode \in Modes, own \in OwnInputs, f \in FailInputs :
         /\ Supports(p.template, mode)
         /\ ~\E q \in presets \ {p} : q.template = p.template /\ q.name = name
         /\ \E params \in NormalParams(p.template, own, f) \cup {p.params} :
              presets' = (presets \ {p}) \cup
                  {[p EXCEPT !.name = name, !.mode = mode, !.params = params]}
    /\ UNCHANGED <<policy, analytics, runs, calls>>

DeletePreset ==
    /\ \E p \in presets : presets' = presets \ {p}
    /\ UNCHANGED <<policy, analytics, runs, calls>>
-----------------------------------------------------------------------------
(* Executions.  The handler reads the policy, runs the template, which takes *)
(* its time in live mode, and then inserts one row.                          *)

Begin(c, t, mode, params, source) ==
    /\ Allows(policy, t, mode) /\ MayFail(policy, mode, params.failAt)
    /\ Goto(c, [pc |-> "running", template |-> t, mode |-> mode, params |-> params,
                source |-> source])
    /\ UNCHANGED <<policy, analytics, presets, runs>>

Execute(c) ==
    /\ calls[c] = Idle /\ Len(runs) < MaxRuns
    /\ \E t \in Templates, mode \in Modes, own \in OwnInputs, f \in FailInputs :
         \E params \in NormalParams(t, own, f) : Begin(c, t, mode, params, NoRun)

\* A replay takes the stored parameters through the same checks.
Replay(c) ==
    /\ calls[c] = Idle /\ Len(runs) < MaxRuns
    /\ \E i \in DOMAIN runs : \E mode \in Modes :
         \E params \in NormalParams(runs[i].template, runs[i].params.own, runs[i].params.failAt) :
           Begin(c, runs[i].template, mode, params, i)

\* A simulation stops at the first step that fails.
FirstFailure(t, params) ==
    LET failing == {s \in 1..LastStep : StepFails(t, params, s)}
    IN IF failing = {} THEN NoStep ELSE Min(failing)

\* Of the live run the second step is the probe, which fails or not; the
\* timeline has the steps up to a failure.
Outcomes(call) ==
    {[failed |-> s, steps |-> IF s = NoStep THEN LastStep ELSE s] :
        s \in IF call.mode = "live" THEN {NoStep, 2}
                                    ELSE {FirstFailure(call.template, call.params)}}

InsertRun(c) ==
    /\ At(c, "running") /\ Len(runs) < MaxRuns
    /\ \E o \in Outcomes(calls[c]) :
         runs' = Append(runs, [template |-> calls[c].template, mode |-> calls[c].mode,
                               params |-> calls[c].params, source |-> calls[c].source,
                               status |-> IF o.failed = NoStep THEN "succeeded" ELSE "failed",
                               failed |-> o.failed, steps |-> o.steps,
                               hints |-> IF o.failed = NoStep THEN 0 ELSE 1])
    /\ Goto(c, Idle)
    /\ UNCHANGED <<policy, analytics, presets>>

\* A handler that is cut off, in the probe for instance, leaves no row.
CutOff(c) ==
    /\ calls[c] # Idle
    /\ Goto(c, Idle)
    /\ UNCHANGED <<policy, analytics, presets, runs>>

Next ==
    \/ UpdateAnalytics \/ CreatePreset \/ UpdatePreset \/ DeletePreset
    \/ \E c \in Calls : \/ ReadPolicy(c) \/ WritePolicy(c) \/ Execute(c) \/ Replay(c)
                        \/ InsertRun(c) \/ CutOff(c)

Spec == Init /\ [][Next]_vars
=============================================================================
