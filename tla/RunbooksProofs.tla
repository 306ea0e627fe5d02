--------------------------- MODULE RunbooksProofs ---------------------------
(***************************************************************************)
(* Proofs about Runbooks and RunbookAnalytics for every number of          *)
(* requests, executions and presets: the policy stays coherent, a replay   *)
(* repeats what it replays, and the ways of counting executions agree.     *)
(***************************************************************************)
EXTENDS RunbookAnalytics, FiniteSetTheorems, WellFoundedInduction, TLAPS

\* The parameters that the code admits: its templates, the forms a value may
\* have, and limits of queries that let at least one failure through.
ParametersOK ==
    /\ Templates \subseteq DOMAIN BuiltIn
    /\ OwnInputs \subseteq Given
    /\ FailInputs \subseteq FailSteps
    /\ ScanRows \in Nat /\ FeedRows \in Nat \ {0}
-----------------------------------------------------------------------------
(* The inductive invariant *)

PolicyRow == [mode : {"simulate_only", "hybrid_live"}, live : SUBSET Templates,
              allowFailure : BOOLEAN]
Params == [own : [form : {"text", "number"}, is : {"good", "bad"}], failAt : FailSteps]
Preset == [template : Templates, name : PresetNames, mode : Modes, params : Params]
Run == [template : Templates, mode : Modes, params : Params, source : Nat,
        status : {"succeeded", "failed"}, failed : Nat, steps : Nat, hints : Nat]
PolicyCall == [pc : {"policy"}, seen : PolicyRow]
RunCall == [pc : {"running"}, template : Templates, mode : Modes, params : Params, source : Nat]

TypeOK ==
    /\ policy \in PolicyRow
    /\ analytics \in [threshold : Thresholds, sample : Samples]
    /\ presets \subseteq Preset
    /\ runs \in Seq(Run)
    /\ calls \in [Calls -> {Idle} \cup PolicyCall \cup RunCall]

\* The parameters of an execution are those its template makes of them, and
\* only a simulation is asked to fail; a replay has those of its source.
Fits(x) == /\ x.params.own.form = BuiltIn[x.template].type
           /\ x.mode = "live" => x.params.failAt = NoStep
RepeatsSource(x, last) ==
    x.source # NoRun => /\ x.source \in 1..last
                        /\ runs[x.source].template = x.template
                        /\ runs[x.source].params = x.params

CallsFit ==
    \A c \in Calls : At(c, "running") => Fits(calls[c]) /\ RepeatsSource(calls[c], Len(runs))

\* The row tells the outcome that its template has with its parameters.
Outcome(x) ==
    /\ x.failed \in 0..LastStep
    /\ x.steps = IF x.failed = NoStep THEN LastStep ELSE x.failed
    /\ x.status = IF x.failed = NoStep THEN "succeeded" ELSE "failed"
    /\ x.mode = "simulate" => x.failed = FirstFailure(x.template, x.params)

RunsFit ==
    \A i \in DOMAIN runs : Fits(runs[i]) /\ Outcome(runs[i]) /\ RepeatsSource(runs[i], i - 1)

\* The presets of a template have names of their own and may be run.
PresetsFit ==
    \A p \in presets :
        /\ Supports(p.template, p.mode) /\ p.params.own.form = BuiltIn[p.template].type
        /\ \A q \in presets : q.template = p.template /\ q.name = p.name => q = p

IInv == TypeOK /\ PolicyStaysCoherent /\ CallsFit /\ RunsFit /\ PresetsFit
-----------------------------------------------------------------------------
(* Parameters and outcomes *)

LEMMA BuiltInTemplates ==
    ASSUME NEW t \in DOMAIN BuiltIn
    PROVE  /\ BuiltIn[t].type \in {"text", "number"}
           /\ BuiltIn[t].default \subseteq {"good"}
           /\ BuiltIn[t].step \in 1..LastStep
           /\ BuiltIn[t].live \in BOOLEAN
<1>1. t \in {"service_restart_safe", "dependency_check", "backup_verify", "maintenance_closeout"}
  BY DEF BuiltIn
<1>2. CASE t = "service_restart_safe"
  <2>1. BuiltIn[t] = ServiceRestartSafe
    BY <1>2 DEF BuiltIn
  <2> QED BY <2>1 DEF ServiceRestartSafe, LastStep
<1>3. CASE t = "dependency_check"
  <2>1. BuiltIn[t] = DependencyCheck
    BY <1>3 DEF BuiltIn
  <2> QED BY <2>1 DEF DependencyCheck, LastStep
<1>4. CASE t = "backup_verify"
  <2>1. BuiltIn[t] = BackupVerify
    BY <1>4 DEF BuiltIn
  <2> QED BY <2>1 DEF BackupVerify, LastStep
<1>5. CASE t = "maintenance_closeout"
  <2>1. BuiltIn[t] = MaintenanceCloseout
    BY <1>5 DEF BuiltIn
  <2> QED BY <2>1 DEF MaintenanceCloseout, LastStep
<1> QED BY <1>1, <1>2, <1>3, <1>4, <1>5

\* What normalize_runbook_params lets through fits the template.
LEMMA NormalFits ==
    ASSUME NEW t \in DOMAIN BuiltIn, NEW own \in Given, NEW f \in FailSteps,
           NEW params \in NormalParams(t, own, f)
    PROVE  /\ params \in Params
           /\ params.own.form = BuiltIn[t].type
           /\ params.failAt = f
<1>1. PICK p \in OwnParam(t, own) : params = [own |-> p, failAt |-> f]
  BY DEF NormalParams
<1>2. p \in [form : {"text", "number"}, is : {"good", "bad"}] /\ p.form = BuiltIn[t].type
  BY BuiltInTemplates DEF OwnParam, Given
<1> QED BY <1>1, <1>2 DEF Params

\* A second normalisation changes nothing.
LEMMA NormalAgain ==
    ASSUME NEW t \in DOMAIN BuiltIn, NEW params \in Params,
           params.own.form = BuiltIn[t].type,
           NEW again \in NormalParams(t, params.own, params.failAt)
    PROVE  again = params
<1>1. PICK p \in OwnParam(t, params.own) : again = [own |-> p, failAt |-> params.failAt]
  BY DEF NormalParams
<1>2. /\ params = [own |-> params.own, failAt |-> params.failAt]
      /\ params.own \in [form : {"text", "number"}, is : {"good", "bad"}]
  BY DEF Params
<1>3. params.own = [form |-> params.own.form, is |-> params.own.is]
  BY <1>2
<1>4. p = [form |-> BuiltIn[t].type, is |-> params.own.is]
  BY <1>2 DEF OwnParam
<1> QED BY <1>1, <1>2, <1>3, <1>4

\* The first step that fails is one that does, and the first.
LEMMA FirstFailureFails ==
    ASSUME NEW t, NEW params
    PROVE  LET s == FirstFailure(t, params)
           IN /\ s \in 0..LastStep
              /\ s = NoStep => \A x \in 1..LastStep : ~StepFails(t, params, x)
              /\ s # NoStep => /\ StepFails(t, params, s)
                               /\ \A x \in 1..LastStep : StepFails(t, params, x) => s <= x
<1> DEFINE failing == {s \in 1..LastStep : StepFails(t, params, s)}
<1>1. CASE failing = {}
  BY <1>1 DEF FirstFailure, LastStep, NoStep
<1>2. CASE failing # {}
  <2>1. \E s \in failing : \A x \in failing : s <= x
    <3>1. CASE 1 \in failing
      BY <3>1 DEF LastStep
    <3>2. CASE 1 \notin failing /\ 2 \in failing
      BY <3>2 DEF LastStep
    <3>3. CASE 1 \notin failing /\ 2 \notin failing
      BY <1>2, <3>3 DEF LastStep
    <3> QED BY <3>1, <3>2, <3>3
  <2>2. Min(failing) \in failing /\ \A x \in failing : Min(failing) <= x
    BY <2>1 DEF Min
  <2> QED BY <1>2, <2>2 DEF FirstFailure, LastStep, NoStep
<1> QED BY <1>1, <1>2
-----------------------------------------------------------------------------
(* Every step keeps the invariant *)

LEMMA Typed ==
    ASSUME TypeOK
    PROVE  /\ Len(runs) \in Nat /\ DOMAIN runs = 1..Len(runs)
           /\ \A i \in DOMAIN runs : runs[i] \in Run
           /\ \A c \in Calls : /\ At(c, "policy") => calls[c] \in PolicyCall
                               /\ At(c, "running") => calls[c] \in RunCall
<1>1. \A c \in Calls : calls[c] \in {Idle} \cup PolicyCall \cup RunCall
  BY DEF TypeOK
<1>2. \A c \in Calls : /\ At(c, "policy") => calls[c] \in PolicyCall
                       /\ At(c, "running") => calls[c] \in RunCall
  BY <1>1 DEF At, Idle, PolicyCall, RunCall
<1> QED BY <1>2 DEF TypeOK

LEMMA InitInv ==
    ASSUME ParametersOK, Init
    PROVE  IInv
<1> USE DEF Init
<1>1. TypeOK
  BY DEF TypeOK, PolicyRow
<1>2. PolicyStaysCoherent
  BY DEF PolicyStaysCoherent, IsPolicy
<1>3. CallsFit /\ RunsFit /\ PresetsFit
  BY DEF CallsFit, RunsFit, PresetsFit, At, Idle
<1> QED BY <1>1, <1>2, <1>3 DEF IInv

\* A call moves, and nothing else does.
LEMMA CallMoves ==
    ASSUME IInv, NEW c \in Calls, NEW state \in {Idle} \cup PolicyCall \cup RunCall,
           Goto(c, state), UNCHANGED <<policy, analytics, presets, runs>>,
           state.pc = "running" => Fits(state) /\ RepeatsSource(state, Len(runs))
    PROVE  IInv'
<1>1. TypeOK'
  BY DEF IInv, TypeOK, Goto
<1>2. CallsFit'
  <2> SUFFICES ASSUME NEW d \in Calls, At(d, "running")'
               PROVE  (Fits(calls[d]) /\ RepeatsSource(calls[d], Len(runs)))'
    BY DEF CallsFit
  <2>1. CASE d = c
    BY <2>1 DEF IInv, TypeOK, Goto, At, Fits, RepeatsSource
  <2>2. CASE d # c
    BY <2>2 DEF IInv, TypeOK, CallsFit, Goto, At, Fits, RepeatsSource
  <2> QED BY <2>1, <2>2
<1>3. PolicyStaysCoherent' /\ RunsFit' /\ PresetsFit'
  BY DEF IInv, PolicyStaysCoherent, RunsFit, PresetsFit, Fits, Outcome, RepeatsSource
<1> QED BY <1>1, <1>2, <1>3 DEF IInv

LEMMA ReadPolicyInv ==
    ASSUME IInv, NEW c \in Calls, ReadPolicy(c)
    PROVE  IInv'
<1>1. [pc |-> "policy", seen |-> policy] \in PolicyCall
  BY DEF IInv, TypeOK, PolicyCall
<1> QED BY <1>1, CallMoves DEF ReadPolicy

LEMMA CutOffInv ==
    ASSUME IInv, NEW c \in Calls, CutOff(c)
    PROVE  IInv'
  BY CallMoves DEF CutOff, Idle

LEMMA WritePolicyInv ==
    ASSUME IInv, NEW c \in Calls, WritePolicy(c)
    PROVE  IInv'
<1>1. PICK input \in PolicyInputs, given \in SUBSET Fields :
        LET merged == [f \in Fields |-> IF f \in given THEN input[f] ELSE calls[c].seen[f]]
        IN IsPolicy(merged) /\ policy' = merged
  BY DEF WritePolicy
<1>2. calls[c].seen \in PolicyRow
  BY Typed DEF IInv, WritePolicy, PolicyCall
<1>3. policy' \in PolicyRow
  BY <1>1, <1>2 DEF Fields, PolicyInputs, PolicyRow
<1>4. calls' = [calls EXCEPT ![c] = Idle] /\ UNCHANGED <<analytics, presets, runs>>
  BY DEF WritePolicy, Goto
<1>5. TypeOK'
  BY <1>3, <1>4 DEF IInv, TypeOK
<1>6. CallsFit'
  BY <1>4 DEF IInv, TypeOK, CallsFit, At, Idle, Fits, RepeatsSource
<1>7. RunsFit' /\ PresetsFit'
  BY <1>4 DEF IInv, RunsFit, PresetsFit, Fits, Outcome, RepeatsSource
<1>8. PolicyStaysCoherent'
  BY <1>1 DEF PolicyStaysCoherent
<1> QED BY <1>5, <1>6, <1>7, <1>8 DEF IInv

LEMMA BeginInv ==
    ASSUME IInv, NEW c \in Calls, NEW t \in Templates, NEW mode \in Modes, NEW params \in Params,
           NEW source \in Nat, Begin(c, t, mode, params, source),
           params.own.form = BuiltIn[t].type,
           source # NoRun => /\ source \in DOMAIN runs
                             /\ runs[source].template = t /\ runs[source].params = params
    PROVE  IInv'
<1> DEFINE state == [pc |-> "running", template |-> t, mode |-> mode, params |-> params,
                     source |-> source]
<1>1. state \in RunCall
  BY DEF RunCall
<1>2. Fits(state)
  BY DEF Begin, MayFail, Fits
<1>3. RepeatsSource(state, Len(runs))
  BY Typed DEF IInv, RepeatsSource
<1> QED BY <1>1, <1>2, <1>3, CallMoves DEF Begin

LEMMA ExecuteInv ==
    ASSUME ParametersOK, IInv, NEW c \in Calls, Execute(c)
    PROVE  IInv'
<1>1. PICK t \in Templates, mode \in Modes, own \in OwnInputs, f \in FailInputs :
        \E params \in NormalParams(t, own, f) : Begin(c, t, mode, params, NoRun)
  BY DEF Execute
<1>2. PICK params \in NormalParams(t, own, f) : Begin(c, t, mode, params, NoRun)
  BY <1>1
<1>3. params \in Params /\ params.own.form = BuiltIn[t].type
  BY <1>2, NormalFits DEF ParametersOK
<1> QED BY <1>2, <1>3, BeginInv DEF NoRun

LEMMA ReplayInv ==
    ASSUME ParametersOK, IInv, NEW c \in Calls, Replay(c)
    PROVE  IInv'
<1>1. PICK i \in DOMAIN runs, mode \in Modes :
        \E params \in NormalParams(runs[i].template, runs[i].params.own, runs[i].params.failAt) :
          Begin(c, runs[i].template, mode, params, i)
  BY DEF Replay
<1>2. PICK params \in NormalParams(runs[i].template, runs[i].params.own, runs[i].params.failAt) :
        Begin(c, runs[i].template, mode, params, i)
  BY <1>1
<1>3. /\ runs[i].template \in Templates /\ runs[i].params \in Params /\ i \in Nat
      /\ runs[i].params.own.form = BuiltIn[runs[i].template].type
  BY Typed DEF IInv, Run, RunsFit, Fits
<1>4. params = runs[i].params
  BY <1>2, <1>3, NormalAgain DEF ParametersOK
<1> QED BY <1>2, <1>3, <1>4, BeginInv

LEMMA InsertRunInv ==
    ASSUME IInv, NEW c \in Calls, InsertRun(c)
    PROVE  IInv'
<1> DEFINE call == calls[c]
           new(o) == [template |-> call.template, mode |-> call.mode, params |-> call.params,
                      source |-> call.source,
                      status |-> IF o.failed = NoStep THEN "succeeded" ELSE "failed",
                      failed |-> o.failed, steps |-> o.steps,
                      hints |-> IF o.failed = NoStep THEN 0 ELSE 1]
<1>1. PICK o \in Outcomes(call) : runs' = Append(runs, new(o))
  BY DEF InsertRun
<1>2. /\ calls' = [calls EXCEPT ![c] = Idle] /\ UNCHANGED <<policy, analytics, presets>>
      /\ call \in RunCall /\ Fits(call) /\ RepeatsSource(call, Len(runs))
  BY Typed DEF IInv, InsertRun, Goto, CallsFit
<1>3. PICK s : /\ s \in IF call.mode = "live" THEN {NoStep, 2}
                                   ELSE {FirstFailure(call.template, call.params)}
               /\ o = [failed |-> s, steps |-> IF s = NoStep THEN LastStep ELSE s]
  BY <1>1 DEF Outcomes
<1>4. s \in 0..LastStep /\ (call.mode = "simulate" => s = FirstFailure(call.template, call.params))
  BY <1>3, FirstFailureFails DEF LastStep, NoStep
<1>5. new(o) \in Run
  BY <1>2, <1>3, <1>4 DEF RunCall, Run, LastStep, NoStep
<1>6. Fits(new(o)) /\ Outcome(new(o))
  BY <1>2, <1>3, <1>4 DEF Fits, Outcome
<1>7. /\ Len(runs) \in Nat /\ Len(runs') = Len(runs) + 1
      /\ DOMAIN runs = 1..Len(runs) /\ DOMAIN runs' = 1..Len(runs) + 1
      /\ \A i \in DOMAIN runs : runs'[i] = runs[i]
      /\ runs'[Len(runs) + 1] = new(o)
      /\ runs' \in Seq(Run)
  BY <1>1, <1>5, Typed DEF IInv, TypeOK
<1>8. PICK run : run = new(o)
  OBVIOUS
<1>8a. run.source = call.source /\ run.template = call.template /\ run.params = call.params
  BY <1>8
<1> HIDE DEF new, call
<1>9. TypeOK'
  BY <1>2, <1>7 DEF IInv, TypeOK
<1>10. CallsFit'
  <2> SUFFICES ASSUME NEW d \in Calls, At(d, "running")'
               PROVE  (Fits(calls[d]) /\ RepeatsSource(calls[d], Len(runs)))'
    BY DEF CallsFit
  <2>1. d # c /\ calls'[d] = calls[d]
    BY <1>2 DEF IInv, TypeOK, At, Idle
  <2>2. Fits(calls[d]) /\ RepeatsSource(calls[d], Len(runs))
    BY <2>1 DEF IInv, CallsFit, At
  <2> QED BY <1>7, <2>1, <2>2 DEF Fits, RepeatsSource
<1>11. RunsFit'
  <2> SUFFICES ASSUME NEW i \in DOMAIN runs'
               PROVE  (Fits(runs[i]) /\ Outcome(runs[i]) /\ RepeatsSource(runs[i], i - 1))'
    BY DEF RunsFit
  <2>1. CASE i \in DOMAIN runs
    <3>1. Fits(runs[i]) /\ Outcome(runs[i]) /\ RepeatsSource(runs[i], i - 1) /\ i \in 1..Len(runs)
      BY <1>7, <2>1 DEF IInv, RunsFit
    <3>2. runs'[i] = runs[i] /\ \A j \in 1..i - 1 : runs'[j] = runs[j]
      BY <1>7, <2>1
    <3> QED BY <3>1, <3>2 DEF Fits, Outcome, RepeatsSource
  <2>2. CASE i = Len(runs) + 1
    <3>1. \A j \in 1..Len(runs) : runs'[j] = runs[j]
      BY <1>7
    <3>2. /\ runs'[i] = run /\ i - 1 = Len(runs)
          /\ Fits(run) /\ Outcome(run) /\ RepeatsSource(call, Len(runs))
      BY <1>2, <1>6, <1>7, <1>8, <2>2
    <3>3. RepeatsSource(run, i - 1)'
      BY <1>8a, <3>1, <3>2 DEF RepeatsSource
    <3> QED BY <3>2, <3>3 DEF Fits, Outcome, RepeatsSource
  <2> QED BY <1>7, <2>1, <2>2
<1>12. PolicyStaysCoherent' /\ PresetsFit'
  BY <1>2 DEF IInv, PolicyStaysCoherent, PresetsFit
<1> QED BY <1>9, <1>10, <1>11, <1>12 DEF IInv

LEMMA PresetsInv ==
    ASSUME ParametersOK, IInv, CreatePreset \/ UpdatePreset \/ DeletePreset
    PROVE  IInv'
<1>1. UNCHANGED <<policy, analytics, runs, calls>>
  BY DEF CreatePreset, UpdatePreset, DeletePreset
<1>2. presets' \subseteq Preset /\ PresetsFit'
  <2>1. CASE CreatePreset
    <3>1. PICK t \in Templates, name \in PresetNames, mode \in Modes, own \in OwnInputs,
               f \in FailInputs :
            /\ Supports(t, mode) /\ ~\E p \in presets : p.template = t /\ p.name = name
            /\ \E params \in NormalParams(t, own, f) :
                 presets' = presets \cup {[template |-> t, name |-> name, mode |-> mode,
                                           params |-> params]}
      BY <2>1 DEF CreatePreset
    <3>2. PICK params \in NormalParams(t, own, f) :
            presets' = presets \cup {[template |-> t, name |-> name, mode |-> mode,
                                      params |-> params]}
      BY <3>1
    <3>3. params \in Params /\ params.own.form = BuiltIn[t].type
      BY <3>2, NormalFits DEF ParametersOK
    <3>4. [template |-> t, name |-> name, mode |-> mode, params |-> params] \in Preset
      BY <3>3 DEF Preset
    <3> QED BY <3>1, <3>2, <3>3, <3>4 DEF IInv, TypeOK, PresetsFit
  <2>2. CASE UpdatePreset
    <3>1. PICK p \in presets, name \in PresetNames, mode \in Modes, own \in OwnInputs,
               f \in FailInputs :
            /\ Supports(p.template, mode)
            /\ ~\E q \in presets \ {p} : q.template = p.template /\ q.name = name
            /\ \E params \in NormalParams(p.template, own, f) \cup {p.params} :
                 presets' = (presets \ {p}) \cup
                     {[p EXCEPT !.name = name, !.mode = mode, !.params = params]}
      BY <2>2 DEF UpdatePreset
    <3>2. PICK params \in NormalParams(p.template, own, f) \cup {p.params} :
            presets' = (presets \ {p}) \cup
                {[p EXCEPT !.name = name, !.mode = mode, !.params = params]}
      BY <3>1
    <3>3. p \in Preset /\ p.params.own.form = BuiltIn[p.template].type
      BY DEF IInv, TypeOK, PresetsFit
    <3>4. params \in Params /\ params.own.form = BuiltIn[p.template].type
      <4>1. CASE params = p.params
        BY <3>3, <4>1 DEF Preset
      <4>2. CASE params \in NormalParams(p.template, own, f)
        BY <3>3, <4>2, NormalFits DEF Preset, ParametersOK
      <4> QED BY <4>1, <4>2
    <3>5. PICK new : new = [p EXCEPT !.name = name, !.mode = mode, !.params = params]
      OBVIOUS
    <3>6. /\ new \in Preset /\ new.template = p.template /\ new.name = name
          /\ new.mode = mode /\ new.params = params
      BY <3>3, <3>4, <3>5 DEF Preset
    <3>7. presets' = (presets \ {p}) \cup {new}
      BY <3>2, <3>5
    <3>8. presets' \subseteq Preset
      BY <3>6, <3>7 DEF IInv, TypeOK
    <3>9. ASSUME NEW a \in presets', NEW b \in presets', a.template = b.template, a.name = b.name
          PROVE  a = b
      BY <3>1, <3>6, <3>7, <3>9 DEF IInv, PresetsFit
    <3>10. PresetsFit'
      BY <3>1, <3>4, <3>6, <3>7, <3>9 DEF IInv, PresetsFit
    <3> QED BY <3>8, <3>10
  <2>3. CASE DeletePreset
    BY <2>3 DEF DeletePreset, IInv, TypeOK, PresetsFit
  <2> QED BY <2>1, <2>2, <2>3
<1>3. TypeOK' /\ PolicyStaysCoherent'
  BY <1>1, <1>2 DEF IInv, TypeOK, PolicyStaysCoherent
<1>4. CallsFit' /\ RunsFit'
  BY <1>1 DEF IInv, CallsFit, RunsFit, At, Fits, Outcome, RepeatsSource
<1> QED BY <1>2, <1>3, <1>4 DEF IInv

LEMMA NextInv ==
    ASSUME ParametersOK, IInv, [Next]_vars
    PROVE  IInv'
<1>1. CASE UNCHANGED vars
  BY <1>1 DEF vars, IInv, TypeOK, PolicyStaysCoherent, CallsFit, RunsFit, PresetsFit, At, Fits,
              Outcome, RepeatsSource
<1>2. CASE UpdateAnalytics
  BY <1>2 DEF UpdateAnalytics, IInv, TypeOK, PolicyStaysCoherent, CallsFit, RunsFit, PresetsFit,
              At, Fits, Outcome, RepeatsSource
<1>3. CASE CreatePreset \/ UpdatePreset \/ DeletePreset
  BY <1>3, PresetsInv
<1>4. ASSUME NEW c \in Calls, \/ ReadPolicy(c) \/ WritePolicy(c) \/ Execute(c) \/ Replay(c)
                              \/ InsertRun(c) \/ CutOff(c)
      PROVE IInv'
  BY <1>4, ReadPolicyInv, WritePolicyInv, ExecuteInv, ReplayInv, InsertRunInv, CutOffInv
<1> QED BY <1>1, <1>2, <1>3, <1>4 DEF Next

LEMMA Invariance ==
    ASSUME ParametersOK
    PROVE  Spec => []IInv
<1>1. Init => IInv
  BY InitInv
<1>2. IInv /\ [Next]_vars => IInv'
  BY NextInv
<1> QED BY <1>1, <1>2, PTL DEF Spec
-----------------------------------------------------------------------------
(* The policy and the replays *)

\* Every table keeps its type, and what a request holds between two statements.
THEOREM TypeCorrect ==
    ASSUME ParametersOK
    PROVE  Spec => []TypeOK
<1>1. IInv => TypeOK
  BY DEF IInv
<1> QED BY <1>1, Invariance, PTL

\* Updates of the policy from rows read earlier never leave a row that
\* update_runbook_execution_policy refuses to be asked for.
THEOREM PolicyTheorem ==
    ASSUME ParametersOK
    PROVE  Spec => []PolicyStaysCoherent
<1>1. IInv => PolicyStaysCoherent
  BY DEF IInv
<1> QED BY <1>1, Invariance, PTL

LEMMA RepeatsFromInv ==
    ASSUME IInv
    PROVE  ReplayRepeats
<1> SUFFICES ASSUME NEW i \in DOMAIN runs
             PROVE  LET run == runs[i]
                    IN /\ run.failed # NoStep <=> run.steps < LastStep \/ run.failed = LastStep
                       /\ run.params.failAt \in 1..LastStep =>
                            run.status = "failed" /\ run.mode = "simulate"
                       /\ run.source # NoRun /\ run.mode = "simulate"
                            /\ runs[run.source].mode = "simulate" =>
                            LET source == runs[run.source]
                            IN run.params = source.params /\ run.steps = source.steps
                               /\ run.failed = source.failed
  BY DEF ReplayRepeats
<1> DEFINE run == runs[i]
<1>1. Fits(run) /\ Outcome(run) /\ RepeatsSource(run, i - 1) /\ run \in Run /\ i \in 1..Len(runs)
  BY Typed DEF IInv, RunsFit
<1>2. run.failed # NoStep <=> run.steps < LastStep \/ run.failed = LastStep
  BY <1>1 DEF Outcome, LastStep, NoStep
<1>3. ASSUME run.params.failAt \in 1..LastStep
      PROVE  run.status = "failed" /\ run.mode = "simulate"
  <2>1. run.mode = "simulate"
    BY <1>1, <1>3 DEF Fits, Run, Modes, NoStep, LastStep
  <2>2. run.failed = FirstFailure(run.template, run.params)
    BY <1>1, <2>1 DEF Outcome
  <2>3. StepFails(run.template, run.params, run.params.failAt)
    BY DEF StepFails
  <2>4. run.failed # NoStep
    BY <1>3, <2>2, <2>3, FirstFailureFails
  <2> QED BY <1>1, <2>1, <2>4 DEF Outcome
<1>4. ASSUME run.source # NoRun, run.mode = "simulate", runs[run.source].mode = "simulate"
      PROVE  /\ run.params = runs[run.source].params /\ run.steps = runs[run.source].steps
             /\ run.failed = runs[run.source].failed
  <2>1. /\ run.source \in DOMAIN runs
        /\ runs[run.source].template = run.template /\ runs[run.source].params = run.params
    BY <1>1, <1>4, Typed DEF IInv, RepeatsSource
  <2>2. Outcome(runs[run.source])
    BY <2>1 DEF IInv, RunsFit
  <2> QED BY <1>1, <1>4, <2>1, <2>2 DEF Outcome
<1> QED BY <1>2, <1>3, <1>4

\* A simulated replay repeats what it replays, step for step, however often
\* the parameters were normalised on the way (replay_runbook_template_execution).
THEOREM ReplayTheorem ==
    ASSUME ParametersOK
    PROVE  Spec => []ReplayRepeats
<1>1. IInv => ReplayRepeats
  BY RepeatsFromInv
<1> QED BY <1>1, Invariance, PTL

\* Whoever updates presets, those of a template have different names, and each
\* has parameters and a mode that its template accepts.
THEOREM PresetsTheorem ==
    ASSUME ParametersOK
    PROVE  Spec => []PresetsFit
<1>1. IInv => PresetsFit
  BY DEF IInv
<1> QED BY <1>1, Invariance, PTL
-----------------------------------------------------------------------------
(* The ways of counting *)

LEMMA RowsAreFinite ==
    ASSUME TypeOK, NEW templates, NEW q
    PROVE  Rows(templates, q) \subseteq 1..Len(runs) /\ IsFiniteSet(Rows(templates, q))
<1>1. Rows(templates, q) \subseteq 1..Len(runs)
  BY Typed DEF Rows
<1>2. IsFiniteSet(1..Len(runs))
  BY Typed, FS_Interval
<1> QED BY <1>1, <1>2, FS_Subset

\* A limit that the rows do not exceed reads them all.
LEMMA ScannedAreAll ==
    ASSUME ScanRows \in Nat, NEW rows, rows \subseteq Nat, IsFiniteSet(rows),
           Cardinality(rows) <= ScanRows
    PROVE  Scanned(rows) = rows
<1>1. ASSUME NEW i \in rows
      PROVE  Cardinality({j \in rows : j > i}) < ScanRows
  <2> DEFINE newer == {j \in rows : j > i}
  <2>1. newer \subseteq rows /\ i \notin newer /\ newer # rows
    OBVIOUS
  <2>2. /\ Cardinality(newer) \in Nat /\ Cardinality(rows) \in Nat
        /\ Cardinality(newer) <= Cardinality(rows)
        /\ Cardinality(newer) = Cardinality(rows) => newer = rows
    BY <2>1, FS_Subset, FS_CardinalityType
  <2> HIDE DEF newer
  <2>3. Cardinality(newer) < ScanRows
    BY <2>1, <2>2
  <2> QED BY <2>3 DEF newer
<1> QED BY <1>1 DEF Scanned

\* A nonempty set of numbers up to n has a greatest.
LEMMA Newest ==
    ASSUME NEW n \in Nat, NEW S \in SUBSET (1..n), S # {}
    PROVE  Max(S) \in S /\ \A y \in S : y <= Max(S)
<1> DEFINE left == {k \in Nat : k <= n /\ n - k \in S}
<1>1. left \in SUBSET Nat /\ left # {}
  <2>1. PICK s \in S : TRUE
    OBVIOUS
  <2> QED BY <2>1, n - s \in left
<1>2. PICK x \in left : \A k \in left : <<k, x>> \notin OpToRel(<, Nat)
  <2> HIDE DEF left
  <2> QED BY <1>1, NatLessThanWellFounded, WFMin
<1>3. n - x \in S /\ x \in Nat
  OBVIOUS
<1>4. ASSUME NEW y \in S PROVE y <= n - x
  <2>1. n - y \in left /\ y \in Nat
    OBVIOUS
  <2>2. <<n - y, x>> \notin OpToRel(<, Nat)
    BY <1>2, <2>1
  <2>3. ~(n - y < x) /\ n - y \in Nat
    BY <1>3, <2>1, <2>2 DEF OpToRel
  <2> QED BY <1>3, <2>1, <2>3
<1> HIDE DEF left
<1>5. \E m \in S : \A y \in S : m >= y
  BY <1>3, <1>4
<1> QED BY <1>5 DEF Max

\* The feed of failures starts with the newest.
LEMMA FeedStartsNewest ==
    ASSUME ParametersOK, TypeOK, NEW templates, NEW q, Failed(Rows(templates, q)) # {}
    PROVE  Feed(templates, q)[1].run = Max(Failed(Rows(templates, q)))
<1> DEFINE failures == Failed(Rows(templates, q))
<1>1. /\ failures \in SUBSET (1..Len(runs)) /\ IsFiniteSet(failures) /\ failures # {}
      /\ Len(runs) \in Nat
  <2>1. failures \subseteq Rows(templates, q)
    BY DEF Failed
  <2> QED BY <2>1, RowsAreFinite, FS_Subset, Typed
<1> HIDE DEF failures
<1>2. Cardinality(failures) \in Nat \ {0}
  BY <1>1, FS_CardinalityType, FS_EmptySet
<1>3. Max(failures) \in failures /\ \A y \in failures : y <= Max(failures)
  BY <1>1, Newest
<1>4. ASSUME NEW i \in failures
      PROVE  Cardinality({j \in failures : j > i}) = 0 <=> i = Max(failures)
  <2> DEFINE newer == {j \in failures : j > i}
  <2>1. IsFiniteSet(newer)
    BY <1>1, FS_Subset
  <2>2. Cardinality(newer) = 0 <=> newer = {}
    BY <2>1, FS_EmptySet
  <2>3. PICK m : /\ m = Max(failures) /\ m \in failures /\ \A y \in failures : y <= m
                 /\ failures \subseteq Nat
    BY <1>1, <1>3
  <2>4. ASSUME i = m PROVE newer = {}
    <3>1. \A j \in failures : ~(j > i)
      BY <2>3, <2>4
    <3> QED BY <3>1
  <2>5. ASSUME newer = {} PROVE i = m
    <3>1. ~(m > i)
      BY <2>3, <2>5
    <3> QED BY <2>3, <3>1
  <2> QED BY <2>2, <2>3, <2>4, <2>5
<1>5. (CHOOSE i \in failures : Cardinality({j \in failures : j > i}) = 1 - 1) = Max(failures)
  BY <1>3, <1>4
<1>6. 1 \in 1..Min({FeedRows, Cardinality(failures)})
  <2>1. FeedRows \in Nat \ {0}
    BY DEF ParametersOK
  <2>2. Min({FeedRows, Cardinality(failures)}) \in {FeedRows, Cardinality(failures)}
    BY <1>2, <2>1 DEF Min
  <2> QED BY <1>2, <2>1, <2>2
<1> QED BY <1>5, <1>6 DEF Feed, failures

LEMMA AnalyticsFromType ==
    ASSUME ParametersOK, TypeOK
    PROVE  AnalyticsAgree
<1> SUFFICES ASSUME NEW q \in Queries, ~Summary(q).truncated
             PROVE  /\ FeedTotal(Templates, q) = Summary(q).totals.failed
                    /\ \A t \in Templates :
                         /\ ListedAlert(t, q) = Alert(Aggregate(t, q))
                         /\ FeedTotal({t}, q) = Summary(q).templates[t].failed
                         /\ ListedAlert(t, q) # NoAlert =>
                              ListedAlert(t, q).latest = Feed({t}, q)[1].run
  BY DEF AnalyticsAgree
<1> DEFINE all == Rows(Templates, q)
<1>1. /\ all \subseteq Nat /\ IsFiniteSet(all) /\ ScanRows \in Nat
      /\ Cardinality(all) \in Nat /\ Cardinality(all) <= ScanRows
  <2>1. ~(Cardinality(all) > ScanRows)
    BY DEF Summary, Truncated
  <2>2. all \subseteq 1..Len(runs) /\ IsFiniteSet(all) /\ Cardinality(all) \in Nat
    BY RowsAreFinite, FS_CardinalityType
  <2> HIDE DEF all
  <2> QED BY <2>1, <2>2 DEF ParametersOK
<1>2. Scanned(all) = all
  <2> HIDE DEF all
  <2> QED BY <1>1, ScannedAreAll
<1>3. FeedTotal(Templates, q) = Summary(q).totals.failed
  BY <1>2 DEF FeedTotal, Summary, Counts
<1>4. ASSUME NEW t \in Templates
      PROVE  /\ ListedAlert(t, q) = Alert(Aggregate(t, q))
             /\ FeedTotal({t}, q) = Summary(q).templates[t].failed
             /\ ListedAlert(t, q) # NoAlert => ListedAlert(t, q).latest = Feed({t}, q)[1].run
  <2> DEFINE own == Rows({t}, q)
  <2>1. own = OfTemplate(all, t)
    BY DEF Rows, OfTemplate
  <2>2. Scanned(own) = own
    <3>1. own \subseteq all
      BY DEF Rows
    <3>2. /\ own \subseteq Nat /\ IsFiniteSet(own)
          /\ Cardinality(own) \in Nat /\ Cardinality(own) <= Cardinality(all)
      <4> HIDE DEF all, own
      <4> QED BY <1>1, <3>1, FS_Subset, FS_CardinalityType
    <3> HIDE DEF all, own
    <3>3. Cardinality(own) <= ScanRows
      BY <1>1, <3>2
    <3> QED BY <1>1, <3>2, <3>3, ScannedAreAll
  <2>3. ListedAlert(t, q) = Alert(own) /\ Aggregate(t, q) = own
    BY <1>2, <2>1, <2>2 DEF ListedAlert, Aggregate
  <2>4. FeedTotal({t}, q) = Summary(q).templates[t].failed
    BY <1>2, <2>1 DEF FeedTotal, Summary, Counts
  <2>5. ASSUME Alert(own) # NoAlert
        PROVE  Alert(own).latest = Max(Failed(own)) /\ Failed(own) # {}
    <3>1. Cardinality(Failed(own)) # 0
      BY <2>5 DEF Alert
    <3>2. Failed(own) # {}
      BY <3>1, FS_EmptySet
    <3>3. Alert(own).latest = Max(Failed(own))
      <4> HIDE DEF own
      <4> QED BY <2>5 DEF Alert, NoAlert
    <3> QED BY <3>2, <3>3
  <2>6. Failed(own) # {} => Feed({t}, q)[1].run = Max(Failed(own))
    BY FeedStartsNewest
  <2> QED BY <2>3, <2>4, <2>5, <2>6
<1> QED BY <1>3, <1>4

\* Unless the summary is truncated, the alert on the list, the aggregate of the
\* ticket, the summary and the feed of failures count the same executions.
THEOREM AnalyticsTheorem ==
    ASSUME ParametersOK
    PROVE  Spec => []AnalyticsAgree
<1>1. IInv => AnalyticsAgree
  BY AnalyticsFromType DEF IInv
<1> QED BY <1>1, Invariance, PTL
=============================================================================
