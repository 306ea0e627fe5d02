------------------------------ MODULE BackupDr ------------------------------
(***************************************************************************)
(* Backup policies, the runs of backups and restore drills, and the        *)
(* evidence that a restore was verified.  A run reads the policy, inserts  *)
(* its row and writes the policy's next time from what it read; the tick   *)
(* of the scheduler reads what is due and then runs it, one after another. *)
(* No statement shares a transaction with another one.  Reads that follow  *)
(* each other without a write between them are one step.                   *)
(***************************************************************************)
EXTENDS Integers, Sequences, FiniteSets, FiniteSetsExt

CONSTANTS
    Calls,
    Policies,           \* keys a policy can be created with
    BackupSchedules,    \* [every : {"day", "week"}, time, weekday]
    DrillSchedules,     \* [every : {"week", "month", "quarter"}, time, weekday]
    Never,              \* no next time; a field a request leaves out
    DayLength,          \* ticks of a day
    WeekLength,         \* days of a week
    MonthLength, QuarterLength,     \* days to a monthly or quarterly drill
    Slas,               \* values of sla_hours, in ticks
    Outcomes,           \* values of simulate_failure
    MaxNow, MaxRuns, MaxEvidence    \* bounds

VARIABLES
    policy,     \* policy[p]: the row, for the policies that are created
    runs,       \* ops_backup_policy_runs, by id
    evidence,   \* ops_backup_restore_evidence, by id
    compliance, \* the one row of the compliance policy
    now, calls,
    outdated    \* policies written from a row that had changed since it was read

vars == <<policy, runs, evidence, compliance, now, calls, outdated>>

Idle == [pc |-> "idle"]
At(c, pc) == calls[c].pc = pc
Goto(c, state) == calls' = [calls EXCEPT ![c] = state]

Init ==
    /\ policy = <<>> /\ runs = <<>> /\ evidence = <<>> /\ now = 0 /\ outdated = {}
    /\ \E sla \in Slas : compliance = [mode |-> "advisory", sla |-> sla, of |-> {"failed", "drill"}]
    /\ calls = [c \in Calls |-> Idle]
-----------------------------------------------------------------------------
(* Schedules *)

Day(t) == t \div DayLength
Weekday(t) == (Day(t) % WeekLength) + 1
TimeOn(day, s) == day * DayLength + s.time

\* Seeded fault: a time that is just now counts as the next one.
NextDailyOrNow(s, t) ==
    IF TimeOn(Day(t), s) >= t THEN TimeOn(Day(t), s) ELSE TimeOn(Day(t) + 1, s)

NextDaily(s, t) == IF TimeOn(Day(t), s) > t THEN TimeOn(Day(t), s) ELSE TimeOn(Day(t) + 1, s)

NextWeekly(s, t) ==
    LET offset == (s.weekday - Weekday(t) + WeekLength) % WeekLength
    IN IF offset = 0 /\ TimeOn(Day(t), s) <= t THEN TimeOn(Day(t) + WeekLength, s)
                                              ELSE TimeOn(Day(t) + offset, s)

NextBackup(s, t) == IF s.every = "day" THEN NextDaily(s, t) ELSE NextWeekly(s, t)

NextDrill(s, t) == CASE s.every = "week" -> NextWeekly(s, t)
                     [] s.every = "month" -> TimeOn(Day(t) + MonthLength, s)
                     [] s.every = "quarter" -> TimeOn(Day(t) + QuarterLength, s)

Row(backup, drill, enabled, t) ==
    [backup |-> backup, drill |-> drill, enabled |-> enabled, nextBackup |-> NextBackup(backup, t),
     nextDrill |-> IF enabled THEN NextDrill(drill, t) ELSE Never]
-----------------------------------------------------------------------------
(* Policies *)

CreatePolicy ==
    /\ \E p \in Policies \ DOMAIN policy, b \in BackupSchedules, d \in DrillSchedules, on \in BOOLEAN :
         policy' = [q \in DOMAIN policy \cup {p} |-> IF q = p THEN Row(b, d, on, now) ELSE policy[q]]
    /\ UNCHANGED <<runs, evidence, compliance, now, calls, outdated>>

\* A write makes what the other calls have read old; writing what was computed
\* from an old row leaves a trace.
Written(c, p, state) ==
    /\ calls' = [x \in Calls |-> IF x = c THEN state
                               ELSE IF calls[x].pc \in {"update", "insert", "reschedule"}
                                       /\ calls[x].p = p
                               THEN [calls[x] EXCEPT !.old = TRUE] ELSE calls[x]]
    /\ outdated' = IF calls[c].old THEN outdated \cup {p} ELSE outdated

ReadPolicy(c) ==
    /\ calls[c] = Idle
    /\ \E p \in DOMAIN policy :
         Goto(c, [pc |-> "update", p |-> p, read |-> policy[p], old |-> FALSE, at |-> now])
    /\ UNCHANGED <<policy, runs, evidence, compliance, now, outdated>>

\* All columns are written, and both next times are computed anew.
UpdatePolicy(c) ==
    /\ At(c, "update")
    /\ LET p == calls[c].p
           read == calls[c].read
       IN \E b \in BackupSchedules \cup {read.backup}, d \in DrillSchedules \cup {read.drill},
             on \in BOOLEAN :
            /\ policy' = [policy EXCEPT ![p] = Row(b, d, on, calls[c].at)]
            /\ Written(c, p, Idle)
    /\ UNCHANGED <<runs, evidence, compliance, now>>
-----------------------------------------------------------------------------
(* Runs.  A call holds what it has to run, each entry with the time it was   *)
(* due; a run by hand was not due.                                           *)

RunByHand(c) ==
    /\ calls[c] = Idle
    /\ \E p \in DOMAIN policy, type \in {"backup", "drill"}, fails \in Outcomes :
         Goto(c, [pc |-> "run", fails |-> fails, done |-> {},
                  queue |-> {[p |-> p, type |-> type, due |-> Never]}])
    /\ UNCHANGED <<policy, runs, evidence, compliance, now, outdated>>

NextTime(p, type) == IF type = "backup" THEN policy[p].nextBackup
                     ELSE IF policy[p].enabled THEN policy[p].nextDrill ELSE Never

Due == {e \in {[p |-> p, type |-> type, due |-> NextTime(p, type)] :
                p \in DOMAIN policy, type \in {"backup", "drill"}} : e.due # Never /\ e.due <= now}

SchedulerTick(c) ==
    /\ calls[c] = Idle
    /\ Due # {}
    /\ Goto(c, [pc |-> "run", fails |-> FALSE, done |-> {i \in DOMAIN runs : runs[i].done},
                queue |-> Due])
    /\ UNCHANGED <<policy, runs, evidence, compliance, now, outdated>>

\* Backups come before drills, and what was due earlier before what was due later.
Before(e, f) == \/ e.type = "backup" /\ f.type = "drill"
                \/ e.type = f.type /\ e.due < f.due

LoadForRun(c) ==
    /\ At(c, "run")
    /\ \E e \in calls[c].queue :
         /\ \A f \in calls[c].queue \ {e} : ~Before(f, e)
         /\ Goto(c, [pc |-> "insert", p |-> e.p, type |-> e.type, due |-> e.due,
                     fails |-> calls[c].fails, done |-> calls[c].done, queue |-> calls[c].queue \ {e},
                     read |-> policy[e.p], old |-> FALSE, at |-> now, row |-> 0])
    /\ UNCHANGED <<policy, runs, evidence, compliance, now, outdated>>

InsertRun(c) ==
    /\ At(c, "insert") /\ Len(runs) < MaxRuns
    /\ runs' = Append(runs,
                 [p |-> calls[c].p, type |-> calls[c].type, due |-> calls[c].due,
                  status |-> IF calls[c].fails THEN "failed" ELSE "succeeded", at |-> now,
                  done |-> FALSE, after |-> calls[c].done])
    /\ Goto(c, [calls[c] EXCEPT !.pc = "reschedule", !.row = Len(runs) + 1])
    /\ UNCHANGED <<policy, evidence, compliance, now, outdated>>

Reschedule(c) ==
    /\ At(c, "reschedule")
    /\ LET p == calls[c].p
           read == calls[c].read
       IN /\ policy' =
               IF calls[c].type = "backup"
                 THEN [policy EXCEPT ![p].nextBackup = NextBackup(read.backup, calls[c].at)]
                 ELSE [policy EXCEPT ![p].nextDrill =
                         IF read.enabled THEN NextDrill(read.drill, calls[c].at) ELSE Never]
          /\ Written(c, p, IF calls[c].queue = {} THEN Idle
                           ELSE [pc |-> "run", fails |-> calls[c].fails, done |-> calls[c].done,
                                 queue |-> calls[c].queue])
    /\ runs' = [runs EXCEPT ![calls[c].row].done = TRUE]
    /\ UNCHANGED <<evidence, compliance, now>>

\* A statement fails: what is left of the queue is not run by this call.
Abort(c) ==
    /\ calls[c] # Idle
    /\ Goto(c, Idle)
    /\ UNCHANGED <<policy, runs, evidence, compliance, now, outdated>>
-----------------------------------------------------------------------------
(* Evidence *)

Required(r, of) == \/ r.status = "failed" /\ "failed" \in of
                   \/ r.type = "drill" /\ "drill" \in of

Deadline(r) == r.at + compliance.sla

\* enforce_restore_evidence_compliance
MayStayOpen(r) ==
    compliance.mode = "enforced" /\ Required(r, compliance.of) => now <= Deadline(r)

CreateEvidenceRead(c) ==
    /\ calls[c] = Idle
    /\ \E i \in DOMAIN runs, close \in BOOLEAN :
         /\ close \/ MayStayOpen(runs[i])
         /\ Goto(c, [pc |-> "attach", run |-> i, close |-> close])
    /\ UNCHANGED <<policy, runs, evidence, compliance, now, outdated>>

Closure(close) == IF close THEN [status |-> "closed", at |-> now] ELSE [status |-> "open", at |-> Never]

CreateEvidence(c) ==
    /\ At(c, "attach") /\ Len(evidence) < MaxEvidence
    /\ evidence' = Append(evidence, [run |-> calls[c].run, closure |-> Closure(calls[c].close)])
    /\ Goto(c, Idle)
    /\ UNCHANGED <<policy, runs, compliance, now, outdated>>

\* Seeded fault: closed evidence can be updated.
ReadAnyEvidence(c) ==
    /\ calls[c] = Idle
    /\ \E i \in DOMAIN evidence, close \in BOOLEAN :
         /\ close \/ MayStayOpen(runs[evidence[i].run])
         /\ Goto(c, [pc |-> "evidence", row |-> i, close |-> close, at |-> evidence[i]])
    /\ UNCHANGED <<policy, runs, evidence, compliance, now, outdated>>

UpdateEvidenceRead(c) ==
    /\ calls[c] = Idle
    /\ \E i \in DOMAIN evidence, close \in BOOLEAN :
         /\ evidence[i].closure.status # "closed"
         /\ close \/ MayStayOpen(runs[evidence[i].run])
         /\ Goto(c, [pc |-> "evidence", row |-> i, close |-> close, at |-> evidence[i]])
    /\ UNCHANGED <<policy, runs, evidence, compliance, now, outdated>>

UpdateEvidence(c) ==
    /\ At(c, "evidence")
    /\ evidence' = [evidence EXCEPT ![calls[c].row].closure = Closure(calls[c].close)]
    /\ Goto(c, Idle)
    /\ UNCHANGED <<policy, runs, compliance, now, outdated>>

\* A field that is left out is taken from the row that was read.
ReadCompliance(c) ==
    /\ calls[c] = Idle
    /\ Goto(c, [pc |-> "compliance", read |-> compliance])
    /\ UNCHANGED <<policy, runs, evidence, compliance, now, outdated>>

WriteCompliance(c) ==
    /\ At(c, "compliance")
    /\ \E mode \in {"advisory", "enforced"}, sla \in Slas \cup {calls[c].read.sla},
          of \in (SUBSET {"failed", "drill"}) \ {{}} :
         compliance' = [mode |-> mode, sla |-> sla, of |-> of]
    /\ Goto(c, Idle)
    /\ UNCHANGED <<policy, runs, evidence, now, outdated>>

ClockTicks == /\ now < MaxNow
              /\ now' = now + 1
              /\ UNCHANGED <<policy, runs, evidence, compliance, calls, outdated>>
-----------------------------------------------------------------------------
(* The scorecard of a week, and the coverage the list of evidence shows *)

EvidenceOf(i) == {e \in DOMAIN evidence : evidence[e].run = i}
ClosedTimes(i) == {evidence[e].closure.at : e \in {x \in EvidenceOf(i) :
                                                   evidence[x].closure.status = "closed"}}

ClosureState(i, asOf) ==
    IF ClosedTimes(i) # {}
      THEN IF Min(ClosedTimes(i)) <= Deadline(runs[i]) THEN "closed_within_sla" ELSE "closed_late"
      ELSE IF asOf > Deadline(runs[i]) THEN "overdue_open" ELSE "open_within_sla"

OfWeek(week) == {i \in DOMAIN runs : Day(runs[i].at) \div WeekLength = week
                                     /\ Required(runs[i], compliance.of)}

Scorecard(week, asOf) ==
    LET count(states) == Cardinality({i \in OfWeek(week) : ClosureState(i, asOf) \in states})
    IN [required |-> Cardinality(OfWeek(week)), closed |-> count({"closed_within_sla", "closed_late"}),
        within |-> count({"closed_within_sla"}), open |-> count({"open_within_sla", "overdue_open"}),
        overdue |-> count({"overdue_open", "closed_late"}), overdueOpen |-> count({"overdue_open"})]

\* Every failed run and every drill, whatever the compliance policy selects.
Coverage ==
    LET required == {i \in DOMAIN runs : Required(runs[i], {"failed", "drill"})}
        covered == {i \in required : EvidenceOf(i) # {}}
    IN [required |-> required, missing |-> required \ covered]

Next ==
    \/ CreatePolicy \/ ClockTicks
    \/ \E c \in Calls :
         \/ ReadPolicy(c) \/ UpdatePolicy(c) \/ RunByHand(c) \/ SchedulerTick(c) \/ LoadForRun(c)
         \/ InsertRun(c) \/ Reschedule(c) \/ Abort(c) \/ CreateEvidenceRead(c) \/ CreateEvidence(c)
         \/ UpdateEvidenceRead(c) \/ UpdateEvidence(c) \/ ReadCompliance(c) \/ WriteCompliance(c)

Spec == Init /\ [][Next]_vars
-----------------------------------------------------------------------------
(* Properties *)

\* The scheduler runs a backup or drill once for a time it was due, unless the
\* tick had read what is due before the first run was recorded; an enabled
\* drill has a next time and a disabled one has none.  Both fail only for a
\* policy that somebody wrote from a row that had changed in between.
ScheduleIsKept ==
    \A p \in DOMAIN policy \ outdated :
        /\ policy[p].enabled <=> policy[p].nextDrill # Never
        /\ \A i, j \in DOMAIN runs :
             /\ i < j /\ runs[i].p = p /\ runs[j].p = p /\ runs[i].type = runs[j].type
             /\ runs[i].due # Never /\ runs[i].due = runs[j].due
             => ~(runs[i].done /\ i \in runs[j].after)

\* A run whose evidence is closed stays closed in the scorecard, as late or as
\* in time as it was, unless the SLA is changed; only a request that had read
\* the evidence while it was open can undo it.  It is not missing then either.
ClosureStands ==
    compliance' = compliance =>
        \A i \in DOMAIN runs :
            /\ ClosedTimes(i) # {}
            /\ \A c \in Calls : At(c, "evidence") /\ evidence[calls[c].row].run = i =>
                                  evidence[calls[c].row] = calls[c].at
            => /\ ClosureState(i, now)' = ClosureState(i, now)
               /\ i \notin Coverage'.missing
ClosureIsFinal == [][ClosureStands]_vars
=============================================================================
