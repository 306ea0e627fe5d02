-------------------------- MODULE RunbookAnalytics --------------------------
(***************************************************************************)
(* What is computed from the stored executions of runbooks: the summary,   *)
(* the feed of failures, the risk alerts of the list, and the aggregate a  *)
(* risk ticket is created from, which is computed by a query of its own.   *)
(***************************************************************************)
EXTENDS Runbooks

Queries == [modes : {Modes} \cup {{m} : m \in Modes}, since : 0..MaxRuns]

Rows(templates, q) ==
    {i \in DOMAIN runs : i > q.since /\ runs[i].template \in templates /\ runs[i].mode \in q.modes}

\* The newest ScanRows of them are read.
Scanned(rows) == {i \in rows : Cardinality({j \in rows : j > i}) < ScanRows}

Failed(rows) == {i \in rows : runs[i].status = "failed"}
FailedAt(rows, step) == {i \in Failed(rows) : runs[i].failed = step}

\* In tenths of a percent, rounded half up.
Rate(part, whole) == (2000 * part + whole) \div (2 * whole)

\* Of several, the code takes the one whose id sorts first; steps have no id
\* here but their number, so it is some fixed choice among them.
TopFailedStep(rows) ==
    LET steps == {s \in 1..LastStep : FailedAt(rows, s) # {}}
        most == {s \in steps : \A x \in steps :
                    Cardinality(FailedAt(rows, x)) <= Cardinality(FailedAt(rows, s))}
    IN IF steps = {} THEN NoStep ELSE CHOOSE s \in most : TRUE

NoAlert == [severity |-> "none"]

\* build_runbook_risk_alert_item
Alert(rows) ==
    LET executions == Cardinality(rows)
        failed == Cardinality(Failed(rows))
        rate == Rate(failed, executions)
    IN IF executions < analytics.sample \/ failed = 0 THEN NoAlert
       ELSE IF rate < 10 * analytics.threshold THEN NoAlert
       ELSE [severity |-> IF \/ rate >= 10 * (analytics.threshold + 20)
                             \/ failed >= analytics.sample
                            THEN "critical" ELSE "warning",
             executions |-> executions, failed |-> failed, rate |-> rate,
             latest |-> Max(Failed(rows)), step |-> TopFailedStep(rows)]

OfTemplate(rows, t) == {i \in rows : runs[i].template = t}

\* list_runbook_risk_alerts reads the rows of all templates with one limit.
ListedAlert(t, q) == Alert(OfTemplate(Scanned(Rows(Templates, q)), t))

\* Seeded fault: the query of the ticket forgets the mode it was asked about.
AggregateOfAnyMode(t, q) == Scanned(Rows({t}, [q EXCEPT !.modes = Modes]))

\* load_runbook_risk_template_aggregate reads those of one template.
Aggregate(t, q) == Scanned(Rows({t}, q))

Truncated(q) == Cardinality(Rows(Templates, q)) > ScanRows

\* The counts of the summary, in all and by template.
Counts(rows) ==
    [executions |-> Cardinality(rows),
     succeeded  |-> Cardinality(rows \ Failed(rows)),
     failed     |-> Cardinality(Failed(rows)),
     simulate   |-> Cardinality({i \in rows : runs[i].mode # "live"}),
     live       |-> Cardinality({i \in rows : runs[i].mode = "live"}),
     replayed   |-> Cardinality({i \in rows : runs[i].source # NoRun})]

Summary(q) == [totals |-> Counts(Scanned(Rows(Templates, q))),
               templates |-> [t \in Templates |-> Counts(OfTemplate(Scanned(Rows(Templates, q)), t))],
               truncated |-> Truncated(q)]

FeedTotal(templates, q) == Cardinality(Failed(Rows(templates, q)))

\* The first page: each failure with its step and a hint, the newest first.
Feed(templates, q) ==
    LET failures == Failed(Rows(templates, q))
        newest(k) == CHOOSE i \in failures : Cardinality({j \in failures : j > i}) = k - 1
    IN [k \in 1..Min({FeedRows, Cardinality(failures)}) |->
          [run |-> newest(k), step |-> runs[newest(k)].failed,
           hinted |-> runs[newest(k)].hints > 0]]
-----------------------------------------------------------------------------
(* Properties *)

\* Two updates of the policy, each from a row it read earlier, never leave a
\* row that an update is not allowed to ask for: real execution switched on
\* with no template listed, or with one that has no real execution.
PolicyStaysCoherent == IsPolicy(policy)

\* A simulated replay of a simulated execution repeats its parameters, its
\* steps and its failure, in spite of the second normalisation; and what fails
\* fails at the last step of its timeline, with a hint.
ReplayRepeats ==
    \A i \in DOMAIN runs :
        LET run == runs[i]
        IN /\ run.failed # NoStep <=> run.steps < LastStep \/ run.failed = LastStep
           /\ run.params.failAt \in 1..LastStep => run.status = "failed" /\ run.mode = "simulate"
           /\ run.source # NoRun /\ run.mode = "simulate" /\ runs[run.source].mode = "simulate" =>
                LET source == runs[run.source]
                IN run.params = source.params /\ run.steps = source.steps
                   /\ run.failed = source.failed

\* Unless the summary says it is truncated, a template has an alert on the
\* list exactly when a ticket can be created for it, with the same numbers;
\* the feed counts the failures the summary counts and starts with the one the
\* alert names.
AnalyticsAgree ==
    \A q \in Queries :
        ~Summary(q).truncated =>
            /\ FeedTotal(Templates, q) = Summary(q).totals.failed
            /\ \A t \in Templates :
                 LET alert == ListedAlert(t, q)
                 IN /\ alert = Alert(Aggregate(t, q))
                    /\ FeedTotal({t}, q) = Summary(q).templates[t].failed
                    /\ alert # NoAlert => alert.latest = Feed({t}, q)[1].run
=============================================================================
