# A TLA+ model of firm-ai-cloud

This directory specifies the API service of firm-ai-cloud (`src/services/api`, Rust,
axum + sqlx on PostgreSQL) in TLA+: modules per component, TLC configurations that
check them on small instances, and proofs that TLAPS checks for every value of the
constants. `PROJECT.json` maps every definition to the source lines it stands for,
names the hazards of the code and the properties that cover them, and lists what each
run and each theorem establishes.

Contents: [the system](#the-system), [modules and code](#modules-and-code),
[runs](#runs), [where code and documents disagree](#where-code-and-documents-disagree),
[proofs](#proofs), [limits](#limits), [plan](#plan), [how to run](#how-to-run).

## The system

One or more API processes share one PostgreSQL database. Each process serves HTTP
handlers and runs background loops as tokio tasks: the monitoring sync worker, the
discovery scheduler, the backup scheduler. There is no queue or lock service beside
the database, so components interact only through rows:

 * a handler or loop mostly runs *statement by statement on the pool*, each statement
   a transaction of its own; a few operations open an explicit transaction, with
   `FOR UPDATE` where they lock;
 * unique and partial unique indexes and CHECK constraints sometimes carry the
   invariant that the code does not;
 * a handler may end anywhere: a dropped connection, a failed statement, a panic or a
   restart leaves whatever its finished statements wrote.

The granularity of every module follows from this: one action per statement or
transaction, and a local state per handler or task that holds what it has read.

### Inventory

| Component | State | Operations | What is hard | What makes it correct |
|---|---|---|---|---|
| Monitoring sync (`cmdb/monitoring_sync.rs`, `monitoring_sync_worker.rs`) | jobs, bindings, Zabbix hosts | enqueue on asset create/update or by hand; claim; process; retry with backoff; dead-letter; raise or close the asset's alert | enqueueing is four statements; several worker processes; three separate writes of a result; crashes | one job in flight per asset; exclusive provisioning; attempts within budget; settled is final; bindings and alerts tell the truth |
| Alert centre (`alerts.rs`) | alerts, timeline, ticket policies and actions | upsert, recover, acknowledge, close (bulk), evaluate policies | timeline, evaluation, ticket and action follow the row in later statements; operators race reports | stamps agree with status; a suppression has a ticket; an open incident has one; one ticket per window |
| Workflow (`workflow.rs`) | request, template, execution log | create, approve, reject, execute, complete a manual step | overlapping calls walk one request from a stale index and write without conditions | steps in order behind approvals and barriers; a decision is final; running means somebody works |
| Discovery (`cmdb/discovery.rs`, `discovery_scheduler_worker.rs`) | jobs, candidates, asset states, events | scheduled and manual runs; match; queue; review; count missing assets | scheduler and manual runs contend; a run is a long chain of statements; review is read-then-write | exclusive runs; events told and justified; one asset per device; verdicts final |
| Tickets (`tickets.rs`) | tickets, escalation policy and actions | create, update status, preview and run escalations | candidates are read before the transaction that escalates them; the policy is read, merged and written | a breach is escalated once; queue, preview and run agree |
| Playbooks (`playbooks.rs`) | catalogue, dry runs, approvals, executions, execution policy | dry run, request, approve, reject, execute, replay, update the policy | decisions and the consumption of an approval are read-then-write; the approval is used before the confirmation is checked | one execution per approval, by somebody else than who approved; the change freeze is kept; a replay repeats |
| Change calendar (`change_calendar.rs`) | reservations | conflicts, reserve, recommend slots | count, then insert; windows by time of day | no overlap that a reservation could have seen; slots and hints lie in windows |
| CMDB assets, fields, bindings, lifecycle (`cmdb/assets.rs`, `field_definitions.rs`, `lifecycle.rs`) | assets, definitions, bindings | CRUD, replace bindings, transitions | readiness and field checks precede the write; updates write back the whole row | operational assets were ready; fields fit their definitions; codes identify |
| Relations (`cmdb/relations.rs`) | edges | create, delete, graph, impact | parent and cycle checks precede the insert; traversal of circular graphs | the hierarchy is a forest; an impact is complete |
| Notifications (`cmdb/notifications.rs`, `cmdb/discovery.rs`, `ops_runbooks.rs`) | channels, subscriptions, deliveries | select targets, queue, post with retries, finalise | posts succeed whose answer is lost; a dispatch is cut off | a delivery says what became of it |
| Incident command (`incident_command.rs`) | command per alert, event log | upsert, list, timeline | current row read without a lock, after the instant that dates the event | transitions follow the state machine; the last event tells the command, and the timeline inverts only what overlapped |
| Backup and DR (`backup_dr.rs`) | policies, runs, restore evidence, compliance policy | scheduler tick, manual run, evidence, scorecard | due policies are read without a claim; the next time is computed from an older read | a due time runs once; a closure stays |
| Runbooks and risk tickets (`ops_runbooks.rs`) | policies, presets, executions, links, owner directory, routing rules | execute, replay, analytics, alert, ticket, repair, bootstrap | read-merge-write of policies; look for the link, create the ticket, upsert the link | the policy is coherent; a replay repeats; the ways of counting agree; one ticket per risk; a ready owner is told |
| Cockpit and follow-ups (`cockpit.rs`) | follow-up and checklist rows | briefing; follow up, assign, escalate | tasks are derived anew each time; read-merge-write of the state | no lost update; what is urgent is shown |
| Setup (`setup.rs`) | profile and template runs | preview, apply, revert | the snapshot keeps some columns and is read outside the transaction; sections are looked up, then locked one by one | reverting restores what the snapshot keeps |
| Handover digests, topology, streams, monitoring sources, accounts, audit, common library, web console | single rows, or none of their own | reads, single-row writes | nothing over several steps | — |

Calls between components: asset handlers and discovery write assets, asset handlers
enqueue sync jobs; the sync worker reports failures and recoveries to the alert centre;
the alert centre opens tickets; tickets may carry a workflow request; playbooks write
executions, and mean to write events, for alerts; cockpit, topology and streams only
read. Approving a discovery candidate inserts an asset and does *not* enqueue a sync.
Playbooks and the calendar share the execution policy and the approvals; discovery and
runbook risks share notification channels; cockpit tasks come from alerts, tickets and
executions.

## Modules and code

| Module | Models |
|---|---|
| `JobLifecycle` | the abstract specification of one sync job |
| `SyncQueue` | queue, claim, worker tasks, bindings, alert of an asset |
| `SyncQueueProofs` | theorems about `SyncQueue`, and about `Notifications`, `RiskOwners`, `FollowUps`, `Profiles`, `MaintenanceWindows` and `PlaybookParams` in their run |
| `Alerts` | alert rows, timeline, ticket policies, remediation events |
| `AlertsProofs` | theorems about `Alerts`; carries those of `PlaybooksProofs` to their run |
| `Workflow` | one request and the executor |
| `WorkflowProofs` | theorems about `Workflow`; carries those of `RunbooksProofs` to their run |
| `Discovery` | one discovery job, its runs, candidates and reviewers |
| `DiscoveryProofs` | theorems about `Discovery`, and about `Relations` in its run; carries those of `AssetsProofs` to theirs |
| `Tickets`, `RiskTickets` | tickets, their escalation; the ticket of a runbook's risk |
| `MCAlertsTicketsProofs` | theorems about `Tickets`, `RiskTickets`, `IncidentCommand` and `BackupDr` in their run |
| `MaintenanceWindows`, `ChangeCalendar`, `Playbooks` | weekly windows as functions; conflicts and reservations; dry runs, approvals, executions, policy. Each extends the one before |
| `PlaybooksProofs` | theorems about the three of them |
| `PlaybookParams` | schemas and parameters, as functions |
| `Runbooks`, `RunbookAnalytics` | templates, policy, presets, executions; what is computed from them |
| `RunbooksProofs` | theorems about both |
| `Notifications`, `RiskOwners` | channels, subscriptions, deliveries; owners, routing, readiness, repair, bootstrap |
| `IncidentCommand` | the command of an alert |
| `BackupDr` | backup policies, runs, restore evidence, compliance |
| `Fields`, `Assets` | definitions of fields; assets, codes, bindings, lifecycle |
| `AssetsProofs` | theorems about both |
| `Relations` | the hierarchy and the impact of an asset |
| `FollowUps` | daily tasks, their urgency, and what operators did about them |
| `Profiles` | operator profiles and their revert |
| `MCSyncQueue`, `MCAlerts`, `MCDiscovery` | symmetry sets and structured constants for TLC |
| `MCSyncOperations`, `MCAlertsPlaybooks`, `MCAlertsTickets`, `MCWorkflowRunbooks`, `MCDiscoveryAssets` | runs that check several components, see [runs](#runs) |

Definitions that no action uses and whose comment begins with "Seeded fault"
(`ReadyIncludesRunning`, `ApplyKeepsMissed`, ...) are what the definition after them would be
after a plausible slip in the code. For every property there is one under which TLC finds
it violated (`PROJECT.json`, "mutants").

### SyncQueue

`req[r]` is a handler inside `enqueue_monitoring_sync_job` (`cmdb/monitoring_sync.rs`
217-385): read the asset's class, read the job in flight, then either refresh that job
by id or insert one and write the binding. `EnqueueInsert` includes the partial unique
index `uq_cmdb_monitoring_sync_inflight_asset`: a handler that loses the race fails.
`CreateAsset`, `UpdateAsset` and `TriggerSync` are the callers. `Claim(w)` is the claim
transaction (`FOR UPDATE SKIP LOCKED`, so one atomic step): it marks up to
`BatchSize` due pending jobs running and starts one attempt of each; the worker loop joins the
whole batch before it claims again, which is the guard `Busy(w) = {}`. Each job has a
task `task[w][j]` that loads the asset, provisions at most `MaxParallel` at a time (the
semaphore), and writes job, binding and alert in three steps (`MarkJob`, `MarkBinding`,
`MarkAlert`). Zabbix is external: the host keeps the revision it was given, and a call
may fail. A *fault* ends a handler or task between two statements, or restarts a
process; nothing recovers running jobs, as in the code.

`JobLifecycle` says the same without any of the machinery; `ImplementsLifecycle` maps
`jobs` to its variable by dropping whether a job is due.

### Alerts

One row per alert key. `Report` is the upsert of `upsert_unified_alert` (one locked
transaction that decides observed or reopened), `InsertAlert` its insert; then come the
event (`WriteEvent`), the evaluation of the ticket policies of the alert's severity
(`Evaluate`, `NextPolicy`), and per policy `CreateTicket`, `RecordAction`, `NoteTicket`.
`Recover` closes an alert that recovered. Operators acknowledge or close alerts one by
one, also within a bulk call (`StartBulk`, `UpdateStatus`, `WriteStatusEvent`,
`FinishBulk`). A dedup window is open or over (`WindowElapses`). `Remediate` is the one
step of a playbook execution that concerns the alert: `InsertEvent` includes the CHECK
constraint of the timeline's event types.

### Workflow

One request on a template of `approval`, `manual`, `script` and `manual_script` (a
script that is not run automatically) steps. `ExecuteRead`/`ExecuteStart` and
`ManualRead`/`ManualLog`/`ManualAdvance` are the two handlers that enter the executor;
from then on `call[h]` walks the steps: `SkipApproval`, `ReachBarrier`
then `MarkWaiting`, `RunScript` then `ScriptSucceeds` or `ScriptFails`, `Progress`,
`MarkCompleted`, `MarkFailed`. All progress writes are unconditional, as in the code.
`runs` counts how often a script was started and `alone` tells whether two calls ever
overlapped; no action reads either.

### Discovery

`run[r]` is the scheduler or a manual call inside `execute_discovery_job`:
`MarkRunning` is the conditional update that lets one run in, `Collect` fetches the
devices, `ReadItem` matches one, `ApplyMatch` or `QueueCandidate` writes it,
`LoadStates`, `CountMissing`, `EmitMissing` and `FlagMissing` count the absences of the
other assets and report those that reach the threshold, `Finish` sets the job idle.
`RunFails` is an error that the code catches (status failed), `RunIsCutOff` one that
nothing catches. `review[v]` is approve or reject of a candidate: read, decide between
create, merge and refuse, write the asset, close the candidate. A device is its whole
identity, so partial matches (hostname only) are left out. `told` and `streak` are
history variables: events since an asset was last matched, and collections without a
device; the code keeps them only as rows of the event table.

### Tickets and RiskTickets

`calls[c]` is a handler of the API; what it has read stays in its record. `ReadForRun`,
`ReadCandidates` and `Escalate` are `run_ticket_escalation`: the policy, the oldest
`ActiveLimit` active tickets, then one transaction that assigns by id. `Queue` and
`Preview` are the other two places that decide what is due; `QueueShowsDue` compares
them. The two limits of these queries are said by counting: a ticket is among the oldest
(`Oldest`) or the newest (`Newest`) when fewer than the limit come before it (`InOrder`).
`ReadLink`, `AssignLinked`, `CreateLinked` are `create_runbook_risk_alert_ticket`.

### Playbooks, ChangeCalendar, MaintenanceWindows, PlaybookParams

A risky execution is a chain of single statements: `Execute` (policy and calendar),
`VerifyApproval`, `ConsumeApproval`, `VerifyConfirmation`, `ConfirmDryRun`, `InsertRun`;
a decision is `ReadToApprove` then `Approve`, and so on. All updates are by id. `stale`
is a history variable: the rows that were updated by a call that had read an older
version. Properties say what holds of the others, so an interleaving is excused only
for the row it hit. A reservation is `CountOverlaps`, `EvaluateConflicts`,
`InsertReservation`. `MaintenanceWindows` takes time as a number of ticks in the
policy's time zone; the functions are translated separately for the playbooks and for
the calendar, which disagree in detail, and `PlaybookInputsAgree` says in what they
must agree. `Normalized` is `normalize_playbook_params`: no result, or the parameters.

### Runbooks and RunbookAnalytics

`Execute` and `Replay` read the policy, compute the outcome (`FirstFailure`, `Outcomes`)
and insert the execution later (`InsertRun`), so that policies change in between. A
template is told by the step its parameter can fail and whether it may run for real.
`Summary`, `ListedAlert`, `Aggregate` and `Feed` are four queries over the executions
that the console shows beside each other; `Feed` takes a failure when fewer than its
limit are newer.

### Notifications and RiskOwners

Both dispatchers (discovery events, runbook risks) work through the targets of an event:
insert the delivery, post it up to the channel's attempts, finalise it. The targets are a
set of subscriptions, worked through by their ids (`First`). `received` counts
what the endpoint got; an answer may be lost. `RiskOwners` adds the owner directory,
the routing rules in their order of preference, the readiness of an owner, its repair
and the bootstrap of notifications and follow-up policy.

### IncidentCommand, BackupDr

The upsert of a command begins its transaction (`Begin`, which fixes the `NOW()` its event
will carry), reads the row in a later statement (`ReadCommand`), validates the transition
against it and writes (`Update`), with an event in the same transaction. The event keeps
how many there were when its transaction `began` and when it read (`saw`). The timeline is
ordered by the time, then the id (`ShownBefore`), so another request that commits between
the beginning and the reading is shown as newer although its result was read; the property
allows exactly that. In
`BackupDr` time is ticks, days and weeks; `SchedulerTick` reads the set of what is due and
works through it, `LoadForRun`, `InsertRun`, `Reschedule`; evidence is read, then
updated by id. `outdated` plays the part of `stale`.

### Fields, Assets, Relations

A definition update fills in what the request leaves out from what it read, and an asset
update writes the whole row back (`Rewritten`). Discovery writes
into the same rows when a candidate is approved, and validates nothing: `CreateDiscovered`
takes the candidate's metadata for fields, `MergeDiscovered` adds or overwrites
`discovery_fingerprint` and `discovery_source_type` with texts no request gives (`Stamp`).
The second may well be the key of a definition, and in the run it is. An asset row
carries three history flags: whether its status was decided by a transition
(`decided`), whether its bindings are as they were counted (`sure`), and whether the
definitions are as they were when its fields were checked (`checked`). `Relations` is
the check of parent, the check for a cycle, the insertion. What is below an asset, a
recursive query in the code, is the least set that has the children of the asset and of
its members (`Below`). `Traverse` is the breadth-first search of `traverse_impact`:
`Rounds` is a function of the number of rounds, `Round` one of them; and
`ImpactIsComplete` compares it with walks.

### FollowUps, Profiles

A task is what other tables say of it (`source`) at a time `now`; `Candidates`, `Level`,
`Priority`, `DueAt`, `Status`, `Before`, `Carryover` and `Recommended` compute the
briefing as `cockpit.rs` does. The scores are the code's numbers, minutes included. An
action derives the task, reads the row again (`Reread`) and writes the whole row
(`Write`). The windows and the owner of tickets come from the row `default-ticket-sla`
(`policy`), which is read at each briefing and edited at any time (`EditPolicy`), by hand or
by a profile; nothing orders its windows across priorities, and the policy of the run gives
critical tickets more time than high ones, as a built-in profile may.

`Profiles` reads one section after the other outside the transaction (`ReadSection`), then
looks each up (`LookUp`) and writes it (`UpsertSection`, `DeleteSection`), and keeps the
snapshot in the run. The columns of a row are of three kinds, told by what wrote them last:
those of the snapshot (`saved`), those every profile sets anew when it is applied or
reverted (`own`: `match_status`, names, `destination_validated`, the next backup and drill),
and those it leaves alone or gives their default with a new row (`kept`: the matches, the
windows of critical and low). A row that is deleted between the look-up and the update is
missed without an error (`MissSection`). `log` is a history variable: one
entry for each commit, with the number of commits its request had seen.

## Runs

Every run ends; the bounds below are constants named in each module. The systems rest
when their bounds are used up or when nobody calls, so `CHECK_DEADLOCK FALSE`.

| Run | Instance | Shows |
|---|---|---|
| `sync_safety` | queue: 1 asset, 2 jobs, 2 workers, 2 handlers, 2 attempts, 1 fault | one job in flight, exclusive provisioning, truthful bindings, refinement of `JobLifecycle` |
| `sync_alert` | queue: 2 assets of either class, batch of 2, 2 revisions, no fault; 2 dispatches to a webhook and a mailbox with 1 fault; 2 requests on one owner, one task, tasks of every kind under two ticket policies, one profile of two sections; all window sets of two windows on a week of two days; all fields and values over 2 sizes | only faults orphan a job; a settled asset's alert agrees with its binding; deliveries tell the truth; ready owners are told; follow-ups are kept, urgency is shown and lasts; reverting restores the snapshot; windows and parameters agree |
| `sync_live` | 1 asset, 2 jobs, 2 revisions, 1 worker with one task at a time, 2 faults, fair | every queued job settles, across retries, backoff, updates, lost handlers and restarts, unless it is the one that a fault orphaned |
| `sync_updates` | 1 asset, 1 job, 2 revisions | *violation*, see below |
| `alerts_safety` | alerts: 1 alert, 2 policies, 2 reporters, 2 operators, 2 reports, 1 fault; 1 dry run with 2 approvals, 2 requests, 2 operators, 2 executions; 2 overlapping slots, policy updates | every alert has its ticket, the timeline accounts, only a report reopens; approvals are spent once, the freeze is kept, no unseen overlap |
| `alerts_window` | alerts: 1 alert, 1 reporter, 2 operators, 3 reports, remediations; 1 ticket under 2 escalations, 3 tickets of one risk, 4 transactions on a command, 2 runs of a backup policy, 2 rows of evidence; 2 requests each | one ticket per policy and window; escalations, risk tickets, command, backups and evidence |
| `alerts_remediation` | 1 alert, 1 reporter, 1 operator | *violation* |
| `workflow_calls` | 5-step template with every kind, 2 overlapping calls of up to 4 executions and their manual completions, 2 cut off, fair; runbooks: 2 racing requests on a live template, 1 request on two templates with every form of parameter, presets | order of steps, barriers, no stuck request, rest; while calls come one at a time scripts run once per completed call and ended stays ended; runbooks repeat, their policy is coherent, analytics agree |
| `discovery_runs` | 1 known host, a container, scheduler and manual run, 2 faults, fair; 1 enumeration whose definition changes under 2 requests and whose key discovery writes; codes of 2 assets | exclusive runs, events told at most once per fault, runs again and again while none fails; fields fit and codes identify |
| `discovery_review` | a host and a container to be discovered, 1 reviewer, 3 candidates, 1 fault; 1 asset under 2 requests that bind, update and transition it; 3 assets under 2 requests, 3 relations of 2 types, depths 0 to 3 | one asset per device, verdicts final; without a fault an event means `Threshold` collections in a row without the device; operational assets were ready; forest and complete impact |
| `discovery_cutoff` | scheduler, fair, 1 fault | *violation* |
| `discovery_reviewers` | 2 reviewers | *violation* |

**One run, several components.** Six runs instantiate more than one component. The
components of such a run have no state in common, so checking their product would
multiply states and show nothing. Instead the MC module has a variable `focus`, chosen at
the start and never changed: the component in focus takes its steps, the others rest
in a fixed state. The reachable states are the sum of those of the components, and each is
explored exactly as it would be alone. Variables that no two components use at the same
time are shared under one name, `calls` above all. A property of a component is guarded by
its focus. Where components do share state in the code they share it in the model, in
one module chain: `Playbooks` on the calendar on the windows, `RiskTickets` on `Tickets`,
`RiskOwners` on `Notifications`, `Assets` on `Fields`, `RunbookAnalytics` on `Runbooks`,
and `SyncQueue`, whose jobs raise the alerts it closes.

Instances with a restriction of their own (`OnlyLinking`, `Unmarked`, `SeenOnce`, ...) leave out steps
that another focus of the run takes; the comment at each says which.

Why the bounds are enough to be interesting. One asset with two jobs is what contention
for the asset's slot takes: the second is the re-enqueue after the first, from another
process; two attempts reach both the retry and the dead letter. Two assets in a batch of
two are needed only for `sync_alert`, where the tasks of one batch interleave. Two
reports with two operators give reopening against acknowledging and closing in every
order; the third report of `alerts_window` is the one that meets a window that elapsed
and was renewed. The template of the workflow runs has a script before a barrier, a
script after it, and a barrier at a script; with two handlers one walks the request
from an index the other has overtaken (three handlers and three starts, 1.2 million states,
show nothing new, and the theorems are for any number). Threshold 2 with saturation at 3
makes the counter go below, to, past and up to its limit; three candidates let a device be queued again after a verdict.

For the read-then-write components two requests on one row are what a lost update takes,
with one more write than requests so that something can be overwritten twice. Three
assets are the smallest hierarchy with a cycle that no single check sees and with a walk
that returns; a day of two or three ticks has a time inside, at and outside a window
and a week of two days a day that follows itself. The instants of the follow-ups are
minutes on either side of the due times of every priority. A second asset, field, owner
or risk adds rows that no statement relates to the first, except for codes, which are
checked with two.

Several properties are stated with `faults = 0` or `1 + faults`: they hold exactly up to
cut-off handlers, and the mode without faults is the one the code can keep. Bounds that
users hit (`MaxRev`, `MaxReports`, `MaxStarts`, `MaxCandidates`) only stop new calls and
never a call that is under way; an insert that has no id left waits.

Fairness is weak and used only for liveness: handlers and tasks are polled by the
runtime (`EnqueueStep`, `TaskStep`, `HandlerStep`, `RunStep`), the worker and scheduler
loops never stop (`Claim`, `SchedulerPicks`), and clocks advance (`BackoffElapses`,
`IntervalElapses`). No user action and no fault is fair.

## Where code and documents disagree

 * `sync_updates` (docs/07-dev-quickstart.md:405-406): an update made while the asset's
   job runs is answered with the running job and not queued. The job has read the older
   row, so Zabbix keeps the older revision until somebody touches the asset again.
 * `alerts_remediation` (release-notes/v0.1.3.md:19): remediation events are never on
   the timeline, because its CHECK constraint has no such event type and the failed
   insert is only logged.
 * `discovery_cutoff` (docs/07-dev-quickstart.md:646): a run that is cut off leaves the
   job in status running for ever; both the scheduler and manual runs skip such a job.
 * `discovery_reviewers` (docs/09-v0.0.2-sprint-backlog.md:99): two approvals of one
   candidate that overlap insert two assets with the same hostname and IP.

With two concurrent reporters, `OneTicketPerWindow` does not hold either (the last action
is read, the ticket created, the action recorded); no document promises it, so it is
checked for one process and not listed as a finding. In the same way overlapping calls
can run a workflow's script twice; `RunsAreAccounted` and `EndIsFinal` are stated for requests
whose calls never overlapped (the history variable `alone`).

Nor is "overdue" for ever: an overdue ticket is due today again when the policy gives its
new priority more time or is edited (`StillOverdue` says so). And reverting a profile leaves
the columns that the profile set by itself as they are (`RevertRestores`). No document says
otherwise of either.

The read-then-write components lose updates under the same conditions: two decisions on
one approval, a follow-up state written from an older row, evidence closed and reopened by an
update that read it open. Their properties say exactly what such a pair of calls may do
(`saw`, `stale`, `outdated`, `sure`) and that nothing else happens.

## Proofs

The eight proof modules follow one pattern: an inductive invariant, a lemma for `Init`, one
lemma per action or group of actions, one for the whole step
(`NextInv == IInv /\ [Next]_vars => IInv'`), and the theorems that follow from it. Where a
run has a `focus`, its invariant says `focus = "..." => ...` of each component. The
theorems are about every value of the constants, so of the parameters of the MC modules
too (numbers of users, sections, limits of lists); the assumptions on them are named in
the module that declares them and say no more than is stated below.

Some components are proved about in a module of their own, which extends the component,
and again in the run that instantiates it: a proof there shows that each definition of
the component, under the run's names, is the one the theorem speaks of, and the step
lemma is then cited once. Those theorems end in `InRun`.

`SyncQueueProofs`, for any assets, jobs, workers, handlers, attempts, batch size and
number of faults, assuming only that `MaxAttempts`, `BatchSize` and `MaxParallel` are
positive naturals, that the bounds are naturals and that the null values are not members:

 * `OneInflightTheorem`, `ExclusiveProvisioningTheorem`, `RetryBudgetTheorem`,
   `SettledIsFinalTheorem`, `TypeCorrect`;
 * `Refinement`: `Spec => ImplementsLifecycle`.

Exclusive provisioning is not inductive. What makes it so is ownership: a task that has
not yet written its job owns it, meaning that the job is running on the task's own
attempt (`OwnerRuns`) and that no other task owns it (`OwnerAlone`). Claims take
pending jobs only, so they create the first owner; only the job write moves a job out of
running, so it ends ownership. With the unique index (`OneInflight`) two owners for one
asset have one job. The refresh by id needs `RequestSound`: the id it holds may be
stale, but it is a used one, and the update touches only jobs that still wait. On top:

 * `OrphansComeFromFaults`: a running job without a task is the trace of a fault;
 * `BindingsAreTruthful`: with `BindKnows`, that a task about to write a binding knows a
   job which ended that way, however many tasks and handlers write between;
 * `AlertsFollowBindings`, for one process and as long as there is no fault: a task that
   has written the binding still has the alert ahead of it (`AlertComing`), and no other
   task of the asset is between the same two writes (`TaskPerAsset`). With two processes the
   writes of two tasks may cross; the run with one process is the one that checks it.

The same module proves, in the behaviours of `MCSyncOperations`:

 * `FollowUpsInRun`: `RowsKept` says of each row what the last writes of its task made it,
   and `RequestsActRight` the same of the row each request has read, *up to the write after
   which it read it*. That is what makes the merge of an old row provable: what a write
   overwrites is what came after its reading. `RowAssumption`: NULL is not a row;
 * `RevertInRun`: a request whose last seen commit is still the last holds the sections as
   they are (`RequestsKnow`), what it has written or deleted is locked or is not there, and
   a row it looked up is still there (`Locks`); a run keeps what the snapshot keeps of the
   rows before its commit (`RunsAreKept`). `SectionsAssumption`: finitely many sections, at
   least one, and no profile, value or row is NULL;
 * `DeliveriesInRun`, for any number of dispatchers, channels, subscriptions, deliveries and
   lost steps: of a row that is being sent the endpoint got no more than was tried, and
   what is about to be recorded is so (`SendsTrue`); no two dispatches send one row; and
   the rows that wait are at most the dispatches at work and those that were lost, by
   counting. `ChannelAssumption`: a channel has at least one attempt, and no endpoint is
   the value for "none";
 * `OwnersInRun`, an invariant and an action property: the channels that a repair has found
   are still there, with the target it looked for (`FoundStands`), so the subscription it
   makes tells the owner, and an owner shown as ready has a target;
 * `UrgencyInRun`, for any tasks, owners, instants and policies: the score of a task grows
   with its age (`ScoreRises`), and with it its priority (`LevelRises`), which leaves an alert
   less time; so an overdue alert or runbook stays overdue while nothing else is seen of
   it, and a ticket does unless the policy changes or gives the new priority more time. What
   is urgent precedes what is not (`UrgentFirst`). `TaskAssumption`: NULL is not a time, a
   task has the fields of its kind, with values the score tables know, and the windows of
   a policy are integers;
 * `InputsInRun`: for any length of a day and a week, any set of windows the policy accepts,
   any moment and duration, the hint is an opening (`HintUsable`: within the weeks that
   are scanned every weekday comes, and the earliest of the openings skips none), and
   slots that are recommended, or accepted within a day, lie in windows; for any schema, what
   was normalised once is normal (`StoredAgain`). `MomentAssumption`: days and weeks have
   at least one tick or day, moments and durations are naturals. The time of day is
   the remainder by `DayLength`, so this rests on a lemma about division (`Division`).

`AlertsProofs`, for any alerts, policies, reporters, operators and numbers of reports,
events and faults. Assumed: a policy matches warning or critical alerts, the modes are among
the two there are, the bounds are naturals, the null values are not members, and reporters
and operators are finitely many, for they are counted:

 * `AlertsHaveTickets`: a suppression and a recorded action have a ticket behind them, and
   an open alert has one from each policy of its severity or a reporter on its way
   (`OpenIsCovered`);
 * `TimelinesAccount`: rows and events are written by different statements, so the
   invariant counts the events that are about to be written by reporters and operators
   with those that are (`EventsBalance`);
 * `TicketsPerWindowBounded`: at most one ticket per reporter and fault within a window
   (`WindowIsShared` counts who is past the check); with one reporter that is
   `OneTicketWithOneReporter`, the property the run checks;
 * `StampsAgree`, `ClosedStaysClosed`, `TypeCorrect`.

`WorkflowProofs`, for any template over the four kinds of steps and any number of
handlers, calls and faults:

 * `OrderTheorem` and `StatusTheorem`: every safety invariant of the overlapping calls.
   `OrderInv` is inductive because everything a handler writes is behind it: the steps
   before its own are done (`HandlerBehindDone`), so a stale write of the position moves
   the cursor back but never past a step that is not done;
 * `RejectionTheorem`: nobody is at work when a request is rejected, and no call enters;
 * `RunsTheorem` and `EndTheorem`, for calls that come one at a time (`AloneInv`): one
   handler is active, at the cursor; the last run of a script is under way, passed, or the
   one the request failed at, and every other run was paid for by a call that was cut off;
 * `TypeCorrect`.

`DiscoveryProofs`, for any devices, runners, reviewers, threshold and number of faults,
assuming that `Full` contains `Known`, that the scheduler is a runner, that
`MissedLimit` is at least the threshold and that `MaxAssets` has room for `Known`:

 * `ExclusiveRunsTheorem` (with `WorkingIsMarked`: a run at work has its job in status
   running, so the conditional update refuses a second);
 * `OwnedRunTheorem`: status running without a run means a fault;
 * `ToldOnceTheorem`: a flagged asset had its event, and it had at most one more than
   there were faults. The invariant `ToldIsCovered` gives each event beyond the faults
   its flag, or the one run that is about to write it (exclusiveness makes it the only
   one);
 * `TypeCorrect`. Lemmas `Least` and `Greatest` supply the minimum and maximum that the
   saturating counter is built from;
 * `OneAssetTheorem`, `VerdictTheorem`, `OffboardTheorem`, with any number of reviewers *as
   long as no two reviews overlap*: the first two are false otherwise, as
   `discovery_reviewers` shows. `ReviewInv`: a candidate under review is pending, and
   nothing has the identity of an asset that is about to be created. `CountInv`: without
   a fault the stored count of absences follows the collections without the device, the
   targets of a run under way included.

`PlaybooksProofs`, for any requests, operators, rows, slots and windows, under
`ParametersOK` (the life time of a token is a natural number of ticks, a slot an interval
of them):

 * `ApprovalSpentTheorem`: who decides read a pending approval (`DecidesPending`), who
   consumes one read an approved one of somebody else (`ConsumesApproved`), and a
   consumed approval that no two calls overlapped on is in the hands of one call or one
   run (`HeldOnce`);
 * `OverlapTheorem`: a reservation under way overlaps nothing of what it counted
   (`CountedIsFree`);
 * `FreezeTheorem`, without any hypothesis; `TypeCorrect`;
 * in the run (`AlertsProofs`): `ApprovalSpentInRun`, `FreezeInRun`, `OverlapInRun`.

`RunbooksProofs`, under `ParametersOK` (templates and inputs are among those the code
has, the feed shows at least one row):

 * `PolicyTheorem`, and `ReplayTheorem` from `RunsFit`: a row has the outcome that its
   template gives for its parameters, a replay the parameters of its source; normalising
   what is normal changes nothing (`NormalAgain`);
 * `PresetsTheorem`, `TypeCorrect`;
 * `AnalyticsTheorem`: the four queries over the executions agree for every number of rows
   and any limits, unless the summary says it is truncated;
 * in the run (`WorkflowProofs`): `RunbooksInRun`, `AnalyticsInRun`.

`AssetsProofs`, without assumptions. `RowsOK` and `CallsOK` say the same of a stored row and
of one a request will write back: its fields fit the definitions or are what discovery
wrote, and its bindings were counted, unless something has changed since:

 * `OperationalTheorem`, `RequiredTheorem`, `OptionsTheorem`, `CodesTheorem`, `TypeCorrect`;
 * in the run (`DiscoveryProofs`): `OperationalInRun`, `FieldsAndCodesInRun`.

`DiscoveryProofs` also proves `RelationsInRun`, for any assets, relation types, requests and
number of relations and depths that are integers (`DepthsAssumption`):

 * the forest, from `RelateInv`: ids grow, an asset has one parent, and no relation led
   back from its child to its parent by what it saw and is still there (`NoWayBack`). Of a
   circle take the relation inserted last: another relation of that circle was not there
   at its check (`CircleUnseen`), and it was not there at the other's, which has a lower id.
   Deletions only make less of what was seen (`SeenShrinks`);
 * the impact, although it is computed by recursion: `RoundsAre` and `WalksAre` show that the
   two recursive functions exist and are what they say, by the least limit at which they
   would not be; `TraverseFinds` compares them round by round (`RoundFinds`): a node is in
   the frontier of the round whose number is the length of the shortest walk to it.

`MCAlertsTicketsProofs`, for any requests, users, tickets, actions, events:

 * `BreachTheorem`, for any limits of the lists (`LimitsAssumption`: naturals). The last
   handover of a ticket went to who has it (`AssigneesFollow`), and it was so of what a run
   read when it read it (`RunsHaveRead`); the transaction that escalates a batch appends
   one action for each ticket;
 * `OneRiskTicketTheorem`: a link goes to the newest ticket of its source (`LinksNewest`), a
   later ticket needs that the earlier was settled or passed over (`LaterNeedsPassed`), and
   a request that found none saw only such (`LookedAt`);
 * `CommandTheorem`: the newest event by id tells the row (`NewestIsRow`), a request nobody
   has overtaken read the row as it is (`ReadsCurrent`), and a transaction is later than the
   events that had been written when it began (`BeganLater`, `EventsInOrder`).
   `AbsentAssumption`: NULL is not a row;
 * `BackupsTheorem`, an invariant and action properties, for any policies, schedules and
   lengths of a day, a week, a month and a quarter: what a policy is next due is after
   what was run for it (`TimesAhead`), what a tick still has before it was not run when it
   looked (`EntriesNew`), unless another call overwrote the policy in between; and a
   closure has a time that has passed and is only written over evidence read as open
   (`ClosuresPast`). `CalendarAssumption`: each of the four lasts for some time;
   `NeverAssumption`, `OutcomesAssumption`: NULL is not a time, an outcome is a Boolean.

## Limits

Only model-checked: liveness, which is under fairness and out of the prover's reach
(`EveryJobSettles`, `ExecutionRests`, `JobIsRunAgain`).
Every invariant and every action property of the passing runs is stated by a theorem;
where a theorem needs more than the run's specification, its statement says so
(`OneReviewAtATime`, one API process for the alerts of the queue, one reporter for
`OneTicketPerWindow`).

Left out on purpose. Time is a flag (due, window open) or a small number of ticks; only
`FollowUps` counts the code's minutes. Payloads, texts, filters and listings are absent; so are permissions, since a request without
permission changes nothing. A `JOIN` or `RETURNING` inside one statement is part of the
step. PostgreSQL runs at READ COMMITTED: one statement is atomic, two are not. In
`SyncQueue` the sequence of Zabbix calls is one step per task (`Provision`), because
exclusive provisioning is about who may be inside it. In `Discovery` notifications are
dispatched within the emitting step; `Notifications` has the dispatch itself.

Not modelled, with the reason in `PROJECT.json`: handover digests, accounts and sessions,
roles, monitoring sources, event streams, topology, audit, start-up, the common library
and the web console. They read, or write one row per request. Of the modelled
components, listings, exports, texts, permissions and the calls to Zabbix behind one job
are left out; so are the checklists of cockpit and setup, which write single rows.

## Plan

Done, in this order: the queue and its proofs, alerts, workflow and discovery with their
proofs, then tickets, playbooks, calendar, runbooks, notifications, incident command,
backups, CMDB, follow-ups and profiles, model-checked; then the proofs about each of
them, in the order of the section above. What is left are parts of the code and not proofs:
the handover digest, whose items are closed by single-row writes, and the two hazards that
`PROJECT.json` lists without a property, a pool of connections that transactions wait for and
an escalation run over more tickets than it reads.

## How to run

    tlc -workers 4 -config SyncQueue_safety.cfg MCSyncQueue
    tlapm SyncQueueProofs.tla

The slowest runs are `alerts_safety`, `discovery_review`, `sync_alert` and `alerts_window`
(2.4, 3.5, 1.6 and 1.8 million states, two to four minutes each). From nothing
`SyncQueueProofs` takes about a quarter of an hour, `AlertsProofs`, `DiscoveryProofs` and
`MCAlertsTicketsProofs` four to six minutes, the others one to three.
