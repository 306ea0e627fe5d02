-------------------------- MODULE MCSyncOperations --------------------------
(***************************************************************************)
(* SyncQueue for TLC, and in the same run what operators are told and do:  *)
(* notifications and the owners of risks, follow-ups of daily tasks, the   *)
(* operator profiles; and the pure parts of the playbooks, maintenance     *)
(* windows and parameters, for every small input.                          *)
(*                                                                         *)
(* `focus` says which of them a behaviour is about.  The others rest, and  *)
(* components that are never active together share `calls`, `rows`, `log`. *)
(***************************************************************************)
EXTENDS SyncQueue, Sequences, TLC

CONSTANTS
    Kinds, TaskSeen(_),                  \* daily tasks: what kind they are, what is seen of them
    FollowTasks, FollowOwners, FollowInstants, MaxFollowWrites,   \* follow-ups
    AgeingTasks, AgeingInstants, TaskPolicies, BriefingTasks,     \* tasks that get old
    ProfileSections, ProfileNames, MaxCommits,                    \* operator profiles
    Events, Sites, Endpoints, Names, AttemptLimits, DefaultLimit,
    MaxChannels, MaxSubscriptions, MaxDeliveries, MaxLost,        \* notifications
    OwnerKeys, Templates, Modes, Severities, Priorities, MaxRules, \* owners of risks
    DayLength, WeekLength, WindowSets, Moments, Durations,        \* maintenance windows
    ParamKeys, ParamSizes                                         \* parameters of playbooks

Calls == JobIds     \* so that one symmetry serves every component
Absent == NoAsset

VARIABLES focus, calls, rows, log, input,
          channels, subscriptions, deliveries, received, dispatch, lost,  \* notifications
          owners, rules, template, followup,                              \* owners of risks
          source, policy, now,                                            \* follow-ups
          runs                                                            \* profiles

sharedVars == <<calls, rows, log>>
notifyVars == <<channels, subscriptions, deliveries, received, dispatch, lost>>
ownerVars == <<owners, rules, template, followup>>
taskVars == <<source, policy, now>>

Symmetry == Permutations(Assets) \cup Permutations(JobIds)
              \cup Permutations(Workers) \cup Permutations(Requests)
-----------------------------------------------------------------------------
(* Requests that dispatch an event, and requests that route, repair and      *)
(* bootstrap the owner of a risk.                                            *)
Notifying == INSTANCE RiskOwners WITH
    faults <- lost, Dispatchers <- Calls, RiskEvent <- "risk", AnySite <- "any",
    AnyMode <- "all", AnySeverity <- "all", MaxFaults <- MaxLost

\* A webhook and a mailbox.
TwoEndpoints == {[type |-> "webhook", at |-> "w"], [type |-> "email", at |-> "m"]}

\* max_attempts is within 1..5, and a channel has a form of its own.
ASSUME ChannelAssumption ==
    /\ AttemptLimits \subseteq Nat \ {0} /\ DefaultLimit \in Nat \ {0}
    /\ Notifying!NoTarget \notin Endpoints

\* A policy that gives a critical ticket more time than a high one.
SomePolicies ==
    {[windows |-> [critical |-> <<100, 200>>, high |-> <<15, 30>>,
                   medium |-> <<120, 240>>, low |-> <<240, 480>>], owner |-> "ann"]}

\* A task of every kind, and what the tables may say of it.
KindOf == [a |-> "alert", t |-> "ticket", r |-> "runbook", g |-> "go_live",
           s |-> "activation", f |-> "feedback"]

FewSeen(kind) ==
  CASE kind = "alert" ->
         [weight : {"warning", "info"}, status : {"open"}, at : {0}]
    [] kind = "ticket" ->
         [weight : {"high", "low"}, status : {"open"}, assignee : {Absent}, at : {0}]
    [] kind = "runbook" -> [failed : {1}, runs : {2, 5}, assignee : {"ann"}, at : {0}]
    [] kind = "go_live" -> [weight : {"blocking", "warning"}, at : {0}]
    [] kind = "activation" -> [weight : {"high", "medium"}, at : {0}]
    [] OTHER -> [weight : {"high"}, at : {0}]

(* Two requests act on one task.                                             *)
Following == INSTANCE FollowUps WITH
    Tasks <- FollowTasks, Kind <- Kinds, Seen <- TaskSeen, Owners <- FollowOwners,
    Policies <- TaskPolicies, Instants <- FollowInstants, MaxWrites <- MaxFollowWrites

\* NULL is not a row of the follow-ups.
ASSUME RowAssumption ==
    Absent \notin [state : {"acknowledged", "completed", "deferred"},
                  defer : FollowInstants \cup {Absent}, owner : FollowOwners \cup {Absent}]

\* NULL is not a time either, and every task is of a kind whose fields it has.
ASSUME TaskAssumption ==
    /\ Absent \notin Int /\ FollowInstants \subseteq Int /\ AgeingInstants \subseteq Int
    /\ FollowTasks \cup AgeingTasks \cup BriefingTasks \subseteq DOMAIN Kinds
    /\ \A t \in DOMAIN Kinds :
         /\ Kinds[t] \in {"alert", "ticket", "runbook", "go_live", "activation", "feedback"}
         /\ \A s \in TaskSeen(Kinds[t]) :
              /\ "at" \in DOMAIN s
              /\ Kinds[t] \in {"alert", "ticket"} => {"weight", "status"} \subseteq DOMAIN s
              /\ Kinds[t] = "alert" =>
                   /\ s.weight \in DOMAIN Following!SeverityScore
                   /\ s.status \in DOMAIN Following!AlertBoost
              /\ Kinds[t] = "ticket" =>
                   /\ s.weight \in DOMAIN Following!TicketScore
                   /\ s.status \in DOMAIN Following!TicketBoost
    /\ \A p \in TaskPolicies : \A level \in DOMAIN Following!TicketScore :
         p.windows[level][1] \in Int

(* Tasks of every kind get old, and the policy of the tickets is edited.     *)
Ageing == INSTANCE FollowUps WITH
    Calls <- {}, Tasks <- AgeingTasks, Kind <- Kinds, Seen <- TaskSeen, Owners <- {"ann"},
    Policies <- TaskPolicies, Instants <- AgeingInstants, MaxWrites <- 0

Briefing == INSTANCE FollowUps WITH
    Calls <- {}, Tasks <- BriefingTasks, Kind <- Kinds, Seen <- TaskSeen,
    Owners <- {"ann"}, Policies <- TaskPolicies, Instants <- FollowInstants, MaxWrites <- 0

\* The sections are written in some fixed order.
SectionOrder ==
    CHOOSE order \in [1..Cardinality(ProfileSections) -> ProfileSections] :
        \A s \in ProfileSections : \E i \in DOMAIN order : order[i] = s

Applying == INSTANCE Profiles WITH Sections <- SectionOrder, Profiles <- ProfileNames

ASSUME SectionsAssumption ==
    /\ IsFiniteSet(ProfileSections) /\ ProfileSections # {}
    /\ Absent \notin ProfileNames \cup {"edited"}
    /\ Absent \notin [saved : ProfileNames \cup {"edited"}, own : {"edited", "set"},
                     kept : {"edited", "default"}]

(* Policies, and what is asked of them.                                      *)
Windows == INSTANCE MaintenanceWindows

\* Days and weeks are not empty, and the calendar begins with its first Monday.
ASSUME MomentAssumption ==
    /\ DayLength \in Nat \ {0} /\ WeekLength \in Nat \ {0}
    /\ Moments \subseteq Nat /\ Durations \subseteq Nat \ {0}

WindowInputs ==
    [windows : {ws \in WindowSets : ws \subseteq Windows!Windows /\ Windows!Acceptable(ws)},
     at : Moments, duration : Durations]

\* Policies of one window or two.
FewWindows == {{v, w} : v, w \in {x \in Windows!Windows : Windows!Acceptable({x})}}

(* Schemas and parameters, of which one may be in no schema.                 *)
Params == INSTANCE PlaybookParams WITH Keys <- ParamKeys, Sizes <- ParamSizes

Unknown == [other |-> [type |-> "boolean", v |-> 1, padded |-> FALSE]]
ParamInputs ==
    [schema : [ParamKeys -> Params!Field],
     params : (UNION {[keys -> Params!Value] : keys \in SUBSET ParamKeys}) \cup {Unknown}]
-----------------------------------------------------------------------------
NoShared == calls = <<>> /\ rows = <<>> /\ log = <<>>
NoNotifications == /\ channels = <<>> /\ subscriptions = <<>> /\ deliveries = <<>>
                   /\ received = <<>> /\ dispatch = <<>> /\ lost = <<>>
NoOwners == owners = <<>> /\ rules = <<>> /\ template = <<>> /\ followup = <<>>
NoTasks == source = <<>> /\ policy = <<>> /\ now = <<>>

AllInit ==
    /\ Init
    /\ \/ /\ \/ focus = "syncing" /\ input = <<>>
             \/ focus = "windows" /\ input \in WindowInputs
             \/ focus = "params" /\ input \in ParamInputs
          /\ NoShared /\ NoNotifications /\ NoOwners /\ NoTasks /\ runs = <<>>
       \/ /\ focus = "dispatching" /\ Notifying!Init
          /\ NoShared /\ NoOwners /\ NoTasks /\ runs = <<>> /\ input = <<>>
       \/ /\ focus = "routing" /\ Notifying!InitOwners
          /\ rows = <<>> /\ log = <<>> /\ NoTasks /\ runs = <<>> /\ input = <<>>
       \/ /\ \/ focus = "following" /\ Following!Init
             \/ focus = "ageing" /\ Ageing!Init
             \/ focus = "briefing" /\ Briefing!Init
          /\ NoNotifications /\ NoOwners /\ runs = <<>> /\ input = <<>>
       \/ /\ focus = "applying" /\ Applying!Init
          /\ NoNotifications /\ NoOwners /\ NoTasks /\ input = <<>>

\* The task that two requests act on is seen once, under one policy: tasks that
\* come and go, under a policy that is edited, are for `ageing` and `briefing`.
SeenOnce == /\ \A t \in FollowTasks : source[t] # Absent => source'[t] = source[t]
            /\ policy' = policy

\* Owners are routed and repaired without dispatches, so that the attempts of a
\* channel do not matter.
OnlyRouting == /\ deliveries' = deliveries /\ dispatch' = dispatch
               /\ \A x \in DOMAIN channels' : channels'[x].limit = DefaultLimit

AllNext ==
    /\ UNCHANGED <<focus, input>>
    /\ focus # "syncing" => UNCHANGED vars
    /\ \/ /\ focus = "syncing" /\ Next
          /\ UNCHANGED <<sharedVars, notifyVars, ownerVars, taskVars, runs>>
       \/ /\ focus = "dispatching" /\ Notifying!Next
          /\ UNCHANGED <<sharedVars, ownerVars, taskVars, runs>>
       \/ /\ focus = "routing" /\ Notifying!NextOwners /\ OnlyRouting
          /\ UNCHANGED <<rows, log, taskVars, runs>>
       \/ /\ \/ focus = "following" /\ Following!Next /\ SeenOnce
             \/ focus = "ageing" /\ Ageing!Next
             \/ focus = "briefing" /\ Briefing!Next
          /\ UNCHANGED <<notifyVars, ownerVars, runs>>
       \/ /\ focus = "applying" /\ Applying!Next
          /\ UNCHANGED <<notifyVars, ownerVars, taskVars>>

allVars == <<focus, input, vars, sharedVars, notifyVars, ownerVars, taskVars, runs>>

AllSpec == AllInit /\ [][AllNext]_allVars
-----------------------------------------------------------------------------
(* The properties of those components that the run checks.                   *)

\* Notifications: a delivery says what became of it.
DeliveriesTruthful == focus = "dispatching" => Notifying!DeliveriesTruthful

\* RiskOwners: an owner who is ready is told, and a repair ends in readiness.
OwnersAreTold ==
    /\ [](focus = "routing" => Notifying!ReadyIsTold)
    /\ [][focus = "routing" => Notifying!RepairEndsReady]_allVars

\* FollowUps: what operators did to a task is kept, whoever acts at the same time.
FollowUpsAreKept == focus = "following" => Following!FollowUpsAreKept

\* FollowUps: what is urgent is shown, and what is overdue stays so, but for
\* tickets whose policy changes or gives a higher priority more time.
UrgencyIsKept ==
    /\ [](focus = "following" => Following!UrgentIsShown)
    /\ [](focus = "ageing" => Ageing!UrgentIsShown)
    /\ [](focus = "briefing" => Briefing!UrgentIsShown)
    /\ [][/\ focus = "following" => Following!StillOverdue
          /\ focus = "ageing" => Ageing!StillOverdue
          /\ focus = "briefing" => Briefing!StillOverdue]_allVars

\* Profiles: reverting a profile brings back what its snapshot keeps.
RevertRestores == focus = "applying" => Applying!RevertRestores

\* MaintenanceWindows and PlaybookParams: hints, recommendations and checks of
\* slots agree, and a replay keeps the parameters of what it repeats.
PlaybookInputsAgree ==
    /\ focus = "windows" =>
         /\ Windows!HintIsUsable(input.windows, input.at)
         /\ Windows!RecommendedSlotsFit(input.windows, input.at, input.duration)
         /\ Windows!SameDaySlotsAreOpen(input.windows, input.at, input.duration)
    /\ focus = "params" => Params!ReplayKeepsParams(input.schema, input.params)
=============================================================================
