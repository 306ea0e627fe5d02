----------------------------- MODULE RiskOwners -----------------------------
(***************************************************************************)
(* Who owns the risk tickets of a runbook template, and whether that owner *)
(* would be told: the directory of owners, the routing rules, the check of *)
(* readiness, its repair, and the bootstrap of the integrations behind it. *)
(***************************************************************************)
EXTENDS Notifications

CONSTANTS
    Calls,             \* requests that read first and write later
    OwnerKeys,         \* keys of the directory
    Templates, Modes, Severities,
    AnyMode, AnySeverity,   \* the NULLs of a rule
    Priorities,        \* of rules
    DefaultLimit,      \* attempts of a channel created without a configuration
    MaxRules           \* bound

VARIABLES
    owners,     \* ops_runbook_risk_owner_directory: a function of some OwnerKeys
    rules,      \* ops_runbook_risk_owner_routing_rules, by insertion
    template,   \* the newest enabled notification template, or the newest there is
    followup,   \* ticket_escalation_policies: [enabled, owner] of the default row
    calls       \* calls[c]: the handler's local state

ownerVars == <<owners, rules, template, followup, calls>>

NoTarget == [type |-> "none", at |-> "none"]
FactoryOwner == "ops-escalation"
Idle == [pc |-> "idle"]
Call(c, state) == calls' = [calls EXCEPT ![c] = state]

OwnerEntry == [enabled : BOOLEAN, target : Endpoints \cup {NoTarget}]
Rule == [template : Templates, mode : Modes \cup {AnyMode},
         severity : Severities \cup {AnySeverity}, owner : OwnerKeys,
         priority : Priorities, enabled : BOOLEAN]

InitOwners ==
    /\ Init
    /\ owners = <<>> /\ rules = <<>>
    /\ template \in {"none", "off", "on"}
    /\ followup = [enabled |-> TRUE, owner |-> FactoryOwner]
    /\ calls = [c \in Calls |-> Idle]
-----------------------------------------------------------------------------
(* The directory and the rules *)

\* Owners that are not listed go, and their rules with them.
ReplaceDirectory ==
    /\ \E keys \in SUBSET OwnerKeys : \E directory \in [keys -> OwnerEntry] :
         /\ owners' = directory
         /\ rules' = SelectSeq(rules, LAMBDA r : r.owner \in keys)
    /\ UNCHANGED <<template, followup, calls, vars>>

\* The owners are looked up before the transaction.
ReadDirectory(c) ==
    /\ calls[c] = Idle
    /\ Call(c, [pc |-> "rules", known |-> DOMAIN owners])
    /\ UNCHANGED <<owners, rules, template, followup, vars>>

\* A rule of an owner that is gone by then fails on the foreign key.
ReplaceRules(c) ==
    /\ calls[c].pc = "rules"
    /\ \E n \in 0..MaxRules : \E given \in [1..n -> {r \in Rule : r.owner \in calls[c].known}] :
         /\ \A i, j \in 1..n : i # j =>
              ~(/\ given[i].template = given[j].template /\ given[i].mode = given[j].mode
                /\ given[i].severity = given[j].severity /\ given[i].owner = given[j].owner)
         /\ rules' = IF \A i \in 1..n : given[i].owner \in DOMAIN owners THEN given ELSE rules
    /\ Call(c, Idle)
    /\ UNCHANGED <<owners, template, followup, vars>>
-----------------------------------------------------------------------------
(* Routing *)

Matching(t, mode, severity) ==
    {i \in DOMAIN rules :
        /\ rules[i].enabled /\ rules[i].template = t
        /\ rules[i].mode \in {AnyMode, mode} /\ rules[i].severity \in {AnySeverity, severity}}

\* The number of NULLs, then the priority, then the newer rule.
Rank(i) == <<(IF rules[i].mode = AnyMode THEN 1 ELSE 0)
               + (IF rules[i].severity = AnySeverity THEN 1 ELSE 0),
             rules[i].priority, -i>>

Before(x, y) == \E k \in 1..3 : x[k] < y[k] /\ \A j \in 1..k - 1 : x[j] = y[j]

Selected(t, mode, severity) ==
    {i \in Matching(t, mode, severity) :
        \A j \in Matching(t, mode, severity) \ {i} : Before(Rank(i), Rank(j))}

\* A disabled owner of the selected rule does not let a weaker rule through:
\* the route falls back to the escalation owner or the template's own role.
Route(t, mode, severity, priority) ==
    LET configured == {rules[i].owner : i \in {x \in Selected(t, mode, severity) :
                          rules[x].owner \in DOMAIN owners /\ owners[rules[x].owner].enabled}}
    IN IF configured # {} THEN [source |-> "configured_rule", owners |-> configured]
       ELSE IF priority = "critical"
       THEN [source |-> "escalation_policy", owners |-> {followup.owner}]
       ELSE [source |-> "template_rule", owners |-> {t}]
-----------------------------------------------------------------------------
(* Readiness *)

ChannelsTo(target) == {c \in DOMAIN channels : channels[c].enabled /\ channels[c].target = target}

\* Seeded fault: a subscription counts that is switched off.
SubscribedOrOff(target) ==
    {s \in DOMAIN subscriptions :
        subscriptions[s].event = RiskEvent /\ subscriptions[s].channel \in ChannelsTo(target)}

Subscribed(target) ==
    {s \in DOMAIN subscriptions :
        /\ subscriptions[s].enabled /\ subscriptions[s].event = RiskEvent
        /\ subscriptions[s].channel \in ChannelsTo(target)}

\* Of a rule's owner, the first that is missing.
Readiness(owner) ==
    IF template # "on" THEN "missing_notification_template"
    ELSE IF owner \notin DOMAIN owners THEN "missing_owner_directory"
    ELSE IF ~owners[owner].enabled THEN "owner_disabled"
    ELSE IF owners[owner].target = NoTarget THEN "missing_notification_target"
    ELSE IF ChannelsTo(owners[owner].target) = {} THEN "missing_notification_channel"
    ELSE IF Subscribed(owners[owner].target) = {} THEN "missing_notification_subscription"
    ELSE "ready"

\* The list has one entry for a template without an enabled rule, else one for
\* each rule.
RulesOf(t) == {i \in DOMAIN rules : rules[i].enabled /\ rules[i].template = t}
ReadinessItems(t) ==
    IF RulesOf(t) = {} THEN {[owner |-> "none", status |-> "missing_routing_rule"]}
    ELSE {[owner |-> rules[i].owner, status |-> Readiness(rules[i].owner)] : i \in RulesOf(t)}

Repairable == {"missing_notification_template", "missing_notification_channel",
               "missing_notification_subscription"}
-----------------------------------------------------------------------------
(* Repair and bootstrap.  Each is one transaction; `Ensured` is what it      *)
(* makes of the tables, keeping what is there and switching it on.           *)

\* The best of some channels: an enabled one first, the newest of those.
Best(found) ==
    LET on == {c \in found : channels[c].enabled} IN IF on # {} THEN Max(on) ELSE Max(found)

\* Seeded fault: a channel that is found is used as it is.
EnsuredAsFound(found, name, target) ==
    IF found # {} THEN channels
    ELSE Append(channels, [name |-> name, type |-> target.type, target |-> target,
                           enabled |-> TRUE, limit |-> DefaultLimit])

EnsuredChannels(found, name, target) ==
    IF found = {} THEN Append(channels, [name |-> name, type |-> target.type, target |-> target,
                                         enabled |-> TRUE, limit |-> DefaultLimit])
    ELSE IF channels[Best(found)].enabled THEN channels
    ELSE [channels EXCEPT ![Best(found)].enabled = TRUE, ![Best(found)].name = name]

\* The subscription of the channel for all sites; another one does not count.
EnsuredSubscriptions(channel) ==
    LET found == {s \in DOMAIN subscriptions :
                     /\ subscriptions[s].channel = channel /\ subscriptions[s].event = RiskEvent
                     /\ subscriptions[s].site = AnySite}
    IN IF found = {} THEN Append(subscriptions, [channel |-> channel, event |-> RiskEvent,
                                                 site |-> AnySite, enabled |-> TRUE])
       ELSE [subscriptions EXCEPT ![Min(found)].enabled = TRUE]

EnsureAll(found, name, target) ==
    LET channel == IF found = {} THEN Len(channels) + 1 ELSE Best(found)
    IN /\ template' = "on"
       /\ channels' = EnsuredChannels(found, name, target)
       /\ subscriptions' = EnsuredSubscriptions(channel)
       /\ UNCHANGED <<deliveries, received, dispatch, faults>>

\* The readiness is read first; only what the repair can do is let through.
ReadReadiness(c) ==
    /\ calls[c] = Idle
    /\ \E t \in Templates : \E item \in ReadinessItems(t) :
         /\ item.status \in Repairable
         /\ item.owner \in DOMAIN owners /\ owners[item.owner].target # NoTarget
         /\ Call(c, [pc |-> "find", owner |-> item.owner, target |-> owners[item.owner].target])
    /\ UNCHANGED <<owners, rules, template, followup, vars>>

\* Nothing keeps two transactions from looking for a channel before either
\* inserts it: there are two of them then.
FindChannel(c) ==
    /\ calls[c].pc = "find"
    /\ LET target == calls[c].target
       IN Call(c, [pc |-> "repair", owner |-> calls[c].owner, target |-> target,
                   found |-> {x \in DOMAIN channels : channels[x].target = target
                                                      /\ channels[x].type = target.type}])
    /\ UNCHANGED <<owners, rules, template, followup, vars>>

Repair(c) ==
    /\ calls[c].pc = "repair"
    /\ EnsureAll(calls[c].found, calls[c].owner, calls[c].target)
    /\ Call(c, Idle)
    /\ UNCHANGED <<owners, rules, followup>>

\* operator_notifications: the channel has to have the name, too.
BootstrapNotifications ==
    /\ Len(channels) < MaxChannels
    /\ \E target \in Endpoints, name \in Names :
         EnsureAll({x \in DOMAIN channels : channels[x].target = target /\ channels[x].name = name
                                            /\ channels[x].type = target.type}, name, target)
    /\ UNCHANGED <<owners, rules, followup, calls>>

\* ticket_followup_policy: the row is enabled and gets the owner.
BootstrapFollowup ==
    /\ followup' \in [enabled : {TRUE}, owner : OwnerKeys]
    /\ UNCHANGED <<owners, rules, template, calls, vars>>

\* The entries of the catalogue and what is recommended next.
NotificationsReady ==
    /\ template = "on"
    /\ \E c \in DOMAIN channels : channels[c].enabled
    /\ \E s \in DOMAIN subscriptions : subscriptions[s].enabled /\ subscriptions[s].event = RiskEvent
FollowupReady == followup.enabled /\ followup.owner # FactoryOwner
RecommendedNext == IF ~NotificationsReady THEN "operator_notifications"
                   ELSE IF ~FollowupReady THEN "ticket_followup_policy" ELSE "none"

NextOwners ==
    \/ ReplaceDirectory \/ BootstrapNotifications \/ BootstrapFollowup
    \/ \E c \in Calls : ReadDirectory(c) \/ ReplaceRules(c) \/ ReadReadiness(c) \/ FindChannel(c)
                        \/ Repair(c)
    \/ Next /\ UNCHANGED ownerVars

SpecOwners == InitOwners /\ [][NextOwners]_<<vars, ownerVars>>
-----------------------------------------------------------------------------
(* Properties *)

\* An owner who is shown as ready is told of a ticket: the dispatch selects a
\* subscription of a channel to that owner's target, at whatever site; and the
\* catalogue does not ask for what is there.
ReadyIsTold ==
    \A owner \in DOMAIN owners :
        Readiness(owner) = "ready" =>
            /\ NotificationsReady
            /\ \A site \in Sites : \E s \in Targets(RiskEvent, site) :
                 channels[subscriptions[s].channel].target = owners[owner].target

\* The repair of an owner who is unchanged and enabled ends in readiness, also
\* when other repairs and bootstraps come between its reading and its writing;
\* a second one finds nothing left to do.
RepairEndsReady ==
    \A c \in Calls, owner \in DOMAIN owners :
        /\ calls[c].pc = "repair" /\ calls'[c].pc = "idle" /\ calls[c].owner = owner
        /\ owners[owner] = [enabled |-> TRUE, target |-> calls[c].target]
        => Readiness(owner)' = "ready"
RepairMakesReady == [][RepairEndsReady]_<<vars, ownerVars>>
=============================================================================
