--------------------------- MODULE Notifications ---------------------------
(***************************************************************************)
(* Notification channels, subscriptions and the dispatch of an event: for  *)
(* each subscriber a delivery is stored as queued, sent, and its row       *)
(* brought up to date.  A webhook is posted until it answers well or its   *)
(* attempts are used up; e-mail is taken as delivered without being sent.  *)
(*                                                                         *)
(* The dispatch exists twice in the code, after a discovery event and      *)
(* after a risk ticket was linked; they differ in whom they select and in  *)
(* what they store when there is nobody to tell.                           *)
(***************************************************************************)
EXTENDS Integers, Sequences, FiniteSets, FiniteSetsExt

CONSTANTS
    Dispatchers,     \* handlers and scheduled runs that dispatch an event
    Events,          \* event types; RiskEvent is that of a linked risk ticket
    RiskEvent,
    Sites,           \* values of an event's site
    AnySite,         \* the NULL of a subscription for every site
    AttemptLimits,   \* values of a channel's max_attempts, within 1..5
    Endpoints,       \* targets of channels: [type, at], the type its form tells
    Names,           \* names of channels
    MaxChannels, MaxSubscriptions, MaxDeliveries, MaxFaults   \* bounds

VARIABLES
    channels,        \* discovery_notification_channels, by insertion
    subscriptions,   \* discovery_notification_subscriptions, by insertion
    deliveries,      \* the rows of deliveries, by insertion
    received,        \* received[i]: how often the endpoint got delivery i
    dispatch,        \* dispatch[d]: the local state of a dispatch
    faults           \* statements that failed and handlers that were cut off

vars == <<channels, subscriptions, deliveries, received, dispatch, faults>>

Resting == [pc |-> "resting"]
At(d, pc) == dispatch[d].pc = pc
Goto(d, state) == dispatch' = [dispatch EXCEPT ![d] = state]

Init ==
    /\ channels = <<>> /\ subscriptions = <<>> /\ deliveries = <<>> /\ received = <<>>
    /\ dispatch = [d \in Dispatchers |-> Resting]
    /\ faults = 0
-----------------------------------------------------------------------------
(* Configuration *)

CreateChannel ==
    /\ Len(channels) < MaxChannels
    /\ \E target \in Endpoints, name \in Names, enabled \in BOOLEAN, limit \in AttemptLimits :
         channels' = Append(channels, [name |-> name, type |-> target.type, target |-> target,
                                       enabled |-> enabled, limit |-> limit])
    /\ UNCHANGED <<subscriptions, deliveries, received, dispatch, faults>>

\* The table's unique index refuses the same subscription a second time.
CreateSubscription ==
    /\ Len(subscriptions) < MaxSubscriptions
    /\ \E c \in DOMAIN channels, e \in Events, site \in Sites \cup {AnySite}, enabled \in BOOLEAN :
         /\ \A s \in DOMAIN subscriptions :
              LET sub == subscriptions[s] IN ~(sub.channel = c /\ sub.event = e /\ sub.site = site)
         /\ subscriptions' = Append(subscriptions,
                [channel |-> c, event |-> e, site |-> site, enabled |-> enabled])
    /\ UNCHANGED <<channels, deliveries, received, dispatch, faults>>
-----------------------------------------------------------------------------
(* Dispatch *)

\* The subscribers; a risk ticket is told at every site.
Targets(event, site) ==
    {s \in DOMAIN subscriptions :
        LET sub == subscriptions[s]
        IN /\ sub.enabled /\ channels[sub.channel].enabled /\ sub.event = event
           /\ event # RiskEvent => sub.site \in {AnySite, site}}

\* They are told in the order of their ids.
First(d) == Min(dispatch[d].targets)

Row(subscription, status, type) ==
    [subscription |-> subscription, status |-> status, type |-> type, attempts |-> 0]

Insert(row) == /\ deliveries' = Append(deliveries, row)
               /\ received' = Append(received, 0)

\* The bound on deliveries leaves room for the dispatches that have begun.
Room(n) ==
    Len(deliveries) + n + Cardinality({dk \in Dispatchers \X (1..MaxSubscriptions) :
        ~At(dk[1], "resting") /\ dk[2] \in dispatch[dk[1]].targets}) <= MaxDeliveries

\* Nobody to tell leaves a row that says so, for a risk ticket only.
Begin(d) ==
    /\ At(d, "resting")
    /\ \E event \in Events, site \in Sites :
         LET targets == Targets(event, site)
         IN IF targets # {}
              THEN /\ Room(Cardinality(targets))
                   /\ Goto(d, [pc |-> "next", targets |-> targets])
                   /\ UNCHANGED <<deliveries, received>>
              ELSE /\ event = RiskEvent /\ Room(1) /\ Insert(Row(0, "skipped", "none"))
                   /\ UNCHANGED dispatch
    /\ UNCHANGED <<channels, subscriptions, faults>>

ChannelOf(d) == channels[subscriptions[First(d)].channel]

Queue(d) ==
    /\ At(d, "next") /\ dispatch[d].targets # {}
    /\ Insert(Row(First(d), "queued", ChannelOf(d).type))
    /\ Goto(d, [pc |-> "send", targets |-> dispatch[d].targets, row |-> Len(deliveries) + 1,
                attempts |-> 0, status |-> "queued"])
    /\ UNCHANGED <<channels, subscriptions, faults>>

Sent(d, status, attempts) ==
    Goto(d, [dispatch[d] EXCEPT !.pc = "finalize", !.attempts = attempts, !.status = status])

\* Whether the endpoint got the message and whether its answer was a success
\* are two things: an answer may be late, lost, or an error after the effect.
\* Seeded fault: an attempt without an answer is not counted.
RetryUncounted(d) ==
    /\ At(d, "send") /\ ChannelOf(d).type = "webhook"
    /\ \E got, well \in BOOLEAN :
         /\ well => got
         /\ received' = [received EXCEPT ![dispatch[d].row] = @ + IF got THEN 1 ELSE 0]
         /\ IF well THEN Sent(d, "delivered", dispatch[d].attempts + 1)
            ELSE UNCHANGED dispatch
    /\ UNCHANGED <<channels, subscriptions, deliveries, faults>>

PostWebhook(d) ==
    /\ At(d, "send") /\ ChannelOf(d).type = "webhook"
    /\ \E got, well \in BOOLEAN :
         LET attempts == dispatch[d].attempts + 1
         IN /\ well => got
            /\ received' = [received EXCEPT ![dispatch[d].row] = @ + IF got THEN 1 ELSE 0]
            /\ IF well THEN Sent(d, "delivered", attempts)
               ELSE IF attempts = ChannelOf(d).limit THEN Sent(d, "failed", attempts)
               ELSE Goto(d, [dispatch[d] EXCEPT !.attempts = attempts])
    /\ UNCHANGED <<channels, subscriptions, deliveries, faults>>

SendEmail(d) ==
    /\ At(d, "send") /\ ChannelOf(d).type = "email"
    /\ Sent(d, "delivered", 1)
    /\ UNCHANGED <<channels, subscriptions, deliveries, received, faults>>

Finalize(d) ==
    /\ At(d, "finalize")
    /\ deliveries' = [deliveries EXCEPT ![dispatch[d].row].status = dispatch[d].status,
                                        ![dispatch[d].row].attempts = dispatch[d].attempts]
    /\ Goto(d, [pc |-> "next", targets |-> dispatch[d].targets \ {First(d)}])
    /\ UNCHANGED <<channels, subscriptions, received, faults>>

Finish(d) ==
    /\ At(d, "next") /\ dispatch[d].targets = {}
    /\ Goto(d, Resting)
    /\ UNCHANGED <<channels, subscriptions, deliveries, received, faults>>

\* A statement fails, or the process stops: the subscribers that are left are
\* not told, and a row that was queued stays so.
Abort(d) ==
    /\ ~At(d, "resting") /\ faults < MaxFaults
    /\ faults' = faults + 1
    /\ Goto(d, Resting)
    /\ UNCHANGED <<channels, subscriptions, deliveries, received>>

\* What the list of alerts shows of the deliveries of risk tickets.
Listed == {i \in DOMAIN deliveries :
              \/ deliveries[i].subscription = 0
              \/ subscriptions[deliveries[i].subscription].event = RiskEvent}
Summary ==
    LET of(status) == Cardinality({i \in Listed : deliveries[i].status = status})
    IN [total |-> Cardinality(Listed), delivered |-> of("delivered"), failed |-> of("failed"),
        skipped |-> of("skipped"),
        latest |-> IF Listed = {} THEN "none" ELSE deliveries[Max(Listed)].status]

DispatchStep(d) == \/ Queue(d) \/ PostWebhook(d) \/ SendEmail(d) \/ Finalize(d) \/ Finish(d)

Next == \/ CreateChannel \/ CreateSubscription
        \/ \E d \in Dispatchers : Begin(d) \/ DispatchStep(d) \/ Abort(d)

Spec == Init /\ [][Next]_vars
-----------------------------------------------------------------------------
(* Properties *)

\* A delivery shown as delivered was got by the endpoint, one shown as failed
\* used up its attempts, none was posted more often than its attempts say; and
\* the counts of the summary miss only what is being sent or was cut off.
DeliveriesTruthful ==
    /\ \A i \in DOMAIN deliveries :
         LET row == deliveries[i]
         IN row.type = "webhook" =>
              /\ row.status = "delivered" => received[i] \in 1..row.attempts
              /\ row.status = "failed" =>
                   /\ received[i] <= row.attempts
                   /\ row.attempts = channels[subscriptions[row.subscription].channel].limit
    /\ Summary.total - Summary.delivered - Summary.failed - Summary.skipped
         <= faults + Cardinality({d \in Dispatchers : At(d, "send") \/ At(d, "finalize")})
    /\ faults = 0 /\ (\A d \in Dispatchers : At(d, "resting")) => Summary.latest # "queued"
=============================================================================
