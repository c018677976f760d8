-------------------------- MODULE BrokerSyncProofs --------------------------
(***************************************************************************)
(* Proofs about BrokerSync: for all nodes and subscriptions, any number of *)
(* pods and of changes, and any number of failing calls, the worker loses  *)
(* neither a wake-up nor a change of the subscriptions, and what it says   *)
(* it has applied, it has.                                                 *)
(***************************************************************************)
EXTENDS BrokerSync, TLAPS

Flags ==
  /\ event \in BOOLEAN /\ locationEvent \in BOOLEAN
  /\ subscriptionEvent \in BOOLEAN /\ watcherEvent \in BOOLEAN
  /\ added \in BOOLEAN /\ updated \in BOOLEAN

\* A queued location has its event set, unless the producer is about to set it or the
\* worker is emptying the queue.
KeysAnnounced == keys # {} => locationEvent \/ producer = "stored" \/ pc = "consume"

\* Whatever event is set, the loop will be awake when it next comes to test it.
LocationAwake == locationEvent => event \/ producer = "flagged" \/ pc = "location"

SubscriptionAwake ==
  subscriptionEvent =>
    event \/ api = "flagged" \/ pc \in {"location", "consume", "subscription"}

WatcherAwake ==
  watcherEvent =>
    event \/ pc \in {"location", "consume", "subscription", "refresh", "watcher"}

Awake == Flags /\ KeysAnnounced /\ LocationAwake /\ SubscriptionAwake /\ WatcherAwake

\* Awake holds at the start, and no step of any of the three parties breaks it.
LEMMA AwakeIsInductive == Spec => []Awake
<1> USE DEF Awake, Flags, KeysAnnounced, LocationAwake, SubscriptionAwake, WatcherAwake
<1>1. Init => Awake
  BY DEF Init
<1>2. Awake /\ [Next]_vars => Awake'
  <2> SUFFICES ASSUME Awake, [Next]_vars PROVE Awake'
    OBVIOUS
  <2> USE DEF clients, locations, connections, Goto
  <2>1. ASSUME NEW new, Commit(new) PROVE Awake'
    BY <2>1 DEF Commit
  <2>2. CASE Api
    <3>1. CASE SetSubscriptionEvent
      <4>1. subscriptionEvent' /\ subscriptionEvent' \in BOOLEAN
        BY <3>1, Zenon DEF SetSubscriptionEvent
      <4> QED  BY <3>1, <4>1 DEF SetSubscriptionEvent
    <3>2. CASE SetEvent
      <4>1. event' /\ event' \in BOOLEAN
        BY <3>2, Zenon DEF SetEvent
      <4> QED  BY <3>2, <4>1 DEF SetEvent
    <3> QED  BY <2>2, <3>1, <3>2 DEF Api
  <2>3. ASSUME NEW n \in Nodes, StartPod(n) PROVE Awake'
    BY <2>3 DEF StartPod
  <2>4. ASSUME NEW n \in Nodes, NEW k, Store(n, k) PROVE Awake'
    BY <2>4 DEF Store
  <2>5. CASE SetLocationEvent \/ SignalEvents
    <3>1. CASE SetLocationEvent
      <4>1. locationEvent' /\ locationEvent' \in BOOLEAN
        BY <3>1, Zenon DEF SetLocationEvent
      <4> QED  BY <3>1, <4>1 DEF SetLocationEvent
    <3>2. CASE SignalEvents
      <4>1. event' /\ event' \in BOOLEAN
        BY <3>2, Zenon DEF SignalEvents
      <4> QED  BY <3>2, <4>1 DEF SignalEvents
    <3> QED  BY <2>5, <3>1, <3>2
  <2>6. CASE Worker
    <3>1. CASE Wake
      BY <3>1 DEF Wake
    <3>2. CASE TakeLocation
      BY <3>2 DEF TakeLocation
    <3>3. CASE Consumed
      BY <3>3 DEF Consumed
    <3>4. CASE TakeSubscriptions
      BY <3>4 DEF TakeSubscriptions
    <3>5. CASE Refresh
      BY <3>5 DEF Refresh
    <3>6. CASE TakeWatcher
      BY <3>6 DEF TakeWatcher
    <3>7. ASSUME NEW n \in Nodes, Consume(n) PROVE Awake'
      BY <3>7 DEF Consume
    <3>8. ASSUME NEW running, NEW lost, NEW stuck, SyncUp(running, lost, stuck) PROVE Awake'
      BY <3>8 DEF SyncUp
    <3> QED  BY <2>6, <3>1, <3>2, <3>3, <3>4, <3>5, <3>6, <3>7, <3>8 DEF Worker
  <2>7. CASE UNCHANGED vars
    BY <2>7 DEF vars
  <2> QED
    BY <2>1, <2>2, <2>3, <2>4, <2>5, <2>6, <2>7
    DEF Next, Producer, AddSubscription, RemoveSubscription
<1> QED  BY <1>1, <1>2, PTL DEF Spec

\* The worker does not sleep over work that was flagged, in whatever order the events
\* are set and cleared (notification_worker.py:129-156).
THEOREM NoWakeUpIsLostHolds == Spec => []NoWakeUpIsLost
<1>1. Awake => NoWakeUpIsLost
  BY DEF Awake, Flags, KeysAnnounced, LocationAwake, SubscriptionAwake, WatcherAwake,
         NoWakeUpIsLost
<1> QED  BY <1>1, AwakeIsInductive, PTL
-----------------------------------------------------------------------------
Resources == {s.resource : s \in Subscriptions}

Broker == [ip: Nat, ipChanged: BOOLEAN, subscribed: SUBSET Resources,
           current: SUBSET Resources, subscribedChanged: BOOLEAN]

Typed ==
  /\ subs \in SUBSET Subscriptions
  /\ pod \in [Nodes -> Nat] /\ channel \in [Nodes -> Nat] /\ nodeinfo \in [Nodes -> Nat]
  /\ broker \in [Nodes -> Broker]
  /\ added \in BOOLEAN

\* Only brokers in broker_state_map have resources.
OthersAreEmpty == \A n \in Nodes \ managed : broker[n].current = {}

IsCurrent == \A n \in Nodes : broker[n].current = Wanted(n)

\* NoSubscriptionIsLost; while locations are consumed, a node that was added is what
\* will set the event.
Noticed ==
  \/ subscriptionEvent \/ api = "committed" \/ pc = "refresh"
  \/ pc = "consume" /\ added
  \/ IsCurrent

IInv == Typed /\ OthersAreEmpty /\ Noticed

\* Nothing is wanted but what some subscription names.
LEMMA WantedIsResources ==
  ASSUME subs \in SUBSET Subscriptions, NEW n \in Nodes
  PROVE  Wanted(n) \in SUBSET Resources
BY DEF Wanted, Resources

\* A broker state that was just created, or removed, wants nothing.
LEMMA NewBrokerIsBroker == NewBroker \in Broker /\ NewBroker.current = {}
BY DEF NewBroker, Broker

\* Relocation changes addresses only.
LEMMA RelocatedFacts ==
  ASSUME NEW b \in [Nodes -> Broker], nodeinfo \in [Nodes -> Nat]
  PROVE  /\ Relocated(b) \in [Nodes -> Broker]
         /\ \A n \in Nodes : Relocated(b)[n].current = b[n].current
BY DEF Relocated, Broker

\* Looking at the subscriptions again makes a broker state current.
LEMMA ResubscribedFacts ==
  ASSUME Typed, NEW n \in Nodes
  PROVE  Resubscribed(n) \in Broker /\ Resubscribed(n).current = Wanted(n)
<1>1. broker[n] \in Broker /\ Wanted(n) \in SUBSET Resources
  BY WantedIsResources DEF Typed
<1> QED  BY <1>1 DEF Resubscribed, Broker

\* A sync-up leaves the confirmed resources of the remaining brokers alone.
LEMMA AfterSyncupFacts ==
  ASSUME Typed, NEW n \in Nodes, NEW asked, NEW failed
  PROVE  /\ AfterSyncup(n, asked, failed) \in Broker
         /\ AfterSyncup(n, asked, failed).current = broker[n].current
<1>1. broker[n] \in Broker /\ pod[n] \in Nat
  BY DEF Typed
<1> QED  BY <1>1 DEF AfterSyncup, Acknowledged, Broker

\* IInv is inductive: adding nodes and committing subscriptions announce themselves.
LEMMA IInvIsInductive == Spec => []IInv
<1>1. Init => IInv
  <2>1. ASSUME Init PROVE Typed /\ OthersAreEmpty
    BY <2>1, NewBrokerIsBroker DEF Init, Typed, OthersAreEmpty
  <2>2. ASSUME Init PROVE IsCurrent
    BY <2>2 DEF Init, IsCurrent, Wanted, NewBroker
  <2> QED  BY <2>1, <2>2 DEF IInv, Noticed
<1>2. IInv /\ [Next]_vars => IInv'
  <2> SUFFICES ASSUME IInv, [Next]_vars PROVE IInv'
    OBVIOUS
  <2> USE DEF IInv, clients, locations, connections, Goto
  <2>1. ASSUME NEW new \in SUBSET Subscriptions, Commit(new) PROVE IInv'
    BY <2>1 DEF Commit, Typed, OthersAreEmpty, Noticed
  <2>2. ASSUME UNCHANGED <<subs, pod, channel, nodeinfo, broker, managed, added, pc, api,
                           subscriptionEvent>>
        PROVE  IInv'
    BY <2>2 DEF Typed, OthersAreEmpty, Noticed, IsCurrent, Wanted
  <2>3. CASE Api
    <3>1. UNCHANGED <<subs, pod, channel, nodeinfo, broker, managed, added, pc>>
      BY <2>3 DEF Api, SetSubscriptionEvent, SetEvent
    <3>2. Noticed'
      <4>1. CASE SetSubscriptionEvent
        BY <4>1, Zenon DEF SetSubscriptionEvent, Noticed
      <4>2. CASE SetEvent
        BY <4>2, <3>1 DEF SetEvent, Noticed, IsCurrent, Wanted
      <4> QED  BY <2>3, <4>1, <4>2 DEF Api
    <3> QED  BY <3>1, <3>2 DEF Typed, OthersAreEmpty
  <2>4. ASSUME NEW n \in Nodes, StartPod(n) PROVE IInv'
    BY <2>4 DEF StartPod, Typed, OthersAreEmpty, Noticed, IsCurrent, Wanted
  <2>5. ASSUME NEW n \in Nodes, NEW k \in Nat, Store(n, k) PROVE IInv'
    BY <2>5 DEF Store, Typed, OthersAreEmpty, Noticed, IsCurrent, Wanted
  <2>6. CASE SetLocationEvent \/ SignalEvents
    BY <2>2, <2>6 DEF SetLocationEvent, SignalEvents
  <2>7. CASE Worker
    <3>1. CASE Wake
      BY <3>1 DEF Wake, Typed, OthersAreEmpty, Noticed, IsCurrent, Wanted
    <3>2. CASE TakeLocation
      BY <3>2 DEF TakeLocation, Typed, OthersAreEmpty, Noticed, IsCurrent, Wanted
    <3>3. CASE Consumed
      <4>1. broker' \in [Nodes -> Broker] /\ \A n \in Nodes : broker'[n].current = broker[n].current
        BY <3>3, RelocatedFacts DEF Consumed, Typed
      <4>2. UNCHANGED <<subs, pod, channel, nodeinfo, managed, api>> /\ added' = FALSE
        BY <3>3 DEF Consumed
      <4>3. Noticed'
        <5>1. subscriptionEvent \/ added => subscriptionEvent'
          BY <3>3, Zenon DEF Consumed
        <5>2. IsCurrent => IsCurrent'
          BY <4>1, <4>2 DEF IsCurrent, Wanted
        <5>3. subscriptionEvent \/ added \/ api = "committed" \/ IsCurrent
          BY <3>3, Zenon DEF Consumed, Noticed
        <5> QED  BY <4>2, <5>1, <5>2, <5>3, Zenon DEF Noticed
      <4> QED  BY <4>1, <4>2, <4>3 DEF Typed, OthersAreEmpty
    <3>4. CASE TakeSubscriptions
      BY <3>4 DEF TakeSubscriptions, Typed, OthersAreEmpty, Noticed, IsCurrent, Wanted
    <3>5. CASE Refresh
      <4> DEFINE new == [n \in Nodes |-> IF n \in managed' THEN Resubscribed(n) ELSE broker[n]]
      <4>1. new \in [Nodes -> Broker]
        BY ResubscribedFacts DEF Typed
      <4>2. broker' = new \/ broker' = Relocated(new)
        BY <3>5, Zenon DEF Refresh
      <4>3. /\ broker' \in [Nodes -> Broker]
            /\ \A n \in Nodes : broker'[n].current = new[n].current
        BY <4>1, <4>2, RelocatedFacts DEF Typed
      <4>4. /\ UNCHANGED <<subs, pod, channel, nodeinfo, added>>
            /\ managed' = managed \cup {n \in Nodes : Wanted(n) # {}}
        BY <3>5 DEF Refresh
      <4>5. \A n \in Nodes : new[n].current = Wanted(n)
        BY <4>4, ResubscribedFacts DEF OthersAreEmpty
      <4> HIDE DEF new
      <4>6. IsCurrent'
        BY <4>3, <4>4, <4>5 DEF IsCurrent, Wanted
      <4>7. OthersAreEmpty'
        BY <4>3, <4>4, <4>5 DEF OthersAreEmpty
      <4> QED  BY <4>3, <4>4, <4>6, <4>7 DEF Typed, Noticed
    <3>6. CASE TakeWatcher
      BY <3>6 DEF TakeWatcher, Typed, OthersAreEmpty, Noticed, IsCurrent, Wanted
    <3>7. ASSUME NEW n \in Nodes, Consume(n) PROVE IInv'
      <4>1. Typed' /\ OthersAreEmpty'
        BY <3>7 DEF Consume, Typed, OthersAreEmpty
      <4>2. added' \/ \A m \in Nodes : nodeinfo'[m] # 0 <=> nodeinfo[m] # 0
        <5>1. CASE nodeinfo[n] = 0
          BY <3>7, <5>1, Zenon DEF Consume
        <5>2. CASE nodeinfo[n] # 0
          BY <3>7, <5>2 DEF Consume, Typed
        <5> QED  BY <5>1, <5>2
      <4>3. Noticed'
        BY <3>7, <4>2 DEF Consume, Noticed, IsCurrent, Wanted
      <4> QED  BY <4>1, <4>3
    <3>8. ASSUME NEW running, NEW lost, NEW stuck, SyncUp(running, lost, stuck) PROVE IInv'
      <4> DEFINE asked == Asked(running, stuck)
                 failed == lost \cup stuck
      <4>1. /\ UNCHANGED <<subs, pod, channel, nodeinfo, added, subscriptionEvent, api>>
            /\ managed' = Remaining /\ pc = "syncup" /\ pc' = "wait"
            /\ broker' = [n \in Nodes |-> IF n \in Remaining THEN AfterSyncup(n, asked, failed)
                                                             ELSE NewBroker]
        BY <3>8 DEF SyncUp
      <4>2. /\ broker' \in [Nodes -> Broker]
            /\ \A n \in Nodes : broker'[n].current = broker[n].current
        BY <4>1, AfterSyncupFacts, NewBrokerIsBroker
        DEF Remaining, Disabled, OthersAreEmpty
      <4>3. OthersAreEmpty'
        BY <4>1, NewBrokerIsBroker DEF OthersAreEmpty
      <4>4. Noticed'
        BY <4>1, <4>2 DEF Noticed, IsCurrent, Wanted
      <4> QED  BY <4>1, <4>2, <4>3, <4>4 DEF Typed
    <3> QED  BY <2>7, <3>1, <3>2, <3>3, <3>4, <3>5, <3>6, <3>7, <3>8 DEF Worker
  <2>8. CASE UNCHANGED vars
    BY <2>2, <2>8 DEF vars
  <2>9. ASSUME NEW s \in Subscriptions, AddSubscription(s) \/ RemoveSubscription(s)
        PROVE  IInv'
    BY <2>1, <2>9 DEF AddSubscription, RemoveSubscription, Typed
  <2>10. ASSUME NEW n \in Nodes PROVE pod[n] \in Nat /\ 1 .. pod[n] \subseteq Nat
    BY DEF Typed
  <2> QED
    BY <2>3, <2>4, <2>5, <2>6, <2>7, <2>8, <2>9, <2>10 DEF Next, Producer
<1> QED  BY <1>1, <1>2, PTL DEF Spec

\* The broker states reflect the subscriptions and nodes in the database, or the event
\* that makes them is set or about to be (notification_worker.py:195-225).
THEOREM NoSubscriptionIsLostHolds == Spec => []NoSubscriptionIsLost
<1>1. IInv => NoSubscriptionIsLost
  BY DEF IInv, Noticed, IsCurrent, NoSubscriptionIsLost
<1> QED  BY <1>1, IInvIsInductive, PTL
-----------------------------------------------------------------------------
OthersAreNew == \A n \in Nodes \ managed : broker[n] = NewBroker

\* What the flags of a broker that is watched stand for: a flag that is not set says that
\* the client has what the flag is about.
FlagsTell ==
  \A n \in managed :
    /\ broker[n].current \subseteq broker[n].subscribed
    /\ n \in watched /\ ~broker[n].ipChanged =>
         /\ watcher[n].ip = broker[n].ip
         /\ ~broker[n].subscribedChanged => broker[n].subscribed \subseteq watcher[n].listening

Applied(n) ==
  /\ n \in watched
  /\ broker[n].subscribed = broker[n].current
  /\ ~broker[n].ipChanged /\ ~broker[n].subscribedChanged

\* Outside a sync-up, whatever is not applied is flagged.
Pending == watcherEvent \/ pc = "syncup" \/ \A n \in managed : Applied(n)

Clients == watcher \in [Nodes -> [ip: Nat, listening: SUBSET Resources]]

AInv == managed \subseteq Nodes /\ Clients /\ OthersAreNew /\ FlagsTell /\ Pending

\* A relocated broker has its flag set, and only a broker with a new address is one.
LEMMA RelocatedFlags ==
  ASSUME NEW b \in [Nodes -> Broker], nodeinfo \in [Nodes -> Nat], NEW n \in Nodes
  PROVE  /\ ~Relocated(b)[n].ipChanged => Relocated(b)[n] = b[n]
         /\ Relocated(b)[n].subscribed = b[n].subscribed
         /\ Relocated(b)[n].subscribedChanged = b[n].subscribedChanged
         /\ n \notin managed' => Relocated(b)[n] = b[n]
         /\ n \in managed' /\ nodeinfo[n] # 0 /\ b[n].ip # nodeinfo[n]
              => Relocated(b)[n].ipChanged
BY DEF Relocated, Broker

\* A new broker has no address and nothing to acknowledge.
LEMMA NewBrokerFlags ==
  NewBroker.ip = 0 /\ NewBroker.subscribed = {} /\ NewBroker.ipChanged = FALSE
BY DEF NewBroker

\* Wanting a resource that is not subscribed sets the flag; nothing clears it here.
LEMMA ResubscribedFlags ==
  ASSUME Typed, NEW n \in Nodes
  PROVE  /\ Resubscribed(n).ip = broker[n].ip
         /\ Resubscribed(n).ipChanged = broker[n].ipChanged
         /\ Resubscribed(n).subscribed = broker[n].subscribed \cup Wanted(n)
         /\ Resubscribed(n).current = Wanted(n)
         /\ ~Resubscribed(n).subscribedChanged =>
              ~broker[n].subscribedChanged /\ Wanted(n) \subseteq broker[n].subscribed
         /\ Wanted(n) \subseteq broker[n].subscribed =>
              Resubscribed(n).subscribedChanged = broker[n].subscribedChanged
<1>1. broker[n] \in Broker /\ Wanted(n) \in SUBSET Resources
  BY WantedIsResources DEF Typed
<1> QED  BY <1>1 DEF Resubscribed, Broker

\* What a sync-up leaves of a remaining broker, failed or not.
LEMMA SyncedFlags ==
  ASSUME Typed, NEW n \in Nodes, NEW asked, NEW failed
  PROVE  LET b == AfterSyncup(n, asked, failed) IN
         /\ b.subscribed = broker[n].subscribed \cap broker[n].current
         /\ n \in failed => /\ b.ip = broker[n].ip /\ b.ipChanged = broker[n].ipChanged
                            /\ b.subscribedChanged = broker[n].subscribedChanged
         /\ n \notin failed => /\ b.ip = Address(n, n \in asked)
                               /\ ~b.ipChanged /\ ~b.subscribedChanged
<1>1. broker[n] \in Broker /\ pod[n] \in Nat
  BY DEF Typed
<1> QED  BY <1>1 DEF AfterSyncup, Acknowledged, Address, Broker

\* A client after a sync-up that did not fail for its broker.
LEMMA SyncedClient ==
  ASSUME Typed, Clients, FlagsTell, NEW n \in managed, managed \subseteq Nodes,
         NEW asked, n \in asked => Starts(n) \/ Restarts(n)
  PROVE  LET w == ClientAfter(n, asked) IN
         /\ w \in [ip: Nat, listening: SUBSET Resources]
         /\ w.ip = Address(n, n \in asked)
         /\ broker[n].current \subseteq w.listening
<1>1. /\ broker[n] \in Broker /\ pod[n] \in Nat
      /\ watcher[n] \in [ip: Nat, listening: SUBSET Resources]
  BY DEF Typed, Clients
<1>2. CASE Starts(n) \/ Restarts(n)
  BY <1>1, <1>2 DEF ClientAfter, Address, Broker
<1>3. CASE ~(Starts(n) \/ Restarts(n))
  <2>1. n \in watched /\ ~broker[n].ipChanged /\ n \notin asked
    BY <1>3 DEF Starts, Restarts
  <2>2. /\ watcher[n].ip = broker[n].ip
        /\ ~broker[n].subscribedChanged => broker[n].current \subseteq watcher[n].listening
    BY <2>1 DEF FlagsTell
  <2>3. CASE Updates(n)
    BY <1>1, <1>3, <2>1, <2>2, <2>3 DEF ClientAfter, Address, Broker
  <2>4. CASE ~Updates(n)
    BY <1>1, <1>3, <2>1, <2>2, <2>4 DEF ClientAfter, Address, Broker, Updates
  <2> QED  BY <2>3, <2>4
<1> QED  BY <1>2, <1>3

\* AInv is inductive, given the types and what IInv says of the broker states.
LEMMA AInvIsInductive == Spec => []AInv
<1>1. Init => AInv
  BY DEF Init, AInv, Clients, OthersAreNew, FlagsTell, Pending, NoClient
<1>2. Awake /\ IInv /\ AInv /\ [Next]_vars => AInv'
  <2> SUFFICES ASSUME Flags, Typed, AInv, [Next]_vars PROVE AInv'
    BY DEF Awake, IInv
  <2> USE DEF AInv, clients, locations, connections, Goto
  <2>1. ASSUME UNCHANGED <<broker, managed, watched, watcher, watcherEvent, pc>> PROVE AInv'
    BY <2>1 DEF Clients, OthersAreNew, FlagsTell, Pending, Applied
  <2>2. ASSUME UNCHANGED <<broker, managed, watched, watcher, watcherEvent>>,
               pc # "syncup"
        PROVE  AInv'
    BY <2>2 DEF Clients, OthersAreNew, FlagsTell, Pending, Applied
  <2>3. CASE Worker
    <3>1. CASE Wake \/ TakeLocation \/ TakeSubscriptions \/ \E n \in Nodes : Consume(n)
      BY <2>2, <3>1 DEF Wake, TakeLocation, TakeSubscriptions, Consume
    <3>2. CASE TakeWatcher
      BY <3>2 DEF TakeWatcher, Clients, OthersAreNew, FlagsTell, Pending, Applied
    <3>3. CASE Consumed
      <4>1. UNCHANGED <<managed, watched, watcher>> /\ pc # "syncup"
        BY <3>3 DEF Consumed
      <4>2. broker' = broker \/ broker' = Relocated(broker)
        BY <3>3, Zenon DEF Consumed
      <4>3. OthersAreNew' /\ FlagsTell'
        BY <4>1, <4>2, RelocatedFlags, RelocatedFacts
        DEF Typed, OthersAreNew, FlagsTell
      <4>4. ASSUME ~watcherEvent', NEW n \in managed PROVE broker'[n] = broker[n]
        <5>1. ~((added \/ updated) /\ \E m \in managed : broker'[m].ipChanged)
          BY <3>3, <4>1, <4>4, Zenon DEF Consumed
        <5>2. CASE ~(added \/ updated)
          BY <3>3, <5>2, Zenon DEF Consumed
        <5>3. CASE added \/ updated
          <6>1. broker' = Relocated(broker)
            BY <3>3, <5>3, Zenon DEF Consumed
          <6> QED  BY <5>1, <5>3, <6>1, RelocatedFlags DEF Typed
        <5> QED  BY <5>2, <5>3
      <4>5. watcherEvent => watcherEvent'
        BY <3>3, Zenon DEF Consumed
      <4>6. Pending'
        BY <4>1, <4>4, <4>5 DEF Pending, Applied
      <4> QED  BY <4>1, <4>3, <4>6 DEF Clients
    <3>4. CASE Refresh
      <4> DEFINE new == [n \in Nodes |-> IF n \in managed' THEN Resubscribed(n) ELSE broker[n]]
                 changed == \E n \in managed' : \/ n \notin managed
                                                \/ ~(Wanted(n) \subseteq broker[n].subscribed)
                                                \/ new[n].subscribed # new[n].current
      <4>1. /\ UNCHANGED <<nodeinfo, watched, watcher>> /\ pc = "refresh"
            /\ managed' = managed \cup {n \in Nodes : Wanted(n) # {}}
        BY <3>4 DEF Refresh
      <4>2. /\ broker' = IF changed THEN Relocated(new) ELSE new
            /\ watcherEvent' = (watcherEvent \/ changed)
        BY <3>4, Zenon DEF Refresh
      <4>3. new \in [Nodes -> Broker]
        BY ResubscribedFacts DEF Typed
      <4>4. \A n \in managed' : new[n] = Resubscribed(n)
        BY <4>1
      <4>5. \A n \in Nodes \ managed' : new[n] = NewBroker
        BY <4>1 DEF OthersAreNew
      <4>6. \A n \in managed' \ managed : nodeinfo[n] # 0 /\ broker[n] = NewBroker
        BY <4>1 DEF Wanted, OthersAreNew
      <4>7. changed \/ \A n \in managed' : /\ n \in managed
                                             /\ Wanted(n) \subseteq broker[n].subscribed
                                             /\ new[n].subscribed = new[n].current
        BY Zenon
      <4> HIDE DEF new, changed
      <4>8. changed \/ broker' = new
        BY <4>2, Zenon
      <4>9. changed => watcherEvent' /\ broker' = Relocated(new)
        BY <4>2, Zenon
      <4>10. watcherEvent => watcherEvent'
        BY <4>2, Zenon
      <4>11. OthersAreNew'
        BY <4>1, <4>3, <4>5, <4>8, <4>9, RelocatedFlags DEF Typed, OthersAreNew
      <4>12. FlagsTell'
        <5> SUFFICES ASSUME NEW n \in managed'
                     PROVE  /\ broker'[n].current \subseteq broker'[n].subscribed
                            /\ n \in watched /\ ~broker'[n].ipChanged =>
                                 /\ watcher[n].ip = broker'[n].ip
                                 /\ ~broker'[n].subscribedChanged =>
                                      broker'[n].subscribed \subseteq watcher[n].listening
          BY <4>1 DEF FlagsTell
        <5>1. n \in Nodes /\ new[n] = Resubscribed(n)
          BY <4>1, <4>4
        <5>2. /\ broker'[n].current = Wanted(n)
              /\ broker'[n].subscribed = broker[n].subscribed \cup Wanted(n)
          BY <4>3, <4>8, <4>9, <5>1, RelocatedFacts, RelocatedFlags, ResubscribedFlags DEF Typed
        <5>3. ~broker'[n].ipChanged => broker'[n] = Resubscribed(n)
          BY <4>3, <4>8, <4>9, <5>1, RelocatedFlags DEF Typed
        <5>4. CASE n \in managed
          BY <5>1, <5>2, <5>3, <5>4, ResubscribedFlags DEF FlagsTell
        <5>5. CASE n \notin managed
          <6>1. changed
            BY <4>7, <5>5
          <6>2. new[n].ip = 0 /\ nodeinfo[n] # 0
            BY <4>6, <5>1, <5>5, ResubscribedFlags, NewBrokerFlags
          <6>3. broker'[n].ipChanged
            BY <4>3, <4>9, <5>1, <6>1, <6>2, RelocatedFlags DEF Typed
          <6> QED  BY <5>2, <6>3
        <5> QED  BY <5>4, <5>5
      <4>13. Pending'
        <5>1. CASE watcherEvent \/ changed
          BY <4>9, <4>10, <5>1 DEF Pending
        <5>2. CASE ~watcherEvent /\ ~changed
          BY <4>1, <4>4, <4>8, <4>7, <5>2, ResubscribedFlags DEF Pending, Applied
        <5> QED  BY <5>1, <5>2
      <4> QED  BY <4>1, <4>11, <4>12, <4>13 DEF Clients
    <3>5. ASSUME NEW running, NEW lost, NEW stuck, SyncUp(running, lost, stuck) PROVE AInv'
      <4> DEFINE asked == Asked(running, stuck)
                 failed == lost \cup stuck
      <4>1. /\ asked \subseteq {n \in Remaining : Starts(n) \/ Restarts(n)}
            /\ lost \subseteq asked /\ stuck \subseteq Cleaned
            /\ managed' = Remaining /\ pc' = "wait"
            /\ watched' = (watched \cup Remaining) \ (lost \cup (Disabled \ stuck))
        BY <3>5 DEF SyncUp, Asked
      <4>2. /\ broker' = [n \in Nodes |-> IF n \in Remaining THEN AfterSyncup(n, asked, failed)
                                                             ELSE NewBroker]
            /\ watcherEvent' = (failed # {})
        BY <3>5, Zenon DEF SyncUp
      <4>3. watcher' = [n \in Nodes |->
              IF n \in stuck THEN [watcher[n] EXCEPT !.listening = {}]
              ELSE IF n \in Remaining \ lost THEN ClientAfter(n, asked)
              ELSE IF n \in lost \cup Disabled THEN NoClient
              ELSE watcher[n]]
        BY <3>5, Zenon DEF SyncUp
      <4>4. Remaining \subseteq managed /\ Disabled \cap Remaining = {}
        BY DEF Remaining, Disabled
      <4>5. \A n \in Remaining : n \in failed => n \notin watched' \/ broker[n].ipChanged
        BY <4>1, <4>4 DEF Cleaned, Restarts
      <4> HIDE DEF asked
      <4>6. Clients'
        BY <4>1, <4>3, <4>4, SyncedClient DEF Clients, NoClient
      <4>7. OthersAreNew'
        BY <4>1, <4>2 DEF OthersAreNew
      <4>8. FlagsTell'
        BY <4>1, <4>2, <4>3, <4>4, <4>5, SyncedFlags, AfterSyncupFacts, SyncedClient
        DEF FlagsTell
      <4>9. Pending'
        <5>1. CASE failed # {}
          BY <4>2, <5>1 DEF Pending
        <5>2. CASE failed = {}
          <6> SUFFICES ASSUME NEW n \in Remaining PROVE Applied(n)'
            BY <4>1 DEF Pending
          <6>1. n \in Nodes /\ n \in managed /\ n \notin Disabled /\ n \notin failed
            BY <4>4, <5>2
          <6>2. broker'[n] = AfterSyncup(n, asked, failed)
            BY <4>2, <6>1
          <6>3. n \in watched'
            BY <4>1, <6>1
          <6>4. broker[n].current \subseteq broker[n].subscribed
            BY <6>1 DEF FlagsTell
          <6>5. /\ broker'[n].subscribed = broker[n].subscribed \cap broker[n].current
                /\ broker'[n].current = broker[n].current
            BY <6>1, <6>2, SyncedFlags, AfterSyncupFacts
          <6>6. broker'[n].subscribed = broker'[n].current
            BY <6>4, <6>5
          <6>7. ~broker'[n].ipChanged /\ ~broker'[n].subscribedChanged
            BY <6>1, <6>2, SyncedFlags
          <6> QED  BY <6>3, <6>6, <6>7 DEF Applied
        <5> QED  BY <5>1, <5>2
      <4> QED  BY <4>1, <4>4, <4>6, <4>7, <4>8, <4>9
    <3> QED  BY <2>3, <3>1, <3>2, <3>3, <3>4, <3>5 DEF Worker
  <2>4. CASE Api
    BY <2>1, <2>4 DEF Api, SetSubscriptionEvent, SetEvent
  <2>5. CASE Producer
    BY <2>1, <2>5 DEF Producer, SetLocationEvent, SignalEvents, Store
  <2>6. ASSUME NEW s \in Subscriptions, AddSubscription(s) \/ RemoveSubscription(s)
        PROVE  AInv'
    BY <2>1, <2>6 DEF AddSubscription, RemoveSubscription, Commit
  <2>7. ASSUME NEW n \in Nodes, StartPod(n) \/ \E k \in 1 .. pod[n] : Store(n, k)
        PROVE  AInv'
    BY <2>1, <2>7 DEF StartPod, Store
  <2>8. CASE UNCHANGED vars
    BY <2>1, <2>8 DEF vars
  <2> QED  BY <2>3, <2>4, <2>5, <2>6, <2>7, <2>8 DEF Next
<1> QED  BY <1>1, <1>2, AwakeIsInductive, IInvIsInductive, PTL DEF Spec

\* A worker that sleeps has applied every change it acknowledged: each broker is listened
\* to at the address in its state and for all its resources
\* (broker_state_manager.py:145-228).
THEOREM AckedIsAppliedHolds == Spec => []AckedIsApplied
<1>1. AInv => AckedIsApplied
  BY DEF AInv, Pending, Applied, FlagsTell, AckedIsApplied
<1> QED  BY <1>1, AInvIsInductive, PTL
-----------------------------------------------------------------------------
\* Every address that is known somewhere is that of a pod there was.
Located ==
  \A n \in Nodes : /\ channel[n] <= pod[n] /\ nodeinfo[n] <= pod[n]
                   /\ broker[n].ip <= pod[n] /\ watcher[n].ip <= pod[n]
                   /\ n \in managed => broker[n].ip # 0

Controls ==
  /\ api \in {"idle", "committed", "flagged"} /\ producer \in {"idle", "stored", "flagged"}
  /\ pc \in {"wait", "location", "consume", "subscription", "refresh", "watcher", "syncup"}

Names == keys \cup managed \cup watched \cup located \cup leaked \subseteq Nodes

\* Relocation takes an address over from the nodes, and never takes one away.
LEMMA RelocatedAddress ==
  ASSUME NEW b \in [Nodes -> Broker], nodeinfo \in [Nodes -> Nat], NEW n \in Nodes
  PROVE  /\ Relocated(b)[n].ip \in {b[n].ip, nodeinfo[n]}
         /\ b[n].ip # 0 => Relocated(b)[n].ip # 0
         /\ n \in managed' /\ nodeinfo[n] # 0 => Relocated(b)[n].ip # 0
BY DEF Relocated, Broker

\* No step of any party makes up an address, or leaves a managed broker without one.
LEMMA LocatedIsInductive == Spec => [](Located /\ Controls /\ Names)
<1>1. Init => Located /\ Controls /\ Names
  BY DEF Init, Located, Controls, Names, NewBroker, NoClient
<1>2. Controls /\ Names /\ [Next]_vars => Controls' /\ Names'
  <2> SUFFICES ASSUME Controls, Names, [Next]_vars PROVE Controls' /\ Names'
    OBVIOUS
  <2> USE DEF Controls, Names, clients, locations, connections, Goto
  <2>1. CASE Worker
    <3>1. CASE Wake \/ TakeLocation \/ TakeSubscriptions \/ TakeWatcher
      BY <3>1 DEF Wake, TakeLocation, TakeSubscriptions, TakeWatcher
    <3>2. CASE Consumed
      BY <3>2 DEF Consumed
    <3>3. CASE Refresh
      BY <3>3 DEF Refresh
    <3>4. ASSUME NEW n \in Nodes, Consume(n) PROVE Controls' /\ Names'
      BY <3>4 DEF Consume
    <3>5. ASSUME NEW running \in SUBSET Nodes, NEW lost \in SUBSET Nodes,
                 NEW stuck \in SUBSET Nodes, SyncUp(running, lost, stuck)
          PROVE  Controls' /\ Names'
      BY <3>5 DEF SyncUp, Asked, Remaining, Disabled
    <3> QED  BY <2>1, <3>1, <3>2, <3>3, <3>4, <3>5 DEF Worker
  <2>2. CASE Api
    BY <2>2 DEF Api, SetSubscriptionEvent, SetEvent
  <2>3. ASSUME NEW n \in Nodes, NEW k, Store(n, k) PROVE Controls' /\ Names'
    BY <2>3 DEF Store
  <2>4. CASE SetLocationEvent \/ SignalEvents
    BY <2>4 DEF SetLocationEvent, SignalEvents
  <2>5. ASSUME NEW s \in Subscriptions, AddSubscription(s) \/ RemoveSubscription(s)
        PROVE  Controls' /\ Names'
    BY <2>5 DEF AddSubscription, RemoveSubscription, Commit
  <2>6. ASSUME NEW n \in Nodes, StartPod(n) PROVE Controls' /\ Names'
    BY <2>6 DEF StartPod
  <2>7. CASE UNCHANGED vars
    BY <2>7 DEF vars
  <2> QED  BY <2>1, <2>2, <2>3, <2>4, <2>5, <2>6, <2>7 DEF Next, Producer
<1>3. Typed /\ AInv /\ Located /\ [Next]_vars => Located'
  <2> SUFFICES ASSUME Typed, AInv, Located, [Next]_vars PROVE Located'
    OBVIOUS
  <2> USE DEF clients, locations, connections, Goto
  <2>1. ASSUME UNCHANGED <<pod, channel, nodeinfo, broker, watcher, managed>> PROVE Located'
    BY <2>1 DEF Located
  <2>2. CASE Worker
    <3>1. CASE Wake \/ TakeLocation \/ TakeSubscriptions \/ TakeWatcher
      BY <2>1, <3>1 DEF Wake, TakeLocation, TakeSubscriptions, TakeWatcher
    <3>2. CASE Consumed
      <4>1. UNCHANGED <<pod, channel, nodeinfo, watcher, managed>>
        BY <3>2 DEF Consumed
      <4>2. broker' = broker \/ broker' = Relocated(broker)
        BY <3>2, Zenon DEF Consumed
      <4>3. \A n \in Nodes : /\ broker'[n].ip \in {broker[n].ip, nodeinfo[n]}
                             /\ broker[n].ip # 0 => broker'[n].ip # 0
        BY <4>2, RelocatedAddress DEF Typed
      <4> QED  BY <4>1, <4>3 DEF Located
    <3>3. CASE Refresh
      <4> DEFINE new == [n \in Nodes |-> IF n \in managed' THEN Resubscribed(n) ELSE broker[n]]
                 changed == \E n \in managed' : \/ n \notin managed
                                                \/ ~(Wanted(n) \subseteq broker[n].subscribed)
                                                \/ new[n].subscribed # new[n].current
      <4>1. /\ UNCHANGED <<pod, channel, nodeinfo, watcher>>
            /\ managed' = managed \cup {n \in Nodes : Wanted(n) # {}}
        BY <3>3 DEF Refresh
      <4>2. broker' = IF changed THEN Relocated(new) ELSE new
        BY <3>3, Zenon DEF Refresh
      <4>3. new \in [Nodes -> Broker] /\ \A n \in Nodes : new[n].ip = broker[n].ip
        BY ResubscribedFacts, ResubscribedFlags DEF Typed
      <4>4. (\E n \in managed' : n \notin managed) => changed
        BY Zenon
      <4>5. \A n \in managed' \ managed : nodeinfo[n] # 0
        BY <4>1 DEF Wanted
      <4> HIDE DEF new, changed
      <4> SUFFICES ASSUME NEW n \in Nodes
                   PROVE  /\ broker'[n].ip <= pod[n]
                          /\ n \in managed' => broker'[n].ip # 0
        BY <4>1 DEF Located
      <4>6. CASE changed
        <5>1. /\ broker'[n].ip \in {broker[n].ip, nodeinfo[n]}
              /\ broker[n].ip # 0 => broker'[n].ip # 0
              /\ n \in managed' /\ nodeinfo[n] # 0 => broker'[n].ip # 0
          BY <4>2, <4>3, <4>6, RelocatedAddress DEF Typed
        <5> QED  BY <4>5, <5>1 DEF Located
      <4>7. CASE ~changed
        BY <4>2, <4>3, <4>4, <4>7 DEF Located
      <4> QED  BY <4>6, <4>7
    <3>4. ASSUME NEW n \in Nodes, Consume(n) PROVE Located'
      BY <3>4 DEF Consume, Located, Typed
    <3>5. ASSUME NEW running, NEW lost, NEW stuck, SyncUp(running, lost, stuck)
          PROVE  Located'
      <4> DEFINE asked == Asked(running, stuck)
                 failed == lost \cup stuck
      <4>1. /\ UNCHANGED <<pod, channel, nodeinfo>> /\ managed' = Remaining
            /\ asked \subseteq {n \in Remaining : Starts(n) \/ Restarts(n)}
        BY <3>5 DEF SyncUp, Asked
      <4>2. broker' = [n \in Nodes |-> IF n \in Remaining THEN AfterSyncup(n, asked, failed)
                                                          ELSE NewBroker]
        BY <3>5, Zenon DEF SyncUp
      <4>3. watcher' = [n \in Nodes |->
              IF n \in stuck THEN [watcher[n] EXCEPT !.listening = {}]
              ELSE IF n \in Remaining \ lost THEN ClientAfter(n, asked)
              ELSE IF n \in lost \cup Disabled THEN NoClient
              ELSE watcher[n]]
        BY <3>5, Zenon DEF SyncUp
      <4> HIDE DEF asked
      <4>4. Remaining \subseteq managed /\ managed \subseteq Nodes
        BY DEF Remaining, AInv
      <4> SUFFICES ASSUME NEW n \in Nodes
                   PROVE  /\ broker'[n].ip <= pod[n] /\ watcher'[n].ip <= pod[n]
                          /\ n \in Remaining => broker'[n].ip # 0
        BY <4>1 DEF Located
      <4>5. /\ pod[n] \in Nat /\ broker[n].ip \in Nat /\ watcher[n].ip \in Nat
            /\ watcher[n] \in [ip: Nat, listening: SUBSET Resources]
            /\ broker[n].ip <= pod[n] /\ watcher[n].ip <= pod[n]
            /\ n \in managed => broker[n].ip # 0
        BY DEF Typed, AInv, Clients, Located, Broker
      <4>6. CASE n \in Remaining
        <5>1. /\ Address(n, n \in asked) <= pod[n] /\ Address(n, n \in asked) # 0
          BY <4>4, <4>5, <4>6 DEF Address
        <5>2. broker'[n].ip \in {broker[n].ip, Address(n, n \in asked)}
          BY <4>2, <4>6, SyncedFlags
        <5>3. ClientAfter(n, asked).ip = Address(n, n \in asked)
          BY <4>1, <4>4, <4>6, SyncedClient DEF AInv
        <5>4. watcher'[n].ip \in {watcher[n].ip, Address(n, n \in asked), 0}
          BY <4>3, <4>5, <4>6, <5>3 DEF NoClient
        <5> QED  BY <4>4, <4>5, <4>6, <5>1, <5>2, <5>4
      <4>7. CASE n \notin Remaining
        <5>1. broker'[n].ip = 0
          BY <4>2, <4>7, NewBrokerFlags
        <5>2. watcher'[n].ip \in {watcher[n].ip, 0}
          BY <4>3, <4>5, <4>7 DEF NoClient
        <5> QED  BY <4>5, <4>7, <5>1, <5>2
      <4> QED  BY <4>6, <4>7
    <3> QED  BY <2>2, <3>1, <3>2, <3>3, <3>4, <3>5 DEF Worker
  <2>3. CASE Api
    BY <2>1, <2>3 DEF Api, SetSubscriptionEvent, SetEvent
  <2>4. ASSUME NEW n \in Nodes, NEW k \in Nat, k <= pod[n], Store(n, k) PROVE Located'
    BY <2>4 DEF Store, Located, Typed
  <2>5. CASE SetLocationEvent \/ SignalEvents
    BY <2>1, <2>5 DEF SetLocationEvent, SignalEvents
  <2>6. ASSUME NEW s \in Subscriptions, AddSubscription(s) \/ RemoveSubscription(s)
        PROVE  Located'
    BY <2>1, <2>6 DEF AddSubscription, RemoveSubscription, Commit
  <2>7. ASSUME NEW n \in Nodes, StartPod(n) PROVE Located'
    <3>1. /\ pod' = [pod EXCEPT ![n] = pod[n] + 1]
          /\ UNCHANGED <<channel, nodeinfo, broker, watcher, managed>>
      BY <2>7 DEF StartPod
    <3>2. \A m \in Nodes : pod'[m] >= pod[m] /\ pod[m] \in Nat /\ pod'[m] \in Nat
      BY <3>1 DEF Typed
    <3>3. \A m \in Nodes : /\ channel[m] \in Nat /\ nodeinfo[m] \in Nat
                           /\ broker[m].ip \in Nat /\ watcher[m].ip \in Nat
      BY DEF Typed, AInv, Clients, Broker
    <3> QED  BY <3>1, <3>2, <3>3 DEF Located
  <2>8. CASE UNCHANGED vars
    BY <2>1, <2>8 DEF vars
  <2>9. \A n \in Nodes : pod[n] \in Nat /\ \A k \in 1 .. pod[n] : k \in Nat /\ k <= pod[n]
    BY DEF Typed
  <2> QED
    BY <2>2, <2>3, <2>4, <2>5, <2>6, <2>7, <2>8, <2>9 DEF Next, Producer
<1> QED  BY <1>1, <1>2, <1>3, IInvIsInductive, AInvIsInductive, PTL DEF Spec, IInv

\* The types; no address is known that no pod had, and every broker that is managed has
\* one, however late announcements come and whichever calls fail
\* (broker_state_manager.py:38-71).
THEOREM TypeCorrect == Spec => []TypeOK
<1>1. Flags /\ Typed /\ AInv /\ Located /\ Controls /\ Names => TypeOK
  <2> SUFFICES ASSUME Flags, Typed, AInv, Located, Controls, Names PROVE TypeOK
    OBVIOUS
  <2>1. ASSUME NEW n \in Nodes
        PROVE  {channel[n], nodeinfo[n], broker[n].ip, watcher[n].ip} \subseteq 0 .. pod[n]
    <3>1. /\ pod[n] \in Nat /\ channel[n] \in Nat /\ nodeinfo[n] \in Nat
          /\ broker[n].ip \in Nat /\ watcher[n].ip \in Nat
      BY DEF Typed, AInv, Clients, Broker
    <3> QED  BY <3>1 DEF Located
  <2>2. {event, locationEvent, subscriptionEvent, watcherEvent, added, updated}
          \subseteq BOOLEAN
    BY Zenon DEF Flags
  <2> QED  BY <2>1, <2>2 DEF TypeOK, Typed, Located, Controls, Names
<1> QED  BY <1>1, AwakeIsInductive, IInvIsInductive, AInvIsInductive, LocatedIsInductive, PTL
         DEF Awake, IInv
-----------------------------------------------------------------------------
(***************************************************************************)
(* From an announcement to the client that listens: what was heard of is   *)
(* in the queue or in the database, from there in the broker states, and   *)
(* from there, by AInv, in the clients.                                    *)
(***************************************************************************)

\* The database lags behind the announcements only where one is queued.
Heard ==
  \A n \in Nodes :
    nodeinfo[n] <= channel[n] /\ (n \notin keys => nodeinfo[n] = channel[n])

\* No broker state has an address older than the database, once the queue is consumed.
Addressed ==
  \A n \in managed :
    nodeinfo[n] <= broker[n].ip \/ (pc = "consume" /\ (added \/ updated))

\* A broker that nothing is wanted of any more is going to be disabled.
Kept == watcherEvent \/ pc = "syncup" \/ \A n \in managed : broker[n].current # {}

\* A client without a broker state is one that could not be stopped.
Known == \A n \in watched : n \in managed \/ n \in leaked

QInv == Heard /\ Addressed /\ Kept /\ Known

\* Relocation brings an address up to the database, or leaves it alone.
LEMMA RelocatedIsAddressed ==
  ASSUME NEW b \in [Nodes -> Broker], nodeinfo \in [Nodes -> Nat], NEW n \in Nodes,
         n \in managed'
  PROVE  nodeinfo[n] <= Relocated(b)[n].ip
BY DEF Relocated, Broker

\* QInv is inductive, given the types, the addresses and what the flags tell.
LEMMA QInvIsInductive == Spec => []QInv
<1>1. Init => QInv
  BY DEF Init, QInv, Heard, Addressed, Kept, Known
<1>2. Flags /\ IInv /\ AInv /\ Located /\ QInv /\ [Next]_vars => QInv'
  <2> SUFFICES ASSUME Flags, Typed, OthersAreEmpty, AInv, Located, QInv, [Next]_vars
               PROVE  QInv'
    BY DEF IInv
  <2> USE DEF QInv, clients, locations, connections, Goto
  <2>0. /\ nodeinfo \in [Nodes -> Nat] /\ channel \in [Nodes -> Nat]
        /\ broker \in [Nodes -> Broker] /\ managed \subseteq Nodes
        /\ \A n \in Nodes : broker[n].ip \in Nat
    BY DEF Typed, AInv, Broker
  <2>1. ASSUME UNCHANGED <<nodeinfo, channel, keys, broker, managed, watched, leaked>>,
               watcherEvent' = watcherEvent, pc' = pc \/ pc \notin {"consume", "syncup"},
               UNCHANGED <<added, updated>> \/ pc # "consume"
        PROVE  QInv'
    <3>1. CASE pc = "consume"
      <4>1. pc' = pc /\ UNCHANGED <<added, updated>>
        BY <2>1, <3>1
      <4> QED  BY <2>1, <4>1, Zenon DEF Heard, Addressed, Kept, Known
    <3>2. CASE pc # "consume"
      BY <2>1, <3>2 DEF Heard, Addressed, Kept, Known
    <3> QED  BY <3>1, <3>2
  <2>2. CASE Worker
    <3>1. CASE Wake \/ TakeLocation \/ TakeSubscriptions
      BY <2>1, <3>1 DEF Wake, TakeLocation, TakeSubscriptions
    <3>2. CASE TakeWatcher
      BY <3>2 DEF TakeWatcher, Heard, Addressed, Kept, Known
    <3>3. ASSUME NEW n \in Nodes, Consume(n) PROVE QInv'
      <4>1. /\ pc = "consume" /\ pc' = pc /\ keys' = keys \ {n}
            /\ nodeinfo' = [nodeinfo EXCEPT ![n] = IF @ < channel[n] THEN channel[n] ELSE @]
            /\ UNCHANGED <<channel, watcherEvent, managed, broker, watched, leaked>>
        BY <3>3 DEF Consume
      <4>2. Heard'
        BY <2>0, <4>1 DEF Heard
      <4>3. (added \/ updated => added' \/ updated') /\ (nodeinfo'[n] # nodeinfo[n] => added' \/ updated')
        <5>1. /\ added' = (added \/ nodeinfo[n] = 0)
              /\ updated' = (updated \/ (nodeinfo[n] # 0 /\ nodeinfo[n] < channel[n]))
          BY <3>3 DEF Consume
        <5>2. added \/ updated => added' \/ updated'
          BY <5>1, Zenon
        <5>3. ASSUME nodeinfo'[n] # nodeinfo[n] PROVE added' \/ updated'
          <6>1. nodeinfo[n] < channel[n]
            BY <2>0, <4>1, <5>3
          <6> QED  BY <5>1, <6>1, Zenon
        <5> QED  BY <5>2, <5>3
      <4>4. Addressed'
        <5> SUFFICES ASSUME NEW m \in managed
                     PROVE  nodeinfo'[m] <= broker[m].ip \/ added' \/ updated'
          BY <4>1, Zenon DEF Addressed
        <5>1. CASE added' \/ updated'
          BY <5>1
        <5>2. CASE ~(added' \/ updated')
          <6>1. nodeinfo'[m] = nodeinfo[m]
            BY <2>0, <4>1, <4>3, <5>2
          <6>2. nodeinfo[m] <= broker[m].ip
            BY <4>3, <5>2, Zenon DEF Addressed
          <6> QED  BY <6>1, <6>2
        <5> QED  BY <5>1, <5>2
      <4> QED  BY <4>1, <4>2, <4>4, Zenon DEF Kept, Known
    <3>4. CASE Consumed
      <4>1. /\ pc = "consume" /\ pc' = "subscription"
            /\ UNCHANGED <<nodeinfo, channel, keys, managed, watched, leaked>>
        BY <3>4 DEF Consumed
      <4>2. /\ added \/ updated => broker' = Relocated(broker)
            /\ ~(added \/ updated) => broker' = broker
            /\ watcherEvent => watcherEvent'
        BY <3>4, Zenon DEF Consumed
      <4>3. Addressed'
        <5>1. CASE added \/ updated
          BY <2>0, <4>1, <4>2, <5>1, RelocatedIsAddressed DEF Addressed
        <5>2. CASE ~(added \/ updated)
          BY <4>1, <4>2, <5>2 DEF Addressed
        <5> QED  BY <5>1, <5>2
      <4>4. \A n \in Nodes : broker'[n].current = broker[n].current
        BY <2>0, <4>2, RelocatedFacts
      <4> QED  BY <2>0, <4>1, <4>2, <4>3, <4>4 DEF Heard, Kept, Known
    <3>5. CASE Refresh
      <4> DEFINE new == [n \in Nodes |-> IF n \in managed' THEN Resubscribed(n) ELSE broker[n]]
                 changed == \E n \in managed' : \/ n \notin managed
                                                \/ ~(Wanted(n) \subseteq broker[n].subscribed)
                                                \/ new[n].subscribed # new[n].current
      <4>1. /\ UNCHANGED <<nodeinfo, channel, keys, watched, leaked>>
            /\ pc = "refresh" /\ pc' = "watcher"
            /\ managed' = managed \cup {n \in Nodes : Wanted(n) # {}}
        BY <3>5 DEF Refresh
      <4>2. /\ broker' = IF changed THEN Relocated(new) ELSE new
            /\ watcherEvent' = (watcherEvent \/ changed)
        BY <3>5, Zenon DEF Refresh
      <4>3. /\ new \in [Nodes -> Broker]
            /\ \A n \in Nodes : new[n].ip = broker[n].ip
            /\ \A n \in managed' : new[n] = Resubscribed(n)
        BY <2>0, <4>1, ResubscribedFacts, ResubscribedFlags
      <4>4. changed \/ \A n \in managed' : n \in managed /\ new[n].subscribed = new[n].current
        BY Zenon
      <4>5. managed \subseteq managed' /\ managed' \subseteq Nodes
        BY <2>0, <4>1
      <4> HIDE DEF new, changed
      <4>6. CASE changed
        <5>1. broker' = Relocated(new) /\ watcherEvent'
          BY <4>2, <4>6, Zenon
        <5>2. Addressed'
          BY <2>0, <4>1, <4>3, <4>5, <5>1, RelocatedIsAddressed DEF Addressed
        <5> QED  BY <4>1, <4>5, <5>1, <5>2 DEF Heard, Kept, Known
      <4>7. CASE ~changed
        <5>1. broker' = new /\ managed' = managed
          BY <4>2, <4>4, <4>5, <4>7, Zenon
        <5>2. Addressed'
          BY <2>0, <4>1, <4>3, <5>1 DEF Addressed
        <5>3. Kept'
          <6>1. CASE watcherEvent
            BY <4>2, <6>1, Zenon DEF Kept
          <6>2. CASE ~watcherEvent
            <7> SUFFICES ASSUME NEW n \in managed PROVE broker'[n].current # {}
              BY <5>1 DEF Kept
            <7>1. broker[n].current # {} /\ broker[n].current \subseteq broker[n].subscribed
              BY <4>1, <6>2 DEF Kept, AInv, FlagsTell
            <7>2. new[n].current = new[n].subscribed /\ broker[n].subscribed \subseteq new[n].subscribed
              BY <2>0, <4>3, <4>4, <4>7, <5>1, ResubscribedFlags
            <7> QED  BY <5>1, <7>1, <7>2
          <6> QED  BY <6>1, <6>2
        <5> QED  BY <4>1, <5>1, <5>2, <5>3 DEF Heard, Known
      <4> QED  BY <4>6, <4>7
    <3>6. ASSUME NEW running, NEW lost, NEW stuck, SyncUp(running, lost, stuck) PROVE QInv'
      <4> DEFINE asked == Asked(running, stuck)
                 failed == lost \cup stuck
      <4>1. /\ UNCHANGED <<nodeinfo, channel, keys>>
            /\ managed' = Remaining /\ pc' = "wait"
            /\ watched' = (watched \cup Remaining) \ (lost \cup (Disabled \ stuck))
            /\ leaked' = leaked \cup (stuck \cap Disabled)
        BY <3>6 DEF SyncUp
      <4>2. broker' = [n \in Nodes |-> IF n \in Remaining THEN AfterSyncup(n, asked, failed)
                                                          ELSE NewBroker]
        BY <3>6, Zenon DEF SyncUp
      <4>3. Remaining \subseteq Nodes /\ managed = Remaining \cup Disabled
        BY <2>0 DEF Remaining, Disabled
      <4>4. Addressed'
        <5> SUFFICES ASSUME NEW n \in Remaining PROVE nodeinfo[n] <= broker'[n].ip
          BY <4>1 DEF Addressed
        <5>1. nodeinfo[n] <= pod[n] /\ nodeinfo[n] <= broker[n].ip
          BY <3>6, <4>3 DEF SyncUp, Addressed, Located
        <5>2. broker'[n].ip \in {broker[n].ip, pod[n]}
          BY <4>2, <4>3, SyncedFlags DEF Address
        <5> QED  BY <5>1, <5>2
      <4>5. Kept'
        BY <4>1, <4>2, <4>3, AfterSyncupFacts DEF Kept, Remaining, Disabled
      <4>6. Known'
        BY <4>1, <4>3 DEF Known
      <4> QED  BY <4>1, <4>4, <4>5, <4>6 DEF Heard
    <3> QED  BY <2>2, <3>1, <3>2, <3>3, <3>4, <3>5, <3>6 DEF Worker
  <2>3. CASE Api
    BY <2>1, <2>3 DEF Api, SetSubscriptionEvent, SetEvent
  <2>4. ASSUME NEW n \in Nodes, NEW k \in Nat, Store(n, k) PROVE QInv'
    <3>1. /\ channel' = [channel EXCEPT ![n] = k] /\ channel[n] < k /\ keys' = keys \cup {n}
          /\ UNCHANGED <<nodeinfo, broker, managed, watched, leaked, watcherEvent, pc, added,
                         updated>>
      BY <2>4 DEF Store
    <3>2. Heard'
      BY <2>0, <3>1 DEF Heard
    <3> QED  BY <3>1, <3>2, Zenon DEF Addressed, Kept, Known
  <2>5. CASE SetLocationEvent \/ SignalEvents
    BY <2>1, <2>5 DEF SetLocationEvent, SignalEvents
  <2>6. ASSUME NEW s \in Subscriptions, AddSubscription(s) \/ RemoveSubscription(s)
        PROVE  QInv'
    BY <2>1, <2>6 DEF AddSubscription, RemoveSubscription, Commit
  <2>7. ASSUME NEW n \in Nodes, StartPod(n) PROVE QInv'
    BY <2>1, <2>7 DEF StartPod
  <2>8. CASE UNCHANGED vars
    BY <2>1, <2>8 DEF vars
  <2>9. \A n \in Nodes : pod[n] \in Nat /\ \A k \in 1 .. pod[n] : k \in Nat
    BY DEF Typed
  <2> QED
    BY <2>2, <2>3, <2>4, <2>5, <2>6, <2>7, <2>8, <2>9 DEF Next, Producer
<1> QED  BY <1>1, <1>2, AwakeIsInductive, IInvIsInductive, AInvIsInductive,
            LocatedIsInductive, PTL DEF Spec, Awake

\* Whenever the worker sleeps and nothing is under way to wake it, it listens to what is
\* subscribed, at the present address of every node whose present pod it has heard of, and
\* to nothing else but what could not be stopped (notification_worker.py:129-156, 314-330).
THEOREM QuietIsInStepHolds == Spec => []QuietIsInStep
<1>1. Awake /\ IInv /\ AInv /\ Located /\ QInv => QuietIsInStep
  <2> SUFFICES ASSUME Awake, IInv, AInv, Located, QInv,
                      pc = "wait", ~event, api = "idle", producer = "idle",
                      NEW n \in Nodes, channel[n] = pod[n]
               PROVE  InStep(n)
    BY DEF QuietIsInStep
  <2>1. keys = {} /\ ~subscriptionEvent /\ ~watcherEvent
    BY DEF Awake, Flags, KeysAnnounced, LocationAwake, SubscriptionAwake, WatcherAwake
  <2>2. broker[n].current = Wanted(n)
    BY <2>1 DEF IInv, Noticed, IsCurrent
  <2>3. nodeinfo[n] = pod[n] /\ pod[n] \in Nat /\ broker[n].ip \in Nat
    BY <2>1 DEF QInv, Heard, IInv, Typed, Broker
  <2>4. ASSUME Wanted(n) # {}
        PROVE  n \in watched /\ watcher[n].ip = pod[n] /\ Wanted(n) \subseteq watcher[n].listening
    <3>1. n \in managed
      BY <2>2, <2>4 DEF IInv, OthersAreEmpty
    <3>2. broker[n].ip = pod[n]
      BY <2>3, <3>1 DEF Located, QInv, Addressed
    <3>3. Applied(n)
      BY <2>1, <3>1 DEF AInv, Pending
    <3> QED  BY <2>2, <3>1, <3>2, <3>3 DEF Applied, AInv, FlagsTell
  <2>5. ASSUME Wanted(n) = {} PROVE n \notin watched \/ n \in leaked
    BY <2>1, <2>2, <2>5 DEF QInv, Kept, Known
  <2> QED  BY <2>4, <2>5 DEF InStep
<1> QED  BY <1>1, AwakeIsInductive, IInvIsInductive, AInvIsInductive, LocatedIsInductive,
            QInvIsInductive, PTL
=============================================================================
