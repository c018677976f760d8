----------------------------- MODULE BrokerSync -----------------------------
(***************************************************************************)
(* NotificationWorker (notification_worker.py) of the client sidecar with  *)
(* its BrokerStateManager and BrokerConnectionManager: from subscriptions, *)
(* which the API process stores, and locations, which the location service *)
(* of every node announces, the worker works out which resources of which  *)
(* node to listen to, at the address of the node's broker.                 *)
(*                                                                         *)
(* A node's location service starts anew with every pod, and announces the *)
(* address and the start time of that pod over and over; both are written  *)
(* as the number of the pod, 0 if there was none.                          *)
(***************************************************************************)
EXTENDS Naturals, FiniteSets

CONSTANTS
  Nodes,
  Subscriptions,       \* what clients may subscribe to: [node, resource]
  AnyNode,             \* the wildcard "*" of a subscription's node
  MaxPods,             \* at most this many pods of each node,
  MaxChanges,          \* this many changes of the subscriptions,
  MaxFailures          \* and this many failing calls to a broker

ASSUME BrokerSyncAssumption ==
  /\ AnyNode \notin Nodes
  /\ \A s \in Subscriptions : s.node \in Nodes \cup {AnyNode}
  /\ MaxPods \in [Nodes -> Nat] /\ MaxChanges \in Nat /\ MaxFailures \in Nat

VARIABLES
  subs,                \* the subscriptions in the database
  pod,                 \* the present pod of each node
  api,                 \* where the API process is in a change of the subscriptions
  producer,            \* where the thread is that holds location_lock
  channel, keys,       \* location_channel and location_keys_q
  event, locationEvent, subscriptionEvent, watcherEvent,
  pc,                  \* where the worker's loop is
  added, updated,      \* its counts of nodes while it consumes, as whether there are any
  nodeinfo,            \* the pod of each node in the database
  managed, broker,     \* broker_state_map: its names, and their BrokerState
  watched, watcher,    \* broker_watchers: its names, and their clients
  located,             \* nodes whose location listener is active
  leaked,              \* history: nodes whose client could not be stopped
  changes, failures    \* history: how many there were

clients == <<subs, api, changes>>
locations == <<pod, producer, channel>>
connections == <<watched, watcher, located, leaked, failures>>
vars == <<clients, locations, keys, event, locationEvent, subscriptionEvent, watcherEvent,
          pc, added, updated, nodeinfo, managed, broker, connections>>

\* current: the resources confirmed by the last refresh; the others are obsolete.
\* Connected and ResourceTypes only ever change together with the address for the first
\* time, so their flags are that of the address, and no data sync-up is ever signalled.
NewBroker == [ip |-> 0, ipChanged |-> FALSE, subscribed |-> {}, current |-> {},
              subscribedChanged |-> FALSE]
NoClient == [ip |-> 0, listening |-> {}]

\* Subscriptions outlive the process, the nodes' locations are deleted when it starts.
Init ==
  /\ subs \in SUBSET Subscriptions
  /\ pod = [n \in Nodes |-> 0]
  /\ api = "idle" /\ producer = "idle"
  /\ channel = [n \in Nodes |-> 0] /\ keys = {}
  /\ event = TRUE /\ subscriptionEvent = TRUE
  /\ locationEvent = FALSE /\ watcherEvent = FALSE
  /\ pc = "wait" /\ added = FALSE /\ updated = FALSE
  /\ nodeinfo = [n \in Nodes |-> 0]
  /\ managed = {} /\ broker = [n \in Nodes |-> NewBroker]
  /\ watched = {} /\ watcher = [n \in Nodes |-> NoClient]
  /\ located = {} /\ leaked = {}
  /\ changes = 0 /\ failures = 0

Goto(from, to) == pc = from /\ pc' = to
-----------------------------------------------------------------------------
(***************************************************************************)
(* The API process: the record is committed, and refresh sets one event    *)
(* after the other.                                                        *)
(***************************************************************************)
Commit(new) ==
  /\ api = "idle" /\ api' = "committed"
  /\ changes < MaxChanges /\ changes' = changes + 1
  /\ subs' = new
  /\ UNCHANGED <<locations, keys, event, locationEvent, subscriptionEvent, watcherEvent, pc,
                 added, updated, nodeinfo, managed, broker, connections>>

\* A named node is in the database or answers the query for its location; for the
\* wildcard, some node is in the database.
Reachable(node) ==
  \/ node \in Nodes /\ pod[node] # 0
  \/ node = AnyNode /\ \E n \in Nodes : nodeinfo[n] # 0

AddSubscription(s) ==
  /\ s \notin subs /\ Reachable(s.node)
  /\ Commit(subs \cup {s})

RemoveSubscription(s) == s \in subs /\ Commit(subs \ {s})

SetSubscriptionEvent ==
  /\ api = "committed" /\ api' = "flagged"
  /\ subscriptionEvent' = TRUE
  /\ UNCHANGED <<subs, changes, locations, keys, event, locationEvent, watcherEvent, pc,
                 added, updated, nodeinfo, managed, broker, connections>>

SetEvent ==
  /\ api = "flagged" /\ api' = "idle"
  /\ event' = TRUE
  /\ UNCHANGED <<subs, changes, locations, keys, locationEvent, subscriptionEvent,
                 watcherEvent, pc, added, updated, nodeinfo, managed, broker, connections>>
-----------------------------------------------------------------------------
(***************************************************************************)
(* Locations: announcements arrive late, twice and in any order.           *)
(***************************************************************************)
StartPod(n) ==
  /\ pod[n] < MaxPods[n]
  /\ pod' = [pod EXCEPT ![n] = @ + 1]
  /\ UNCHANGED <<clients, producer, channel, keys, event, locationEvent, subscriptionEvent,
                 watcherEvent, pc, added, updated, nodeinfo, managed, broker, connections>>

\* produce_location_event keeps the announcement if it is newer, ...
Store(n, k) ==
  /\ producer = "idle" /\ producer' = "stored"
  /\ channel[n] < k /\ channel' = [channel EXCEPT ![n] = k]
  /\ keys' = keys \cup {n}
  /\ UNCHANGED <<clients, pod, event, locationEvent, subscriptionEvent, watcherEvent, pc,
                 added, updated, nodeinfo, managed, broker, connections>>

\* ... and then wakes the worker.
SetLocationEvent ==
  /\ producer = "stored" /\ producer' = "flagged"
  /\ locationEvent' = TRUE
  /\ UNCHANGED <<clients, pod, channel, keys, event, subscriptionEvent, watcherEvent, pc,
                 added, updated, nodeinfo, managed, broker, connections>>

SignalEvents ==
  /\ producer = "flagged" /\ producer' = "idle"
  /\ event' = TRUE
  /\ UNCHANGED <<clients, pod, channel, keys, locationEvent, subscriptionEvent, watcherEvent,
                 pc, added, updated, nodeinfo, managed, broker, connections>>
-----------------------------------------------------------------------------
(***************************************************************************)
(* The worker's loop.                                                      *)
(***************************************************************************)
Wake ==
  /\ Goto("wait", "location") /\ event
  /\ event' = FALSE
  /\ UNCHANGED <<clients, locations, keys, locationEvent, subscriptionEvent, watcherEvent,
                 added, updated, nodeinfo, managed, broker, connections>>

TakeLocation ==
  /\ pc = "location" /\ pc' = IF locationEvent THEN "consume" ELSE "subscription"
  /\ locationEvent' = FALSE
  /\ UNCHANGED <<clients, locations, keys, event, subscriptionEvent, watcherEvent, added,
                 updated, nodeinfo, managed, broker, connections>>

\* Mutant of Consume: a node that is known already is not counted as updated.
ConsumeNewOnly(n) ==
  /\ pc = "consume" /\ n \in keys
  /\ keys' = keys \ {n}
  /\ added' = (added \/ nodeinfo[n] = 0)
  /\ nodeinfo' = [nodeinfo EXCEPT ![n] = IF @ < channel[n] THEN channel[n] ELSE @]
  /\ UNCHANGED <<clients, locations, event, locationEvent, subscriptionEvent, watcherEvent,
                 pc, updated, managed, broker, connections>>

\* One round of consume_location_event's loop, with __persist_locationinfo.
Consume(n) ==
  /\ pc = "consume" /\ n \in keys
  /\ keys' = keys \ {n}
  /\ added' = (added \/ nodeinfo[n] = 0)
  /\ updated' = (updated \/ (nodeinfo[n] # 0 /\ nodeinfo[n] < channel[n]))
  /\ nodeinfo' = [nodeinfo EXCEPT ![n] = IF @ < channel[n] THEN channel[n] ELSE @]
  /\ UNCHANGED <<clients, locations, event, locationEvent, subscriptionEvent, watcherEvent,
                 pc, managed, broker, connections>>

\* refresh_by_nodeinfos
Relocated(b) ==
  [n \in Nodes |->
     IF n \in managed' /\ nodeinfo[n] # 0 /\ b[n].ip # nodeinfo[n]
     THEN [b[n] EXCEPT !.ip = nodeinfo[n], !.ipChanged = TRUE]
     ELSE b[n]]

\* Mutant of Consumed: a new node does not make the subscriptions be looked at again.
ConsumedQuietly ==
  /\ Goto("consume", "subscription") /\ keys = {}
  /\ UNCHANGED <<subscriptionEvent, managed>>
  /\ broker' = IF added \/ updated THEN Relocated(broker) ELSE broker
  /\ LET changed == (added \/ updated) /\ \E n \in managed : broker'[n].ipChanged IN
     watcherEvent' = (watcherEvent \/ changed) /\ event' = (event \/ changed)
  /\ added' = FALSE /\ updated' = FALSE
  /\ UNCHANGED <<clients, locations, keys, locationEvent, nodeinfo, connections>>

\* The rest of it, once the queue is empty.
Consumed ==
  /\ Goto("consume", "subscription") /\ keys = {}
  /\ subscriptionEvent' = (subscriptionEvent \/ added)
  /\ UNCHANGED managed
  /\ broker' = IF added \/ updated THEN Relocated(broker) ELSE broker
  /\ LET changed == (added \/ updated) /\ \E n \in managed : broker'[n].ipChanged IN
     watcherEvent' = (watcherEvent \/ changed) /\ event' = (event \/ changed)
  /\ added' = FALSE /\ updated' = FALSE
  /\ UNCHANGED <<clients, locations, keys, locationEvent, nodeinfo, connections>>

TakeSubscriptions ==
  /\ pc = "subscription" /\ pc' = IF subscriptionEvent THEN "refresh" ELSE "watcher"
  /\ subscriptionEvent' = FALSE
  /\ UNCHANGED <<clients, locations, keys, event, locationEvent, watcherEvent, added, updated,
                 nodeinfo, managed, broker, connections>>

\* The resources of node n that are subscribed to, if the node is known.
Wanted(n) ==
  {s.resource : s \in {t \in subs : t.node \in {n, AnyNode} /\ nodeinfo[n] # 0}}

\* refresh_by_subscriptions
Resubscribed(n) ==
  [broker[n] EXCEPT
     !.subscribed = @ \cup Wanted(n), !.current = Wanted(n),
     !.subscribedChanged = @ \/ ~(Wanted(n) \subseteq broker[n].subscribed)]

\* Mutant of Refresh: new brokers are not given the address of their node.
RefreshUnlocated ==
  /\ Goto("refresh", "watcher")
  /\ managed' = managed \cup {n \in Nodes : Wanted(n) # {}}
  /\ LET new == [n \in Nodes |-> IF n \in managed' THEN Resubscribed(n) ELSE broker[n]]
         changed == \E n \in managed' : \/ n \notin managed
                                        \/ ~(Wanted(n) \subseteq broker[n].subscribed)
                                        \/ new[n].subscribed # new[n].current
     IN /\ broker' = new
        /\ watcherEvent' = (watcherEvent \/ changed)
        /\ event' = (event \/ changed)
  /\ UNCHANGED <<clients, locations, keys, locationEvent, subscriptionEvent, added, updated,
                 nodeinfo, connections>>

\* __update_broker_with_subscription
Refresh ==
  /\ Goto("refresh", "watcher")
  /\ managed' = managed \cup {n \in Nodes : Wanted(n) # {}}
  /\ LET new == [n \in Nodes |-> IF n \in managed' THEN Resubscribed(n) ELSE broker[n]]
         changed == \E n \in managed' : \/ n \notin managed
                                        \/ ~(Wanted(n) \subseteq broker[n].subscribed)
                                        \/ new[n].subscribed # new[n].current
     IN /\ broker' = IF changed THEN Relocated(new) ELSE new
        /\ watcherEvent' = (watcherEvent \/ changed)
        /\ event' = (event \/ changed)
  /\ UNCHANGED <<clients, locations, keys, locationEvent, subscriptionEvent, added, updated,
                 nodeinfo, connections>>

\* Mutant of TakeWatcher: the event is cleared after the round instead of before it.
TakeWatcherThenClear ==
  /\ pc = "watcher" /\ pc' = IF watcherEvent THEN "syncup" ELSE "wait"
  /\ watcherEvent' = FALSE
  /\ event' = FALSE
  /\ UNCHANGED <<clients, locations, keys, locationEvent, subscriptionEvent, added, updated,
                 nodeinfo, managed, broker, connections>>

TakeWatcher ==
  /\ pc = "watcher" /\ pc' = IF watcherEvent THEN "syncup" ELSE "wait"
  /\ watcherEvent' = FALSE
  /\ UNCHANGED <<clients, locations, keys, event, locationEvent, subscriptionEvent, added,
                 updated, nodeinfo, managed, broker, connections>>
-----------------------------------------------------------------------------
(***************************************************************************)
(* syncup_broker_watchers.                                                 *)
(***************************************************************************)

\* Brokers without a resource that is not obsolete are disabled.
Disabled == {n \in managed : broker[n].current = {}}
Remaining == managed \ Disabled

\* What has to be done about a remaining broker.
Starts(n)   == n \notin watched
Restarts(n) == n \in watched /\ broker[n].ipChanged
Updates(n)  == n \in watched /\ ~broker[n].ipChanged /\ broker[n].subscribedChanged

\* A (re)start asks for the location unless a listener on it is known to run.
Address(n, asked) == IF asked THEN pod[n] ELSE broker[n].ip

Acknowledged(b) == [b EXCEPT !.ipChanged = FALSE, !.subscribedChanged = FALSE]

\* Mutant of AfterSyncup: changes are acknowledged although they were not applied.
AfterSyncupAnyway(n, asked, failed) ==
  LET b == [broker[n] EXCEPT !.subscribed = @ \cap broker[n].current,
                             !.ip = IF n \in asked THEN pod[n] ELSE @]
  IN Acknowledged(b)

\* The BrokerState of a remaining broker afterwards; a failed one keeps its flags.
AfterSyncup(n, asked, failed) ==
  LET b == [broker[n] EXCEPT !.subscribed = @ \cap broker[n].current,
                             !.ip = IF n \in asked \ failed THEN pod[n] ELSE @]
  IN IF n \in failed THEN b ELSE Acknowledged(b)

\* Its client.  An update only adds listeners: the list it compares with is the very
\* dictionary of the BrokerState, so none is ever found to be no longer subscribed.
ClientAfter(n, asked) ==
  IF Starts(n) \/ Restarts(n)
  THEN [ip |-> Address(n, n \in asked), listening |-> broker[n].current]
  ELSE IF Updates(n)
  THEN [watcher[n] EXCEPT !.listening = @ \cup broker[n].current]
  ELSE watcher[n]

\* Brokers whose client is to be cleaned up, and those whose location is asked for: those
\* that are (re)started, unless the listener is running or the old client is stuck.
Cleaned == watched \cap (Disabled \cup {n \in Remaining : Restarts(n)})
Asked(running, stuck) ==
  {n \in Remaining : Starts(n) \/ Restarts(n)} \ (running \cup stuck)

\* running: nodes whose location listener has started by now; no other is removed.
\* lost: brokers whose location cannot be asked for; they are left without a client.
\* stuck: those whose client cannot be cleaned up, which leaves it in broker_watchers
\* without listeners.  A disabled broker is removed from broker_state_map in any case.
SyncUp(running, lost, stuck) ==
  LET asked == Asked(running, stuck)
      failed == lost \cup stuck
  IN
  /\ Goto("syncup", "wait")
  /\ running \subseteq located /\ stuck \subseteq Cleaned /\ lost \subseteq asked
  /\ failures' = failures + Cardinality(failed) /\ failures' <= MaxFailures
  /\ managed' = Remaining
  /\ broker' = [n \in Nodes |-> IF n \in Remaining THEN AfterSyncup(n, asked, failed)
                                                   ELSE NewBroker]
  /\ watched' = (watched \cup Remaining) \ (lost \cup (Disabled \ stuck))
  /\ watcher' = [n \in Nodes |->
       IF n \in stuck THEN [watcher[n] EXCEPT !.listening = {}]
       ELSE IF n \in Remaining \ lost THEN ClientAfter(n, asked)
       ELSE IF n \in lost \cup Disabled THEN NoClient
       ELSE watcher[n]]
  /\ located' = (located \cup asked) \ (Disabled \cap running)
  /\ leaked' = leaked \cup (stuck \cap Disabled)
  /\ watcherEvent' = (failed # {})
  /\ event' = (event \/ failed # {})
  /\ UNCHANGED <<clients, locations, keys, locationEvent, subscriptionEvent, added, updated,
                 nodeinfo>>
-----------------------------------------------------------------------------
Worker ==
  \/ Wake \/ TakeLocation \/ Consumed \/ TakeSubscriptions \/ Refresh \/ TakeWatcher
  \/ \E n \in Nodes : Consume(n)
  \/ \E running, lost, stuck \in SUBSET Nodes : SyncUp(running, lost, stuck)

Api == SetSubscriptionEvent \/ SetEvent

Producer ==
  \/ SetLocationEvent \/ SignalEvents
  \/ \E n \in Nodes : Store(n, pod[n])

Next ==
  \/ Worker \/ Api \/ Producer
  \/ \E s \in Subscriptions : AddSubscription(s) \/ RemoveSubscription(s)
  \/ \E n \in Nodes : StartPod(n)
  \/ \E n \in Nodes : \E k \in 1 .. pod[n] : Store(n, k)

Spec == Init /\ [][Next]_vars

\* The threads run, and a node's location service goes on announcing its pod.
FairSpec == Spec /\ WF_vars(Worker) /\ WF_vars(Api) /\ WF_vars(Producer)
-----------------------------------------------------------------------------
\* The types; nothing is known of a pod that never was, and every broker that is managed
\* has the address of a pod (broker_state_manager.py:38-71).
TypeOK ==
  /\ subs \subseteq Subscriptions
  /\ pod \in [Nodes -> Nat]
  /\ \A n \in Nodes :
       /\ {channel[n], nodeinfo[n], broker[n].ip, watcher[n].ip} \subseteq 0 .. pod[n]
       /\ n \in managed => broker[n].ip # 0
  /\ api \in {"idle", "committed", "flagged"} /\ producer \in {"idle", "stored", "flagged"}
  /\ pc \in {"wait", "location", "consume", "subscription", "refresh", "watcher", "syncup"}
  /\ keys \cup managed \cup watched \cup located \cup leaked \subseteq Nodes
  /\ {event, locationEvent, subscriptionEvent, watcherEvent, added, updated} \subseteq BOOLEAN

\* The worker does not sleep over work that was flagged, by whichever of the three
\* parties and in whatever order the five events were set and cleared
\* (notification_worker.py:129-156, daemon.py:69-71 of the sidecar).
NoWakeUpIsLost ==
  pc = "wait" /\ ~event =>
    /\ subscriptionEvent => api = "flagged"
    /\ locationEvent => producer = "flagged"
    /\ keys # {} => producer # "idle"
    /\ ~watcherEvent

\* While the broker states do not reflect the subscriptions and nodes in the database,
\* the subscription event is set, or about to be (notification_worker.py:195-225).
NoSubscriptionIsLost ==
  \/ subscriptionEvent \/ api = "committed"
  \/ pc \in {"consume", "refresh"}
  \/ \A n \in Nodes : broker[n].current = Wanted(n)

\* A worker that sleeps has applied every change that it acknowledged: each broker is
\* listened to at the address in its state, for all its resources, and no change is left
\* (broker_state_manager.py:145-228).
AckedIsApplied ==
  pc = "wait" /\ ~watcherEvent =>
    \A n \in managed :
      /\ n \in watched /\ watcher[n].ip = broker[n].ip
      /\ broker[n].subscribed = broker[n].current
      /\ broker[n].subscribed \subseteq watcher[n].listening
      /\ ~broker[n].ipChanged /\ ~broker[n].subscribedChanged

InStep(n) ==
  /\ Wanted(n) # {} =>
       /\ n \in watched /\ watcher[n].ip = pod[n]
       /\ Wanted(n) \subseteq watcher[n].listening
  /\ Wanted(n) = {} => n \notin watched \/ n \in leaked

\* Whenever the worker sleeps with nothing under way to wake it, it is in step with the
\* subscriptions and with every node whose present pod has been heard of
\* (notification_worker.py:129-156 and 314-330).
QuietIsInStep ==
  pc = "wait" /\ ~event /\ api = "idle" /\ producer = "idle" =>
    \A n \in Nodes : channel[n] = pod[n] => InStep(n)

\* In the end the worker listens to every subscribed resource of every node at the node's
\* present address, and has no client for a node without subscriptions, unless one could
\* not be stopped (notification_worker.py:314-330).
EndsInStep ==
  <>[](\A n \in Nodes : InStep(n))

\* What broker_connection_manager.py:211 says: resources that are no longer subscribed
\* are no longer listened to.
UninterestingIsStopped ==
  <>[](\A n \in watched : watcher[n].listening \subseteq Wanted(n))
=============================================================================
