------------------------ MODULE NotificationDelivery ------------------------
(***************************************************************************)
(* From an event of one node to the subscribers of a client sidecar: the   *)
(* tracking service casts a copy of the event to every topic it belongs    *)
(* to, the sidecar receives the topics it listens to, and                  *)
(* NotificationHandler.handle posts each copy to the subscriptions it      *)
(* matches (notification_handler.py).  Every copy is handled by a thread   *)
(* of its own, one at a time under notification_lock, in any order.        *)
(* Beside it, the API process adds and removes subscriptions (ptp.py), and *)
(* the worker notes their initial delivery times and starts listening      *)
(* (notification_worker.py).                                               *)
(*                                                                         *)
(* The time of an event identifies the state it announces.                 *)
(***************************************************************************)
EXTENDS Naturals, FiniteSets

CONSTANTS
  Resources,           \* what the tracking service publishes, each a topic,
  LockState,           \* and one of them also for
  V1,                  \* the topic of API v1;
  All,                 \* "/sync", the topic and path of all resources
  Above,               \* the resources whose paths another one's path begins with
  LastQueried,         \* the last resource in an answer about all of them
  Subscriptions,
  Path,                \* what a subscription is to: a resource, All or V1
  Wildcards,           \* subscriptions whose node is "*"
  MaxEvents,           \* at most this many events,
  MaxChanges,          \* this many requests to add or remove a subscription,
  MaxFailures,         \* this many posts that fail
  MaxRestarts          \* and this many restarts of the sidecar

Topics == Resources \cup {All, V1}

ASSUME DeliveryAssumption ==
  /\ {All, V1} \cap Resources = {} /\ All # V1
  /\ LockState \in Resources /\ LastQueried \in Resources
  /\ Path \in [Subscriptions -> Topics]
  /\ Wildcards \in SUBSET {s \in Subscriptions : Path[s] # V1}
  /\ MaxEvents \in Nat /\ MaxChanges \in Nat /\ MaxFailures \in Nat /\ MaxRestarts \in Nat

ASSUME AboveAssumption == Above \in [Resources -> SUBSET Resources]

VARIABLES
  clock, latest,       \* the time now; the time of each resource's last event
  casts,               \* copies of the last event still to be cast,
  copies,              \* and those that wait to be handled
  subs, initial,       \* subscriptions in the database, InitialDeliveryTimestamp
  dirty,               \* the worker was told to look at the subscriptions
  api,                 \* where the API process is, with its subscription and answer
  stat,                \* notification_stat of the node
  pending,             \* each thread's update of stat that it has decided on
  holder,              \* where the holder of notification_lock is
  copy, todo, entry,   \* its notification_info, entries it has yet to see, the present one
  formatted,           \* whether the time in notification_info is a string by now
  worker, wanted, list,\* where the worker is, the topics and entries it has read
  listening,           \* topics with an RPC server
  told, heard,         \* history: each subscriber's view, and the times it was told
  due,                 \* history: the newest event it has been sent a copy of
  denied,              \* history: subscriptions an event was dropped for
  settled,             \* history: those noted before any copy could arrive
  changes, failures, restarts  \* history: how many there were

events == <<clock, latest, casts>>
client == <<subs, initial, dirty, api, changes>>
handler == <<holder, copy, todo, entry, formatted>>
work == <<worker, wanted, list, listening, settled>>
history == <<told, heard, due, denied, failures>>
vars == <<events, copies, client, stat, pending, handler, work, history, restarts>>

\* Nothing is on its way to a subscriber.
AllHandled == copies = {} /\ holder = "none"

Threads == {"handler", "worker"}
Nothing == [kind |-> "none"]
Idle == [step |-> "idle"]
Never == [r \in Resources |-> 0]
NoTimes == [s \in {} |-> 0]
NoCopy == [topic |-> All, resource |-> LockState, time |-> 0]

\* Resources in the answer to a subscription's initial query.
Queried(s) == IF Path[s] = All THEN Resources
              ELSE {IF Path[s] = V1 THEN LockState ELSE Path[s]}

\* The time in that answer which add_subscription keeps is that of the last item.
Timestamp(s, states) ==
  IF Path[s] = All THEN states[LastQueried]
  ELSE states[IF Path[s] = V1 THEN LockState ELSE Path[s]]

ViewOf(s, states) == [r \in Resources |-> IF r \in Queried(s) THEN states[r] ELSE 0]

\* The database outlives the sidecar; its subscribers know the present states.
Init ==
  /\ clock = 1 /\ latest = [r \in Resources |-> 1]
  /\ casts = {} /\ copies = {}
  /\ subs \in SUBSET Subscriptions
  /\ initial = [s \in Subscriptions |-> 1]
  /\ dirty = TRUE /\ api = Idle
  /\ stat = NoTimes /\ pending = [i \in Threads |-> Nothing]
  /\ holder = "none" /\ copy = NoCopy /\ todo = {} /\ entry = {} /\ formatted = FALSE
  /\ worker = "wait" /\ wanted = {} /\ list = {}
  /\ listening = {} /\ settled = {}
  /\ told = [s \in Subscriptions |-> IF s \in subs THEN ViewOf(s, latest) ELSE Never]
  /\ heard = [s \in Subscriptions |-> IF s \in subs THEN {1} ELSE {}]
  /\ due = [s \in Subscriptions |-> 0] /\ denied = {}
  /\ changes = 0 /\ failures = 0 /\ restarts = 0
-----------------------------------------------------------------------------
(***************************************************************************)
(* The tracking service.                                                   *)
(***************************************************************************)
TopicsOf(r) == {r, All} \cup (IF r = LockState THEN {V1} ELSE {})

\* An event matches a subscription to a prefix of its path; any v1 subscription is taken
\* to match events of API v2 as well, as those to a node.
Matches(s, r) == Path[s] \in {r, All, V1} \cup Above[r]

\* A new event: queries are answered with it from now on.
Publish(r) ==
  /\ casts = {} /\ clock <= MaxEvents /\ clock' = clock + 1
  /\ latest' = [latest EXCEPT ![r] = clock']
  /\ casts' = [topic : TopicsOf(r), resource : {r}, time : {clock'}]
  /\ UNCHANGED <<copies, client, stat, pending, handler, work, history, restarts>>

\* The loop casts one copy after another, that of API v1 first and that of all resources
\* last; those to topics nobody listens to at that moment are lost.
Cast(c) ==
  /\ casts' = casts \ {c}
  /\ c.topic = All => casts' = {}
  /\ c.topic # V1 => \A d \in casts : d.topic # V1
  /\ copies' = IF c.topic \in listening THEN copies \cup {c} ELSE copies
  /\ due' = [s \in Subscriptions |->
               IF s \in subs /\ Path[s] = c.topic /\ c.topic \in listening
               THEN c.time ELSE due[s]]
  /\ UNCHANGED <<clock, latest, client, stat, pending, handler, work, told, heard, denied,
                 failures, restarts>>
-----------------------------------------------------------------------------
(***************************************************************************)
(* update_delivery_timestamp: the threads of the handler call it under the *)
(* lock, the worker without.  A thread first decides on the statement to   *)
(* execute and then executes it.                                           *)
(***************************************************************************)
Decide(i, s, t) ==
  pending' = [pending EXCEPT ![i] =
    IF DOMAIN stat = {} THEN [kind |-> "node", sub |-> s, time |-> t]
    ELSE IF s \notin DOMAIN stat THEN [kind |-> "entry", sub |-> s, time |-> t]
    ELSE IF stat[s] < t THEN [kind |-> "newer", sub |-> s, time |-> t]
    ELSE Nothing]

\* Whether an update writes into a dictionary that another one has replaced.
Orphaned(p, by) ==
  p.kind = "newer" /\ (by.kind = "node" \/ (by.kind = "entry" /\ by.sub = p.sub))

Update(i) ==
  LET p == pending[i] IN
  /\ p # Nothing
  /\ stat' = IF p.kind = "node" THEN [s \in {p.sub} |-> p.time]
             ELSE IF p.kind = "lost" THEN stat
             ELSE [s \in DOMAIN stat \cup {p.sub} |-> IF s = p.sub THEN p.time ELSE stat[s]]
  /\ pending' = [j \in Threads |->
                   IF j = i THEN Nothing
                   ELSE IF Orphaned(pending[j], p) THEN [pending[j] EXCEPT !.kind = "lost"]
                   ELSE pending[j]]
-----------------------------------------------------------------------------
(***************************************************************************)
(* NotificationHandler.handle.                                             *)
(***************************************************************************)
Reaches(c, s) == IF c.topic = V1 THEN Path[s] = V1 ELSE Matches(s, c.resource)

Take(c) ==
  /\ holder = "none" /\ holder' = "entries"
  /\ c \in copies /\ copies' = copies \ {c}
  /\ copy' = c /\ todo' = {s \in subs : Reaches(c, s)}
  /\ UNCHANGED <<events, client, stat, pending, entry, formatted, work, history, restarts>>

\* The loop comes to entry s, after any update for the one before.
At(s) == holder = "entries" /\ s \in todo /\ pending["handler"] = Nothing

\* Mutant of Outdated: delivery times are kept per node.
OutdatedForNode(s, t) == \E u \in DOMAIN stat : stat[u] >= t

\* Mutant of Outdated: only a repeated event is skipped.
OutdatedIfEqual(s, t) == s \in DOMAIN stat /\ stat[s] = t

Outdated(s, t) == s \in DOMAIN stat /\ stat[s] >= t

Skip(s) ==
  /\ At(s) /\ Outdated(s, copy.time)
  /\ todo' = todo \ {s}
  /\ UNCHANGED <<events, copies, client, stat, pending, holder, copy, entry, formatted,
                 work, history, restarts>>

\* __format_timestamps changes the notification in place, and raises if it did so before.
\* It looks for a "time", which a notification of API v1 does not have.
CanFormat == ~formatted /\ copy.topic # V1

\* Mutant of Drop: the exception ends the loop, but the lock is not released.
DropKeepsLock(s) ==
  /\ At(s) /\ ~Outdated(s, copy.time) /\ ~CanFormat
  /\ todo' = {} /\ holder' = "told"
  /\ denied' = denied \cup {s}
  /\ UNCHANGED <<events, copies, client, stat, pending, copy, entry, formatted, work, told,
                 heard, due, failures, restarts>>

Drop(s) ==
  /\ At(s) /\ ~Outdated(s, copy.time) /\ ~CanFormat
  /\ todo' = todo \ {s}
  /\ denied' = denied \cup {s}
  /\ UNCHANGED <<events, copies, client, stat, pending, holder, copy, entry, formatted,
                 work, told, heard, due, failures, restarts>>

Hears(s) ==
  /\ told' = [told EXCEPT ![s][copy.resource] = copy.time]
  /\ heard' = [heard EXCEPT ![s] = @ \cup {copy.time}]

Notify(s) ==
  /\ At(s) /\ ~Outdated(s, copy.time) /\ CanFormat
  /\ formatted' = TRUE /\ todo' = todo \ {s}
  /\ holder' = "told" /\ entry' = {s}
  /\ Hears(s)
  /\ UNCHANGED <<events, copies, client, stat, pending, copy, work, due, denied, failures,
                 restarts>>

\* Mutant of NotifyFails: the event counts as delivered all the same.
NotifyFailsUnnoticed(s) ==
  /\ At(s) /\ ~Outdated(s, copy.time) /\ CanFormat
  /\ formatted' = TRUE /\ todo' = todo \ {s}
  /\ holder' = "told" /\ entry' = {s}
  /\ failures < MaxFailures /\ failures' = failures + 1
  /\ denied' = denied \cup {s}
  /\ Hears(s) \/ UNCHANGED <<told, heard>>
  /\ UNCHANGED <<events, copies, client, stat, pending, copy, work, due, restarts>>

\* No answer after the last try, or an error: the entry is given up, although the
\* subscriber may have received it.
NotifyFails(s) ==
  /\ At(s) /\ ~Outdated(s, copy.time) /\ CanFormat
  /\ formatted' = TRUE /\ todo' = todo \ {s}
  /\ failures < MaxFailures /\ failures' = failures + 1
  /\ denied' = denied \cup {s}
  /\ Hears(s) \/ UNCHANGED <<told, heard>>
  /\ UNCHANGED <<events, copies, client, stat, pending, holder, copy, entry, work, due,
                 restarts>>

DecideOnTold ==
  /\ holder = "told" /\ holder' = "entries"
  /\ \E s \in entry : Decide("handler", s, copy.time)
  /\ entry' = {}
  /\ UNCHANGED <<events, copies, client, stat, copy, todo, formatted, work, history,
                 restarts>>

UpdateTold ==
  /\ Update("handler")
  /\ UNCHANGED <<events, copies, client, handler, work, history, restarts>>

\* Mutant of Release: the next copy is the object that was formatted.
ReleaseFormatted ==
  /\ holder = "entries" /\ todo = {} /\ pending["handler"] = Nothing
  /\ holder' = "none" /\ copy' = NoCopy
  /\ UNCHANGED <<events, copies, client, stat, pending, todo, entry, formatted, work,
                 history, restarts>>

Release ==
  /\ holder = "entries" /\ todo = {} /\ pending["handler"] = Nothing
  /\ holder' = "none" /\ copy' = NoCopy /\ formatted' = FALSE
  /\ UNCHANGED <<events, copies, client, stat, pending, todo, entry, work, history,
                 restarts>>
-----------------------------------------------------------------------------
(***************************************************************************)
(* The API process.                                                        *)
(***************************************************************************)

\* A new subscription, whose identifier was never used before.
Query(s) ==
  /\ api = Idle
  /\ changes < MaxChanges /\ changes' = changes + 1
  /\ s \notin subs /\ heard[s] = {}
  /\ api' = [step |-> "asked", sub |-> s, states |-> latest]
  /\ UNCHANGED <<events, copies, subs, initial, dirty, stat, pending, handler, work,
                 history, restarts>>

\* The initial notification, ...
NotifyInitially(s) ==
  /\ api.step = "asked" /\ api.sub = s
  /\ told' = [told EXCEPT ![s] = ViewOf(s, api.states)]
  /\ heard' = [heard EXCEPT ![s] = @ \cup {api.states[r] : r \in Queried(s)}]
  /\ api' = [step |-> "posted", sub |-> s, states |-> api.states]
  /\ UNCHANGED <<events, copies, subs, initial, dirty, changes, stat, pending, handler,
                 work, due, denied, failures, restarts>>

\* ... and then the commit.
Accept(s) ==
  /\ api.step = "posted" /\ api.sub = s
  /\ subs' = subs \cup {s}
  /\ initial' = [initial EXCEPT ![s] = Timestamp(s, api.states)]
  /\ api' = [step |-> "saved"]
  /\ UNCHANGED <<events, copies, dirty, changes, stat, pending, handler, work, history,
                 restarts>>

\* Either fails, and so does the request.
Refuse ==
  /\ api.step \in {"asked", "posted"} /\ api' = Idle
  /\ failures < MaxFailures /\ failures' = failures + 1
  /\ UNCHANGED <<events, copies, subs, initial, dirty, changes, stat, pending, handler,
                 work, told, heard, due, denied, restarts>>

Remove(s) ==
  /\ api = Idle /\ s \in subs
  /\ changes < MaxChanges /\ changes' = changes + 1
  /\ subs' = subs \ {s}
  /\ api' = [step |-> "saved"]
  /\ UNCHANGED <<events, copies, initial, dirty, stat, pending, handler, work, history,
                 restarts>>

WakeWorker ==
  /\ api.step = "saved" /\ api' = Idle
  /\ dirty' = TRUE
  /\ UNCHANGED <<events, copies, subs, initial, changes, stat, pending, handler, work,
                 history, restarts>>
-----------------------------------------------------------------------------
(***************************************************************************)
(* The worker: __update_broker_with_subscription reads the subscriptions   *)
(* twice, and the connection manager then starts new listeners.            *)
(***************************************************************************)
ReadTopics ==
  /\ worker = "wait" /\ worker' = "topics"
  /\ dirty /\ dirty' = FALSE
  /\ wanted' = {Path[s] : s \in subs}
  /\ UNCHANGED <<events, copies, subs, initial, api, changes, stat, pending, handler, list,
                 listening, settled, history, restarts>>

\* Delivery times of wildcards are kept under the name "*", where nobody looks for them.
ReadEntries ==
  /\ worker = "topics" /\ worker' = "list"
  /\ list' = subs \ Wildcards
  /\ UNCHANGED <<events, copies, client, stat, pending, handler, wanted, listening, settled,
                 history, restarts>>

DecideOnInitial(s) ==
  /\ worker = "list" /\ s \in list /\ pending["worker"] = Nothing
  /\ Decide("worker", s, initial[s])
  /\ list' = list \ {s}
  /\ settled' = IF listening = {} /\ AllHandled THEN settled \cup {s} ELSE settled
  /\ UNCHANGED <<events, copies, client, stat, handler, worker, wanted, listening, history,
                 restarts>>

UpdateInitial ==
  /\ Update("worker")
  /\ UNCHANGED <<events, copies, client, handler, work, history, restarts>>

\* Topics nobody subscribes to any longer go on being listened to, unless there are no
\* subscriptions at all: then copies that were not taken up are lost.
Listen ==
  /\ worker = "list" /\ list = {} /\ pending["worker"] = Nothing
  /\ worker' = "wait" /\ wanted' = {}
  /\ IF wanted = {}
     THEN /\ listening' = {} /\ copies' \in SUBSET copies
          /\ due' = [s \in Subscriptions |-> 0]
     ELSE /\ listening' = listening \cup wanted
          /\ UNCHANGED <<copies, due>>
  /\ UNCHANGED <<events, client, stat, pending, handler, list, settled, told, heard,
                 denied, failures, restarts>>
-----------------------------------------------------------------------------
\* The sidecar's container crashes and starts anew; only the database is left, and the
\* broker drops what was queued.
Restart ==
  /\ restarts < MaxRestarts /\ restarts' = restarts + 1
  /\ copies' = {} /\ stat' = NoTimes /\ pending' = [i \in Threads |-> Nothing]
  /\ holder' = "none" /\ copy' = NoCopy /\ todo' = {} /\ entry' = {} /\ formatted' = FALSE
  /\ api' = Idle /\ dirty' = TRUE
  /\ worker' = "wait" /\ wanted' = {} /\ list' = {} /\ listening' = {} /\ settled' = {}
  /\ due' = [s \in Subscriptions |-> 0]
  /\ UNCHANGED <<events, subs, initial, changes, told, heard, denied, failures>>

Handle ==
  \/ \E c \in copies : Take(c)
  \/ \E s \in todo : Skip(s) \/ Drop(s) \/ Notify(s) \/ NotifyFails(s)
  \/ DecideOnTold \/ UpdateTold \/ Release

Work ==
  \/ ReadTopics \/ ReadEntries
  \/ \E s \in list : DecideOnInitial(s)
  \/ UpdateInitial \/ Listen

Serve ==
  \/ \E s \in Subscriptions : Query(s) \/ NotifyInitially(s) \/ Accept(s) \/ Remove(s)
  \/ Refuse \/ WakeWorker

Casting == \E c \in casts : Cast(c)

Next ==
  \/ \E r \in Resources : Publish(r)
  \/ Casting \/ Handle \/ Serve \/ Work \/ Restart

\* Every copy is cast and handled, and the worker runs; nothing makes events or
\* subscriptions.
Spec ==
  /\ Init /\ [][Next]_vars
  /\ WF_vars(Casting) /\ WF_vars(Handle) /\ WF_vars(Work) /\ WF_vars(WakeWorker)
-----------------------------------------------------------------------------
Times == 0 .. MaxEvents + 1
Copies == [topic : Topics, resource : Resources, time : Times]
Updates == [kind : {"node", "entry", "newer", "lost"}, sub : Subscriptions, time : Times]

\* The handler sees to entries only with the lock held, and forgets with it that the
\* notification was formatted; delivery times are of subscriptions
\* (notification_handler.py:45-144).
TypeOK ==
  /\ clock \in Times /\ latest \in [Resources -> Times]
  /\ casts \subseteq Copies /\ copies \subseteq Copies
  /\ {subs, todo, list, denied, settled} \subseteq SUBSET Subscriptions
  /\ initial \in [Subscriptions -> Times]
  /\ dirty \in BOOLEAN
  /\ \/ api \in [step : {"idle", "saved"}]
     \/ api \in [step : {"asked", "posted"}, sub : Subscriptions, states : [Resources -> Times]]
  /\ DOMAIN stat \subseteq Subscriptions /\ stat \in [DOMAIN stat -> Times]
  /\ pending \in [Threads -> {Nothing} \cup Updates]
  /\ holder \in {"none", "entries", "told"} /\ copy \in Copies
  /\ formatted \in BOOLEAN
  /\ holder = "none" => todo = {} /\ ~formatted
  /\ IF holder = "told" THEN \E s \in Subscriptions : entry = {s} ELSE entry = {}
  /\ worker \in {"wait", "topics", "list"}
  /\ {wanted, listening} \subseteq SUBSET Topics
  /\ told \in [Subscriptions -> [Resources -> Times]]
  /\ heard \in [Subscriptions -> SUBSET Times] /\ due \in [Subscriptions -> Times]
  /\ changes \in 0 .. MaxChanges /\ failures \in 0 .. MaxFailures
  /\ restarts \in 0 .. MaxRestarts

\* What counts as delivered to a subscription was posted to it; a post that failed or timed
\* out does not count, however often it is repeated (notification_handler.py:121-127).
DeliveredWasTold == \A s \in DOMAIN stat : stat[s] \in heard[s]

HeardSince(s, t) == \E u \in heard[s] : t <= u

\* Once all is handled, a subscriber has been told of the newest event it was sent, or of
\* a newer one, unless an event was dropped for it (notification_handler.py:93-135).
ToldUnlessDenied == AllHandled => \A s \in subs \ denied : HeardSince(s, due[s])

\* What "proceed to next entry" (notification_handler.py:132) is for: that one subscriber
\* has been told of an event keeps nobody from being told.
AllAreTold == AllHandled /\ failures = 0 => \A s \in subs : HeardSince(s, due[s])

\* A subscriber whose delivery time was noted before any copy could arrive is never
\* told of an older state of a resource than the one it knows, in whatever order copies
\* are handled, unless an event was dropped for it: a post that timed out may have arrived
\* but does not count (notification_handler.py:114-120).
NoStepBack ==
  [][\A s \in settled \ denied : \A r \in Resources : told[s][r] <= told'[s][r]]_vars

\* In the end it is so for good: no copy waits for ever.
EndsTold == <>[](AllHandled /\ ToldUnlessDenied)
=============================================================================
