# Verification of ptp-notification

TLA+ models of the PTP notification application of StarlingX, checked with TLC
and proved with TLAPS. Paths are relative to the repository; these prefixes are
used throughout:

| prefix | directory |
| --- | --- |
| `T/` | `notificationservice-base-v2/ptptrackingfunction/trackingfunctionsdk/` |
| `C/` | `notificationclient-base/docker/notificationclient-sidecar/notificationclientsdk/` |
| `L/` | `locationservice-base/docker/locationservice/locationservicesdk/` |
| `R/` | `resources/scripts/init/` of the Helm chart |

`PROJECT.json` lists the components, the runs, the mutants, the lines of source
behind every definition, the findings, the hazards and the theorems.

## 1. The system

Every node of a cluster runs a *notificationservice* pod: RabbitMQ, the
**tracking service** (`T/`), which watches the node's clocks, and the **location
service** (`L/`), which announces the pod's address. An application that wants to
know about the clocks carries the **client sidecar** (`C/`) in its pod: an API
process that takes subscriptions and answers pulls, and a worker process that
listens to the brokers of the nodes and posts events to the subscribers.

```
 ptp4l ts2phc phc2sys synce                   registration broker
   |  pmc, files, netlink                       ^           |  announcements
   v                                            |           v
 monitors --> daemon loop --> event producer --> node's broker --> worker --> POST to
   holdover    overall state      (cast)                           ^        subscribers
   rule        contexts <-- RPC workers <-- pull queries           |
 config watcher --> reload                               API: subscriptions (SQLite)
```

### Components, their state, what is hard, what must hold

| component | state and operations | hard | must hold | module |
| --- | --- | --- | --- | --- |
| PTP monitor, `T/common/helpers/ptp_monitor.py`, `ptpsync.py` | one object per ptp4l instance: sync state and its event time, source, clock class, retry counter; polled by `ptp_status` and `ptp_clock_class` | pmc fails, answers in part or not at all; results of an earlier poll stay | a locked instance has a source; holdover starts at lost lock and ends; the class is given up after three retries | `PtpPoll`, `PtpMonitor` |
| GNSS monitor, CGU reader | verdict from ts2phc's pid file and the lock states of EEC and PPS DPLLs; the holdover rule is in the daemon | a stale process, a DPLL in holdover itself | holdover rule | `GnssMonitor` |
| OS clock monitor | source interface and device, offset; HA selection by phc2sys | the source changes while running, or disappears | device is that of the selected interface, or none | `OsClockMonitor` |
| SyncE monitor | state, time holdover began | a failing read in between | holdover is timed | `SynceMonitor` |
| configuration parser | holdover times from configuration files, environment, defaults | precedence | each monitor has the time that is meant for it | `HoldoverTimes` |
| daemon loop, `T/services/daemon.py` | a context per instance and for the overall state; one iteration polls all, derives the overall state, publishes what changed or, when forced, everything | iterations see different presents of different monitors; restart and reload forget contexts | clients are told what is; the overall state is backed by the chain | `SyncChain` |
| daemon threads | five contexts with a lock each, `forced_publishing`, an event, `reload_requested`; the RPC workers' `query_status` and `trigger_delivery` | writes in several statements, casts under a lock, exceptions under a lock | no torn or old answer, no lock left behind, queries end | `PtpWatcher` |
| event producer, RPC base, `T/client/` | servers with a refresher thread; casts with retries | brokers out of reach | as above | `PtpWatcher`, `SyncChain` |
| configuration watcher and start script, `T/services/config_watcher.py`, `R/ptptracking_start_v2.py` | debounce timer; the daemon of the moment; the loop that builds a new one | a timer that expired cannot be cancelled; a change while the daemon is rebuilt | no change lost, one reload per burst | `ConfigReload` |
| notification worker, `C/services/notification_worker.py`, `broker_state_manager.py`, `C/model/dto/broker_state.py` | five events, queue and cache of locations, tables of nodes and subscriptions, a state with change flags per broker | three parties set events, the loop clears them; late and repeated announcements; failing calls; retries | no wake-up lost; only what was applied is acknowledged; in the end it listens where it should | `BrokerSync` |
| broker connection manager and client base, `C/services/broker_connection_manager.py`, `C/client/` | a client per broker, listener contexts, a refresher thread that starts and stops RPC servers | starting a server may block under the lock; cleanup ends the refresher | listeners follow the broker states; no request or failure is slept over; calls return | `BrokerSync` (which client listens to what), `ListenerClient` (how one client does) |
| notification handler, `C/services/notification_handler.py`, `subscription_helper.py` | delivery time per node and subscription, a lock; posts with retries | copies of an event on two topics, the worker writes delivery times without the lock, formatting in place | each subscriber gets the newest event, and none that is older than what it knows | `NotificationDelivery` |
| sidecar API, `C/services/ptp.py`, `sidecar/controllers` | subscriptions, initial notification, pull | commit after the query and the initial notification, beside the worker and events | a subscription's initial time is that of what it was told | `BrokerSync` (the worker is woken), `NotificationDelivery` (query, initial notification, commit) |
| location service, `L/services/daemon.py` | announcement interval that doubles; answers queries | lost announcements | a restarted node is found again | `BrokerSync` (as the announcing node) |

Not modelled: the health endpoint (no state), the v1 start script (its tracking
code is not in the repository), the Helm chart and the k8s application plugin
(descriptions, no behaviour over time), the wording of notifications and SQLAlchemy; the
simulated PTP device (`T/services/daemon.py:983-996`), whose state goes round without regard
to the poll; and the closing of connections (`C/client/base.py:46-49`), which is the transport's. Of
the sidecar API, pulls and the search for subscriptions that a new one duplicates are
left out: they change no state, and a duplicate is refused before anything happens.

## 2. Modules

| module | what it is |
| --- | --- |
| `SyncStates` | the states, and **the holdover rule** that all clocks share: what follows from state, age and verdict |
| `Holdover` | abstract specification: what a clock promises about LOCKED, HOLDOVER and FREERUN |
| `PtpPoll` | one poll of one ptp4l instance as a function of the monitor object and pmc's answer |
| `PtpMonitor` | one instance over time; refines `Holdover` |
| `GnssMonitor`, `OsClockMonitor`, `SynceMonitor`, `HoldoverTimes` | the other monitors' polls, and which holdover time each clock has |
| `SyncChain` | the loop over all of them, the overall state, and what clients are told |
| `PullService` | abstract specification: what a pull of the lock state promises, in one atomic step |
| `PtpWatcher` | the same loop at the grain of statements, against RPC workers, triggers and reload; refines `PullService` |
| `ConfigReload` | file changes, timers, callbacks and the script that rebuilds the daemon |
| `BrokerSync` | the sidecar's worker |
| `ListenerClient` | one client of a broker: listener contexts, the refresher, cleanup |
| `NotificationDelivery` | from an event of a node to its subscribers: copies, handler, API and worker |
| `MC*` | the constants of the runs |
| `PtpMonitorProofs`, `SyncChainProofs`, `PtpWatcherProofs`, `ConfigReloadProofs`, `BrokerSyncProofs`, `ListenerClientProofs`, `NotificationDeliveryProofs`, `NotificationOrderProofs` | theorems and their proofs |

`SyncChain` instantiates `PtpPoll` once per holdover time and extends the other
monitors; `PtpMonitor` extends `PtpPoll`: the function that is proved about on its
own is the one that the chain composes. `PtpWatcher` looks at one instance only and
has lock states numbered by the event that brought them, so that a torn or an
outdated answer shows.

The sidecar is cut at what its parts share. `BrokerSync` takes a listener that was asked
for as listening; `ListenerClient` shows that the client gets there
(`EndsAsAsked`), whatever fails in between, and what else it may listen to. In
`NotificationDelivery` the topics that are listened to are a variable that the worker
sets, which is what the two modules before establish; it has the worker's notes of
initial delivery times, which they leave out.

Abstractions shared by all modules:

* **Time** is counted in half-seconds since the event of a clock (`age`), because
  Python's `round` takes halves to the even second; ages stop at `MaxAge`, beyond
  which no comparison changes. Wall-clock steps are not modelled.
* **Values**: offsets are within or beyond tolerance, an identity is local, remote or
  absent, a class is one of those that the code tells apart.
* **Addresses** in `BrokerSync` are the number of the pod, which is also the time
  stamp of its announcements: the code compares nothing else of either.
* **Times of events** in `NotificationDelivery` come from one clock, so that the time of an
  event says which state it announces. A subscription's view is the time of the last
  state it was told, per resource.
* **Copies** of an event are a set from which any may be handled next: each topic has its
  own RPC server with threads of its own, and the lock is not fair.
* **Formatting** in `NotificationDelivery` is the flag `formatted`: it replaces the time in
  the object that the loop goes on with, and fails where it finds it replaced.
* **Unreachable code** is left out where the reason is local: `BrokerState`'s flags of
  connection and resources only ever change together with the address, which is
  looked at first, so the data sync-up behind them is never signalled.

A step is one critical section or one statement on shared state. In `SyncChain` it
is the polling of all instances of a kind, as nothing else changes its variables; in
`PtpWatcher` the statements between two accesses to shared variables; in
`BrokerSync` the API's commit and its two `set` calls, the producer's three
statements and the worker's tests of its events are steps of their own; in
`ListenerClient` each wait, clear and test of the refresher's event, the lock, and each
server that is started or stopped; in `NotificationDelivery` each entry of the handler's
loop, and an update of the delivery times is two steps (deciding which statement to
execute, executing it), as the worker does it without the lock. There the tracking service
casts one copy of an event per step, the topic of API v1 first and that of all resources
last, and adding a subscription is a query, the initial notification and the commit.

In `BrokerSync` a sync-up over all brokers is one step: all that it reads and writes is the
worker's own, except a node's address, which it is told as of that step, and the common
event, which it only sets. Its parameters are what it meets: which location listeners
have started by then (`running`: others are asked for their location once more, and are
not removed with their broker), whose location cannot be had (`lost`: the client is gone by
then) and whose client cannot be cleaned up (`stuck`: it stays in the list of clients).

When nothing is subscribed to any more, `Listen` stops all servers, and queued copies that
were not taken up may be lost with them (`C/services/broker_connection_manager.py:144-165`).
`OsVerdict` judges an offset that counts as 0 without a device or a readable one; that is
outside the tolerance unless the UTC offset is 0 (`T/common/helpers/os_clock_monitor.py:217-285`),
and the run has readings of both kinds.

## 3. Runs

| run | checks | bounds, and why they are enough |
| --- | --- | --- |
| `ptp_monitor` | type, `LockedHasSource`, `RetryBudget`, `ClassGivenUpAfterRetries`, refinement of `Holdover`, `HoldoverEnds` | holdover of one second (two ticks), ages to six: both sides of the rounding of each comparison. Eleven answers of pmc, one per reason for a verdict, plus partial and missing ones |
| `ptp_monitor_traceable` | finding 1 | as above |
| `sync_chain` | type, `ToldIsCurrent`, `OverallIsBacked`, `OverallEndsWithOs`, `HoldoverIsTimed`, `ClocksKeepPromise`, `OverallSettles` | two devices, one listed by a ts2phc and a ptp4l instance, one by none; HA on. All ways the source of the OS clock can be found or missing. Holdover times differ, two delays, shorter and longer than them |
| `sync_chain_minimum` | finding 2 | an OS clock that coasts longer than the ptp4l instance |
| `ptp_watcher` | `LockIsGivenBack` (with the types), `AnswerIsOfOneEvent`, `AnswerIsNotOlder`, refinement of `PullService`, `PullIsAnswered`, `ReloadStops` | two RPC workers (two readers, or a reader and a trigger, and the loop), one change of the lock state, one outage |
| `ptp_watcher_no_class` | finding 3 | one worker, no class at start |
| `config_reload` | `NoChangeIsLost`, `ReloadsHaveCause`, `BurstIsOneReload`, `EndsUpToDate` | three changes: one read at build time, one whose timer expired before the next one cancels it, one more while its callback is on its way. One crash |
| `broker_sync` | type, `NoWakeUpIsLost`, `NoSubscriptionIsLost`, `AckedIsApplied`, `QuietIsInStep`, `EndsInStep` | two nodes, so that one fails while the other succeeds; a node that restarts, so that announcements overtake; a wildcard and a named subscription with different resources, any of which is there at start; two changes (add, remove, or both); a failing call |
| `broker_sync_unsubscribed` | finding 4 | as above, without failures |
| `notification_delivery` | type, `DeliveredWasTold`, `ToldUnlessDenied`, `NoStepBack`, `EndsTold` | two resources, one of whose paths begins with the other's; a named subscription to one and a wildcard to all, so that copies of one event reach a subscriber on two topics and one copy reaches two subscribers; two events, so that they overtake one another; one change of the subscriptions, one failing post, one restart of the sidecar. Copies for API v1 are cast, but no subscription is to that topic: the path of a v1 subscription is covered by the theorems only |
| `delivery_second` | finding 5 | two named subscriptions to one resource, no failures |
| `listener_client` | type, `NothingIsSleptOver`, `NothingStartsAfterCleanup`, `EndsAsAsked`, `CallsReturn`, `CleanupEnds` | two listeners, so that one fails while the other succeeds; four calls (add, remove, add again, clean up); one failing start or stop, one outage during which a start blocks |

Every property of a passing run has a mutant, a change of a mapped definition that a
plausible bug would make, under which the run finds it violated. Deadlock is not
checked: every system here may come to rest (a process that exited, a dead loop after
an outage, no more changes within the bounds).

What the main properties say:

* `OverallIsBacked`: clients who are told that the node is synchronised were also
  told so of the OS clock and of a clock of its *present* source device. They are
  derived in different steps, and an HA switch may come between.
* `OverallEndsWithOs`: the overall state does not outlive the OS clock, although
  their holdover times are taken from different places at different times.
* `ClocksKeepPromise`: each ptp4l instance, ts2phc instance, the OS clock and the overall
  state step as `Holdover` allows, with the holdover time that each has at that moment, also
  where an answer of pmc is incomplete and an earlier verdict stands. SyncE is left out on
  purpose: its monitor goes from LOCKED to FREERUN at once when the DPLL is unlocked.
* `HoldoverIsTimed`: who is in HOLDOVER when an iteration ends has just begun or has
  holdover time left, although the overall state's time changes with the device; a SyncE
  instance in it knows since when. It is what makes `OverallSettles` true. For ptp4l and
  SyncE no more is claimed, as a read that fails leaves HOLDOVER standing, however old.
* `OverallSettles`: whatever came before, a broken chain ends in FREERUN, a working
  one in LOCKED, and clients know.
* `AnswerIsNotOlder`: who was notified and then pulls is not answered with an older state.
* `ImplementsPullService`: pulls are linearizable. Two reads and two writes under a lock,
  several workers and a loop that publishes with the lock held look to clients like a
  service that answers each pull in one step, between its question and its answer, with
  the state and the time that hold at that step, and with nobody notified of anything newer
  before. The step is the reading of the time (`ReadTime`).
* `NoChangeIsLost`: between a change and the reload that reads it there is always
  somebody who will cause it: a timer, a callback, the flag, or a build still to
  read the directory.
* `NoWakeUpIsLost`: when the worker sleeps with its event clear, everything flagged
  belongs to somebody who is about to set the event.
* `AckedIsApplied`: a sleeping worker without pending sync-up listens to each broker
  at the address and for the resources in the broker's state.
* `QuietIsInStep`: whenever the worker sleeps with its event clear and neither API nor
  producer is about to set it, every node whose present pod was announced is listened to
  at its present address for all that is subscribed, and nodes without subscriptions are
  not, except clients that could not be stopped (`leaked`). It says what `EndsInStep`
  reaches, and that being out of step always means that somebody is at work on it.
* `EndsInStep`: when subscriptions and pods stop changing, the worker ends up
  listening to every subscribed resource of every node at its present address.
* `NothingIsSleptOver`: a refresher that waits has servers for exactly the listeners that
  are active, unless the caller is about to wake it. It clears the event before it looks
  at the contexts and remembers failures itself; either order the other way loses some.
  If the calling thread is at rest too, the client listens to what was asked (`AsAsked`).
* `EndsAsAsked`: the client ends up listening to what was asked of it. Listeners whose
  removal was asked for before their server had started are exempt by name (`ignored`):
  `__stop_watching_broker_resource` skips a listener that is not listening yet.
* `NothingStartsAfterCleanup`, `CleanupEnds`: whatever the refresher is at when the client
  is cleaned up, it starts no server any more, and it ends.
* `CallsReturn`: a start that blocks with the lock held delays every caller, but not for
  ever, once the broker is back.
* `DeliveredWasTold`: what counts as delivered was posted to that subscriber: a post that
  fails or times out counts only once a retry got through. That the handler and the worker
  overwrite one another's delivery times, or write into a dictionary that the other has
  replaced, cannot break it, as each of them writes times that were told; what such a lost
  update could do is let an older copy through, which is what `NoStepBack` excludes.
* `ToldUnlessDenied`, `EndsTold`: when all copies are handled, and they will be, a
  subscriber was told of the newest event that was sent to it, or of a newer one. Those
  for whom an event was dropped are exempt (`denied`): a post failed, or the notification
  could not be formatted any more (finding 5).
* `NoStepBack`: no subscriber is told of an older state of a resource than it knows. It
  holds for those whose initial time the worker noted before any copy could arrive, with
  nothing listened to and nothing under way (`settled`), and not for the others: a copy
  handled before that has nothing to be compared with. For a wildcard the time is noted under the name `*`, where nobody looks,
  so that none is ever settled. Those in `denied` are exempt, as a post that timed out may
  have arrived without being counted.

### Fairness

* `PtpMonitor`, `SyncChain`: the loop waits two seconds at most between iterations
  and has no other blocking call than pmc, which is limited in time: weak fairness of
  polling and of time.
* `PtpWatcher`: strong fairness of the loop and of each RPC worker, because
  `threading.Lock` and the brokers are shared and the code relies on every thread
  getting the lock in the end; weak fairness of the brokers coming back.
* `ConfigReload`: weak fairness of the script, of time and of each callback (a timer
  thread, once started, runs). Nothing makes the files change or the container crash.
* `BrokerSync`: weak fairness of the worker, of the API call under way and of the
  producer, whose fairness stands for the location service announcing its pod again
  and again (`L/services/daemon.py:63-78`). That a call fails is bounded by
  `MaxFailures`: the code tries again without limit, and the property asks what
  happens once brokers answer.
* `ListenerClient`: weak fairness of the refresher and of the calling thread, which are
  plain loops, and of the broker coming back; nobody has to call.
* `NotificationDelivery`: weak fairness of casting (the loop goes on after each copy, whether
  or not anybody listens), of handling (a copy that was received is handled;
  which one is open), of the worker, and of the API process waking it after a commit.
  Nothing makes events, subscriptions, failures or restarts happen.

## 4. Proofs

`PtpMonitorProofs`, for every holdover time, every bound on ages beyond twice it,
every list of locked classes and every set of answers of pmc:

* `TypeCorrect`, the type invariant. `VerdictFacts` and `PolledFields` give what one
  poll returns, field by field; the invariant is inductive as it stands.
* `LockedHasSourceHolds`. The answer of a poll may be incomplete, in which case the
  verdict of an earlier one is used: the proof goes through what `Verdict` keeps.
* `RetryBudgetHolds`, which relates the retry counter to a history of polls without
  class; `ClassGivenUpAfterRetriesHolds` follows from it for each step.
* `ImplementsHoldoverHolds`: initial states map to initial states, and every poll to
  one of Lock, Coast, Expire, Settle or a stutter, every tick to Age.

`SyncChainProofs`, for all devices, lists of instances, holdover times from any of their
sources, and whatever the polls find:

* `TypeCorrect`. The polls are functions of what they find; `First`, which looks an
  instance up in a list, returns a member of it or none.
* `HoldoverIsTimedHolds`, from what a SyncE poll does in each state (`SynceTimed`) and from
  `TimedSoFar`: a clock has holdover time left from its poll to the end of the iteration,
  the overall state by the chain as it was derived from.
* `ToldIsCurrentHolds`, from `ToldSoFar`, which goes through an iteration: of each kind of
  clock clients know the present state once it has been polled, and before that unless
  everything is still to be told, as after a restart.
* `OverallIsBackedHolds`, from `ToldSoFar` and `OverallFollows`: an overall state that is
  LOCKED at the end of an iteration was derived in it from a chain that is.
* `OverallEndsWithOsHolds`, from `EndsBefore`: while both coast, the overall state has
  done so for at least as long as the OS clock, and once the OS clock gave up the overall
  age is beyond the OS clock's holdover time. `Rounded` is monotone, which carries this
  over Python's rounding.
* `ClocksKeepPromiseHolds`: the holdover rule steps as `Holdover` does for any verdict, and
  every poll is an instance of the rule. For ptp4l instances `PolledPtp` says so of all that
  `Polled` does to the object, and that the one verdict which is neither LOCKED nor FREERUN,
  an incomplete answer, leaves state and age alone.

`PtpWatcherProofs`, for any number of RPC workers, events and outages:

* `AnswerIsOfOneEventHolds` and `AnswerIsNotOlderHolds`, from `Excluded` (who is between
  the lock and its release holds it), `Written` (state and time in the context are of one
  event but between the loop's two writes; clients know nothing newer) and `Read` (what a
  worker has read so far is still what is there while it holds the lock).
* `ImplementsPullServiceHolds`, from the same invariant. `SeenQueries` is the refinement
  mapping: a worker between its two reads is still asked. Taking the lock and reading the
  state are stutters; reading the time is `Take`, because `Read` and `Written` make the
  state read before still the present one; writing the state is `Advance` or a stutter, the
  cast is `Notify`. A clock class None, which leaves the lock behind, is no exception: the
  theorem is about what is answered, not that it is.
* `NoRequestIsSleptOverHolds`, the safe half of `ReloadStops`, and the like for triggers: a
  flag that is set and not yet seen finds the loop on its way to it, or its event set, or
  its setter about to set it. The definition is inductive. It is stated in the module of the
  proofs; no run is spent on it.
* `LockIsGivenBackHolds`, if there is a clock class from the start: finding 3 is what
  happens otherwise.

`ConfigReloadProofs`, for every number of changes and crashes and every debounce time
longer than a build:

* `TypeCorrect`, without further assumptions.
* `NoChangeIsLostHolds` and `BurstIsOneReloadHolds`, if every file operation has a
  handler (`Operations \subseteq Handled`: a rename into the directory has none and is not
  noticed, which is listed under the hazards).
  `NoChangeIsLost` is not inductive. `IInv` adds that only the timer of the last
  change is armed (`OneTimer`); that a change made after the directory was read is
  still in its debounce time until the flag of the new daemon is cleared
  (`StillWaiting`: here the debounce time and the time of a build count); that a
  daemon exists once it may be asked (`HasDaemon`); and what the property says while
  the daemon runs (`IsAsked`).
* `ReloadsHaveCauseHolds`, from `Causes`: every daemon that was replaced was asked by the
  timer of a change, and a timer asks one daemon only; counting them (finite sets, as
  many changes as daemons but one) gives the bound.

`BrokerSyncProofs`, for all nodes and subscriptions, any number of pods and of
changes, and any number of failing calls:

* `NoWakeUpIsLostHolds`, from the invariant `Awake`. The property speaks of a worker
  that sleeps; the invariant says of each event, wherever the three parties are, that
  the loop will be awake when it next comes to test it: the common event is set, or
  its setter has yet to set it, or the loop is on its way to the test.
* `NoSubscriptionIsLostHolds`, from `IInv`: brokers' wanted resources are those of the
  database unless the subscription event is set or about to be, *or* nodes were added
  by the announcements just consumed (`Noticed`). `OthersAreEmpty` says that a broker
  which was removed wants nothing, which is what makes it up to date.
* `AckedIsAppliedHolds`, from `AInv` and `IInv`. `FlagsTell` says what an unset flag
  means: the client is at the broker's address and listens to all that is subscribed,
  whichever calls failed and in whatever order changes came. `OthersAreNew` makes a
  broker that comes back start from an address that no client has, so that a client
  that could not be stopped earlier is restarted and not taken for current. `Pending`
  says that brokers are applied unless a sync-up is due.

* `QuietIsInStepHolds`, from the four invariants above and `QInv`, four facts about a chain
  of copies. `Heard`: the database is behind what was announced only for nodes whose
  announcement is in hand. `Addressed`: brokers are behind the database only while the
  worker has yet to relocate them. `Kept`: a managed broker of which nothing is wanted is
  about to be disabled. `Known`: a client without a broker state is one that could not be
  stopped. From the announcement to the client each copy is behind the one before only
  while somebody is at work on it, and a sleeping worker without work leaves no gap.

* `TypeCorrect`, from `Located`: no address is known anywhere that no pod had, and a
  managed broker has one, because a node is known before anything of it is wanted and a
  broker that is new is relocated in the same step.

`ListenerClientProofs`, for any listeners, calls, failures and outages:

* `TypeCorrect`.
* `NothingIsSleptOverHolds`, from `Cared`, which says of the refresher at each of its
  steps why what is outstanding will be seen to: it is on its way to look, or has the
  listener still to do, or remembers a failure, or its event is set, or the caller that
  changed a context has yet to set it; and from `Wished`, which relates the active contexts
  to what was asked for, at each step of the caller.
* `EndIsHeardHolds`, the safe half of `CleanupEnds`: a refresher that was told to end does not
  wait for an event that nobody is about to set, nor, by `Cleaned`, for a broker, as all
  that it may have left to do is stopping servers. Stated in the module of the proofs.
* `NothingStartsAfterCleanupHolds`, from `Cleaned`: once cleaning up is past a listener
  nothing makes it active again, as the thread that adds is the one that cleans up.

`NotificationDeliveryProofs`, for all resources, subscriptions, paths and wildcards, any
number of events, changes, failing posts and restarts:

* `TypeCorrect`.
* `DeliveredWasToldHolds`, from `Backed` and `Known`: what a thread has decided to write
  was posted, be it a copy or the initial notification, whose time was told before the
  subscription was saved.
* `ToldUnlessDeniedHolds`, from `ToOwnTopics` (a copy is on a topic of its resource) and
  `Underway`: the newest event that a subscription was sent is
  in a copy that reaches it, or in the copy in hand with the subscription still to be
  seen, or it or a newer one was told. A skipped entry is where `Backed` is needed: it is
  skipped for a delivery time, which was told.

`NotificationOrderProofs` has `NoStepBackHolds`, by four invariants. `NotPast`: nothing is
of the future, and copies still to be cast are of the present. `Unnoted`: a subscription that
was told its initial state but is not saved yet is neither settled nor about to be. `Noted`: a settled subscription has a delivery time, or the worker is about
to write it and there is nothing to handle. `Fresh`: a copy that is older than what a
settled subscription knows of its resource is no newer than the delivery time that will
stand when the copy comes to it (`Effective`), so that it will be skipped.

Only model-checked: liveness, which is beyond the proof system (`HoldoverEnds`,
`OverallSettles`, `PullIsAnswered`, `ReloadStops`, `EndsUpToDate`, `EndsInStep`, `EndsTold`,
`EndsAsAsked`, `CallsReturn`, `CleanupEnds`). Where it has one, the safe half of it is proved:
the states that the system comes to rest in are right (`QuietIsInStep`, `NothingIsSleptOver`,
`NoChangeIsLost`, `ToldUnlessDenied`, `HoldoverIsTimed`), and nothing rests that has something
to do (`NoRequestIsSleptOver`, `EndIsHeard`, `LockIsGivenBack`). What is left to TLC is that
the threads get there under the fairness of section 3. Every invariant, every action property
and both refinements of the passing runs are proved.

## 5. Findings

1. `LockedIsTraceable` (`T/common/helpers/ptpsync.py:33`): the list of locked clock
   classes is sorted as strings and never equals the unsorted default, so the check
   that time is traceable, which the comment at line 104 demands, is dead.
2. `HoldoverIsChainMinimum` (`T/services/daemon.py:917`): on a device shared with a
   ts2phc instance, the overall holdover time ignores the ptp4l instance that the time
   really comes from, while the docstring promises the minimum over the chain.
3. `PullIsAnswered` without a clock class at start (`T/services/daemon.py:356`): the
   first pull of the class raises with the lock held; all later ones wait for ever.
4. `UninterestingIsStopped` (`C/services/broker_connection_manager.py:210`): a
   resource that nobody subscribes to any longer goes on being listened to while its
   node has another one, as the two lists that are compared are the same object.
5. `AllAreTold` (`C/services/notification_handler.py:122`): the time of a notification is
   formatted in place, and formatting it again fails, so that of several subscriptions that
   one copy matches only the first that is looked at is told.

The hazards in `PROJECT.json` without a property name what is known to be delicate
and is not modelled; a note says why.

## 6. Plan

Done: the tracking service from pmc to the event producer, the reload path, and the
sidecar from announcements and subscriptions to the posts, with the proofs of all their
invariants, action properties and refinements. What could come next:

1. **Composition** of `ListenerClient` with `BrokerSync`: the clients of `BrokerSync` by the
   servers that run instead of those asked for. The question is whether a listener that was
   not removed because it had not started (`ignored`) is ever noticed by a later sync-up.
   Each of the two alone is near what TLC can enumerate in minutes, so this needs an
   abstract `ListenerClient` that keeps only `active`, `servers` and `ignored`; that the
   present one implements it would be the theorem, on top of `Cared` and `Wished`.
2. **Subscriptions** (`C/services/ptp.py`): which existing subscriptions a new one duplicates,
   by containment of resource addresses, as an operator against a reference definition.
3. **Clock steps**: ages are differences of wall-clock times, which the very daemons that
   are watched may step; `SyncChain` would need a clock of its own for each stamp.
4. The other four contexts of `PtpWatcher`, which repeat the pattern of the first, and the
   parsing of configuration files and of the CGU's debugfs file as operators.
