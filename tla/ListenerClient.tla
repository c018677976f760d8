--------------------------- MODULE ListenerClient ---------------------------
(***************************************************************************)
(* BrokerClientBase (client/base.py): the client of one message broker.    *)
(* The worker's main thread (broker_connection_manager.py) adds and        *)
(* removes listeners, which only notes what is wanted; a thread of the     *)
(* client, the refresher, starts and stops their RPC servers, with the     *)
(* lock held that adding and removing take, and tries again what failed.   *)
(***************************************************************************)
EXTENDS Naturals

CONSTANTS
  Listeners,           \* pairs of a topic and a server name
  MaxCalls,            \* at most this many calls,
  MaxFailures,         \* this many servers that cannot be started or stopped,
  MaxOutages           \* and this many outages of the broker

ASSUME ListenerAssumption == {MaxCalls, MaxFailures, MaxOutages} \subseteq Nat

VARIABLES
  active,              \* listeners: "active" of each context, "none" without one
  servers,             \* the listeners that have an rpcserver
  event, terminated,   \* _workerevent, _workerterminated
  pc,                  \* where the refresher is; it has the lock in "refresh"
  todo, allset,        \* the contexts it has yet to see to, and its flag
  caller,              \* where the main thread is, and the listeners it is at
  up,                  \* whether the broker can be reached
  asked,               \* history: the listeners that should listen,
  ignored,             \* and those that were not removed as they did not listen yet
  calls, failures, outages     \* history: how many there were

contexts == <<active, servers>>
refresher == <<pc, todo, allset>>
counts == <<calls, failures, outages>>
vars == <<contexts, event, terminated, refresher, caller, up, asked, ignored, counts>>

At(step, of) == [step |-> step, of |-> of]
Idle == At("idle", {})

Init ==
  /\ active = [l \in Listeners |-> "none"] /\ servers = {}
  /\ event = FALSE /\ terminated = FALSE
  /\ pc = "check" /\ todo = {} /\ allset = FALSE
  /\ caller = Idle
  /\ up \in BOOLEAN
  /\ asked = {} /\ ignored = {}
  /\ calls = 0 /\ failures = 0 /\ outages = 0

\* is_listening
Listening(l) == active[l] = "on" /\ l \in servers

\* What a refresh has to do.
Outstanding == {l \in Listeners : (active[l] = "on") # (l \in servers)}
-----------------------------------------------------------------------------
(***************************************************************************)
(* The refresher.                                                          *)
(***************************************************************************)
Check ==
  /\ pc = "check" /\ pc' = IF terminated THEN "done" ELSE "wait"
  /\ UNCHANGED <<contexts, event, terminated, todo, allset, caller, up, asked, ignored,
                 counts>>

Awake ==
  /\ pc = "wait" /\ event /\ pc' = "clear"
  /\ UNCHANGED <<contexts, event, terminated, todo, allset, caller, up, asked, ignored,
                 counts>>

Clear ==
  /\ pc = "clear" /\ pc' = "lock"
  /\ event' = FALSE
  /\ UNCHANGED <<contexts, terminated, todo, allset, caller, up, asked, ignored, counts>>

Lock ==
  /\ pc = "lock" /\ pc' = "refresh"
  /\ todo' = Outstanding /\ allset' = TRUE
  /\ UNCHANGED <<contexts, event, terminated, caller, up, asked, ignored, counts>>

\* start returns when the broker was reached.
StartServer(l) ==
  /\ pc = "refresh" /\ l \in todo /\ active[l] = "on"
  /\ up
  /\ servers' = servers \cup {l}
  /\ todo' = todo \ {l}
  /\ UNCHANGED <<active, event, terminated, pc, allset, caller, up, asked, ignored, counts>>

StopServer(l) ==
  /\ pc = "refresh" /\ l \in todo /\ active[l] = "off"
  /\ servers' = servers \ {l}
  /\ todo' = todo \ {l}
  /\ UNCHANGED <<active, event, terminated, pc, allset, caller, up, asked, ignored, counts>>

\* Mutant of RefreshFails: one failure is forgotten with the next success.
RefreshFailsUnnoticed(l) ==
  /\ pc = "refresh" /\ l \in todo
  /\ failures < MaxFailures /\ failures' = failures + 1
  /\ todo' = todo \ {l}
  /\ UNCHANGED <<contexts, event, terminated, pc, allset, caller, up, asked, ignored, calls,
                 outages>>

RefreshFails(l) ==
  /\ pc = "refresh" /\ l \in todo
  /\ failures < MaxFailures /\ failures' = failures + 1
  /\ todo' = todo \ {l} /\ allset' = FALSE
  /\ UNCHANGED <<contexts, event, terminated, pc, caller, up, asked, ignored, calls, outages>>

\* Mutant of Unlock: the lock is only released by a refresh without failures.
UnlockIfAllSet ==
  /\ pc = "refresh" /\ todo = {} /\ allset /\ pc' = "test"
  /\ UNCHANGED <<contexts, event, terminated, todo, allset, caller, up, asked, ignored,
                 counts>>

Unlock ==
  /\ pc = "refresh" /\ todo = {} /\ pc' = "test"
  /\ UNCHANGED <<contexts, event, terminated, todo, allset, caller, up, asked, ignored,
                 counts>>

\* Mutant of Test: the event is cleared after the refresh.
TestAndClear ==
  /\ pc = "test" /\ pc' = IF allset THEN "check" ELSE "asleep"
  /\ event' = FALSE
  /\ UNCHANGED <<contexts, terminated, todo, allset, caller, up, asked, ignored, counts>>

\* The rest of the loop: at once round again, or after the retry interval.
Test ==
  /\ pc = "test" /\ pc' = IF event \/ allset THEN "check" ELSE "asleep"
  /\ UNCHANGED <<contexts, event, terminated, todo, allset, caller, up, asked, ignored,
                 counts>>

Retry ==
  /\ pc = "asleep" /\ pc' = "check"
  /\ event' = TRUE
  /\ UNCHANGED <<contexts, terminated, todo, allset, caller, up, asked, ignored, counts>>
-----------------------------------------------------------------------------
(***************************************************************************)
(* The main thread, until it cleans the client up.                         *)
(***************************************************************************)
Call(step, of) ==
  /\ caller = Idle /\ caller' = At(step, of)
  /\ calls < MaxCalls /\ calls' = calls + 1

\* start_watching_broker, __start_watching_broker_resource: add unless it listens.
Start(l) ==
  /\ IF Listening(l) THEN Call("idle", {}) ELSE Call("add", {l})
  /\ asked' = asked \cup {l} /\ ignored' = ignored \ {l}
  /\ UNCHANGED <<contexts, event, terminated, refresher, up, failures, outages>>

\* stop_watching_broker, __stop_watching_broker_resource: remove if it listens.
Stop(l) ==
  /\ IF Listening(l) THEN Call("remove", {l}) ELSE Call("idle", {})
  /\ asked' = asked \ {l}
  /\ ignored' = IF active[l] = "on" /\ l \notin servers THEN ignored \cup {l}
                                                        ELSE ignored \ {l}
  /\ UNCHANGED <<contexts, event, terminated, refresher, up, failures, outages>>

\* cleanup, of all listeners that have a context.
CleanUp ==
  /\ caller = Idle /\ caller' = At("clean", {l \in Listeners : active[l] # "none"})
  /\ UNCHANGED <<contexts, event, terminated, refresher, up, asked, ignored, counts>>

\* The lock is free.
Free == pc # "refresh"

AddListener ==
  /\ caller.step = "add" /\ Free
  /\ active' = [l \in Listeners |-> IF l \in caller.of THEN "on" ELSE active[l]]
  /\ caller' = At("trigger", {})
  /\ UNCHANGED <<servers, event, terminated, refresher, up, asked, ignored, counts>>

\* Mutant of RemoveListener: the context is removed, while its server still runs.
RemoveContext ==
  /\ caller.step = "remove" /\ Free
  /\ active' = [l \in Listeners |-> IF l \in caller.of THEN "none" ELSE active[l]]
  /\ caller' = At("trigger", {})
  /\ UNCHANGED <<servers, event, terminated, refresher, up, asked, ignored, counts>>

RemoveListener ==
  /\ caller.step = "remove" /\ Free
  /\ active' = [l \in Listeners |-> IF l \in caller.of THEN "off" ELSE active[l]]
  /\ caller' = At("trigger", {})
  /\ UNCHANGED <<servers, event, terminated, refresher, up, asked, ignored, counts>>

Trigger ==
  /\ caller.step = "trigger" /\ caller' = Idle
  /\ event' = TRUE
  /\ UNCHANGED <<contexts, terminated, refresher, up, asked, ignored, counts>>

\* One round of clean_listeners, which sets the event twice.
CleanListener(l) ==
  /\ caller.step = "clean" /\ l \in caller.of /\ Free
  /\ active' = [active EXCEPT ![l] = "off"]
  /\ caller' = At("cleaned", caller.of \ {l})
  /\ UNCHANGED <<servers, event, terminated, refresher, up, asked, ignored, counts>>

TriggerCleaned ==
  /\ caller.step \in {"cleaned", "again"}
  /\ caller' = At(IF caller.step = "cleaned" THEN "again" ELSE "clean", caller.of)
  /\ event' = TRUE
  /\ UNCHANGED <<contexts, terminated, refresher, up, asked, ignored, counts>>

\* Mutant of Terminate: the refresher is ended before the listeners are cleaned.
TerminateFirst ==
  /\ caller.step = "clean" /\ ~terminated
  /\ terminated' = TRUE
  /\ caller' = IF caller.of = {} THEN At("end", {}) ELSE caller
  /\ UNCHANGED <<contexts, event, refresher, up, asked, ignored, counts>>

Terminate ==
  /\ caller = At("clean", {}) /\ caller' = At("end", {})
  /\ terminated' = TRUE
  /\ UNCHANGED <<contexts, event, refresher, up, asked, ignored, counts>>

\* Mutant of End: a refresher that waits is not woken.
EndQuietly ==
  /\ caller.step = "end" /\ caller' = At("over", {})
  /\ UNCHANGED <<contexts, event, terminated, refresher, up, asked, ignored, counts>>

\* The connections that are closed after it are the transport's.
End ==
  /\ caller.step = "end" /\ caller' = At("over", {})
  /\ event' = TRUE
  /\ UNCHANGED <<contexts, terminated, refresher, up, asked, ignored, counts>>
-----------------------------------------------------------------------------
\* The broker cannot be reached; running servers reconnect by themselves.
Fail ==
  /\ up /\ up' = FALSE
  /\ outages < MaxOutages /\ outages' = outages + 1
  /\ UNCHANGED <<contexts, event, terminated, refresher, caller, asked, ignored, calls,
                 failures>>

Recover ==
  /\ ~up /\ up' = TRUE
  /\ UNCHANGED <<contexts, event, terminated, refresher, caller, asked, ignored, counts>>

Refresher ==
  \/ Check \/ Awake \/ Clear \/ Lock
  \/ \E l \in todo : StartServer(l) \/ StopServer(l) \/ RefreshFails(l)
  \/ Unlock \/ Test \/ Retry

Caller ==
  \/ AddListener \/ RemoveListener \/ Trigger
  \/ \E l \in caller.of : CleanListener(l)
  \/ TriggerCleaned \/ Terminate \/ End

Next ==
  \/ Refresher \/ Caller
  \/ \E l \in Listeners : Start(l) \/ Stop(l)
  \/ CleanUp
  \/ Fail \/ Recover

\* Both threads run, and a broker that is asked for comes back.
Spec == Init /\ [][Next]_vars /\ WF_vars(Refresher) /\ WF_vars(Caller) /\ WF_vars(Recover)
-----------------------------------------------------------------------------
\* Only contexts have servers and are worked on; todo is what is left of a refresh.
TypeOK ==
  /\ active \in [Listeners -> {"none", "on", "off"}]
  /\ servers \subseteq {l \in Listeners : active[l] # "none"}
  /\ event \in BOOLEAN /\ terminated \in BOOLEAN /\ up \in BOOLEAN
  /\ pc \in {"check", "wait", "clear", "lock", "refresh", "test", "asleep", "done"}
  /\ IF pc = "refresh" THEN todo \subseteq Outstanding ELSE todo = {}
  /\ allset \in BOOLEAN
  /\ caller \in [step : {"idle", "add", "remove", "trigger", "clean", "cleaned", "again",
                         "end", "over"}, of : SUBSET Listeners]
  /\ {asked, ignored} \subseteq SUBSET Listeners
  /\ calls \in 0 .. MaxCalls /\ failures \in 0 .. MaxFailures /\ outages \in 0 .. MaxOutages

AsAsked == asked \subseteq servers /\ servers \subseteq asked \cup ignored

\* A refresher that waits has nothing to do: what was added, removed or has failed keeps
\* it, or somebody about to wake it, busy; so when the main thread is at rest too, the
\* client listens to what was asked of it (client/base.py:52-65, 81-134).
NothingIsSleptOver ==
  pc = "wait" /\ ~event /\ caller.step \notin {"trigger", "cleaned", "again"} =>
    /\ Outstanding = {}
    /\ caller = Idle => AsAsked

\* Once the refresher was told to end, no server is started any more: whatever it was
\* doing, clean_listeners came before (client/base.py:41-50, 150-157).
NothingStartsAfterCleanup == [][terminated => servers' \subseteq servers]_vars

\* Unless it is cleaned up, in the end the client listens to what was asked of it, and to
\* nothing else but listeners whose removal was asked for before their server had started
\* (broker_connection_manager.py:118-154, client/base.py:81-103).
EndsAsAsked == <>[](caller.step = "over" \/ AsAsked)

\* Adding, removing and cleaning up return, although they wait for a refresh that waits
\* for the broker (client/base.py:57, 112, 131).
CallsReturn == caller.step \notin {"idle", "over"} ~> caller.step \in {"idle", "over"}

\* Nothing waits for ever for a client that was cleaned up (client/base.py:41-54).
CleanupEnds == terminated ~> pc = "done"
=============================================================================
