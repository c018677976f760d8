----------------------------- MODULE PtpWatcher -----------------------------
(***************************************************************************)
(* The threads of PtpWatcherDefault (daemon.py): the main loop, which      *)
(* writes what it measured on a ptp4l instance into ptptracker_context and *)
(* publishes it, and the RPC workers, which answer pull queries from that  *)
(* context and ask the loop to publish everything again.  They share a     *)
(* lock, the flag forced_publishing and an event.                          *)
(*                                                                         *)
(* A lock state is written as the number of the event that brought it, so  *)
(* the state and the time of one event are the same number.                *)
(***************************************************************************)
EXTENDS Integers, SyncStates

CONSTANTS
  Workers,             \* the RPC threads
  MaxEvents,           \* at most this many changes of the lock state are looked at
  MaxOutages,          \* and at most this many outages of the brokers
  ClassAtStart         \* the clock class the constructor's poll leaves, maybe None

Class == {"6", "248", None}

ASSUME PtpWatcherAssumption ==
  /\ MaxEvents \in Nat /\ MaxOutages \in Nat
  /\ ClassAtStart \in Class
  /\ None \notin Workers /\ "main" \notin Workers

VARIABLES
  pc,                  \* where the loop is
  forced,              \* its local variable: publish although nothing changed
  event,               \* mp.Event of DaemonControl
  reload,              \* reload_requested of DaemonControl
  forcedPublishing,    \* self.forced_publishing
  lock,                \* who holds ptptracker_context_lock, or None
  measured,            \* lock state and clock class of the PtpMonitor
  freshClass,          \* a new clock class is still to be published
  context,             \* ptptracker_context of the instance
  delivered,           \* history: the last lock state published to clients
  up,                  \* the brokers can be reached
  outages,             \* history: how often they could not
  worker,              \* where each RPC thread is
  answer               \* what it has read, and what was delivered when it was asked

mainVars == <<pc, forced, measured, freshClass, context, delivered>>
vars == <<mainVars, event, reload, forcedPublishing, lock, up, outages, worker, answer>>

NoAnswer == [seen |-> 0, state |-> 0, time |-> 0]

Init ==
  /\ pc = "top" /\ forced = FALSE
  /\ event = FALSE /\ reload = FALSE
  /\ forcedPublishing = TRUE
  /\ lock = None
  /\ measured = [state |-> 0, class |-> ClassAtStart]
  /\ freshClass = FALSE
  /\ context = [state |-> 0, time |-> 0, class |-> "248"]
  /\ delivered = 0
  /\ up = TRUE /\ outages = 0
  /\ worker = [w \in Workers |-> "idle"]
  /\ answer = [w \in Workers |-> NoAnswer]

Goto(from, to) == pc = from /\ pc' = to
-----------------------------------------------------------------------------
(***************************************************************************)
(* The main loop.                                                          *)
(***************************************************************************)

\* Mutant of ReloadSeen: the event, which the wait has cleared, is asked for too.
ReloadSeenWithEvent == reload /\ event

ReloadSeen == reload

\* The head of the loop reads forced_publishing ...
Top ==
  /\ pc = "top" /\ ~ReloadSeen /\ pc' = "clear"
  /\ forced' = forcedPublishing
  /\ UNCHANGED <<measured, freshClass, context, delivered, event, reload, forcedPublishing,
                 lock, up, outages, worker, answer>>

\* ... and resets it in a statement of its own.
ClearForced ==
  /\ Goto("clear", "poll")
  /\ forcedPublishing' = FALSE
  /\ UNCHANGED <<forced, measured, freshClass, context, delivered, event, reload, lock, up,
                 outages, worker, answer>>

\* The poll finds the same lock state or the next, and reads a clock class or keeps
\* the one it has.
Poll ==
  /\ pc = "poll"
  /\ \E changed \in BOOLEAN, class \in {measured.class, "6"} :
       /\ changed => measured.state < MaxEvents
       /\ measured' = [state |-> measured.state + (IF changed THEN 1 ELSE 0),
                       class |-> class]
       /\ freshClass' = (class # measured.class)
       /\ pc' = IF changed \/ forced THEN "state" ELSE "class"
  /\ UNCHANGED <<forced, context, delivered, event, reload, forcedPublishing, lock, up,
                 outages, worker, answer>>

\* Mutant of TakeForState: the context is only written when nothing was forced.
TakeForStateUnlessForced ==
  /\ Goto("state", "time")
  /\ lock = None /\ lock' = "main"
  /\ context' = IF forced THEN context ELSE [context EXCEPT !.state = measured.state]
  /\ UNCHANGED <<forced, measured, freshClass, delivered, event, reload, forcedPublishing, up,
                 outages, worker, answer>>

\* With the lock held the state and then its time are written, ...
TakeForState ==
  /\ Goto("state", "time")
  /\ lock = None /\ lock' = "main"
  /\ context' = [context EXCEPT !.state = measured.state]
  /\ UNCHANGED <<forced, measured, freshClass, delivered, event, reload, forcedPublishing, up,
                 outages, worker, answer>>

WriteTime ==
  /\ Goto("time", "v1")
  /\ context' = [context EXCEPT !.time = measured.state]
  /\ UNCHANGED <<forced, measured, freshClass, delivered, event, reload, forcedPublishing,
                 lock, up, outages, worker, answer>>

\* ... and the v1 notification is cast to the brokers before the lock is released.
PublishV1 ==
  /\ Goto("v1", "class") /\ up
  /\ delivered' = measured.state
  /\ lock' = None
  /\ UNCHANGED <<forced, measured, freshClass, context, event, reload, forcedPublishing,
                 up, outages, worker, answer>>

SkipClass ==
  /\ Goto("class", "publish") /\ ~(freshClass \/ forced)
  /\ UNCHANGED <<forced, measured, freshClass, context, delivered, event, reload,
                 forcedPublishing, lock, up, outages, worker, answer>>

\* Mutant of WriteClass: the lock is not released.
WriteClassKeepsLock ==
  /\ Goto("class", "publish") /\ (freshClass \/ forced)
  /\ lock = None /\ lock' = "main"
  /\ context' = [context EXCEPT !.class = measured.class]
  /\ freshClass' = FALSE
  /\ UNCHANGED <<forced, measured, delivered, event, reload, forcedPublishing, up,
                 outages, worker, answer>>

\* The clock class is written with the lock held.
WriteClass ==
  /\ Goto("class", "publish") /\ (freshClass \/ forced)
  /\ lock = None
  /\ context' = [context EXCEPT !.class = measured.class]
  /\ freshClass' = FALSE
  /\ UNCHANGED <<forced, measured, delivered, event, reload, forcedPublishing, lock, up,
                 outages, worker, answer>>

\* What is cast without the lock: the v2 forms of the state and the class, and the
\* other resources, which have contexts and locks of their own.
Publish ==
  /\ Goto("publish", "wait") /\ up
  /\ UNCHANGED <<forced, measured, freshClass, context, delivered, event, reload,
                 forcedPublishing, lock, up, outages, worker, answer>>

\* A cast to the registration broker raises: publish_status passes the source as the
\* number of retries, and decrementing it raises again, out of the loop.
CastRaises ==
  /\ pc \in {"v1", "publish"} /\ pc' = "dead"
  /\ ~up
  /\ UNCHANGED <<forced, measured, freshClass, context, delivered, event, reload,
                 forcedPublishing, lock, up, outages, worker, answer>>

\* event.wait() returns because the event is set, and it is cleared afterwards ...
Woken ==
  /\ Goto("wait", "woken") /\ event
  /\ UNCHANGED <<forced, measured, freshClass, context, delivered, event, reload,
                 forcedPublishing, lock, up, outages, worker, answer>>

ClearEvent ==
  /\ Goto("woken", "top")
  /\ event' = FALSE
  /\ UNCHANGED <<forced, measured, freshClass, context, delivered, reload, forcedPublishing,
                 lock, up, outages, worker, answer>>

\* ... or because CONTROL_TIMEOUT has passed.
TimedOut ==
  /\ Goto("wait", "top") /\ ~event
  /\ UNCHANGED <<forced, measured, freshClass, context, delivered, event, reload,
                 forcedPublishing, lock, up, outages, worker, answer>>

\* The loop has ended: the RPC server is stopped, and its workers are waited for.
Leave ==
  /\ Goto("top", "stopping") /\ ReloadSeen
  /\ UNCHANGED <<forced, measured, freshClass, context, delivered, event, reload,
                 forcedPublishing, lock, up, outages, worker, answer>>

Stop ==
  /\ Goto("stopping", "stopped")
  /\ \A w \in Workers : worker[w] = "idle"
  /\ UNCHANGED <<forced, measured, freshClass, context, delivered, event, reload,
                 forcedPublishing, lock, up, outages, worker, answer>>

Main ==
  \/ Top \/ ClearForced \/ Poll \/ TakeForState \/ WriteTime \/ PublishV1 \/ SkipClass
  \/ WriteClass \/ Publish \/ Woken \/ ClearEvent \/ TimedOut \/ Leave \/ Stop
-----------------------------------------------------------------------------
(***************************************************************************)
(* The RPC workers.                                                        *)
(***************************************************************************)
Move(w, from, to) == worker[w] = from /\ worker' = [worker EXCEPT ![w] = to]

Serving == pc \notin {"stopping", "stopped", "dead"}

\* A client pulls the lock state or the clock class.
Ask(w) ==
  /\ Serving
  /\ \E query \in {"state", "class"} : Move(w, "idle", query)
  /\ answer' = [answer EXCEPT ![w] = [NoAnswer EXCEPT !.seen = delivered]]
  /\ UNCHANGED <<mainVars, event, reload, forcedPublishing, lock, up, outages>>

\* Mutant of MayRead: the lock is not waited for.
MayReadAnyway == TRUE

MayRead == lock = None

\* Mutant of ReadState: the lock is held for the first read only.
ReadStateAlone(w) ==
  /\ Move(w, "state", "time")
  /\ MayRead /\ lock' = None
  /\ answer' = [answer EXCEPT ![w].state = context.state]
  /\ UNCHANGED <<mainVars, event, reload, forcedPublishing, up, outages>>

ReadState(w) ==
  /\ Move(w, "state", "time")
  /\ MayRead /\ lock' = w
  /\ answer' = [answer EXCEPT ![w].state = context.state]
  /\ UNCHANGED <<mainVars, event, reload, forcedPublishing, up, outages>>

ReadTime(w) ==
  /\ Move(w, "time", "answered")
  /\ lock' = None
  /\ answer' = [answer EXCEPT ![w].time = context.time]
  /\ UNCHANGED <<mainVars, event, reload, forcedPublishing, up, outages>>

\* A clock class None has no upper(): the exception is returned to the client, and
\* nothing releases the lock.
ReadClass(w) ==
  /\ Move(w, "class", "idle")
  /\ MayRead
  /\ lock' = IF context.class = None THEN w ELSE None
  /\ UNCHANGED <<mainVars, event, reload, forcedPublishing, up, outages, answer>>

Answer(w) ==
  /\ Move(w, "answered", "idle")
  /\ answer' = [answer EXCEPT ![w] = NoAnswer]
  /\ UNCHANGED <<mainVars, event, reload, forcedPublishing, lock, up, outages>>

\* trigger_delivery sets the flag and then the event.
Trigger(w) ==
  /\ Serving
  /\ Move(w, "idle", "signal")
  /\ forcedPublishing' = TRUE
  /\ UNCHANGED <<mainVars, event, reload, lock, up, outages, answer>>

Signal(w) ==
  /\ Move(w, "signal", "idle")
  /\ event' = TRUE
  /\ UNCHANGED <<mainVars, reload, forcedPublishing, lock, up, outages, answer>>

Serve(w) == ReadState(w) \/ ReadTime(w) \/ ReadClass(w) \/ Answer(w) \/ Signal(w)
-----------------------------------------------------------------------------
(***************************************************************************)
(* The surroundings.                                                       *)
(***************************************************************************)

\* request_reload, from the thread of the configuration watcher.
RequestReload ==
  /\ ~reload /\ reload' = TRUE
  /\ event' = TRUE
  /\ UNCHANGED <<mainVars, forcedPublishing, lock, up, outages, worker, answer>>

\* A cast waits for as long as the brokers are away.
Outage ==
  /\ up /\ outages < MaxOutages
  /\ up' = FALSE /\ outages' = outages + 1
  /\ UNCHANGED <<mainVars, event, reload, forcedPublishing, lock, worker, answer>>

BrokersBack ==
  /\ ~up /\ up' = TRUE
  /\ UNCHANGED <<mainVars, event, reload, forcedPublishing, lock, outages, worker, answer>>

Next ==
  \/ Main \/ CastRaises
  \/ \E w \in Workers : Ask(w) \/ Trigger(w) \/ Serve(w)
  \/ RequestReload \/ Outage \/ BrokersBack

Spec == Init /\ [][Next]_vars

\* Every thread runs, a thread waiting for the lock gets it in the end, and the
\* brokers come back; nobody has to ask, to trigger or to request a reload.
Fairness ==
  /\ SF_vars(Main)
  /\ \A w \in Workers : SF_vars(Serve(w))
  /\ WF_vars(BrokersBack)

FairSpec == Spec /\ Fairness
-----------------------------------------------------------------------------
\* Loop and workers are at statements of theirs; the context holds what was measured
\* (daemon.py:1315-1358, 397-436).
TypeOK ==
  /\ pc \in {"top", "clear", "poll", "state", "time", "v1", "class", "publish", "wait",
             "woken", "stopping", "stopped", "dead"}
  /\ lock \in Workers \cup {"main", None}
  /\ {forced, event, reload, forcedPublishing, freshClass, up} \subseteq BOOLEAN
  /\ measured \in [state: 0 .. MaxEvents, class: Class]
  /\ context \in [state: 0 .. MaxEvents, time: 0 .. MaxEvents, class: Class]
  /\ worker \in [Workers -> {"idle", "state", "time", "class", "answered", "signal"}]

\* Whoever holds the lock is inside its critical section, and only a loop that died in
\* its publication has left it behind (daemon.py:1315-1358, 397-436).
LockIsGivenBack ==
  /\ TypeOK
  /\ lock = "main" => pc \in {"time", "v1", "dead"}
  /\ \A w \in Workers : lock = w => worker[w] = "time"

\* A pull is never answered with the state of one event and the time of another
\* (daemon.py:397-436 against 1315-1322).
AnswerIsOfOneEvent ==
  \A w \in Workers : worker[w] = "answered" => answer[w].state = answer[w].time

\* A client that was notified of a state is not answered with an older one afterwards
\* (daemon.py:1315-1371).
AnswerIsNotOlder ==
  \A w \in Workers : worker[w] = "answered" => answer[w].state >= answer[w].seen

\* A query for the lock state as its client sees it, whatever the worker has read so far.
QueryOf(w) ==
  CASE worker[w] \in {"state", "time"} -> [step |-> "asked", state |-> 0, time |-> 0]
    [] worker[w] = "answered" ->
         [step |-> "answered", state |-> answer[w].state, time |-> answer[w].time]
    [] OTHER -> [step |-> "idle", state |-> 0, time |-> 0]

Pulls == INSTANCE PullService WITH
  Clients <- Workers, present <- context.state, told <- delivered,
  query <- [w \in Workers |-> QueryOf(w)]

\* The loop, the workers and their lock together answer pulls as if each were answered in
\* one step (daemon.py:397-436 and 1315-1358): the step is the reading of the time.
ImplementsPullService == Pulls!Spec

\* Every pull is answered, unless the loop was ended by a failing publication.
PullIsAnswered ==
  \A w \in Workers :
    worker[w] \in {"state", "class"} ~> worker[w] = "idle" \/ pc = "dead"

\* A requested reload ends the watcher, whatever queries and triggers are under way
\* (daemon.py:654-677).
ReloadStops == reload ~> pc \in {"stopped", "dead"}
=============================================================================
