------------------------ MODULE ListenerClientProofs ------------------------
(***************************************************************************)
(* Theorems about ListenerClient, for any listeners and any number of      *)
(* calls, failures and outages.                                            *)
(***************************************************************************)
EXTENDS ListenerClient, TLAPS

USE ListenerAssumption

\* Types hold initially.
LEMMA TypeInit == Init => TypeOK
<1> SUFFICES ASSUME Init PROVE TypeOK
  OBVIOUS
<1>1. /\ active \in [Listeners -> {"none", "on", "off"}]
      /\ servers \subseteq {l \in Listeners : active[l] # "none"}
  BY DEF Init
<1>2. caller = [step |-> "idle", of |-> {}]
  BY DEF Init, Idle, At
<1>3. event \in BOOLEAN /\ terminated \in BOOLEAN /\ up \in BOOLEAN /\ allset \in BOOLEAN
  BY DEF Init
<1>4. {asked, ignored} \subseteq SUBSET Listeners
  BY DEF Init
<1>5. calls \in 0 .. MaxCalls /\ failures \in 0 .. MaxFailures /\ outages \in 0 .. MaxOutages
  BY DEF Init
<1>6. pc = "check" /\ todo = {}
  BY DEF Init
<1> QED  BY <1>1, <1>2, <1>3, <1>4, <1>5, <1>6 DEF TypeOK

\* Every step keeps them; adding and removing wait for the lock, and so never make a
\* context that a refresh still has to see to one that has nothing to be done.
LEMMA TypeNext == TypeOK /\ [Next]_vars => TypeOK'
<1> SUFFICES ASSUME TypeOK, [Next]_vars PROVE TypeOK'
  OBVIOUS
<1> USE DEF contexts, refresher, counts, At, Idle
<1>1. CASE Check \/ Awake \/ Clear \/ Unlock \/ Test \/ Retry
  BY <1>1 DEF Check, Awake, Clear, Unlock, Test, Retry, TypeOK, Outstanding
<1>2. CASE Lock
  BY <1>2 DEF Lock, TypeOK, Outstanding
<1>3. ASSUME NEW l \in todo, StartServer(l) PROVE TypeOK'
  <2>1. /\ servers' = servers \cup {l} /\ active[l] = "on" /\ UNCHANGED <<active, pc>>
        /\ todo' = todo \ {l} /\ pc = "refresh" /\ todo \subseteq Outstanding
    BY <1>3 DEF StartServer, TypeOK
  <2>2. Outstanding' = Outstanding \ {l}
    BY <2>1 DEF Outstanding, TypeOK
  <2>3. servers' \subseteq {k \in Listeners : active'[k] # "none"}
    BY <2>1 DEF TypeOK, Outstanding
  <2> QED  BY <1>3, <2>1, <2>2, <2>3 DEF StartServer, TypeOK
<1>4. ASSUME NEW l \in todo, StopServer(l) PROVE TypeOK'
  <2>1. /\ servers' = servers \ {l} /\ active[l] = "off" /\ UNCHANGED <<active, pc>>
        /\ todo' = todo \ {l} /\ pc = "refresh" /\ todo \subseteq Outstanding
    BY <1>4 DEF StopServer, TypeOK
  <2>2. Outstanding' = Outstanding \ {l}
    BY <2>1 DEF Outstanding, TypeOK
  <2> QED  BY <1>4, <2>1, <2>2 DEF StopServer, TypeOK
<1>5. ASSUME NEW l \in todo, RefreshFails(l) PROVE TypeOK'
  <2>1. allset' \in BOOLEAN /\ Outstanding' = Outstanding
    BY <1>5 DEF RefreshFails, Outstanding
  <2> QED  BY <1>5, <2>1 DEF RefreshFails, TypeOK
<1>6. ASSUME NEW l \in Listeners, Start(l) \/ Stop(l) PROVE TypeOK'
  BY <1>6 DEF Start, Stop, Call, TypeOK, Outstanding
<1>7. CASE CleanUp
  BY <1>7 DEF CleanUp, TypeOK, Outstanding
<1>8. CASE AddListener \/ RemoveListener
  BY <1>8 DEF AddListener, RemoveListener, Free, TypeOK
<1>9. CASE Trigger \/ TriggerCleaned \/ Terminate \/ End
  <2>1. event' \in BOOLEAN /\ terminated' \in BOOLEAN /\ Outstanding' = Outstanding
    BY <1>9 DEF Trigger, TriggerCleaned, Terminate, End, TypeOK, Outstanding
  <2>2. /\ UNCHANGED <<contexts, refresher, up, asked, ignored, counts>>
        /\ \/ caller' = [step |-> "idle", of |-> {}] \/ caller' = [step |-> "again", of |-> caller.of]
           \/ caller' = [step |-> "clean", of |-> caller.of]
           \/ caller' = [step |-> "end", of |-> {}] \/ caller' = [step |-> "over", of |-> {}]
    BY <1>9 DEF Trigger, TriggerCleaned, Terminate, End
  <2> QED  BY <2>1, <2>2 DEF TypeOK
<1>10. ASSUME NEW l \in caller.of, CleanListener(l) PROVE TypeOK'
  <2>1. l \in Listeners /\ caller' = At("cleaned", caller.of \ {l}) /\ pc # "refresh"
    BY <1>10 DEF CleanListener, Free, TypeOK
  <2> QED  BY <1>10, <2>1 DEF CleanListener, TypeOK
<1>11. CASE Fail \/ Recover
  <2>1. up' \in BOOLEAN /\ Outstanding' = Outstanding
    BY <1>11 DEF Fail, Recover, Outstanding
  <2> QED  BY <1>11, <2>1 DEF Fail, Recover, TypeOK
<1>12. CASE UNCHANGED vars
  BY <1>12 DEF vars, TypeOK, Outstanding
<1> QED
  BY <1>1, <1>2, <1>3, <1>4, <1>5, <1>6, <1>7, <1>8, <1>9, <1>10, <1>11, <1>12
  DEF Next, Refresher, Caller

\* The type invariant holds throughout.
THEOREM TypeCorrect == Spec => []TypeOK
BY TypeInit, TypeNext, PTL DEF Spec
-----------------------------------------------------------------------------
(***************************************************************************)
(* The refresher has nothing to do, or is about to be at it, or will be    *)
(* woken: by its own event, by a failure that it remembers, or by the      *)
(* caller that changed a context and has yet to set the event.  Had the    *)
(* event been cleared after the refresh, a caller could come in between.   *)
(***************************************************************************)
Cared ==
  \/ Outstanding = {}
  \/ event
  \/ pc \in {"clear", "lock"}
  \/ pc = "refresh" /\ (Outstanding \subseteq todo \/ ~allset)
  \/ pc \in {"test", "asleep"} /\ ~allset
  \/ caller.step \in {"trigger", "cleaned", "again"}

\* Every step keeps somebody in charge.
LEMMA CaredNext == TypeOK /\ Cared /\ [Next]_vars => Cared'
<1> SUFFICES ASSUME TypeOK, Cared, [Next]_vars PROVE Cared'
  OBVIOUS
<1> USE DEF contexts, refresher, counts, At, Idle
<1>0. UNCHANGED <<active, servers>> => Outstanding' = Outstanding
  BY DEF Outstanding
<1>1. CASE Check \/ Awake \/ Clear \/ Retry
  BY <1>0, <1>1 DEF Check, Awake, Clear, Retry, Cared
<1>2. CASE Lock
  BY <1>0, <1>2 DEF Lock, Cared
<1>3. ASSUME NEW l \in todo, StartServer(l) \/ StopServer(l) PROVE Cared'
  <2>1. /\ pc = "refresh" /\ todo' = todo \ {l} /\ UNCHANGED <<active, pc, allset, event, caller>>
        /\ \/ active[l] = "on" /\ servers' = servers \cup {l}
           \/ active[l] = "off" /\ servers' = servers \ {l}
    BY <1>3 DEF StartServer, StopServer
  <2>2. Outstanding' \subseteq Outstanding \ {l}
    BY <2>1 DEF Outstanding
  <2> QED  BY <2>1, <2>2 DEF Cared
<1>4. ASSUME NEW l \in todo, RefreshFails(l) PROVE Cared'
  BY <1>4 DEF RefreshFails, Cared
<1>5. CASE Unlock
  BY <1>0, <1>5 DEF Unlock, Cared
<1>6. CASE Test
  BY <1>0, <1>6 DEF Test, Cared
<1>7. ASSUME NEW l \in Listeners, Start(l) \/ Stop(l) PROVE Cared'
  BY <1>0, <1>7 DEF Start, Stop, Call, Cared
<1>8. CASE CleanUp
  BY <1>0, <1>8 DEF CleanUp, Cared
<1>9. CASE AddListener \/ RemoveListener
  BY <1>9 DEF AddListener, RemoveListener, Cared
<1>10. CASE Trigger \/ TriggerCleaned \/ End
  BY <1>10 DEF Trigger, TriggerCleaned, End, Cared
<1>11. CASE Terminate
  BY <1>0, <1>11 DEF Terminate, Cared
<1>12. ASSUME NEW l \in caller.of, CleanListener(l) PROVE Cared'
  BY <1>12 DEF CleanListener, Cared
<1>13. CASE Fail \/ Recover
  BY <1>0, <1>13 DEF Fail, Recover, Cared
<1>14. CASE UNCHANGED vars
  BY <1>0, <1>14 DEF vars, Cared
<1> QED
  BY <1>1, <1>2, <1>3, <1>4, <1>5, <1>6, <1>7, <1>8, <1>9, <1>10, <1>11, <1>12, <1>13, <1>14
  DEF Next, Refresher, Caller

On == {l \in Listeners : active[l] = "on"}

\* The active contexts are those of the listeners asked for, but for the call under way,
\* and but for listeners whose removal came too early.
Wished ==
  /\ caller.step \in {"idle", "add", "remove", "trigger"} =>
       /\ asked \subseteq On \cup caller.of
       /\ On \subseteq asked \cup ignored \cup caller.of
  /\ caller.step = "add" => caller.of \subseteq asked
  /\ caller.step = "remove" => caller.of \cap asked = {}
  /\ caller.step \in {"idle", "trigger"} => caller.of = {}

\* Every step keeps the contexts to what is asked for.
LEMMA WishedNext == TypeOK /\ Wished /\ [Next]_vars => Wished'
<1> SUFFICES ASSUME TypeOK, Wished, [Next]_vars PROVE Wished'
  OBVIOUS
<1> USE DEF contexts, refresher, counts, At, Idle
<1>0. active' = active => On' = On
  BY DEF On
<1>1. CASE UNCHANGED <<active, caller, asked, ignored>>
  BY <1>0, <1>1 DEF Wished
<1>2. ASSUME NEW l \in Listeners, Start(l) PROVE Wished'
  <2>1. caller.step = "idle" /\ caller.of = {} /\ asked' = asked \cup {l}
        /\ ignored' = ignored \ {l} /\ active' = active
    BY <1>2 DEF Start, Call
  <2>2. CASE Listening(l)
    BY <1>0, <1>2, <2>1, <2>2 DEF Start, Call, Listening, Wished, On
  <2>3. CASE ~Listening(l)
    BY <1>0, <1>2, <2>1, <2>3 DEF Start, Call, Wished
  <2> QED  BY <2>2, <2>3
<1>3. ASSUME NEW l \in Listeners, Stop(l) PROVE Wished'
  <2>1. caller.step = "idle" /\ caller.of = {} /\ asked' = asked \ {l} /\ active' = active
    BY <1>3 DEF Stop, Call
  <2>2. CASE Listening(l)
    BY <1>0, <1>3, <2>1, <2>2 DEF Stop, Call, Listening, Wished
  <2>3. CASE ~Listening(l)
    BY <1>0, <1>3, <2>1, <2>3 DEF Stop, Call, Listening, Wished, On
  <2> QED  BY <2>2, <2>3
<1>4. CASE AddListener \/ RemoveListener
  BY <1>4 DEF AddListener, RemoveListener, Wished, On, TypeOK
<1>5. CASE CleanUp \/ Trigger \/ TriggerCleaned \/ Terminate \/ End
  BY <1>0, <1>5 DEF CleanUp, Trigger, TriggerCleaned, Terminate, End, Wished
<1>6. ASSUME NEW l \in caller.of, CleanListener(l) PROVE Wished'
  BY <1>6 DEF CleanListener, Wished
<1> QED
  BY <1>1, <1>2, <1>3, <1>4, <1>5, <1>6
  DEF Next, Refresher, Caller, Check, Awake, Clear, Lock, StartServer, StopServer,
      RefreshFails, Unlock, Test, Retry, Fail, Recover, vars

\* A refresher that waits has nothing to do, or is about to be woken; at rest, the client
\* listens to what was asked of it: see NothingIsSleptOver.
THEOREM NothingIsSleptOverHolds == Spec => []NothingIsSleptOver
<1>1. Init => TypeOK /\ Cared /\ Wished
  <2>1. Init => Outstanding = {}
    BY DEF Init, Outstanding
  <2>2. Init => Wished
    BY DEF Init, Wished, On, Idle, At
  <2> QED  BY <2>1, <2>2, TypeInit DEF Cared
<1>2. TypeOK /\ Cared /\ Wished /\ [Next]_vars => (TypeOK /\ Cared /\ Wished)'
  BY TypeNext, CaredNext, WishedNext
<1>3. TypeOK /\ Cared /\ Wished => NothingIsSleptOver
  <2>1. TypeOK /\ Outstanding = {} => servers = On
    BY DEF Outstanding, On, TypeOK
  <2> QED  BY <2>1 DEF Cared, Wished, NothingIsSleptOver, AsAsked, Idle, At
<1> QED  BY <1>1, <1>2, <1>3, PTL DEF Spec
-----------------------------------------------------------------------------
(***************************************************************************)
(* Cleaning up takes the active listeners one by one, and nothing is added *)
(* meanwhile or later, as the thread that adds is the one that cleans up.  *)
(***************************************************************************)
Cleaned ==
  /\ caller.step \in {"clean", "cleaned", "again"} => On \subseteq caller.of
  /\ caller.step \in {"end", "over"} => On = {}
  /\ terminated => caller.step \in {"end", "over"}

\* Every step keeps it so.
LEMMA CleanedNext == TypeOK /\ Cleaned /\ [Next]_vars => Cleaned'
<1> SUFFICES ASSUME TypeOK, Cleaned, [Next]_vars PROVE Cleaned'
  OBVIOUS
<1> USE DEF contexts, refresher, counts, At, Idle
<1>0. active' = active => On' = On
  BY DEF On
<1>1. CASE UNCHANGED <<active, caller, terminated>>
  BY <1>0, <1>1 DEF Cleaned
<1>2. ASSUME NEW l \in Listeners, Start(l) \/ Stop(l) PROVE Cleaned'
  BY <1>0, <1>2 DEF Start, Stop, Call, Cleaned
<1>3. CASE CleanUp
  BY <1>0, <1>3 DEF CleanUp, Cleaned, On
<1>4. CASE AddListener \/ RemoveListener
  BY <1>4 DEF AddListener, RemoveListener, Cleaned
<1>5. CASE Trigger \/ TriggerCleaned \/ Terminate \/ End
  BY <1>0, <1>5 DEF Trigger, TriggerCleaned, Terminate, End, Cleaned
<1>6. ASSUME NEW l \in caller.of, CleanListener(l) PROVE Cleaned'
  <2>1. On' \subseteq On \ {l}
    BY <1>6 DEF CleanListener, On, TypeOK
  <2> QED  BY <1>6, <2>1 DEF CleanListener, Cleaned
<1> QED
  BY <1>1, <1>2, <1>3, <1>4, <1>5, <1>6
  DEF Next, Refresher, Caller, Check, Awake, Clear, Lock, StartServer, StopServer,
      RefreshFails, Unlock, Test, Retry, Fail, Recover, vars

\* No server is started once the refresher was told to end: see NothingStartsAfterCleanup.
THEOREM NothingStartsAfterCleanupHolds == Spec => NothingStartsAfterCleanup
<1>1. Init => TypeOK /\ Cleaned
  BY TypeInit DEF Init, Idle, At, Cleaned
<1>2. TypeOK /\ Cleaned /\ [Next]_vars => (TypeOK /\ Cleaned)'
  BY TypeNext, CleanedNext
<1>3. TypeOK /\ Cleaned /\ [Next]_vars => [terminated => servers' \subseteq servers]_vars
  <2> SUFFICES ASSUME TypeOK, Cleaned, [Next]_vars, terminated PROVE servers' \subseteq servers
    OBVIOUS
  <2>1. ASSUME NEW l \in todo, StartServer(l) PROVE FALSE
    <3>1. l \in On
      BY <2>1 DEF StartServer, TypeOK, Outstanding, On
    <3> QED  BY <3>1 DEF Cleaned
  <2>2. ASSUME NEW l \in todo, StopServer(l) PROVE servers' \subseteq servers
    BY <2>2 DEF StopServer
  <2>3. CASE UNCHANGED servers
    BY <2>3
  <2> QED
    BY <2>1, <2>2, <2>3
    DEF Next, Refresher, Caller, Check, Awake, Clear, Lock, RefreshFails, Unlock, Test, Retry,
        Start, Stop, Call, CleanUp, AddListener, RemoveListener, Trigger, CleanListener,
        TriggerCleaned, Terminate, End, Fail, Recover, vars, contexts
<1> QED  BY <1>1, <1>2, <1>3, PTL DEF Spec, NothingStartsAfterCleanup
-----------------------------------------------------------------------------
(***************************************************************************)
(* Cleaning up is heard.                                                   *)
(***************************************************************************)

\* A refresher that was told to end neither waits for an event that nobody will set, nor
\* for a broker: what it still has to do is stopping servers, which needs none.
EndIsHeard ==
  terminated =>
    /\ pc = "wait" => event \/ caller.step = "end"
    /\ pc = "refresh" => \A l \in todo : active[l] = "off"

\* Wherever the refresher is when the client is cleaned up, nothing keeps it from ending:
\* it tests _workerterminated before each wait, and the event is set after the flag
\* (client/base.py:41-54, 150-157).
THEOREM EndIsHeardHolds == Spec => []EndIsHeard
<1> DEFINE Woken == terminated /\ pc = "wait" => event \/ caller.step = "end"
<1>1. Init => TypeOK /\ Cleaned /\ Woken
  BY TypeInit DEF Init, Idle, At, Cleaned
<1>2. TypeOK /\ Cleaned /\ Woken /\ [Next]_vars => Woken'
  <2> SUFFICES ASSUME TypeOK, Cleaned, Woken, [Next]_vars PROVE Woken'
    OBVIOUS
  <2> USE DEF contexts, refresher, counts, At, Idle
  <2>0. ~terminated \/ caller.step \in {"end", "over"}
    BY DEF Cleaned
  <2>1. CASE Check \/ Awake \/ Clear \/ Lock \/ Unlock \/ Test \/ Retry
    BY <2>1 DEF Check, Awake, Clear, Lock, Unlock, Test, Retry
  <2>2. ASSUME NEW l \in todo, StartServer(l) \/ StopServer(l) \/ RefreshFails(l) PROVE Woken'
    BY <2>2 DEF StartServer, StopServer, RefreshFails
  <2>3. ASSUME ~terminated, terminated' = terminated PROVE Woken'
    BY <2>3
  <2>4. CASE UNCHANGED <<pc, event, terminated, caller>>
    BY <2>4
  <2>5. CASE Terminate \/ End
    <3>1. caller'.step = "end" \/ event' = TRUE
      BY <2>5 DEF Terminate, End
    <3> QED  BY <3>1
  <2>6. ASSUME NEW l \in Listeners, Start(l) \/ Stop(l) PROVE ~terminated /\ terminated' = terminated
    BY <2>0, <2>6 DEF Start, Stop, Call
  <2>7. CASE \/ AddListener \/ RemoveListener \/ Trigger \/ TriggerCleaned \/ CleanUp
             \/ \E l \in caller.of : CleanListener(l)
    <3>1. caller.step \notin {"end", "over"} /\ terminated' = terminated
      BY <2>7
      DEF AddListener, RemoveListener, Trigger, TriggerCleaned, CleanUp, CleanListener
    <3> QED  BY <2>0, <2>3, <3>1
  <2> QED
    BY <2>1, <2>2, <2>3, <2>4, <2>5, <2>6, <2>7
    DEF Next, Refresher, Caller, Fail, Recover, vars
<1>3. TypeOK /\ Cleaned /\ Woken /\ [Next]_vars => (TypeOK /\ Cleaned /\ Woken)'
  BY <1>2, TypeNext, CleanedNext
<1>4. TypeOK /\ Cleaned /\ Woken => EndIsHeard
  <2> SUFFICES ASSUME TypeOK, Cleaned, terminated, pc = "refresh", NEW l \in todo
               PROVE  active[l] = "off"
    BY DEF EndIsHeard
  <2>1. l \in Listeners /\ active[l] # "on" /\ l \in servers
    BY DEF Cleaned, On, TypeOK, Outstanding
  <2> QED  BY <2>1 DEF TypeOK
<1> QED  BY <1>1, <1>3, <1>4, PTL DEF Spec
=============================================================================
