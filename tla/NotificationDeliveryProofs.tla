--------------------- MODULE NotificationDeliveryProofs ---------------------
(***************************************************************************)
(* Theorems about NotificationDelivery, for all resources, subscriptions   *)
(* and paths, any set of wildcards, and any number of events, changes,     *)
(* failing posts and restarts.                                             *)
(***************************************************************************)
EXTENDS NotificationDelivery, TLAPS

USE DeliveryAssumption DEF Topics, Times, Threads

\* What decides on an update, and what executes it.
LEMMA DecideType ==
  ASSUME TypeOK, NEW i \in Threads, NEW s \in Subscriptions, NEW t \in Times, Decide(i, s, t)
  PROVE  pending' \in [Threads -> {Nothing} \cup Updates]
BY DEF Decide, TypeOK, Updates, Nothing

\* A decided update of the delivery times is of a node, a subscription and a time.
LEMMA UpdateType ==
  ASSUME TypeOK, NEW i \in Threads, Update(i)
  PROVE  /\ pending[i] \in Updates
         /\ pending' \in [Threads -> {Nothing} \cup Updates]
         /\ DOMAIN stat' \subseteq Subscriptions /\ stat' \in [DOMAIN stat' -> Times]
<1>1. pending[i] \in Updates
  BY DEF Update, TypeOK
<1>2. pending' \in [Threads -> {Nothing} \cup Updates]
  <2>1. ASSUME NEW j \in Threads, Orphaned(pending[j], pending[i])
        PROVE  [pending[j] EXCEPT !.kind = "lost"] \in Updates
    BY <2>1 DEF Orphaned, TypeOK, Updates, Nothing
  <2> QED  BY <2>1 DEF Update, TypeOK
<1>3. DOMAIN stat' \subseteq Subscriptions /\ stat' \in [DOMAIN stat' -> Times]
  <2>1. CASE pending[i].kind = "node"
    BY <1>1, <2>1 DEF Update, Updates
  <2>2. CASE pending[i].kind = "lost"
    BY <2>2 DEF Update, TypeOK
  <2>3. CASE pending[i].kind \notin {"node", "lost"}
    BY <1>1, <2>3 DEF Update, TypeOK, Updates
  <2> QED  BY <2>1, <2>2, <2>3
<1> QED  BY <1>1, <1>2, <1>3

\* The notification_info of nobody is one.
LEMMA NoCopyType == NoCopy \in Copies
BY DEF NoCopy, Copies

\* The initial state has the right types.
LEMMA TypeInit == Init => TypeOK
<1> SUFFICES ASSUME Init PROVE TypeOK
  OBVIOUS
<1>1. pending \in [Threads -> {Nothing} \cup Updates]
  BY DEF Init
<1>2. told \in [Subscriptions -> [Resources -> Times]]
  BY DEF Init, ViewOf, Never
<1>3. heard \in [Subscriptions -> SUBSET Times] /\ due \in [Subscriptions -> Times]
  BY DEF Init
<1>4. DOMAIN stat \subseteq Subscriptions /\ stat \in [DOMAIN stat -> Times]
  BY DEF Init, NoTimes
<1>5. api \in [step : {"idle", "saved"}]
  BY DEF Init, Idle
<1>6. copy \in Copies /\ worker \in {"wait", "topics", "list"}
  BY NoCopyType DEF Init
<1>7. /\ clock \in Times /\ latest \in [Resources -> Times]
      /\ casts \subseteq Copies /\ copies \subseteq Copies
      /\ initial \in [Subscriptions -> Times]
  BY DEF Init
<1>8. {subs, todo, list, denied, settled} \subseteq SUBSET Subscriptions
  BY DEF Init
<1>9. /\ dirty \in BOOLEAN /\ formatted \in BOOLEAN
      /\ holder \in {"none", "entries", "told"} /\ worker \in {"wait", "topics", "list"}
      /\ holder = "none" => todo = {} /\ ~formatted
      /\ IF holder = "told" THEN \E s \in Subscriptions : entry = {s} ELSE entry = {}
      /\ {wanted, listening} \subseteq SUBSET Topics
  BY DEF Init
<1>10. /\ changes \in 0 .. MaxChanges /\ failures \in 0 .. MaxFailures
       /\ restarts \in 0 .. MaxRestarts
  BY DEF Init
<1> QED  BY <1>1, <1>2, <1>3, <1>4, <1>5, <1>6, <1>7, <1>8, <1>9, <1>10 DEF TypeOK

\* The parts of the type invariant that a step of the handler's loop over entries touches.
LEMMA HearsType ==
  ASSUME TypeOK, NEW s \in Subscriptions, Hears(s)
  PROVE  /\ told' \in [Subscriptions -> [Resources -> Times]]
         /\ heard' \in [Subscriptions -> SUBSET Times]
BY DEF Hears, TypeOK, Copies

\* No step of any of the three parties breaks the types.
LEMMA TypeNext == TypeOK /\ [Next]_vars => TypeOK'
<1> SUFFICES ASSUME TypeOK, [Next]_vars PROVE TypeOK'
  OBVIOUS
<1> USE DEF events, client, handler, work, history
<1>1. ASSUME NEW r \in Resources, Publish(r) PROVE TypeOK'
  <2>1. casts' \subseteq Copies
    BY <1>1 DEF Publish, TypeOK, Copies, TopicsOf
  <2> QED  BY <1>1, <2>1 DEF Publish, TypeOK
<1>2. ASSUME NEW c \in copies, Take(c) PROVE TypeOK'
  BY <1>2 DEF Take, TypeOK
<1>3. ASSUME NEW s \in todo, Skip(s) PROVE TypeOK'
  BY <1>3 DEF Skip, At, TypeOK
<1>4. ASSUME NEW s \in todo, Drop(s) PROVE TypeOK'
  BY <1>4 DEF Drop, At, TypeOK
<1>5. ASSUME NEW s \in todo, Notify(s) PROVE TypeOK'
  <2>1. s \in Subscriptions
    BY DEF TypeOK
  <2> QED  BY <1>5, <2>1, HearsType DEF Notify, At, TypeOK
<1>6. ASSUME NEW s \in todo, NotifyFails(s) PROVE TypeOK'
  <2>1. s \in Subscriptions
    BY DEF TypeOK
  <2>2. /\ told' \in [Subscriptions -> [Resources -> Times]]
        /\ heard' \in [Subscriptions -> SUBSET Times]
    BY <1>6, <2>1, HearsType DEF NotifyFails, TypeOK
  <2> QED  BY <1>6, <2>1, <2>2 DEF NotifyFails, At, TypeOK
<1>7. CASE DecideOnTold
  <2>1. PICK s \in entry : Decide("handler", s, copy.time)
    BY <1>7 DEF DecideOnTold
  <2>2. s \in Subscriptions /\ copy.time \in Times
    BY DEF TypeOK, Copies
  <2>3. pending' \in [Threads -> {Nothing} \cup Updates]
    BY <2>1, <2>2, DecideType
  <2> QED  BY <1>7, <2>3 DEF DecideOnTold, TypeOK
<1>8. CASE UpdateTold
  BY <1>8, UpdateType DEF UpdateTold, TypeOK
<1>9. CASE Release
  BY <1>9, NoCopyType DEF Release, TypeOK
<1>10. ASSUME NEW s \in Subscriptions, Query(s) PROVE TypeOK'
  BY <1>10 DEF Query, TypeOK
<1>11. ASSUME NEW s \in Subscriptions, Accept(s) PROVE TypeOK'
  <2>1. api.states \in [Resources -> Times]
    BY <1>11 DEF Accept, TypeOK
  <2>2. Timestamp(s, api.states) \in Times
    BY <2>1 DEF Timestamp
  <2> QED  BY <1>11, <2>2 DEF Accept, TypeOK
<1>12. ASSUME NEW s \in Subscriptions, Remove(s) PROVE TypeOK'
  BY <1>12 DEF Remove, TypeOK
<1>13. CASE Refuse
  BY <1>13 DEF Refuse, TypeOK, Idle
<1>14. CASE WakeWorker
  BY <1>14 DEF WakeWorker, TypeOK, Idle
<1>15. CASE ReadTopics
  <2>1. wanted' \subseteq Topics
    BY <1>15 DEF ReadTopics, TypeOK
  <2> QED  BY <1>15, <2>1 DEF ReadTopics, TypeOK
<1>16. CASE ReadEntries
  BY <1>16 DEF ReadEntries, TypeOK
<1>17. ASSUME NEW s \in list, DecideOnInitial(s) PROVE TypeOK'
  <2>1. s \in Subscriptions /\ initial[s] \in Times
    BY DEF TypeOK
  <2>2. pending' \in [Threads -> {Nothing} \cup Updates]
    BY <1>17, <2>1, DecideType DEF DecideOnInitial
  <2> QED  BY <1>17, <2>1, <2>2 DEF DecideOnInitial, TypeOK
<1>18. CASE UpdateInitial
  BY <1>18, UpdateType DEF UpdateInitial, TypeOK
<1>19. CASE Listen
  BY <1>19 DEF Listen, TypeOK
<1>20. CASE Restart
  <2>1. stat' \in [DOMAIN stat' -> Times] /\ DOMAIN stat' \subseteq Subscriptions
    BY <1>20 DEF Restart, NoTimes
  <2>2. pending' \in [Threads -> {Nothing} \cup Updates]
    BY <1>20 DEF Restart
  <2>3. api' \in [step : {"idle", "saved"}]
    BY <1>20 DEF Restart, Idle
  <2>4. copy' \in Copies
    BY <1>20, NoCopyType DEF Restart
  <2>5. ~formatted' /\ formatted' \in BOOLEAN /\ dirty' \in BOOLEAN
    BY <1>20 DEF Restart
  <2>6. /\ todo' = {} /\ entry' = {} /\ holder' = "none"
        /\ list' = {} /\ settled' = {} /\ wanted' = {} /\ listening' = {} /\ copies' = {}
        /\ worker' = "wait"
        /\ due' = [s \in Subscriptions |-> 0] /\ restarts' \in 0 .. MaxRestarts
        /\ UNCHANGED <<events, subs, initial, changes, told, heard, denied, failures>>
    BY <1>20 DEF Restart, TypeOK
  <2> QED  BY <2>1, <2>2, <2>3, <2>4, <2>5, <2>6 DEF TypeOK
<1>21. CASE UNCHANGED vars
  BY <1>21 DEF vars, TypeOK
<1>22. ASSUME NEW c \in casts, Cast(c) PROVE TypeOK'
  <2>1. c \in Copies /\ c.time \in Times
    BY DEF TypeOK, Copies
  <2> QED  BY <1>22, <2>1 DEF Cast, TypeOK
<1>23. ASSUME NEW s \in Subscriptions, NotifyInitially(s) PROVE TypeOK'
  <2>1. api.states \in [Resources -> Times] /\ api' \in [step : {"posted"}, sub : Subscriptions,
                                                       states : [Resources -> Times]]
    BY <1>23 DEF NotifyInitially, TypeOK
  <2>2. ViewOf(s, api.states) \in [Resources -> Times]
    BY <2>1 DEF ViewOf
  <2>3. {api.states[r] : r \in Queried(s)} \subseteq Times
    BY <2>1 DEF Queried
  <2> QED  BY <1>23, <2>1, <2>2, <2>3 DEF NotifyInitially, TypeOK
<1> QED
  BY <1>1, <1>2, <1>3, <1>4, <1>5, <1>6, <1>7, <1>8, <1>9, <1>10, <1>11, <1>12, <1>13, <1>14,
     <1>15, <1>16, <1>17, <1>18, <1>19, <1>20, <1>21, <1>22, <1>23
  DEF Next, Casting, Handle, Serve, Work

\* The type invariant holds throughout.
THEOREM TypeCorrect == Spec => []TypeOK
BY TypeInit, TypeNext, PTL DEF Spec
-----------------------------------------------------------------------------
(***************************************************************************)
(* What counts as delivered was told.  Two threads write stat: what each   *)
(* has decided to write was told as well, be it the copy just posted or    *)
(* the initial notification, whose time the worker reads from the database.*)
(***************************************************************************)
Backed ==
  /\ DeliveredWasTold
  /\ \A i \in Threads : pending[i] # Nothing => pending[i].time \in heard[pending[i].sub]
  /\ \A s \in entry : copy.time \in heard[s]

\* A subscription was told at the time the database has for it, before it is saved; until
\* then nothing is for it.
Known ==
  /\ \A s \in subs \cup todo \cup list : initial[s] \in heard[s]
  /\ api.step = "asked" => heard[api.sub] = {}
  /\ api.step = "posted" =>
       /\ api.sub \notin subs \cup todo \cup list /\ due[api.sub] = 0
       /\ Timestamp(api.sub, api.states) \in heard[api.sub]
  /\ \A s \in Subscriptions : heard[s] = {} => due[s] = 0

\* The time that is saved with a new subscription is one of its initial notification.
LEMMA TimestampHeard ==
  ASSUME NEW s \in Subscriptions, NEW states \in [Resources -> Times]
  PROVE  Timestamp(s, states) \in {states[r] : r \in Queried(s)}
<1>1. CASE Path[s] = All
  BY <1>1 DEF Timestamp, Queried
<1>2. CASE Path[s] # All
  <2>1. (IF Path[s] = V1 THEN LockState ELSE Path[s]) \in Resources
    BY <1>2
  <2> QED  BY <1>2, <2>1 DEF Timestamp, Queried
<1> QED  BY <1>1, <1>2

\* Nobody forgets what it was told.
LEMMA HeardGrows ==
  ASSUME TypeOK, [Next]_vars, NEW s \in Subscriptions
  PROVE  heard[s] \subseteq heard'[s]
<1> USE DEF events, client, handler, work, history
<1>1. ASSUME NEW u \in todo, Notify(u) \/ NotifyFails(u) PROVE heard[s] \subseteq heard'[s]
  BY <1>1 DEF Notify, NotifyFails, Hears, TypeOK
<1>2. ASSUME NEW u \in Subscriptions, NotifyInitially(u) PROVE heard[s] \subseteq heard'[s]
  BY <1>2 DEF NotifyInitially, TypeOK
<1>3. CASE UNCHANGED heard
  BY <1>3
<1> QED
  BY <1>1, <1>2, <1>3 DEF Next, Casting, Handle, Serve, Work, vars, Publish, Cast, Take,
     Skip, Drop, DecideOnTold, UpdateTold, Release, Query, Accept, Refuse, Remove, WakeWorker,
     ReadTopics, ReadEntries, DecideOnInitial, UpdateInitial, Listen, Restart

\* A subscriber who is there at the start knows its initial state.
LEMMA KnownInit == Init => Known
<1> SUFFICES ASSUME Init PROVE Known
  OBVIOUS
<1>1. \A s \in subs : initial[s] \in heard[s]
  BY DEF Init
<1>2. todo = {} /\ list = {} /\ api.step \notin {"asked", "posted"}
  BY DEF Init, Idle
<1>3. due = [s \in Subscriptions |-> 0]
  BY DEF Init
<1> QED  BY <1>1, <1>2, <1>3 DEF Known

\* Subscriptions are saved with a time they were told of, and nobody forgets.
LEMMA KnownNext == TypeOK /\ Known /\ [Next]_vars => Known'
<1> SUFFICES ASSUME TypeOK, Known, [Next]_vars PROVE Known'
  OBVIOUS
<1> USE DEF events, client, handler, work, history
<1>1. ASSUME NEW r \in Resources, Publish(r) PROVE Known'
  BY <1>1 DEF Publish, Known, TypeOK
<1>2. ASSUME NEW c \in copies, Take(c) PROVE Known'
  BY <1>2 DEF Take, Known
<1>3. ASSUME NEW u \in todo, Skip(u) \/ Drop(u) PROVE Known'
  BY <1>3 DEF Skip, Drop, Known
<1>4. ASSUME NEW u \in todo, Notify(u) \/ NotifyFails(u) PROVE Known'
  <2>1. \/ heard' = heard
        \/ heard' = [heard EXCEPT ![u] = @ \cup {copy.time}]
    BY <1>4 DEF Notify, NotifyFails, Hears
  <2>2. UNCHANGED <<subs, list, initial, api, due>> /\ todo' \subseteq todo
    BY <1>4 DEF Notify, NotifyFails
  <2>3. u \in Subscriptions /\ heard[u] # {}
    BY DEF Known, TypeOK
  <2>4. /\ api.step \in {"asked", "posted"} => api.sub \in Subscriptions
        /\ api.step = "asked" => api.sub # u
    BY <2>3 DEF Known, TypeOK
  <2>5. \A s \in Subscriptions : heard[s] \subseteq heard'[s] /\ (s # u => heard'[s] = heard[s])
    BY <2>1 DEF TypeOK
  <2>6. \A s \in subs' \cup todo' \cup list' : initial'[s] \in heard'[s]
    BY <2>2, <2>5 DEF Known, TypeOK
  <2>7. /\ api'.step = "asked" => heard'[api'.sub] = {}
        /\ api'.step = "posted" =>
             /\ api'.sub \notin subs' \cup todo' \cup list' /\ due'[api'.sub] = 0
             /\ Timestamp(api'.sub, api'.states) \in heard'[api'.sub]
    BY <2>2, <2>4, <2>5 DEF Known
  <2>8. \A s \in Subscriptions : heard'[s] = {} => due'[s] = 0
    BY <2>2, <2>5 DEF Known
  <2> QED  BY <2>6, <2>7, <2>8 DEF Known
<1>5. CASE DecideOnTold \/ UpdateTold \/ Release
  BY <1>5 DEF DecideOnTold, UpdateTold, Release, Known
<1>6. ASSUME NEW s \in Subscriptions, Query(s) PROVE Known'
  BY <1>6 DEF Query, Known
<1>7. ASSUME NEW s \in Subscriptions, NotifyInitially(s) PROVE Known'
  <2>1. /\ api.step = "asked" /\ api.sub = s /\ heard[s] = {}
        /\ api.states \in [Resources -> Times]
    BY <1>7 DEF NotifyInitially, Known, TypeOK
  <2>2. /\ api'.step = "posted" /\ api'.sub = s /\ api'.states = api.states
        /\ UNCHANGED <<subs, initial, todo, list, due>>
    BY <1>7, <2>1 DEF NotifyInitially, TypeOK
  <2>3. Timestamp(s, api.states) \in heard'[s]
    BY <1>7, <2>1, TimestampHeard DEF NotifyInitially, TypeOK
  <2>4. s \notin subs \cup todo \cup list /\ due[s] = 0
    BY <2>1 DEF Known
  <2>5. \A t \in Subscriptions \ {s} : heard'[t] = heard[t]
    BY <1>7 DEF NotifyInitially, TypeOK
  <2> QED  BY <2>2, <2>3, <2>4, <2>5 DEF Known, TypeOK
<1>15. ASSUME NEW s \in Subscriptions, Accept(s) PROVE Known'
  <2>1. api.step = "posted" /\ api.sub = s /\ initial'[s] = Timestamp(s, api.states)
    BY <1>15 DEF Accept, TypeOK
  <2>2. initial'[s] \in heard[s]
    BY <2>1 DEF Known
  <2>3. \A t \in Subscriptions \ {s} : initial'[t] = initial[t]
    BY <1>15 DEF Accept, TypeOK
  <2>4. /\ subs' = subs \cup {s} /\ UNCHANGED <<todo, list, due, heard>>
        /\ api'.step = "saved"
    BY <1>15 DEF Accept
  <2> QED  BY <2>2, <2>3, <2>4 DEF Known, TypeOK
<1>16. ASSUME NEW c \in casts, Cast(c) PROVE Known'
  <2>1. \A s \in Subscriptions \ subs : due'[s] = due[s]
    BY <1>16 DEF Cast
  <2>2. \A s \in subs : heard[s] # {}
    BY DEF Known
  <2>3. api.step = "posted" => api.sub \in Subscriptions
    BY DEF TypeOK
  <2> QED  BY <1>16, <2>1, <2>2, <2>3 DEF Cast, Known
<1>8. CASE Refuse \/ WakeWorker
  BY <1>8 DEF Refuse, WakeWorker, Idle, Known
<1>9. ASSUME NEW s \in Subscriptions, Remove(s) PROVE Known'
  BY <1>9 DEF Remove, Known
<1>10. CASE ReadTopics \/ ReadEntries \/ UpdateInitial
  BY <1>10 DEF ReadTopics, ReadEntries, UpdateInitial, Known
<1>11. ASSUME NEW s \in list, DecideOnInitial(s) PROVE Known'
  BY <1>11 DEF DecideOnInitial, Known
<1>12. CASE Listen
  <2>1. /\ UNCHANGED <<subs, todo, initial, heard, api>> /\ list' = list
        /\ \A s \in Subscriptions : due'[s] \in {0, due[s]}
    BY <1>12 DEF Listen, TypeOK
  <2>2. api.step = "posted" => api.sub \in Subscriptions
    BY DEF TypeOK
  <2> QED  BY <2>1, <2>2 DEF Known
<1>13. CASE Restart
  BY <1>13 DEF Restart, Idle, Known
<1>14. CASE UNCHANGED vars
  BY <1>14 DEF vars, Known
<1> QED
  BY <1>1, <1>2, <1>3, <1>4, <1>5, <1>6, <1>7, <1>8, <1>9, <1>10, <1>11, <1>12, <1>13, <1>14,
     <1>15, <1>16 DEF Next, Casting, Handle, Serve, Work

\* There are no delivery times at the start.
LEMMA BackedInit == Init => Backed
<1> SUFFICES ASSUME Init PROVE Backed
  OBVIOUS
<1>1. DOMAIN stat = {} /\ entry = {}
  BY DEF Init, NoTimes
<1>2. pending = [i \in Threads |-> Nothing]
  BY DEF Init
<1> QED  BY <1>1, <1>2 DEF Backed, DeliveredWasTold

\* A thread decides to write what was told.
LEMMA DecideBacked ==
  ASSUME Backed, TypeOK, NEW i \in Threads, NEW s \in Subscriptions, NEW t \in heard[s],
         Decide(i, s, t)
  PROVE  \A j \in Threads : pending'[j] # Nothing => pending'[j].time \in heard[pending'[j].sub]
BY DEF Backed, Decide, Nothing, TypeOK

\* What a thread writes was told, and nobody else's update changes by it but in kind.
LEMMA UpdateBacked ==
  ASSUME Backed, TypeOK, NEW i \in Threads, Update(i)
  PROVE  /\ \A s \in DOMAIN stat' : stat'[s] \in heard[s]
         /\ \A j \in Threads :
              pending'[j] # Nothing => pending'[j].time \in heard[pending'[j].sub]
<1>1. pending[i] \in Updates /\ pending[i].time \in heard[pending[i].sub]
  BY UpdateType DEF Update, Backed
<1>2. ASSUME NEW s \in DOMAIN stat' PROVE stat'[s] \in heard[s]
  <2>1. \/ s \in DOMAIN stat /\ stat'[s] = stat[s]
        \/ s = pending[i].sub /\ stat'[s] = pending[i].time
    BY DEF Update
  <2> QED  BY <1>1, <2>1 DEF Backed, DeliveredWasTold
<1>3. ASSUME NEW j \in Threads, pending'[j] # Nothing
      PROVE  pending'[j].time \in heard[pending'[j].sub]
  <2>1. /\ pending[j] # Nothing
        /\ pending'[j] = pending[j] \/ pending'[j] = [pending[j] EXCEPT !.kind = "lost"]
    <3>1. j # i /\ (~Orphaned(pending[j], pending[i]) => pending'[j] = pending[j])
      BY <1>3 DEF Update
    <3>2. Orphaned(pending[j], pending[i]) => pending'[j] = [pending[j] EXCEPT !.kind = "lost"]
      BY <3>1, Zenon DEF Update
    <3>3. Orphaned(pending[j], pending[i]) => pending[j] # Nothing
      BY DEF Orphaned, Nothing
    <3> QED  BY <1>3, <3>1, <3>2, <3>3
  <2>2. pending[j] \in Updates
    BY <2>1 DEF TypeOK
  <2>3. pending'[j].time = pending[j].time /\ pending'[j].sub = pending[j].sub
    BY <2>1, <2>2 DEF Updates
  <2> QED  BY <2>1, <2>3 DEF Backed
<1> QED  BY <1>2, <1>3

\* No step writes a delivery time that was not posted.
LEMMA BackedNext == TypeOK /\ Known /\ Backed /\ [Next]_vars => Backed'
<1> SUFFICES ASSUME TypeOK, Known, Backed, [Next]_vars PROVE Backed'
  OBVIOUS
<1> USE DEF events, client, handler, work, history
<1>0. \A s \in Subscriptions : heard[s] \subseteq heard'[s]
  BY HeardGrows
<1>1. CASE UNCHANGED <<stat, pending>> /\ entry' = entry /\ (entry = {} \/ copy' = copy)
  <2>1. \A i \in Threads : pending[i] # Nothing => pending[i].sub \in Subscriptions
    BY DEF TypeOK, Updates
  <2> QED  BY <1>0, <1>1, <2>1 DEF Backed, DeliveredWasTold, TypeOK
<1>2. ASSUME NEW s \in todo, Notify(s) PROVE Backed'
  <2>1. \A i \in Threads : pending[i] # Nothing => pending[i].sub \in Subscriptions
    BY DEF TypeOK, Updates
  <2>2. entry' = {s} /\ UNCHANGED <<stat, pending, copy>> /\ copy.time \in heard'[s]
    BY <1>2 DEF Notify, Hears, TypeOK
  <2> QED  BY <1>0, <2>1, <2>2 DEF Backed, DeliveredWasTold, TypeOK
<1>3. CASE DecideOnTold
  <2>1. PICK s \in entry : Decide("handler", s, copy.time)
    BY <1>3 DEF DecideOnTold
  <2>2. s \in Subscriptions /\ copy.time \in heard[s]
    BY DEF TypeOK, Backed
  <2> QED  BY <1>3, <2>1, <2>2, DecideBacked DEF DecideOnTold, Backed, DeliveredWasTold
<1>4. ASSUME NEW s \in list, DecideOnInitial(s) PROVE Backed'
  <2>1. s \in Subscriptions /\ initial[s] \in heard[s]
    BY DEF TypeOK, Known
  <2> QED  BY <1>4, <2>1, DecideBacked DEF DecideOnInitial, Backed, DeliveredWasTold
<1>5. CASE UpdateTold
  BY <1>5, UpdateBacked DEF UpdateTold, Backed, DeliveredWasTold
<1>6. CASE UpdateInitial
  BY <1>6, UpdateBacked DEF UpdateInitial, Backed, DeliveredWasTold
<1>7. CASE Restart
  <2>1. pending' = [i \in Threads |-> Nothing] /\ entry' = {} /\ DOMAIN stat' = {}
    BY <1>7 DEF Restart, NoTimes
  <2> QED  BY <2>1 DEF Backed, DeliveredWasTold
<1>8. CASE UNCHANGED vars
  BY <1>8 DEF vars, Backed, DeliveredWasTold
<1>9. ASSUME NEW c \in copies, Take(c) PROVE Backed'
  BY <1>1, <1>9 DEF Take, TypeOK
<1>10. CASE Release
  BY <1>1, <1>10 DEF Release, TypeOK
<1> QED
  BY <1>1, <1>2, <1>3, <1>4, <1>5, <1>6, <1>7, <1>8, <1>9, <1>10
  DEF Next, Casting, Handle, Serve, Work, Publish, Cast, Skip, Drop, NotifyFails, Query,
      NotifyInitially, Accept, Refuse, Remove, WakeWorker, ReadTopics, ReadEntries, Listen

\* Delivery times in stat are of events posted to their subscribers: see DeliveredWasTold.
THEOREM DeliveredWasToldHolds == Spec => []DeliveredWasTold
<1>1. Init => TypeOK /\ Known /\ Backed
  BY TypeInit, KnownInit, BackedInit
<1>2. TypeOK /\ Known /\ Backed /\ [Next]_vars => (TypeOK /\ Known /\ Backed)'
  BY TypeNext, KnownNext, BackedNext
<1>3. Backed => DeliveredWasTold
  BY DEF Backed
<1> QED  BY <1>1, <1>2, <1>3, PTL DEF Spec
-----------------------------------------------------------------------------
(***************************************************************************)
(* Nobody is left out but those an event was dropped for.  The newest      *)
(* event a subscription was sent is on its way to it, or it has been told  *)
(* of one as new: a copy that waits goes to all it reaches, the loop goes  *)
(* on to all of them, and skips one only for what was delivered to it,     *)
(* which was told.                                                         *)
(***************************************************************************)
OnItsWay(s) ==
  \/ HeardSince(s, due[s])
  \/ \E c \in copies : Reaches(c, s) /\ due[s] <= c.time
  \/ s \in todo /\ due[s] <= copy.time

Underway == \A s \in subs \ denied : OnItsWay(s)

\* Copies are cast to topics that their event belongs to.
ToOwnTopics == \A c \in casts : c.topic \in TopicsOf(c.resource)

\* They are from the start, where there are none, and no step adds others.
LEMMA ToOwnTopicsNext ==
  /\ Init => ToOwnTopics
  /\ ToOwnTopics /\ [Next]_vars => ToOwnTopics'
<1>1. Init => ToOwnTopics
  BY DEF Init, ToOwnTopics
<1>2. ASSUME ToOwnTopics, NEW r \in Resources, Publish(r) PROVE ToOwnTopics'
  BY <1>2 DEF Publish, ToOwnTopics, TopicsOf
<1>3. ASSUME ToOwnTopics, casts' \subseteq casts PROVE ToOwnTopics'
  BY <1>3 DEF ToOwnTopics, TopicsOf
<1>4. ASSUME [Next]_vars PROVE casts' \subseteq casts \/ \E r \in Resources : Publish(r)
  BY <1>4 DEF Next, Casting, Handle, Serve, Work, vars, events, Publish, Cast, Take, Skip,
     Drop, Notify, NotifyFails, DecideOnTold, UpdateTold, Release, Query, NotifyInitially,
     Accept, Refuse, Remove, WakeWorker, ReadTopics, ReadEntries, DecideOnInitial,
     UpdateInitial, Listen, Restart
<1> QED  BY <1>1, <1>2, <1>3, <1>4

\* A copy to the topic that a subscription is for reaches it.
LEMMA OwnTopicReaches ==
  ASSUME NEW s \in Subscriptions, NEW c \in Copies, c.topic \in TopicsOf(c.resource),
         Path[s] = c.topic
  PROVE  Reaches(c, s)
BY DEF Reaches, Matches, TopicsOf

\* Whoever was told of something new enough remains told.
LEMMA HeardSinceGrows ==
  ASSUME TypeOK, [Next]_vars, NEW s \in Subscriptions, NEW t, HeardSince(s, t)
  PROVE  HeardSince(s, t)'
BY HeardGrows DEF HeardSince

\* A subscription that nothing was sent since it is listened to need only have been told
\* of anything.
LEMMA NothingDue ==
  ASSUME TypeOK, NEW s \in Subscriptions, heard[s] # {}, due[s] = 0
  PROVE  HeardSince(s, due[s])
BY DEF TypeOK, HeardSince

\* Nothing was sent yet at the start.
LEMMA UnderwayInit == Init => Underway
<1> SUFFICES ASSUME Init, NEW s \in subs PROVE HeardSince(s, due[s])
  BY DEF Underway, OnItsWay
<1>1. TypeOK /\ Known
  BY TypeInit, KnownInit
<1>2. due = [u \in Subscriptions |-> 0]
  BY DEF Init
<1> QED  BY <1>1, <1>2, NothingDue DEF Known, TypeOK

\* What was sent is under way until it was posted, dropped or overtaken.
LEMMA UnderwayNext ==
  TypeOK /\ Known /\ Backed /\ ToOwnTopics /\ Underway /\ [Next]_vars => Underway'
<1> SUFFICES ASSUME TypeOK, Known, Backed, ToOwnTopics, Underway, [Next]_vars,
                    NEW s \in subs', s \notin denied'
             PROVE  OnItsWay(s)'
  BY DEF Underway
<1> USE DEF events, client, handler, work, history
<1>0. s \in Subscriptions /\ TypeOK'
  BY TypeNext DEF TypeOK
<1>a. HeardSince(s, due[s]) /\ due'[s] = due[s] => OnItsWay(s)'
  BY <1>0, HeardSinceGrows DEF OnItsWay, HeardSince
<1>b. heard'[s] # {} /\ due'[s] = 0 => OnItsWay(s)'
  BY <1>0 DEF TypeOK, OnItsWay, HeardSince
<1>c. s \in subs => heard[s] # {} /\ heard'[s] # {}
  BY <1>0, HeardGrows DEF Known
<1>d. s \in subs /\ s \notin denied => OnItsWay(s)
  BY DEF Underway
<1>1. ASSUME NEW c \in casts, Cast(c) PROVE OnItsWay(s)'
  <2>1. CASE Path[s] = c.topic /\ c.topic \in listening
    <3>1. /\ c \in copies' /\ due'[s] = c.time /\ c \in Copies
          /\ c.topic \in TopicsOf(c.resource)
      <4>1. s \in subs
        BY <1>1 DEF Cast
      <4>2. c \in copies' /\ due'[s] = c.time
        BY <1>0, <1>1, <2>1, <4>1 DEF Cast
      <4> QED  BY <1>1, <4>2 DEF TypeOK, ToOwnTopics
    <3>2. Reaches(c, s) /\ c.time \in Nat
      BY <1>0, <2>1, <3>1, OwnTopicReaches DEF Copies
    <3>3. ASSUME NEW d PROVE Reaches(d, s)' <=> Reaches(d, s)
      BY DEF Reaches, Matches
    <3> QED  BY <3>1, <3>2, <3>3 DEF OnItsWay
  <2>2. CASE ~(Path[s] = c.topic /\ c.topic \in listening)
    <3>1. due'[s] = due[s] /\ copies \subseteq copies' /\ UNCHANGED <<subs, denied, todo, copy>>
      BY <1>0, <1>1, <2>2 DEF Cast
    <3> QED  BY <1>a, <1>d, <3>1 DEF OnItsWay, Reaches, Matches
  <2> QED  BY <2>1, <2>2
<1>2. ASSUME NEW c \in copies, Take(c) PROVE OnItsWay(s)'
  <2>1. UNCHANGED <<subs, denied, due, heard>> /\ copies' = copies \ {c} /\ copy' = c
    BY <1>2 DEF Take
  <2>2. Reaches(c, s) => s \in todo'
    BY <1>2, <2>1 DEF Take
  <2>3. todo = {}
    BY <1>2 DEF Take, TypeOK
  <2> QED  BY <1>a, <1>d, <2>1, <2>2, <2>3 DEF OnItsWay, Reaches, Matches
<1>3. ASSUME NEW u \in todo, Skip(u) PROVE OnItsWay(s)'
  <2>1. /\ UNCHANGED <<subs, denied, due, heard, copies, copy>> /\ todo' = todo \ {u}
        /\ Outdated(u, copy.time)
    BY <1>3 DEF Skip
  <2>2. stat[u] \in heard[u] /\ stat[u] >= copy.time
    BY <2>1 DEF Outdated, Backed, DeliveredWasTold
  <2>3. copy.time \in Nat /\ stat[u] \in Nat /\ due[s] \in Nat
    BY <1>0, <2>1 DEF TypeOK, Copies, Outdated
  <2>4. s = u /\ due[s] <= copy.time => HeardSince(s, due[s])
    BY <2>2, <2>3 DEF HeardSince
  <2> QED  BY <1>a, <1>d, <2>1, <2>4 DEF OnItsWay, Reaches, Matches
<1>4. ASSUME NEW u \in todo, Drop(u) \/ NotifyFails(u) PROVE OnItsWay(s)'
  <2>1. /\ UNCHANGED <<subs, due, copies, copy>> /\ todo' = todo \ {u}
        /\ denied' = denied \cup {u}
    BY <1>4 DEF Drop, NotifyFails
  <2> QED  BY <1>a, <1>d, <2>1 DEF OnItsWay, Reaches, Matches
<1>5. ASSUME NEW u \in todo, Notify(u) PROVE OnItsWay(s)'
  <2>1. /\ UNCHANGED <<subs, denied, due, copies, copy>> /\ todo' = todo \ {u}
        /\ copy.time \in heard'[u]
    BY <1>5 DEF Notify, Hears, TypeOK
  <2>2. s = u /\ due[s] <= copy.time => HeardSince(s, due[s])'
    BY <2>1 DEF HeardSince
  <2> QED  BY <1>a, <1>d, <2>1, <2>2 DEF OnItsWay, Reaches, Matches
<1>6. ASSUME NEW u \in Subscriptions, Accept(u) PROVE OnItsWay(s)'
  <2>1. /\ subs' = subs \cup {u} /\ UNCHANGED <<heard, denied, due, copies, copy, todo>>
        /\ api.step = "posted" /\ api.sub = u
    BY <1>6 DEF Accept
  <2>2. due[u] = 0
    BY <2>1 DEF Known
  <2>3. heard'[u] # {}
    BY <2>1 DEF Known
  <2>4. CASE s = u
    BY <1>b, <2>1, <2>2, <2>3, <2>4
  <2>5. CASE s # u
    BY <1>a, <1>d, <2>1, <2>5 DEF OnItsWay, Reaches, Matches
  <2> QED  BY <2>4, <2>5
<1>7. CASE Listen
  <2>1. UNCHANGED <<subs, denied, copy, todo>>
    BY <1>7 DEF Listen
  <2>2. due' = [u \in Subscriptions |-> 0] \/ UNCHANGED <<copies, due>>
    BY <1>7 DEF Listen
  <2> QED  BY <1>0, <1>a, <1>b, <1>c, <1>d, <2>1, <2>2 DEF OnItsWay, Reaches, Matches
<1>8. CASE Restart
  BY <1>0, <1>b, <1>c, <1>8 DEF Restart
<1>9. CASE /\ subs' \subseteq subs
           /\ UNCHANGED <<copies, copy, todo, denied, due>>
  BY <1>a, <1>d, <1>9 DEF OnItsWay, Reaches, Matches
<1>10. CASE Release
  <2>1. UNCHANGED <<subs, copies, denied, due>> /\ todo = {}
    BY <1>10 DEF Release
  <2> QED  BY <1>a, <1>d, <2>1 DEF OnItsWay, Reaches, Matches
<1> QED
  BY <1>1, <1>2, <1>3, <1>4, <1>5, <1>6, <1>7, <1>8, <1>9, <1>10
  DEF Next, Casting, Handle, Serve, Work, Publish, DecideOnTold, UpdateTold, Query,
      NotifyInitially, Refuse, Remove, WakeWorker, ReadTopics, ReadEntries, DecideOnInitial,
      UpdateInitial, vars

\* Once all is handled, subscribers have been told of what they were sent, unless it was
\* dropped: see ToldUnlessDenied.
THEOREM ToldUnlessDeniedHolds == Spec => []ToldUnlessDenied
<1> DEFINE Inv == TypeOK /\ Known /\ Backed /\ ToOwnTopics /\ Underway
<1>1. Init => Inv
  BY TypeInit, KnownInit, BackedInit, ToOwnTopicsNext, UnderwayInit
<1>2. Inv /\ [Next]_vars => Inv'
  BY TypeNext, KnownNext, BackedNext, ToOwnTopicsNext, UnderwayNext
<1>3. Inv => ToldUnlessDenied
  BY DEF TypeOK, Underway, OnItsWay, ToldUnlessDenied, AllHandled
<1> QED  BY <1>1, <1>2, <1>3, PTL DEF Spec
=============================================================================
