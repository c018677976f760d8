----------------------- MODULE NotificationOrderProofs -----------------------
(***************************************************************************)
(* No subscriber that was settled before copies could arrive is told of an *)
(* older state than the one it knows (NotificationDelivery), in whatever   *)
(* order the copies are handled and the two threads write delivery times.  *)
(*                                                                         *)
(* The argument: a settled subscription has a delivery time that is at     *)
(* least its initial one, but while the worker writes it, when there is    *)
(* nothing to handle (Noted); its effective delivery time is that of the   *)
(* copy just posted, until stat has it; and a copy in hand which is older  *)
(* than what the subscription knows of its resource is no newer than its   *)
(* effective delivery time, so that it will be skipped (Fresh).            *)
(***************************************************************************)
EXTENDS NotificationDeliveryProofs

USE DeliveryAssumption DEF Topics, Times, Threads

OfHandler == pending["handler"]
OfWorker == pending["worker"]

\* No event, copy or view is of the future.
NotPast ==
  /\ \A r \in Resources : latest[r] <= clock /\ \A s \in Subscriptions : told[s][r] <= clock
  /\ \A c \in copies : c.time <= clock
  /\ copy.time <= clock
  /\ \A c \in casts : c.time = clock
  /\ api.step \in {"asked", "posted"} => \A r \in Resources : api.states[r] <= clock

Noted ==
  /\ \A s \in settled :
       /\ heard[s] # {}
       /\ \/ s \in DOMAIN stat /\ initial[s] <= stat[s]
          \/ OfWorker # Nothing /\ OfWorker.sub = s
  /\ OfWorker # Nothing =>
       /\ OfWorker.time = initial[OfWorker.sub] /\ heard[OfWorker.sub] # {}
       /\ OfWorker.kind = "node" => settled \subseteq {OfWorker.sub}
       /\ OfWorker.sub \in settled => listening = {} /\ AllHandled /\ OfWorker.kind # "lost"
  /\ OfHandler # Nothing =>
       /\ holder = "entries"
       /\ OfHandler.kind = "node" => settled = {}
       /\ OfHandler.sub \in settled =>
            OfHandler.kind = "newer" /\ stat[OfHandler.sub] < OfHandler.time

\* A subscription that its subscriber was told of, but which is not saved yet.
Unnoted ==
  api.step = "posted" =>
    api.sub \notin settled /\ (OfWorker # Nothing => OfWorker.sub # api.sub)

\* The delivery time a settled subscription has, or is about to have.
Effective(s) ==
  IF s \in entry THEN copy.time
  ELSE IF OfHandler # Nothing /\ OfHandler.sub = s THEN OfHandler.time
  ELSE stat[s]

InHand == copies \cup (IF holder = "none" THEN {} ELSE {copy})

Fresh ==
  \A s \in settled \ denied : \A c \in InHand :
    c.time < told[s][c.resource] => c.time <= Effective(s)

\* The three updates that may be pending are well typed.
LEMMA UpdatesType ==
  ASSUME TypeOK, NEW i \in Threads, pending[i] # Nothing
  PROVE  /\ pending[i] \in Updates /\ pending[i].sub \in Subscriptions
         /\ pending[i].time \in Times /\ pending[i].kind \in {"node", "entry", "newer", "lost"}
BY DEF TypeOK, Updates

\* Nothing is newer than the present at the start.
LEMMA NotPastInit == Init => NotPast
<1> SUFFICES ASSUME Init PROVE NotPast
  OBVIOUS
<1>1. \A r \in Resources : latest[r] <= clock
  BY DEF Init
<1>2. \A s \in Subscriptions : \A r \in Resources : told[s][r] <= clock
  BY DEF Init, ViewOf, Never
<1>3. casts = {} /\ copies = {} /\ copy.time <= clock /\ api.step \notin {"asked", "posted"}
  BY DEF Init, NoCopy, Idle
<1> QED  BY <1>1, <1>2, <1>3 DEF NotPast

\* No step makes known what has not happened yet.
LEMMA NotPastNext == TypeOK /\ NotPast /\ [Next]_vars => NotPast'
<1> SUFFICES ASSUME TypeOK, NotPast, [Next]_vars PROVE NotPast'
  OBVIOUS
<1> USE DEF events, client, handler, work, history
<1>1. ASSUME NEW r \in Resources, Publish(r) PROVE NotPast'
  <2>1. clock' = clock + 1 /\ clock \in Nat
    BY <1>1 DEF Publish, TypeOK
  <2>2. UNCHANGED <<told, api, copy>>
    BY <1>1 DEF Publish
  <2>3. \A q \in Resources : latest'[q] <= clock'
    BY <1>1, <2>1 DEF Publish, NotPast, TypeOK
  <2>4. /\ \A c \in copies' : c.time <= clock'
        /\ \A c \in casts' : c.time = clock'
    BY <1>1, <2>1 DEF Publish, NotPast, TypeOK, Copies
  <2>5. \A s \in Subscriptions : \A q \in Resources : told'[s][q] <= clock'
    BY <2>1, <2>2 DEF NotPast, TypeOK
  <2>6. copy'.time <= clock'
    BY <2>1, <2>2 DEF NotPast, TypeOK, Copies
  <2>7. api'.step \in {"asked", "posted"} => \A q \in Resources : api'.states[q] <= clock'
    BY <2>1, <2>2 DEF NotPast, TypeOK
  <2> QED  BY <2>3, <2>4, <2>5, <2>6, <2>7 DEF NotPast
<1>2. ASSUME NEW c \in copies, Take(c) PROVE NotPast'
  BY <1>2 DEF Take, NotPast
<1>3. ASSUME NEW u \in todo, Skip(u) \/ Drop(u) PROVE NotPast'
  BY <1>3 DEF Skip, Drop, NotPast
<1>4. ASSUME NEW u \in todo, Notify(u) \/ NotifyFails(u) PROVE NotPast'
  <2>1. told' = told \/ told' = [told EXCEPT ![u][copy.resource] = copy.time]
    BY <1>4 DEF Notify, NotifyFails, Hears
  <2>2. copy.time <= clock /\ \A s \in Subscriptions : \A r \in Resources : told[s][r] <= clock
    BY DEF NotPast
  <2>3. ASSUME NEW s \in Subscriptions, NEW r \in Resources PROVE told'[s][r] <= clock
    <3>1. told \in [Subscriptions -> [Resources -> Times]] /\ copy.resource \in Resources
      BY DEF TypeOK, Copies
    <3>2. told'[s][r] \in {told[s][r], copy.time}
      BY <2>1, <3>1
    <3> QED  BY <2>2, <3>2
  <2>4. UNCHANGED <<clock, latest, casts, copies, copy, api>>
    BY <1>4 DEF Notify, NotifyFails
  <2> QED  BY <2>3, <2>4 DEF NotPast
<1>5. CASE DecideOnTold \/ UpdateTold \/ ReadTopics \/ ReadEntries \/ UpdateInitial \/ Listen
  BY <1>5 DEF DecideOnTold, UpdateTold, ReadTopics, ReadEntries, UpdateInitial, Listen, NotPast
<1>6. CASE Release
  <2>1. copy'.time <= clock
    BY <1>6 DEF Release, NoCopy, TypeOK
  <2> QED  BY <1>6, <2>1 DEF Release, NotPast
<1>7. ASSUME NEW u \in Subscriptions, Query(u) PROVE NotPast'
  <2>1. api' = [step |-> "asked", sub |-> u, states |-> latest] /\ UNCHANGED <<latest, clock>>
    BY <1>7 DEF Query
  <2>2. \A r \in Resources : api'.states[r] <= clock'
    BY <2>1 DEF NotPast
  <2> QED  BY <1>7, <2>2 DEF Query, NotPast
<1>8. ASSUME NEW u \in Subscriptions, NotifyInitially(u) PROVE NotPast'
  <2>1. /\ \A r \in Resources : api.states[r] <= clock
        /\ told' = [told EXCEPT ![u] = ViewOf(u, api.states)]
    BY <1>8 DEF NotifyInitially, NotPast
  <2>2. \A r \in Resources : ViewOf(u, api.states)[r] <= clock
    BY <2>1 DEF ViewOf, TypeOK
  <2>3. \A s \in Subscriptions : \A r \in Resources : told'[s][r] <= clock
    BY <2>1, <2>2 DEF NotPast, TypeOK
  <2>4. api'.states = api.states
    BY <1>8 DEF NotifyInitially
  <2> QED  BY <1>8, <2>1, <2>3, <2>4 DEF NotifyInitially, NotPast
<1>9. CASE Refuse \/ WakeWorker
  BY <1>9 DEF Refuse, WakeWorker, Idle, NotPast
<1>10. ASSUME NEW u \in Subscriptions, Remove(u) PROVE NotPast'
  BY <1>10 DEF Remove, NotPast
<1>11. ASSUME NEW u \in list, DecideOnInitial(u) PROVE NotPast'
  BY <1>11 DEF DecideOnInitial, NotPast
<1>12. CASE Restart
  <2>1. copy'.time <= clock /\ api'.step \notin {"asked", "posted"}
    BY <1>12 DEF Restart, NoCopy, Idle, TypeOK
  <2>2. UNCHANGED <<clock, latest, casts, told>> /\ copies' = {}
    BY <1>12 DEF Restart
  <2> QED  BY <2>1, <2>2 DEF NotPast
<1>13. CASE UNCHANGED vars
  BY <1>13 DEF vars, NotPast
<1>14. ASSUME NEW c \in casts, Cast(c) PROVE NotPast'
  <2>1. c.time = clock /\ clock \in Nat
    BY DEF NotPast, TypeOK
  <2>2. casts' \subseteq casts /\ copies' \subseteq copies \cup {c}
    BY <1>14 DEF Cast
  <2>3. (\A d \in copies' : d.time <= clock) /\ \A d \in casts' : d.time = clock
    BY <2>1, <2>2 DEF NotPast
  <2> QED  BY <1>14, <2>3 DEF Cast, NotPast
<1>15. ASSUME NEW u \in Subscriptions, Accept(u) PROVE NotPast'
  BY <1>15 DEF Accept, NotPast
<1> QED
  BY <1>1, <1>2, <1>3, <1>4, <1>5, <1>6, <1>7, <1>8, <1>9, <1>10, <1>11, <1>12, <1>13,
     <1>14, <1>15
  DEF Next, Casting, Handle, Serve, Work
-----------------------------------------------------------------------------
\* Nobody is settled at the start.
LEMMA NotedInit == Init => Noted
<1> SUFFICES ASSUME Init PROVE Noted
  OBVIOUS
<1>1. settled = {} /\ pending["handler"] = Nothing /\ pending["worker"] = Nothing
  BY DEF Init
<1> QED  BY <1>1 DEF Noted, OfWorker, OfHandler

\* No step notes a subscription that is not saved yet.
LEMMA UnnotedNext ==
  /\ Init => Unnoted
  /\ TypeOK /\ Known /\ Noted /\ Unnoted /\ [Next]_vars => Unnoted'
<1> USE DEF events, client, handler, work, history
<1>1. Init => Unnoted
  BY DEF Init, Unnoted, Idle
<1> SUFFICES ASSUME TypeOK, Known, Noted, Unnoted, [Next]_vars PROVE Unnoted'
  BY <1>1
<1>2. ASSUME NEW u \in Subscriptions, NotifyInitially(u) PROVE Unnoted'
  <2>1. heard[u] = {} /\ api'.sub = u /\ UNCHANGED <<settled, pending>>
    BY <1>2 DEF NotifyInitially, Known
  <2> QED  BY <2>1 DEF Unnoted, Noted, OfWorker
<1>3. ASSUME NEW u \in list, DecideOnInitial(u) PROVE Unnoted'
  <2>1. UNCHANGED api /\ settled' \subseteq settled \cup {u}
    BY <1>3 DEF DecideOnInitial
  <2>2. OfWorker' # Nothing => OfWorker'.sub = u
    BY <1>3 DEF DecideOnInitial, Decide, OfWorker, Nothing, TypeOK
  <2>3. api.step = "posted" => api.sub # u
    BY DEF Known
  <2> QED  BY <2>1, <2>2, <2>3 DEF Unnoted
<1>4. CASE UpdateInitial
  <2>1. OfWorker' = Nothing /\ UNCHANGED <<api, settled>>
    BY <1>4 DEF UpdateInitial, Update, OfWorker
  <2> QED  BY <2>1 DEF Unnoted
<1>5. CASE UpdateTold
  <2>1. OfWorker' = IF Orphaned(OfWorker, OfHandler) THEN [OfWorker EXCEPT !.kind = "lost"]
                    ELSE OfWorker
    BY <1>5, Zenon DEF UpdateTold, Update, OfWorker, OfHandler
  <2>2. Orphaned(OfWorker, OfHandler) => OfWorker # Nothing
    BY DEF Orphaned, Nothing
  <2>3. OfWorker # Nothing => OfWorker \in Updates
    BY UpdatesType DEF OfWorker
  <2>4. OfWorker \in Updates => [OfWorker EXCEPT !.kind = "lost"].sub = OfWorker.sub
    BY DEF Updates
  <2>5. OfWorker' # Nothing => OfWorker # Nothing /\ OfWorker'.sub = OfWorker.sub
    BY <2>1, <2>2, <2>3, <2>4
  <2>6. UNCHANGED <<api, settled>>
    BY <1>5 DEF UpdateTold
  <2> QED  BY <2>5, <2>6 DEF Unnoted
<1>6. CASE DecideOnTold
  <2>1. OfWorker' = OfWorker /\ UNCHANGED <<api, settled>>
    BY <1>6 DEF DecideOnTold, Decide, OfWorker, TypeOK
  <2> QED  BY <2>1 DEF Unnoted
<1>7. CASE UNCHANGED <<settled, pending>> /\ (api' = api \/ api'.step # "posted")
  BY <1>7 DEF Unnoted, OfWorker
<1>8. CASE Restart
  BY <1>8 DEF Restart, Idle, Unnoted
<1> QED
  BY <1>2, <1>3, <1>4, <1>5, <1>6, <1>7, <1>8
  DEF Next, Casting, Handle, Serve, Work, vars, Publish, Cast, Take, Skip, Drop, Notify,
      NotifyFails, Release, Query, Accept, Refuse, Remove, WakeWorker, ReadTopics,
      ReadEntries, Listen, Idle

\* While something is handled, settled subscriptions have a delivery time.
LEMMA NotedWhileHandling ==
  ASSUME Noted, ~AllHandled, NEW s \in settled
  PROVE  s \in DOMAIN stat /\ initial[s] <= stat[s] /\ ~(OfWorker # Nothing /\ OfWorker.sub = s)
BY DEF Noted

\* A step that leaves alone what Noted is about, but what was told and whether all is
\* handled, keeps it.
LEMMA NotedKept ==
  ASSUME TypeOK, Noted, [Next]_vars,
         UNCHANGED <<settled, stat, pending, initial, listening>>,
         AllHandled => AllHandled' \/ OfWorker = Nothing \/ OfWorker.sub \notin settled,
         OfHandler # Nothing => holder' = holder
  PROVE  Noted'
<1>1. \A s \in Subscriptions : heard[s] # {} => heard'[s] # {}
  BY HeardGrows
<1>2. settled \subseteq Subscriptions
  BY DEF TypeOK
<1>3. OfWorker # Nothing => OfWorker.sub \in Subscriptions
  BY UpdatesType DEF OfWorker
<1>4. UNCHANGED <<OfWorker, OfHandler>>
  BY DEF OfWorker, OfHandler
<1>5. \A s \in settled : heard'[s] # {} /\ \/ s \in DOMAIN stat /\ initial[s] <= stat[s]
                                           \/ OfWorker # Nothing /\ OfWorker.sub = s
  BY <1>1, <1>2 DEF Noted
<1>6. OfWorker # Nothing =>
        /\ OfWorker.time = initial[OfWorker.sub] /\ heard'[OfWorker.sub] # {}
        /\ OfWorker.kind = "node" => settled \subseteq {OfWorker.sub}
        /\ OfWorker.sub \in settled => listening = {} /\ AllHandled' /\ OfWorker.kind # "lost"
  BY <1>1, <1>3 DEF Noted
<1>7. OfHandler # Nothing =>
        /\ holder' = "entries"
        /\ OfHandler.kind = "node" => settled = {}
        /\ OfHandler.sub \in settled =>
             OfHandler.kind = "newer" /\ stat[OfHandler.sub] < OfHandler.time
  BY DEF Noted
<1> QED  BY <1>4, <1>5, <1>6, <1>7 DEF Noted

\* The handler's update leaves the delivery times of settled subscriptions at least where
\* they were, and is itself what becomes of the one it is for.
LEMMA UpdateToldSettled ==
  ASSUME TypeOK, Noted, UpdateTold, NEW s \in settled
  PROVE  /\ s \in DOMAIN stat' /\ stat[s] <= stat'[s] /\ initial[s] <= stat'[s]
         /\ stat'[s] = IF OfHandler.sub = s THEN OfHandler.time ELSE stat[s]
<1>1. OfHandler # Nothing /\ ~AllHandled /\ OfHandler.kind # "node"
  BY DEF UpdateTold, Update, Noted, OfHandler, AllHandled
<1>2. s \in DOMAIN stat /\ initial[s] <= stat[s]
  BY <1>1, NotedWhileHandling
<1>3. s \in Subscriptions /\ stat[s] \in Nat /\ initial[s] \in Nat /\ OfHandler.time \in Nat
  BY <1>1, <1>2, UpdatesType DEF OfHandler, TypeOK
<1>4. OfHandler.sub = s => OfHandler.kind = "newer" /\ stat[s] < OfHandler.time
  BY <1>1 DEF Noted
<1>5. /\ s \in DOMAIN stat'
      /\ stat'[s] = IF OfHandler.sub = s /\ OfHandler.kind # "lost"
                    THEN OfHandler.time ELSE stat[s]
  BY <1>1, <1>2 DEF UpdateTold, Update, OfHandler
<1> QED  BY <1>2, <1>3, <1>4, <1>5

\* The worker's update changes the delivery time of a settled subscription only while
\* there is nothing to handle.
LEMMA UpdateInitialSettled ==
  ASSUME TypeOK, Noted, UpdateInitial, NEW s \in settled
  PROVE  /\ s \in DOMAIN stat' /\ initial[s] <= stat'[s]
         /\ ~AllHandled => stat'[s] = stat[s]
<1>1. OfWorker # Nothing
  BY DEF UpdateInitial, Update, OfWorker
<1>2. CASE OfWorker.sub = s
  <2>1. OfWorker.kind # "lost" /\ AllHandled /\ OfWorker.time = initial[s]
    BY <1>1, <1>2 DEF Noted
  <2>2. s \in DOMAIN stat' /\ stat'[s] = OfWorker.time
    BY <1>2, <2>1 DEF UpdateInitial, Update, OfWorker
  <2>3. initial[s] \in Nat
    BY DEF TypeOK
  <2> QED  BY <2>1, <2>2, <2>3
<1>3. CASE OfWorker.sub # s
  <2>1. OfWorker.kind # "node" /\ s \in DOMAIN stat /\ initial[s] <= stat[s]
    BY <1>1, <1>3 DEF Noted
  <2>2. s \in DOMAIN stat' /\ stat'[s] = stat[s]
    BY <1>3, <2>1 DEF UpdateInitial, Update, OfWorker
  <2> QED  BY <2>1, <2>2
<1> QED  BY <1>2, <1>3

\* Whoever is settled stays noted, or is about to be, through every step.
LEMMA NotedNext == TypeOK /\ Known /\ Noted /\ Unnoted /\ [Next]_vars => Noted'
<1> SUFFICES ASSUME TypeOK, Known, Noted, Unnoted, [Next]_vars PROVE Noted'
  OBVIOUS
<1> USE DEF events, client, handler, work, history
<1>0. \A s \in settled : s \in Subscriptions /\ heard[s] # {} /\ heard'[s] # {}
  <2>1. \A s \in settled : s \in Subscriptions /\ heard[s] # {}
    BY DEF Noted, TypeOK
  <2>2. \A s \in Subscriptions : heard[s] \subseteq heard'[s]
    BY HeardGrows
  <2> QED  BY <2>1, <2>2
<1>1. CASE UNCHANGED <<settled, stat, pending, initial, listening, holder, copies>>
  <2>1. AllHandled => AllHandled'
    BY <1>1 DEF AllHandled
  <2> QED  BY <1>1, <2>1, NotedKept
<1>2. ASSUME NEW c \in casts, Cast(c) PROVE Noted'
  <2>1. listening = {} => copies' = copies
    BY <1>2 DEF Cast
  <2>2. OfWorker # Nothing /\ OfWorker.sub \in settled => listening = {}
    BY DEF Noted
  <2> QED  BY <1>2, <2>1, <2>2, NotedKept DEF Cast, AllHandled
<1>3. ASSUME NEW c \in copies, Take(c) PROVE Noted'
  <2>1. OfHandler = Nothing /\ ~AllHandled
    BY <1>3 DEF Take, Noted, AllHandled
  <2> QED  BY <1>3, <2>1, NotedKept DEF Take
<1>4. ASSUME NEW u \in todo, Notify(u) PROVE Noted'
  <2>1. OfHandler = Nothing /\ ~AllHandled
    BY <1>4 DEF Notify, At, OfHandler, AllHandled
  <2> QED  BY <1>4, <2>1, NotedKept DEF Notify
<1>5. CASE DecideOnTold
  <2>1. PICK u \in entry : Decide("handler", u, copy.time)
    BY <1>5 DEF DecideOnTold
  <2>2. ~AllHandled /\ holder' = "entries" /\ UNCHANGED <<settled, stat, initial, heard>>
    BY <1>5 DEF DecideOnTold, AllHandled
  <2>3. OfWorker' = OfWorker
    BY <2>1 DEF Decide, OfWorker, TypeOK
  <2>4. OfWorker # Nothing => OfWorker.sub \notin settled
    BY <2>2 DEF Noted
  <2>5. OfHandler' # Nothing =>
          /\ OfHandler'.kind = "node" => settled = {}
          /\ OfHandler'.sub \in settled =>
               OfHandler'.kind = "newer" /\ stat[OfHandler'.sub] < OfHandler'.time
    <3>1. settled \subseteq DOMAIN stat
      BY <2>2, NotedWhileHandling
    <3>2. OfHandler' = IF DOMAIN stat = {} THEN [kind |-> "node", sub |-> u, time |-> copy.time]
                       ELSE IF u \notin DOMAIN stat
                       THEN [kind |-> "entry", sub |-> u, time |-> copy.time]
                       ELSE IF stat[u] < copy.time
                       THEN [kind |-> "newer", sub |-> u, time |-> copy.time]
                       ELSE Nothing
      BY <2>1 DEF Decide, OfHandler, TypeOK
    <3> QED  BY <3>1, <3>2
  <2> QED  BY <2>2, <2>3, <2>4, <2>5 DEF Noted
<1>6. CASE UpdateTold
  <2>1. UNCHANGED <<settled, initial, heard, holder, listening, copies>>
    BY <1>6 DEF UpdateTold
  <2>2. OfHandler # Nothing /\ OfHandler' = Nothing /\ ~AllHandled
    BY <1>6 DEF UpdateTold, Update, OfHandler, Noted, AllHandled
  <2>3. \A s \in settled : s \in DOMAIN stat' /\ initial[s] <= stat'[s]
    BY <1>6, UpdateToldSettled
  <2>4. OfWorker' # Nothing =>
          /\ OfWorker # Nothing /\ OfWorker'.time = OfWorker.time /\ OfWorker'.sub = OfWorker.sub
          /\ OfWorker'.kind = "node" => OfWorker.kind = "node"
    <3>1. OfWorker' = IF Orphaned(OfWorker, OfHandler) THEN [OfWorker EXCEPT !.kind = "lost"]
                      ELSE OfWorker
      BY <1>6, Zenon DEF UpdateTold, Update, OfWorker, OfHandler
    <3>2. Orphaned(OfWorker, OfHandler) => OfWorker # Nothing
      BY DEF Orphaned, Nothing
    <3>3. OfWorker # Nothing => OfWorker \in Updates
      BY UpdatesType DEF OfWorker
    <3>4. OfWorker \in Updates =>
            LET lost == [OfWorker EXCEPT !.kind = "lost"] IN
            lost.kind = "lost" /\ lost.time = OfWorker.time /\ lost.sub = OfWorker.sub
      BY DEF Updates
    <3> QED  BY <3>1, <3>2, <3>3, <3>4
  <2>5. OfWorker' # Nothing => OfWorker'.sub \notin settled
    BY <2>2, <2>4 DEF Noted
  <2> QED  BY <1>0, <2>1, <2>2, <2>3, <2>4, <2>5 DEF Noted
<1>7. CASE Release
  <2>1. OfHandler = Nothing /\ ~AllHandled
    BY <1>7 DEF Release, OfHandler, AllHandled
  <2> QED  BY <1>7, <2>1, NotedKept DEF Release
<1>8. ASSUME NEW u \in Subscriptions, Accept(u) PROVE Noted'
  <2>1. u \notin settled /\ (OfWorker # Nothing => OfWorker.sub # u)
    BY <1>8 DEF Accept, Unnoted
  <2>2. /\ \A s \in Subscriptions \ {u} : initial'[s] = initial[s] /\ heard'[s] = heard[s]
        /\ UNCHANGED <<settled, stat, pending, listening, copies, holder>>
    BY <1>8 DEF Accept, TypeOK
  <2>3. OfWorker # Nothing => OfWorker.sub \in Subscriptions \ {u}
    BY <2>1, UpdatesType DEF Noted, OfWorker
  <2>4. settled \subseteq Subscriptions \ {u}
    BY <2>1 DEF Noted, TypeOK
  <2>5. UNCHANGED <<OfWorker, OfHandler, AllHandled>>
    BY <2>2 DEF OfWorker, OfHandler, AllHandled
  <2>6. \A s \in settled : heard'[s] # {} /\ \/ s \in DOMAIN stat /\ initial'[s] <= stat[s]
                                             \/ OfWorker # Nothing /\ OfWorker.sub = s
    BY <2>2, <2>4 DEF Noted
  <2>7. OfWorker # Nothing =>
          OfWorker.time = initial'[OfWorker.sub] /\ heard'[OfWorker.sub] # {}
    BY <2>2, <2>3 DEF Noted
  <2> QED  BY <2>2, <2>5, <2>6, <2>7 DEF Noted
<1>9. ASSUME NEW u \in list, DecideOnInitial(u) PROVE Noted'
  <2>1. /\ OfWorker = Nothing /\ Decide("worker", u, initial[u])
        /\ UNCHANGED <<stat, initial, heard, holder, listening, copies>>
        /\ settled' = IF listening = {} /\ AllHandled THEN settled \cup {u} ELSE settled
    BY <1>9 DEF DecideOnInitial, OfWorker
  <2>2. u \in Subscriptions /\ heard[u] # {} /\ initial[u] \in Nat
    BY DEF Known, TypeOK
  <2>3. OfHandler' = OfHandler /\ AllHandled' = AllHandled
    BY <2>1 DEF Decide, OfHandler, TypeOK, AllHandled
  <2>4. OfWorker' = IF DOMAIN stat = {} THEN [kind |-> "node", sub |-> u, time |-> initial[u]]
                    ELSE IF u \notin DOMAIN stat
                    THEN [kind |-> "entry", sub |-> u, time |-> initial[u]]
                    ELSE IF stat[u] < initial[u]
                    THEN [kind |-> "newer", sub |-> u, time |-> initial[u]]
                    ELSE Nothing
    BY <2>1 DEF Decide, OfWorker, TypeOK
  <2>5. u \in DOMAIN stat => stat[u] \in Nat
    BY DEF TypeOK
  <2>6. \A s \in settled : s \in DOMAIN stat /\ initial[s] <= stat[s]
    BY <2>1 DEF Noted
  <2>7. \A s \in settled' : heard'[s] # {} /\ \/ s \in DOMAIN stat /\ initial[s] <= stat[s]
                                              \/ OfWorker' # Nothing /\ OfWorker'.sub = s
    <3>1. ASSUME NEW s \in settled PROVE heard'[s] # {} /\ s \in DOMAIN stat /\ initial[s] <= stat[s]
      BY <1>0, <2>6
    <3>2. heard'[u] # {}
      BY <2>1, <2>2
    <3>3. \/ u \in DOMAIN stat /\ initial[u] <= stat[u]
          \/ OfWorker' # Nothing /\ OfWorker'.sub = u
      <4>1. CASE u \in DOMAIN stat /\ ~(stat[u] < initial[u])
        BY <2>2, <2>5, <4>1
      <4>2. CASE ~(u \in DOMAIN stat /\ ~(stat[u] < initial[u]))
        BY <2>4, <4>2 DEF Nothing
      <4> QED  BY <4>1, <4>2
    <3>4. settled' \subseteq settled \cup {u}
      BY <2>1
    <3> QED  BY <3>1, <3>2, <3>3, <3>4
  <2>8. OfWorker' # Nothing =>
          /\ OfWorker'.time = initial[OfWorker'.sub] /\ heard[OfWorker'.sub] # {}
          /\ OfWorker'.kind = "node" => settled' \subseteq {u}
          /\ OfWorker'.sub = u /\ OfWorker'.kind # "lost"
    BY <2>1, <2>2, <2>4, <2>6
  <2>9. OfWorker' # Nothing /\ u \in settled' => listening = {} /\ AllHandled
    BY <2>1, <2>2, <2>4, <2>5, <2>6
  <2>10. OfHandler # Nothing => settled' = settled
    BY <2>1 DEF Noted, AllHandled
  <2>11. OfHandler # Nothing =>
           /\ holder = "entries"
           /\ OfHandler.kind = "node" => settled' = {}
           /\ OfHandler.sub \in settled' =>
                OfHandler.kind = "newer" /\ stat[OfHandler.sub] < OfHandler.time
    BY <2>10 DEF Noted
  <2> QED  BY <2>1, <2>3, <2>7, <2>8, <2>9, <2>11 DEF Noted
<1>10. CASE UpdateInitial
  <2>1. UNCHANGED <<settled, initial, heard, holder, listening, copies>>
    BY <1>10 DEF UpdateInitial
  <2>2. OfWorker' = Nothing
    BY <1>10 DEF UpdateInitial, Update, OfWorker
  <2>3. \A s \in settled : s \in DOMAIN stat' /\ initial[s] <= stat'[s]
    BY <1>10, UpdateInitialSettled
  <2>4. OfHandler' # Nothing =>
          /\ OfHandler # Nothing /\ OfHandler'.time = OfHandler.time
          /\ OfHandler'.sub = OfHandler.sub /\ ~AllHandled
          /\ OfHandler'.kind = OfHandler.kind \/ Orphaned(OfHandler, OfWorker)
          /\ OfHandler'.kind = "node" => OfHandler.kind = "node"
    <3>1. OfHandler' = IF Orphaned(OfHandler, OfWorker) THEN [OfHandler EXCEPT !.kind = "lost"]
                       ELSE OfHandler
      BY <1>10, Zenon DEF UpdateInitial, Update, OfWorker, OfHandler
    <3>2. Orphaned(OfHandler, OfWorker) => OfHandler # Nothing
      BY DEF Orphaned, Nothing
    <3>3. OfHandler # Nothing => OfHandler \in Updates /\ ~AllHandled
      BY UpdatesType DEF OfHandler, Noted, AllHandled
    <3>4. OfHandler \in Updates =>
            LET lost == [OfHandler EXCEPT !.kind = "lost"] IN
            lost.kind = "lost" /\ lost.time = OfHandler.time /\ lost.sub = OfHandler.sub
      BY DEF Updates
    <3> QED  BY <3>1, <3>2, <3>3, <3>4
  <2>5. OfWorker # Nothing
    BY <1>10 DEF UpdateInitial, Update, OfWorker
  <2>6. OfHandler' # Nothing /\ OfHandler.sub \in settled => ~Orphaned(OfHandler, OfWorker)
    <3>1. OfHandler' # Nothing => OfWorker.sub \notin settled
      BY <2>4, <2>5 DEF Noted
    <3>2. OfWorker.kind = "node" => settled \subseteq {OfWorker.sub}
      BY <2>5 DEF Noted
    <3> QED  BY <3>1, <3>2 DEF Orphaned
  <2>7. OfHandler' # Nothing /\ OfHandler.sub \in settled =>
          stat'[OfHandler.sub] = stat[OfHandler.sub]
    BY <1>10, <2>4, UpdateInitialSettled
  <2>8. OfHandler' # Nothing =>
          /\ holder = "entries"
          /\ OfHandler'.kind = "node" => settled = {}
          /\ OfHandler'.sub \in settled =>
               OfHandler'.kind = "newer" /\ stat'[OfHandler'.sub] < OfHandler'.time
    BY <2>4, <2>6, <2>7 DEF Noted
  <2> QED  BY <1>0, <2>1, <2>2, <2>3, <2>8 DEF Noted
<1>11. CASE Listen
  <2>1. OfWorker = Nothing /\ OfWorker' = OfWorker /\ OfHandler' = OfHandler
    BY <1>11 DEF Listen, OfWorker, OfHandler
  <2> QED  BY <1>11, <2>1 DEF Listen, Noted
<1>12. CASE Restart
  <2>1. settled' = {} /\ OfWorker' = Nothing /\ OfHandler' = Nothing
    BY <1>12 DEF Restart, OfWorker, OfHandler
  <2> QED  BY <2>1 DEF Noted
<1> QED
  BY <1>1, <1>2, <1>3, <1>4, <1>5, <1>6, <1>7, <1>8, <1>9, <1>10, <1>11, <1>12
  DEF Next, Casting, Handle, Serve, Work, vars, Publish, Skip, Drop, NotifyFails, Query,
      NotifyInitially, Refuse, Remove, WakeWorker, ReadTopics, ReadEntries
-----------------------------------------------------------------------------
\* Delivery times are as new as what is known at the start.
LEMMA FreshInit == Init => Fresh
BY DEF Init, Fresh

\* While something is handled, a settled subscription's effective delivery time is a
\* number, and that of stat unless something was just posted to it.
LEMMA EffectiveType ==
  ASSUME TypeOK, Noted, ~AllHandled, NEW s \in settled
  PROVE  stat[s] \in Nat /\ Effective(s) \in Nat
<1>1. s \in DOMAIN stat
  BY NotedWhileHandling
<1>2. stat[s] \in Nat /\ copy.time \in Nat
  BY <1>1 DEF TypeOK, Copies
<1>3. OfHandler # Nothing => OfHandler.time \in Nat
  BY UpdatesType DEF OfHandler
<1> QED  BY <1>2, <1>3 DEF Effective

\* A step of others than the handler's loop: no new copy in hand, and neither views nor
\* effective delivery times change.
LEMMA FreshKept ==
  ASSUME TypeOK, Fresh, settled' = settled, denied \subseteq denied', InHand' \subseteq InHand,
         UNCHANGED <<told, entry, copy>>,
         \A s \in settled : InHand # {} => Effective(s)' = Effective(s)
  PROVE  Fresh'
BY DEF Fresh

\* A copy that the loop is about to post to a settled subscription is not older than what
\* the subscription knows of its resource.
LEMMA PostedIsNotOlder ==
  ASSUME TypeOK, Noted, Fresh, NEW s \in settled \ denied, s \in todo,
         At(s), ~Outdated(s, copy.time)
  PROVE  told[s][copy.resource] <= copy.time /\ stat[s] < copy.time /\ Effective(s) = stat[s]
<1>1. ~AllHandled /\ OfHandler = Nothing /\ entry = {}
  BY DEF At, AllHandled, OfHandler, TypeOK
<1>2. s \in DOMAIN stat /\ stat[s] \in Nat
  BY <1>1, NotedWhileHandling, EffectiveType
<1>3. copy.time \in Nat /\ copy.resource \in Resources
  BY DEF TypeOK, Copies
<1>4. told[s][copy.resource] \in Nat
  BY <1>3 DEF TypeOK
<1>5. stat[s] < copy.time
  BY <1>2, <1>3 DEF Outdated
<1>6. Effective(s) = stat[s]
  BY <1>1 DEF Effective
<1>7. copy \in InHand
  BY DEF At, InHand
<1> QED  BY <1>2, <1>3, <1>4, <1>5, <1>6, <1>7 DEF Fresh

\* No step leaves a settled subscriber with a delivery time that is too old.
LEMMA FreshNext == TypeOK /\ Known /\ NotPast /\ Noted /\ Fresh /\ [Next]_vars => Fresh'
<1> SUFFICES ASSUME TypeOK, Known, NotPast, Noted, Fresh, [Next]_vars PROVE Fresh'
  OBVIOUS
<1> USE DEF events, client, handler, work, history
<1>0. InHand # {} => ~AllHandled
  BY DEF InHand, AllHandled
<1>1. CASE /\ UNCHANGED <<settled, copies, holder, copy, told, entry, pending, stat>>
           /\ denied \subseteq denied'
  <2>1. UNCHANGED <<InHand, OfHandler>> /\ \A s \in settled : Effective(s)' = Effective(s)
    BY <1>1 DEF InHand, Effective, OfHandler
  <2> QED  BY <1>1, <2>1, FreshKept
<1>2. ASSUME NEW d \in casts, Cast(d) PROVE Fresh'
  <2>1. /\ UNCHANGED <<settled, denied, holder, copy, told, entry, pending, stat>>
        /\ copies' \subseteq copies \cup {d} /\ d.time = clock /\ d.resource \in Resources
    BY <1>2 DEF Cast, NotPast, TypeOK, Copies
  <2>2. \A s \in settled : Effective(s)' = Effective(s)
    BY <2>1 DEF Effective, OfHandler
  <2>3. ASSUME NEW s \in settled \ denied, NEW c \in InHand' \ InHand
        PROVE  ~(c.time < told[s][c.resource])
    <3>1. c = d
      BY <2>1, <2>3 DEF InHand
    <3>2. told[s][d.resource] <= clock /\ told[s][d.resource] \in Nat /\ clock \in Nat
      BY <2>1 DEF NotPast, TypeOK
    <3> QED  BY <2>1, <3>1, <3>2
  <2> QED  BY <2>1, <2>2, <2>3 DEF Fresh
<1>3. ASSUME NEW c \in copies, Take(c) PROVE Fresh'
  <2>1. UNCHANGED <<settled, denied, told, entry, pending, stat>> /\ entry = {}
    BY <1>3 DEF Take, TypeOK
  <2>2. InHand' = InHand
    BY <1>3 DEF Take, InHand
  <2>3. \A s \in settled : Effective(s)' = Effective(s)
    BY <2>1 DEF Effective, OfHandler
  <2> QED  BY <2>1, <2>2, <2>3 DEF Fresh
<1>4. ASSUME NEW u \in todo, Notify(u) PROVE Fresh'
  <2>1. /\ UNCHANGED <<settled, denied, copies, copy, pending, stat>>
        /\ At(u) /\ ~Outdated(u, copy.time) /\ entry' = {u} /\ holder' = "told"
        /\ told' = [told EXCEPT ![u][copy.resource] = copy.time]
    BY <1>4 DEF Notify, Hears
  <2>2. /\ InHand' = InHand /\ InHand # {} /\ entry = {} /\ OfHandler = Nothing
        /\ u \in Subscriptions
    BY <2>1 DEF InHand, At, OfHandler, TypeOK
  <2>3. ASSUME NEW s \in settled \ denied, NEW c \in InHand, c.time < told'[s][c.resource]
        PROVE  c.time <= Effective(s)'
    <3>1. c \in Copies /\ copy \in Copies
      BY DEF InHand, TypeOK
    <3>2. CASE s # u
      <4>1. told'[s] = told[s] /\ Effective(s)' = Effective(s)
        BY <2>1, <2>2, <3>2 DEF Effective, OfHandler, TypeOK
      <4> QED  BY <2>3, <4>1 DEF Fresh
    <3>3. CASE s = u
      <4>1. Effective(s)' = copy.time
        BY <2>1, <3>3 DEF Effective
      <4>2. CASE c.resource = copy.resource
        <5>1. told'[s][c.resource] = copy.time
          BY <2>1, <2>2, <3>1, <3>3, <4>2 DEF TypeOK, Copies
        <5> QED  BY <2>3, <3>1, <4>1, <5>1 DEF Copies
      <4>3. CASE c.resource # copy.resource
        <5>1. told'[s][c.resource] = told[s][c.resource]
          BY <2>1, <2>2, <3>1, <3>3, <4>3 DEF TypeOK, Copies
        <5>2. c.time <= Effective(s)
          BY <2>3, <5>1 DEF Fresh
        <5>3. Effective(s) = stat[s] /\ stat[s] < copy.time /\ stat[s] \in Nat
          BY <1>0, <2>1, <2>2, <3>3, PostedIsNotOlder, EffectiveType
        <5> QED  BY <3>1, <4>1, <5>2, <5>3 DEF Copies
      <4> QED  BY <4>2, <4>3
    <3> QED  BY <3>2, <3>3
  <2> QED  BY <2>1, <2>2, <2>3 DEF Fresh
<1>5. ASSUME NEW u \in todo, NotifyFails(u) PROVE Fresh'
  <2>1. /\ UNCHANGED <<settled, copies, holder, copy, entry, pending, stat>>
        /\ denied' = denied \cup {u}
        /\ told' = told \/ told' = [told EXCEPT ![u][copy.resource] = copy.time]
    BY <1>5 DEF NotifyFails, Hears
  <2>2. \A s \in settled \ denied' : s # u /\ told'[s] = told[s]
    BY <2>1 DEF TypeOK
  <2>3. InHand' = InHand /\ \A s \in settled : Effective(s)' = Effective(s)
    BY <2>1 DEF InHand, Effective, OfHandler
  <2> QED  BY <2>1, <2>2, <2>3 DEF Fresh
<1>6. CASE DecideOnTold
  <2>1. PICK u \in entry : Decide("handler", u, copy.time)
    BY <1>6 DEF DecideOnTold
  <2>2. /\ UNCHANGED <<settled, denied, copies, copy, told, stat>> /\ entry' = {}
        /\ holder = "told" /\ holder' = "entries" /\ entry = {u} /\ ~AllHandled
        /\ OfHandler = Nothing
    BY <1>6, <2>1 DEF DecideOnTold, TypeOK, AllHandled, Noted
  <2>3. InHand' = InHand
    BY <2>2 DEF InHand
  <2>4. OfHandler' = IF DOMAIN stat = {} THEN [kind |-> "node", sub |-> u, time |-> copy.time]
                     ELSE IF u \notin DOMAIN stat
                     THEN [kind |-> "entry", sub |-> u, time |-> copy.time]
                     ELSE IF stat[u] < copy.time
                     THEN [kind |-> "newer", sub |-> u, time |-> copy.time]
                     ELSE Nothing
    BY <2>1 DEF Decide, OfHandler, TypeOK
  <2>5. copy.time \in Nat
    BY DEF TypeOK, Copies
  <2>6. ASSUME NEW s \in settled PROVE Effective(s) <= Effective(s)'
    <3>1. s \in DOMAIN stat /\ stat[s] \in Nat /\ Effective(s) \in Nat
      BY <2>2, NotedWhileHandling, EffectiveType
    <3>2. CASE s # u
      <4>1. OfHandler' # Nothing => OfHandler'.sub # s
        BY <2>4, <3>2
      <4> QED  BY <2>2, <3>1, <3>2, <4>1 DEF Effective
    <3>3. CASE s = u
      <4>1. Effective(s) = copy.time
        BY <2>2, <3>3 DEF Effective
      <4>2. CASE stat[s] < copy.time
        <5>1. OfHandler' # Nothing /\ OfHandler'.sub = s /\ OfHandler'.time = copy.time
          BY <2>4, <3>1, <3>3, <4>2 DEF Nothing
        <5> QED  BY <2>2, <2>5, <4>1, <5>1 DEF Effective
      <4>3. CASE ~(stat[s] < copy.time)
        <5>1. OfHandler' = Nothing
          BY <2>4, <3>1, <3>3, <4>3
        <5> QED  BY <2>2, <2>5, <3>1, <4>1, <4>3, <5>1 DEF Effective
      <4> QED  BY <4>2, <4>3
    <3> QED  BY <3>2, <3>3
  <2>7. \A c \in InHand : c.time \in Nat
    BY DEF InHand, TypeOK, Copies
  <2>8. \A s \in settled : Effective(s) \in Nat /\ Effective(s)' \in Nat
    <3>1. \A s \in settled : Effective(s) \in Nat /\ stat[s] \in Nat
      BY <2>2, EffectiveType
    <3> QED  BY <2>2, <2>4, <2>5, <3>1 DEF Effective
  <2> QED  BY <2>2, <2>3, <2>6, <2>7, <2>8 DEF Fresh
<1>7. CASE UpdateTold
  <2>1. UNCHANGED <<settled, denied, copies, holder, copy, told, entry>>
    BY <1>7 DEF UpdateTold
  <2>2. OfHandler # Nothing /\ OfHandler' = Nothing /\ entry = {}
    BY <1>7 DEF UpdateTold, Update, OfHandler, Noted, TypeOK
  <2>3. \A s \in settled : stat'[s] = IF OfHandler.sub = s THEN OfHandler.time ELSE stat[s]
    BY <1>7, UpdateToldSettled
  <2>4. \A s \in settled : Effective(s)' = Effective(s)
    BY <2>1, <2>2, <2>3 DEF Effective
  <2>5. InHand' = InHand
    BY <2>1 DEF InHand
  <2> QED  BY <2>1, <2>4, <2>5, FreshKept
<1>8. CASE Release
  <2>1. UNCHANGED <<settled, denied, told, entry, stat, copies, pending>> /\ entry = {}
    BY <1>8 DEF Release, TypeOK
  <2>2. InHand' \subseteq InHand
    BY <1>8 DEF Release, InHand
  <2>3. \A s \in settled : Effective(s)' = Effective(s)
    BY <2>1 DEF Effective, OfHandler
  <2> QED  BY <2>1, <2>2, <2>3 DEF Fresh
<1>9. ASSUME NEW u \in Subscriptions, NotifyInitially(u) PROVE Fresh'
  <2>1. /\ UNCHANGED <<settled, denied, copies, holder, copy, entry, pending, stat>>
        /\ heard[u] = {} /\ told' = [told EXCEPT ![u] = ViewOf(u, api.states)]
    BY <1>9 DEF NotifyInitially, Known
  <2>2. \A s \in settled : told'[s] = told[s]
    BY <2>1 DEF Noted, TypeOK
  <2>3. InHand' = InHand /\ \A s \in settled : Effective(s)' = Effective(s)
    BY <2>1 DEF InHand, Effective, OfHandler
  <2> QED  BY <2>1, <2>2, <2>3 DEF Fresh
<1>10. ASSUME NEW u \in list, DecideOnInitial(u) PROVE Fresh'
  <2>1. /\ UNCHANGED <<denied, copies, holder, copy, told, entry, stat>>
        /\ settled' = settled \/ AllHandled
        /\ OfHandler' = OfHandler
    BY <1>10 DEF DecideOnInitial, Decide, OfHandler, TypeOK
  <2>2. InHand' = InHand /\ \A s \in settled : Effective(s)' = Effective(s)
    BY <2>1 DEF InHand, Effective
  <2>3. CASE settled' = settled
    BY <2>1, <2>2, <2>3, FreshKept
  <2>4. CASE AllHandled
    BY <1>0, <2>2, <2>4 DEF Fresh
  <2> QED  BY <2>1, <2>3, <2>4
<1>11. CASE UpdateInitial
  <2>1. UNCHANGED <<settled, denied, copies, holder, copy, told, entry>>
    BY <1>11 DEF UpdateInitial
  <2>2. InHand' = InHand
    BY <2>1 DEF InHand
  <2>3. CASE InHand = {}
    BY <2>2, <2>3 DEF Fresh
  <2>4. ASSUME NEW s \in settled, InHand # {} PROVE Effective(s)' = Effective(s)
    <3>1. stat'[s] = stat[s] /\ (OfWorker # Nothing /\ OfWorker.sub # s)
          /\ OfWorker.kind # "node"
      <4>1. OfWorker # Nothing
        BY <1>11 DEF UpdateInitial, Update, OfWorker
      <4> QED  BY <1>0, <1>11, <2>4, <4>1, UpdateInitialSettled DEF Noted
    <3>2. OfHandler' = IF Orphaned(OfHandler, OfWorker) THEN [OfHandler EXCEPT !.kind = "lost"]
                       ELSE OfHandler
      BY <1>11, Zenon DEF UpdateInitial, Update, OfWorker, OfHandler
    <3>3. Orphaned(OfHandler, OfWorker) => OfHandler # Nothing
      BY DEF Orphaned, Nothing
    <3>4. OfHandler # Nothing => OfHandler \in Updates
      BY UpdatesType DEF OfHandler
    <3>5. OfHandler \in Updates =>
            LET lost == [OfHandler EXCEPT !.kind = "lost"] IN
            lost.kind = "lost" /\ lost.time = OfHandler.time /\ lost.sub = OfHandler.sub
      BY DEF Updates
    <3>6. /\ OfHandler' # Nothing <=> OfHandler # Nothing
          /\ OfHandler # Nothing => OfHandler'.time = OfHandler.time
                                    /\ OfHandler'.sub = OfHandler.sub
      BY <3>2, <3>3, <3>4, <3>5 DEF Nothing, Updates
    <3> QED  BY <2>1, <3>1, <3>6 DEF Effective
  <2>5. CASE InHand # {}
    BY <2>1, <2>2, <2>4, <2>5, FreshKept
  <2> QED  BY <2>3, <2>5
<1>12. CASE Listen
  <2>1. UNCHANGED <<settled, denied, holder, copy, told, entry, pending, stat>>
    BY <1>12 DEF Listen
  <2>2. copies' \subseteq copies
    BY <1>12 DEF Listen
  <2>3. InHand' \subseteq InHand /\ \A s \in settled : Effective(s)' = Effective(s)
    BY <2>1, <2>2 DEF InHand, Effective, OfHandler
  <2> QED  BY <2>1, <2>3, FreshKept
<1>13. CASE Restart
  BY <1>13 DEF Restart, Fresh
<1> QED
  BY <1>1, <1>2, <1>3, <1>4, <1>5, <1>6, <1>7, <1>8, <1>9, <1>10, <1>11, <1>12, <1>13
  DEF Next, Casting, Handle, Serve, Work, vars, Publish, Skip, Drop, Query, Accept, Refuse,
      Remove, WakeWorker, ReadTopics, ReadEntries

NoStepBackInv == TypeOK /\ Known /\ NotPast /\ Noted /\ Unnoted /\ Fresh

\* Given the invariants, no step tells a settled subscriber of an older state.
LEMMA InvStepsNotBack ==
  ASSUME NoStepBackInv, [Next]_vars, NEW s \in settled \ denied, NEW r \in Resources
  PROVE  told[s][r] <= told'[s][r]
<1> USE DEF NoStepBackInv, events, client, handler, work, history
<1>1. s \in Subscriptions /\ told[s][r] \in Nat
  BY DEF TypeOK
<1>2. ASSUME NEW u \in todo, Notify(u) \/ NotifyFails(u) PROVE told[s][r] <= told'[s][r]
  <2>1. CASE told'[s][r] = told[s][r]
    BY <1>1, <2>1
  <2>2. CASE told'[s][r] # told[s][r]
    <3>1. /\ told' = [told EXCEPT ![u][copy.resource] = copy.time]
          /\ At(u) /\ ~Outdated(u, copy.time)
      BY <1>2, <2>2 DEF Notify, NotifyFails, Hears
    <3>2. u = s /\ copy.resource = r /\ told'[s][r] = copy.time
      BY <1>1, <2>2, <3>1 DEF TypeOK, Copies
    <3> QED  BY <3>1, <3>2, PostedIsNotOlder
  <2> QED  BY <2>1, <2>2
<1>3. ASSUME NEW u \in Subscriptions, NotifyInitially(u) PROVE told[s][r] <= told'[s][r]
  <2>1. heard[u] = {} /\ heard[s] # {}
    BY <1>3 DEF NotifyInitially, Known, Noted
  <2> QED  BY <1>1, <1>3, <2>1 DEF NotifyInitially, TypeOK
<1>4. CASE UNCHANGED told
  BY <1>1, <1>4
<1> QED
  BY <1>2, <1>3, <1>4 DEF Next, Casting, Handle, Serve, Work, vars, Publish, Cast, Take,
     Skip, Drop, DecideOnTold, UpdateTold, Release, Query, Accept, Refuse, Remove, WakeWorker,
     ReadTopics, ReadEntries, DecideOnInitial, UpdateInitial, Listen, Restart

\* No settled subscriber is told of an older state than the one it knows: see NoStepBack.
THEOREM NoStepBackHolds == Spec => NoStepBack
<1>1. Init => NoStepBackInv
  BY TypeInit, KnownInit, NotPastInit, NotedInit, UnnotedNext, FreshInit DEF NoStepBackInv
<1>2. NoStepBackInv /\ [Next]_vars => NoStepBackInv'
  BY TypeNext, KnownNext, NotPastNext, NotedNext, UnnotedNext, FreshNext DEF NoStepBackInv
<1>3. NoStepBackInv /\ [Next]_vars =>
        [\A s \in settled \ denied : \A r \in Resources : told[s][r] <= told'[s][r]]_vars
  BY InvStepsNotBack
<1> QED  BY <1>1, <1>2, <1>3, PTL DEF Spec, NoStepBack
=============================================================================
