------------------------- MODULE ConfigReloadProofs -------------------------
(***************************************************************************)
(* For every number of changes and restarts, every debounce time longer    *)
(* than the script takes to build a daemon, and as long as files are only  *)
(* created, modified and deleted, no change of the configuration is lost   *)
(* and a burst of changes is one reload; there are no more daemons than    *)
(* changes in any case.                                                    *)
(***************************************************************************)
EXTENDS ConfigReload, FiniteSetTheorems, TLAPS

-----------------------------------------------------------------------------
\* TypeOK is inductive.
THEOREM TypeCorrect == Spec => []TypeOK
<1>1. Init => TypeOK
  <2>1. Init => reload \in BOOLEAN
    BY Zenon DEF Init
  <2> QED  BY <2>1, ConfigReloadAssumption
           DEF ConfigReloadAssumption, Init, TypeOK, Changes
<1>2. TypeOK /\ [Next]_vars => TypeOK'
  <2> SUFFICES ASSUME TypeOK, [Next]_vars PROVE TypeOK'
    OBVIOUS
  <2>0. reload' \in BOOLEAN
    <3>1. reload \in BOOLEAN
      BY DEF TypeOK
    <3> QED
      BY <3>1, Zenon DEF Next, Script, StartWatcher, BuildContext, CreateDaemon,
         ClearReload, LeaveLoop, Crash, Tick, Change, Callback, Expire, FindDaemon,
         RequestReload, vars
  <2> USE <2>0, ConfigReloadAssumption DEF ConfigReloadAssumption, TypeOK, Changes
  <2>1. CASE Script
    BY <2>1 DEF Script, StartWatcher, BuildContext, CreateDaemon, ClearReload, LeaveLoop,
                Goto, script, watcher
  <2>2. CASE Crash
    BY <2>2 DEF Crash
  <2>3. CASE Tick
    <3>1. left' \in [Changes -> 0 .. Debounce]
      BY <2>3 DEF Tick
    <3> QED  BY <2>3, <3>1 DEF Tick, script
  <2>4. ASSUME NEW op \in Operations, Change(op) PROVE TypeOK'
    <3>1. /\ config' = config + 1 /\ config' \in Changes
          /\ UNCHANGED <<script, building, reload, target, crashes>>
      BY <2>4 DEF Change
    <3>2. CASE UNCHANGED <<timer, left>>
      BY <3>1, <3>2 DEF script
    <3>3. CASE /\ timer' = [Cancelled EXCEPT ![config'] = "armed"]
               /\ left' = [left EXCEPT ![config'] = Debounce]
      BY <3>1, <3>3 DEF script, Cancelled
    <3> QED  BY <2>4, <3>2, <3>3, Zenon DEF Change
  <2>5. ASSUME NEW c \in Changes, Callback(c) PROVE TypeOK'
    BY <2>5 DEF Callback, Expire, FindDaemon, RequestReload, script
  <2>6. CASE UNCHANGED vars
    BY <2>6 DEF vars, script, watcher
  <2> QED  BY <2>1, <2>2, <2>3, <2>4, <2>5, <2>6 DEF Next
<1> QED  BY <1>1, <1>2, PTL DEF Spec

-----------------------------------------------------------------------------
\* Only the timer of the last change waits, and none before the watcher has started.
OneTimer == \A c \in Changes : timer[c] = "armed" => c = config /\ pc # "boot"

\* Until the flag of a new daemon is cleared, a change made after the directory was
\* read is still in its debounce time, of which no more has passed than the script
\* has used.
StillWaiting ==
  pc \in {"create", "clear"} /\ listed < config =>
    timer[config] = "armed" /\ left[config] >= Debounce - building

\* A daemon that may be asked has been created.
HasDaemon == pc \in {"clear", "run"} => daemon > 0

\* What NoChangeIsLost says while the daemon runs.
IsAsked == pc = "run" /\ listed < config => reload \/ OnItsWay(config)

IInv == TypeOK /\ OneTimer /\ StillWaiting /\ HasDaemon /\ IsAsked

\* IInv is inductive when every operation is one the handler has a method for.
LEMMA Inductive ==
  ASSUME Operations \subseteq Handled PROVE Spec => []IInv
<1> USE ConfigReloadAssumption DEF ConfigReloadAssumption
<1>1. Init /\ TypeOK => IInv
  BY DEF Init, IInv, OneTimer, StillWaiting, HasDaemon, IsAsked
<1>2. IInv /\ TypeOK' /\ [Next]_vars => IInv'
  <2> SUFFICES ASSUME IInv, TypeOK', [Next]_vars
               PROVE  OneTimer' /\ StillWaiting' /\ HasDaemon' /\ IsAsked'
    BY DEF IInv
  <2> USE DEF IInv, TypeOK, Changes
  <2>1. CASE Script
    <3> USE DEF watcher, script, Goto, OneTimer, StillWaiting, HasDaemon, IsAsked, OnItsWay
    <3>1. CASE StartWatcher
      BY <3>1 DEF StartWatcher
    <3>2. CASE BuildContext
      BY <3>2 DEF BuildContext
    <3>3. CASE CreateDaemon
      BY <3>3 DEF CreateDaemon
    <3>4. CASE ClearReload
      BY <3>4 DEF ClearReload
    <3>5. CASE LeaveLoop
      BY <3>5 DEF LeaveLoop
    <3> QED  BY <2>1, <3>1, <3>2, <3>3, <3>4, <3>5 DEF Script
  <2>2. CASE Crash
    BY <2>2 DEF Crash, OneTimer, StillWaiting, HasDaemon, IsAsked
  <2>3. CASE Tick
    <3>1. OneTimer' /\ HasDaemon' /\ IsAsked'
      BY <2>3 DEF Tick, script, OneTimer, HasDaemon, IsAsked, OnItsWay
    <3>2. StillWaiting'
      BY <2>3 DEF Tick, script, OneTimer, StillWaiting
    <3> QED  BY <3>1, <3>2
  <2>4. ASSUME NEW op \in Operations, Change(op)
        PROVE  OneTimer' /\ StillWaiting' /\ HasDaemon' /\ IsAsked'
    <3> USE <2>4 DEF Change, Cancelled, script, OneTimer, StillWaiting, HasDaemon, IsAsked,
                     OnItsWay
    <3>1. op \in Handled
      OBVIOUS
    <3>2. CASE pc = "boot"
      BY <3>2
    <3>3. CASE pc # "boot"
      <4>1. config' \in Changes /\ timer'[config'] = "armed" /\ left'[config'] = Debounce
        BY <3>1, <3>3
      <4>2. OneTimer'
        BY <3>1, <3>3
      <4> QED  BY <4>1, <4>2, <3>3
    <3> QED  BY <3>2, <3>3
  <2>5. ASSUME NEW c \in Changes, Callback(c)
        PROVE  OneTimer' /\ StillWaiting' /\ HasDaemon' /\ IsAsked'
    <3> USE <2>5 DEF script, OneTimer, StillWaiting, HasDaemon, IsAsked, OnItsWay
    <3>1. CASE Expire(c)
      BY <3>1 DEF Expire
    <3>2. CASE FindDaemon(c)
      BY <3>2 DEF FindDaemon
    <3>3. CASE RequestReload(c)
      <4>1. reload => reload'
        BY <3>3, Zenon DEF RequestReload
      <4>2. target[c] = daemon => reload'
        BY <3>3, Zenon DEF RequestReload
      <4> QED  BY <3>3, <4>1, <4>2 DEF RequestReload
    <3> QED  BY <3>1, <3>2, <3>3 DEF Callback
  <2>6. CASE UNCHANGED vars
    BY <2>6 DEF vars, script, watcher, OneTimer, StillWaiting, HasDaemon, IsAsked, OnItsWay
  <2> QED  BY <2>1, <2>2, <2>3, <2>4, <2>5, <2>6 DEF Next
<1> QED  BY <1>1, <1>2, TypeCorrect, PTL DEF Spec

\* While a daemon works with an old configuration it has been asked to reload, or what
\* will ask it is still under way.
THEOREM NoChangeIsLostHolds ==
  ASSUME Operations \subseteq Handled PROVE Spec => []NoChangeIsLost
<1>1. IInv => NoChangeIsLost
  BY DEF IInv, StillWaiting, IsAsked, NoChangeIsLost, OnItsWay
<1> QED  BY <1>1, Inductive, PTL

\* Only the timer of the last change expires.
THEOREM BurstIsOneReloadHolds ==
  ASSUME Operations \subseteq Handled PROVE Spec => BurstIsOneReload
<1>1. IInv /\ [Next]_vars =>
        [\A c \in Changes : timer[c] = "armed" /\ timer'[c] = "expired" => c = config]_vars
  BY DEF IInv, OneTimer
<1> QED  BY <1>1, Inductive, PTL DEF Spec, BurstIsOneReload
-----------------------------------------------------------------------------
(***************************************************************************)
(* Every daemon but the first was built because of a change whose timer    *)
(* asked the one before it to reload, and no timer asks two daemons.       *)
(***************************************************************************)

\* The daemon k was asked, or is about to be, because of a change.
Asked(k) == \E c \in 1 .. config : timer[c] \in {"found", "done"} /\ target[c] = k

Causes ==
  /\ \A c \in Changes : timer[c] # "unset" => c <= config
  /\ \A k \in 1 .. daemon - 1 : Asked(k)
  /\ daemon # 0 /\ (reload \/ pc \in {"build", "create"}) => Asked(daemon)
  /\ pc = "boot" => daemon = 0

\* Steps that leave a change that asked a daemon as it is leave the daemon asked.
LEMMA StaysAsked ==
  ASSUME TypeOK, TypeOK', config <= config',
         \A c \in Changes : timer[c] \in {"found", "done"} =>
                             timer'[c] \in {"found", "done"} /\ target'[c] = target[c],
         NEW k, Asked(k)
  PROVE  Asked(k)'
BY ConfigReloadAssumption DEF TypeOK, Asked, Changes

\* Every step that asks a daemon, or builds the next one, leaves the change that is to blame.
LEMMA CausesNext == TypeOK /\ TypeOK' /\ Causes /\ [Next]_vars => Causes'
<1> SUFFICES ASSUME TypeOK, TypeOK', Causes, [Next]_vars PROVE Causes'
  OBVIOUS
<1>0. daemon \in Nat /\ daemon' \in Nat /\ config \in Nat /\ config' \in Nat
  BY DEF TypeOK
<1>a. ASSUME UNCHANGED <<daemon, watcher, config>>,
             daemon # 0 /\ (reload' \/ pc' \in {"build", "create"}) =>
               reload \/ pc \in {"build", "create"},
             pc' = "boot" => daemon = 0
      PROVE  Causes'
  BY <1>a DEF Causes, Asked, watcher
<1>1. CASE Script
  <2>1. CASE StartWatcher \/ BuildContext
    BY <1>a, <2>1 DEF StartWatcher, BuildContext, Goto, Causes
  <2>2. CASE CreateDaemon
    <3>1. /\ daemon' = daemon + 1 /\ pc = "create" /\ pc' = "clear" /\ ~reload'
          /\ UNCHANGED <<config, timer, target>>
      BY <2>2 DEF CreateDaemon, Goto, watcher
    <3>2. ASSUME NEW k \in 1 .. daemon' - 1 PROVE Asked(k)
      BY <1>0, <3>1, <3>2 DEF Causes
    <3> QED  BY <3>1, <3>2 DEF Causes, Asked
  <2>3. CASE ClearReload
    BY <1>a, <2>3 DEF ClearReload, Goto
  <2>4. CASE LeaveLoop
    BY <1>a, <2>4 DEF LeaveLoop, Goto
  <2> QED  BY <1>1, <2>1, <2>2, <2>3, <2>4 DEF Script
<1>2. CASE Crash
  BY <1>2 DEF Crash, Causes, Changes
<1>3. CASE Tick
  <2>1. /\ UNCHANGED <<daemon, reload, pc, config, timer, target>>
    BY <1>3 DEF Tick, script
  <2> QED  BY <2>1 DEF Causes, Asked
<1>4. ASSUME NEW op \in Operations, Change(op) PROVE Causes'
  <2>1. config' = config + 1 /\ UNCHANGED <<pc, daemon, reload, target>>
    BY <1>4 DEF Change, script
  <2>2. \A c \in Changes : timer'[c] # timer[c] => c = config' \/ timer[c] = "armed"
    BY <1>4 DEF Change, Cancelled, TypeOK
  <2>3. \A c \in Changes : timer[c] # "unset" => c <= config
    BY DEF Causes
  <2>4. \A c \in Changes : timer'[c] # "unset" => c <= config'
    BY <1>0, <2>1, <2>2, <2>3 DEF Changes
  <2>5. \A c \in Changes : timer[c] \in {"found", "done"} => timer'[c] = timer[c]
    BY <1>0, <2>1, <2>2, <2>3 DEF Changes
  <2>6. ASSUME NEW k, Asked(k) PROVE Asked(k)'
    BY <1>0, <2>1, <2>5, <2>6, StaysAsked
  <2> QED  BY <2>1, <2>4, <2>6 DEF Causes
<1>5. ASSUME NEW c \in Changes, Callback(c) PROVE Causes'
  <2>1. UNCHANGED <<pc, daemon, config>> /\ timer[c] # "unset"
    BY <1>5 DEF Callback, Expire, FindDaemon, RequestReload, script
  <2>2. /\ \A d \in Changes : timer[d] # "unset" => d <= config
        /\ \A d \in Changes \ {c} : timer'[d] = timer[d] /\ target'[d] = target[d]
    BY <1>5 DEF Callback, Expire, FindDaemon, RequestReload, Causes, TypeOK
  <2>3. \A d \in Changes : timer'[d] # "unset" => d <= config'
    BY <2>1, <2>2
  <2>4. timer[c] \in {"found", "done"} =>
          timer'[c] \in {"found", "done"} /\ target'[c] = target[c]
    BY <1>5 DEF Callback, Expire, FindDaemon, RequestReload, TypeOK
  <2>5. ASSUME NEW k, Asked(k) PROVE Asked(k)'
    BY <1>0, <2>1, <2>2, <2>4, <2>5, StaysAsked
  <2>6. reload' /\ ~reload => Asked(daemon)'
    <3>1. CASE Expire(c) \/ FindDaemon(c)
      BY <3>1, Zenon DEF Expire, FindDaemon
    <3>2. CASE RequestReload(c)
      <4>1. reload' /\ ~reload => target[c] = daemon
        BY <3>2, Zenon DEF RequestReload
      <4>2. timer'[c] = "done" /\ target' = target /\ c \in 1 .. config
        BY <1>0, <2>1, <2>2, <3>2 DEF RequestReload, TypeOK, Changes
      <4> QED  BY <2>1, <4>1, <4>2 DEF Asked
    <3> QED  BY <1>5, <3>1, <3>2 DEF Callback
  <2> QED  BY <2>1, <2>3, <2>5, <2>6 DEF Causes
<1>6. CASE UNCHANGED vars
  BY <1>6 DEF vars, script, watcher, Causes, Asked
<1> QED  BY <1>1, <1>2, <1>3, <1>4, <1>5, <1>6 DEF Next

\* There are no more reloads than changes: a daemon is not stopped for a change that an
\* earlier one was already stopped for.
THEOREM ReloadsHaveCauseHolds == Spec => []ReloadsHaveCause
<1>1. Init => Causes
  BY DEF Init, Causes, Changes
<1>2. TypeOK /\ Causes => ReloadsHaveCause
  <2> SUFFICES ASSUME TypeOK, Causes, daemon > config + 1 PROVE FALSE
    BY DEF ReloadsHaveCause, TypeOK
  <2> DEFINE S == 1 .. daemon - 1
             T == 1 .. config
             IsCause(c, k) == timer[c] \in {"found", "done"} /\ target[c] = k
             f == [k \in S |-> CHOOSE c \in T : IsCause(c, k)]
  <2>1. daemon \in Nat /\ config \in Nat
    BY DEF TypeOK
  <2>2. ASSUME NEW k \in S PROVE f[k] \in T /\ target[f[k]] = k
    <3>1. \E c \in T : IsCause(c, k)
      BY DEF Causes, Asked
    <3> HIDE DEF IsCause, T, S
    <3>2. f[k] \in T /\ IsCause(f[k], k)
      BY <3>1, Zenon
    <3> QED  BY <3>2 DEF IsCause
  <2>3. f \in [S -> T]
    <3> HIDE DEF IsCause, T, S
    <3> QED  BY <2>2
  <2>4. /\ IsFiniteSet(S) /\ IsFiniteSet(T) /\ Cardinality(T) < Cardinality(S)
    <3>1. /\ IsFiniteSet(S) /\ Cardinality(S) = IF 1 > daemon - 1 THEN 0 ELSE daemon - 1
          /\ IsFiniteSet(T) /\ Cardinality(T) = IF 1 > config THEN 0 ELSE config
      BY <2>1, FS_Interval
    <3> HIDE DEF S, T
    <3> QED  BY <2>1, <3>1
  <2> HIDE DEF f, S, T
  <2>5. \E x, y \in S : x # y /\ f[x] = f[y]
    BY <2>3, <2>4, FS_PigeonHole
  <2> QED  BY <2>2, <2>5
<1>3. Spec => [](TypeOK /\ Causes)
  BY <1>1, CausesNext, TypeCorrect, PTL DEF Spec
<1> QED  BY <1>2, <1>3, PTL
=============================================================================
