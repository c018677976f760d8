-------------------------- MODULE SyncChainProofs ---------------------------
(***************************************************************************)
(* Theorems about SyncChain, for any devices, any lists of instances, any  *)
(* holdover times from any of their sources, and any findings of the polls.*)
(***************************************************************************)
EXTENDS SyncChain, WellFoundedInduction, TLAPS

-----------------------------------------------------------------------------
(***************************************************************************)
(* The first of a list.                                                    *)
(***************************************************************************)

\* A set of natural numbers has a least one.
LEMMA Least ==
  ASSUME NEW S \in SUBSET Nat, S # {}
  PROVE  (CHOOSE i \in S : \A j \in S : i <= j) \in S
<1>1. PICK i \in S : \A j \in S : ~ (<<j, i>> \in OpToRel(<, Nat))
  BY NatLessThanWellFounded, WFMin
<1>2. \A j \in S : ~ (j < i)
  BY <1>1 DEF OpToRel
<1>3. \A j \in S : i <= j
  BY <1>2
<1> QED  BY <1>3, Zenon

\* The first of the elements that pass a test is one of them.
LEMMA FirstIsOne ==
  ASSUME NEW S, NEW order \in Seq(S), NEW F \in SUBSET DOMAIN order, F # {}
  PROVE  order[CHOOSE i \in F : \A j \in F : i <= j] \in {order[i] : i \in F}
<1>1. F \in SUBSET Nat
  OBVIOUS
<1>2. (CHOOSE i \in F : \A j \in F : i <= j) \in F
  BY <1>1, Least
<1> HIDE <1>1
<1> QED  BY <1>2, Zenon

\* The instances that the daemon picks are of its lists and have the device.
LEMMA PrimaryGnssIsListed ==
  ASSUME NEW d, PrimaryGnss(d) # None
  PROVE  PrimaryGnss(d) \in GnssInstances /\ d \in GnssDevices[PrimaryGnss(d)]
<1> DEFINE Found == {i \in DOMAIN GnssOrder : d \in GnssDevices[GnssOrder[i]]}
<1>1. Found # {} /\ PrimaryGnss(d) = GnssOrder[CHOOSE i \in Found : \A j \in Found : i <= j]
  BY Zenon DEF PrimaryGnss, First
<1>2. PrimaryGnss(d) \in {GnssOrder[i] : i \in Found}
  <2> HIDE DEF Found
  <2>1. Found \in SUBSET DOMAIN GnssOrder
    BY DEF Found
  <2>2. GnssOrder \in Seq(GnssInstances)
    BY SyncChainAssumption
  <2> QED  BY <1>1, <2>1, <2>2, FirstIsOne, Zenon
<1>3. DOMAIN GnssOrder = 1 .. Len(GnssOrder)
  BY SyncChainAssumption
<1> QED  BY <1>2, <1>3 DEF GnssInstances

\* The ptp4l instance found for a device is one of the list and has the device.
LEMMA PrimaryPtpIsListed ==
  ASSUME NEW d, PrimaryPtp(d) # None
  PROVE  PrimaryPtp(d) \in PtpInstances /\ d \in PtpDevices[PrimaryPtp(d)]
<1> DEFINE Found(s) == {i \in DOMAIN PtpOrder : /\ d \in PtpDevices[PtpOrder[i]]
                                               /\ ptp[PtpOrder[i]].source = s}
           With(s) == First(PtpOrder, LAMBDA p : d \in PtpDevices[p] /\ ptp[p].source = s)
<1>1. ASSUME NEW s, With(s) # None
      PROVE  With(s) \in PtpInstances /\ d \in PtpDevices[With(s)]
  <2>1. Found(s) # {} /\ With(s) = PtpOrder[CHOOSE i \in Found(s) : \A j \in Found(s) : i <= j]
    BY <1>1, Zenon DEF First
  <2>2. With(s) \in {PtpOrder[i] : i \in Found(s)}
    <3> HIDE DEF Found, With
    <3>1. Found(s) \in SUBSET DOMAIN PtpOrder
      BY DEF Found
    <3>2. PtpOrder \in Seq(PtpInstances)
      BY SyncChainAssumption
    <3> QED  BY <2>1, <3>1, <3>2, FirstIsOne, Zenon
  <2>3. DOMAIN PtpOrder = 1 .. Len(PtpOrder)
    BY SyncChainAssumption
  <2> HIDE DEF With
  <2> QED  BY <2>2, <2>3 DEF PtpInstances
<1>2. PrimaryPtp(d) = IF With(TypePTP) # None THEN With(TypePTP) ELSE With(TypeGNSS)
  BY DEF PrimaryPtp
<1> HIDE DEF With
<1> QED  BY <1>1, <1>2

\* The holdover times the daemon works out are numbers.
LEMMA HoldoverIsNat ==
  /\ OsHoldover \in Nat
  /\ \A g \in GnssInstances : GnssHoldover(g) \in Nat
  /\ \A p \in PtpInstances : PtpHoldover(p) \in Nat
<1>1. /\ Env.ptp \in Nat \cup {Unset} /\ Env.gnss \in Nat \cup {Unset}
      /\ Env.os \in Nat \cup {Unset} /\ Conf[Phc2sys] \in Nat \cup {Unset}
      /\ \A i \in PtpInstances \cup GnssInstances : Conf[i] \in Nat \cup {Unset}
      /\ DefaultHoldover \in Nat
  BY SyncChainAssumption
<1>2. ASSUME NEW v \in Nat \cup {Unset}, NEW default \in Nat PROVE Or(v, default) \in Nat
  BY DEF Or
<1>3. OsHoldover \in Nat
  BY <1>1, <1>2 DEF OsHoldover, get_instance_osclock_holdover_time
<1>4. ASSUME NEW i \in PtpInstances \cup GnssInstances, NEW default \in Nat
      PROVE  get_instance_holdover_time(i, default) \in Nat
  BY <1>1, <1>2 DEF get_instance_holdover_time
<1>5. ASSUME NEW g \in GnssInstances PROVE get_instance_gnss_holdover_time(g) \in Nat
  BY <1>1, <1>2 DEF get_instance_gnss_holdover_time
<1>6. ASSUME NEW p \in PtpInstances PROVE EffectiveHoldover(p) \in Nat
  <2> DEFINE Found ==
           {i \in DOMAIN GnssOrder : GnssDevices[GnssOrder[i]] \cap PtpDevices[p] # {}}
             shared == First(GnssOrder, LAMBDA g : GnssDevices[g] \cap PtpDevices[p] # {})
  <2>1. ASSUME shared # None PROVE shared \in GnssInstances
    <3>1. Found # {} /\ shared = GnssOrder[CHOOSE i \in Found : \A j \in Found : i <= j]
      BY <2>1, Zenon DEF First
    <3>2. shared \in {GnssOrder[i] : i \in Found}
      <4> HIDE DEF Found, shared
      <4>1. Found \in SUBSET DOMAIN GnssOrder
        BY DEF Found
      <4>2. GnssOrder \in Seq(GnssInstances)
        BY SyncChainAssumption
      <4> QED  BY <3>1, <4>1, <4>2, FirstIsOne, Zenon
    <3> HIDE DEF shared
    <3> QED  BY <3>2, SyncChainAssumption DEF GnssInstances
  <2>2. EffectiveHoldover(p) =
          IF shared = None \/ shared \in GenericTs2phc
          THEN get_instance_holdover_time(p, DefaultHoldover)
          ELSE Smaller(get_instance_holdover_time(p, DefaultHoldover),
                       get_instance_gnss_holdover_time(shared))
    BY DEF EffectiveHoldover
  <2> HIDE DEF shared
  <2> QED  BY <1>1, <1>4, <1>5, <2>1, <2>2 DEF Smaller
<1> QED  BY <1>3, <1>4, <1>5, <1>6 DEF GnssHoldover, PtpHoldover

\* So is that of a device's source, if it has one.
LEMMA SourceHoldoverIsNat ==
  ASSUME NEW d PROVE SourceHoldover(d) \in Nat \cup {Unset}
<1> DEFINE Found == {i \in DOMAIN PtpOrder : d \in PtpDevices[PtpOrder[i]]}
           ptp4l == First(PtpOrder, LAMBDA p : d \in PtpDevices[p])
<1>1. ASSUME ptp4l # None PROVE ptp4l \in PtpInstances
  <2>1. Found # {} /\ ptp4l = PtpOrder[CHOOSE i \in Found : \A j \in Found : i <= j]
    BY <1>1, Zenon DEF First
  <2>2. ptp4l \in {PtpOrder[i] : i \in Found}
    <3> HIDE DEF Found, ptp4l
    <3>1. Found \in SUBSET DOMAIN PtpOrder
      BY DEF Found
    <3>2. PtpOrder \in Seq(PtpInstances)
      BY SyncChainAssumption
    <3> QED  BY <2>1, <3>1, <3>2, FirstIsOne, Zenon
  <2> HIDE DEF ptp4l
  <2> QED  BY <2>2, SyncChainAssumption DEF PtpInstances
<1>2. SourceHoldover(d) =
        IF PrimaryGnss(d) # None THEN GnssHoldover(PrimaryGnss(d))
        ELSE IF ptp4l # None THEN PtpHoldover(ptp4l) ELSE Unset
  BY DEF SourceHoldover
<1> HIDE DEF ptp4l
<1> QED  BY <1>1, <1>2, PrimaryGnssIsListed, HoldoverIsNat
-----------------------------------------------------------------------------
(***************************************************************************)
(* The polls, as functions.                                                *)
(***************************************************************************)

\* The holdover rule, applied to a context.
LEMMA JudgedClock ==
  ASSUME NEW c \in Clock, NEW v \in {Locked, Freerun}, NEW h
  PROVE  LET next == HoldoverRule(c.state, c.age, v, h)
         IN /\ next \in {Locked, Holdover, Freerun}
            /\ Judged(c, v, h) \in Clock
            /\ Judged(c, v, h) = [state |-> next, age |-> IF next # c.state THEN 0 ELSE c.age]
<1> DEFINE next == HoldoverRule(c.state, c.age, v, h)
<1>1. next \in {Locked, Holdover, Freerun}
  BY DEF HoldoverRule
<1> HIDE DEF next
<1>2. (IF next # c.state THEN 0 ELSE c.age) \in 0 .. MaxAge
  BY SyncChainAssumption DEF Clock
<1>3. Judged(c, v, h) = [c EXCEPT !.state = next, !.age = IF next # c.state THEN 0 ELSE @]
  BY DEF Judged, next
<1> QED  BY <1>1, <1>2, <1>3 DEF Clock, SyncState, next

OsClock == [state: SyncState, age: 0 .. MaxAge, device: Devices \cup {None}]

\* The OS clock's context after a poll.
LEMMA PolledOs ==
  ASSUME NEW c \in OsClock, NEW in \in OsReadings, NEW h
  PROVE  LET device == SourceDevice(c.device, in)
             next   == HoldoverRule(c.state, c.age, OsVerdict(in), h)
         IN /\ OsPolled(c, in, h) \in OsClock
            /\ OsPolled(c, in, h) = [state |-> next, device |-> device,
                                     age |-> IF next # c.state THEN 0 ELSE c.age]
            /\ OsVerdict(in) \in {Locked, Freerun}
<1> DEFINE device == SourceDevice(c.device, in)
           v == OsVerdict(in)
           next == HoldoverRule(c.state, c.age, v, h)
<1>1. device \in Devices \cup {None}
  BY SyncChainAssumption DEF SourceDevice, OsClock, OsReading
<1>2. v \in {Locked, Freerun}
  BY DEF OsVerdict
<1>3. OsPolled(c, in, h) = [Judged(c, v, h) EXCEPT !.device = device]
  BY DEF OsPolled
<1> HIDE DEF device, v
<1>4. next \in SyncState
  BY <1>2 DEF HoldoverRule, SyncState
<1>5. Judged(c, v, h) = [c EXCEPT !.state = next, !.age = IF next # c.state THEN 0 ELSE @]
  BY DEF Judged
<1> HIDE DEF next
<1>6. (IF next # c.state THEN 0 ELSE c.age) \in 0 .. MaxAge
  BY SyncChainAssumption DEF OsClock
<1> QED  BY <1>1, <1>2, <1>3, <1>4, <1>5, <1>6 DEF OsClock, device, v, next

\* The monitor object of a ptp4l instance after a poll: the daemon is told of an event
\* exactly when the state, or the class, is another one.  The state is the one the holdover
\* rule gives for a verdict, or an incomplete answer leaves it as it is.
LEMMA PolledPtp ==
  ASSUME NEW h, NEW m \in Ptp(0)!Monitor, NEW in \in PtpReadings, in.kind # "failed"
  PROVE  LET p == Ptp(h)!Polled(m, in)
         IN /\ p \in Ptp(0)!Monitor
            /\ ~p.event => p.state = m.state
            /\ ~p.classEvent => p.class = m.class
            /\ p.age = IF p.state # m.state THEN 0 ELSE m.age
            /\ \/ p.state = m.state
               \/ \E v \in {Locked, Freerun} :
                    p.state = HoldoverRule(m.state, m.age, v, h)
<1> USE DEF Ptp!SyncState, Ptp!Locked, Ptp!Holdover, Ptp!Freerun, Ptp!Unknown,
            Ptp!SourceType, Ptp!TypePTP, Ptp!TypeGNSS, Ptp!TypeNA, Ptp!None,
            Ptp!ClockClass, Ptp!DefaultClass, Ptp!RetryLimit
<1> DEFINE v    == Ptp(h)!Verdict(m, in)
           next == Ptp(h)!HoldoverRule(m.state, m.age, v.state, h)
           read == IF in.kind = "read" THEN in.class ELSE m.read
           s    == Ptp(h)!PtpStatus(m, in)
           p    == Ptp(h)!Polled(m, in)
<1>1. v.state \in Ptp(0)!SyncState /\ v.source \in Ptp(0)!SourceType
  BY DEF Ptp!Verdict, Ptp!CheckResults, Ptp!Monitor
<1>2. read \in Ptp(0)!ClockClass \cup {None}
  BY SyncChainAssumption DEF Ptp!Reading, Ptp!PmcResult, Ptp!Monitor, None
<1>a. \/ v.state \in {Locked, Freerun}
      \/ v.state = m.state /\ m.state \notin {Locked, Freerun}
  BY DEF Ptp!Verdict, Ptp!CheckResults, Locked, Freerun
<1> HIDE DEF v, read
<1>b. \/ next = m.state
      \/ \E u \in {Locked, Freerun} : next = HoldoverRule(m.state, m.age, u, h)
  <2>1. next = HoldoverRule(m.state, m.age, v.state, h)
    BY DEF Ptp!HoldoverRule, Ptp!KeepsHoldover, Ptp!Rounded, HoldoverRule, KeepsHoldover,
           Rounded, Locked, Freerun, Holdover
  <2>2. CASE v.state \in {Locked, Freerun}
    BY <2>1, <2>2
  <2>3. CASE v.state = m.state /\ m.state \notin {Locked, Freerun}
    BY <2>1, <2>3 DEF HoldoverRule
  <2> QED  BY <1>a, <2>2, <2>3
<1>3. next \in Ptp(0)!SyncState
  BY <1>1 DEF Ptp!HoldoverRule
<1>4. s = [m EXCEPT !.state = next, !.event = next # m.state,
                    !.age = IF next # m.state THEN 0 ELSE m.age,
                    !.source = v.source, !.read = read]
  BY DEF Ptp!PtpStatus, Ptp!Monitor, v, read
<1> HIDE DEF next
<1>5. /\ s \in Ptp(0)!Monitor
      /\ s.state = next /\ s.event = (next # m.state)
      /\ s.class = m.class /\ s.read = read /\ s.retry = m.retry
      /\ s.age = IF next # m.state THEN 0 ELSE m.age
  <2> HIDE DEF s
  <2>1. (next # m.state) \in BOOLEAN
    OBVIOUS
  <2>2. (IF next # m.state THEN 0 ELSE m.age) \in 0 .. MaxAge
    BY SyncChainAssumption DEF Ptp!Monitor
  <2> QED  BY <1>1, <1>2, <1>3, <1>4, <2>1, <2>2 DEF Ptp!Monitor, None
<1> HIDE DEF s
<1> DEFINE class == IF read # None THEN read ELSE IF m.retry > 0 THEN m.class ELSE "248"
           retry == IF read = None /\ m.retry > 0 THEN m.retry - 1 ELSE 3
<1>6. p = [s EXCEPT !.retry = retry, !.class = class, !.classEvent = class # m.class]
  BY <1>5 DEF Ptp!Polled, Ptp!SetClockClass, s, None
<1>7. class \in Ptp(0)!ClockClass \cup {None} /\ retry \in 0 .. 3
  BY <1>2 DEF Ptp!Monitor, None
<1> HIDE DEF class, retry, p
<1>8. (class # m.class) \in BOOLEAN
  OBVIOUS
<1>9. /\ p \in Ptp(0)!Monitor
      /\ p.state = s.state /\ p.event = s.event /\ p.class = class /\ p.age = s.age
      /\ p.classEvent = (class # m.class)
  BY <1>5, <1>6, <1>7, <1>8, Zenon DEF Ptp!Monitor, None
<1> QED  BY <1>b, <1>5, <1>9, Zenon DEF p

SynceClock == [state: SyncState, since: {NotStarted} \cup 0 .. MaxAge]

\* The SyncE monitor object after a poll.
LEMMA PolledSynce ==
  ASSUME NEW c \in SynceClock, NEW raw, NEW h
  PROVE  /\ SyncePolled(c, raw, h) \in SynceClock
         /\ (c.state = Holdover => c.since # NotStarted) =>
              (SyncePolled(c, raw, h).state = Holdover =>
                 SyncePolled(c, raw, h).since # NotStarted)
<1>1. CASE raw = None
  BY <1>1 DEF SyncePolled
<1>2. CASE raw # None /\ raw # "holdover"
  BY <1>2 DEF SyncePolled, SynceClock, SyncState, Locked, Freerun, Holdover
<1>3. CASE raw # None /\ raw = "holdover" /\ c.state = Locked
  BY <1>3, SyncChainAssumption
  DEF SyncePolled, SynceClock, SyncState, Locked, Freerun, Holdover, NotStarted
<1>4. CASE raw # None /\ raw = "holdover" /\ c.state # Locked
  <2> DEFINE next == IF InHoldover(c, h) THEN Holdover ELSE Freerun
  <2>1. next \in {Holdover, Freerun} /\ (next = Holdover => c.state = Holdover)
    BY DEF InHoldover, Holdover, Freerun
  <2>2. SyncePolled(c, raw, h) = [c EXCEPT !.state = next]
    BY <1>4 DEF SyncePolled
  <2> HIDE DEF next
  <2> QED  BY <2>1, <2>2 DEF SynceClock, SyncState
<1> QED  BY <1>1, <1>2, <1>3, <1>4

\* A clock keeps its state while time passes.
LEMMA AgedClock ==
  ASSUME NEW d \in Delays
  PROVE  /\ \A c \in Clock :
              Aged(c, d) \in Clock /\ Aged(c, d).state = c.state
         /\ \A c \in OsClock :
              /\ Aged(c, d) \in OsClock /\ Aged(c, d).state = c.state
              /\ Aged(c, d).device = c.device
         /\ \A c \in Ptp(0)!Monitor :
              /\ Aged(c, d) \in Ptp(0)!Monitor /\ Aged(c, d).state = c.state
              /\ Aged(c, d).class = c.class /\ Aged(c, d).source = c.source
<1>1. ASSUME NEW a \in 0 .. MaxAge PROVE Smaller(a + d, MaxAge) \in 0 .. MaxAge
  BY SyncChainAssumption DEF Smaller
<1>2. ASSUME NEW c \in Clock
      PROVE  Aged(c, d) \in Clock /\ Aged(c, d).state = c.state
  BY <1>1 DEF Aged, Clock
<1>3. ASSUME NEW c \in OsClock
      PROVE  /\ Aged(c, d) \in OsClock /\ Aged(c, d).state = c.state
             /\ Aged(c, d).device = c.device
  BY <1>1 DEF Aged, OsClock
<1>4. ASSUME NEW c \in Ptp(0)!Monitor
      PROVE  /\ Aged(c, d) \in Ptp(0)!Monitor /\ Aged(c, d).state = c.state
             /\ Aged(c, d).class = c.class /\ Aged(c, d).source = c.source
  BY <1>1 DEF Aged, Ptp!Monitor
<1> QED  BY <1>2, <1>3, <1>4
-----------------------------------------------------------------------------
(***************************************************************************)
(* Types.                                                                  *)
(***************************************************************************)

\* Types hold initially.
LEMMA TypeInit == Init => TypeOK
<1> SUFFICES ASSUME Init PROVE TypeOK
  OBVIOUS
<1>1. Ptp(0)!Fresh \in Ptp(0)!Monitor
  BY SyncChainAssumption
  DEF Ptp!Fresh, Ptp!Monitor, Ptp!SyncState, Ptp!Unknown, Ptp!SourceType, Ptp!TypeNA,
      Ptp!RetryLimit, Ptp!None
<1>2. /\ [state |-> Freerun, age |-> 0] \in Clock
      /\ [state |-> Freerun, age |-> 0, device |-> None] \in OsClock
      /\ FreshSynce \in SynceClock
  BY SyncChainAssumption
  DEF Clock, OsClock, SynceClock, FreshSynce, SyncState, Freerun, Unknown
<1>3. told = [r \in DOMAIN Nothing |-> told[r]]
  BY DEF Init, Nothing
<1> QED  BY <1>1, <1>2, <1>3 DEF Init, TypeOK, OsClock, SynceClock

\* Every step keeps them: polls return clocks, and nothing forgets a resource.
LEMMA TypeNext == TypeOK /\ [Next]_vars => TypeOK'
<1> SUFFICES ASSUME TypeOK, [Next]_vars PROVE TypeOK'
  OBVIOUS
<1>1. CASE Start
  <2>1. Ptp(0)!Fresh \in Ptp(0)!Monitor
    BY SyncChainAssumption
    DEF Ptp!Fresh, Ptp!Monitor, Ptp!SyncState, Ptp!Unknown, Ptp!SourceType, Ptp!TypeNA,
        Ptp!RetryLimit, Ptp!None
  <2>2. ptp' \in [PtpInstances -> Ptp(0)!Monitor]
    BY <1>1, <2>1, PolledPtp DEF Start
  <2>3. /\ [state |-> Freerun, age |-> 0] \in Clock
        /\ FreshSynce \in SynceClock
    BY SyncChainAssumption DEF Clock, SynceClock, FreshSynce, SyncState, Freerun, Unknown
  <2>4. os' \in OsClock
    <3>1. PICK in \in OsReadings, device \in Devices \cup {None} :
            os' = [state |-> Freerun, age |-> 0, device |-> SourceDevice(device, in)]
      BY <1>1 DEF Start
    <3>2. SourceDevice(device, in) \in Devices \cup {None}
      BY SyncChainAssumption DEF SourceDevice, OsReading
    <3> QED  BY <3>1, <3>2, SyncChainAssumption DEF OsClock, SyncState, Freerun
  <2> QED  BY <1>1, <2>2, <2>3, <2>4 DEF Start, TypeOK, OsClock, SynceClock, InitiallyForced
<1>2. CASE PollPtp
  <2>1. PICK in \in [PtpInstances -> {r \in PtpReadings : r.kind # "failed"}] :
       LET new == [p \in PtpInstances |-> Ptp(PtpHoldover(p))!Polled(ptp[p], in[p])] IN
       /\ ptp' = new
       /\ told' = [told EXCEPT
            !.ptp = [p \in PtpInstances |->
                       IF forced \/ new[p].event THEN new[p].state ELSE @[p]],
            !.class = [p \in PtpInstances |->
                       IF forced \/ new[p].classEvent THEN new[p].class ELSE @[p]]]
    BY <1>2 DEF PollPtp
  <2>2. ptp' \in [PtpInstances -> Ptp(0)!Monitor]
    BY <2>1, PolledPtp DEF TypeOK
  <2>3. told' = [r \in DOMAIN Nothing |-> told'[r]]
    BY <2>1 DEF TypeOK, Nothing
  <2> QED  BY <1>2, <2>2, <2>3 DEF PollPtp, TypeOK
<1>3. CASE PollGnss
  <2>1. gnss' \in [GnssInstances -> Clock]
    BY <1>3, JudgedClock DEF PollGnss, TypeOK, GnssPolled, GnssVerdict
  <2>2. told' = [r \in DOMAIN Nothing |-> told'[r]]
    BY <1>3 DEF PollGnss, TypeOK
  <2> QED  BY <1>3, <2>1, <2>2 DEF PollGnss, TypeOK
<1>4. CASE PollSynce
  <2>1. synce' \in [SynceInstances -> SynceClock]
    BY <1>4, PolledSynce DEF PollSynce, TypeOK, SynceClock
  <2>2. told' = [r \in DOMAIN Nothing |-> told'[r]]
    BY <1>4 DEF PollSynce, TypeOK
  <2> QED  BY <1>4, <2>1, <2>2 DEF PollSynce, TypeOK, SynceClock
<1>5. CASE PollOs
  <2>1. os' \in OsClock
    BY <1>5, PolledOs DEF PollOs, TypeOK, OsClock
  <2>2. told' = [r \in DOMAIN Nothing |-> told'[r]]
    BY <1>5 DEF PollOs, TypeOK
  <2> QED  BY <1>5, <2>1, <2>2 DEF PollOs, TypeOK, OsClock
<1>6. CASE DeriveOverall
  <2>1. overall' \in Clock
    BY <1>6, JudgedClock DEF DeriveOverall, TypeOK, OverallVerdict
  <2>2. told' = [r \in DOMAIN Nothing |-> told'[r]]
    BY <1>6 DEF DeriveOverall, TypeOK
  <2> QED  BY <1>6, <2>1, <2>2 DEF DeriveOverall, TypeOK
<1>7. CASE Wait
  <2>1. PICK d \in Delays :
       /\ ptp' = [p \in PtpInstances |-> Aged(ptp[p], d)]
       /\ gnss' = [g \in GnssInstances |-> Aged(gnss[g], d)]
       /\ synce' = [s \in SynceInstances |->
                      IF synce[s].state = Holdover /\ synce[s].since # NotStarted
                      THEN [synce[s] EXCEPT !.since = Smaller(@ + d, MaxAge)]
                      ELSE synce[s]]
       /\ os' = Aged(os, d)
       /\ overall' = Aged(overall, d)
    BY <1>7 DEF Wait
  <2>2. ASSUME NEW a \in 0 .. MaxAge PROVE Smaller(a + d, MaxAge) \in 0 .. MaxAge
    BY SyncChainAssumption DEF Smaller
  <2>3. synce' \in [SynceInstances -> SynceClock]
    BY <2>1, <2>2 DEF TypeOK, SynceClock
  <2>4. /\ ptp' \in [PtpInstances -> Ptp(0)!Monitor]
        /\ gnss' \in [GnssInstances -> Clock]
        /\ os' \in OsClock /\ overall' \in Clock
    BY <2>1, AgedClock DEF TypeOK, OsClock
  <2> QED  BY <1>7, <2>3, <2>4 DEF Wait, TypeOK, OsClock, SynceClock
<1>8. CASE Die \/ Reload \/ UNCHANGED vars
  BY <1>8 DEF Die, Reload, vars, TypeOK
<1> QED
  BY <1>1, <1>2, <1>3, <1>4, <1>5, <1>6, <1>7, <1>8 DEF Next, Iterate

\* Every reachable state has the types TypeOK names: ages stay within their bound, and the
\* OS clock's device is one that phc2sys can name, or none.
THEOREM TypeCorrect == Spec => []TypeOK
BY TypeInit, TypeNext, PTL DEF Spec
-----------------------------------------------------------------------------
(***************************************************************************)
(* Holdover is timed.  Each clock has holdover time left, or has just      *)
(* begun, from its poll to the end of the iteration.                       *)
(***************************************************************************)
SynceTimed ==
  \A s \in SynceInstances : synce[s].state = Holdover => synce[s].since # NotStarted

\* A failing read, or time, does not make a SyncE instance forget when holdover began.
LEMMA SynceTimedNext == TypeOK /\ SynceTimed /\ [Next]_vars => SynceTimed'
<1> SUFFICES ASSUME TypeOK, SynceTimed, [Next]_vars PROVE SynceTimed'
  OBVIOUS
<1> USE DEF SynceTimed
<1>1. CASE Start
  BY <1>1 DEF Start, FreshSynce, Unknown, Holdover
<1>2. CASE PollSynce
  BY <1>2, PolledSynce DEF PollSynce, TypeOK, SynceClock
<1>3. CASE Wait
  <2>1. ASSUME NEW d \in Delays, NEW a \in 0 .. MaxAge
        PROVE  Smaller(a + d, MaxAge) # NotStarted
    BY SyncChainAssumption DEF Smaller, NotStarted
  <2> QED  BY <1>3, <2>1 DEF Wait, TypeOK
<1>4. CASE UNCHANGED synce
  BY <1>4
<1> QED
  BY <1>1, <1>2, <1>3, <1>4
  DEF Next, Iterate, Die, Reload, PollPtp, PollGnss, PollOs, DeriveOverall, vars

\* The holdover rule leaves a clock in HOLDOVER only while there is time.
LEMMA RuleIsTimed ==
  ASSUME NEW s, NEW a, NEW v \in {Locked, Freerun}, NEW h,
         HoldoverRule(s, a, v, h) = Holdover
  PROVE  s # Holdover \/ Rounded(a) < h
BY DEF HoldoverRule, KeepsHoldover, Locked, Freerun, Holdover

TimedSoFar ==
  /\ pc \in {"synce", "os", "overall", "wait"} =>
       \A g \in GnssInstances : WithinHoldover(gnss[g], GnssHoldover(g))
  /\ pc \in {"overall", "wait"} => WithinHoldover(os, OsHoldover)
  /\ pc = "wait" => WithinHoldover(overall, OverallHoldover)

LEMMA TimedSoFarNext == TypeOK /\ TimedSoFar /\ [Next]_vars => TimedSoFar'
<1> SUFFICES ASSUME TypeOK, TimedSoFar, [Next]_vars PROVE TimedSoFar'
  OBVIOUS
<1>1. CASE PollGnss
  <2>1. PICK in \in [GnssInstances -> GnssReading] :
          gnss' = [g \in GnssInstances |-> GnssPolled(gnss[g], in[g], GnssHoldover(g))]
    BY <1>1 DEF PollGnss
  <2>2. ASSUME NEW g \in GnssInstances PROVE WithinHoldover(gnss'[g], GnssHoldover(g))
    <3> DEFINE v == GnssVerdict(in[g])
               next == HoldoverRule(gnss[g].state, gnss[g].age, v, GnssHoldover(g))
    <3>1. v \in {Locked, Freerun}
      BY DEF GnssVerdict
    <3>2. gnss'[g] = Judged(gnss[g], v, GnssHoldover(g)) /\ gnss[g] \in Clock
      BY <2>1 DEF GnssPolled, TypeOK
    <3> HIDE DEF v
    <3>3. /\ gnss'[g].state = next
          /\ gnss'[g].age = (IF next # gnss[g].state THEN 0 ELSE gnss[g].age)
      BY <3>1, <3>2, JudgedClock
    <3>4. next = Holdover =>
            gnss[g].state # Holdover \/ Rounded(gnss[g].age) < GnssHoldover(g)
      BY <3>1, RuleIsTimed
    <3> HIDE DEF next
    <3> QED  BY <3>3, <3>4 DEF WithinHoldover
  <2> QED  BY <1>1, <2>2 DEF PollGnss, TimedSoFar
<1>2. CASE PollOs
  <2>1. PICK in \in OsReadings : os' = OsPolled(os, in, OsHoldover)
    BY <1>2 DEF PollOs
  <2> DEFINE v == OsVerdict(in)
             next == HoldoverRule(os.state, os.age, v, OsHoldover)
  <2>2. /\ os'.state = next /\ os'.age = (IF next # os.state THEN 0 ELSE os.age)
        /\ v \in {Locked, Freerun}
    BY <2>1, PolledOs DEF TypeOK, OsClock
  <2> HIDE DEF v
  <2>3. next = Holdover => os.state # Holdover \/ Rounded(os.age) < OsHoldover
    BY <2>2, RuleIsTimed
  <2> HIDE DEF next
  <2>4. WithinHoldover(os, OsHoldover)'
    BY <2>2, <2>3 DEF WithinHoldover
  <2> QED  BY <1>2, <2>4 DEF PollOs, TimedSoFar
<1>3. CASE DeriveOverall
  <2> DEFINE v == OverallVerdict
             next == HoldoverRule(overall.state, overall.age, v, OverallHoldover)
  <2>1. v \in {Locked, Freerun}
    BY DEF OverallVerdict
  <2>2. /\ overall'.state = next
        /\ overall'.age = (IF next # overall.state THEN 0 ELSE overall.age)
    BY <1>3, <2>1, JudgedClock DEF DeriveOverall, TypeOK
  <2> HIDE DEF v
  <2>3. next = Holdover =>
          overall.state # Holdover \/ Rounded(overall.age) < OverallHoldover
    BY <2>1, RuleIsTimed
  <2> HIDE DEF next
  <2>4. OverallHoldover' = OverallHoldover
    <3>1. os' = os
      BY <1>3 DEF DeriveOverall
    <3> QED  BY <3>1 DEF OverallHoldover
  <2>5. WithinHoldover(overall, OverallHoldover)'
    BY <2>2, <2>3, <2>4 DEF WithinHoldover
  <2> QED  BY <1>3, <2>5 DEF DeriveOverall, TimedSoFar
<1>4. CASE PollSynce \/ Start \/ PollPtp \/ Die \/ Wait \/ Reload
  BY <1>4 DEF PollSynce, Start, PollPtp, Die, Wait, Reload, TimedSoFar
<1>5. CASE UNCHANGED vars
  <2>1. OverallHoldover' = OverallHoldover
    <3>1. os' = os
      BY <1>5 DEF vars
    <3> QED  BY <3>1 DEF OverallHoldover
  <2> QED  BY <1>5, <2>1 DEF vars, TimedSoFar
<1> QED  BY <1>1, <1>2, <1>3, <1>4, <1>5 DEF Next, Iterate

\* What is in HOLDOVER when an iteration ends has just begun, or has holdover time left;
\* and what is timed by SyncE's own stamp has that stamp, whatever reads failed.
THEOREM HoldoverIsTimedHolds == Spec => []HoldoverIsTimed
<1>1. Init => SynceTimed /\ TimedSoFar
  BY DEF Init, SynceTimed, TimedSoFar, FreshSynce, Unknown, Holdover
<1>2. SynceTimed /\ TimedSoFar => HoldoverIsTimed
  BY DEF SynceTimed, TimedSoFar, HoldoverIsTimed
<1> QED
  BY <1>1, <1>2, SynceTimedNext, TimedSoFarNext, TypeCorrect, PTL DEF Spec
-----------------------------------------------------------------------------
(***************************************************************************)
(* What clients were told.  A resource is told of when it is polled, if it *)
(* changed or all are to be told; so what was told of it is current once   *)
(* it has been polled, and always unless all are still to be told.         *)
(***************************************************************************)
PtpTold ==
  /\ told.ptp = [p \in PtpInstances |-> ptp[p].state]
  /\ told.class = [p \in PtpInstances |-> ptp[p].class]
GnssTold == told.gnss = [g \in GnssInstances |-> gnss[g].state]
SynceTold ==
  /\ told.synce = [s \in SynceInstances |-> synce[s].state]
  /\ told.ql = [s \in SynceInstances |-> Ql[synce[s].state]]
OsTold == told.os = os.state
OverallTold == told.overall = overall.state

ToldSoFar ==
  pc # "stopped" =>
    /\ pc = "ptp" => forced \/ PtpTold
    /\ pc \in {"ptp", "gnss"} => forced \/ GnssTold
    /\ pc \in {"ptp", "gnss", "synce"} => forced \/ SynceTold
    /\ pc \in {"ptp", "gnss", "synce", "os"} => forced \/ OsTold
    /\ pc # "wait" => forced \/ OverallTold
    /\ pc # "ptp" => PtpTold
    /\ pc \notin {"ptp", "gnss"} => GnssTold
    /\ pc \notin {"ptp", "gnss", "synce"} => SynceTold
    /\ pc \notin {"ptp", "gnss", "synce", "os"} => OsTold
    /\ pc = "wait" => OverallTold

\* Each poll tells what it has to, and leaves alone what others told.
LEMMA ToldNext == TypeOK /\ ToldSoFar /\ [Next]_vars => ToldSoFar'
<1> SUFFICES ASSUME TypeOK, ToldSoFar, [Next]_vars PROVE ToldSoFar'
  OBVIOUS
<1>0. told = [r \in DOMAIN Nothing |-> told[r]] /\ forced \in BOOLEAN
  BY DEF TypeOK
<1> USE DEF Nothing
<1>1. CASE Start
  BY <1>1 DEF Start, InitiallyForced, ToldSoFar
<1>2. CASE PollPtp
  <2>1. PICK in \in [PtpInstances -> {r \in PtpReadings : r.kind # "failed"}] :
       LET new == [p \in PtpInstances |-> Ptp(PtpHoldover(p))!Polled(ptp[p], in[p])] IN
       /\ ptp' = new
       /\ told' = [told EXCEPT
            !.ptp = [p \in PtpInstances |->
                       IF forced \/ new[p].event THEN new[p].state ELSE @[p]],
            !.class = [p \in PtpInstances |->
                       IF forced \/ new[p].classEvent THEN new[p].class ELSE @[p]]]
    BY <1>2 DEF PollPtp
  <2>2. /\ told'.ptp = [p \in PtpInstances |->
               IF forced \/ ptp'[p].event THEN ptp'[p].state ELSE told.ptp[p]]
        /\ told'.class = [p \in PtpInstances |->
               IF forced \/ ptp'[p].classEvent THEN ptp'[p].class ELSE told.class[p]]
    BY <1>0, <2>1, Zenon
  <2>3. ASSUME NEW p \in PtpInstances
        PROVE  /\ ~ptp'[p].event => ptp'[p].state = ptp[p].state
               /\ ~ptp'[p].classEvent => ptp'[p].class = ptp[p].class
    BY <2>1, PolledPtp DEF TypeOK
  <2>4. PtpTold'
    BY <1>2, <2>2, <2>3 DEF PollPtp, ToldSoFar, PtpTold
  <2>5. /\ told'.gnss = told.gnss /\ told'.synce = told.synce /\ told'.ql = told.ql
        /\ told'.os = told.os /\ told'.overall = told.overall
    BY <1>0, <2>1
  <2> QED
    BY <1>2, <2>4, <2>5 DEF PollPtp, ToldSoFar, GnssTold, SynceTold, OsTold, OverallTold
<1>3. CASE PollGnss
  <2>1. told'.gnss = [g \in GnssInstances |->
          IF forced \/ gnss'[g].state # gnss[g].state THEN gnss'[g].state ELSE told.gnss[g]]
    BY <1>0, <1>3 DEF PollGnss
  <2>2. GnssTold'
    BY <1>3, <2>1 DEF PollGnss, ToldSoFar, GnssTold
  <2>3. /\ told'.ptp = told.ptp /\ told'.class = told.class
        /\ told'.synce = told.synce /\ told'.ql = told.ql
        /\ told'.os = told.os /\ told'.overall = told.overall
    BY <1>0, <1>3 DEF PollGnss
  <2> QED
    BY <1>3, <2>2, <2>3 DEF PollGnss, ToldSoFar, PtpTold, SynceTold, OsTold, OverallTold
<1>4. CASE PollSynce
  <2>1. /\ told'.synce = [s \in SynceInstances |->
             IF forced \/ synce'[s].state # synce[s].state
             THEN synce'[s].state ELSE told.synce[s]]
        /\ told'.ql = [s \in SynceInstances |->
             IF forced \/ Ql[synce'[s].state] # Ql[synce[s].state]
             THEN Ql[synce'[s].state] ELSE told.ql[s]]
    BY <1>0, <1>4 DEF PollSynce
  <2>2. SynceTold'
    BY <1>4, <2>1 DEF PollSynce, ToldSoFar, SynceTold
  <2>3. /\ told'.ptp = told.ptp /\ told'.class = told.class /\ told'.gnss = told.gnss
        /\ told'.os = told.os /\ told'.overall = told.overall
    BY <1>0, <1>4 DEF PollSynce
  <2> QED
    BY <1>4, <2>2, <2>3 DEF PollSynce, ToldSoFar, PtpTold, GnssTold, OsTold, OverallTold
<1>5. CASE PollOs
  <2>1. OsTold'
    BY <1>0, <1>5 DEF PollOs, ToldSoFar, OsTold
  <2>2. /\ told'.ptp = told.ptp /\ told'.class = told.class /\ told'.gnss = told.gnss
        /\ told'.synce = told.synce /\ told'.ql = told.ql /\ told'.overall = told.overall
    BY <1>0, <1>5 DEF PollOs
  <2> QED
    BY <1>5, <2>1, <2>2 DEF PollOs, ToldSoFar, PtpTold, GnssTold, SynceTold, OverallTold
<1>6. CASE DeriveOverall
  <2>1. OverallTold'
    BY <1>0, <1>6 DEF DeriveOverall, ToldSoFar, OverallTold
  <2>2. /\ told'.ptp = told.ptp /\ told'.class = told.class /\ told'.gnss = told.gnss
        /\ told'.synce = told.synce /\ told'.ql = told.ql /\ told'.os = told.os
    BY <1>0, <1>6 DEF DeriveOverall
  <2> QED
    BY <1>6, <2>1, <2>2 DEF DeriveOverall, ToldSoFar, PtpTold, GnssTold, SynceTold, OsTold
<1>7. CASE Wait
  <2>1. /\ \A p \in PtpInstances : ptp'[p].state = ptp[p].state /\ ptp'[p].class = ptp[p].class
        /\ \A g \in GnssInstances : gnss'[g].state = gnss[g].state
        /\ os'.state = os.state /\ overall'.state = overall.state
    BY <1>7, AgedClock DEF Wait, TypeOK, OsClock
  <2>2. \A s \in SynceInstances : synce'[s].state = synce[s].state
    BY <1>7 DEF Wait, TypeOK
  <2>3. pc = "wait" /\ pc' = "ptp" /\ told' = told
    BY <1>7 DEF Wait
  <2>4. PtpTold /\ GnssTold /\ SynceTold /\ OsTold /\ OverallTold
    BY <2>3 DEF ToldSoFar
  <2>5. PtpTold' /\ GnssTold' /\ SynceTold' /\ OsTold' /\ OverallTold'
    BY <2>1, <2>2, <2>3, <2>4 DEF PtpTold, GnssTold, SynceTold, OsTold, OverallTold
  <2> QED  BY <2>3, <2>5 DEF ToldSoFar
<1>8. CASE Die \/ Reload
  BY <1>8 DEF Die, Reload, ToldSoFar
<1>9. CASE UNCHANGED vars
  BY <1>9 DEF vars, ToldSoFar, PtpTold, GnssTold, SynceTold, OsTold, OverallTold
<1> QED
  BY <1>1, <1>2, <1>3, <1>4, <1>5, <1>6, <1>7, <1>8, <1>9 DEF Next, Iterate

\* What clients were told so far is what the clocks were when they were told.
LEMMA ToldInductive == Spec => []ToldSoFar
<1>1. Init => ToldSoFar
  BY DEF Init, ToldSoFar
<1> QED  BY <1>1, ToldNext, TypeCorrect, PTL DEF Spec

\* Whenever the loop waits, clients have been told the present state of everything.
THEOREM ToldIsCurrentHolds == Spec => []ToldIsCurrent
<1>1. TypeOK /\ ToldSoFar => ToldIsCurrent
  BY DEF TypeOK, ToldSoFar, ToldIsCurrent, Nothing, PtpTold, GnssTold, SynceTold, OsTold,
         OverallTold
<1> QED  BY <1>1, ToldInductive, TypeCorrect, PTL
-----------------------------------------------------------------------------
(***************************************************************************)
(* The overall state is derived after everything else was polled, and is   *)
(* LOCKED only if the chain is.                                            *)
(***************************************************************************)
OverallFollows == pc = "wait" /\ overall.state = Locked => ChainLocked

\* Only the step that derives the overall state makes it LOCKED at rest, and only from a
\* locked chain.
LEMMA FollowsNext == TypeOK /\ [Next]_vars => (OverallFollows => OverallFollows')
<1> SUFFICES ASSUME TypeOK, [Next]_vars, OverallFollows PROVE OverallFollows'
  OBVIOUS
<1>1. CASE DeriveOverall
  <2>1. ChainLocked' = ChainLocked
    BY <1>1, Zenon DEF DeriveOverall, ChainLocked, Source, PrimaryPtp, PrimaryGnss, First
  <2>2. overall'.state =
          HoldoverRule(overall.state, overall.age, OverallVerdict, OverallHoldover)
    BY <1>1, JudgedClock DEF DeriveOverall, TypeOK, OverallVerdict
  <2>3. overall'.state = Locked => ChainLocked
    BY <2>2 DEF HoldoverRule, OverallVerdict, Locked, Freerun, Holdover
  <2> QED  BY <2>1, <2>3 DEF OverallFollows
<1>2. CASE UNCHANGED vars
  BY <1>2, Zenon DEF vars, OverallFollows, ChainLocked, Source, PrimaryPtp, PrimaryGnss, First
<1> QED
  BY <1>1, <1>2 DEF Next, Iterate, Start, PollPtp, PollGnss, PollSynce, PollOs, Wait, Die,
     Reload, OverallFollows

\* Clients told that the node is synchronised are also told so of the OS clock and of an
\* instance of the device that the OS clock follows at present.
THEOREM OverallIsBackedHolds == Spec => []OverallIsBacked
<1>1. Init => OverallFollows
  BY DEF Init, OverallFollows
<1>2. TypeOK /\ ToldSoFar /\ OverallFollows => OverallIsBacked
  <2> SUFFICES ASSUME TypeOK, ToldSoFar, OverallFollows, pc = "wait", told.overall = Locked
               PROVE  /\ told.os = Locked
                      /\ \/ \E g \in GnssInstances : os.device \in GnssDevices[g] /\ told.gnss[g] = Locked
                         \/ \E p \in PtpInstances : os.device \in PtpDevices[p] /\ told.ptp[p] = Locked
    BY DEF OverallIsBacked
  <2>1. PtpTold /\ GnssTold /\ OsTold /\ OverallTold
    BY DEF ToldSoFar
  <2>2. ChainLocked
    BY <2>1 DEF OverallFollows, OverallTold
  <2>3. told.os = Locked
    BY <2>1, <2>2 DEF ChainLocked, OsTold
  <2>4. CASE /\ PrimaryGnss(os.device) # None
             /\ gnss[PrimaryGnss(os.device)].state = Locked
    BY <2>1, <2>3, <2>4, PrimaryGnssIsListed DEF GnssTold
  <2>5. CASE /\ Source(os.device) = TypePTP
             /\ ptp[PrimaryPtp(os.device)].state = Locked
    <3>1. PrimaryPtp(os.device) # None
      BY <2>5 DEF Source, TypePTP, TypeGNSS, TypeNA
    <3> QED  BY <2>1, <2>3, <2>5, <3>1, PrimaryPtpIsListed DEF PtpTold
  <2> QED  BY <2>2, <2>4, <2>5 DEF ChainLocked
<1> QED  BY <1>1, <1>2, FollowsNext, ToldInductive, TypeCorrect, PTL DEF Spec
-----------------------------------------------------------------------------
(***************************************************************************)
(* The overall state does not outlive the OS clock.  It is in HOLDOVER for *)
(* at least as long as the OS clock, whose holdover time bounds its own.   *)
(***************************************************************************)

\* Of two ages the longer one is not rounded to fewer seconds.
LEMMA RoundedIsMonotone ==
  ASSUME NEW a \in Nat, NEW b \in Nat, a <= b
  PROVE  Rounded(a) \in Nat /\ Rounded(a) <= Rounded(b)
<1> DEFINE q(x) == x \div 2
<1>1. /\ q(a) \in Nat /\ (a = 2 * q(a) \/ a = 2 * q(a) + 1) /\ a % 2 = a - 2 * q(a)
      /\ q(b) \in Nat /\ (b = 2 * q(b) \/ b = 2 * q(b) + 1) /\ b % 2 = b - 2 * q(b)
  OBVIOUS
<1>2. Rounded(a) = (IF a % 2 = 1 /\ q(a) % 2 = 1 THEN q(a) + 1 ELSE q(a))
  BY DEF Rounded
<1>3. Rounded(b) = (IF b % 2 = 1 /\ q(b) % 2 = 1 THEN q(b) + 1 ELSE q(b))
  BY DEF Rounded
<1> HIDE DEF q
<1> QED  BY <1>1, <1>2, <1>3

EndsBefore ==
  /\ os.state # Unknown
  /\ overall.state = Locked =>
       os.state = Locked \/ (pc = "overall" /\ os.state = Holdover /\ os.age = 0)
  /\ os.state = Holdover /\ overall.state = Holdover => os.age <= overall.age
  /\ os.state = Freerun /\ overall.state = Holdover => OsHoldover <= Rounded(overall.age)

\* While the OS clock coasts or is lost, the overall state is no younger than it.
LEMMA EndsBeforeNext ==
  TypeOK /\ EndsBefore /\ OverallEndsWithOs /\ [Next]_vars =>
    EndsBefore' /\ OverallEndsWithOs'
<1> SUFFICES ASSUME TypeOK, EndsBefore, OverallEndsWithOs, [Next]_vars
             PROVE  EndsBefore' /\ OverallEndsWithOs'
  OBVIOUS
<1> USE DEF Locked, Freerun, Holdover, Unknown
<1>0. /\ os.age \in Nat /\ overall.age \in Nat /\ OsHoldover \in Nat
      /\ os.age <= MaxAge /\ overall.age <= MaxAge /\ MaxAge \in Nat
      /\ os.state \in SyncState /\ overall.state \in SyncState
  BY HoldoverIsNat, SyncChainAssumption DEF TypeOK, Clock
<1>a. ASSUME UNCHANGED <<os, overall>>, pc # "overall", pc' # "overall", pc' # "wait"
      PROVE  EndsBefore' /\ OverallEndsWithOs'
  BY <1>a DEF EndsBefore, OverallEndsWithOs
<1>1. CASE Start
  BY <1>1 DEF Start, EndsBefore, OverallEndsWithOs
<1>2. CASE PollOs
  <2>1. PICK in \in OsReadings : os' = OsPolled(os, in, OsHoldover)
    BY <1>2 DEF PollOs
  <2> DEFINE v == OsVerdict(in)
             next == HoldoverRule(os.state, os.age, v, OsHoldover)
  <2>2. /\ os'.state = next /\ os'.age = (IF next # os.state THEN 0 ELSE os.age)
        /\ v \in {Locked, Freerun}
    BY <2>1, PolledOs DEF TypeOK, OsClock
  <2>3. pc = "os" /\ pc' = "overall" /\ overall' = overall
    BY <1>2 DEF PollOs
  <2>4. /\ next # Unknown
        /\ next = Freerun /\ os.state = Holdover => OsHoldover <= Rounded(os.age)
        /\ os.state = Locked => next \in {Locked, Holdover}
        /\ next = Holdover => os.state \in {Locked, Holdover}
    <3> HIDE DEF v
    <3>1. Rounded(os.age) \in Nat
      BY <1>0, RoundedIsMonotone
    <3> QED  BY <1>0, <2>2, <3>1 DEF HoldoverRule, KeepsHoldover
  <2> HIDE DEF next, v
  <2>5. os.age <= overall.age =>
          Rounded(os.age) \in Nat /\ Rounded(os.age) <= Rounded(overall.age)
    BY <1>0, RoundedIsMonotone
  <2>6. Rounded(overall.age) \in Nat
    BY <1>0, RoundedIsMonotone
  <2>7. os.state \in {Locked, Holdover, Freerun}
    BY <1>0 DEF SyncState, EndsBefore
  <2>8. EndsBefore'
    BY <1>0, <2>2, <2>3, <2>4, <2>5, <2>6, <2>7 DEF EndsBefore
  <2> QED  BY <2>3, <2>8 DEF OverallEndsWithOs
<1>3. CASE DeriveOverall
  <2> DEFINE next == HoldoverRule(overall.state, overall.age, OverallVerdict, OverallHoldover)
  <2>1. /\ overall'.state = next
        /\ overall'.age = (IF next # overall.state THEN 0 ELSE overall.age)
    BY <1>3, JudgedClock DEF DeriveOverall, TypeOK, OverallVerdict
  <2>2. pc = "overall" /\ pc' = "wait" /\ os' = os
    BY <1>3 DEF DeriveOverall
  <2>3. /\ next = Locked => os.state = Locked
        /\ next = Holdover => \/ overall.state = Locked
                              \/ /\ overall.state = Holdover
                                 /\ Rounded(overall.age) < OverallHoldover
    BY DEF HoldoverRule, KeepsHoldover, OverallVerdict, ChainLocked
  <2> HIDE DEF next
  <2>4. EndsBefore'
    BY <1>0, <2>1, <2>2, <2>3 DEF EndsBefore
  <2>5. ASSUME os.state = Freerun, next = Holdover
        PROVE  os.device # None /\ SourceHoldover(os.device) = Unset
    <3>1. OsHoldover <= Rounded(overall.age) /\ Rounded(overall.age) < OverallHoldover
      BY <2>3, <2>5 DEF EndsBefore
    <3>2. Rounded(overall.age) \in Nat
      BY <1>0, RoundedIsMonotone
    <3> SUFFICES ASSUME os.device = None \/ SourceHoldover(os.device) # Unset
                 PROVE  OverallHoldover \in Nat /\ OverallHoldover <= OsHoldover
      BY <1>0, <3>1, <3>2
    <3> QED  BY <1>0, SourceHoldoverIsNat DEF OverallHoldover, Smaller
  <2>6. SourceHoldover(os.device)' = SourceHoldover(os.device)
    BY <2>2
  <2> QED  BY <2>1, <2>2, <2>4, <2>5, <2>6 DEF OverallEndsWithOs
<1>4. CASE Wait
  <2>1. PICK d \in Delays : os' = Aged(os, d) /\ overall' = Aged(overall, d)
    BY <1>4 DEF Wait
  <2>2. /\ os'.state = os.state /\ overall'.state = overall.state
        /\ os.state = Holdover => os'.age = Smaller(os.age + d, MaxAge)
        /\ overall.state = Holdover => overall'.age = Smaller(overall.age + d, MaxAge)
    BY <2>1 DEF Aged, TypeOK, Clock
  <2>3. d \in Nat
    BY SyncChainAssumption
  <2>4. overall.state = Holdover =>
          /\ overall'.age \in Nat /\ overall.age <= overall'.age
          /\ os.state = Holdover => os'.age <= overall'.age
    BY <1>0, <2>2, <2>3 DEF Smaller, EndsBefore
  <2>5. overall.state = Holdover => /\ Rounded(overall.age) \in Nat
                                    /\ Rounded(overall'.age) \in Nat
                                    /\ Rounded(overall.age) <= Rounded(overall'.age)
    BY <1>0, <2>4, RoundedIsMonotone
  <2>6. pc = "wait" /\ pc' = "ptp"
    BY <1>4 DEF Wait
  <2> QED  BY <1>0, <2>2, <2>4, <2>5, <2>6 DEF EndsBefore, OverallEndsWithOs
<1>5. CASE UNCHANGED vars
  <2>1. SourceHoldover(os.device)' = SourceHoldover(os.device)
    BY <1>5 DEF vars
  <2> QED  BY <1>5, <2>1 DEF vars, EndsBefore, OverallEndsWithOs
<1>6. CASE PollPtp \/ PollGnss \/ PollSynce \/ Die \/ Reload
  BY <1>a, <1>6 DEF PollPtp, PollGnss, PollSynce, Die, Reload
<1> QED  BY <1>1, <1>2, <1>3, <1>4, <1>5, <1>6 DEF Next, Iterate

\* Once the OS clock is in FREERUN the overall state is no longer in HOLDOVER, except on a
\* device without any configured source.
THEOREM OverallEndsWithOsHolds == Spec => []OverallEndsWithOs
<1>1. Init => EndsBefore /\ OverallEndsWithOs
  BY DEF Init, EndsBefore, OverallEndsWithOs, Locked, Freerun, Holdover, Unknown
<1> QED  BY <1>1, EndsBeforeNext, TypeCorrect, PTL DEF Spec
-----------------------------------------------------------------------------
(***************************************************************************)
(* Every clock implements Holdover.                                        *)
(***************************************************************************)

\* What a clock may do, in terms of its state and age before and after.
Promised(s, a, s2, a2, h) ==
  \/ s2 = s /\ (a2 = a \/ a2 > a)
  \/ /\ a2 = 0
     /\ \/ s # Locked /\ s2 = Locked
        \/ s = Locked /\ s2 = Holdover
        \/ s = Holdover /\ s2 = Freerun /\ Rounded(a) >= h
        \/ s = Unknown /\ s2 = Freerun

\* The holdover rule keeps to it, ...
LEMMA RuleIsPromised ==
  ASSUME NEW s \in SyncState, NEW a \in Nat, NEW v \in {Locked, Freerun}, NEW h \in Nat
  PROVE  LET next == HoldoverRule(s, a, v, h)
         IN Promised(s, a, next, IF next # s THEN 0 ELSE a, h)
<1>1. Rounded(a) \in Nat
  BY RoundedIsMonotone
<1> QED
  BY <1>1 DEF HoldoverRule, KeepsHoldover, Promised, SyncState, Locked, Freerun, Holdover,
              Unknown

\* ... and so does the passing of time.
LEMMA TimeIsPromised ==
  ASSUME NEW d \in Delays, NEW h, NEW c \in Clock \cup OsClock \cup Ptp(0)!Monitor
  PROVE  Promised(c.state, c.age, Aged(c, d).state, Aged(c, d).age, h)
<1>1. ASSUME NEW a \in 0 .. MaxAge
      PROVE  Smaller(a + d, MaxAge) = a \/ Smaller(a + d, MaxAge) > a
  BY SyncChainAssumption DEF Smaller
<1>2. c.age \in 0 .. MaxAge
  BY DEF Clock, OsClock, Ptp!Monitor
<1>3. c.state = Holdover => Aged(c, d).age = Smaller(c.age + d, MaxAge)
  BY DEF Aged, Clock, OsClock, Ptp!Monitor
<1>4. Aged(c, d).state = c.state /\ (c.state # Holdover => Aged(c, d).age = c.age)
  BY AgedClock DEF Aged
<1> QED  BY <1>1, <1>2, <1>3, <1>4 DEF Promised

\* The chain has a holdover time whatever it consists of.
LEMMA OverallHoldoverIsNat == OverallHoldover \in Nat
<1>1. get_overall_holdover_time \in Nat
  BY SyncChainAssumption DEF get_overall_holdover_time, Or
<1> QED  BY <1>1, HoldoverIsNat, SourceHoldoverIsNat DEF OverallHoldover, Smaller

\* Between two restarts every clock the loop polls keeps the promise of Holdover.
THEOREM ClocksKeepPromiseHolds == Spec => ClocksKeepPromise
<1> DEFINE Kept ==
      /\ \A p \in PtpInstances : [PtpPromise(p)!Next]_<<ptp[p].state, ptp[p].age>>
      /\ \A g \in GnssInstances : [GnssPromise(g)!Next]_<<gnss[g]>>
      /\ [OsPromise!Next]_<<os.state, os.age>>
      /\ [OverallPromise!Next]_overall
<1>1. ASSUME TypeOK, [Next]_vars, pc # "stopped" PROVE Kept
  <2>0. TypeOK'
    BY <1>1, TypeNext
  <2> DEFINE PtpKept == \A p \in PtpInstances :
               Promised(ptp[p].state, ptp[p].age, ptp'[p].state, ptp'[p].age,
                        PtpHoldover(p))
             GnssKept == \A g \in GnssInstances :
               Promised(gnss[g].state, gnss[g].age, gnss'[g].state, gnss'[g].age,
                        GnssHoldover(g))
             OsKept == Promised(os.state, os.age, os'.state, os'.age, OsHoldover)
             OverallKept == Promised(overall.state, overall.age, overall'.state,
                                     overall'.age, OverallHoldover)
  <2>1. PtpKept /\ GnssKept /\ OsKept /\ OverallKept
    <3>0. /\ \A p \in PtpInstances : ptp[p].state \in SyncState /\ ptp[p].age \in Nat
          /\ \A g \in GnssInstances : gnss[g].state \in SyncState /\ gnss[g].age \in Nat
          /\ os.state \in SyncState /\ os.age \in Nat
          /\ overall.state \in SyncState /\ overall.age \in Nat
      BY <1>1, SyncChainAssumption
      DEF TypeOK, Clock, Ptp!Monitor, Ptp!SyncState, Ptp!Locked, Ptp!Freerun, Ptp!Holdover,
          Ptp!Unknown, SyncState, Locked, Freerun, Holdover, Unknown
    <3>d. ptp' = ptp => PtpKept
      BY DEF Promised
    <3>a. gnss' = gnss => GnssKept
      BY DEF Promised
    <3>b. os' = os => OsKept
      BY DEF Promised
    <3>c. overall' = overall => OverallKept
      BY DEF Promised
    <3> HIDE DEF PtpKept, GnssKept, OsKept, OverallKept
    <3>6. CASE PollPtp
      <4>1. PICK in \in [PtpInstances -> {r \in PtpReadings : r.kind # "failed"}] :
              ptp' = [p \in PtpInstances |-> Ptp(PtpHoldover(p))!Polled(ptp[p], in[p])]
        BY <3>6 DEF PollPtp
      <4>2. ASSUME NEW p \in PtpInstances
            PROVE  Promised(ptp[p].state, ptp[p].age, ptp'[p].state, ptp'[p].age,
                            PtpHoldover(p))
        <5>1. ptp'[p] = Ptp(PtpHoldover(p))!Polled(ptp[p], in[p])
          BY <4>1
        <5>2. /\ ptp[p] \in Ptp(0)!Monitor /\ in[p] \in PtpReadings
              /\ in[p].kind # "failed" /\ PtpHoldover(p) \in Nat
          BY <1>1, <4>1, HoldoverIsNat DEF TypeOK
        <5>3. /\ ptp'[p].age = IF ptp'[p].state # ptp[p].state THEN 0 ELSE ptp[p].age
              /\ \/ ptp'[p].state = ptp[p].state
                 \/ \E v \in {Locked, Freerun} :
                      ptp'[p].state = HoldoverRule(ptp[p].state, ptp[p].age, v, PtpHoldover(p))
          BY <5>1, <5>2, PolledPtp
        <5>4. CASE ptp'[p].state = ptp[p].state
          BY <5>3, <5>4 DEF Promised
        <5>5. ASSUME NEW v \in {Locked, Freerun},
                     ptp'[p].state = HoldoverRule(ptp[p].state, ptp[p].age, v, PtpHoldover(p))
              PROVE  Promised(ptp[p].state, ptp[p].age, ptp'[p].state, ptp'[p].age,
                              PtpHoldover(p))
          BY <3>0, <5>2, <5>3, <5>5, RuleIsPromised
        <5> QED  BY <5>3, <5>4, <5>5
      <4>3. PtpKept
        BY <4>2 DEF PtpKept
      <4> QED  BY <3>a, <3>b, <3>c, <3>6, <4>3 DEF PollPtp
    <3>1. CASE PollGnss
      <4>1. PICK in \in [GnssInstances -> GnssReading] :
              gnss' = [g \in GnssInstances |-> GnssPolled(gnss[g], in[g], GnssHoldover(g))]
        BY <3>1 DEF PollGnss
      <4>2. ASSUME NEW g \in GnssInstances
            PROVE  Promised(gnss[g].state, gnss[g].age, gnss'[g].state, gnss'[g].age,
                            GnssHoldover(g))
        <5> DEFINE v == GnssVerdict(in[g])
                   next == HoldoverRule(gnss[g].state, gnss[g].age, v, GnssHoldover(g))
        <5>1. v \in {Locked, Freerun}
          BY DEF GnssVerdict
        <5>2. gnss'[g] = Judged(gnss[g], v, GnssHoldover(g))
          BY <4>1 DEF GnssPolled
        <5>3. gnss[g] \in Clock /\ GnssHoldover(g) \in Nat
          BY <1>1, HoldoverIsNat DEF TypeOK
        <5> HIDE DEF v
        <5>4. /\ gnss'[g].state = next
              /\ gnss'[g].age = (IF next # gnss[g].state THEN 0 ELSE gnss[g].age)
          BY <5>1, <5>2, <5>3, JudgedClock
        <5> QED  BY <3>0, <5>1, <5>3, <5>4, RuleIsPromised
      <4>3. GnssKept
        BY <4>2 DEF GnssKept
      <4> QED  BY <3>b, <3>c, <3>d, <3>1, <4>3 DEF PollGnss
    <3>2. CASE PollOs
      <4>1. PICK in \in OsReadings : os' = OsPolled(os, in, OsHoldover)
        BY <3>2 DEF PollOs
      <4> DEFINE v == OsVerdict(in)
                 next == HoldoverRule(os.state, os.age, v, OsHoldover)
      <4>2. /\ os'.state = next /\ os'.age = (IF next # os.state THEN 0 ELSE os.age)
            /\ v \in {Locked, Freerun}
        BY <1>1, <4>1, PolledOs DEF TypeOK, OsClock
      <4> HIDE DEF v
      <4>3. OsKept
        BY <3>0, <4>2, RuleIsPromised, HoldoverIsNat DEF OsKept
      <4> QED  BY <3>a, <3>c, <3>d, <3>2, <4>3 DEF PollOs
    <3>3. CASE DeriveOverall
      <4> DEFINE v == OverallVerdict
                 next == HoldoverRule(overall.state, overall.age, v, OverallHoldover)
      <4>1. v \in {Locked, Freerun}
        BY DEF OverallVerdict
      <4>2. /\ overall'.state = next
            /\ overall'.age = (IF next # overall.state THEN 0 ELSE overall.age)
        BY <1>1, <3>3, <4>1, JudgedClock DEF DeriveOverall, TypeOK
      <4> HIDE DEF v
      <4>3. OverallKept
        BY <3>0, <4>1, <4>2, RuleIsPromised, OverallHoldoverIsNat DEF OverallKept
      <4> QED  BY <3>a, <3>b, <3>d, <3>3, <4>3 DEF DeriveOverall
    <3>4. CASE Wait
      BY <1>1, <3>4, TimeIsPromised
      DEF Wait, TypeOK, OsClock, PtpKept, GnssKept, OsKept, OverallKept
    <3>5. CASE UNCHANGED <<ptp, gnss, os, overall>>
      BY <3>a, <3>b, <3>c, <3>d, <3>5
    <3> QED
      BY <1>1, <3>1, <3>2, <3>3, <3>4, <3>5, <3>6
      DEF Next, Iterate, Start, PollSynce, Die, Reload, vars
  <2>2. \A g \in GnssInstances : [GnssPromise(g)!Next]_<<gnss[g]>>
    <3> SUFFICES ASSUME NEW g \in GnssInstances PROVE [GnssPromise(g)!Next]_<<gnss[g]>>
      OBVIOUS
    <3>1. gnss[g] \in Clock /\ gnss'[g] \in Clock
      BY <1>1, <2>0 DEF TypeOK
    <3>2. gnss[g].state = gnss'[g].state /\ gnss[g].age = gnss'[g].age => gnss[g] = gnss'[g]
      BY <3>1 DEF Clock
    <3> QED
      BY <2>1, <3>2
      DEF Promised, GnssPromise!Next, GnssPromise!Age, GnssPromise!Lock, GnssPromise!Coast,
          GnssPromise!Expire, GnssPromise!Settle, GnssPromise!Expired, GnssPromise!Rounded,
          Rounded, GnssPromise!Locked, GnssPromise!Holdover, GnssPromise!Freerun,
          GnssPromise!Unknown, Locked, Holdover, Freerun, Unknown
  <2>3. [OsPromise!Next]_<<os.state, os.age>>
    BY <2>1
    DEF Promised, OsPromise!Next, OsPromise!Age, OsPromise!Lock, OsPromise!Coast,
        OsPromise!Expire, OsPromise!Settle, OsPromise!Expired, OsPromise!Rounded, Rounded,
        OsPromise!Locked, OsPromise!Holdover, OsPromise!Freerun, OsPromise!Unknown,
        Locked, Holdover, Freerun, Unknown
  <2>4. [OverallPromise!Next]_overall
    <3>1. overall \in Clock /\ overall' \in Clock
      BY <1>1, <2>0 DEF TypeOK
    <3>2. overall.state = overall'.state /\ overall.age = overall'.age => overall = overall'
      BY <3>1 DEF Clock
    <3> QED
      BY <2>1, <3>2
      DEF Promised, OverallPromise!Next, OverallPromise!Age, OverallPromise!Lock,
          OverallPromise!Coast, OverallPromise!Expire, OverallPromise!Settle,
          OverallPromise!Expired, OverallPromise!Rounded, Rounded, OverallPromise!Locked,
          OverallPromise!Holdover, OverallPromise!Freerun, OverallPromise!Unknown,
          Locked, Holdover, Freerun, Unknown
  <2>5. \A p \in PtpInstances : [PtpPromise(p)!Next]_<<ptp[p].state, ptp[p].age>>
    BY <2>1
    DEF Promised, PtpPromise!Next, PtpPromise!Age, PtpPromise!Lock, PtpPromise!Coast,
        PtpPromise!Expire, PtpPromise!Settle, PtpPromise!Expired, PtpPromise!Rounded,
        Rounded, PtpPromise!Locked, PtpPromise!Holdover, PtpPromise!Freerun,
        PtpPromise!Unknown, Locked, Holdover, Freerun, Unknown
  <2> QED  BY <2>2, <2>3, <2>4, <2>5
<1>2. TypeOK /\ [Next]_vars => [pc # "stopped" => Kept]_vars
  BY <1>1
<1> QED  BY <1>2, TypeCorrect, PTL DEF Spec, ClocksKeepPromise
=============================================================================
