-------------------------- MODULE PtpMonitorProofs --------------------------
(***************************************************************************)
(* What PtpMonitor keeps for every holdover time, every set of locked      *)
(* clock classes and every sequence of answers of pmc.                     *)
(***************************************************************************)
EXTENDS PtpMonitor, TLAPS

\* A verdict is LOCKED or FREERUN with a source, and LOCKED names its source
\* (check_results, ptpsync.py:72-126).
LEMMA CheckResultsFacts ==
  ASSUME NEW r
  PROVE  /\ CheckResults(r).state \in {Locked, Freerun}
         /\ CheckResults(r).source \in SourceType
         /\ CheckResults(r).state = Locked => CheckResults(r).source # TypeNA
BY DEF CheckResults, Locked, Freerun, SourceType, TypePTP, TypeGNSS, TypeNA

\* What a poll may find.
LEMMA ReadingFacts ==
  ASSUME NEW in \in Readings
  PROVE  /\ in.kind = "read" => in.class \in ClockClass \cup {None}
         /\ in.kind \in {"missing", "failed", "read"}
BY PtpMonitorAssumption DEF Reading, PmcResult

\* Python's round() of a whole number of half-seconds is a whole number of seconds.
LEMMA RoundedIsNat ==
  ASSUME NEW a \in Nat
  PROVE  Rounded(a) \in Nat
BY DEF Rounded
-----------------------------------------------------------------------------
(***************************************************************************)
(* One poll, as a function of the object and the answer.                   *)
(***************************************************************************)

\* The verdict keeps an instance that is locked attached to a source
\* (ptp_monitor.py:209-237).
LEMMA VerdictFacts ==
  ASSUME NEW m, m.state \in SyncState, m.source \in SourceType,
         NEW in \in Readings
  PROVE  /\ Verdict(m, in).state \in SyncState
         /\ Verdict(m, in).source \in SourceType
         /\ Verdict(m, in).state = Locked =>
              \/ Verdict(m, in).source # TypeNA
              \/ m.state = Locked /\ Verdict(m, in).source = m.source
<1>1. CASE in.kind = "missing"
  BY <1>1 DEF Verdict, SyncState, Locked, Freerun, SourceType
<1>2. CASE in.kind # "missing" /\ in.complete
  BY <1>2, CheckResultsFacts DEF Verdict, SyncState
<1>3. CASE in.kind # "missing" /\ ~in.complete
  BY <1>3 DEF Verdict
<1> QED BY <1>1, <1>2, <1>3

\* The fields of the object after a poll, one by one.
LEMMA PolledFields ==
  ASSUME NEW m \in Monitor, NEW in \in Readings, in.kind # "failed"
  PROVE  LET p       == Polled(m, in)
             verdict == Verdict(m, in)
             next    == HoldoverRule(m.state, m.age, verdict.state, HoldoverTime)
             read    == IF in.kind = "read" THEN in.class ELSE m.read
         IN /\ p.state = next
            /\ p.age = IF next # m.state THEN 0 ELSE m.age
            /\ p.source = verdict.source
            /\ p.read = read
            /\ p.class = IF read # None THEN read
                         ELSE IF m.retry > 0 THEN m.class ELSE DefaultClass
            /\ p.retry = IF read = None /\ m.retry > 0 THEN m.retry - 1
                         ELSE RetryLimit
            /\ p \in Monitor
<1> DEFINE s       == PtpStatus(m, in)
           p       == Polled(m, in)
           verdict == Verdict(m, in)
           next    == HoldoverRule(m.state, m.age, verdict.state, HoldoverTime)
           read    == IF in.kind = "read" THEN in.class ELSE m.read
<1>1. /\ verdict.state \in SyncState
      /\ verdict.source \in SourceType
  BY VerdictFacts DEF Monitor
<1>2. next \in SyncState
  BY <1>1 DEF HoldoverRule, SyncState
<1>3. read \in ClockClass \cup {None}
  BY ReadingFacts DEF Monitor
<1>4. MaxAge \in Nat
  BY PtpMonitorAssumption
<1>5. s = [m EXCEPT !.state = next, !.event = next # m.state,
                    !.age = IF next # m.state THEN 0 ELSE m.age,
                    !.source = verdict.source, !.read = read]
  BY DEF PtpStatus, Monitor
<1>6. /\ s \in Monitor
      /\ s.state = next
      /\ s.age = IF next # m.state THEN 0 ELSE m.age
      /\ s.source = verdict.source
      /\ s.read = read
      /\ s.class = m.class
      /\ s.retry = m.retry
  <2> HIDE DEF next, read, verdict, s
  <2>1. (next # m.state) \in BOOLEAN
    OBVIOUS
  <2>2. (IF next # m.state THEN 0 ELSE m.age) \in 0 .. MaxAge
    BY <1>4 DEF Monitor
  <2> QED BY <1>1, <1>2, <1>3, <1>5, <2>1, <2>2 DEF Monitor
<1> HIDE DEF s, next, read, verdict
<1>7. p = SetClockClass(s)
  BY DEF Polled, s
<1>8. DefaultClass \in ClockClass /\ RetryLimit = 3
  BY DEF DefaultClass, ClockClass, RetryLimit
<1> DEFINE class == IF read # None THEN read
                    ELSE IF m.retry > 0 THEN m.class ELSE DefaultClass
           retry == IF read = None /\ m.retry > 0 THEN m.retry - 1 ELSE RetryLimit
<1>9. p = [s EXCEPT !.retry = retry, !.class = class, !.classEvent = class # m.class]
  BY <1>6, <1>7 DEF SetClockClass
<1>10. /\ class \in ClockClass \cup {None}
       /\ retry \in 0 .. RetryLimit
  BY <1>3, <1>8 DEF Monitor, read
<1>11. /\ p \in Monitor
       /\ p.state = s.state
       /\ p.age = s.age
       /\ p.source = s.source
       /\ p.read = s.read
       /\ p.class = class
       /\ p.retry = retry
  <2> HIDE DEF p, class, retry
  <2>1. (class # m.class) \in BOOLEAN
    OBVIOUS
  <2> QED BY <1>6, <1>9, <1>10, <2>1, Zenon DEF Monitor
<1> QED BY <1>6, <1>11 DEF next, read, verdict, p
-----------------------------------------------------------------------------
(***************************************************************************)
(* Type correctness.                                                       *)
(***************************************************************************)

\* The object before the constructor's poll has the type of the object.
LEMMA FreshIsMonitor == Fresh \in Monitor
BY PtpMonitorAssumption
   DEF Fresh, Monitor, SyncState, Unknown, SourceType, TypeNA, RetryLimit

\* Every reachable state has the types TypeOK names: in particular the retry
\* counter of the clock class stays between 0 and 3 (ptp_monitor.py:165-190).
THEOREM TypeCorrect == Spec => []TypeOK
<1>1. Init => TypeOK
  BY FreshIsMonitor, PolledFields DEF Init, TypeOK, Missed
<1>2. TypeOK /\ [Next]_vars => TypeOK'
  <2> SUFFICES ASSUME TypeOK, [Next]_vars
               PROVE  TypeOK'
    OBVIOUS
  <2>1. CASE Tick
    <3>1. Older(monitor.age, MaxAge) \in 0 .. MaxAge
      BY PtpMonitorAssumption DEF TypeOK, Monitor, Older
    <3>2. monitor' \in Monitor
      BY <2>1, <3>1 DEF Tick, TypeOK, Monitor
    <3> QED BY <2>1, <3>2 DEF Tick, TypeOK
  <2>2. ASSUME NEW in \in Readings, Poll(in)
        PROVE  TypeOK'
    BY <2>2, PolledFields DEF Poll, TypeOK, Missed
  <2>3. ASSUME NEW in \in Readings, Exit(in)
        PROVE  TypeOK'
    BY <2>3 DEF Exit, TypeOK
  <2>4. CASE UNCHANGED vars
    BY <2>4 DEF vars, TypeOK
  <2> QED BY <2>1, <2>2, <2>3, <2>4 DEF Next
<1> QED BY <1>1, <1>2, PTL DEF Spec
-----------------------------------------------------------------------------
(***************************************************************************)
(* A locked instance has a source.  The invariant is inductive on top of   *)
(* the types: an incomplete answer carries both the state and the source   *)
(* over, and a complete one gives LOCKED only together with a source.      *)
(***************************************************************************)

\* One poll keeps state and source together.
LEMMA PolledHasSource ==
  ASSUME NEW m \in Monitor, m.state = Locked => m.source # TypeNA,
         NEW in \in Readings, in.kind # "failed"
  PROVE  Polled(m, in).state = Locked => Polled(m, in).source # TypeNA
<1>1. HoldoverRule(m.state, m.age, Verdict(m, in).state, HoldoverTime) = Locked => Verdict(m, in).state = Locked
  BY DEF HoldoverRule, Locked, Holdover, Freerun
<1>2. Verdict(m, in).state = Locked => Verdict(m, in).source # TypeNA
  BY VerdictFacts DEF Monitor
<1> QED BY <1>1, <1>2, PolledFields

\* An instance reported LOCKED always names the source the overall state of the
\* daemon looks for (daemon.py:722-727).
THEOREM LockedHasSourceHolds == Spec => []LockedHasSource
<1>1. Init => LockedHasSource
  <2>1. Fresh.state # Locked
    BY DEF Fresh, Unknown, Locked
  <2> QED BY <2>1, FreshIsMonitor, PolledHasSource DEF Init, LockedHasSource
<1>2. TypeOK /\ LockedHasSource /\ [Next]_vars => LockedHasSource'
  <2> SUFFICES ASSUME TypeOK, LockedHasSource, [Next]_vars
               PROVE  LockedHasSource'
    OBVIOUS
  <2>1. CASE Tick
    BY <2>1 DEF Tick, LockedHasSource, TypeOK, Monitor
  <2>2. ASSUME NEW in \in Readings, Poll(in)
        PROVE  LockedHasSource'
    BY <2>2, PolledHasSource DEF Poll, LockedHasSource, TypeOK
  <2>3. ASSUME NEW in \in Readings, Exit(in)
        PROVE  LockedHasSource'
    BY <2>3 DEF Exit, LockedHasSource
  <2>4. CASE UNCHANGED vars
    BY <2>4 DEF vars, LockedHasSource
  <2> QED BY <2>1, <2>2, <2>3, <2>4 DEF Next
<1> QED BY <1>1, <1>2, TypeCorrect, PTL DEF Spec
-----------------------------------------------------------------------------
(***************************************************************************)
(* The clock class.  RetryBudget ties the counter of the code to the       *)
(* history of the answers; it is inductive on top of the types.            *)
(***************************************************************************)

\* One poll moves the counter and the history together.
LEMMA PolledRetryBudget ==
  ASSUME NEW m \in Monitor, NEW count \in 0 .. 4,
         count < 4 => m.retry = RetryLimit - count,
         NEW in \in Readings, in.kind # "failed"
  PROVE  LET p == Polled(m, in)
             c == Missed(p, count)
         IN /\ c < 4 => p.retry = RetryLimit - c
            /\ c = 0 <=> p.read # None
            /\ p.class # m.class /\ p.read = None => c = 4
<1> DEFINE p == Polled(m, in)
<1>1. /\ p.class = IF p.read # None THEN p.read
                   ELSE IF m.retry > 0 THEN m.class ELSE DefaultClass
      /\ p.retry = IF p.read = None /\ m.retry > 0 THEN m.retry - 1 ELSE RetryLimit
  BY PolledFields
<1>2. m.retry \in 0 .. 3 /\ RetryLimit = 3
  BY DEF Monitor, RetryLimit
<1> SUFFICES /\ Missed(p, count) < 4 => p.retry = RetryLimit - Missed(p, count)
             /\ Missed(p, count) = 0 <=> p.read # None
             /\ p.class # m.class /\ p.read = None => Missed(p, count) = 4
  OBVIOUS
<1> HIDE DEF p
<1>3. CASE p.read # None
  BY <1>1, <1>2, <1>3 DEF Missed
<1>4. CASE p.read = None
  BY <1>1, <1>2, <1>4 DEF Missed
<1> QED BY <1>3, <1>4

\* The counter is what is left of the three tolerated polls without a clock class.
THEOREM RetryBudgetHolds == Spec => []RetryBudget
<1>1. Init => RetryBudget
  <2>1. Fresh.retry = RetryLimit - 0
    BY DEF Fresh, RetryLimit
  <2> QED BY <2>1, FreshIsMonitor, PolledRetryBudget DEF Init, RetryBudget
<1>2. TypeOK /\ RetryBudget /\ [Next]_vars => RetryBudget'
  <2> SUFFICES ASSUME TypeOK, RetryBudget, [Next]_vars
               PROVE  RetryBudget'
    OBVIOUS
  <2>1. CASE Tick
    BY <2>1 DEF Tick, RetryBudget, TypeOK, Monitor
  <2>2. ASSUME NEW in \in Readings, Poll(in)
        PROVE  RetryBudget'
    BY <2>2, PolledRetryBudget DEF Poll, RetryBudget, TypeOK
  <2>3. ASSUME NEW in \in Readings, Exit(in)
        PROVE  RetryBudget'
    BY <2>3 DEF Exit, RetryBudget
  <2>4. CASE UNCHANGED vars
    BY <2>4 DEF vars, RetryBudget
  <2> QED BY <2>1, <2>2, <2>3, <2>4 DEF Next
<1> QED BY <1>1, <1>2, TypeCorrect, PTL DEF Spec

\* No step tells clients a clock class that pmc did not report before the retries
\* are used up (ptp_monitor.py:173-181).
THEOREM ClassGivenUpAfterRetriesHolds == Spec => ClassGivenUpAfterRetries
<1>1. TypeOK /\ RetryBudget /\ [Next]_vars
        => [monitor'.class # monitor.class /\ monitor'.read = None => misses' = 4]_vars
  <2> SUFFICES ASSUME TypeOK, RetryBudget, Next
               PROVE  monitor'.class # monitor.class /\ monitor'.read = None
                        => misses' = 4
    OBVIOUS
  <2>1. CASE Tick
    BY <2>1 DEF Tick, TypeOK, Monitor
  <2>2. ASSUME NEW in \in Readings, Poll(in)
        PROVE  monitor'.class # monitor.class /\ monitor'.read = None => misses' = 4
    BY <2>2, PolledRetryBudget DEF Poll, RetryBudget, TypeOK
  <2>3. ASSUME NEW in \in Readings, Exit(in)
        PROVE  monitor'.class # monitor.class /\ monitor'.read = None => misses' = 4
    BY <2>3 DEF Exit
  <2> QED BY <2>1, <2>2, <2>3 DEF Next
<1> QED BY <1>1, TypeCorrect, RetryBudgetHolds, PTL DEF Spec, ClassGivenUpAfterRetries
-----------------------------------------------------------------------------
(***************************************************************************)
(* The promise.  Every poll is one of the promise's steps or leaves state  *)
(* and age alone.                                                          *)
(***************************************************************************)

\* One poll is a step of the promise.
LEMMA PolledKeepsPromise ==
  ASSUME NEW m \in Monitor, NEW in \in Readings, in.kind # "failed"
  PROVE  LET p == Polled(m, in)
         IN \/ p.state = m.state /\ p.age = m.age
            \/ p.age = 0 /\ m.state # Locked /\ p.state = Locked
            \/ p.age = 0 /\ m.state = Locked /\ p.state = Holdover
            \/ /\ p.age = 0 /\ m.state = Holdover /\ p.state = Freerun
               /\ Rounded(m.age) >= HoldoverTime
            \/ p.age = 0 /\ m.state = Unknown /\ p.state = Freerun
<1> DEFINE p == Polled(m, in)
           v == Verdict(m, in).state
<1>1. /\ p.state = HoldoverRule(m.state, m.age, v, HoldoverTime)
      /\ p.age = IF HoldoverRule(m.state, m.age, v, HoldoverTime) # m.state THEN 0 ELSE m.age
  BY PolledFields
<1>2. v \in {Locked, Freerun} \/ v = m.state
  BY CheckResultsFacts DEF Verdict
<1>3. HoldoverTime \in Nat /\ Rounded(m.age) \in Nat
  BY PtpMonitorAssumption, RoundedIsNat DEF Monitor
<1>4. m.state \in SyncState
  BY DEF Monitor
<1> DEFINE Steps(x, y) ==
      \/ x = m.state /\ y = m.age
      \/ y = 0 /\ m.state # Locked /\ x = Locked
      \/ y = 0 /\ m.state = Locked /\ x = Holdover
      \/ y = 0 /\ m.state = Holdover /\ x = Freerun /\ Rounded(m.age) >= HoldoverTime
      \/ y = 0 /\ m.state = Unknown /\ x = Freerun
<1> SUFFICES Steps(p.state, p.age)
  OBVIOUS
<1> HIDE DEF p, v
<1>5. CASE v # Freerun
  BY <1>1, <1>2, <1>5 DEF HoldoverRule
<1>6. CASE v = Freerun /\ (m.state = Locked \/ KeepsHoldover(m.state, m.age, HoldoverTime))
  BY <1>1, <1>6 DEF HoldoverRule, KeepsHoldover, Locked, Holdover, Freerun
<1>7. CASE v = Freerun /\ ~(m.state = Locked \/ KeepsHoldover(m.state, m.age, HoldoverTime))
  <2>1. p.state = Freerun /\ p.age = IF Freerun # m.state THEN 0 ELSE m.age
    BY <1>1, <1>7 DEF HoldoverRule
  <2>2. m.state # Locked
    BY <1>7
  <2>3. CASE m.state = Holdover
    <3>1. ~(Rounded(m.age) < HoldoverTime)
      BY <1>7, <2>3 DEF KeepsHoldover
    <3>2. Rounded(m.age) >= HoldoverTime
      BY <1>3, <3>1
    <3> QED BY <2>1, <2>3, <3>2 DEF Holdover, Freerun
  <2>4. CASE m.state = Freerun
    BY <2>1, <2>4
  <2>5. CASE m.state = Unknown
    BY <2>1, <2>5 DEF Unknown, Freerun
  <2> QED BY <1>4, <2>2, <2>3, <2>4, <2>5 DEF SyncState
<1> QED BY <1>5, <1>6, <1>7

\* The promise uses the same names and the same rounding.
LEMMA PromiseNames ==
  /\ Promise!Locked = Locked /\ Promise!Freerun = Freerun
  /\ Promise!Holdover = Holdover /\ Promise!Unknown = Unknown
  /\ \A a : Promise!Rounded(a) = Rounded(a)
BY DEF Promise!Locked, Locked, Promise!Freerun, Freerun, Promise!Holdover, Holdover,
       Promise!Unknown, Unknown, Promise!Rounded, Rounded

\* Each ptp4l instance goes through the states of the diagram and no other way, and
\* leaves HOLDOVER for FREERUN only after the holdover time (ptp_monitor.py:202-260).
THEOREM ImplementsHoldoverHolds == Spec => ImplementsHoldover
<1>1. Init => Promise!Init
  <2> SUFFICES ASSUME Init
               PROVE  Promise!Init
    OBVIOUS
  <2>1. Fresh.state = Unknown /\ Fresh.age = 0
    BY DEF Fresh
  <2>2. PICK in \in Readings : in.kind # "failed" /\ monitor = Polled(Fresh, in)
    BY DEF Init
  <2> QED BY <2>1, <2>2, FreshIsMonitor, PolledKeepsPromise, PromiseNames
          DEF Promise!Init, Unknown, Holdover, Locked, Freerun
<1>2. TypeOK /\ [Next]_vars => [Promise!Next]_Promise!vars
  <2> SUFFICES ASSUME TypeOK, [Next]_vars
               PROVE  Promise!Next \/ UNCHANGED Promise!vars
    OBVIOUS
  <2>1. CASE Tick
    <3>1. /\ monitor'.age > monitor.age
          /\ monitor'.state = monitor.state
      BY <2>1, PtpMonitorAssumption DEF Tick, TypeOK, Monitor, Older
    <3> QED BY <3>1 DEF Promise!Next, Promise!Age
  <2>2. ASSUME NEW in \in Readings, Poll(in)
        PROVE  Promise!Next \/ UNCHANGED Promise!vars
    BY <2>2, PolledKeepsPromise, PromiseNames
       DEF Poll, TypeOK, Promise!Next, Promise!Lock, Promise!Coast, Promise!Expire,
           Promise!Settle, Promise!Expired, Promise!vars
  <2>3. ASSUME NEW in \in Readings, Exit(in)
        PROVE  Promise!Next \/ UNCHANGED Promise!vars
    BY <2>3 DEF Exit, Promise!vars
  <2>4. CASE UNCHANGED vars
    BY <2>4 DEF vars, Promise!vars
  <2> QED BY <2>1, <2>2, <2>3, <2>4 DEF Next
<1> QED BY <1>1, <1>2, TypeCorrect, PTL DEF Spec, ImplementsHoldover, Promise!Spec
=============================================================================
