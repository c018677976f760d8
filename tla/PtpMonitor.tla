----------------------------- MODULE PtpMonitor -----------------------------
(***************************************************************************)
(* PtpMonitor of ptp_monitor.py: one ptp4l instance, polled over and over  *)
(* by the daemon's loop, while pmc answers whatever it likes.              *)
(***************************************************************************)
EXTENDS PtpPoll

CONSTANT Readings      \* what a poll may find, a subset of Reading

ASSUME PtpMonitorAssumption ==
  /\ HoldoverTime \in Nat
  /\ MaxAge \in Nat
  /\ MaxAge > 2 * HoldoverTime
  /\ LockedClasses \subseteq ClockClass
  /\ Readings \subseteq Reading

VARIABLES
  monitor,             \* the fields of the PtpMonitor object
  running,             \* FALSE once ptpsync() has ended the process
  last,                \* history: what the last poll found
  misses               \* history: polls in a row that had no clock class to read, up to 4

vars == <<monitor, running, last, misses>>
-----------------------------------------------------------------------------
\* History: one more poll without a clock class, or none.
Missed(m, count) == IF m.read # None THEN 0 ELSE IF count < 4 THEN count + 1 ELSE 4

\* The constructor polls once.
Init ==
  /\ last \in {in \in Readings : in.kind # "failed"}
  /\ monitor = Polled(Fresh, last)
  /\ misses = Missed(monitor, 0)
  /\ running = TRUE

Poll(in) ==
  /\ running
  /\ in.kind # "failed"
  /\ monitor' = Polled(monitor, in)
  /\ misses' = Missed(monitor', misses)
  /\ last' = in
  /\ UNCHANGED running

\* ptpsync() calls sys.exit() when pmc fails or answers in an unknown form.
Exit(in) ==
  /\ running
  /\ in.kind = "failed"
  /\ running' = FALSE
  /\ UNCHANGED <<monitor, last, misses>>

Tick ==
  /\ running
  /\ monitor.age < MaxAge
  /\ monitor' = [monitor EXCEPT !.age = Older(@, MaxAge)]
  /\ UNCHANGED <<running, last, misses>>

Next ==
  \/ Tick
  \/ \E in \in Readings : Poll(in) \/ Exit(in)

Spec == Init /\ [][Next]_vars

\* The daemon polls every two seconds at most for as long as it runs.
Fairness == WF_vars(Tick) /\ WF_vars(\E in \in Readings : Poll(in))

FairSpec == Spec /\ Fairness
-----------------------------------------------------------------------------
\* The monitor object keeps its fields' types through every answer of pmc, complete or
\* not (ptp_monitor.py:151-276).
TypeOK ==
  /\ monitor \in Monitor
  /\ running \in BOOLEAN
  /\ last \in Readings
  /\ misses \in 0 .. 4

\* A locked instance names the source it is locked to: the overall state of the
\* daemon ignores an instance whose source is NA, whatever its state
\* (daemon.py:722-727), also after polls whose answers were incomplete.
LockedHasSource == monitor.state = Locked => monitor.source # TypeNA

\* The retry counter is the number of unread classes still tolerated, through
\* every mix of answers with and without a class (ptp_monitor.py:165-181).
RetryBudget ==
  /\ misses < 4 => monitor.retry = RetryLimit - misses
  /\ misses = 0 <=> monitor.read # None

\* Clients are told a clock class that pmc did not report only after the three
\* retries are used up (ptp_monitor.py:173-181).
ClassGivenUpAfterRetries ==
  [][monitor'.class # monitor.class /\ monitor'.read = None => misses' = 4]_vars

\* The promise of Holdover.tla, kept by the polls (ptp_monitor.py:239-276).
Promise == INSTANCE Holdover WITH
             state <- monitor.state, age <- monitor.age, holdover <- HoldoverTime
ImplementsHoldover == Promise!Spec

\* The last poll found, in a complete answer or by missing resources, no lock.
Lost ==
  \/ last.kind = "missing"
  \/ last.kind = "read" /\ last.complete /\ CheckResults(last).state = Freerun

\* An instance that stays without lock ends in FREERUN: holdover is finite
\* (ptp_monitor.py:249-260).
HoldoverEnds == <>[](running /\ Lost) => <>[](monitor.state = Freerun)

\* What ptpsync.py:104-107 says: with the default list of locked clock classes, an
\* instance is locked only if its time is traceable.
LockedIsTraceable ==
  /\ last.kind = "read" /\ last.complete
  /\ monitor.state = Locked
  /\ LockedClasses = {DefaultLockedList[i] : i \in 1 .. Len(DefaultLockedList)}
  => last.traceable # "0"
=============================================================================
