------------------------------ MODULE PtpPoll ------------------------------
(***************************************************************************)
(* One poll of one ptp4l instance (ptp_monitor.py, ptpsync.py), as a       *)
(* function of the PtpMonitor object and of what pmc answers: the verdict  *)
(* on the answer (check_results), the holdover rule, the clock class.      *)
(***************************************************************************)
EXTENDS SyncStates, Sequences

CONSTANTS
  HoldoverTime,        \* seconds
  MaxAge,              \* ages are counted up to this many half-seconds
  LockedClasses        \* the clock classes PTP4L_CLOCK_CLASS_LOCKED_LIST names

ClockClass == {"6", "7", "135", "248"}
DefaultClass == "248"
DefaultLockedList == <<"6", "7", "135">>
ClassesAsSortedStrings == <<"135", "248", "6", "7">>
RetryLimit == 3

\* gm: is the grandmaster this node, another one that is present, or absent?
PmcResult ==
  {r \in [kind: {"read"}, complete: BOOLEAN, gm: {"local", "remote", "absent"},
          slave: BOOLEAN, traceable: {"1", "true", "0"},
          offset: {"within", "beyond", "unparsable"},
          class: ClockClass \cup {None}] : r.complete => r.class # None}

\* "missing": pmc, ptp4l or its configuration is not there, so pmc is not run.
\* "failed": pmc was run and its output cannot be used.
Reading == {[kind |-> "missing"], [kind |-> "failed"]} \cup PmcResult

\* The fields of the object.
Monitor ==
  [state: SyncState, event: BOOLEAN, age: 0 .. MaxAge, source: SourceType,
   class: ClockClass \cup {None}, classEvent: BOOLEAN, retry: 0 .. RetryLimit,
   read: ClockClass \cup {None}]

\* The object before its constructor polls for the first time.
Fresh ==
  [state |-> Unknown, event |-> FALSE, age |-> 0, source |-> TypeNA,
   class |-> None, classEvent |-> FALSE, retry |-> RetryLimit, read |-> None]
-----------------------------------------------------------------------------
\* PTP4L_CLOCK_CLASS_LOCKED_LIST is sorted as strings when the module is loaded ...
ptp4l_clock_class_locked ==
  SelectSeq(ClassesAsSortedStrings, LAMBDA c : c \in LockedClasses)

\* ... and traceability counts only if the sorted list equals the unsorted default.
TraceabilityMatters == ptp4l_clock_class_locked = DefaultLockedList

\* The verdict on a complete answer.  "true" never passes for traceable: the code
\* compares the method `lower`, not its result.
CheckResults(r) ==
  LET anchored == r.gm = "local" \/ (r.gm = "remote" /\ r.slave) IN
  [state |->
     IF /\ anchored
        /\ TraceabilityMatters => r.traceable = "1"
        /\ r.class \in LockedClasses
        /\ r.offset # "beyond"
     THEN Locked ELSE Freerun,
   source |->
     IF r.gm = "local" THEN TypeGNSS ELSE IF r.slave THEN TypePTP ELSE TypeNA]

\* Mutant of Verdict: an incomplete answer forgets the source.
VerdictForgetsSource(m, in) ==
  IF in.kind = "missing" \/ ~in.complete
  THEN [state |-> IF in.kind = "missing" THEN Freerun ELSE m.state, source |-> TypeNA]
  ELSE CheckResults(in)

\* An incomplete answer raises RuntimeError and the previous verdict stands.
Verdict(m, in) ==
  IF in.kind = "missing" THEN [state |-> Freerun, source |-> TypeNA]
  ELSE IF in.complete THEN CheckResults(in)
  ELSE [state |-> m.state, source |-> m.source]

\* Mutant of PtpStatus: every poll stamps the event time.
PtpStatusRestamps(m, in) ==
  LET verdict == Verdict(m, in)
      next    == HoldoverRule(m.state, m.age, verdict.state, HoldoverTime)
  IN [m EXCEPT !.state = next, !.event = next # m.state, !.age = 0,
               !.source = verdict.source,
               !.read = IF in.kind = "read" THEN in.class ELSE @]

PtpStatus(m, in) ==
  LET verdict == Verdict(m, in)
      next    == HoldoverRule(m.state, m.age, verdict.state, HoldoverTime)
  IN [m EXCEPT !.state  = next,
               !.event  = next # m.state,
               !.age    = IF next # m.state THEN 0 ELSE @,
               !.source = verdict.source,
               !.read   = IF in.kind = "read" THEN in.class ELSE @]

\* Mutants of SetClockClass: the counter is not guarded, is not reset by a read class,
\* or is tested after it was decremented.
SetClockClassUnguarded(m) ==
  [m EXCEPT !.retry = IF m.read = None THEN @ - 1 ELSE RetryLimit,
            !.class = IF m.read # None THEN m.read ELSE @]
SetClockClassKeepsCount(m) ==
  [m EXCEPT !.retry = IF m.read = None /\ m.retry > 0 THEN @ - 1 ELSE @,
            !.class = IF m.read # None THEN m.read ELSE @]
SetClockClassHasty(m) ==
  [m EXCEPT !.retry = IF m.read = None /\ m.retry > 1 THEN @ - 1 ELSE RetryLimit,
            !.class = IF m.read # None THEN m.read
                      ELSE IF m.retry > 1 THEN @ ELSE DefaultClass]

\* pmc_query_results is whatever was read last, however long ago that was.
SetClockClass(m) ==
  LET class == IF m.read # None THEN m.read
               ELSE IF m.retry > 0 THEN m.class
               ELSE DefaultClass
  IN [m EXCEPT !.retry = IF m.read = None /\ m.retry > 0 THEN @ - 1 ELSE RetryLimit,
               !.class = class,
               !.classEvent = class # m.class]

Polled(m, in) == SetClockClass(PtpStatus(m, in))
=============================================================================
