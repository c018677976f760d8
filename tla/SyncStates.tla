----------------------------- MODULE SyncStates -----------------------------
(***************************************************************************)
(* Names and the clock arithmetic shared by the monitors of the            *)
(* ptp-tracking daemon.  Ages (time since the last change of state) are    *)
(* counted in half-seconds: the daemon compares them with whole seconds    *)
(* after Python's round(), so the half-second is the coarsest unit that    *)
(* still shows the rounding.                                               *)
(***************************************************************************)
EXTENDS Integers

\* The states of PtpState, OsClockState, SynceState and OverallClockState.
\* GnssState's Synchronized and Failure_Nofix are written Locked and Freerun.
Locked   == "Locked"
Freerun  == "Freerun"
Holdover == "Holdover"
Unknown  == "Unknown"
SyncState == {Locked, Freerun, Holdover, Unknown}

\* ClockSourceType
TypePTP  == "PTP"
TypeGNSS == "GNSS"
TypeNA   == "NA"
SourceType == {TypePTP, TypeGNSS, TypeNA}

None == "None"

\* round(a / 2.0) of Python 3: halves go to the even neighbour.
Rounded(a) ==
  LET q == a \div 2 IN
  IF a % 2 = 1 /\ q % 2 = 1 THEN q + 1 ELSE q

\* The age after one more half-second, for ages the model counts up to `cap`.
Older(a, cap) == IF a < cap THEN a + 1 ELSE a

KeepsHoldover(state, age, holdover) == state = Holdover /\ Rounded(age) < holdover

\* Mutants of HoldoverRule: LOCKED falls straight to FREERUN, or holdover never ends.
HoldoverRuleSkipsCoasting(state, age, verdict, holdover) ==
  IF verdict = Freerun /\ KeepsHoldover(state, age, holdover) THEN Holdover ELSE verdict
HoldoverRuleNeverEnds(state, age, verdict, holdover) ==
  IF verdict = Freerun /\ state \in {Locked, Holdover} THEN Holdover ELSE verdict

\* What a clock in `state` for `age` is reported to be when it is judged `verdict`:
\* the PTP, GNSS and OS clock monitors and the overall state share this rule.
HoldoverRule(state, age, verdict, holdover) ==
  IF verdict # Freerun THEN verdict
  ELSE IF state = Locked \/ KeepsHoldover(state, age, holdover) THEN Holdover
  ELSE Freerun

\* The clock c, a record with at least state and age, after that judgement.
Judged(c, verdict, holdover) ==
  LET next == HoldoverRule(c.state, c.age, verdict, holdover)
  IN [c EXCEPT !.state = next, !.age = IF next # c.state THEN 0 ELSE @]
=============================================================================
