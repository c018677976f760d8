---------------------------- MODULE SynceMonitor ----------------------------
(***************************************************************************)
(* One poll of one synce4l instance (synce_monitor.py): the lock state of  *)
(* the EEC DPLL and the clock quality that goes with it.                   *)
(***************************************************************************)
EXTENDS SyncStates

CONSTANT Ql            \* the quality level of each state, the configured ones and 0xff

NotStarted == -1       \* _holdover_start is None

\* The status read from the DPLL; None if it cannot be read.
SynceReading == {"locked", "holdover", "unlocked", None}

\* The object before its first poll.
FreshSynce == [state |-> Unknown, since |-> NotStarted]

\* Unlike the other clocks the elapsed time is not rounded.
InHoldover(s, holdover) ==
  s.state = Holdover /\ (IF s.since = NotStarted THEN 0 ELSE s.since) < 2 * holdover

\* Mutant of SyncePolled: a failed read forgets when holdover began.
SyncePolledForgets(s, raw, holdover) ==
  IF raw = None THEN [s EXCEPT !.since = NotStarted]
  ELSE IF raw # "holdover" THEN
    [state |-> IF raw = "locked" THEN Locked ELSE Freerun, since |-> NotStarted]
  ELSE IF s.state = Locked THEN [state |-> Holdover, since |-> 0]
  ELSE [s EXCEPT !.state = IF InHoldover(s, holdover) THEN Holdover ELSE Freerun]

\* A failed read changes nothing, an unlocked DPLL is FREERUN at once.
SyncePolled(s, raw, holdover) ==
  IF raw = None THEN s
  ELSE IF raw # "holdover" THEN
    [state |-> IF raw = "locked" THEN Locked ELSE Freerun, since |-> NotStarted]
  ELSE IF s.state = Locked THEN [state |-> Holdover, since |-> 0]
  ELSE [s EXCEPT !.state = IF InHoldover(s, holdover) THEN Holdover ELSE Freerun]
=============================================================================
