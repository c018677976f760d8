------------------------------ MODULE Holdover ------------------------------
(***************************************************************************)
(* What every tracked clock promises to its clients, as the diagram in     *)
(* ptp_monitor.py:202-207 draws it: LOCKED is lost only to HOLDOVER,       *)
(* HOLDOVER is entered only from LOCKED, and HOLDOVER turns into FREERUN   *)
(* only when the holdover time has run out.  The PTP, GNSS and OS clock    *)
(* monitors and the overall state each implement this specification.       *)
(***************************************************************************)
EXTENDS SyncStates

VARIABLES
  state,                       \* the state clients are told
  age,                         \* half-seconds since it last changed
  holdover                     \* the holdover time in force, in seconds

vars == <<state, age>>

Expired(a) == Rounded(a) >= holdover

Init ==
  /\ state \in {Locked, Freerun, Unknown}
  /\ age = 0

\* Time passes.
Age ==
  /\ age' > age
  /\ UNCHANGED state

\* The clock is found disciplined by its source.
Lock ==
  /\ state # Locked
  /\ state' = Locked
  /\ age' = 0

\* A locked clock loses its source and coasts on its oscillator.
Coast ==
  /\ state = Locked
  /\ state' = Holdover
  /\ age' = 0

\* A coasting clock has coasted for the whole holdover time.
Expire ==
  /\ state = Holdover
  /\ Expired(age)
  /\ state' = Freerun
  /\ age' = 0

\* A clock never read before turns out not to be disciplined.
Settle ==
  /\ state = Unknown
  /\ state' = Freerun
  /\ age' = 0

Next == Age \/ Lock \/ Coast \/ Expire \/ Settle

Spec == Init /\ [][Next]_vars
=============================================================================
