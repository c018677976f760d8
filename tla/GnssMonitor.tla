---------------------------- MODULE GnssMonitor ----------------------------
(***************************************************************************)
(* One poll of one ts2phc instance (gnss_monitor.py).  State and event     *)
(* time are those the daemon keeps in its context and passes in.           *)
(***************************************************************************)
EXTENDS SyncStates

\* The pid file is missing, or the lock states of EEC and PPS in the CGU.
GnssReading == {[ts2phc |-> FALSE]} \cup [ts2phc: {TRUE}, eec: BOOLEAN, pps: BOOLEAN]

GnssVerdict(in) == IF in.ts2phc /\ in.eec /\ in.pps THEN Locked ELSE Freerun

GnssPolled(gnss, in, holdover) == Judged(gnss, GnssVerdict(in), holdover)
=============================================================================
