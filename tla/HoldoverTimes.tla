--------------------------- MODULE HoldoverTimes ---------------------------
(***************************************************************************)
(* Which holdover time each monitor ends up with: environment variables,   *)
(* the monitoring configuration of the instance, defaults                  *)
(* (instance_config_parser.py and the constructors that use it).           *)
(***************************************************************************)
EXTENDS SyncStates, Sequences

CONSTANTS
  PtpOrder, GnssOrder, \* the ptp4l and ts2phc instances in the order of their lists
  Phc2sys,             \* the phc2sys instance
  PtpDevices, GnssDevices,   \* the hardware clocks of each instance
  GenericTs2phc,       \* the ts2phc instances started with -s generic
  Env,                 \* *_HOLDOVER_SECONDS for ptp, gnss, os and overall; Unset
  Conf,                \* holdover_seconds of each instance in its section; Unset
  DefaultHoldover

Unset == -1

Or(value, default) == IF value # Unset THEN value ELSE default

\* The first instance of a list that passes the test, or None.
First(order, Test(_)) ==
  LET Found == {i \in DOMAIN order : Test(order[i])}
  IN IF Found = {} THEN None ELSE order[CHOOSE i \in Found : \A j \in Found : i <= j]

Smaller(a, b) == IF a < b THEN a ELSE b

get_instance_holdover_time(i, default) == Or(Env.ptp, Or(Conf[i], default))
get_instance_gnss_holdover_time(i) == Or(Env.gnss, Or(Conf[i], DefaultHoldover))
get_instance_osclock_holdover_time(i, default) == Or(Env.os, Or(Conf[i], default))
get_overall_holdover_time == Or(Env.overall, DefaultHoldover)

\* What the daemon works out for ptp4l instance p before it builds the monitor ...
EffectiveHoldover(p) ==
  LET own    == get_instance_holdover_time(p, DefaultHoldover)
      shared == First(GnssOrder, LAMBDA g : GnssDevices[g] \cap PtpDevices[p] # {})
  IN IF shared = None \/ shared \in GenericTs2phc THEN own
     ELSE Smaller(own, get_instance_gnss_holdover_time(shared))

\* ... which is only a default for the monitor's own look-up.
PtpHoldover(p) == get_instance_holdover_time(p, EffectiveHoldover(p))

\* GnssMonitor looks its time up as a ptp4l instance would.
GnssHoldover(g) == get_instance_holdover_time(g, get_instance_gnss_holdover_time(g))

OsHoldover ==
  get_instance_osclock_holdover_time(Phc2sys,
    get_instance_osclock_holdover_time(Phc2sys, DefaultHoldover))

\* A SyncE monitor takes what the daemon looked up.
SynceHoldover(s) == get_instance_holdover_time(s, DefaultHoldover)
=============================================================================
