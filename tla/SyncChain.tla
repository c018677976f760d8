----------------------------- MODULE SyncChain -----------------------------
(***************************************************************************)
(* The main loop of PtpWatcherDefault (daemon.py:639-677): one iteration   *)
(* polls the ptp4l instances, the ts2phc instances, the SyncE instances    *)
(* and the OS clock, in this order, then derives the overall state from    *)
(* what it has found, tells clients what changed and waits.                *)
(***************************************************************************)
EXTENDS HoldoverTimes, OsClockMonitor, GnssMonitor, SynceMonitor

CONSTANTS
  SynceInstances,
  LockedClasses, MaxAge,     \* see PtpPoll
  Delays,              \* half-seconds from one iteration to the next
  PtpReadings, OsReadings    \* what polls may find

\* A ptp4l instance whose holdover time is h.
Ptp(h) == INSTANCE PtpPoll WITH HoldoverTime <- h

PtpInstances  == {PtpOrder[i] : i \in 1 .. Len(PtpOrder)}
GnssInstances == {GnssOrder[i] : i \in 1 .. Len(GnssOrder)}

ASSUME SyncChainAssumption ==
  /\ PtpOrder \in Seq(PtpInstances) /\ GnssOrder \in Seq(GnssInstances)
  /\ DefaultHoldover \in Nat /\ MaxAge \in Nat
  /\ Env \in [{"ptp", "gnss", "os", "overall"} -> Nat \cup {Unset}]
  /\ Conf \in [PtpInstances \cup GnssInstances \cup SynceInstances \cup {Phc2sys}
                 -> Nat \cup {Unset}]
  /\ PtpDevices \in [PtpInstances -> SUBSET Devices]
  /\ GnssDevices \in [GnssInstances -> SUBSET Devices]
  /\ Delays \subseteq Nat \ {0}
  /\ PtpReadings \subseteq Ptp(0)!Reading
  /\ OsReadings \subseteq OsReading

VARIABLES
  pc,                  \* what the loop does next
  forced,              \* everything is told in this iteration
  ptp,                 \* the PtpMonitor objects
  gnss,                \* state and age in the daemon's contexts of the ts2phc instances
  synce,               \* the SynceMonitor objects
  os,                  \* state and age in the OS clock's context, and its source device
  overall,             \* state and age in the context of the overall state
  told                 \* what clients were told last, of each resource

vars == <<pc, forced, ptp, gnss, synce, os, overall, told>>

Nothing == [ptp   |-> [p \in PtpInstances |-> None],
            class |-> [p \in PtpInstances |-> None],
            gnss  |-> [g \in GnssInstances |-> None],
            synce |-> [s \in SynceInstances |-> None],
            ql    |-> [s \in SynceInstances |-> None],
            os    |-> None, overall |-> None]
-----------------------------------------------------------------------------
\* The first ts2phc instance of the device, and the first ptp4l instance of it that
\* has a slave port or, if none has, that is its own grandmaster.
PrimaryGnss(device) == First(GnssOrder, LAMBDA g : device \in GnssDevices[g])

PrimaryPtp(device) ==
  LET With(source) ==
        First(PtpOrder, LAMBDA p : device \in PtpDevices[p] /\ ptp[p].source = source)
  IN IF With(TypePTP) # None THEN With(TypePTP) ELSE With(TypeGNSS)

Source(device) ==
  IF PrimaryPtp(device) # None THEN ptp[PrimaryPtp(device)].source
  ELSE IF PrimaryGnss(device) # None THEN TypeGNSS
  ELSE TypeNA

\* Mutant of ChainLocked: a locked source is enough, whatever the OS clock does.
ChainLockedWithoutOs ==
  /\ os.device # None
  /\ \/ Source(os.device) = TypeGNSS /\ PrimaryGnss(os.device) # None
        /\ gnss[PrimaryGnss(os.device)].state = Locked
     \/ Source(os.device) = TypePTP /\ ptp[PrimaryPtp(os.device)].state = Locked

\* The OS clock follows a device whose source is locked.
ChainLocked ==
  /\ os.state = Locked /\ os.device # None
  /\ \/ /\ Source(os.device) = TypeGNSS
        /\ PrimaryGnss(os.device) # None
        /\ gnss[PrimaryGnss(os.device)].state = Locked
     \/ /\ Source(os.device) = TypePTP
        /\ ptp[PrimaryPtp(os.device)].state = Locked

OverallVerdict == IF ChainLocked THEN Locked ELSE Freerun

\* The holdover time of the device's source: a ts2phc instance before a ptp4l one.
SourceHoldover(device) ==
  LET ptp4l == First(PtpOrder, LAMBDA p : device \in PtpDevices[p])
  IN IF PrimaryGnss(device) # None THEN GnssHoldover(PrimaryGnss(device))
     ELSE IF ptp4l # None THEN PtpHoldover(ptp4l)
     ELSE Unset

\* Mutant of OverallHoldover: the OS clock is not part of the chain.
OverallHoldoverOfSource ==
  IF os.device = None THEN OsHoldover
  ELSE IF SourceHoldover(os.device) = Unset THEN get_overall_holdover_time
  ELSE SourceHoldover(os.device)

OverallHoldover ==
  IF os.device = None THEN OsHoldover
  ELSE IF SourceHoldover(os.device) = Unset THEN get_overall_holdover_time
  ELSE Smaller(SourceHoldover(os.device), OsHoldover)
-----------------------------------------------------------------------------
\* The process, before the watcher is built.
Init ==
  /\ pc = "stopped"
  /\ forced = FALSE
  /\ ptp = [p \in PtpInstances |-> Ptp(0)!Fresh]
  /\ gnss = [g \in GnssInstances |-> [state |-> Freerun, age |-> 0]]
  /\ synce = [s \in SynceInstances |-> FreshSynce]
  /\ os = [state |-> Freerun, age |-> 0, device |-> None]
  /\ overall = [state |-> Freerun, age |-> 0]
  /\ told = Nothing

\* Mutant of InitiallyForced.
InitiallyNotForced == FALSE

\* self.forced_publishing of a new watcher.
InitiallyForced == TRUE

\* The watcher is built: its contexts start in FREERUN, and the constructors of the
\* ptp4l monitors and of the OS clock monitor poll once.
Start ==
  /\ pc = "stopped" /\ pc' = "ptp"
  /\ forced' = InitiallyForced
  /\ \E in \in [PtpInstances -> {r \in PtpReadings : r.kind # "failed"}] :
       ptp' = [p \in PtpInstances |-> Ptp(PtpHoldover(p))!Polled(Ptp(0)!Fresh, in[p])]
  /\ gnss' = [g \in GnssInstances |-> [state |-> Freerun, age |-> 0]]
  /\ synce' = [s \in SynceInstances |-> FreshSynce]
  /\ \E in \in OsReadings, device \in Devices \cup {None} :
       /\ HaEnabled => device = None
       /\ os' = [state |-> Freerun, age |-> 0, device |-> SourceDevice(device, in)]
  /\ overall' = [state |-> Freerun, age |-> 0]
  /\ UNCHANGED told

\* __publish_ptpstatus: state and clock class are told when they changed, or all.
PollPtp ==
  /\ pc = "ptp" /\ pc' = "gnss"
  /\ \E in \in [PtpInstances -> {r \in PtpReadings : r.kind # "failed"}] :
       LET new == [p \in PtpInstances |-> Ptp(PtpHoldover(p))!Polled(ptp[p], in[p])] IN
       /\ ptp' = new
       /\ told' = [told EXCEPT
            !.ptp = [p \in PtpInstances |->
                       IF forced \/ new[p].event THEN new[p].state ELSE @[p]],
            !.class = [p \in PtpInstances |->
                       IF forced \/ new[p].classEvent THEN new[p].class ELSE @[p]]]
  /\ UNCHANGED <<forced, gnss, synce, os, overall>>

\* pmc fails and the process exits; the container is started again.
Die ==
  /\ pc = "ptp" /\ pc' = "stopped"
  /\ \E in \in PtpReadings : in.kind = "failed"
  /\ UNCHANGED <<forced, ptp, gnss, synce, os, overall, told>>

PollGnss ==
  /\ pc = "gnss" /\ pc' = "synce"
  /\ \E in \in [GnssInstances -> GnssReading] :
       gnss' = [g \in GnssInstances |-> GnssPolled(gnss[g], in[g], GnssHoldover(g))]
  /\ told' = [told EXCEPT !.gnss = [g \in GnssInstances |->
                IF forced \/ gnss'[g].state # gnss[g].state THEN gnss'[g].state ELSE @[g]]]
  /\ UNCHANGED <<forced, ptp, synce, os, overall>>

\* The lock state, then the clock quality that goes with it.
PollSynce ==
  /\ pc = "synce" /\ pc' = "os"
  /\ \E raw \in [SynceInstances -> SynceReading] :
       synce' = [s \in SynceInstances |->
                   SyncePolled(synce[s], raw[s], SynceHoldover(s))]
  /\ told' = [told EXCEPT
       !.synce = [s \in SynceInstances |->
                    IF forced \/ synce'[s].state # synce[s].state
                    THEN synce'[s].state ELSE @[s]],
       !.ql = [s \in SynceInstances |->
                    IF forced \/ Ql[synce'[s].state] # Ql[synce[s].state]
                    THEN Ql[synce'[s].state] ELSE @[s]]]
  /\ UNCHANGED <<forced, ptp, gnss, os, overall>>

PollOs ==
  /\ pc = "os" /\ pc' = "overall"
  /\ \E in \in OsReadings : os' = OsPolled(os, in, OsHoldover)
  /\ told' = [told EXCEPT !.os =
                IF forced \/ os'.state # os.state THEN os'.state ELSE @]
  /\ UNCHANGED <<forced, ptp, gnss, synce, overall>>

DeriveOverall ==
  /\ pc = "overall" /\ pc' = "wait"
  /\ overall' = Judged(overall, OverallVerdict, OverallHoldover)
  /\ told' = [told EXCEPT !.overall =
                IF forced \/ overall'.state # overall.state THEN overall'.state ELSE @]
  /\ UNCHANGED <<forced, ptp, gnss, synce, os>>

\* Time passes until the wait times out or the event is set.  Only the ages of clocks
\* in HOLDOVER are ever looked at.
Aged(c, d) ==
  IF c.state # Holdover THEN c
  ELSE [c EXCEPT !.age = Smaller(@ + d, MaxAge)]

Wait ==
  /\ pc = "wait" /\ pc' = "ptp"
  /\ forced' = FALSE
  /\ \E d \in Delays :
       /\ ptp' = [p \in PtpInstances |-> Aged(ptp[p], d)]
       /\ gnss' = [g \in GnssInstances |-> Aged(gnss[g], d)]
       /\ synce' = [s \in SynceInstances |->
                      IF synce[s].state = Holdover /\ synce[s].since # NotStarted
                      THEN [synce[s] EXCEPT !.since = Smaller(@ + d, MaxAge)]
                      ELSE synce[s]]
       /\ os' = Aged(os, d)
       /\ overall' = Aged(overall, d)
  /\ UNCHANGED told

\* A reload was requested: the loop ends, and a new watcher is built.
Reload ==
  /\ pc = "wait" /\ pc' = "stopped"
  /\ UNCHANGED <<forced, ptp, gnss, synce, os, overall, told>>

Iterate ==
  \/ Start \/ PollPtp \/ PollGnss \/ PollSynce \/ PollOs \/ DeriveOverall \/ Wait

Next == Iterate \/ Die \/ Reload

Spec == Init /\ [][Next]_vars

\* The loop does not stop, except to be restarted.
FairSpec == Spec /\ WF_vars(Iterate)
-----------------------------------------------------------------------------
Clock == [state: SyncState, age: 0 .. MaxAge]

\* Every clock has a state and an age, and the OS clock a device of the node, whatever the
\* polls found or failed to find (daemon.py:600-1000).
TypeOK ==
  /\ pc \in {"stopped", "ptp", "gnss", "synce", "os", "overall", "wait"}
  /\ forced \in BOOLEAN
  /\ ptp \in [PtpInstances -> Ptp(0)!Monitor]
  /\ gnss \in [GnssInstances -> Clock]
  /\ synce \in [SynceInstances -> [state: SyncState, since: {NotStarted} \cup 0 .. MaxAge]]
  /\ os \in [state: SyncState, age: 0 .. MaxAge, device: Devices \cup {None}]
  /\ overall \in Clock
  /\ told = [resource \in DOMAIN Nothing |-> told[resource]]

\* Whenever the loop waits, clients have been told the present state of everything,
\* also after a restart has thrown the daemon's contexts away (daemon.py:606-608).
ToldIsCurrent ==
  pc = "wait" =>
    told = [ptp   |-> [p \in PtpInstances |-> ptp[p].state],
            class |-> [p \in PtpInstances |-> ptp[p].class],
            gnss  |-> [g \in GnssInstances |-> gnss[g].state],
            synce |-> [s \in SynceInstances |-> synce[s].state],
            ql    |-> [s \in SynceInstances |-> Ql[synce[s].state]],
            os    |-> os.state, overall |-> overall.state]

\* Clients told that the node is synchronised are also told that its OS clock is, and
\* that some instance of the OS clock's present source device is (daemon.py:797-868).
OverallIsBacked ==
  pc = "wait" /\ told.overall = Locked =>
    /\ told.os = Locked
    /\ \/ \E g \in GnssInstances : os.device \in GnssDevices[g] /\ told.gnss[g] = Locked
       \/ \E p \in PtpInstances : os.device \in PtpDevices[p] /\ told.ptp[p] = Locked

\* The overall state does not outlive the OS clock: once the OS clock is in FREERUN the
\* overall state is no longer in HOLDOVER, except on a device without any configured
\* source, for which OVERALL_HOLDOVER_SECONDS counts alone (daemon.py:917-976).
OverallEndsWithOs ==
  pc = "wait" /\ os.state = Freerun /\ overall.state = Holdover =>
    os.device # None /\ SourceHoldover(os.device) = Unset

\* Between two restarts every clock the loop polls keeps the promise of Holdover.tla, also
\* a ptp4l instance whose answers are incomplete, and the overall state with the holdover
\* time of the chain as it is at that moment.  SyncE is the exception: it may be found in
\* FREERUN while it is LOCKED (synce_monitor.py:163-166).
PtpPromise(p) == INSTANCE Holdover WITH
  state <- ptp[p].state, age <- ptp[p].age, holdover <- PtpHoldover(p)
GnssPromise(g) == INSTANCE Holdover WITH
  state <- gnss[g].state, age <- gnss[g].age, holdover <- GnssHoldover(g)
OsPromise == INSTANCE Holdover WITH
  state <- os.state, age <- os.age, holdover <- OsHoldover
OverallPromise == INSTANCE Holdover WITH
  state <- overall.state, age <- overall.age, holdover <- OverallHoldover
ClocksKeepPromise ==
  [][pc # "stopped" =>
       /\ \A p \in PtpInstances : [PtpPromise(p)!Next]_<<ptp[p].state, ptp[p].age>>
       /\ \A g \in GnssInstances : [GnssPromise(g)!Next]_<<gnss[g]>>
       /\ [OsPromise!Next]_<<os.state, os.age>>
       /\ [OverallPromise!Next]_overall]_vars

\* Whoever is in HOLDOVER at the end of an iteration has just begun, or has holdover time
\* left, although the chain's time may change with the device; and a SyncE instance in it
\* always knows since when, or it would stay there for ever (daemon.py:870-976,
\* synce_monitor.py:147-156).
WithinHoldover(c, h) == c.state = Holdover => c.age = 0 \/ Rounded(c.age) < h
HoldoverIsTimed ==
  /\ \A s \in SynceInstances : synce[s].state = Holdover => synce[s].since # NotStarted
  /\ pc = "wait" =>
       /\ \A g \in GnssInstances : WithinHoldover(gnss[g], GnssHoldover(g))
       /\ WithinHoldover(os, OsHoldover)
       /\ WithinHoldover(overall, OverallHoldover)

\* A broken chain ends in FREERUN, and a working one in LOCKED, and clients are told so
\* whatever happened before: holdover is finite (daemon.py:870-904).
OverallSettles ==
  []<>(pc = "wait") =>
    /\ <>[](~ChainLocked) => <>[](told.overall = Freerun)
    /\ <>[](pc # "stopped" => ChainLocked) => <>[](told.overall = Locked)

\* What the docstring of __calculate_overall_holdover_time says (daemon.py:918-923):
\* the overall holdover time is the minimum over the active chain, so it is not longer
\* than that of the ptp4l instance the device's time comes from.
HoldoverIsChainMinimum ==
  pc = "wait" /\ os.device # None /\ Source(os.device) = TypePTP =>
    OverallHoldover <= PtpHoldover(PrimaryPtp(os.device))
=============================================================================
