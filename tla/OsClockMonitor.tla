--------------------------- MODULE OsClockMonitor ---------------------------
(***************************************************************************)
(* One poll of phc2sys (os_clock_monitor.py): which PHC disciplines the    *)
(* system clock, and how far the two are apart.                            *)
(***************************************************************************)
EXTENDS SyncStates

CONSTANTS
  Devices,             \* the PTP hardware clocks
  HaEnabled            \* phc2sys runs with ha_enabled

\* An interface without a hardware clock.
NoPhc == "no_phc"

\* valid: phc2sys names at least one valid source; selected: the device of the
\* interface it has selected; within: the offset, which counts as 0 if there is no device
\* or it cannot be read, is within the tolerance about the UTC offset; phc2sys: its
\* process runs.
OsReading ==
  [valid: BOOLEAN, selected: Devices \cup {NoPhc, None}, within: BOOLEAN,
   phc2sys: BOOLEAN]

\* Mutant of SourceDevice: an interface without a clock is taken for a device.
SourceDeviceUnchecked(device, in) ==
  IF ~HaEnabled \/ (in.selected = None /\ in.valid) THEN device ELSE in.selected

\* With HA the source is asked for on every poll; if none is selected although a
\* valid one is named, the device of the poll before stays.
SourceDevice(device, in) ==
  IF ~HaEnabled THEN device
  ELSE IF in.selected = NoPhc THEN None
  ELSE IF in.selected # None THEN in.selected
  ELSE IF in.valid THEN device
  ELSE None

OsVerdict(in) ==
  IF in.within /\ in.phc2sys /\ (HaEnabled => in.valid)
  THEN Locked ELSE Freerun

OsPolled(os, in, holdover) ==
  LET device == SourceDevice(os.device, in)
  IN [Judged(os, OsVerdict(in), holdover) EXCEPT !.device = device]
=============================================================================
