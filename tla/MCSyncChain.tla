---------------------------- MODULE MCSyncChain ----------------------------
(***************************************************************************)
(* SyncChain on a node with two hardware clocks and phc2sys in HA mode:    *)
(* dev1 is listed by a ts2phc and by a ptp4l instance, so its time comes   *)
(* from GNSS or, over PTP, from another node; dev2 is listed by none.      *)
(***************************************************************************)
EXTENDS SyncChain

MCDevices == {"dev1", "dev2"}
MCPtpOrder == <<"ptp1">>
MCGnssOrder == <<"gnss1">>
MCPtpDevices == [p \in {"ptp1"} |-> {"dev1"}]
MCGnssDevices == [g \in {"gnss1"} |-> {"dev1"}]

MCEnv == [ptp |-> -1, gnss |-> -1, os |-> -1, overall |-> 2]
MCConf == [ptp1 |-> 1, gnss1 |-> 2, synce1 |-> 1, phc2sys |-> 1]
\* An OS clock that may coast for longer than the ptp4l instance.
MCConfLongOs == [MCConf EXCEPT !.phc2sys = 2]
MCQl == [Locked |-> 2, Holdover |-> 4, Freerun |-> 15, Unknown |-> 255]

Answer(gm, slave, offset, class) ==
  [kind |-> "read", complete |-> TRUE, gm |-> gm, slave |-> slave,
   traceable |-> "1", offset |-> offset, class |-> class]

MCPtpReadings ==
  { [kind |-> "missing"], [kind |-> "failed"],
    Answer("remote", TRUE, "within", "6"),        \* locked to PTP
    Answer("local", FALSE, "within", "6"),        \* locked, is the grandmaster
    Answer("remote", TRUE, "beyond", "6") }       \* a slave, not locked

Os(valid, selected, within) ==
  [valid |-> valid, selected |-> selected, within |-> within, phc2sys |-> TRUE]

MCOsReadings ==
  { Os(TRUE, "dev1", TRUE), Os(TRUE, "dev2", TRUE), Os(TRUE, "dev1", FALSE),
    Os(FALSE, None, TRUE), Os(TRUE, None, TRUE),
    Os(TRUE, NoPhc, FALSE), Os(TRUE, NoPhc, TRUE) }   \* and a UTC offset of 0
=============================================================================
