---------------------------- MODULE MCPtpMonitor ----------------------------
(***************************************************************************)
(* PtpMonitor with the answers that the properties tell apart: every       *)
(* reason check_results has for each verdict, incomplete answers with and  *)
(* without a clock class, missing resources and a failing pmc.             *)
(***************************************************************************)
EXTENDS PtpMonitor

Answer(complete, gm, slave, traceable, offset, class) ==
  [kind |-> "read", complete |-> complete, gm |-> gm, slave |-> slave,
   traceable |-> traceable, offset |-> offset, class |-> class]

MCReadings ==
  { [kind |-> "missing"], [kind |-> "failed"],
    Answer(TRUE, "remote", TRUE, "1", "within", "6"),       \* locked to PTP
    Answer(TRUE, "local", FALSE, "1", "unparsable", "135"), \* locked, is the grandmaster
    Answer(TRUE, "remote", TRUE, "0", "within", "6"),       \* not traceable
    Answer(TRUE, "remote", TRUE, "1", "beyond", "7"),       \* offset too large
    Answer(TRUE, "local", FALSE, "1", "within", "248"),     \* class not in the list
    Answer(TRUE, "remote", FALSE, "1", "within", "6"),      \* no slave port
    Answer(TRUE, "absent", TRUE, "1", "within", "6"),       \* no grandmaster
    Answer(FALSE, "remote", FALSE, "0", "within", "248"),   \* incomplete, class read
    Answer(FALSE, "absent", FALSE, "0", "within", None) }   \* incomplete, no class
=============================================================================
