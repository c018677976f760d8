-------------------------- MODULE MCListenerClient --------------------------
(* Two listeners of one client. *)
EXTENDS ListenerClient
CONSTANTS x, y
=============================================================================
