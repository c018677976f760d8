---------------------------- MODULE MCPtpWatcher ----------------------------
(***************************************************************************)
(* PtpWatcher with two RPC threads, so that two queries, or a query and a  *)
(* trigger, meet each other and the loop.                                  *)
(***************************************************************************)
EXTENDS PtpWatcher
=============================================================================
