--------------------------- MODULE MCConfigReload ---------------------------
(***************************************************************************)
(* ConfigReload with three changes: one read when the daemon is built, one *)
(* whose timer has expired when the next one cancels it, and one more      *)
(* while the callback of the second is on its way.                         *)
(***************************************************************************)
EXTENDS ConfigReload
=============================================================================
