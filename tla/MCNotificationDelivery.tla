----------------------- MODULE MCNotificationDelivery -----------------------
(***************************************************************************)
(* The lock state of SyncE and the extended one, whose path begins with    *)
(* its path; subscriptions to the first, to all resources, and once more   *)
(* to the first.                                                           *)
(***************************************************************************)
EXTENDS NotificationDelivery
CONSTANTS state, extended, a, b, c
MCAbove == [r \in Resources |-> IF r = extended THEN {state} ELSE {}]
MCPath == [s \in Subscriptions |-> IF s = b THEN All ELSE state]
=============================================================================
