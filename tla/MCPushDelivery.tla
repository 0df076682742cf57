--------------------------- MODULE MCPushDelivery ----------------------------
(***************************************************************************)
(* A small instance of PushToLedger for TLC.                               *)
(***************************************************************************)
EXTENDS PushDeliveryProps
Two == 1..2
=============================================================================
