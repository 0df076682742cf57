----------------------------- MODULE MCToolCalls -----------------------------
(***************************************************************************)
(* A small instance of ToolCalls for TLC: two invocations that need the    *)
(* same lock and a cancellation beside them.                               *)
(***************************************************************************)
EXTENDS ToolCallsProps, TLC

CONSTANTS i1, i2, t1

ThreeKinds == (i1 :> "invoke") @@ (i2 :> "invoke") @@ (t1 :> "cancel")
=============================================================================
