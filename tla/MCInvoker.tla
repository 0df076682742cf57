------------------------------ MODULE MCInvoker ------------------------------
(***************************************************************************)
(* Invoker has no parameter that is bounded: TLC explores all of it.       *)
(***************************************************************************)
EXTENDS InvokerProps
=============================================================================
