---------------------------- MODULE MCDelegation ----------------------------
(***************************************************************************)
(* A small instance of Delegation for TLC.                                 *)
(***************************************************************************)
EXTENDS DelegationProps

CONSTANTS x1, x2

ThreeTurns == 1..3
=============================================================================
