---------------------------- MODULE MCContextLock ---------------------------
(***************************************************************************)
(* A small instance of ContextLock for TLC: three calls of one context and *)
(* a fourth of another.                                                    *)
(***************************************************************************)
EXTENDS ContextLockProps

CONSTANTS c1, c2, c3, c4, k1, k2

FourCalls == [c \in {c1, c2, c3, c4} |-> IF c = c4 THEN k2 ELSE k1]
=============================================================================
