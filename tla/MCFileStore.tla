---------------------------- MODULE MCFileStore -----------------------------
(***************************************************************************)
(* A small instance of FileStore for TLC: two calls in two processes, of   *)
(* one key or of two.                                                      *)
(***************************************************************************)
EXTENDS FileStoreProps

CONSTANTS c1, c2, k1, k2, p1, p2

Apart == [c \in {c1, c2} |-> IF c = c1 THEN p1 ELSE p2]
=============================================================================
