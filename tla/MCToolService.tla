--------------------------- MODULE MCToolService ----------------------------
(***************************************************************************)
(* A small instance of ToolService for TLC: two invocations after an       *)
(* earlier one, which gave up before it journaled anything or whose task   *)
(* waits to be continued.                                                  *)
(***************************************************************************)
EXTENDS ToolServiceProps

CONSTANTS m0, m1, m2, s1, s2, x1

\* One scope, or two: scopes differ in name only.
OneOrTwo == {f \in [Messages -> Scopes] : \A m \in Messages \ {m2} : f[m] = s1}

\* States of ToolService in which m0 has ended, and m2 is of its scope if its
\* task waits.
Waiting == [ctx |-> x1, task |-> m0, msg |-> m0, state |-> "interrupted",
            pending |-> TRUE, unknown |-> FALSE]
At0(value, other) == [m \in Messages |-> IF m = m0 THEN value ELSE other]
MCInit ==
  \E waits \in BOOLEAN :
    /\ exec \in IF waits THEN {[c \in Contexts |-> Waiting]}
                ELSE {[c \in Contexts |-> Empty], [c \in Contexts |-> [Empty EXCEPT !.ctx = c]]}
    /\ scope \in {f \in Scopings : waits => f[m2] = s1}
    /\ bind \in IF waits THEN {[s \in Scopes |-> IF s = s1 THEN Waiting ELSE Empty]}
                ELSE [Scopes -> {exec[x1]}]
    /\ pc = At0("done", "idle")
    /\ ctx = At0(None, None) /\ follow = At0(None, None)
    /\ base = At0(Empty, Empty) /\ previous = At0(Empty, Empty)
    /\ locked = At0(None, None) /\ queue = At0(<<>>, <<>>)
    /\ half = {} /\ aborted = {} /\ net = {} /\ answered = {}
    /\ acked = IF waits THEN {m0} ELSE {}
    /\ outcome = At0(IF waits THEN "ok" ELSE "failed", "none")
    /\ taskOf = At0(IF waits THEN m0 ELSE None, None)
    /\ ctxOf = At0(IF waits THEN x1 ELSE None, None)
    /\ state = At0(IF waits THEN "interrupted" ELSE "none", "none")
MCSpec == MCInit /\ [][Next]_vars /\ Fairness
=============================================================================
