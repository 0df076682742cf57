---------------------------- MODULE ContextQueue ----------------------------
(***************************************************************************)
(* What a context lock promises its callers: work of one key runs alone    *)
(* and in arrival order, and a caller that gives up its place takes nobody *)
(* else's.  DurableTurns uses the lock of the runner in this form.         *)
(***************************************************************************)
CONSTANTS Calls, Keys, KeyOf

VARIABLES
  at,     \* where each call is
  ahead   \* the calls it has to wait for

Init == /\ at = [c \in Calls |-> "idle"]
        /\ ahead = [c \in Calls |-> {}]

Present(k) == {c \in Calls : KeyOf[c] = k /\ at[c] \in {"waiting", "working"}}

Enter(c) ==
  /\ at[c] = "idle"
  /\ at' = [at EXCEPT ![c] = "waiting"]
  /\ ahead' = [ahead EXCEPT ![c] = Present(KeyOf[c])]

Start(c) ==
  /\ at[c] = "waiting" /\ ahead[c] = {}
  /\ at' = [at EXCEPT ![c] = "working"]
  /\ UNCHANGED ahead

\* The work is over, or a waiting caller gives up.
Leave(c) ==
  /\ at[c] \in {"waiting", "working"}
  /\ at' = [at EXCEPT ![c] = "left"]
  /\ ahead' = [d \in Calls |-> IF d = c THEN {} ELSE ahead[d] \ {c}]

Next == \E c \in Calls : Enter(c) \/ Start(c) \/ Leave(c)

Spec == Init /\ [][Next]_<<at, ahead>>
=============================================================================
