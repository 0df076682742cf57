-------------------------- MODULE MCBridgeRequests --------------------------
(***************************************************************************)
(* A small instance of BridgeRequests for TLC: r1 starts task t1, r2 and   *)
(* its duplicate r3 continue it, k1 cancels it, and k2 cancels t2, which   *)
(* an earlier process may have left.                                       *)
(***************************************************************************)
EXTENDS BridgeRequestsProps

CONSTANTS r1, r2, r3, k1, k2, t1, t2, m1, m2

Duplicate == [r \in Sends |-> IF r = r1 THEN m1 ELSE m2]
AllKinds == [r \in Sends |-> IF r = r1 THEN "immediate" ELSE IF r = r2 THEN "stream" ELSE "blocking"]
TwoTasks == [r \in Requests |-> IF r = k2 THEN t2 ELSE t1]
=============================================================================
