--------------------------- MODULE DelegationProps ---------------------------
(***************************************************************************)
(* What agents that call agents rely on, and the inductive invariant       *)
(* behind it.                                                              *)
(***************************************************************************)
EXTENDS Delegation

\* No more than MAX_A2A_HOPS delegations to Letta agents follow one another,
\* whichever kind of agent began the chain (delegation.ts:30,
\* letta-runtime.ts:156).  A call of the reference agent is not one of them, and
\* what that agent calls is counted from one again (outbound.py:169): with a
\* limit of two or more a chain that passes through it has no end.
Calls(c, n) == \A i \in 1..n : parent[c[i]] = c[i - 1]
Chain(c, n) == Calls(c, n) /\ \A i \in 1..n : agent[c[i]] = "letta"
ChainBounded == ~\E c \in [0..(MaximumHops + 1) -> Turns] : Chain(c, MaximumHops + 1)

\* With the limit of one that the service is shipped with (index.ts:23) every
\* chain ends, the reference agent included: a Letta agent that was called
\* calls nobody (letta-runtime.ts:154).
ShortChains == MaximumHops = 1 => ~\E c \in [0..3 -> Turns] : Calls(c, 3)

\* A turn that has ended left no call behind it: a call in flight holds the
\* turn, and its context, until it has settled (letta-runtime.ts:225).
SessionIsQuiet ==
  \A t \in Turns : turn[t] \in {"done", "killed"} => call[t] = "none"

\* A process that exits with 0 has no turn queued, running or calling
\* (index.ts:126, letta-runtime.ts:139).
ExitIsHonest ==
  process = "complete" => \A t \in Letta : ~Live(t) /\ call[t] = "none"

\* Each provider has at most one exchange under way, also when callers give up
\* in the middle of one (oauth-client.ts:51, outbound.py:90).
OneExchange == \A p \in Providers : exchanges[p] <= 1

\* No exchange is begun while the cache holds a token that would do, though it
\* was stored while the caller queued (outbound.py:91).
NoWastedExchange ==
  [][\A p \in Providers : exchanges'[p] > exchanges[p] => p \notin fresh]_vars

\* A turn or task that began ends, also when it waits for a turn of a context
\* it holds itself, or for a token (letta-runtime.ts:119).
TurnsEnd == \A t \in Turns : Live(t) ~> ~Live(t)

(***************************************************************************)
(* The inductive invariant, in named parts.                                *)
(***************************************************************************)

\* The shared provider has an exchange while it says so, the other one while
\* its lock is held, and whoever holds the lock is exchanging.
CacheInv ==
  /\ exchanges["shared"] = IF inFlight THEN 1 ELSE 0
  /\ exchanges["locked"] = IF lock = {} THEN 0 ELSE 1
  /\ \A t \in Turns :
       /\ call[t] = "exchanging" => lock = {t}
       /\ t \in lock => call[t] = "exchanging" /\ agent[t] = "reference"

\* Only a turn at work calls, and only a session is closed.
CallInv ==
  \A t \in Turns :
    /\ call[t] # "none" => turn[t] \in {"running", "closing"}
    /\ turn[t] = "closing" => agent[t] = "letta"

\* A turn of a Letta agent is one hop further than the turn that called it, which
\* has begun; a task of the reference agent has no hop, and is called only by a
\* turn that may delegate; what has not begun has no caller.
HopInv ==
  \A t \in Turns :
    /\ turn[t] = "none" => parent[t] = 0
    /\ turn[t] = "none" \/ agent[t] = "reference" => hop[t] = 0
    /\ parent[t] # 0 =>
         /\ turn[parent[t]] # "none"
         /\ agent[t] = "letta" => hop[t] = hop[parent[t]] + 1
         /\ agent[t] = "reference" => agent[parent[t]] = "letta" /\ hop[parent[t]] < MaximumHops

\* Only a turn that may delegate has a call.
LimitInv == \A t \in Turns : call[t] # "none" /\ agent[t] = "letta" => hop[t] < MaximumHops

IInv == TypeOK /\ CacheInv /\ CallInv /\ HopInv /\ LimitInv /\ ExitIsHonest
=============================================================================
