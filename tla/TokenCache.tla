----------------------------- MODULE TokenCache -----------------------------
(***************************************************************************)
(* Access tokens of calls to other agents.  The bridge's provider          *)
(* (oauth-client.ts) lets its callers share one exchange, which none of    *)
(* them can abort; that of the reference agent (outbound.py) has its       *)
(* callers queue for a lock, and each looks at the cache again before it   *)
(* exchanges for itself.                                                   *)
(***************************************************************************)
EXTENDS Naturals

CONSTANT Callers

Providers == {"shared", "locked"}

VARIABLES
  fresh,        \* providers whose cached token outlives the refresh skew
  exchanges,    \* exchanges under way
  inFlight,     \* exchangeInFlight of the shared provider
  lock,         \* the callers that hold the lock of the other, at most one
  call          \* where a caller's request is

cache == <<fresh, exchanges, inFlight, lock>>

Steps == {"none", "token", "waiting", "exchanging", "sending", "polling"}

CacheOK ==
  /\ fresh \subseteq Providers /\ exchanges \in [Providers -> 0..2]
  /\ inFlight \in BOOLEAN /\ lock \subseteq Callers /\ call \in [Callers -> Steps]

CacheInit ==
  /\ fresh = {} /\ exchanges = [p \in Providers |-> 0] /\ inFlight = FALSE /\ lock = {}
  /\ call = [c \in Callers |-> "none"]

Goto(c, step) == call' = [call EXCEPT ![c] = step]
Began(p) == exchanges' = [exchanges EXCEPT ![p] = @ + 1]
Ended(p) == exchanges' = [exchanges EXCEPT ![p] = @ - 1]

UseCached(c, p) ==
  /\ call[c] = "token" /\ p \in fresh
  /\ Goto(c, "sending") /\ UNCHANGED cache

\* The first caller begins the exchange, under a signal of its own; later
\* ones join it.
Join(c) ==
  /\ call[c] = "token" /\ "shared" \notin fresh
  /\ Goto(c, "waiting") /\ inFlight' = TRUE
  /\ IF inFlight THEN UNCHANGED exchanges ELSE Began("shared")
  /\ UNCHANGED <<fresh, lock>>

Queue(c) ==
  /\ call[c] = "token" /\ "locked" \notin fresh
  /\ Goto(c, "waiting") /\ UNCHANGED cache

\* async with self._lock: a token stored meanwhile is used.
Acquire(c) ==
  /\ call[c] = "waiting" /\ lock = {}
  /\ IF "locked" \in fresh
     THEN Goto(c, "sending") /\ UNCHANGED cache
     ELSE /\ Goto(c, "exchanging") /\ lock' = {c} /\ Began("locked")
          /\ UNCHANGED <<fresh, inFlight>>

\* The shared exchange ends for all who wait for it, the other for its caller.
SharedExchange(waiters, ok) ==
  /\ exchanges["shared"] > 0
  /\ fresh' = IF ok THEN fresh \cup {"shared"} ELSE fresh
  /\ call' = [c \in Callers |-> IF c \notin waiters THEN call[c]
                                ELSE IF ok THEN "sending" ELSE "none"]
  /\ Ended("shared") /\ inFlight' = FALSE
  /\ UNCHANGED lock

LockedExchange(c, ok) ==
  /\ call[c] = "exchanging"
  /\ fresh' = IF ok THEN fresh \cup {"locked"} ELSE fresh
  /\ Goto(c, IF ok THEN "sending" ELSE "none")
  /\ Ended("locked") /\ lock' = {}
  /\ UNCHANGED inFlight

Expire(p) ==
  /\ p \in fresh /\ fresh' = fresh \ {p}
  /\ UNCHANGED <<exchanges, inFlight, lock, call>>

\* Mutant: a caller that leaves takes the flag of the shared exchange with it.
WithdrawAlone(c) ==
  /\ Goto(c, "none")
  /\ IF call[c] = "exchanging" THEN Ended("locked") /\ lock' = {} ELSE UNCHANGED <<exchanges, lock>>
  /\ inFlight' = IF call[c] = "waiting" THEN FALSE ELSE inFlight
  /\ UNCHANGED fresh

\* A caller whose signal is aborted leaves; the exchange it shares goes on,
\* one of its own is canceled with it.
Withdraw(c) ==
  /\ Goto(c, "none")
  /\ IF call[c] = "exchanging" THEN Ended("locked") /\ lock' = {} ELSE UNCHANGED <<exchanges, lock>>
  /\ UNCHANGED <<fresh, inFlight>>
=============================================================================
