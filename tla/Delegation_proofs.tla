-------------------------- MODULE Delegation_proofs --------------------------
(***************************************************************************)
(* Proofs about Delegation and TokenCache.                                 *)
(***************************************************************************)
EXTENDS DelegationProps, WellFoundedInduction, TLAPS

\* The types of the turns, apart from those of the cache.
TurnsOK ==
  /\ turn \in [Turns -> {"none", "queued", "running", "closing", "done", "killed"}]
  /\ agent \in [Turns -> {"letta", "reference"}] /\ context \in [Turns -> Contexts \cup {None}]
  /\ hop \in [Turns -> 0..MaximumHops] /\ parent \in [Turns -> {0} \cup Turns]
  /\ aborted \subseteq Turns /\ process \in {"open", "draining", "complete", "incomplete"}

\* The callers of the providers are the turns.
CallsOK ==
  /\ fresh \subseteq Providers /\ exchanges \in [Providers -> 0..2]
  /\ inFlight \in BOOLEAN /\ lock \subseteq Turns /\ call \in [Turns -> Steps]

LEMMA TypeParts == TypeOK <=> TurnsOK /\ CallsOK
  BY TurnsAssumption DEF TypeOK, CacheOK, TurnsOK, CallsOK

LEMMA InitIInv == Init => IInv
<1> SUFFICES ASSUME Init PROVE IInv
  OBVIOUS
<1> USE TurnsAssumption, HopsAssumption DEF Init, CacheInit
<1>1. CallsOK
  <2>1. exchanges \in [Providers -> 0..2]
    OBVIOUS
  <2> QED BY <2>1 DEF CallsOK, Steps
<1>2. TurnsOK
  BY DEF TurnsOK
<1>3. CacheInv
  BY DEF CacheInv, Providers
<1>4. CallInv /\ HopInv /\ LimitInv /\ ExitIsHonest
  BY DEF CallInv, HopInv, LimitInv, ExitIsHonest
<1> QED BY <1>1, <1>2, <1>3, <1>4, TypeParts DEF IInv

\* An exchange that begins where none is under way, and one that ends.
LEMMA BeganOne ==
  ASSUME CallsOK, NEW p \in Providers, exchanges[p] = 0, Began(p)
  PROVE  exchanges' \in [Providers -> 0..2]
  BY DEF CallsOK, Began
LEMMA EndedOne ==
  ASSUME CallsOK, NEW p \in Providers, exchanges[p] > 0, Ended(p)
  PROVE  exchanges' \in [Providers -> 0..2]
  BY DEF CallsOK, Ended

\* A request names a context.
LEMMA NamedContexts == ASSUME TypeOK PROVE Named \subseteq Contexts
<1>1. InUse \subseteq Contexts
  BY DEF InUse, TypeOK
<1>2. CASE Contexts \subseteq InUse
  BY <1>1, <1>2 DEF Named
<1>3. CASE ~(Contexts \subseteq InUse)
  <2>1. (CHOOSE x \in Contexts : x \notin InUse) \in Contexts
    BY <1>3
  <2> QED BY <1>1, <1>3, <2>1 DEF Named
<1> QED BY <1>2, <1>3

\* Hops stay within their bound.
LEMMA NextTurnsOK == TurnsOK /\ CallsOK /\ [Next]_vars => TurnsOK'
<1> SUFFICES ASSUME TurnsOK, CallsOK, [Next]_vars PROVE TurnsOK'
  OBVIOUS
<1>1. ASSUME NEW t \in Turns, Start(t) PROVE TurnsOK'
  BY <1>1, NamedContexts, TypeParts, HopsAssumption, TurnsAssumption DEF Start,
     Open, Unused, TurnsOK
<1>2. ASSUME NEW t \in Turns, Begin(t) PROVE TurnsOK'
  BY <1>2 DEF Begin, TurnsOK, request
<1>3. ASSUME NEW t \in Turns, LeaveQueue(t) PROVE TurnsOK'
  BY <1>3 DEF LeaveQueue, End, TurnsOK, request
<1>4. ASSUME NEW t \in Turns, EndTurn(t) PROVE TurnsOK'
  BY <1>4 DEF EndTurn, Settled, End, TurnsOK, request
<1>5. ASSUME NEW t \in Turns, Timeout(t) PROVE TurnsOK'
  BY <1>5 DEF Timeout, Cancel, TurnsOK, request
<1>6. ASSUME NEW t \in Turns, CloseSession(t) PROVE TurnsOK'
  BY <1>6 DEF CloseSession, TurnsOK, request
<1>7. ASSUME NEW t \in Turns, CallTool(t) PROVE TurnsOK'
  BY <1>7 DEF CallTool, Goto, TurnsOK, request
<1>8. ASSUME NEW t \in Turns, Token(t) PROVE TurnsOK'
  BY <1>8 DEF Token, UseCached, Join, Queue, Goto, Began, TurnsOK, request
<1>9. ASSUME NEW t \in Turns, Lock(t) PROVE TurnsOK'
  BY <1>9 DEF Lock, Acquire, Goto, Began, TurnsOK, request
<1>10. ASSUME NEW t \in Turns, Send(t) PROVE TurnsOK'
  BY <1>10, NamedContexts, TypeParts, HopsAssumption, TurnsAssumption DEF Send,
     Open, Unused, Goto, TurnsOK, Admitted, WithinHops, SentHop
<1>11. ASSUME NEW t \in Turns, SendFails(t) PROVE TurnsOK'
  BY <1>11 DEF SendFails, Goto, TurnsOK, request
<1>12. ASSUME NEW t \in Turns, Answered(t) PROVE TurnsOK'
  BY <1>12 DEF Answered, Goto, TurnsOK, request
<1>13. ASSUME NEW t \in Turns, Stop(t) PROVE TurnsOK'
  BY <1>13 DEF Stop, Withdraw, Goto, Ended, TurnsOK, request, Child
<1>14. CASE Exchanged
  BY <1>14 DEF Exchanged, SharedExchange, LockedExchange, Goto, Ended, TurnsOK,
     request
<1>15. CASE TokenExpires
  BY <1>15 DEF TokenExpires, Expire, TurnsOK, request
<1>16. CASE Shutdown
  BY <1>16 DEF Shutdown, TurnsOK, Live, Letta, request
<1>17. CASE Exit
  BY <1>17 DEF Exit, TurnsOK, request
<1>18. CASE Kill
  BY <1>18 DEF Kill, TurnsOK, Live, Letta
<1>19. CASE UNCHANGED vars
  BY <1>19 DEF vars, TurnsOK, request
<1> QED BY <1>1, <1>2, <1>3, <1>4, <1>5, <1>6, <1>7, <1>8, <1>9, <1>10, <1>11, <1>12, <1>13, <1>14, <1>15, <1>16, <1>17, <1>18, <1>19 DEF Next, Move

\* A provider has no more exchanges than it may.
LEMMA NextCallsOK == CallsOK /\ CacheInv /\ [Next]_vars => CallsOK'
<1> SUFFICES ASSUME CallsOK, CacheInv, [Next]_vars PROVE CallsOK'
  OBVIOUS
<1>1. ASSUME NEW t \in Turns, Start(t) PROVE CallsOK'
  BY <1>1 DEF Start, Open, Unused, CallsOK, cache
<1>2. ASSUME NEW t \in Turns, Begin(t) PROVE CallsOK'
  BY <1>2 DEF Begin, CallsOK, cache
<1>3. ASSUME NEW t \in Turns, LeaveQueue(t) PROVE CallsOK'
  BY <1>3 DEF LeaveQueue, End, CallsOK, cache
<1>4. ASSUME NEW t \in Turns, EndTurn(t) PROVE CallsOK'
  BY <1>4 DEF EndTurn, Settled, End, CallsOK, cache
<1>5. ASSUME NEW t \in Turns, Timeout(t) PROVE CallsOK'
  BY <1>5 DEF Timeout, Cancel, CallsOK, cache
<1>6. ASSUME NEW t \in Turns, CloseSession(t) PROVE CallsOK'
  BY <1>6 DEF CloseSession, CallsOK, cache
<1>7. ASSUME NEW t \in Turns, CallTool(t) PROVE CallsOK'
  BY <1>7 DEF CallTool, Goto, CallsOK, cache, Steps, Providers
<1>8. ASSUME NEW t \in Turns, Token(t) PROVE CallsOK'
  <2>1. exchanges' \in [Providers -> 0..2]
    <3>1. CASE UNCHANGED exchanges
      BY <3>1 DEF CallsOK
    <3>2. CASE exchanges["shared"] = 0 /\ Began("shared")
      BY <3>2, BeganOne DEF Providers
    <3> QED BY <1>8, <3>1, <3>2 DEF Token, UseCached, Join, Queue, CacheInv, cache
  <2> QED BY <1>8, <2>1 DEF Token, UseCached, Join, Queue, Goto, CallsOK, cache, Steps
<1>9. ASSUME NEW t \in Turns, Lock(t) PROVE CallsOK'
  <2>1. exchanges' \in [Providers -> 0..2]
    <3>1. CASE UNCHANGED exchanges
      BY <3>1 DEF CallsOK
    <3>2. CASE exchanges["locked"] = 0 /\ Began("locked")
      BY <3>2, BeganOne DEF Providers
    <3> QED BY <1>9, <3>1, <3>2 DEF Lock, Acquire, CacheInv, cache
  <2> QED BY <1>9, <2>1 DEF Lock, Acquire, Goto, CallsOK, cache, Steps
<1>10. ASSUME NEW t \in Turns, Send(t) PROVE CallsOK'
  BY <1>10 DEF Send, Open, Unused, Goto, CallsOK, cache, Steps, Providers
<1>11. ASSUME NEW t \in Turns, SendFails(t) PROVE CallsOK'
  BY <1>11 DEF SendFails, Goto, CallsOK, cache, Steps, Providers
<1>12. ASSUME NEW t \in Turns, Answered(t) PROVE CallsOK'
  BY <1>12 DEF Answered, Goto, CallsOK, cache, Steps, Providers
<1>13. ASSUME NEW t \in Turns, Stop(t) PROVE CallsOK'
  <2>1. exchanges' \in [Providers -> 0..2]
    <3>1. CASE UNCHANGED exchanges
      BY <3>1 DEF CallsOK
    <3>2. CASE exchanges["locked"] > 0 /\ Ended("locked")
      BY <3>2, EndedOne DEF Providers
    <3> QED BY <1>13, <3>1, <3>2 DEF Stop, Withdraw, CacheInv, cache
  <2> QED BY <1>13, <2>1 DEF Stop, Withdraw, Goto, CallsOK, cache, Steps
<1>14. CASE Exchanged
  <2>1. ASSUME NEW ok \in BOOLEAN, SharedExchange(Waiters, ok) PROVE CallsOK'
    <3>1. exchanges' \in [Providers -> 0..2]
      BY <2>1, EndedOne DEF SharedExchange, Providers
    <3>2. call' \in [Turns -> Steps]
      BY <2>1, TurnsAssumption DEF SharedExchange, CallsOK, Steps
    <3> QED BY <2>1, <3>1, <3>2 DEF SharedExchange, CallsOK, Providers
  <2>2. ASSUME NEW ok \in BOOLEAN, NEW t \in Turns, LockedExchange(t, ok) PROVE CallsOK'
    <3>1. exchanges' \in [Providers -> 0..2]
      BY <2>2, EndedOne DEF LockedExchange, Providers, CacheInv
    <3>2. call' \in [Turns -> Steps]
      BY <2>2 DEF LockedExchange, Goto, CallsOK, Steps
    <3> QED BY <2>2, <3>1, <3>2 DEF LockedExchange, CallsOK, Providers
  <2> QED BY <1>14, <2>1, <2>2 DEF Exchanged
<1>15. CASE TokenExpires
  BY <1>15 DEF TokenExpires, Expire, CallsOK, cache, Steps, Providers, CacheInv
<1>16. CASE Shutdown
  BY <1>16 DEF Shutdown, CallsOK, cache
<1>17. CASE Exit
  BY <1>17 DEF Exit, CallsOK, cache
<1>18. CASE Kill
  <2>1. exchanges' \in [Providers -> 0..2]
    <3>1. exchanges' = [exchanges EXCEPT !["shared"] = 0]
      BY <1>18, Zenon DEF Kill
    <3>2. "shared" \in Providers /\ 0 \in 0..2
      BY DEF Providers
    <3> QED BY <3>1, <3>2 DEF CallsOK
  <2>2. call' \in [Turns -> Steps]
    BY <1>18 DEF Kill, CallsOK, Steps
  <2> QED BY <1>18, <2>1, <2>2 DEF Kill, CallsOK
<1>19. CASE UNCHANGED vars
  BY <1>19 DEF vars, CallsOK, cache
<1> QED BY <1>1, <1>2, <1>3, <1>4, <1>5, <1>6, <1>7, <1>8, <1>9, <1>10, <1>11, <1>12, <1>13, <1>14, <1>15, <1>16, <1>17, <1>18, <1>19 DEF Next, Move

\* An exchange begins where none is under way, and ends with its flag or its lock.
LEMMA NextCacheInv == TurnsOK /\ CallsOK /\ CacheInv /\ CallInv /\ [Next]_vars => CacheInv'
<1> SUFFICES ASSUME TurnsOK, CallsOK, CacheInv, CallInv, [Next]_vars PROVE CacheInv'
  OBVIOUS
<1>1. ASSUME NEW t \in Turns, Start(t) PROVE CacheInv'
  BY <1>1 DEF Start, Open, Unused, CacheInv, cache, CallInv, TurnsOK, CallsOK,
     Steps
<1>2. ASSUME NEW t \in Turns, Begin(t) PROVE CacheInv'
  BY <1>2 DEF Begin, CacheInv, cache, request
<1>3. ASSUME NEW t \in Turns, LeaveQueue(t) PROVE CacheInv'
  BY <1>3 DEF LeaveQueue, End, CacheInv, cache, request
<1>4. ASSUME NEW t \in Turns, EndTurn(t) PROVE CacheInv'
  BY <1>4 DEF EndTurn, Settled, End, CacheInv, cache, request
<1>5. ASSUME NEW t \in Turns, Timeout(t) PROVE CacheInv'
  BY <1>5 DEF Timeout, Cancel, CacheInv, cache, request
<1>6. ASSUME NEW t \in Turns, CloseSession(t) PROVE CacheInv'
  BY <1>6 DEF CloseSession, CacheInv, cache, request
<1>7. ASSUME NEW t \in Turns, CallTool(t) PROVE CacheInv'
  BY <1>7 DEF CallTool, Goto, CacheInv, cache, CallsOK, Steps, Providers,
     request
<1>8. ASSUME NEW t \in Turns, Token(t) PROVE CacheInv'
  BY <1>8 DEF Token, UseCached, Join, Queue, Goto, Began, CacheInv, cache,
     CallsOK, Steps, Providers, TurnsOK, Letta, Live, Waiters, CallInv, request
<1>9. ASSUME NEW t \in Turns, Lock(t) PROVE CacheInv'
  BY <1>9 DEF Lock, Acquire, Goto, Began, CacheInv, cache, CallsOK, Steps,
     Providers, TurnsOK, Letta, Live, Waiters, CallInv, request
<1>10. ASSUME NEW t \in Turns, Send(t) PROVE CacheInv'
  <2>1. PICK u \in Unused : \A v \in Turns : v # u => agent'[v] = agent[v]
    BY <1>10 DEF Send, Open, TurnsOK
  <2>2. call[u] = "none" /\ u \notin lock
    BY <2>1 DEF Unused, CallInv, CacheInv
  <2>3. \A v \in Turns : call'[v] = "exchanging" <=> call[v] = "exchanging"
    BY <1>10 DEF Send, Goto, CallsOK
  <2> QED BY <1>10, <2>1, <2>2, <2>3 DEF Send, CacheInv, cache
<1>11. ASSUME NEW t \in Turns, SendFails(t) PROVE CacheInv'
  BY <1>11 DEF SendFails, Goto, CacheInv, cache, CallsOK, Steps, Providers,
     request
<1>12. ASSUME NEW t \in Turns, Answered(t) PROVE CacheInv'
  BY <1>12 DEF Answered, Goto, CacheInv, cache, CallsOK, Steps, Providers,
     request
<1>13. ASSUME NEW t \in Turns, Stop(t) PROVE CacheInv'
  BY <1>13 DEF Stop, Withdraw, Goto, Ended, CacheInv, cache, CallsOK, Steps,
     Providers, request
<1>14. CASE Exchanged
  <2>1. ASSUME NEW ok \in BOOLEAN, SharedExchange(Waiters, ok) PROVE CacheInv'
    <3>1. exchanges'["shared"] = 0 /\ exchanges'["locked"] = exchanges["locked"]
      BY <2>1 DEF SharedExchange, Ended, CallsOK, CacheInv, Providers
    <3>2. \A t \in Turns : call'[t] = "exchanging" <=> call[t] = "exchanging"
      BY <2>1, TurnsAssumption DEF SharedExchange, Waiters, Letta, CallsOK
    <3>3. UNCHANGED <<lock, agent>>
      BY <1>14, <2>1 DEF Exchanged, SharedExchange, request
    <3> QED BY <2>1, <3>1, <3>2, <3>3 DEF SharedExchange, CacheInv
  <2>2. ASSUME NEW ok \in BOOLEAN, NEW t \in Turns, LockedExchange(t, ok) PROVE CacheInv'
    <3>1. exchanges'["locked"] = 0 /\ exchanges'["shared"] = exchanges["shared"]
      BY <2>2 DEF LockedExchange, Ended, CallsOK, CacheInv, Providers
    <3>2. \A u \in Turns : call'[u] # "exchanging"
      BY <2>2 DEF LockedExchange, Goto, CallsOK, CacheInv
    <3> QED BY <2>2, <3>1, <3>2 DEF LockedExchange, CacheInv
  <2> QED BY <1>14, <2>1, <2>2 DEF Exchanged
<1>15. CASE TokenExpires
  BY <1>15 DEF TokenExpires, Expire, CacheInv, cache, CallsOK, Steps,
     Providers, request
<1>16. CASE Shutdown
  BY <1>16 DEF Shutdown, CacheInv, cache, request
<1>17. CASE Exit
  BY <1>17 DEF Exit, CacheInv, cache, request
<1>18. CASE Kill
  BY <1>18, TurnsAssumption DEF Kill, CacheInv, cache, CallsOK, Steps,
     Providers, TurnsOK, Letta, Live, Waiters, CallInv, request
<1>19. CASE UNCHANGED vars
  BY <1>19 DEF vars, CacheInv, cache, request
<1> QED BY <1>1, <1>2, <1>3, <1>4, <1>5, <1>6, <1>7, <1>8, <1>9, <1>10, <1>11, <1>12, <1>13, <1>14, <1>15, <1>16, <1>17, <1>18, <1>19 DEF Next, Move

\* A turn ends only after its call.
LEMMA NextCallInv == TypeOK /\ CacheInv /\ CallInv /\ [Next]_vars => CallInv'
<1> SUFFICES ASSUME TypeOK, CacheInv, CallInv, [Next]_vars PROVE CallInv'
  OBVIOUS
<1> USE TurnsAssumption, NoneAssumption, HopsAssumption DEF TypeOK, CacheInv,
        CallInv, CacheOK, Steps, Providers, Live, Letta, Provider, Waiters,
        cache, request
<1>1. ASSUME NEW t \in Turns, Start(t) PROVE CallInv'
  BY <1>1 DEF Start, Open, Unused
<1>2. ASSUME NEW t \in Turns, Begin(t) PROVE CallInv'
  BY <1>2 DEF Begin
<1>3. ASSUME NEW t \in Turns, LeaveQueue(t) \/ EndTurn(t) PROVE CallInv'
  BY <1>3 DEF LeaveQueue, EndTurn, Settled, End
<1>4. ASSUME NEW t \in Turns, Timeout(t) \/ CloseSession(t) PROVE CallInv'
  BY <1>4 DEF Timeout, Cancel, CloseSession
<1>5. ASSUME NEW t \in Turns, CallTool(t) PROVE CallInv'
  BY <1>5 DEF CallTool, Goto
<1>6. ASSUME NEW t \in Turns, Token(t) PROVE CallInv'
  BY <1>6 DEF Token, UseCached, Join, Queue, Goto, Began
<1>7. ASSUME NEW t \in Turns, Lock(t) PROVE CallInv'
  BY <1>7 DEF Lock, Acquire, Goto, Began
<1>8. ASSUME NEW t \in Turns, Send(t) PROVE CallInv'
  <2>1. PICK u \in Unused : \/ \E x \in Named : Open(u, "letta", x, SentHop(t), t)
                            \/ Open(u, "reference", None, 0, t)
    BY <1>8 DEF Send
  <2> HIDE DEF TypeOK
  <2>2. u \in Turns
    BY DEF Unused
  <2>3. /\ \A v \in Turns : v # u => turn'[v] = turn[v] /\ agent'[v] = agent[v]
        /\ turn'[u] # "closing"
    BY <2>1, <2>2 DEF Open, TypeOK
  <2>4. u # t /\ call[u] = "none"
    BY <1>8 DEF Send, Unused
  <2>5. \A v \in Turns : v # t => call'[v] = call[v]
    BY <1>8 DEF Send, Goto
  <2> QED BY <1>8, <2>3, <2>4, <2>5 DEF Send
<1>9. ASSUME NEW t \in Turns, SendFails(t) \/ Answered(t) PROVE CallInv'
  BY <1>9 DEF SendFails, Answered, Goto
<1>10. ASSUME NEW t \in Turns, Stop(t) PROVE CallInv'
  BY <1>10 DEF Stop, Withdraw, Goto, Ended
<1>11. CASE Exchanged
  BY <1>11 DEF Exchanged, SharedExchange, LockedExchange, Goto, Ended
<1>12. CASE TokenExpires
  BY <1>12 DEF TokenExpires, Expire
<1>13. CASE Shutdown \/ Exit
  BY <1>13 DEF Shutdown, Exit, Drained
<1>14. CASE Kill
  BY <1>14 DEF Kill
<1>15. CASE UNCHANGED vars
  BY <1>15 DEF vars
<1> QED BY <1>1, <1>2, <1>3, <1>4, <1>5, <1>6, <1>7, <1>8, <1>9, <1>10, <1>11, <1>12, <1>13, <1>14, <1>15 DEF Next, Move

\* A process that shuts down takes no turn.
LEMMA NextExitIsHonest == TypeOK /\ CacheInv /\ CallInv /\ ExitIsHonest /\ [Next]_vars => ExitIsHonest'
<1> SUFFICES ASSUME TypeOK, CacheInv, CallInv, ExitIsHonest, [Next]_vars PROVE ExitIsHonest'
  OBVIOUS
<1> USE TurnsAssumption, NoneAssumption, HopsAssumption DEF TypeOK, CacheInv,
        CallInv, ExitIsHonest, CacheOK, Steps, Providers, Live, Letta,
        Provider, Waiters, cache, request
<1>1. ASSUME NEW t \in Turns, Start(t) PROVE ExitIsHonest'
  BY <1>1 DEF Start, Open, Unused
<1>2. ASSUME NEW t \in Turns, Begin(t) PROVE ExitIsHonest'
  BY <1>2 DEF Begin
<1>3. ASSUME NEW t \in Turns, LeaveQueue(t) \/ EndTurn(t) PROVE ExitIsHonest'
  BY <1>3 DEF LeaveQueue, EndTurn, Settled, End
<1>4. ASSUME NEW t \in Turns, Timeout(t) \/ CloseSession(t) PROVE ExitIsHonest'
  BY <1>4 DEF Timeout, Cancel, CloseSession
<1>5. ASSUME NEW t \in Turns, CallTool(t) PROVE ExitIsHonest'
  BY <1>5 DEF CallTool, Goto
<1>6. ASSUME NEW t \in Turns, Token(t) PROVE ExitIsHonest'
  BY <1>6 DEF Token, UseCached, Join, Queue, Goto, Began
<1>7. ASSUME NEW t \in Turns, Lock(t) PROVE ExitIsHonest'
  BY <1>7 DEF Lock, Acquire, Goto, Began
<1>8. ASSUME NEW t \in Turns, Send(t) PROVE ExitIsHonest'
  BY <1>8 DEF Send, Open, Unused, Goto
<1>9. ASSUME NEW t \in Turns, SendFails(t) \/ Answered(t) PROVE ExitIsHonest'
  BY <1>9 DEF SendFails, Answered, Goto
<1>10. ASSUME NEW t \in Turns, Stop(t) PROVE ExitIsHonest'
  BY <1>10 DEF Stop, Withdraw, Goto, Ended
<1>11. CASE Exchanged
  BY <1>11 DEF Exchanged, SharedExchange, LockedExchange, Goto, Ended
<1>12. CASE TokenExpires
  BY <1>12 DEF TokenExpires, Expire
<1>13. CASE Shutdown \/ Exit
  BY <1>13 DEF Shutdown, Exit, Drained
<1>14. CASE Kill
  BY <1>14 DEF Kill
<1>15. CASE UNCHANGED vars
  BY <1>15 DEF vars
<1> QED BY <1>1, <1>2, <1>3, <1>4, <1>5, <1>6, <1>7, <1>8, <1>9, <1>10, <1>11, <1>12, <1>13, <1>14, <1>15 DEF Next, Move

\* A turn begins, for an operator or for a turn at work that may call it.
LEMMA OpenHopInv ==
  ASSUME TypeOK, HopInv, NEW u \in Unused, NEW kind \in {"letta", "reference"}, NEW x,
         NEW h \in Nat, NEW p \in {0} \cup Turns, Open(u, kind, x, h, p),
         p = 0 \/ kind = "reference" => h = 0,
         p # 0 => turn[p] # "none",
         p # 0 /\ kind = "letta" => h = hop[p] + 1,
         p # 0 /\ kind = "reference" => agent[p] = "letta" /\ hop[p] < MaximumHops
  PROVE  HopInv'
<1>1. u \in Turns /\ turn[u] = "none" /\ u # p /\ u # 0
  BY TurnsAssumption DEF Unused
<1>2. \A t \in Turns : /\ turn'[t] = IF t = u THEN IF kind = "letta" THEN "queued" ELSE "running" ELSE turn[t]
                       /\ agent'[t] = IF t = u THEN kind ELSE agent[t]
                       /\ hop'[t] = IF t = u THEN h ELSE hop[t]
                       /\ parent'[t] = IF t = u THEN p ELSE parent[t]
  BY <1>1 DEF Open, TypeOK
<1>3. \A t \in Turns : parent[t] \in {0} \cup Turns /\ parent[t] # u
  BY <1>1 DEF TypeOK, HopInv
<1> QED BY <1>1, <1>2, <1>3 DEF HopInv

\* A turn is begun one hop further than a turn at work, and keeps its hop.
LEMMA NextHopInv == TypeOK /\ CallInv /\ HopInv /\ LimitInv /\ [Next]_vars => HopInv'
<1> SUFFICES ASSUME TypeOK, CallInv, HopInv, LimitInv, [Next]_vars PROVE HopInv'
  OBVIOUS
<1>1. ASSUME NEW t \in Turns, Start(t) PROVE HopInv'
  <2>1. t \in Unused
    BY <1>1 DEF Start
  <2>2. CASE \E x \in Named : Open(t, "letta", x, 0, 0)
    BY <2>1, <2>2, OpenHopInv
  <2>3. CASE Open(t, "reference", None, 0, 0)
    BY <2>1, <2>3, OpenHopInv
  <2> QED BY <1>1, <2>2, <2>3 DEF Start
<1>2. ASSUME NEW t \in Turns, Send(t) PROVE HopInv'
  <2>1. turn[t] # "none" /\ t # 0 /\ hop[t] \in Nat
    BY <1>2, TurnsAssumption, HopsAssumption DEF Send, CallInv, TypeOK
  <2>2. SentHop(t) = hop[t] + 1 /\ SentHop(t) \in Nat
    BY <2>1 DEF SentHop, HopInv, TypeOK
  <2>3. PICK u \in Unused : \/ \E x \in Named : Open(u, "letta", x, SentHop(t), t)
                            \/ t \in Letta /\ Open(u, "reference", None, 0, t)
    BY <1>2 DEF Send
  <2>4. CASE \E x \in Named : Open(u, "letta", x, SentHop(t), t)
    <3>1. PICK x \in Named : Open(u, "letta", x, SentHop(t), t)
      BY <2>4
    <3> QED BY <2>1, <2>2, <3>1, OpenHopInv
  <2>5. CASE t \in Letta /\ Open(u, "reference", None, 0, t)
    <3>1. agent[t] = "letta" /\ hop[t] < MaximumHops
      BY <1>2, <2>5 DEF Send, Letta, LimitInv
    <3> QED BY <2>1, <2>5, <3>1, OpenHopInv
  <2> QED BY <2>3, <2>4, <2>5
<1> USE DEF HopInv, request
<1>3. ASSUME NEW t \in Turns, Begin(t) \/ LeaveQueue(t) \/ EndTurn(t) \/ CloseSession(t) PROVE HopInv'
  BY <1>3 DEF Begin, LeaveQueue, EndTurn, Settled, End, CloseSession, TypeOK
<1>4. CASE Kill
  BY <1>4 DEF Kill, Live, TypeOK
<1>5. ASSUME UNCHANGED <<turn, request>> PROVE HopInv'
  BY <1>5
<1>6. ASSUME NEW t \in Turns,
             Timeout(t) \/ CallTool(t) \/ Lock(t) \/ SendFails(t) \/ Token(t) \/ Answered(t) \/ Stop(t)
      PROVE  HopInv'
  <2>1. UNCHANGED <<turn, request>>
    BY <1>6, Zenon DEF Timeout, CallTool, Lock, SendFails, Token, Answered, Stop
  <2> QED BY <1>5, <2>1
<1>7. CASE Exchanged \/ TokenExpires \/ Shutdown \/ Exit \/ UNCHANGED vars
  <2>1. UNCHANGED <<turn, request>>
    BY <1>7, Zenon DEF Exchanged, TokenExpires, Shutdown, Exit, vars
  <2> QED BY <1>5, <2>1
<1> QED BY <1>1, <1>2, <1>3, <1>4, <1>6, <1>7 DEF Next, Move

\* A call is begun by a turn that may delegate, and a turn keeps its hop.
LEMMA NextLimitInv == TypeOK /\ CallInv /\ LimitInv /\ [Next]_vars => LimitInv'
<1> SUFFICES ASSUME TypeOK, CallInv, LimitInv, [Next]_vars PROVE LimitInv'
  OBVIOUS
<1> USE DEF LimitInv, request
<1>1. ASSUME NEW u \in Unused, NEW kind, NEW x, NEW h, NEW p, Open(u, kind, x, h, p),
             \A t \in Turns : call'[t] # "none" => call[t] # "none"
      PROVE  LimitInv'
  <2>1. u \in Turns /\ call[u] = "none"
    BY <1>1 DEF Unused, CallInv
  <2>2. \A t \in Turns : t # u => agent'[t] = agent[t] /\ hop'[t] = hop[t]
    BY <1>1, <2>1 DEF Open, TypeOK
  <2> QED BY <1>1, <2>1, <2>2
<1>2. ASSUME NEW t \in Turns, Start(t) PROVE LimitInv'
  BY <1>1, <1>2 DEF Start
<1>3. ASSUME NEW t \in Turns, Send(t) PROVE LimitInv'
  <2>1. \A u \in Turns : call'[u] # "none" => call[u] # "none"
    BY <1>3 DEF Send, Goto, TypeOK, CacheOK
  <2> QED BY <1>1, <1>3, <2>1 DEF Send
<1>4. ASSUME NEW t \in Turns, CallTool(t) PROVE LimitInv'
  <2>1. agent[t] = "letta" => hop[t] < MaximumHops
    BY <1>4, HopsAssumption DEF CallTool, WithinHops, TypeOK
  <2>2. \A u \in Turns : u # t => call'[u] = call[u]
    BY <1>4, TurnsAssumption DEF CallTool, Goto, TypeOK, CacheOK
  <2> QED BY <1>4, <2>1, <2>2 DEF CallTool
<1>5. ASSUME UNCHANGED <<agent, hop>>, \A t \in Turns : call'[t] # "none" => call[t] # "none"
      PROVE  LimitInv'
  BY <1>5
<1>6. ASSUME NEW t \in Turns,
             \/ Timeout(t) \/ Lock(t) \/ SendFails(t) \/ Token(t) \/ Answered(t) \/ Stop(t)
             \/ Begin(t) \/ LeaveQueue(t) \/ EndTurn(t) \/ CloseSession(t)
      PROVE  LimitInv'
  <2>1. UNCHANGED <<agent, hop>>
    BY <1>6 DEF Timeout, Lock, SendFails, Token, Answered, Stop, Begin,
       LeaveQueue, EndTurn, End, CloseSession
  <2>2. \A u \in Turns : call'[u] # "none" => call[u] # "none"
    BY <1>6, TurnsAssumption DEF Timeout, Lock, SendFails, Token, Answered,
       Stop, Begin, LeaveQueue, EndTurn, End, CloseSession, Acquire, UseCached,
       Join, Queue, Withdraw, Goto, TypeOK, CacheOK
  <2> QED BY <1>5, <2>1, <2>2
<1>7. CASE Exchanged
  <2>1. \A u \in Turns : call'[u] # "none" => call[u] # "none"
    BY <1>7, TurnsAssumption DEF Exchanged, SharedExchange, LockedExchange,
       Waiters, Goto, TypeOK, CacheOK
  <2> QED BY <1>5, <1>7, <2>1 DEF Exchanged
<1>8. CASE TokenExpires \/ Shutdown \/ Exit \/ Kill \/ UNCHANGED vars
  <2>1. UNCHANGED <<agent, hop>> /\ \A u \in Turns : call'[u] # "none" => call[u] # "none"
    BY <1>8 DEF TokenExpires, Expire, Shutdown, Exit, Kill, vars
  <2> QED BY <1>5, <2>1
<1> QED BY <1>2, <1>3, <1>4, <1>6, <1>7, <1>8 DEF Next, Move

\* A set of numbers has a least one.
Before == {p \in Nat \X Nat : p[1] < p[2]}
LEMMA BeforeWF == IsWellFoundedOn(Before, Nat)
  BY NatLessThanWellFounded DEF OpToRel, Before
LEMMA SmallestNumber ==
  ASSUME NEW S \in SUBSET Nat, S # {}
  PROVE  \E n \in S : \A k \in S : n <= k
<1>1. PICK n \in S : \A k \in S : <<k, n>> \notin Before
  BY BeforeWF, WFMin
<1>2. ASSUME NEW k \in S PROVE n <= k
  <2>1. k \in Nat /\ n \in Nat
    OBVIOUS
  <2>2. <<k, n>> \in Nat \X Nat /\ <<k, n>>[1] = k /\ <<k, n>>[2] = n
    BY <2>1
  <2>3. ~(k < n)
    BY <1>1, <2>2 DEF Before
  <2> QED BY <2>1, <2>3
<1> QED BY <1>2

\* The i-th turn of a chain of Letta agents is at least i hops from where the
\* count began.
LEMMA ChainHops ==
  ASSUME TypeOK, HopInv, NEW n \in Nat, NEW c \in [0..n -> Turns], Chain(c, n)
  PROVE  \A i \in 0..n : hop[c[i]] >= i
<1> DEFINE S == {i \in 0..n : ~(hop[c[i]] >= i)}
<1>1. SUFFICES ASSUME S # {} PROVE FALSE
  OBVIOUS
<1>2. PICK i \in S : \A k \in S : i <= k
  <2>1. S \in SUBSET Nat
    OBVIOUS
  <2> QED BY <1>1, <2>1, SmallestNumber
<1>3. hop[c[i]] \in Nat /\ i \in Nat /\ i # 0 /\ i \in 1..n
  BY HopsAssumption DEF TypeOK
<1>4. i - 1 \in 0..n /\ i - 1 \notin S
  BY <1>2, <1>3
<1>5. hop[c[i - 1]] >= i - 1 /\ hop[c[i - 1]] \in Nat
  BY <1>4, HopsAssumption DEF TypeOK
<1>6. c[i] \in Turns /\ parent[c[i]] = c[i - 1] /\ c[i - 1] # 0
  BY <1>3, <1>4, TurnsAssumption DEF Chain, Calls
<1>7. hop[c[i]] = hop[c[i - 1]] + 1
  BY <1>3, <1>6 DEF HopInv, Chain
<1> QED BY <1>3, <1>5, <1>7

(***************************************************************************)
(* The theorems.                                                           *)
(***************************************************************************)

\* The inductive invariant of delegation.
THEOREM Invariance == Spec => []IInv
<1>1. IInv /\ [Next]_vars => IInv'
  <2> SUFFICES ASSUME IInv, [Next]_vars PROVE IInv'
    OBVIOUS
  <2>1. TurnsOK /\ CallsOK /\ CacheInv /\ CallInv /\ HopInv /\ LimitInv /\ ExitIsHonest
    BY TypeParts DEF IInv
  <2>2. TurnsOK' /\ CallsOK'
    BY <2>1, NextTurnsOK, NextCallsOK
  <2>3. TypeOK'
    BY <2>2, TurnsAssumption DEF TypeOK, CacheOK, TurnsOK, CallsOK
  <2> QED BY <2>1, <2>3, NextCacheInv, NextCallInv, NextHopInv, NextLimitInv, NextExitIsHonest
       DEF IInv
<1> QED BY <1>1, InitIInv, PTL DEF Spec

\* Every reachable state is well typed; hops never exceed the limit.
THEOREM TypeCorrect == Spec => []TypeOK
<1>1. IInv => TypeOK
  BY DEF IInv
<1> QED BY <1>1, Invariance, PTL

\* No more calls of Letta agents follow one another than the limit on hops, in
\* whatever chain of Letta agents and reference agents they are.
THEOREM BoundedChains == Spec => []ChainBounded
<1>1. ASSUME IInv PROVE ChainBounded
  <2>1. SUFFICES ASSUME NEW c \in [0..(MaximumHops + 1) -> Turns], Chain(c, MaximumHops + 1)
                 PROVE  FALSE
    BY DEF ChainBounded
  <2>2. MaximumHops \in Nat /\ MaximumHops + 1 \in Nat
    BY HopsAssumption
  <2>3. hop[c[MaximumHops + 1]] >= MaximumHops + 1
    BY <1>1, <2>1, <2>2, ChainHops DEF IInv
  <2>4. hop[c[MaximumHops + 1]] \in 0..MaximumHops
    BY <1>1, <2>2 DEF IInv, TypeOK
  <2> QED BY <2>2, <2>3, <2>4
<1> QED BY <1>1, Invariance, PTL

\* With a limit of one no chain has three calls, the reference agent included.
THEOREM ShortestLimit == Spec => []ShortChains
<1>1. ASSUME IInv PROVE ShortChains
  <2>1. SUFFICES ASSUME MaximumHops = 1, NEW c \in [0..3 -> Turns], Calls(c, 3) PROVE FALSE
    BY DEF ShortChains
  <2>2. \A t \in Turns : /\ agent[t] \in {"letta", "reference"} /\ hop[t] \in 0..1
                         /\ agent[t] = "reference" => hop[t] = 0
    BY <1>1, <2>1 DEF IInv, TypeOK, HopInv
  <2>3. \A i \in 1..3 : /\ c[i] \in Turns /\ c[i - 1] \in Turns /\ c[i - 1] # 0
                         /\ parent[c[i]] = c[i - 1]
    <3> TAKE i \in 1..3
    <3>1. i \in 0..3 /\ i - 1 \in 0..3
      OBVIOUS
    <3> QED BY <2>1, <3>1, TurnsAssumption DEF Calls
  <2>4. \A i \in 1..3 :
          /\ agent[c[i]] = "letta" => hop[c[i]] = 1 /\ hop[c[i - 1]] = 0
          /\ agent[c[i]] = "reference" => agent[c[i - 1]] = "letta" /\ hop[c[i - 1]] = 0
    BY <1>1, <2>1, <2>2, <2>3 DEF IInv, HopInv
  <2>5. /\ agent[c[1]] \in {"letta", "reference"} /\ agent[c[2]] \in {"letta", "reference"}
        /\ agent[c[3]] \in {"letta", "reference"}
    BY <2>2, <2>3
  <2>6. hop[c[2]] = 0
    BY <2>4, <2>5
  <2>7. agent[c[2]] = "reference"
    BY <2>4, <2>5, <2>6
  <2>8. agent[c[1]] = "letta" /\ hop[c[1]] = 0
    BY <2>4, <2>7
  <2> QED BY <2>4, <2>8
<1> QED BY <1>1, Invariance, PTL

\* Callers that share, queue for or leave an exchange never make it two.
THEOREM SingleExchange == Spec => []OneExchange
<1>1. IInv => OneExchange
  BY DEF IInv, CacheInv, OneExchange, Providers
<1> QED BY <1>1, Invariance, PTL

\* A turn that has ended left no call behind it.
THEOREM QuietSession == Spec => []SessionIsQuiet
<1>1. IInv => SessionIsQuiet
  BY DEF IInv, CallInv, SessionIsQuiet
<1> QED BY <1>1, Invariance, PTL

\* A process that exits with 0 has finished its turns.
THEOREM HonestExit == Spec => []ExitIsHonest
<1>1. IInv => ExitIsHonest
  BY DEF IInv
<1> QED BY <1>1, Invariance, PTL

\* A token that would do is never exchanged for another.
THEOREM NoWaste == Spec => NoWastedExchange
<1>1. ASSUME IInv, [Next]_vars, NEW p \in Providers, exchanges'[p] > exchanges[p]
      PROVE  p \notin fresh
  <2> USE <1>1, TurnsAssumption DEF IInv, TypeOK, CacheOK, Providers, cache
  <2>1. ASSUME NEW t \in Turns, Token(t) PROVE p \notin fresh
    BY <2>1 DEF Token, UseCached, Join, Queue, Began
  <2>2. ASSUME NEW t \in Turns, Lock(t) PROVE p \notin fresh
    BY <2>2 DEF Lock, Acquire, Began
  <2>3. ASSUME NEW t \in Turns, Stop(t) PROVE FALSE
    BY <2>3 DEF Stop, Withdraw, Ended
  <2>4. CASE Exchanged
    BY <2>4 DEF Exchanged, SharedExchange, LockedExchange, Ended
  <2>5. CASE TokenExpires \/ Shutdown \/ Exit \/ UNCHANGED vars
    BY <2>5 DEF TokenExpires, Expire, Shutdown, Exit, vars
  <2>6. CASE Kill
    BY <2>6 DEF Kill
  <2>7. ASSUME NEW t \in Turns,
               Start(t) \/ Timeout(t) \/ CloseSession(t) \/ CallTool(t) \/ Send(t)
               \/ SendFails(t) \/ Begin(t) \/ LeaveQueue(t) \/ EndTurn(t) \/ Answered(t)
        PROVE  FALSE
    <3>1. UNCHANGED exchanges
      BY <2>7, Zenon DEF Start, Timeout, Cancel, CloseSession, CallTool, Send,
         SendFails, Begin, LeaveQueue, EndTurn, End, Answered
    <3> QED BY <3>1
  <2> QED BY <2>1, <2>2, <2>3, <2>4, <2>5, <2>6, <2>7 DEF Next, Move
<1>2. IInv /\ [Next]_vars
        => [\A p \in Providers : exchanges'[p] > exchanges[p] => p \notin fresh]_vars
  BY <1>1
<1> QED BY <1>2, Invariance, PTL DEF Spec, NoWastedExchange
=============================================================================
