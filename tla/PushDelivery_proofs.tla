------------------------- MODULE PushDelivery_proofs -------------------------
(***************************************************************************)
(* Proofs about PushDelivery, and about its composition with the receiver. *)
(***************************************************************************)
EXTENDS PushDeliveryProps, TLAPS

(***************************************************************************)
(* The inductive invariant.                                                *)
(***************************************************************************)
LEMMA InitIInv == Init => IInv
  BY SendsAssumption, ConfigsAssumption
     DEF Init, IInv, TypeOK, Places, PostInv, ChainInv, LinksKept, CompleteIsQuiet

\* The end of the link before means the end of all earlier sends.
LEMMA EarlierAreDone ==
  ASSUME TypeOK, ChainInv, NEW s \in Sends, pc[s] = "queued", ~Waits(s),
         NEW q \in Sends, q < s
  PROVE  pc[q] = "done"
<1>1. CASE previous[s] = None
  BY <1>1 DEF ChainInv
<1>2. CASE previous[s] # None
  <2>1. previous[s] \in Sends /\ previous[s] < s /\ pc[previous[s]] = "done"
    BY <1>2 DEF TypeOK, ChainInv, Waits
  <2>2. q <= previous[s]
    BY <1>2, SendsAssumption DEF ChainInv
  <2>3. CASE q = previous[s]
    BY <2>1, <2>3
  <2>4. CASE q < previous[s]
    BY <2>1, <2>4 DEF ChainInv
  <2>5. q = previous[s] \/ q < previous[s]
    <3>1. q \in Nat /\ previous[s] \in Nat
      BY <2>1, SendsAssumption
    <3> QED BY <2>2, <3>1
  <2> QED BY <2>3, <2>4, <2>5
<1> QED BY <1>1, <1>2

\* Callbacks and attempts stay within their bounds.
LEMMA NextTypeOK == TypeOK /\ PostInv /\ [Next]_vars => TypeOK'
<1> SUFFICES ASSUME TypeOK, PostInv, [Next]_vars PROVE TypeOK'
  OBVIOUS
<1> USE SendsAssumption, ConfigsAssumption
        DEF TypeOK, PostInv, Places, Goto, EndSend, EndConfig, UnlinkLast, Current, closed,
            chaining, delivery
<1>1. ASSUME NEW s \in Sends, Send(s) PROVE TypeOK'
  BY <1>1 DEF Send
<1>2. ASSUME NEW s \in Sends, Dispatch(s) PROVE TypeOK'
  BY <1>2 DEF Dispatch, Waits
<1>3. ASSUME NEW s \in Sends, Loaded(s) \/ Rejected(s) PROVE TypeOK'
  BY <1>3 DEF Loaded, Rejected
<1>4. ASSUME NEW s \in Sends, NextConfig(s) \/ LastConfig(s) PROVE TypeOK'
  BY <1>4 DEF NextConfig, LastConfig
<1>5. ASSUME NEW s \in Sends, Post(s) PROVE TypeOK'
  BY <1>5 DEF Post, Stopped
<1>6. ASSUME NEW s \in Sends, NoAttempt(s) \/ Aborted(s) \/ Finished(s) PROVE TypeOK'
  BY <1>6 DEF NoAttempt, Aborted, Finished, Answered
<1>7. ASSUME NEW s \in Sends, Retry(s) \/ Again(s) PROVE TypeOK'
  BY <1>7 DEF Retry, Again, Answered, Retryable
<1>8. ASSUME NEW s \in Sends, Respond(s) \/ Timeout(s) PROVE TypeOK'
  BY <1>8 DEF Respond, Timeout
<1>9. ASSUME NEW x \in transports, Settle(x) PROVE TypeOK'
  BY <1>9 DEF Settle
<1>10. CASE Close \/ CloseReturns
  BY <1>10 DEF Close, CloseReturns
<1>11. CASE UNCHANGED vars
  BY <1>11 DEF vars
<1> QED BY <1>1, <1>2, <1>3, <1>4, <1>5, <1>6, <1>7, <1>8, <1>9, <1>10, <1>11 DEF Next, Step

\* An attempt is made for a callback there is.
LEMMA NextPostInv == TypeOK /\ PostInv /\ [Next]_vars => PostInv'
<1> SUFFICES ASSUME TypeOK, PostInv, [Next]_vars PROVE PostInv'
  OBVIOUS
<1> USE SendsAssumption, ConfigsAssumption
        DEF TypeOK, PostInv, Places, Goto, EndSend, EndConfig, UnlinkLast, Current, closed,
            chaining, delivery
<1>1. ASSUME NEW s \in Sends, Send(s) PROVE PostInv'
  BY <1>1 DEF Send
<1>2. ASSUME NEW s \in Sends, Dispatch(s) PROVE PostInv'
  BY <1>2 DEF Dispatch, Waits
<1>3. ASSUME NEW s \in Sends, Loaded(s) \/ Rejected(s) PROVE PostInv'
  BY <1>3 DEF Loaded, Rejected
<1>4. ASSUME NEW s \in Sends, NextConfig(s) \/ LastConfig(s) PROVE PostInv'
  BY <1>4 DEF NextConfig, LastConfig
<1>5. ASSUME NEW s \in Sends, Post(s) PROVE PostInv'
  BY <1>5 DEF Post, Stopped
<1>6. ASSUME NEW s \in Sends, NoAttempt(s) \/ Aborted(s) \/ Finished(s) PROVE PostInv'
  BY <1>6 DEF NoAttempt, Aborted, Finished, Answered
<1>7. ASSUME NEW s \in Sends, Retry(s) \/ Again(s) PROVE PostInv'
  BY <1>7 DEF Retry, Again, Answered, Retryable
<1>8. ASSUME NEW s \in Sends, Respond(s) \/ Timeout(s) PROVE PostInv'
  BY <1>8 DEF Respond, Timeout
<1>9. ASSUME NEW x \in transports, Settle(x) PROVE PostInv'
  BY <1>9 DEF Settle
<1>10. CASE Close \/ CloseReturns
  BY <1>10 DEF Close, CloseReturns
<1>11. CASE UNCHANGED vars
  BY <1>11 DEF vars
<1> QED BY <1>1, <1>2, <1>3, <1>4, <1>5, <1>6, <1>7, <1>8, <1>9, <1>10, <1>11 DEF Next, Step

\* A send that ends unlinks itself only if none waits for it.
LEMMA NextChainInv == TypeOK /\ ChainInv /\ LinksKept /\ [Next]_vars => ChainInv'
<1> SUFFICES ASSUME TypeOK, ChainInv, LinksKept, [Next]_vars PROVE ChainInv'
  OBVIOUS
<1> USE SendsAssumption, ConfigsAssumption
        DEF TypeOK, ChainInv, LinksKept, Places, Goto, EndSend, EndConfig, UnlinkLast, Current, closed,
            chaining, delivery
<1>1. ASSUME NEW s \in Sends, Send(s) PROVE ChainInv'
  BY <1>1 DEF Send
<1>2. ASSUME NEW s \in Sends, Dispatch(s) PROVE ChainInv'
  <2>1. \A q \in Sends : q < s => pc[q] = "done"
    BY <1>2, EarlierAreDone DEF Dispatch
  <2>2. CASE closed
    BY <1>2, <2>1, <2>2 DEF Dispatch
  <2>3. CASE ~closed
    BY <1>2, <2>1, <2>3 DEF Dispatch
  <2> QED BY <2>2, <2>3
<1>3. ASSUME NEW s \in Sends, Loaded(s) \/ Rejected(s) PROVE ChainInv'
  BY <1>3 DEF Loaded, Rejected
<1>4. ASSUME NEW s \in Sends, NextConfig(s) \/ LastConfig(s) PROVE ChainInv'
  BY <1>4 DEF NextConfig, LastConfig
<1>5. ASSUME NEW s \in Sends, Post(s) PROVE ChainInv'
  BY <1>5 DEF Post, Stopped
<1>6. ASSUME NEW s \in Sends, NoAttempt(s) \/ Aborted(s) \/ Finished(s) PROVE ChainInv'
  BY <1>6 DEF NoAttempt, Aborted, Finished, Answered
<1>7. ASSUME NEW s \in Sends, Retry(s) \/ Again(s) PROVE ChainInv'
  BY <1>7 DEF Retry, Again, Answered, Retryable
<1>8. ASSUME NEW s \in Sends, Respond(s) \/ Timeout(s) PROVE ChainInv'
  BY <1>8 DEF Respond, Timeout
<1>9. ASSUME NEW x \in transports, Settle(x) PROVE ChainInv'
  BY <1>9 DEF Settle
<1>10. CASE Close \/ CloseReturns
  BY <1>10 DEF Close, CloseReturns
<1>11. CASE UNCHANGED vars
  BY <1>11 DEF vars
<1> QED BY <1>1, <1>2, <1>3, <1>4, <1>5, <1>6, <1>7, <1>8, <1>9, <1>10, <1>11 DEF Next, Step

\* The last link stays while a send is on its way.
LEMMA NextLinksKept == TypeOK /\ ChainInv /\ LinksKept /\ [Next]_vars => LinksKept'
<1> SUFFICES ASSUME TypeOK, ChainInv, LinksKept, [Next]_vars PROVE LinksKept'
  OBVIOUS
<1> USE SendsAssumption, ConfigsAssumption
        DEF TypeOK, ChainInv, LinksKept, Places, Goto, EndSend, EndConfig, UnlinkLast, Current, closed,
            chaining, delivery
<1>1. ASSUME NEW s \in Sends, Send(s) PROVE LinksKept'
  BY <1>1 DEF Send
<1>2. ASSUME NEW s \in Sends, Dispatch(s) PROVE LinksKept'
  <2>1. \A q \in Sends : q < s => pc[q] = "done"
    BY <1>2, EarlierAreDone DEF Dispatch
  <2>2. CASE closed
    BY <1>2, <2>1, <2>2 DEF Dispatch
  <2>3. CASE ~closed
    BY <1>2, <2>1, <2>3 DEF Dispatch
  <2> QED BY <2>2, <2>3
<1>3. ASSUME NEW s \in Sends, Loaded(s) \/ Rejected(s) PROVE LinksKept'
  BY <1>3 DEF Loaded, Rejected
<1>4. ASSUME NEW s \in Sends, NextConfig(s) \/ LastConfig(s) PROVE LinksKept'
  BY <1>4 DEF NextConfig, LastConfig
<1>5. ASSUME NEW s \in Sends, Post(s) PROVE LinksKept'
  BY <1>5 DEF Post, Stopped
<1>6. ASSUME NEW s \in Sends, NoAttempt(s) \/ Aborted(s) \/ Finished(s) PROVE LinksKept'
  BY <1>6 DEF NoAttempt, Aborted, Finished, Answered
<1>7. ASSUME NEW s \in Sends, Retry(s) \/ Again(s) PROVE LinksKept'
  BY <1>7 DEF Retry, Again, Answered, Retryable
<1>8. ASSUME NEW s \in Sends, Respond(s) \/ Timeout(s) PROVE LinksKept'
  BY <1>8 DEF Respond, Timeout
<1>9. ASSUME NEW x \in transports, Settle(x) PROVE LinksKept'
  BY <1>9 DEF Settle
<1>10. CASE Close \/ CloseReturns
  BY <1>10 DEF Close, CloseReturns
<1>11. CASE UNCHANGED vars
  BY <1>11 DEF vars
<1> QED BY <1>1, <1>2, <1>3, <1>4, <1>5, <1>6, <1>7, <1>8, <1>9, <1>10, <1>11 DEF Next, Step

\* Nothing is posted after close.
LEMMA NextCompleteIsQuiet == TypeOK /\ ChainInv /\ CompleteIsQuiet /\ [Next]_vars => CompleteIsQuiet'
<1> SUFFICES ASSUME TypeOK, ChainInv, CompleteIsQuiet, [Next]_vars PROVE CompleteIsQuiet'
  OBVIOUS
<1> USE SendsAssumption, ConfigsAssumption
        DEF TypeOK, ChainInv, CompleteIsQuiet, Places, Goto, EndSend, EndConfig, UnlinkLast, Current, closed,
            chaining, delivery
<1>1. ASSUME NEW s \in Sends, Send(s) PROVE CompleteIsQuiet'
  BY <1>1 DEF Send
<1>2. ASSUME NEW s \in Sends, Dispatch(s) PROVE CompleteIsQuiet'
  BY <1>2 DEF Dispatch, Waits
<1>3. ASSUME NEW s \in Sends, Loaded(s) \/ Rejected(s) PROVE CompleteIsQuiet'
  BY <1>3 DEF Loaded, Rejected
<1>4. ASSUME NEW s \in Sends, NextConfig(s) \/ LastConfig(s) PROVE CompleteIsQuiet'
  BY <1>4 DEF NextConfig, LastConfig
<1>5. ASSUME NEW s \in Sends, Post(s) PROVE CompleteIsQuiet'
  BY <1>5 DEF Post, Stopped
<1>6. ASSUME NEW s \in Sends, NoAttempt(s) \/ Aborted(s) \/ Finished(s) PROVE CompleteIsQuiet'
  BY <1>6 DEF NoAttempt, Aborted, Finished, Answered
<1>7. ASSUME NEW s \in Sends, Retry(s) \/ Again(s) PROVE CompleteIsQuiet'
  BY <1>7 DEF Retry, Again, Answered, Retryable
<1>8. ASSUME NEW s \in Sends, Respond(s) \/ Timeout(s) PROVE CompleteIsQuiet'
  BY <1>8 DEF Respond, Timeout
<1>9. ASSUME NEW x \in transports, Settle(x) PROVE CompleteIsQuiet'
  BY <1>9 DEF Settle
<1>10. CASE Close \/ CloseReturns
  BY <1>10 DEF Close, CloseReturns
<1>11. CASE UNCHANGED vars
  BY <1>11 DEF vars
<1> QED BY <1>1, <1>2, <1>3, <1>4, <1>5, <1>6, <1>7, <1>8, <1>9, <1>10, <1>11 DEF Next, Step

(***************************************************************************)
(* The theorems.                                                           *)
(***************************************************************************)

\* The inductive invariant of the delivery.
THEOREM Invariance == Spec => []IInv
<1>1. IInv /\ [Next]_vars => IInv'
  BY NextTypeOK, NextPostInv, NextChainInv, NextLinksKept, NextCompleteIsQuiet DEF IInv
<1> QED BY <1>1, InitIInv, PTL DEF Spec

\* Every reachable state of the delivery is well typed.
THEOREM TypeCorrect == Spec => []TypeOK
<1>1. IInv => TypeOK
  BY DEF IInv
<1> QED BY <1>1, Invariance, PTL

\* The composition's steps are the delivery's, or leave it alone.
THEOREM DeliveryIsUsed == LedgerSpec => Spec
<1>1. BothInit => Init
  BY DEF BothInit
<1>2. [LedgerNext]_allVars => [Next]_vars
  BY DEF LedgerNext, Deliver, Arrive, allVars
<1> QED BY <1>1, <1>2, PTL DEF LedgerSpec, Spec

\* Two notifications of a task are never delivered at a time (dispatch).
THEOREM DeliveredInTurn == LedgerSpec => []OneAtATime
<1>1. IInv => OneAtATime
  BY SendsAssumption DEF IInv, ChainInv, OneAtATime, InDelivery
<1> QED BY <1>1, Invariance, DeliveryIsUsed, PTL

\* A complete close has left no connection open (close).
THEOREM QuietClose == LedgerSpec => []CompleteIsQuiet
<1>1. IInv => CompleteIsQuiet
  BY DEF IInv
<1> QED BY <1>1, Invariance, DeliveryIsUsed, PTL

(***************************************************************************)
(* The receiver.                                                           *)
(***************************************************************************)
LEMMA RankOrder ==
  /\ \A s \in States : Rank(s) \in 2..4
  /\ \A s, q \in States : s \in Terminal => Rank(q) <= Rank(s)
  BY DEF States, Terminal, Rank

\* Recording an event keeps the furthest of the states that were told of.
LEMMA RecordKeeps ==
  ASSUME LedgerOK, OrderFree, NEW e \in Sends, Record(e)
  PROVE  LedgerOK' /\ OrderFree'
<1> USE EventsAssumption
<1>1. trace[e] \in States /\ count[e] \in Nat /\ trace' = trace
      /\ count' = [count EXCEPT ![e] = @ + 1] /\ "none" \notin States
  BY DEF LedgerOK, Record, States, Terminal
<1>2. LedgerOK'
  BY <1>1 DEF LedgerOK, Record, Follow
<1>3. \A d \in Sends : count'[d] > 0 <=> d = e \/ count[d] > 0
  BY <1>1 DEF LedgerOK
<1>4. Told' = Told \cup {trace[e]}
  BY <1>1, <1>3 DEF Told
<1>5. \A s \in Told : s \in States
  BY DEF Told, LedgerOK
<1> SUFFICES OrderFree'
  BY <1>2
<1>6. CASE count[e] > 0
  <2>1. trace[e] \in Told
    BY <1>6 DEF Told
  <2> QED BY <1>4, <1>6, <2>1 DEF OrderFree, Record
<1>7. CASE ~(count[e] > 0)
  <2>1. current' = Follow(trace[e])
    BY <1>7 DEF Record
  <2>2. CASE current = "none"
    BY <1>1, <1>4, <2>1, <2>2, <1>5, RankOrder DEF OrderFree, Follow
  <2>3. CASE current # "none" /\ current \notin Terminal /\ Rank(trace[e]) >= Rank(current)
    <3>1. current' = trace[e] /\ current \in States
      BY <2>1, <2>3, <1>5 DEF Follow, OrderFree
    <3>2. \A s \in Told : Rank(s) <= Rank(trace[e])
      BY <1>1, <1>5, <2>3, <3>1, RankOrder DEF OrderFree
    <3> QED BY <1>1, <1>4, <3>1, <3>2, RankOrder DEF OrderFree
  <2>4. CASE current # "none" /\ ~(current \notin Terminal /\ Rank(trace[e]) >= Rank(current))
    <3>1. current' = current /\ current \in States
      BY <2>1, <2>4, <1>5 DEF Follow, OrderFree
    <3>2. Rank(trace[e]) <= Rank(current)
      BY <1>1, <2>4, <3>1, RankOrder
    <3> QED BY <1>4, <2>4, <3>1, <3>2 DEF OrderFree
  <2> QED BY <2>2, <2>3, <2>4
<1> QED BY <1>6, <1>7

\* The receiver shows the furthest state it was told of, however often and in
\* whatever order the notifications of a task arrive (record).
THEOREM FurthestState == LedgerSpec => []OrderFree
<1> DEFINE Inv == LedgerOK /\ OrderFree
<1>1. BothInit => Inv
  BY EventsAssumption DEF BothInit, LedgerInit, LedgerOK, OrderFree, Told
<1>2. TypeOK /\ Inv /\ [LedgerNext]_allVars => Inv'
  <2> SUFFICES ASSUME TypeOK, Inv, [LedgerNext]_allVars PROVE Inv'
    OBVIOUS
  <2>1. ASSUME NEW x \in transports, Arrive(x) PROVE Inv'
    <3>1. x[1] \in Sends
      BY DEF TypeOK
    <3> QED BY <2>1, <3>1, RecordKeeps DEF Arrive
  <2>2. CASE Deliver \/ UNCHANGED allVars
    BY <2>2 DEF Deliver, allVars, ledger, LedgerOK, OrderFree, Told
  <2> QED BY <2>1, <2>2 DEF LedgerNext
<1>3. Inv => OrderFree
  OBVIOUS
<1>4. LedgerSpec => []TypeOK
  BY DeliveryIsUsed, TypeCorrect, PTL
<1> QED BY <1>1, <1>2, <1>3, <1>4, PTL DEF LedgerSpec
=============================================================================
