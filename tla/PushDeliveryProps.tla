-------------------------- MODULE PushDeliveryProps --------------------------
(***************************************************************************)
(* What the delivery of push notifications guarantees, and the inductive   *)
(* invariant behind it.                                                    *)
(***************************************************************************)
EXTENDS PushToLedger

\* "Later sends must remain behind it": two notifications of a task are never
\* being delivered at a time, whatever fails, times out or is sent meanwhile.
InDelivery(s) == pc[s] \notin {"idle", "queued", "done"}
OneAtATime == \A s, q \in Sends : InDelivery(s) /\ InDelivery(q) => s = q

\* "Never remove a waiting link early": as long as a send is on its way the
\* chain ends in the last one, for the next to wait for.
LinksKept ==
  \A s \in Sends : pc[s] \notin {"idle", "done"} => chain \in Sends /\ chain >= s

\* A complete close leaves no connection behind, and none is opened after close.
CompleteIsQuiet == closing = "complete" => transports = {} /\ \A s \in Sends : pc[s] # "racing"

\* A send ends even if no callback ever answers.
SendEnds == \A s \in Sends : pc[s] = "queued" ~> pc[s] = "done"

\* The receiver shows the furthest state of those it was told of, in whatever
\* order retried and abandoned deliveries have come.
Told == {trace[e] : e \in {e \in Sends : count[e] > 0}}
OrderFree ==
  \/ current = "none" /\ Told = {}
  \/ current \in Told /\ \A s \in Told : Rank(s) <= Rank(current)

(***************************************************************************)
(* The inductive invariant, in named parts.                                *)
(***************************************************************************)

\* A transport is opened for a callback of the task, within the retries.
PostInv ==
  \A s \in Sends :
    /\ pc[s] \in {"attempt", "racing", "backoff"} => config[s] \in 1..Configs /\ attempt[s] >= 1
    /\ pc[s] = "next" => config[s] >= 1
    /\ pc[s] = "racing" => attempt[s] <= RetryCount + 1
    /\ pc[s] = "backoff" => attempt[s] <= RetryCount

\* The chain links every send to the one before it, and a send is delivered
\* behind the end of all earlier ones.
ChainInv ==
  /\ chain = None => \A s \in Sends : pc[s] \in {"idle", "done"}
  /\ chain # None => pc[chain] # "idle" /\ \A q \in Sends : q > chain => pc[q] = "idle"
  /\ \A s \in Sends :
       /\ pc[s] = "idle" => \A q \in Sends : q > s => pc[q] = "idle"
       /\ pc[s] # "idle" /\ previous[s] = None => \A q \in Sends : q < s => pc[q] = "done"
       /\ pc[s] # "idle" /\ previous[s] # None =>
            previous[s] < s /\ \A q \in Sends : q <= previous[s] \/ q >= s
       /\ pc[s] \notin {"idle", "queued"} => \A q \in Sends : q < s => pc[q] = "done"

IInv == TypeOK /\ PostInv /\ ChainInv /\ LinksKept /\ CompleteIsQuiet

=============================================================================
