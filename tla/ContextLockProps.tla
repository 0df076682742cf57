-------------------------- MODULE ContextLockProps --------------------------
(***************************************************************************)
(* What ContextLock guarantees, and the inductive invariant behind it.     *)
(***************************************************************************)
EXTENDS ContextLock

\* Work of one context never overlaps, although every call decides from a map
\* entry that earlier calls replace and remove concurrently.
MutualExclusion ==
  \A c, d \in Calls :
    at[c] = "working" /\ at[d] = "working" /\ KeyOf[c] = KeyOf[d] => c = d

\* "A active; queued B canceled; C must not overtake A": whoever works has seen
\* every earlier call of the context leave.
NoOvertaking ==
  \A c \in Calls : at[c] = "working" => \A d \in earlier[c] : at[d] = "left"

\* An aborted waiter leaves even when the work before it never ends.
AbortedLeaves ==
  \A c \in Calls : at[c] = "waiting" /\ c \in aborted ~> at[c] = "left"

\* Every work() that starts comes to an end.
WorkEnds == \A c \in Calls : WF_vars(Finish(c))

\* Every waiter is served when work ends: no cancellation breaks the chain.
WaiterServed ==
  WorkEnds => \A c \in Calls : at[c] = "waiting" ~> at[c] # "waiting"

\* The map does not grow with the contexts ever used: once every call of a
\* context has left, its entry is removed, unless another call arrives.
EntryRemoved ==
  WorkEnds => \A k \in Keys :
    (\A c \in Calls : KeyOf[c] = k => at[c] \in {"idle", "left"})
      ~> (tail[k] = None \/ \E c \in Calls : KeyOf[c] = k /\ at[c] = "waiting")

\* The queue of calls, as ContextQueue sees it.
Present == {c \in Calls : at[c] \in {"waiting", "working"}}
Ahead == [c \in Calls |-> IF c \in Present THEN earlier[c] \cap Present ELSE {}]
Queue == INSTANCE ContextQueue WITH at <- at, ahead <- Ahead
ImplementsQueue == Queue!Spec

(***************************************************************************)
(* The inductive invariant.                                                *)
(***************************************************************************)

\* Arrival order: earlier calls of the same key, and of two that have arrived
\* one is earlier.
OrderInv ==
  \A c \in Calls :
    /\ earlier[c] \subseteq Arrived(KeyOf[c]) \ {c}
    /\ at[c] = "idle" => earlier[c] = {} /\ c \notin settled
    /\ \A d \in Arrived(KeyOf[c]) \ {c} :
         at[c] # "idle" => c \in earlier[d] \/ d \in earlier[c]

\* Settled tails: a tail settles after everything that arrived before it.
SettledInv ==
  \A c \in Calls :
    /\ c \in cleaned => c \in settled
    /\ c \in settled => at[c] = "left" /\ earlier[c] \subseteq settled

\* The chain: what a call awaits stands for all that arrived before it.
ChainInv ==
  \A c \in Calls :
    /\ previous[c] = None => earlier[c] \subseteq settled
    /\ previous[c] # None =>
         earlier[c] = earlier[previous[c]] \cup {previous[c]}

\* The map entry stands for all that have arrived; without one all settled.
TailInv ==
  \A k \in Keys :
    /\ tail[k] = None => Arrived(k) \subseteq settled
    /\ tail[k] # None => /\ KeyOf[tail[k]] = k
                         /\ Arrived(k) = earlier[tail[k]] \cup {tail[k]}

\* A call works only behind settled tails.
WorkInv ==
  \A c \in Calls : at[c] = "working" => earlier[c] \subseteq settled

IInv == TypeOK /\ OrderInv /\ SettledInv /\ ChainInv /\ TailInv /\ WorkInv
=============================================================================
