---------------------------- MODULE ContextLock -----------------------------
(***************************************************************************)
(* The lock per context that AgentSdkTurnRunner (letta-agent.ts) and       *)
(* MemoryContextStore (context-store.ts) build from a chain of promises:   *)
(* a call awaits the tail of its key and becomes the new tail, which       *)
(* settles when the tail before it and its own gate have.                  *)
(*                                                                         *)
(* A promise that settles runs its reactions later, one by one: settling   *)
(* of a tail, the wake-up of the call behind it and the removal of the map *)
(* entry are steps of their own and interleave with arriving calls.        *)
(***************************************************************************)
CONSTANTS
  Calls,         \* calls of withContextLock / withLock
  Keys,          \* contexts
  None,          \* no entry in the map
  KeyOf,         \* the key of each call
  AbortedEnter   \* TRUE for the runner: a call may arrive with its signal aborted

ASSUME KeyOfAssumption == KeyOf \in [Calls -> Keys]
ASSUME NoneAssumption == None \notin Calls
ASSUME AbortedEnterAssumption == AbortedEnter \in BOOLEAN

VARIABLES
  at,        \* idle, waiting, working, left (the gate is open)
  previous,  \* the call whose tail it awaits, None for a resolved promise
  tail,      \* the map: the call whose tail is the last of the key
  settled,   \* calls whose tail has settled
  cleaned,   \* calls whose removal of the map entry has run
  aborted,   \* calls whose signal is aborted
  earlier    \* history: the calls of the key that arrived before

vars == <<at, previous, tail, settled, cleaned, aborted, earlier>>

TypeOK ==
  /\ at \in [Calls -> {"idle", "waiting", "working", "left"}]
  /\ previous \in [Calls -> Calls \cup {None}]
  /\ tail \in [Keys -> Calls \cup {None}]
  /\ settled \subseteq Calls
  /\ cleaned \subseteq Calls
  /\ aborted \subseteq Calls
  /\ earlier \in [Calls -> SUBSET Calls]

Init ==
  /\ at = [c \in Calls |-> "idle"]
  /\ previous = [c \in Calls |-> None]
  /\ tail = [k \in Keys |-> None]
  /\ settled = {} /\ cleaned = {} /\ aborted = {}
  /\ earlier = [c \in Calls |-> {}]

\* signal.throwIfAborted() comes before the store's queue; the runner's queue
\* takes an aborted call in and lets it go at once.
MayEnter(c) == AbortedEnter \/ c \notin aborted

Arrived(k) == {c \in Calls : KeyOf[c] = k /\ at[c] # "idle"}

\* Read the tail, chain the own tail to it and store that.
Enter(c) ==
  /\ at[c] = "idle" /\ MayEnter(c)
  /\ at' = [at EXCEPT ![c] = "waiting"]
  /\ previous' = [previous EXCEPT ![c] = tail[KeyOf[c]]]
  /\ tail' = [tail EXCEPT ![KeyOf[c]] = c]
  /\ earlier' = [earlier EXCEPT ![c] = Arrived(KeyOf[c])]
  /\ UNCHANGED <<settled, cleaned, aborted>>

\* Mutant: the gate of the predecessor is awaited instead of its tail.
PreviousOpen(c) == previous[c] \notin {d \in Calls : at[d] # "left"}
PreviousSettled(c) == previous[c] = None \/ previous[c] \in settled

\* The awaited tail has settled and the signal has not been aborted: work().
Start(c) ==
  /\ at[c] = "waiting" /\ PreviousSettled(c) /\ c \notin aborted
  /\ at' = [at EXCEPT ![c] = "working"]
  /\ UNCHANGED <<previous, tail, settled, cleaned, aborted, earlier>>

\* Mutant: the signal is looked at only once the predecessor is done.
GiveUpInTurn(c) ==
  /\ at[c] = "waiting" /\ c \in aborted /\ PreviousSettled(c)
  /\ at' = [at EXCEPT ![c] = "left"]
  /\ UNCHANGED <<previous, tail, settled, cleaned, aborted, earlier>>

\* An aborted waiter rejects, whether or not its turn has come.
GiveUp(c) ==
  /\ at[c] = "waiting" /\ c \in aborted
  /\ at' = [at EXCEPT ![c] = "left"]
  /\ UNCHANGED <<previous, tail, settled, cleaned, aborted, earlier>>

\* work() returns or throws; finally opens the gate.
Finish(c) ==
  /\ at[c] = "working"
  /\ at' = [at EXCEPT ![c] = "left"]
  /\ UNCHANGED <<previous, tail, settled, cleaned, aborted, earlier>>

\* Mutants: the tail is the call's own gate, or a cancelled call never opens it.
SettleAlone(c) ==
  /\ at[c] = "left" /\ c \notin settled
  /\ settled' = settled \cup {c}
  /\ UNCHANGED <<at, previous, tail, cleaned, aborted, earlier>>
SettleWorked(c) ==
  /\ at[c] = "left" /\ c \notin settled /\ PreviousSettled(c)
  /\ c \notin aborted
  /\ settled' = settled \cup {c}
  /\ UNCHANGED <<at, previous, tail, cleaned, aborted, earlier>>

\* tail = previous.then(() => current) settles.
Settle(c) ==
  /\ at[c] = "left" /\ c \notin settled /\ PreviousSettled(c)
  /\ settled' = settled \cup {c}
  /\ UNCHANGED <<at, previous, tail, cleaned, aborted, earlier>>

\* Mutant: no entry is ever removed.
CleanupNever(c) ==
  /\ c \in settled /\ c \notin cleaned
  /\ cleaned' = cleaned \cup {c}
  /\ UNCHANGED <<at, previous, tail, settled, aborted, earlier>>

\* The reaction of the tail removes the entry, unless a later call replaced it.
Cleanup(c) ==
  /\ c \in settled /\ c \notin cleaned
  /\ cleaned' = cleaned \cup {c}
  /\ tail' = IF tail[KeyOf[c]] = c THEN [tail EXCEPT ![KeyOf[c]] = None] ELSE tail
  /\ UNCHANGED <<at, previous, settled, aborted, earlier>>

\* External: the caller aborts its signal.
Abort(c) ==
  /\ c \notin aborted
  /\ aborted' = aborted \cup {c}
  /\ UNCHANGED <<at, previous, tail, settled, cleaned, earlier>>

Next == \E c \in Calls : \/ Enter(c) \/ Start(c) \/ GiveUp(c) \/ Finish(c)
                         \/ Settle(c) \/ Cleanup(c) \/ Abort(c)

Spec == Init /\ [][Next]_vars

\* The event loop runs every reaction and continuation.
LoopFairness ==
  \A c \in Calls : /\ WF_vars(Start(c) \/ GiveUp(c))
                   /\ WF_vars(Settle(c)) /\ WF_vars(Cleanup(c))
LoopSpec == Spec /\ LoopFairness
=============================================================================
