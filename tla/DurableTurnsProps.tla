------------------------- MODULE DurableTurnsProps --------------------------
(***************************************************************************)
(* What DurableTurns is for: the properties of the durable execution path, *)
(* the abstract specification it implements, and the inductive invariant   *)
(* from which the safety properties follow.                                *)
(***************************************************************************)
EXTENDS DurableTurns

\* "Duplicate never resubmits": session.send is called at most once for a
\* message, across client retries, process deaths, recovery and pruning.
AtMostOneSend == \A m \in Messages : sends[m] <= 1

\* One conversation never runs two inputs at a time, even when the first was
\* sent by a process that died without learning what became of it.
NoOverlap ==
  \A m, n \in Messages :
    m # n /\ remote[m] = "running" /\ remote[n] = "running"
      => mapping[ContextOf[m]] # mapping[ContextOf[n]]

\* The execution fence is released ("done") only when the remote turn is over:
\* publication, recovery and resolution never mistake a running input for a
\* stopped one.
SettledMeansStopped ==
  \A m \in Messages : phase[m] = "done" => remote[m] # "running"

\* In an opened journal a saved task says completed only when nothing of it
\* runs, and canceled as well, with one exception: the SDK cancels by itself a
\* task whose consumer has failed a save.  Its turn is then still at work, or has
\* failed to publish, which keeps the owner; the next recovery takes it back.
HonestOutcome ==
  \A m \in Messages :
    /\ tasks[m] \in Result => remote[m] # "running"
    /\ tasks[m] = "canceled" /\ remote[m] = "running" /\ proc \in Opened =>
         /\ m \notin bus
         /\ pc[m] \in Running \/ ContextOf[m] \in finalizationFailures

Attempts == {m \in Messages : phase[m] # "none"}

\* maxTasks bounds the accepted attempts in the journal although accept counts
\* the tasks before an await and several requests may pass that count together.
\* (It does not bound the tasks: the SDK saves one for every refused request.)
TaskBound == Cardinality(Attempts) <= TaskLimit

\* Once an attempt is done and its task final, they never change again, except
\* that pruning deletes them: no late save, recovery or cancellation rewrites
\* them.  An attempt done with an interruption may still be canceled, and nothing
\* else.
SettledForever ==
  [][\A m \in Messages : phase[m] = "done" =>
       \/ phase'[m] = "none" /\ tasks'[m] = "none" /\ tasks[m] \in FinalState
       \/ phase'[m] = "done" /\ tasks'[m] = tasks[m]
       \/ /\ tasks[m] = "interrupted"
          /\ \/ phase'[m] = "done" /\ tasks'[m] = "canceled"
             \/ /\ phase'[m] = "publishing" /\ publication'[m] = "canceled"
                /\ stopped'[m] /\ tasks'[m] = tasks[m]]_vars

\* A context keeps its conversation for good, whatever conversation a later
\* session reports: mappings survive restarts and pruning.
ConversationStable ==
  [][\A x \in Contexts : mapping[x] # None => mapping'[x] = mapping[x]]_vars

\* A row disappears from the journal only when its remote turn is over and its
\* task is final: pruning never forgets unresolved work.
NothingForgotten ==
  [][\A m \in Messages : phase[m] # "none" /\ phase'[m] = "none" =>
       remote[m] # "running" /\ tasks[m] \in FinalState]_vars

\* A close that reports complete leaves a journal the next process need not
\* repair, and nothing running in the agent.
CleanRelease ==
  [][proc = "closing" /\ proc' = "down" /\ crashes' = crashes =>
       \A m \in Messages : /\ phase[m] \in {"none", "done"}
                           /\ tasks[m] # "open"
                           /\ remote[m] # "running"]_vars

\* What one process leaves, however it ended, the next one can open: validate()
\* refuses no row, and recovery finds the task of every row it must reduce.
Reopens == \A m \in Messages : Valid(m) /\ (phase[m] # "none" => Reducible(m))

\* docs/DURABLE_RECOVERY.md says of CancelTask that "its persisted intent
\* survives restart": an attempt keeps cancelRequested as long as it is in the
\* journal.  The code breaks this: observe and publication write back the row
\* they read before an await.
CancelIntentSurvives ==
  [][\A m \in Messages : cancelRequested[m] /\ phase'[m] # "none"
       => cancelRequested'[m]]_vars

\* Every turn returns and every accepted attempt ends done or fenced for the
\* operator, whatever the crashes between: no waiter of a context is forgotten,
\* whatever was cancelled before it or failed in front of it.
AttemptSettles ==
  LET Rests(m) == pc[m] = "idle" /\ phase[m] \in {"none", "done", "unresolved"}
  IN  \A m \in Messages : ~Rests(m) ~> Rests(m)

\* The promise to a conversation, with the remote agent as its only state.
Inputs == INSTANCE ConversationInputs WITH input <- remote
ImplementsInputs == Inputs!Spec

(***************************************************************************)
(* The inductive invariant, in named parts.                                *)
(***************************************************************************)

Unsent == {"reserved", "accepting", "accepted", "dispatched", "waiting",
           "admitted", "preparing", "ready", "checked", "intent"}
Finishing == {"unlocking", "returned", "reducing", "published"}

\* A turn runs, and an event is consumed, only in a process with a bridge attached.
ProcessInv ==
  /\ \A m \in Messages : pc[m] # "idle" => proc \in Attached
  /\ proc \notin Attached => quarantine = {} /\ cancelling = {} /\ bus = {}

\* Two queued turns of a context are ordered, and a holder waits for nobody.
LockInv ==
  \A m \in Messages :
    /\ \A n \in ahead[m] : n \in Peers(m) /\ n # m /\ pc[n] \in Queued
    /\ pc[m] \in Holding => ahead[m] = {}
    /\ \A n \in Peers(m) :
         n # m /\ pc[m] \in Queued /\ pc[n] \in Queued
           => n \in ahead[m] \/ m \in ahead[n]

\* What the row says at each position of the turn.
PhaseInv ==
  \A m \in Messages :
    /\ pc[m] \in {"reserved", "accepting"} => phase[m] = "none"
    /\ pc[m] = "accepted" => phase[m] = "accepted"
    /\ pc[m] \in {"dispatched", "waiting", "admitted"} =>
         phase[m] = "dispatching"
    /\ pc[m] \in {"preparing", "ready", "checked"} => phase[m] = "preparing"
    /\ pc[m] \in {"intent", "streaming", "observing", "settled", "failing"} =>
         phase[m] = "intent"
    /\ pc[m] \in {"unlocking", "returned"} =>
         phase[m] \notin {"none", "publishing", "done"}
    /\ pc[m] = "reducing" =>
         /\ phase[m] \notin {"none", "publishing"}
         /\ phase[m] = "done" =>
              /\ outcome[m] = "canceled" /\ tasks[m] = "interrupted"
              /\ m \in bus
    /\ pc[m] = "published" => phase[m] = "publishing"
    /\ phase[m] = "publishing" => publication[m] # "none"
    /\ outcome[m] # "none" <=> pc[m] \in Finishing

\* A message without a tombstone was never touched; before the send, in this
\* process or in the row a dead one left, nothing was sent.
SendInv ==
  \A m \in Messages :
    /\ m \notin tombstones => phase[m] = "none" /\ tasks[m] = "none"
                              /\ sends[m] = 0 /\ pc[m] = "idle"
    /\ phase[m] \in {"accepted", "dispatching", "preparing"} => sends[m] = 0
    /\ pc[m] \in Unsent => sends[m] = 0
    /\ remote[m] # "none" => sends[m] = 1
    /\ sends[m] <= 1

\* Whatever is recorded or about to be recorded as stopped is over.
StopInv ==
  \A m \in Messages :
    /\ stopped[m] => /\ phase[m] \in {"stopped", "publishing", "done"}
                     /\ remote[m] # "running"
    /\ phase[m] \in {"stopped", "done"} => stopped[m]
    /\ pc[m] = "settled" => remote[m] = "finished"
    /\ outcome[m] \in Result \cup {"canceled"} => remote[m] # "running"
    /\ draft[m].stopped => pc[m] = "reducing" /\ remote[m] # "running"
    /\ pc[m] = "reducing" /\ outcome[m] # "failed" => draft[m].stopped

\* What may be said of an attempt that is over is said only of stopped ones, but
\* for the SDK's own cancellation of a task it consumes no longer.
HonestInv ==
  \A m \in Messages :
    /\ publication[m] \in Result \cup {"canceled"} =>
         stopped[m] /\ phase[m] \in {"publishing", "done"}
    /\ publication[m] # "none" => phase[m] \in {"publishing", "done", "unresolved"}
    /\ tasks[m] = "completed" => phase[m] = "done"
    /\ tasks[m] = "interrupted" =>
         stopped[m] /\ phase[m] \in {"publishing", "done"}
    /\ tasks[m] = "canceled" /\ phase[m] # "done" /\ proc \in Opened =>
         /\ m \notin bus
         /\ pc[m] \in Running \/ ContextOf[m] \in finalizationFailures

\* Every row has a task; a task without a row is a refused request's; a settled
\* row has a task that is final or interrupted, a fenced one that was published
\* a failed task.
RowInv ==
  \A m \in Messages :
    /\ tasks[m] = "none" => phase[m] = "none"
    /\ phase[m] = "none" /\ tasks[m] # "none" =>
         tasks[m] = "failed" /\ pc[m] = "idle"
    /\ phase[m] = "done" => tasks[m] \in FinalState \cup {"interrupted"}
    /\ phase[m] = "unresolved" /\ publication[m] # "none" => tasks[m] = "failed"

\* The SDK consumes the bus of a turn, and of an interrupted task after it.
BusInv ==
  \A m \in bus : \/ pc[m] \in Running
                 \/ pc[m] = "idle" /\ phase[m] = "done" /\ tasks[m] = "interrupted"

\* In an opened journal an attempt that no turn works on is settled or fenced and
\* its task is not open, unless its context is on the list of failed finalizations.
ReleaseInv ==
  proc \in Opened =>
    \A m \in Messages : pc[m] = "idle" =>
      \/ phase[m] \in {"none", "done", "unresolved"} /\ tasks[m] # "open"
      \/ ContextOf[m] \in finalizationFailures

\* The set that accept counts is finite to begin with.
BoundInv == IsFiniteSet(SavedTasks) /\ TaskBound

\* recover() leaves nothing half way; an attempt under resolution is idle,
\* still unresolved, and over.
RecoverInv ==
  /\ proc = "recovering" =>
       \A m \in Messages \ toRecover :
         /\ phase[m] \in {"none", "done", "unresolved"} /\ tasks[m] # "open"
         /\ tasks[m] = "canceled" => phase[m] = "done"
  /\ proc # "recovering" => toRecover = {}
  /\ \A m \in toRecover : phase[m] # "none"
  /\ resolving # None => /\ proc \in Opened
                         /\ phase[resolving] = "unresolved"
                         /\ pc[resolving] = "idle"
                         /\ remote[resolving] # "running"

\* The fence: a running input is in the hands of the turn that holds the lock
\* of its context, or the context is quarantined in memory, or the row fences
\* it.  A turn past its check of the fence has the context to itself.
FenceInv ==
  \A m \in Messages :
    /\ remote[m] = "running" => phase[m] \in {"intent", "unresolved", "publishing"}
    /\ remote[m] = "running" /\ proc \in Opened =>
         \/ pc[m] \in {"streaming", "observing", "failing"}
         \/ ContextOf[m] \in quarantine
         \/ phase[m] = "unresolved" /\ pc[m] = "idle"
    /\ pc[m] \in {"admitted", "preparing", "ready", "checked", "intent"} =>
         ContextOf[m] \notin quarantine
    /\ pc[m] \in {"preparing", "ready", "checked", "intent"} =>
         \A n \in Peers(m) : remote[n] # "running"
    /\ \A n \in Peers(m) :
         n # m => ~(remote[m] = "running" /\ remote[n] = "running")

\* Conversations have one context, and a running input has a conversation.
MappingInv ==
  /\ \A x, y \in Contexts : x # y /\ mapping[x] = mapping[y] => mapping[x] = None
  /\ \A m \in Messages :
       pc[m] \in {"ready", "checked", "intent"} \/ remote[m] # "none" =>
         mapping[ContextOf[m]] # None

IInv == /\ TypeOK /\ ProcessInv /\ LockInv /\ PhaseInv /\ SendInv /\ StopInv
        /\ HonestInv /\ RowInv /\ BusInv /\ RecoverInv /\ ReleaseInv
        /\ FenceInv /\ MappingInv
=============================================================================
