---------------------------- MODULE DurableTurns ----------------------------
(***************************************************************************)
(* The durable execution path of letta-a2a-bridge: one message becomes one *)
(* attempt, run by the executor (letta-agent-executor.ts) through the SDK  *)
(* runner (letta-agent.ts) against a remote conversation, with every       *)
(* boundary journalled by DurableBinding (durable-binding.ts) so that a    *)
(* new process can tell what was sent, what stopped and what is unknown.   *)
(*                                                                         *)
(* One action stands for the code between two awaits.  A crash may fall    *)
(* between any two of them; it clears what the process held in memory and  *)
(* leaves the journal and the remote agent as they were.                   *)
(***************************************************************************)
EXTENDS Naturals, FiniteSets

CONSTANTS
  Messages,       \* message ids of one caller, each naming a fresh task
  Contexts,       \* A2A contexts (contextKey)
  Conversations,  \* Letta conversations the App Server can hand out
  None,           \* no conversation, no attempt
  ContextOf,      \* the context each message names
  TaskLimit,      \* maxTasks
  JournalLimit,   \* maxJournalEntries
  MaxCrashes,     \* bound on process deaths
  StorageFaults   \* TRUE when a journal write may fail

ASSUME ContextOfAssumption == ContextOf \in [Messages -> Contexts]
ASSUME NoneAssumption == None \notin Conversations \cup Messages
ASSUME LimitAssumption == /\ TaskLimit \in Nat \ {0}
                          /\ JournalLimit \in Nat \ {0}
                          /\ MaxCrashes \in Nat
                          /\ StorageFaults \in BOOLEAN

VARIABLES
  \* The journal (state.sqlite).
  phase,            \* executions[m].phase, "none" without a row
  stopped,          \* executions[m].stopped
  cancelRequested,  \* executions[m].cancelRequested
  publication,      \* state of the snapshot in publications[m]
  tasks,            \* state of the saved task: "open" while at work,
                    \* "interrupted" while input or authorization is required
  tombstones,       \* messages
  mapping,          \* mappings: context to conversation
  \* The App Server and the agent behind it.
  remote,           \* whether the input of m runs there
  sends,            \* how often session.send was called for m
  \* The process that owns the binding.
  proc,             \* life cycle of DurableBinding and bridge
  toRecover,        \* rows recover() has yet to visit
  resolving,        \* attempt of a resolveWithVerifiedStop under way
  crashes,
  \* One turn of the executor and the runner, per message.
  pc,
  outcome,          \* task state the turn is going to publish
  abort,            \* signal.aborted
  ahead,            \* turns whose release this one waits for (contextTails)
  draft,            \* row read before an await and written after it
  \* Other memory of the process.
  quarantine,            \* AgentSdkTurnRunner.unresolved
  finalizationFailures,  \* LettaAgentExecutor.finalizationFailures
  cancelling,            \* BridgeRequestHandler.cancellations
  bus                    \* external: tasks whose event bus the SDK consumes

journal == <<phase, stopped, cancelRequested, publication, tasks,
             tombstones, mapping>>
agent   == <<remote, sends>>
owner   == <<proc, toRecover, resolving, crashes>>
turn    == <<pc, outcome, abort, ahead, draft>>
memory  == <<quarantine, finalizationFailures, cancelling, bus>>
vars    == <<journal, agent, owner, turn, memory>>

(***************************************************************************)
(* Types.                                                                  *)
(***************************************************************************)
Phase == {"accepted", "dispatching", "preparing", "intent", "stopped",
          "publishing", "done", "unresolved"}
FinalState == {"completed", "failed", "canceled"}
\* What a turn may come to, and the states the executor may save for it.
Result == {"completed", "interrupted"}
Outcome == FinalState \cup Result

\* Positions of a turn while it holds the lock of its context.
Holding == {"admitted", "preparing", "ready", "checked", "intent",
            "streaming", "observing", "settled", "failing", "unlocking"}
\* Mutant: a waiting turn is invisible to the turns that come after it.
QueuedHoldersOnly == Holding
Queued == Holding \cup {"waiting"}
\* Positions of a turn that executeTurn has entered (activeTasks).
Running == Queued \cup {"accepting", "accepted", "dispatched", "returned",
                        "reducing", "published"}
Position == Running \cup {"idle", "reserved"}

\* States of the process in which the event loop of the bridge runs.
Attached == {"serving", "closing", "stuck"}
Opened == Attached \cup {"open"}

TypeOK ==
  /\ phase \in [Messages -> Phase \cup {"none"}]
  /\ stopped \in [Messages -> BOOLEAN]
  /\ cancelRequested \in [Messages -> BOOLEAN]
  /\ publication \in [Messages -> Outcome \cup {"none"}]
  /\ tasks \in [Messages -> Outcome \cup {"none", "open"}]
  /\ tombstones \subseteq Messages
  /\ mapping \in [Contexts -> Conversations \cup {None}]
  /\ remote \in [Messages -> {"none", "running", "finished"}]
  /\ sends \in [Messages -> Nat]
  /\ proc \in Opened \cup {"down", "recovering"}
  /\ toRecover \subseteq Messages
  /\ resolving \in Messages \cup {None}
  /\ crashes \in Nat
  /\ pc \in [Messages -> Position]
  /\ outcome \in [Messages -> Outcome \cup {"none"}]
  /\ abort \in [Messages -> BOOLEAN]
  /\ ahead \in [Messages -> SUBSET Messages]
  /\ draft \in [Messages -> [stopped : BOOLEAN, cancel : BOOLEAN]]
  /\ quarantine \subseteq Contexts
  /\ finalizationFailures \subseteq Contexts
  /\ cancelling \subseteq Messages
  /\ bus \subseteq Messages

(***************************************************************************)
(* Helpers.                                                                *)
(***************************************************************************)
Peers(m) == {n \in Messages : ContextOf[n] = ContextOf[m]}

\* Mutant: the fence of an unresolved attempt is not looked at.
AvailableAlways(x) == x \in Contexts
\* assertAvailable: its two checks together refuse a context with any
\* unresolved attempt, whichever message asks.
Available(x) ==
  \A n \in Messages : ContextOf[n] = x => phase[n] # "unresolved"

\* Every task in the store counts, also those of requests that were refused.
SavedTasks == {n \in Messages : tasks[n] # "none"}
HasRoom == Cardinality(SavedTasks) < TaskLimit

\* conversationMapping.set(x, c) does not throw.
CanMap(x, c) ==
  /\ mapping[x] \in {None, c}
  /\ \A y \in Contexts \ {x} : mapping[y] # c
  /\ mapping[x] = None =>
       Cardinality({y \in Contexts : mapping[y] # None}) < JournalLimit

\* reduce() starts from the saved task and throws without one.
Reducible(m) == tasks[m] # "none"
\* reduce and savePublication: the events that announce a state become the
\* snapshot that will be the task, kept beside the row until it is saved.
SavePublication(m, state) ==
  /\ Reducible(m)
  /\ publication' = [publication EXCEPT ![m] = state]

\* record.stopped ? "done" : "unresolved"
Settled(isStopped) == IF isStopped THEN "done" ELSE "unresolved"

\* The row of m is read here and written back after an await: of its fields
\* only cancelRequested can be written by somebody else in between.
NoDraft == [stopped |-> FALSE, cancel |-> FALSE]
TakeDraft(m, isStopped) ==
  draft' = [draft EXCEPT ![m] =
              [stopped |-> isStopped, cancel |-> cancelRequested[m]]]
DropDraft(m) == draft' = [draft EXCEPT ![m] = NoDraft]

Goto(m, p) == pc' = [pc EXCEPT ![m] = p]
\* A holder of the lock leaves runTurnUnlocked with the given task state.
Leave(m, state) == /\ Goto(m, "unlocking")
                   /\ outcome' = [outcome EXCEPT ![m] = state]

Init ==
  /\ phase = [m \in Messages |-> "none"]
  /\ stopped = [m \in Messages |-> FALSE]
  /\ cancelRequested = [m \in Messages |-> FALSE]
  /\ publication = [m \in Messages |-> "none"]
  /\ tasks = [m \in Messages |-> "none"]
  /\ tombstones = {}
  /\ mapping = [x \in Contexts |-> None]
  /\ remote = [m \in Messages |-> "none"]
  /\ sends = [m \in Messages |-> 0]
  /\ proc = "down" /\ toRecover = {} /\ resolving = None /\ crashes = 0
  /\ pc = [m \in Messages |-> "idle"]
  /\ outcome = [m \in Messages |-> "none"]
  /\ abort = [m \in Messages |-> FALSE]
  /\ ahead = [m \in Messages |-> {}]
  /\ draft = [m \in Messages |-> NoDraft]
  /\ quarantine = {} /\ finalizationFailures = {} /\ cancelling = {}
  /\ bus = {}

(***************************************************************************)
(* Admission (bridge.ts reserve) and acceptance (executor, accept).        *)
(***************************************************************************)

\* The tombstone is written before the SDK sees the message and is never
\* taken back, so a client's retry is refused in this and in later processes.
Reserve(m) ==
  /\ proc = "serving" /\ pc[m] = "idle"
  /\ Available(ContextOf[m])
  /\ m \notin tombstones
  /\ Cardinality(tombstones) < JournalLimit
  /\ tombstones' = tombstones \cup {m}
  /\ Goto(m, "reserved")
  /\ UNCHANGED <<phase, stopped, cancelRequested, publication, tasks, mapping,
                 agent, owner, outcome, abort, ahead, draft, memory>>

\* assertOpen after the reservation: close() came first.
AbandonReserved(m) ==
  /\ pc[m] = "reserved" /\ proc # "serving"
  /\ Goto(m, "idle")
  /\ UNCHANGED <<journal, agent, owner, outcome, abort, ahead, draft, memory>>

\* External: the SDK answers an execute() that throws with a FAILED task of its
\* own.  It goes through taskStore.save, which counts nothing; the save may fail.
Synthesize(m) == tasks' \in {tasks, [tasks EXCEPT ![m] = "failed"]}

\* execute() up to the await inside accept; the SDK consumes the bus of the task.
Execute(m) ==
  /\ pc[m] = "reserved" /\ proc = "serving"
  /\ phase[m] = "none" /\ HasRoom
  /\ Goto(m, "accepting")
  /\ bus' = bus \cup {m}
  /\ UNCHANGED <<journal, agent, owner, outcome, abort, ahead, draft,
                 quarantine, finalizationFailures, cancelling>>

\* The checks of accept refuse the turn.
ExecuteRefused(m) ==
  /\ pc[m] = "reserved" /\ proc = "serving"
  /\ phase[m] # "none" \/ ~HasRoom
  /\ Goto(m, "idle")
  /\ Synthesize(m)
  /\ UNCHANGED <<phase, stopped, cancelRequested, publication, tombstones,
                 mapping, agent, owner, outcome, abort, ahead, draft, memory>>

\* execute() of a call the SDK made before close(): the synthetic rejection it
\* may still save keeps the owner.
ExecuteClosed(m) ==
  /\ pc[m] = "reserved" /\ proc \in {"closing", "stuck"}
  /\ Goto(m, "idle")
  /\ Synthesize(m)
  /\ finalizationFailures' = finalizationFailures \cup {ContextOf[m]}
  /\ UNCHANGED <<phase, stopped, cancelRequested, publication, tombstones,
                 mapping, agent, owner, outcome, abort, ahead, draft,
                 quarantine, cancelling, bus>>

\* The transaction of accept checks again what was checked before the await.
AcceptRecheck(m) == phase[m] = "none" /\ HasRoom

AcceptCommit(m) ==
  /\ pc[m] = "accepting"
  /\ AcceptRecheck(m)
  /\ tasks' = [tasks EXCEPT ![m] = "open"]
  /\ phase' = [phase EXCEPT ![m] = "accepted"]
  /\ Goto(m, "accepted")
  /\ UNCHANGED <<stopped, cancelRequested, publication, tombstones, mapping,
                 agent, owner, outcome, abort, ahead, draft, memory>>

AcceptRefused(m) ==
  /\ pc[m] = "accepting"
  /\ ~AcceptRecheck(m) \/ StorageFaults
  /\ Goto(m, "idle")
  /\ abort' = [abort EXCEPT ![m] = FALSE]
  /\ Synthesize(m)
  /\ bus' = bus \ {m}
  /\ UNCHANGED <<phase, stopped, cancelRequested, publication, tombstones,
                 mapping, agent, owner, outcome, ahead, draft,
                 quarantine, finalizationFailures, cancelling>>

Dispatched(m) ==
  /\ pc[m] = "accepted"
  /\ proc = "serving"
  /\ Available(ContextOf[m])
  /\ phase' = [phase EXCEPT ![m] = "dispatching"]
  /\ Goto(m, "dispatched")
  /\ UNCHANGED <<stopped, cancelRequested, publication, tasks, tombstones,
                 mapping, agent, owner, outcome, abort, ahead, draft, memory>>

\* "Bridge is closed", the fence of the context, or a failed write.
DispatchRefused(m) ==
  /\ pc[m] = "accepted"
  /\ proc # "serving" \/ ~Available(ContextOf[m]) \/ StorageFaults
  /\ Goto(m, "returned")
  /\ outcome' = [outcome EXCEPT ![m] = "failed"]
  /\ UNCHANGED <<journal, agent, owner, abort, ahead, draft, memory>>

(***************************************************************************)
(* The runner: the lock of the context, then the turn it protects.         *)
(***************************************************************************)

\* withContextLock: the tail this turn waits for stands for every turn of the
\* context that has not released yet.
Enqueue(m) ==
  /\ pc[m] = "dispatched"
  /\ ahead' = [ahead EXCEPT ![m] = {n \in Peers(m) : pc[n] \in Queued}]
  /\ Goto(m, "waiting")
  /\ UNCHANGED <<journal, agent, owner, outcome, abort, draft, memory>>

\* Mutant: a turn that leaves the lock is not noticed by those behind it.
ReleaseSelf(m) == ahead' = [ahead EXCEPT ![m] = {}]
Release(m) == ahead' = [n \in Messages |-> IF n = m THEN {} ELSE ahead[n] \ {m}]

\* An aborted waiter gives up its own place; those behind it keep waiting for
\* those before it.
WaitCancelled(m) ==
  /\ pc[m] = "waiting" /\ abort[m]
  /\ Goto(m, "returned")
  /\ outcome' = [outcome EXCEPT ![m] = "canceled"]
  /\ Release(m)
  /\ UNCHANGED <<journal, agent, owner, abort, draft, memory>>

\* The lock is ours: quarantine check and the application's beforeTurn hook.
BeginTurn(m) ==
  /\ pc[m] = "waiting" /\ ahead[m] = {} /\ ~abort[m]
  /\ ContextOf[m] \notin quarantine
  /\ Goto(m, "admitted")
  /\ UNCHANGED <<journal, agent, owner, outcome, abort, ahead, draft, memory>>

BeforeTurn(m) ==
  /\ pc[m] = "admitted" /\ ~abort[m]
  /\ Available(ContextOf[m])
  /\ phase' = [phase EXCEPT ![m] = "preparing"]
  /\ Goto(m, "preparing")
  /\ UNCHANGED <<stopped, cancelRequested, publication, tasks, tombstones,
                 mapping, agent, owner, outcome, abort, ahead, draft, memory>>

\* A session is created or resumed; the conversation it reports is recorded.
SessionReady(m) ==
  /\ pc[m] = "preparing" /\ ~abort[m]
  /\ \E c \in Conversations :
       /\ CanMap(ContextOf[m], c)
       /\ mapping' = [mapping EXCEPT ![ContextOf[m]] = c]
  /\ Goto(m, "ready")
  /\ UNCHANGED <<phase, stopped, cancelRequested, publication, tasks,
                 tombstones, agent, owner, outcome, abort, ahead, draft, memory>>

\* beforeSend up to its await of conversationMapping.set.
BeforeSend(m) ==
  /\ pc[m] = "ready" /\ ~abort[m]
  /\ Available(ContextOf[m])
  /\ Goto(m, "checked")
  /\ UNCHANGED <<journal, agent, owner, outcome, abort, ahead, draft, memory>>

\* The rest of beforeSend: submission intent, in one transaction.
RecordIntent(m) ==
  /\ pc[m] = "checked"
  /\ phase' = [phase EXCEPT ![m] = "intent"]
  /\ Goto(m, "intent")
  /\ UNCHANGED <<stopped, cancelRequested, publication, tasks, tombstones,
                 mapping, agent, owner, outcome, abort, ahead, draft, memory>>

\* session.send: sent is set first, so whatever happens from here on is
\* ambiguous.
Send(m) ==
  /\ pc[m] = "intent" /\ ~abort[m]
  /\ sends' = [sends EXCEPT ![m] = @ + 1]
  /\ remote' = [remote EXCEPT ![m] = "running"]
  /\ Goto(m, "streaming")
  /\ UNCHANGED <<journal, owner, outcome, abort, ahead, draft, memory>>

\* A call that throws may or may not have delivered the input.
SendThrows(m) ==
  /\ pc[m] = "intent" /\ ~abort[m]
  /\ sends' = [sends EXCEPT ![m] = @ + 1]
  /\ remote' \in {remote, [remote EXCEPT ![m] = "running"]}
  /\ Goto(m, "failing")
  /\ UNCHANGED <<journal, owner, outcome, abort, ahead, draft, memory>>

\* throwIfCancelled at each of the points before the send.
TurnCancelled(m) ==
  /\ \/ pc[m] \in {"admitted", "preparing", "ready", "intent"}
     \/ pc[m] = "waiting" /\ ahead[m] = {}
  /\ abort[m]
  /\ Leave(m, "canceled")
  /\ UNCHANGED <<journal, agent, owner, abort, ahead, draft, memory>>

\* Any other error before the send: the quarantine or the hook refuses the
\* turn, no session becomes ready, its conversation belongs to another
\* context, the context is fenced, or a write fails.
TurnRefused(m) ==
  /\ \/ pc[m] = "waiting" /\ ahead[m] = {}
     \/ pc[m] = "preparing"
     \/ pc[m] \in {"admitted", "ready"} /\ ~Available(ContextOf[m])
     \/ pc[m] \in {"admitted", "ready", "checked"} /\ StorageFaults
  /\ Leave(m, "failed")
  /\ UNCHANGED <<journal, agent, owner, abort, ahead, draft, memory>>

\* observe: the row is read, the public output is reduced (an await), and the
\* whole row is written back.
ObserveRead(m) ==
  /\ pc[m] = "streaming"
  /\ TakeDraft(m, FALSE)
  /\ Goto(m, "observing")
  /\ UNCHANGED <<journal, agent, owner, outcome, abort, ahead, memory>>

ObserveWrite(m) ==
  /\ pc[m] = "observing"
  /\ cancelRequested' = [cancelRequested EXCEPT ![m] = draft[m].cancel]
  /\ Goto(m, "streaming")
  /\ DropDraft(m)
  /\ UNCHANGED <<phase, stopped, publication, tasks, tombstones, mapping,
                 agent, owner, outcome, abort, ahead, memory>>

\* The stream ends with a successful result and all cleanup has settled.  A
\* successful, uninterrupted result is the agent's word that the turn is over.
StreamSucceeds(m) ==
  /\ pc[m] = "streaming" /\ remote[m] = "finished"
  /\ Goto(m, "settled")
  /\ UNCHANGED <<journal, agent, owner, outcome, abort, ahead, draft, memory>>

\* No result, an unsuccessful or interrupted one, an approval request, or an
\* observation, journal or cleanup error: the input may still be running.
StreamFails(m) ==
  /\ pc[m] \in {"streaming", "observing"}
  /\ Goto(m, "failing")
  /\ DropDraft(m)
  /\ UNCHANGED <<journal, agent, owner, outcome, abort, ahead, memory>>

\* execution.stopped, then the last look at the signal.  A trusted runner may say
\* that its settled turn needs input or authorization.
TurnStopped(m) ==
  /\ pc[m] = "settled"
  /\ phase' = [phase EXCEPT ![m] = "stopped"]
  /\ stopped' = [stopped EXCEPT ![m] = TRUE]
  /\ \E result \in Result : Leave(m, IF abort[m] THEN "canceled" ELSE result)
  /\ UNCHANGED <<cancelRequested, publication, tasks, tombstones, mapping,
                 agent, owner, abort, ahead, draft, memory>>

TurnStoppedFails(m) ==
  /\ pc[m] = "settled" /\ StorageFaults
  /\ Goto(m, "failing")
  /\ UNCHANGED <<journal, agent, owner, outcome, abort, ahead, draft, memory>>

\* The catch block of a turn that was sent: quarantine, then the durable fence.
Quarantine(m) == quarantine' = quarantine \cup {ContextOf[m]}

TurnUnresolved(m) ==
  /\ pc[m] = "failing"
  /\ Quarantine(m)
  /\ phase' = [phase EXCEPT ![m] = "unresolved"]
  /\ stopped' = [stopped EXCEPT ![m] = FALSE]
  /\ Leave(m, "failed")
  /\ UNCHANGED <<cancelRequested, publication, tasks, tombstones, mapping,
                 agent, owner, abort, ahead, draft,
                 finalizationFailures, cancelling, bus>>

\* The write of the fence fails: only memory and the intent row tell.
TurnUnresolvedFails(m) ==
  /\ pc[m] = "failing" /\ StorageFaults
  /\ Quarantine(m)
  /\ Leave(m, "failed")
  /\ UNCHANGED <<journal, agent, owner, abort, ahead, draft,
                 finalizationFailures, cancelling, bus>>

Unlock(m) ==
  /\ pc[m] = "unlocking"
  /\ Release(m)
  /\ Goto(m, "returned")
  /\ UNCHANGED <<journal, agent, owner, outcome, abort, draft, memory>>

(***************************************************************************)
(* Publication of the outcome (executor, publication, taskStore.save).     *)
(***************************************************************************)

KnownUnsent(m) == phase[m] \in {"accepted", "preparing"}

\* What the executor reports once runTurn has returned or thrown.
Verdict(m) ==
  IF ContextOf[m] \in quarantine THEN "failed"
  ELSE IF outcome[m] \in Result /\ abort[m] THEN "canceled"
  ELSE outcome[m]

\* publication up to its await: confirmedStopped || stopped || knownUnsent.  The
\* runner's word of a settled turn is confirmation, whatever is asked next.
Conclude(m) ==
  /\ pc[m] = "returned"
  /\ outcome' = [outcome EXCEPT ![m] = Verdict(m)]
  /\ TakeDraft(m, Verdict(m) # "failed" \/ stopped[m] \/ KnownUnsent(m))
  /\ Goto(m, "reducing")
  /\ UNCHANGED <<journal, agent, owner, abort, ahead, memory>>

\* The rest of publication: snapshot and row in one transaction, then the
\* terminal event goes on the bus.
PublishIntent(m) ==
  /\ pc[m] = "reducing"
  /\ phase' = [phase EXCEPT ![m] = "publishing"]
  /\ stopped' = [stopped EXCEPT ![m] = draft[m].stopped]
  /\ cancelRequested' = [cancelRequested EXCEPT ![m] = draft[m].cancel]
  /\ SavePublication(m, outcome[m])
  /\ Goto(m, "published")
  /\ DropDraft(m)
  /\ UNCHANGED <<tasks, tombstones, mapping,
                 agent, owner, outcome, abort, ahead, memory>>

\* executeTurn returns: the task is no longer active.
EndTurn(m) == /\ Goto(m, "idle")
              /\ outcome' = [outcome EXCEPT ![m] = "none"]
              /\ abort' = [abort EXCEPT ![m] = FALSE]

\* publication throws.  A turn's failure is answered by the SDK as a refused
\* call is, if it still listens; a cancellation's is not, and its row is settled.
PublishFails(m) ==
  /\ pc[m] = "reducing"
  /\ StorageFaults \/ ~Reducible(m)
  /\ finalizationFailures' = finalizationFailures \cup {ContextOf[m]}
  /\ IF m \in bus /\ phase[m] # "done" THEN Synthesize(m) ELSE UNCHANGED tasks
  /\ bus' = bus \ {m}
  /\ EndTurn(m)
  /\ DropDraft(m)
  /\ UNCHANGED <<phase, stopped, cancelRequested, publication, tombstones,
                 mapping, agent, owner, ahead, quarantine, cancelling>>

\* taskStore.save of the published snapshot by the SDK's consumer: task and row
\* in one transaction, then waitPublished resolves.  The consumer of an
\* interrupted task lets go of the bus later.
SdkSave(m) ==
  /\ pc[m] = "published" /\ m \in bus
  /\ tasks' = [tasks EXCEPT ![m] = publication[m]]
  /\ phase' = [phase EXCEPT ![m] = Settled(stopped[m])]
  /\ bus' = IF publication[m] = "interrupted" THEN bus ELSE bus \ {m}
  /\ EndTurn(m)
  /\ UNCHANGED <<stopped, cancelRequested, publication, tombstones, mapping,
                 agent, owner, ahead, draft,
                 quarantine, finalizationFailures, cancelling>>

\* External: a save of the consumer fails, of the snapshot or of an event before
\* it.  Its loop ends, maybe after saving that the task failed; the SDK forgets
\* the bus and nobody will acknowledge the publication.
ConsumerFails(m) ==
  /\ pc[m] \in Running \ {"accepting"} /\ m \in bus /\ StorageFaults
  /\ phase[m] # "done"
  /\ bus' = bus \ {m}
  /\ Synthesize(m)
  /\ UNCHANGED <<phase, stopped, cancelRequested, publication, tombstones,
                 mapping, agent, owner, turn,
                 quarantine, finalizationFailures, cancelling>>

\* External: the bus of an interrupted task is finished, so its consumer ends.
ConsumerEnds(m) ==
  /\ pc[m] = "idle" /\ m \in bus \ cancelling
  /\ bus' = bus \ {m}
  /\ UNCHANGED <<journal, agent, owner, turn,
                 quarantine, finalizationFailures, cancelling>>

(***************************************************************************)
(* CancelTask (bridge.ts) and the agent's own progress.                    *)
(***************************************************************************)

\* The intent is made durable first.  An unfinished task that is neither active
\* nor settled is refused, never reported canceled.
CancelIntent(m) ==
  /\ proc \in {"serving", "closing"}
  /\ tasks[m] # "none"
  /\ cancelRequested' =
       [cancelRequested EXCEPT ![m] = @ \/ phase[m] \notin {"none", "done"}]
  /\ cancelling' =
       IF /\ tasks[m] \in {"open", "interrupted"}
          /\ pc[m] \in Running \/ (phase[m] = "done" /\ stopped[m])
       THEN cancelling \cup {m} ELSE cancelling
  /\ UNCHANGED <<phase, stopped, publication, tasks, tombstones, mapping,
                 agent, owner, turn, quarantine, finalizationFailures, bus>>

\* sdk.cancelTask reads the task once more, and refuses one that is final.
Cancels(m) == m \in cancelling /\ cancelling' = cancelling \ {m}
Cancelable(m) == tasks[m] \in {"open", "interrupted"}

CancelRefused(m) ==
  /\ Cancels(m) /\ ~Cancelable(m)
  /\ UNCHANGED <<journal, agent, owner, turn,
                 quarantine, finalizationFailures, bus>>

\* executor.cancelTask: abort what is active by now.
CancelAbort(m) ==
  /\ Cancels(m) /\ Cancelable(m) /\ m \in bus
  /\ pc[m] \in Running
  /\ abort' = [abort EXCEPT ![m] = TRUE]
  /\ UNCHANGED <<journal, agent, owner, pc, outcome, ahead, draft,
                 quarantine, finalizationFailures, bus>>

\* executor.cancelTask of an interrupted task whose bus is still there: its
\* settled row is read again, and published as canceled.
CancelInterrupted(m) ==
  /\ Cancels(m) /\ Cancelable(m) /\ m \in bus
  /\ pc[m] = "idle"
  /\ outcome' = [outcome EXCEPT ![m] = "canceled"]
  /\ TakeDraft(m, TRUE)
  /\ Goto(m, "reducing")
  /\ UNCHANGED <<journal, agent, owner, abort, ahead,
                 quarantine, finalizationFailures, bus>>

\* External: without a bus the SDK saves CANCELED by itself.  The guard of
\* bridge.ts keeps it from tasks nobody executes, not from active ones whose
\* consumer has failed.
CancelMissingBus(m) ==
  /\ Cancels(m) /\ Cancelable(m) /\ m \notin bus
  /\ \/ tasks' = [tasks EXCEPT ![m] = "canceled"]
     \/ StorageFaults /\ UNCHANGED tasks
  /\ UNCHANGED <<phase, stopped, cancelRequested, publication, tombstones,
                 mapping, agent, owner, turn,
                 quarantine, finalizationFailures, bus>>

\* External: the remote turn of m comes to its end, observed or not.
RemoteFinish(m) ==
  /\ remote[m] = "running"
  /\ remote' = [remote EXCEPT ![m] = "finished"]
  /\ UNCHANGED <<journal, sends, owner, turn, memory>>

(***************************************************************************)
(* Process life cycle: open, recover, operator actions, attach, close.     *)
(***************************************************************************)

\* SqliteBindingStore.open: nobody else has the exclusive lock of owner.sqlite.
TakeOwner == proc = "down" /\ proc' = "recovering"
\* validate() refuses a row whose phase says more than its stop evidence.  (The
\* marker of a publication and its snapshot are one variable here.)
Valid(m) == phase[m] \in {"done", "stopped"} => stopped[m]

\* DurableBinding.open takes the owner lock, validates and starts recover().
Open ==
  /\ TakeOwner
  /\ \A m \in Messages : Valid(m)
  /\ toRecover' = {m \in Messages : phase[m] # "none"}
  /\ UNCHANGED <<journal, agent, resolving, crashes, turn, memory>>

\* Mutant: done rows are recovered again.
RecoverSkipsNoDone(m) == phase[m] = "unresolved" /\ publication[m] # "none"
\* Rows recover() leaves as they are.
RecoverSkips(m) == \/ phase[m] = "done"
                   \/ phase[m] = "unresolved" /\ publication[m] # "none"

RecoverSkip(m) ==
  /\ proc = "recovering" /\ m \in toRecover
  /\ RecoverSkips(m)
  /\ toRecover' = toRecover \ {m}
  /\ UNCHANGED <<journal, agent, proc, resolving, crashes, turn, memory>>

\* A prepared publication is saved again as it is.
RecoverPublication(m) ==
  /\ proc = "recovering" /\ m \in toRecover
  /\ phase[m] = "publishing" /\ publication[m] # "none"
  /\ tasks' = [tasks EXCEPT ![m] = publication[m]]
  /\ phase' = [phase EXCEPT ![m] = Settled(stopped[m])]
  /\ toRecover' = toRecover \ {m}
  /\ UNCHANGED <<stopped, cancelRequested, publication, tombstones, mapping,
                 agent, proc, resolving, crashes, turn, memory>>

\* Mutant: a submission intent passes for a completed turn.
StopRecordedIntent(m) == phase[m] \in {"stopped", "intent"}
\* phase === "stopped" && stopped === true
StopRecorded(m) == phase[m] = "stopped" /\ stopped[m]
\* What recovery takes for proof that nothing of m runs.
RecoveredStop(m) == KnownUnsent(m) \/ StopRecorded(m)

\* Every other row: completed when its stop was recorded, failed otherwise,
\* and fenced unless the input was certainly not sent or certainly stopped.
RecoverAttempt(m) ==
  /\ proc = "recovering" /\ m \in toRecover
  /\ ~RecoverSkips(m) /\ ~(phase[m] = "publishing" /\ publication[m] # "none")
  /\ LET state == IF StopRecorded(m) THEN "completed" ELSE "failed"
     IN  /\ tasks' = [tasks EXCEPT ![m] = state]
         /\ SavePublication(m, state)
  /\ stopped' = [stopped EXCEPT ![m] = RecoveredStop(m)]
  /\ phase' = [phase EXCEPT ![m] = Settled(RecoveredStop(m))]
  /\ toRecover' = toRecover \ {m}
  /\ UNCHANGED <<cancelRequested, tombstones, mapping,
                 agent, proc, resolving, crashes, turn, memory>>

Recovered ==
  /\ proc = "recovering" /\ toRecover = {}
  /\ proc' = "open"
  /\ UNCHANGED <<journal, agent, toRecover, resolving, crashes, turn, memory>>

\* resolveWithVerifiedStop up to its await.  External: the operator holds
\* verified evidence that the remote turn is over.
ResolveStart(m) ==
  /\ proc = "open" /\ resolving = None
  /\ phase[m] = "unresolved"
  /\ remote[m] # "running"
  /\ resolving' = m
  /\ TakeDraft(m, FALSE)
  /\ UNCHANGED <<journal, agent, proc, toRecover, crashes,
                 pc, outcome, abort, ahead, memory>>

\* Its transaction; a bridge may have attached meanwhile.
ResolveCommit(m) ==
  /\ proc \in Opened /\ resolving = m
  /\ \E state \in FinalState :
       /\ tasks' = [tasks EXCEPT ![m] = state]
       /\ SavePublication(m, state)
  /\ stopped' = [stopped EXCEPT ![m] = TRUE]
  /\ phase' = [phase EXCEPT ![m] = "done"]
  /\ cancelRequested' = [cancelRequested EXCEPT ![m] = draft[m].cancel]
  /\ resolving' = None
  /\ DropDraft(m)
  /\ UNCHANGED <<tombstones, mapping, agent, proc, toRecover, crashes,
                 pc, outcome, abort, ahead, memory>>

\* Its transaction throws, and changes nothing.
ResolveFails(m) ==
  /\ proc \in Opened /\ resolving = m
  /\ StorageFaults \/ ~Reducible(m)
  /\ resolving' = None
  /\ DropDraft(m)
  /\ UNCHANGED <<journal, agent, proc, toRecover, crashes,
                 pc, outcome, abort, ahead, memory>>

\* Rows prune may delete, with their task and publication.
Prunable(m) == phase[m] = "done" /\ stopped[m] /\ tasks[m] \in FinalState

\* Mutant: the tombstone goes with the row.
PruneTombstone(m) ==
  /\ proc \in Opened
  /\ Prunable(m)
  /\ tasks' = [tasks EXCEPT ![m] = "none"]
  /\ phase' = [phase EXCEPT ![m] = "none"]
  /\ stopped' = [stopped EXCEPT ![m] = FALSE]
  /\ cancelRequested' = [cancelRequested EXCEPT ![m] = FALSE]
  /\ publication' = [publication EXCEPT ![m] = "none"]
  /\ tombstones' = tombstones \ {m}
  /\ UNCHANGED <<mapping, agent, owner, turn, memory>>

\* prune(before): any settled row may be old enough.  Mappings and tombstones
\* stay.
Prune(m) ==
  /\ proc \in Opened
  /\ Prunable(m)
  /\ tasks' = [tasks EXCEPT ![m] = "none"]
  /\ phase' = [phase EXCEPT ![m] = "none"]
  /\ stopped' = [stopped EXCEPT ![m] = FALSE]
  /\ cancelRequested' = [cancelRequested EXCEPT ![m] = FALSE]
  /\ publication' = [publication EXCEPT ![m] = "none"]
  /\ UNCHANGED <<tombstones, mapping, agent, owner, turn, memory>>

Attach ==
  /\ proc = "open"
  /\ proc' = "serving"
  /\ UNCHANGED <<journal, agent, toRecover, resolving, crashes, turn, memory>>

\* bridge.close(): admission ends and every active turn is aborted.
Close ==
  /\ proc = "serving"
  /\ proc' = "closing"
  /\ abort' = [m \in Messages |-> abort[m] \/ pc[m] \in Running]
  /\ UNCHANGED <<journal, agent, toRecover, resolving, crashes,
                 pc, outcome, ahead, draft, memory>>

\* Mutant: a failed publication does not keep the owner.
DrainedTurns ==
  /\ \A m \in Messages : pc[m] = "idle" /\ phase[m] # "unresolved"
  /\ quarantine = {} /\ cancelling = {}

\* drain and the pending requests: what makes a close complete.
Drained ==
  /\ \A m \in Messages : pc[m] = "idle" /\ phase[m] # "unresolved"
  /\ quarantine = {} /\ finalizationFailures = {} /\ cancelling = {}

\* A process that is gone holds nothing in memory.
ClearMemory ==
  /\ pc' = [m \in Messages |-> "idle"]
  /\ outcome' = [m \in Messages |-> "none"]
  /\ abort' = [m \in Messages |-> FALSE]
  /\ ahead' = [m \in Messages |-> {}]
  /\ draft' = [m \in Messages |-> NoDraft]
  /\ quarantine' = {} /\ finalizationFailures' = {} /\ cancelling' = {}
  /\ bus' = {}
  /\ toRecover' = {} /\ resolving' = None

\* closePush: push delivery (PushDelivery) has ended in what is left of the
\* deadline, or it has not.
ClosePush == BOOLEAN

\* A complete close releases the owner and closes the storage.
ReleaseOwner ==
  /\ proc = "closing"
  /\ \E pushEnded \in ClosePush : pushEnded /\ Drained
  /\ proc' = "down"
  /\ ClearMemory
  /\ UNCHANGED <<journal, agent, crashes>>

\* The deadline comes first: the owner is kept until the process dies.
CloseIncomplete ==
  /\ proc = "closing"
  /\ \E pushEnded \in ClosePush : ~(pushEnded /\ Drained)
  /\ proc' = "stuck"
  /\ UNCHANGED <<journal, agent, toRecover, resolving, crashes, turn, memory>>

\* The operator stops a process whose close was incomplete.
Terminate ==
  /\ proc = "stuck"
  /\ proc' = "down"
  /\ ClearMemory
  /\ UNCHANGED <<journal, agent, crashes>>

\* close() of a binding no bridge is attached to.
CloseBinding ==
  /\ proc = "open"
  /\ proc' = "down"
  /\ ClearMemory
  /\ UNCHANGED <<journal, agent, crashes>>

\* The process dies; the operating system frees the owner lock.
Crash ==
  /\ proc # "down"
  /\ crashes < MaxCrashes
  /\ crashes' = crashes + 1
  /\ proc' = "down"
  /\ ClearMemory
  /\ UNCHANGED <<journal, agent>>

(***************************************************************************)
(* The specification.                                                      *)
(***************************************************************************)

Admit(m) == Execute(m) \/ ExecuteRefused(m) \/ ExecuteClosed(m) \/ AbandonReserved(m)
            \/ AcceptCommit(m) \/ AcceptRefused(m)
            \/ Dispatched(m) \/ DispatchRefused(m)
RunTurn(m) == Enqueue(m) \/ WaitCancelled(m) \/ BeginTurn(m) \/ BeforeTurn(m)
              \/ SessionReady(m) \/ BeforeSend(m) \/ RecordIntent(m)
              \/ Send(m) \/ SendThrows(m)
              \/ TurnCancelled(m) \/ TurnRefused(m)
              \/ TurnStopped(m) \/ TurnStoppedFails(m)
              \/ TurnUnresolved(m) \/ TurnUnresolvedFails(m) \/ Unlock(m)
StreamOver(m) == StreamSucceeds(m) \/ StreamFails(m)
Stream(m) == StreamOver(m) \/ ObserveRead(m) \/ ObserveWrite(m)
Publish(m) == Conclude(m) \/ PublishIntent(m) \/ PublishFails(m) \/ SdkSave(m)
Consume(m) == ConsumerFails(m) \/ ConsumerEnds(m)
Cancel(m) == CancelRefused(m) \/ CancelAbort(m) \/ CancelInterrupted(m)
             \/ CancelMissingBus(m)
Recover(m) == RecoverSkip(m) \/ RecoverPublication(m) \/ RecoverAttempt(m)

TurnStep(m) == Admit(m) \/ RunTurn(m) \/ Stream(m) \/ Publish(m) \/ Consume(m)
Request(m) == Reserve(m) \/ CancelIntent(m) \/ Cancel(m)
Operate(m) == ResolveStart(m) \/ ResolveCommit(m) \/ ResolveFails(m) \/ Prune(m)
LifeCycle == Open \/ Recovered \/ Attach \/ Close \/ ReleaseOwner
             \/ CloseIncomplete \/ Terminate \/ CloseBinding \/ Crash

Next == \/ \E m \in Messages : \/ Request(m) \/ TurnStep(m)
                               \/ Recover(m) \/ Operate(m) \/ RemoteFinish(m)
        \/ LifeCycle

Spec == Init /\ [][Next]_vars

\* The event loop runs every continuation of a turn, streams end or break, and
\* a process that is down is started again, finishes its recovery and bounds its
\* close.  (The steps under one WF exclude each other.)  Clients, the operator,
\* the remote agent and the decision to close owe nothing.
Fairness ==
  /\ \A m \in Messages :
       WF_vars(Admit(m) \/ RunTurn(m) \/ StreamOver(m) \/ Publish(m))
  /\ WF_vars(\/ Open \/ Recovered \/ ReleaseOwner \/ CloseIncomplete
             \/ \E m \in Messages : Recover(m))

FairSpec == Spec /\ Fairness
=============================================================================
