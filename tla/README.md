# letta-a2a in TLA+

A verification project for [letta-a2a](../src): specifications of the parts that
carry its guarantees, TLC configurations that check them on small instances, and
proofs that hold for every instance. Paths below are relative to `src/`.

## The system

letta-a2a lets A2A clients talk to Letta agents, and Letta agents to A2A peers. A
**bridge** accepts A2A messages and runs each as one turn of a Letta
conversation; a **client** gives a Letta agent tools that send messages to
remote agents. A Letta agent served by the bridge may use the client's tools, so
turns call turns.

    A2A caller -> request handler -> (A2A SDK) -> executor -> turn runner -> App Server -> Letta agent
                        |                |            |           |                            |
                        +----------------+-- durable binding -----+ (SQLite)                   | a tool call
                                         |                                                     v
                                         +-- push delivery -> receiver        session -> tool service -> invoker -> remote agent
                                                                                 (context store: lock files, journal)

| part | state | operations | hard behaviour | what makes it correct |
|---|---|---|---|---|
| request handler, `packages/letta-a2a-bridge/src/bridge.ts` | messages, submissions, cancellations under way; pending requests; closed | send, stream, cancel, close | reservation after awaits; cancel against continuation; disconnects; close against late calls | one execution per message; complete close means quiet |
| executor, `letta-agent-executor.ts` | active tasks, executions, interruptions, finalization failures | execute, cancel, close, drain | which outcome may be reported; a publication that fails or is never acknowledged; a canceled interruption | outcomes are honest; the owner is kept while anything is unaccounted for |
| turn runner, `letta-agent.ts` | tail promise per context, quarantined contexts, conversation cache | runTurn, context lock | cancellation while queued or sending; ambiguous sends; broken streams | turns of a context do not overlap; sent but unknown means quarantined |
| durable binding, `durable-binding.ts` | execution rows, publications, mappings, message tombstones | accept, dispatch, turn hooks, publication, save, cancel, recover, resolve, prune, attach, close | death between any two writes; failed writes; stale rows | at most one send; the fence holds until the turn is known to be over |
| storage, `sqlite-store.ts` | two SQLite files: owner lock and state | transaction, records, tasks | atomicity, one owner | assumed by the binding |
| push delivery, `push.ts` | chain per task, registrations, controllers, open transports | send, close | retries, timeouts, transports that ignore their abort | one delivery of a task at a time; a complete close left no connection |
| context store, `packages/letta-a2a-client/src/context-store.ts` | map of values, tails or lock files | get, set, withLock | cancellation, several processes, orphaned locks | mutual exclusion, no lost update |
| tool service, `tool-service.ts`, `tool-operations.ts` | submission journal per binding and per context; calls under way | invoke, get, cancel, close | death between two writes; late callbacks; two nested locks; answers that win races against their work | no submission behind an unaccounted one; honest reports of bounded size |
| invoker, `a2a-invoker.ts`, `operation.ts` | one operation, its deadline | invoke, stream, subscribe, cancel | deadline against late answers, cancellation and its readback | safe to retry means safe; abandoned work is canceled |
| session of tools, `agent-sdk.ts`, `mod-controller.ts`, `mods/a2a-client.ts` | owner signal, calls, close | call, abort, close | bounded close over work that still holds locks | a close that succeeds is quiet |
| bridge service, `services/bridge/src` | sessions, exchange in flight, hop, shutdown | turn, tool call, token, exit | calls into a context already held; exit with calls in flight | chains of Letta agents are bounded, everything ends, exit 0 is honest |
| reference agent, `services/reference-agent` | notification ledger, outbound token | task, exchange, record | queued exchange, duplicates, order | the furthest state is shown |

The rest (authorization policy, text conversion, configuration, token
verification with a library, examples, live scripts, the ADK agent, the gateway
configuration) is stateless or wiring. `PROJECT.json` lists every component with
its status, and every hazard at the line where it bites with the properties
that would catch it.

## Modules

Each component has a model, a `...Props` module with its properties and its
inductive invariant, a `..._proofs` module with the theorems, and an `MC...`
module with its instance.

| model | what it is | composed with, or refines |
|---|---|---|
| `DurableTurns` | the durable path: handler, executor, runner and binding of one bridge process, its deaths and restarts | implements `ConversationInputs`: an input is submitted once, and alone |
| `ContextLock` | the lock per context made of promises (`letta-agent.ts:235-285`, `context-store.ts:38-69`) | implements `ContextQueue`, whose actions `DurableTurns` uses |
| `BridgeRequests` | admission by the request handler and the executor around the SDK, without durability: starts, continuations, duplicates, streams, cancellations, close | |
| `PushDelivery` | the chain of deliveries of one task, their retries and transports, and close | `PushToLedger` composes it with the receiver, `NotificationLedger` |
| `FileStore` | the store in one file with lock files, several processes and their deaths | the exclusive locks `ToolService` takes for granted |
| `Invoker` | one operation of the invoker under its deadline, racing every await | its contract is what `ToolService` assumes of it |
| `ToolService` | the submission journal of an invocation, its two locks and the queue of task writes | |
| `ToolCalls` | the calls of a session: work, answer, abort, bounded close and drain | extends `ToolProjection`, the size of the report as a function of the result's shape |
| `Delegation` | agents that call agents: turns, contexts, hops, calls, the end of the process | extends `TokenCache`, the two providers of access tokens |

In every model an action stands for the code between two awaits, on the side of
the process that executes it. `PROJECT.json` maps each definition to its lines.

### DurableTurns

The state has four layers, and what a process death does to them is the heart
of the model:

* **journal** (`phase`, `stopped`, `cancelRequested`, `publication`, `tasks`,
  `tombstones`, `mapping`): the rows of `state.sqlite`. SQLite is synchronous, so
  a write or transaction is one step; it survives everything.
* **agent** (`remote`, `sends`): whether the input of a message runs behind the
  App Server, and a count of `session.send`. Recovery cannot look at it.
* **owner** (`proc`, `toRecover`, `resolving`): down, recovering, open, serving,
  closing, stuck (close was incomplete). Only one process holds the owner lock.
* **turn** and **memory** (`pc`, `outcome`, `abort`, `ahead`, `draft`,
  `quarantine`, `finalizationFailures`, `cancelling`, `bus`): lost with the process.

A message goes `reserved -> accepting -> accepted -> dispatched -> waiting ->
admitted -> preparing -> ready -> checked -> intent -> streaming -> settled |
failing -> unlocking -> returned -> reducing -> published -> idle`; each arrow is
an action, each may fail the way the code lets it fail, and `Crash` may fall
between any two. `draft` holds the fields of a row read before an await and
written back after it.

A turn may come to `interrupted` (input or authorization required): its row is
settled and its task is not final. `CancelInterrupted` then publishes that row once
more, as canceled, the one way out of a settled attempt but pruning.

`bus` are the tasks whose event bus the SDK still consumes. A consumer whose save
fails takes the bus with it (`ConsumerFails`), after which nobody acknowledges the
publication. A cancellation that finds no bus is carried out by the SDK alone,
which saves `CANCELED` (`CancelMissingBus`, `docs/LETTA_A2A_CONTRACTS.md:82`); the
guard of `bridge.ts:335-351` keeps it from tasks nobody executes, not from an active
one whose consumer has failed. The SDK also answers an `execute()` that throws
with a `FAILED` task of its own (`Synthesize`), which goes through `taskStore.save`
without a count, has no row, and is deleted by no `prune`.

Text, run ids and sizes of rows are left out; a message names a fresh task, and a
task that waits for input is canceled here but not continued (continuations are
`BridgeRequests`); one operator resolves one attempt at a time, and verified
evidence is taken at its word (`ResolveStart` requires that the remote turn is
over), as is a successful result of the agent. `Open` validates the rows (`Valid`
keeps the one check that relates two of their fields), and whether push delivery
ends in time (`ClosePush`) is either way.

### ContextLock

A call reads the tail of its key, chains its own tail to it, stores it, waits,
works, opens its gate; tails settle, and the reaction that deletes the map entry
runs later. `AbortedEnter` selects the runner (an aborted call enters the queue
and leaves at once) or the client's memory store (it is refused before).

### BridgeRequests

A request goes `policy -> loaded -> reserved -> sdk`, a cancellation `policy ->
loaded -> canceling -> waiting`; admission is checked after each await and the
reservation made in one step (`Reserve`, `AdmitCancel`); `CanResume` is the
executor's, which a closed one refuses. The SDK is external: it
calls `execute`, pulls the executor's events and stores them (`Consume`), goes on
behind an answer (`ConsumeBehind`), and cancels by itself what it has no event
bus for (`SdkCancel`). A stream may be left (`Disconnect`); a detached loop then
pulls its events. `old` are tasks an earlier process left in the task store.
`Close`, `RequestsClosed`, `BeginRecheck`, `Recheck` are the parts of `close()`.

### PushDelivery, NotificationLedger

Sends are numbered in the order they are published and chained by `previous`. A
delivery arms a controller, opens a transport, waits for the response or for the
abort, backs off and tries again, callback by callback. A transport settles on
its own time, also after the delivery that opened it has given up; `close` counts
chains and transports. In `PushToLedger` a request that was opened may arrive at
the receiver once, at any time before its transport settles, and an `ok` means it
has arrived; retries make duplicates, abandoned transports make late arrivals.

### FileStore, Invoker

`FileStore`: a lock file is created, given its token, read back and unlinked in
separate steps; a process may die and a write may fail at each; the operator
(`Recover`) removes a lock file that nobody uses, as the error message demands.
`Invoker`: one operation of one kind: invoke, stream, subscribe, or `read`, any single
call of the protocol. `clock` is 0 while working, 1 past the work deadline (cancellation
still has time), 2 past the deadline; `net` are requests whose caller may be gone
but which may arrive. What an await was waiting for goes on by itself.

### ToolService, ToolCalls, ToolProjection

`ToolService`: the binding is journaled under the lock of the scope, the record of
the context under that of the context, then the message is submitted; snapshots
are queued (`queue`, `half`) and written to both. A failed attempt is rolled back
only when the invoker says nothing was submitted. If the signal aborts between
journal and submission (`tool-service.ts:364` throws an untyped error) nothing is
rolled back and the scope stays blocked until a readback: safe, and modelled.
The agent may answer a continuation with a direct Message (`AnswerDirectly`): its
task goes on waiting, and the record the answer leaves names no task (`Completed`),
so that the next invocation reads nothing back.

`ToolCalls`: the answer of a call is a race of its work with its deadline and the
signals of the call, session and service. The work that lost goes on (`work`)
until locks and writes are done, or until a lock or a record fails it (`GiveUp`); a
close waits for the work each signal owns,
for a time. `host` is `sdk` (a session) or `mod` and never changes.
`ToolProjection` computes the size of a report on a rung of the ladder, at its
largest: every list longer than the rung's count and every string longer than its
limit, so that each carries its note on what was cut, and every character of the
remote's a control character, six in JSON. `Results` keeps what is left to decide:
a Message or a Task, how many of its parts are texts, what the others are.

### Delegation, TokenCache

A turn of a Letta agent queues for its context, runs, may call another agent one
hop further or the reference agent, and closes its session, which aborts its call. A
task of the reference agent may call a Letta agent, always with hop 1
(`outbound.py:169`): the count of a chain that passes through it begins again. The
called turn may name the
context the caller holds: each then waits for the other, until a timer fires. In
`TokenCache` the callers of the `shared` provider join one exchange that none of
them can abort; those of the `locked` one queue, look at the cache again, and
exchange for themselves. `Shutdown`, `Exit` and `Kill` end the process.

## Properties and runs

| run | instance | properties and the question they answer |
|---|---|---|
| `crash` | 2 messages of 1 context, 1 death, failing writes | `AtMostOneSend`: `session.send` once per message across retries, deaths, recovery, pruning. `NoOverlap`: a conversation never runs two inputs, even if the first was sent by a process that died. `HonestOutcome`: completed, interrupted or canceled is said only of a turn that is over, but for the SDK's own cancellation (exception 1). `SettledForever`: nothing rewrites a done attempt whose task is final, and only a cancellation one that waits for input. `CleanRelease`: a close that releases the owner leaves no work in the journal. `ImplementsInputs`: refinement |
| `settles` | 2 messages of 1 context, room for both or for one, 1 death | `AttemptSettles`: every turn returns, every attempt ends done or fenced, whatever was cancelled or failed in front of it |
| `cancel_intent` | 1 message, 1 death | finding 1 |
| `lock` | 4 calls, 2 keys | `NoOvertaking` ("A active; queued B canceled; C must not overtake A", `docs/LETTA_A2A_CONTRACTS.md:90`), `ImplementsQueue`, `AbortedLeaves`, `WaiterServed`, `EntryRemoved` |
| `store` | 2 calls in 2 processes, over 1 or 2 keys | `KeyExclusion`, `UpdatesKept` (no replacement of the map takes back another call's update), `CallEnds` |
| `invoke` | every kind of operation | `SafeToRetry`: "no submission attempted" stays true. `AbandonedIsCanceled`: accepted work that is abandoned is asked to stop. `Ends`: although nobody answers |
| `tool` | 2 invocations of 1 or 2 scopes, after an earlier one that gave up or whose task waits to be continued, 1 context learned or known, 1 abort, deaths | `NoBlindSubmission`: nothing is sent while a submission the journal covers may still arrive or is unfinished (exception 2). `FinalStays`: late snapshots never reopen a task. `Settles`: the nested locks are released |
| `tool_death` | the same without abort | finding 2 |
| `requests` | 3 sends (a start, a continuation and its duplicate, each with another kind of answer), 2 tasks, one possibly left by an earlier process, a cancellation of each | `ExecutedOnce`, `ReservationsHeld`, `TerminalStays`: continuation, cancellation and duplicate race. `EventsAreConsumed`: also when the client leaves. `CompleteIsQuiet`: a complete close |
| `push` | 2 notifications, 1 callback, 1 retry each | `OneAtATime`, `CompleteIsQuiet`, `SendEnds`; `OrderFree`: the receiver shows the furthest state it was told of |
| `tool_calls` | 2 invocations that need one lock, 1 cancellation, both hosts | `HonestReport`, `CloseMeansQuiet`, `CallsEnd`; `NeverOmitted`: every report fits on some rung of the ladder, the largest takes 15 848 of 16 000 characters |
| `delegation` | 3 turns, 2 contexts, `MaximumHops` 1 | `ChainBounded`: no more than `MaximumHops` delegations to Letta agents in a row (exception 3); `ExitIsHonest`, `OneExchange`; `TurnsEnd`: also when a turn waits for its own context |

Each property of a passing run has a mutant: an operator beside the definition it
replaces (comment `Mutant:`), a plausible bug under which TLC finds the property
violated.

### Bounds

`MaxCrashes` bounds deaths in `DurableTurns`; `TaskLimit` and `JournalLimit` are
`maxTasks` and `maxJournalEntries`, guards of the code; `StorageFaults` lets
journal writes throw. Two messages of one context are what overlap, order,
fencing and the admission race need; the second stands for any other. `settles`
begins after an earlier message (`MCInit`): it was pruned, so that there is room for a
turn to queue behind the other, or it was refused and its `FAILED` task takes the room
of one, so that the two contend. In `crash` and `settles` the view `Visible` leaves out
`cancelRequested`, which no guard reads and only `cancel_intent` is about. One death
splits the life of an attempt into before and after, and recovery is idempotent
on what it has settled (`SettledForever`). Three calls of a lock are holder,
canceled waiter and successor, the shape in which a promise chain breaks; the
fourth is of another key. In `push` the task has one callback: that nothing is
begun for a further one after a close is `QuietClose`'s proof, for any number of them
(`Configs`). Two calls in two processes are enough for a lost update, as an update is lost to one other. Two notifications with a retry give
overtaking, duplicates and late arrivals. Three turns are a chain one longer
than `MaximumHops` allows, a Letta agent on both sides of the reference agent, and a
turn behind another in a context. Local scopes differ in name only, so `tool` looks at one assignment of each shape
(`Scopings`). In `delegation` a request names a context in use or the first
unused one, since unused ones are alike. A task is canceled by one request. The
proofs remove these bounds for the safety properties they cover.

### Fairness

Nothing is assumed of clients, operators, remote agents, callbacks, or of the
success of anything.

* `DurableTurns!Fairness`: the event loop runs each continuation of a turn; a
  stream ends or breaks, which the App Server and the session owe; a supervisor
  starts the process again and recovery goes on; `close` ends, by its timeout at
  the latest. Liveness is checked with succeeding writes (`StorageFaults` is `FALSE` in
  `settles`): after a failed save of the terminal task the turn waits for an
  acknowledgment that never comes, until the process is stopped.
* `ContextLock!LoopFairness`: the event loop alone; work may go on for ever.
  `WaiterServed` and `EntryRemoved` name what they need beyond it (`WorkEnds`).
* `FileStore!FairSpec`: a file operation begun by a live call ends, and timers and
  aborts fire; a lock that is polled for is promised to nobody.
* `Invoker!FairSpec`, `PushDelivery!FairSpec`, `ToolCalls!FairSpec`: timers fire and
  local continuations run; no peer, callback, lock or disk answers.
* `ToolService!FairSpec`: the invoker ends (`Invoker!Ends`), file operations end
  (`FileStore!CallEnds`), a lock that is free is taken by its waiter.
* `Delegation!FairSpec`: each turn's timer fires and its runner ends an aborted turn.

Deadlock is checked for `DurableTurns`. The other instances are finite sets of
requests, calls or operations that run out, so their runs do not check it.

### Findings

1. `observe` (`durable-binding.ts:181-204`) and `publication` (477-492) read the
   execution row, await the reducer and write the whole row back. A
   `requestCancellation` that commits in between is undone, although
   `docs/DURABLE_RECOVERY.md:59` says that a cancellation's "persisted intent
   survives restart". The window is short: the reducer awaits memory only, so the
   cancellation's own continuation has to run in the same turn of the event loop.
   No outcome is at stake, only the record an operator reads.
2. `tool-service.ts:239` says that "The binding is also a recovery journal if a
   process died between the two writes." It is one for the scope that died: another
   scope with the same context compares the context's record with its own binding,
   finds nothing pending and submits beside the unaccounted message.

### Exceptions

Where the code does less than its promise suggests, the property names the case:

1. `HonestOutcome`: after a failed save an active task has no bus, and the SDK saves
   its cancellation while the input may still run. The turn is still active then, or
   its context is among the failed finalizations, so that no close is complete and no
   owner released; the next recovery writes what the row knows over it.
2. `NoBlindSubmission`: a task that waits for input is forgotten by the record of its
   context once a direct Message has answered its continuation, and the next
   invocation submits without naming it, though the client's `README.md:29` wants a
   `taskId` for an interrupted task.
3. `ChainBounded`: Letta, reference agent, Letta begins again at hop 1. With the limit
   of one the service is shipped with no chain has three calls (`ShortestLimit`);
   with two or more, a chain that passes through the reference agent is not bounded.
4. `TaskBound` is about accepted attempts. The `FAILED` tasks the SDK saves for
   refused requests fill the store beyond `maxTasks`, and count against it.

## Proofs

Eight modules, one per component with a safety argument of its own, checked by
TLAPS from the named assumptions on the constants only. In each the invariants
the runs check are not inductive, and `IInv` is, with one lemma per part and in it
one step per action.

* `DurableTurns_proofs`: thirteen parts. `PhaseInv` ties the position of a turn to its
  row, `LockInv` orders the turns of a context, `SendInv` says what a row without a
  send looks like, `StopInv` and `HonestInv` that what is recorded as stopped is
  over, `BusInv` whose events the SDK consumes, `RecoverInv` is about recovery and
  resolution half way, `MappingInv` makes conversations private to a context. `FenceInv` is the argument for `NoOverlap`
  and the refinement: a running input is in the hands of the turn that holds the
  lock, or its context is quarantined in memory, or its row fences it. `RowInv`
  ties a row to its task, and `ReleaseInv` says that in an opened journal an attempt
  without a turn is settled or fenced, or its context is on the list of failed
  finalizations: a close that has drained finds neither, which is `CleanRelease`.
  `JournalReopens`: no journal is refused by the validation that opens it, or
  stops a recovery for want of a task. `AttemptsBounded` has an invariant of its own
  (`BoundInv`): the one step that accepts an attempt more compares the count of the
  tasks again in the same transaction (`AttemptsStep`), and every attempt has a task.
* `ContextStore_proofs`, about both halves of the client's store. Of `ContextLock`:
  `TailInv` (the map entry covers every arrival), `ChainInv` (the awaited tail covers
  all earlier arrivals), `SettledInv` (a tail settles after them), and from them that
  the chain implements `ContextQueue`. `earlier` is a history variable, read by no
  guard. Of `FileStore`: `HoldInv`, the lock files a live call uses are its own;
  `FreshInv`, what it has read under a lock is still true. A call of a dead process
  keeps a lock but takes no step, which is why both speak of live calls.
* `Invoker_proofs`: what each place implies about the request, the ownership of the
  task, the journal and the cancellation.
* `BridgeRequests_proofs`: `MessageInv` and `ClaimInv` (a continuation that is not
  executed yet has its task to itself), `TurnInv` (a task has one turn and is shown
  working), `OldInv` (nobody has an event bus for what an earlier process left),
  `DrainInv` (what close has waited for). `TerminalIsFinal` follows from `ClaimInv`
  and `TurnInv`: only a turn that holds its task publishes.
* `PushDelivery_proofs`: `ChainInv`, a send is delivered behind the end of all earlier
  ones. `DeliveryIsUsed` proves that the composition implements the delivery, so
  that its theorems hold there; `FurthestState` is proved of the composition.
* `ToolService_proofs`: the covering relation spans the records of several messages,
  and a task's records lie about without being on disk: `base` and `previous` are
  what a caller read before. So `RecordInv` is about every record, stored or held:
  it says what the agent has said, or that nothing is known of it (`TaskInv`,
  `LearnerInv`: what a context and a task are known by). `BindingInv`, `LockInv` and
  `ContextInv` say whose records the two locks' holders leave there, `NetInv` that a
  message under way has been journaled, `QueueInv` that queued snapshots are in the
  order they were said. `LearnInv`: a context an agent has just named is nobody else's
  yet. `ReadyInv`: who has read back under both locks knows what is open; `CoverInv`:
  in a context that its record names, nothing is open but what that record names;
  `AnchorInv`: a scope whose context was learned is bound to its last message.
  `NothingBlind` is the guard of the submission with `ReadyInv` and `CoverInv`;
  `FinalRecords` needs `QueueInv`, since a late snapshot could undo a final one.
  `AnsweredInv`: a continuation that was answered directly has no task of its own, and the
  one it continued does not work again before the answer is recorded.
* `ToolCalls_proofs`: `CutInv` (work that is answered before its end has been cut),
  `SentInv` (the attempt is noted before the message leaves), `EndedInv` (a session
  that has ended begins nothing, and its drain knows its work), `ContentInv` (what a
  report holds). `ReportsFit` is the arithmetic: the size of a report on the last rung
  is bounded field by field, for every shape of a result and with six characters of
  JSON for each of the remote's, from `Names`, the lengths of the fields' names, which
  TLC compares with the names (`NamesAssumption`); `NothingDropped` puts it under the
  specification.
* `Delegation_proofs`: `CacheInv` (an exchange is under way exactly while its flag is
  set or its lock held), `CallInv` (only a turn at work calls), `HopInv` (a callee is
  one hop further than its caller), `LimitInv` (only a turn that may delegate has a call).
  `BoundedChains` follows along a chain of Letta agents, by the least place at which
  the hop would be too small; `ShortestLimit` is about chains of both kinds.

Proved and not repeated by a run, where the proof says more than an instance
would: type correctness of the models above, `SettledMeansStopped`,
`NothingForgotten`, `TaskBound`, `JournalReopens`, `ConversationStable`, `ShortChains`, `MutualExclusion`, `JournaledFirst`,
`CancelsOwnWork`, `CancellationIsReadBack`, `OrphansAreLeft`, `LinksKept` (part of an
invariant), `NothingSentAfterEnd`, `NoWastedExchange`, `SessionIsQuiet`.

Only model-checked: liveness, which is out of the prover's reach, as are `ENABLED`
and induction over data. Every safety and action property of a run that passes is
stated by a theorem.

## Not modelled

* SQL, schema, file formats, parsing and validation; authorization, verification of
  tokens, text conversion, configuration, logging: pure, or I/O.
* Two resolutions of one attempt at a time (`durable-binding.ts:568`): the documented
  procedure has one operator, and `DurableTurns` runs one.
* A runner without durability beyond its lock; resubscription to a task.
* The Python sender of notifications (`push_notifications.py:179`), a second
  implementation of what `PushDelivery` models, with other timeouts; the scripted
  replies of the reference agent; the legacy context map of the bridge service.
* Reports of a host that names its targets with control characters, or keeps its
  store under such a path: `config.ts:54` restricts the names of routes to letters,
  digits and three signs, and a host that uses the library directly is on its own.
* The continuation of an interrupted task over the journal; `BridgeRequests` continues
  tasks, without rows.
* Examples, live scripts, the ADK agent, the gateway configuration: fixtures without
  logic of their own.
