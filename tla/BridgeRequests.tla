---------------------------- MODULE BridgeRequests ----------------------------
(***************************************************************************)
(* Admission of requests by the bridge: BridgeRequestHandler (bridge.ts)   *)
(* and LettaAgentExecutor, around the official SDK's request handler and a *)
(* task store, in the profile without durability (with it: DurableTurns).  *)
(*                                                                         *)
(* A send starts a task or continues one; a cancellation aborts the turn   *)
(* of a task or ends an interrupted task.  Each suspends at its awaits, so *)
(* that it checks again, and reserves, in one synchronous step before the  *)
(* SDK is entered.  close() drains what has been admitted.                 *)
(***************************************************************************)
CONSTANTS
  Sends, Cancels, Tasks,
  TaskOf,       \* the task of a request
  New,          \* sends that start their task
  MessageOf,    \* message IDs, the same for a duplicate
  KindOf        \* blocking, immediate or stream

Requests == Sends \cup Cancels
ASSUME RequestsAssumption == Sends \cap Cancels = {} /\ New \subseteq Sends
ASSUME TaskOfAssumption == TaskOf \in [Requests -> Tasks]
ASSUME NewAssumption == \A r, s \in New : TaskOf[r] = TaskOf[s] => r = s
ASSUME KindOfAssumption == KindOf \in [Sends -> {"blocking", "immediate", "stream"}]

VARIABLES
  pc,             \* where a request is
  seen,           \* the state of its task when it was loaded
  held,           \* pending: requests and detached consumers close waits for
  messages, submissions, cancellations,   \* the reservations
  turn,           \* none, running, over or rejected, for each send
  active, interrupted, aborted,           \* activeTasks, interrupted, signals
  shown,          \* the last state published for a task
  stored,         \* and what the task store has of it
  old,            \* tasks an earlier process has left in the store
  closing,        \* open, draining, recheck, complete or incomplete
  drained         \* requests.complete: unknown, yes or no

reservations == <<messages, submissions, cancellations>>
executor == <<turn, active, interrupted, aborted>>
store == <<shown, stored, old>>
shutdown == <<closing, drained>>
vars == <<pc, seen, held, reservations, executor, store, shutdown>>

Terminal == {"completed", "failed", "canceled"}
States == Terminal \cup {"none", "working", "interrupted"}
InSdk == {"sdk", "draining", "canceling", "waiting"}

TypeOK ==
  /\ pc \in [Requests -> {"idle", "policy", "loaded", "reserved", "behind", "done"}
                         \cup InSdk]
  /\ seen \in [Requests -> States]
  /\ held \subseteq Requests
  /\ messages \subseteq {MessageOf[r] : r \in Sends}
  /\ submissions \subseteq Tasks /\ cancellations \subseteq Tasks
  /\ turn \in [Sends -> {"none", "running", "over", "rejected"}]
  /\ active \subseteq Tasks /\ interrupted \subseteq Tasks /\ aborted \subseteq Sends
  /\ shown \in [Tasks -> States] /\ stored \in [Tasks -> States] /\ old \subseteq Tasks
  /\ closing \in {"open", "draining", "recheck", "complete", "incomplete"}
  /\ drained \in {"unknown", "yes", "no"}

\* The store may hold what an earlier process was at; the executor is empty.
Init ==
  /\ pc = [r \in Requests |-> "idle"] /\ seen = [r \in Requests |-> "none"]
  /\ held = {} /\ messages = {} /\ submissions = {} /\ cancellations = {}
  /\ turn = [r \in Sends |-> "none"]
  /\ active = {} /\ interrupted = {} /\ aborted = {}
  /\ old \in SUBSET (Tasks \ {TaskOf[r] : r \in New})
  /\ stored \in [Tasks -> {"none", "working", "interrupted"}]
  /\ \A t \in Tasks : stored[t] = "none" <=> t \notin old
  /\ shown = stored
  /\ closing = "open" /\ drained = "unknown"

closed == closing # "open"
Running == {r \in Sends : turn[r] = "running"}     \* executions
Goto(r, from, to) == pc[r] = from /\ pc' = [pc EXCEPT ![r] = to]
\* finally { done(); }
Leave(r) == pc' = [pc EXCEPT ![r] = "done"] /\ held' = held \ {r}

\* enter(): assertOpen() and hold().
Enter(r) ==
  /\ ~closed /\ Goto(r, "idle", "policy")
  /\ held' = held \cup {r}
  /\ UNCHANGED <<seen, reservations, executor, store, shutdown>>
\* policy.context() and the validation of the request.
Denied(r) ==
  /\ pc[r] = "policy" /\ Leave(r)
  /\ UNCHANGED <<seen, reservations, executor, store, shutdown>>
\* assertOpen() after the await, then the task is loaded.
Load(r) ==
  /\ pc[r] = "policy"
  /\ IF closed \/ (r \notin New /\ stored[TaskOf[r]] = "none")
     THEN Leave(r) /\ UNCHANGED seen
     ELSE /\ Goto(r, "policy", "loaded") /\ UNCHANGED held
          /\ seen' = [seen EXCEPT ![r] = stored[TaskOf[r]]]
  /\ UNCHANGED <<reservations, executor, store, shutdown>>

CanResume(t) == ~closed /\ t \in interrupted \ active
\* Mutant: cancellations are not looked at.
UnlessActive(t) == t \in submissions \cup active
Busy(t) == t \in submissions \cup cancellations \cup active
Continuable(r) == CanResume(TaskOf[r]) /\ seen[r] = "interrupted"
Admissible(r) ==
  /\ MessageOf[r] \notin messages
  /\ r \in New \/ (~Busy(TaskOf[r]) /\ Continuable(r))
\* "Recheck and reserve synchronously after ownership lookup": a send that is
\* refused leaves no reservation.
Reserve(r) ==
  /\ r \in Sends /\ pc[r] = "loaded"
  /\ IF ~closed /\ Admissible(r)
     THEN /\ Goto(r, "loaded", "reserved") /\ UNCHANGED held
          /\ messages' = messages \cup {MessageOf[r]}
          /\ submissions' = IF r \in New THEN submissions ELSE submissions \cup {TaskOf[r]}
     ELSE Leave(r) /\ UNCHANGED <<messages, submissions>>
  /\ UNCHANGED <<seen, cancellations, executor, store, shutdown>>

\* Mutant: the error path keeps the reservation, or the message is forgotten.
KeepSubmission(r) == UNCHANGED <<messages, submissions>>
ReleaseAll(r) ==
  submissions' = submissions \ {TaskOf[r]} /\ messages' = messages \ {MessageOf[r]}
\* The message stays reserved for good.
Release(r) ==
  /\ submissions' = IF r \in New THEN submissions ELSE submissions \ {TaskOf[r]}
  /\ UNCHANGED messages

\* assertOpen() for the last time, then the SDK is entered.  The stream's check
\* is outside of its try, and leaves the reservation.
Start(r) ==
  /\ IF closed
     THEN /\ pc[r] = "reserved" /\ Leave(r)
          /\ IF KindOf[r] = "stream" THEN UNCHANGED <<messages, submissions>> ELSE Release(r)
     ELSE Goto(r, "reserved", "sdk") /\ UNCHANGED <<held, messages, submissions>>
  /\ UNCHANGED <<seen, cancellations, executor, store, shutdown>>

Publish(t, s) == shown' = [shown EXCEPT ![t] = s]
\* execute(), called by the SDK; the SDK publishes FAILED for a rejection.
Execute(r) ==
  /\ r \in Sends /\ pc[r] \in InSdk /\ turn[r] = "none"
  /\ IF closed \/ TaskOf[r] \in active
     THEN /\ turn' = [turn EXCEPT ![r] = "rejected"]
          /\ Publish(TaskOf[r], "failed")
          /\ UNCHANGED <<active, interrupted>>
     ELSE /\ turn' = [turn EXCEPT ![r] = "running"]
          /\ active' = active \cup {TaskOf[r]}
          /\ interrupted' = interrupted \ {TaskOf[r]}
          /\ Publish(TaskOf[r], "working")
  /\ UNCHANGED <<pc, seen, held, reservations, aborted, stored, old, shutdown>>
\* executeTurn settles: an aborted turn is canceled, unless it has failed.
EndTurn(r) ==
  /\ r \in Running
  /\ turn' = [turn EXCEPT ![r] = "over"]
  /\ active' = active \ {TaskOf[r]}
  /\ \E s \in (IF r \in aborted THEN {"canceled", "failed"}
               ELSE {"completed", "interrupted", "failed"}) :
       /\ Publish(TaskOf[r], s)
       /\ interrupted' = IF s = "interrupted" THEN interrupted \cup {TaskOf[r]} ELSE interrupted
  /\ UNCHANGED <<pc, seen, held, reservations, aborted, stored, old, shutdown>>

\* External: the SDK's ResultManager stores what has been published.
Persist(t) == stored' = [stored EXCEPT ![t] = shown[t]]
\* It returns to a blocking caller, or ends a stream, when the task has stopped;
\* an immediate caller has the first snapshot, the rest is consumed behind it.
Stops(t) == shown[t] # "working"
Consume(r) ==
  LET t == TaskOf[r] IN
  /\ r \in Sends /\ pc[r] \in {"sdk", "draining"} /\ turn[r] # "none"
  /\ Persist(t)
  /\ IF KindOf[r] = "immediate" \/ Stops(t)
     THEN /\ pc' = [pc EXCEPT ![r] = IF Stops(t) THEN "done" ELSE "behind"]
          /\ held' = held \ {r} /\ Release(r)
     ELSE UNCHANGED <<pc, held, messages, submissions>>
  /\ UNCHANGED <<seen, cancellations, executor, shown, old, shutdown>>
ConsumeBehind(r) ==
  /\ Stops(TaskOf[r]) /\ Goto(r, "behind", "done") /\ Persist(TaskOf[r])
  /\ UNCHANGED <<seen, held, reservations, executor, shown, old, shutdown>>

\* Mutant: nobody pulls the events of the stream.
DisconnectOnly(r) ==
  /\ r \in Sends /\ KindOf[r] = "stream" /\ pc[r] = "sdk" /\ turn[r] # "none"
  /\ Leave(r)
  /\ UNCHANGED <<seen, reservations, executor, store, shutdown>>
\* The consumer of a stream returns at an event: a detached loop pulls the rest,
\* held before the request itself is done.
Disconnect(r) ==
  /\ r \in Sends /\ KindOf[r] = "stream" /\ turn[r] # "none"
  /\ Goto(r, "sdk", "draining") /\ held' = held \cup {r}
  /\ UNCHANGED <<seen, reservations, executor, store, shutdown>>

Cancelable(k) ==
  seen[k] \in {"working", "interrupted"} => TaskOf[k] \in active \/ CanResume(TaskOf[k])
AdmitCancel(k) ==
  LET t == TaskOf[k] IN
  /\ k \in Cancels /\ pc[k] = "loaded"
  /\ IF t \notin cancellations /\ (t \in submissions => t \in active) /\ Cancelable(k)
     THEN /\ Goto(k, "loaded", "canceling") /\ UNCHANGED held
          /\ cancellations' = cancellations \cup {t}
     ELSE Leave(k) /\ UNCHANGED cancellations
  /\ UNCHANGED <<seen, messages, submissions, executor, store, shutdown>>

Finish(k) == Leave(k) /\ cancellations' = cancellations \ {TaskOf[k]}
\* External: the SDK has an event bus for what runs, waits or is not stored yet.
HasBus(t) == t \in active \cup interrupted \/ stored[t] # shown[t]
\* It refuses to cancel what is over, and cancels what has no bus itself.
SdkCancel(k) ==
  LET t == TaskOf[k]
      s == IF stored[t] \in Terminal THEN stored[t] ELSE "canceled" IN
  /\ k \in Cancels /\ pc[k] = "canceling" /\ (HasBus(t) => stored[t] \in Terminal)
  /\ Finish(k)
  /\ stored' = [stored EXCEPT ![t] = s]
  /\ shown' = IF HasBus(t) THEN shown ELSE [shown EXCEPT ![t] = s]
  /\ UNCHANGED <<seen, messages, submissions, executor, old, shutdown>>
\* executor.cancelTask(): the turn is aborted, or the interrupted task ended.
ExecutorCancel(k) ==
  LET t == TaskOf[k] IN
  /\ k \in Cancels /\ HasBus(t) /\ stored[t] \notin Terminal /\ Goto(k, "canceling", "waiting")
  /\ aborted' = aborted \cup {r \in Running : TaskOf[r] = t}
  /\ IF t \in interrupted \ active
     THEN interrupted' = interrupted \ {t} /\ Publish(t, "canceled")
     ELSE UNCHANGED <<interrupted, shown>>
  /\ UNCHANGED <<seen, held, reservations, turn, active, stored, old, shutdown>>
ConsumeCancel(k) ==
  /\ pc[k] = "waiting" /\ Stops(TaskOf[k])
  /\ Persist(TaskOf[k]) /\ Finish(k)
  /\ UNCHANGED <<seen, messages, submissions, executor, shown, old, shutdown>>

\* close(): no admission, every turn aborted, what is pending waited for.
Close ==
  /\ ~closed /\ closing' = "draining"
  /\ aborted' = aborted \cup Running
  /\ UNCHANGED <<pc, seen, held, reservations, turn, active, interrupted, store, drained>>
\* The requests are done, or the timer has fired.
RequestsClosed ==
  /\ closing = "draining" /\ drained = "unknown"
  /\ drained' = IF held = {} THEN "yes" ELSE "no"
  /\ UNCHANGED <<pc, seen, held, reservations, executor, store, closing>>
\* Turns, push and requests have ended or timed out: turns are aborted again.
BeginRecheck ==
  /\ closing = "draining" /\ drained # "unknown"
  /\ closing' = "recheck" /\ aborted' = aborted \cup Running
  /\ UNCHANGED <<pc, seen, held, reservations, turn, active, interrupted, store, drained>>
\* Mutant: the result of the first drain of the executor is used.
RecheckNothing ==
  /\ closing = "recheck"
  /\ closing' = IF drained = "yes" THEN "complete" ELSE "incomplete"
  /\ UNCHANGED <<pc, seen, held, reservations, executor, store, drained>>
\* recheckClose(): they have ended, or the rest of the time is over.
Recheck ==
  /\ closing = "recheck"
  /\ closing' = IF Running = {} /\ active = {} /\ drained = "yes" THEN "complete" ELSE "incomplete"
  /\ UNCHANGED <<pc, seen, held, reservations, executor, store, drained>>

Handle(r) ==
  \/ Enter(r) \/ Denied(r) \/ Load(r) \/ Reserve(r) \/ Start(r) \/ Execute(r) \/ EndTurn(r)
  \/ Consume(r) \/ ConsumeBehind(r) \/ Disconnect(r)
  \/ AdmitCancel(r) \/ SdkCancel(r) \/ ExecutorCancel(r) \/ ConsumeCancel(r)
Next ==
  \/ \E r \in Requests : Handle(r)
  \/ Close \/ RequestsClosed \/ BeginRecheck \/ Recheck

Spec == Init /\ [][Next]_vars
=============================================================================
