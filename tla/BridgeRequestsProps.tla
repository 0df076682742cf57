------------------------- MODULE BridgeRequestsProps -------------------------
(***************************************************************************)
(* What the admission of requests guarantees, and the inductive invariant  *)
(* behind it.                                                              *)
(***************************************************************************)
EXTENDS BridgeRequests

\* The official handler is never made to run a task again after its end has been
\* published, by a continuation that races with a cancellation or another one.
\* (After close the FAILED of a rejected execution may still race with CANCELED.)
TerminalStays ==
  [][\A t \in Tasks : shown[t] \in Terminal /\ ~closed => shown'[t] = shown[t]]_vars

\* A message is executed at most once, however often and however it is sent.
ExecutedOnce ==
  \A r, s \in Sends : turn[r] # "none" /\ turn[s] # "none" /\ MessageOf[r] = MessageOf[s] => r = s

\* A reservation is that of a request on its way: a refused, finished or
\* disconnected one does not block the continuation or the cancellation of a task.
Holds(r, t) == TaskOf[r] = t /\ pc[r] \in {"reserved"} \cup InSdk
ReservationsHeld ==
  closing = "open" =>
    /\ \A t \in submissions : \E r \in Sends \ New : Holds(r, t)
    /\ \A t \in cancellations : \E k \in Cancels : Holds(k, t)

\* "Never let the SDK's missing-bus fallback assert remote cancellation after
\* restart": what an earlier process has left is never called canceled.
OrphansAreLeft == \A t \in old : stored[t] \notin Terminal

\* "Do not release storage using an earlier empty snapshot": after a complete
\* close no turn runs and no request is left that could start one.  (The SDK's own
\* loop behind an immediate answer may still store the end of its turn.)
CompleteIsQuiet ==
  closing = "complete" => Running = {} /\ held = {} /\ \A r \in Requests : pc[r] \notin InSdk

\* What the executor has published is stored: as long as the store is behind, a
\* request or the loop behind a stream its client has left still pulls the events.
Pulls(r) == pc[r] \in {"sdk", "draining", "behind", "waiting"}
EventsAreConsumed ==
  \A t \in Tasks : stored[t] # shown[t] => \E r \in Requests : TaskOf[r] = t /\ Pulls(r)

(***************************************************************************)
(* The inductive invariant, in named parts.                                *)
(***************************************************************************)

\* Sends and cancellations go their own ways; what is pending is held.
PlaceInv ==
  /\ \A r \in Requests : pc[r] \in {"policy", "loaded", "reserved"} \cup InSdk => r \in held
  /\ \A r \in Sends :
       /\ pc[r] \notin {"canceling", "waiting"}
       /\ turn[r] # "none" => pc[r] \in {"sdk", "draining", "behind", "done"}
       /\ turn[r] = "running" => pc[r] # "done"
       /\ pc[r] \in {"draining", "behind"} => turn[r] # "none"
  /\ \A k \in Cancels : pc[k] \notin {"reserved", "sdk", "draining", "behind"}

\* A message that was admitted is reserved for good.
Admitted(r) == pc[r] \in {"reserved", "sdk"} \/ turn[r] # "none"
MessageInv ==
  /\ \A r \in Sends : Admitted(r) => MessageOf[r] \in messages
  /\ \A r, s \in Sends :
       Admitted(r) /\ Admitted(s) /\ MessageOf[r] = MessageOf[s] => r = s

\* What close has found drained stays so.
DrainInv ==
  /\ drained # "unknown" => closed
  /\ drained = "yes" => held = {}
  /\ closing = "complete" => drained = "yes" /\ Running = {}

\* The executor of this process knows nothing of a task it was left.
OldInv ==
  \A t \in old :
    /\ t \notin active \cup interrupted /\ shown[t] = stored[t]
    /\ stored[t] \in {"working", "interrupted"}
    /\ \A r \in Requests : TaskOf[r] = t =>
         /\ r \notin New /\ pc[r] \in {"idle", "policy", "loaded", "done"}
         /\ r \in Sends => turn[r] = "none"
         /\ pc[r] = "loaded" => seen[r] \in {"working", "interrupted"}

\* Before its first execution nobody knows of a new task.
NewInv ==
  \A r \in New : turn[r] = "none" =>
    /\ shown[TaskOf[r]] = "none" /\ stored[TaskOf[r]] = "none"
    /\ TaskOf[r] \notin active \cup interrupted
    /\ \A q \in Requests \ {r} : TaskOf[q] = TaskOf[r] =>
         pc[q] \in {"idle", "policy", "done"} /\ (q \in Sends => turn[q] = "none")

\* One continuation and one cancellation of a task are admitted at a time; a
\* continuation that is not executed yet has the task to itself.
Continuing(r) == r \in Sends \ New /\ pc[r] \in {"reserved", "sdk", "draining"}
Canceling(k) == k \in Cancels /\ pc[k] \in {"canceling", "waiting"}
ClaimInv ==
  /\ \A r \in Sends : Continuing(r) => TaskOf[r] \in submissions
  /\ \A k \in Cancels : Canceling(k) => TaskOf[k] \in cancellations
  /\ \A r, s \in Sends : Continuing(r) /\ Continuing(s) /\ TaskOf[r] = TaskOf[s] => r = s
  /\ \A k, l \in Cancels : Canceling(k) /\ Canceling(l) /\ TaskOf[k] = TaskOf[l] => k = l
  /\ \A r \in Sends : Continuing(r) /\ turn[r] = "none" =>
       /\ TaskOf[r] \notin active
       /\ ~closed => TaskOf[r] \in interrupted \ cancellations

\* A task has one turn, and is shown working while it runs.
TurnInv ==
  /\ \A r \in Running : TaskOf[r] \in active
  /\ \A r, s \in Running : TaskOf[r] = TaskOf[s] => r = s
  /\ \A t \in active : shown[t] = "working"
  /\ ~closed => \A t \in interrupted : shown[t] = "interrupted"

IInv ==
  /\ TypeOK /\ PlaceInv /\ MessageInv /\ DrainInv /\ OldInv /\ NewInv /\ ClaimInv /\ TurnInv
  /\ ReservationsHeld /\ EventsAreConsumed
=============================================================================
