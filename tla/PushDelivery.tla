---------------------------- MODULE PushDelivery -----------------------------
(***************************************************************************)
(* Push notifications of one task (push.ts, createPushNotifications): the  *)
(* sends of a task are chained, each posts the event to every registered   *)
(* callback with retries and a deadline, and close() aborts them and waits *)
(* for the transports they have left behind, for a time.                   *)
(*                                                                         *)
(* A transport may ignore its abort: it stays open after the delivery that *)
(* started it has ended, and its response body is canceled when it comes.  *)
(***************************************************************************)
EXTENDS Naturals

CONSTANTS
  Sends,        \* the events of the task, numbered in the order they are published
  None,
  Configs,      \* the number of callbacks registered for the task
  RetryCount

ASSUME ConfigsAssumption == Configs \in Nat /\ RetryCount \in Nat
ASSUME SendsAssumption == Sends \subseteq Nat /\ None \notin Sends

VARIABLES
  pc,           \* where each send is
  previous,     \* the link of the chain it waits for
  chain,        \* chains.get(key): the last link, or None
  config,       \* the callback a send is at
  attempt,      \* and the attempt
  controller,   \* none, armed or aborted
  transports,   \* <<send, config, attempt>>: a lifecycle that has not settled
  response,     \* what the transport a send waits for has come to
  closing       \* open, waiting, complete or incomplete

chaining == <<previous, chain>>
delivery == <<config, attempt, controller, response>>
vars == <<pc, chaining, delivery, transports, closing>>

Places == {"idle", "queued", "loading", "next", "attempt", "racing", "backoff", "done"}

TypeOK ==
  /\ pc \in [Sends -> Places]
  /\ previous \in [Sends -> Sends \cup {None}] /\ chain \in Sends \cup {None}
  /\ config \in [Sends -> 0..Configs + 1]
  /\ attempt \in [Sends -> 0..RetryCount + 2]
  /\ controller \in [Sends -> {"none", "armed", "aborted"}]
  /\ transports \subseteq Sends \X (1..Configs) \X (1..RetryCount + 1)
  /\ response \in [Sends -> {"none", "ok", "transient", "permanent"}]
  /\ closing \in {"open", "waiting", "complete", "incomplete"}

Init ==
  /\ pc = [s \in Sends |-> "idle"]
  /\ previous = [s \in Sends |-> None] /\ chain = None
  /\ config = [s \in Sends |-> 0] /\ attempt = [s \in Sends |-> 0]
  /\ controller = [s \in Sends |-> "none"]
  /\ transports = {}
  /\ response = [s \in Sends |-> "none"]
  /\ closing = "open"

closed == closing # "open"
Goto(s, from, to) == pc[s] = from /\ pc' = [pc EXCEPT ![s] = to]
Current(s) == <<s, config[s], attempt[s]>>

\* send(): behind the last link.
Send(s) ==
  /\ ~closed /\ Goto(s, "idle", "queued")
  /\ \A q \in Sends : q < s => pc[q] # "idle"
  /\ previous' = [previous EXCEPT ![s] = chain] /\ chain' = s
  /\ UNCHANGED <<delivery, transports, closing>>

\* "Never remove a waiting link early."
UnlinkLast(s) == chain' = IF chain = s THEN None ELSE chain
EndSend(s) == /\ pc' = [pc EXCEPT ![s] = "done"] /\ UnlinkLast(s) /\ UNCHANGED previous

\* Mutant: the link before is awaited only while it is being delivered.
WaitsForPost(s) == previous[s] # None /\ pc[previous[s]] = "racing"
Waits(s) == previous[s] # None /\ pc[previous[s]] # "done"
\* dispatch(): the callbacks are loaded.
Dispatch(s) ==
  /\ pc[s] = "queued" /\ ~Waits(s)
  /\ IF closed THEN EndSend(s)
     ELSE Goto(s, "queued", "loading") /\ UNCHANGED chaining
  /\ UNCHANGED <<delivery, transports, closing>>
\* They have been, or that has failed, or the host's policy rejects one.
Loaded(s) ==
  /\ Goto(s, "loading", "next") /\ config' = [config EXCEPT ![s] = 1]
  /\ UNCHANGED <<chaining, attempt, controller, response, transports, closing>>
Rejected(s) ==
  /\ pc[s] \in {"loading", "next"} /\ EndSend(s)
  /\ UNCHANGED <<delivery, transports, closing>>

\* The next callback gets a controller and a deadline.
NextConfig(s) ==
  /\ pc[s] = "next" /\ ~closed /\ config[s] <= Configs
  /\ Goto(s, "next", "attempt")
  /\ controller' = [controller EXCEPT ![s] = "armed"]
  /\ attempt' = [attempt EXCEPT ![s] = 1]
  /\ UNCHANGED <<chaining, config, response, transports, closing>>
LastConfig(s) ==
  /\ pc[s] = "next" /\ (closed \/ config[s] > Configs) /\ EndSend(s)
  /\ UNCHANGED <<delivery, transports, closing>>
\* finally: the deadline and the controller of the callback are gone.
EndConfig(s) ==
  /\ pc' = [pc EXCEPT ![s] = "next"]
  /\ config' = [config EXCEPT ![s] = @ + 1]
  /\ controller' = [controller EXCEPT ![s] = "none"]

Stopped(s) == controller[s] = "aborted" \/ closed \/ attempt[s] > RetryCount + 1
Post(s) ==
  /\ ~Stopped(s) /\ Goto(s, "attempt", "racing")
  /\ transports' = transports \cup {Current(s)}
  /\ response' = [response EXCEPT ![s] = "none"]
  /\ UNCHANGED <<chaining, config, attempt, controller, closing>>
NoAttempt(s) ==
  /\ pc[s] = "attempt" /\ Stopped(s) /\ EndConfig(s)
  /\ UNCHANGED <<chaining, attempt, response, transports, closing>>

\* External: the callback answers, or the network fails (transient).
Respond(s) ==
  /\ pc[s] = "racing" /\ response[s] = "none" /\ Current(s) \in transports
  /\ \E r \in {"ok", "transient", "permanent"} : response' = [response EXCEPT ![s] = r]
  /\ UNCHANGED <<pc, chaining, config, attempt, controller, transports, closing>>
\* The lifecycle of a transport settles: its body is canceled, or it has failed.
Settle(x) ==
  /\ x \in transports
  /\ pc[x[1]] = "racing" /\ x = Current(x[1]) => response[x[1]] # "none"
  /\ transports' = transports \ {x}
  /\ UNCHANGED <<pc, chaining, delivery, closing>>

\* Mutant: an abort is not raced against a transport that ignores it.
AbortedAnswer(s) ==
  /\ pc[s] = "racing" /\ controller[s] = "aborted" /\ response[s] # "none"
  /\ EndConfig(s)
  /\ UNCHANGED <<chaining, attempt, response, transports, closing>>
Aborted(s) ==
  /\ pc[s] = "racing" /\ controller[s] = "aborted"
  /\ EndConfig(s)
  /\ UNCHANGED <<chaining, attempt, response, transports, closing>>

Answered(s) == pc[s] = "racing" /\ controller[s] # "aborted" /\ response[s] # "none"
Retryable(s) == response[s] = "transient" /\ attempt[s] <= RetryCount
\* Delivered, or failed for good.
Finished(s) ==
  /\ Answered(s) /\ ~Retryable(s) /\ EndConfig(s)
  /\ UNCHANGED <<chaining, attempt, response, transports, closing>>
Retry(s) ==
  /\ Answered(s) /\ Retryable(s) /\ Goto(s, "racing", "backoff")
  /\ UNCHANGED <<chaining, delivery, transports, closing>>
\* The delay is over, or cut short by the abort.
Again(s) ==
  /\ Goto(s, "backoff", "attempt") /\ attempt' = [attempt EXCEPT ![s] = @ + 1]
  /\ UNCHANGED <<chaining, config, controller, response, transports, closing>>

Timeout(s) ==
  /\ controller[s] = "armed" /\ controller' = [controller EXCEPT ![s] = "aborted"]
  /\ UNCHANGED <<pc, chaining, config, attempt, response, transports, closing>>

Close ==
  /\ ~closed /\ closing' = "waiting"
  /\ controller' = [s \in Sends |-> IF controller[s] = "armed" THEN "aborted" ELSE controller[s]]
  /\ UNCHANGED <<pc, chaining, config, attempt, response, transports>>
\* Mutant: chains are not counted.
CloseCountsTransports ==
  /\ closing = "waiting"
  /\ closing' = IF transports = {} THEN "complete" ELSE "incomplete"
  /\ UNCHANGED <<pc, chaining, delivery, transports>>
\* What was pending has settled, or the time is over.
CloseReturns ==
  /\ closing = "waiting"
  /\ closing' = IF transports = {} /\ chain = None THEN "complete" ELSE "incomplete"
  /\ UNCHANGED <<pc, chaining, delivery, transports>>

Step(s) ==
  \/ Dispatch(s) \/ Loaded(s) \/ Rejected(s) \/ NextConfig(s) \/ LastConfig(s)
  \/ Post(s) \/ NoAttempt(s) \/ Aborted(s) \/ Finished(s) \/ Retry(s) \/ Again(s)
Next ==
  \/ \E s \in Sends : Send(s) \/ Step(s) \/ Respond(s) \/ Timeout(s)
  \/ \E x \in transports : Settle(x)
  \/ Close \/ CloseReturns

Spec == Init /\ [][Next]_vars
\* Local steps and timers happen; callbacks need not answer.
FairSpec ==
  Spec /\ \A s \in Sends : WF_vars(Step(s)) /\ WF_vars(Timeout(s))
=============================================================================
