------------------------------- MODULE Invoker -------------------------------
(***************************************************************************)
(* One operation of PollingA2AInvoker (a2a-invoker.ts) under the deadline  *)
(* of its Operation (operation.ts): invoke sends a message and polls,      *)
(* stream sends it and reads events, subscribe reads the events of a task, *)
(* read is any single call of the protocol (connect, getTask, cancelTask). *)
(*                                                                         *)
(* Every await is raced against the signal of the operation.  What it was  *)
(* waiting for goes on by itself: a request may arrive after the caller    *)
(* has gone.  The remote agent is external.                                *)
(***************************************************************************)
EXTENDS Naturals

CONSTANT None   \* no task, no snapshot

ASSUME NoneAssumption ==
  None \notin {"working", "interrupted", "completed", "canceled", "message"}

\* The operations that submit a message, and those about a task that is there.
Senders == {"invoke", "stream"}
Kinds == Senders \cup {"subscribe", "read"}

VARIABLES
  kind,         \* which operation
  pc,           \* the await it is at
  clock,        \* 0 working, 1 past the work deadline, 2 past the deadline
  caller,       \* the caller's signal is aborted
  attempted,    \* execution.submissionAttempted
  accepted,     \* execution.acceptedId is set
  known,        \* execution.task: the last snapshot
  journaled,    \* the last snapshot that onTask has taken
  stopped,      \* the last event of the stream was of a stopped task
  asked,        \* CancelTask has been called
  cancellation, \* execution.cancellation
  outcome,      \* what the caller got
  net,          \* requests on their way
  got,          \* the remote agent has the message
  task          \* the remote task

work == <<attempted, accepted, known, journaled, stopped>>
cleanup == <<asked, cancellation>>
remote == <<net, got, task>>
vars == <<kind, pc, clock, caller, work, cleanup, outcome, remote>>

Stopped == {"interrupted", "completed", "canceled"}
TaskState == {"working"} \cup Stopped
Places == {"connect", "send", "sent", "hook", "sleep", "poll", "open", "read",
           "reading", "ask", "yield", "cancel", "cancelling", "close", "done"}
Awaits == Places \ {"yield", "cancel", "cancelling", "close", "done"}

TypeOK ==
  /\ kind \in Kinds /\ pc \in Places /\ clock \in 0..2
  /\ caller \in BOOLEAN /\ attempted \in BOOLEAN /\ accepted \in BOOLEAN
  /\ stopped \in BOOLEAN /\ asked \in BOOLEAN /\ got \in BOOLEAN
  /\ known \in TaskState \cup {None} /\ journaled \in TaskState \cup {None}
  /\ cancellation \in TaskState \cup {None}
  /\ outcome \in {"none", "result", "end", "left", "failed"}
  /\ net \subseteq {"send", "cancel"}
  /\ task \in TaskState \cup {None, "message"}

Init ==
  /\ kind \in Kinds /\ pc = "connect" /\ clock = 0 /\ caller = FALSE
  /\ attempted = FALSE /\ accepted = FALSE /\ stopped = FALSE
  /\ known = None /\ journaled = None
  /\ asked = FALSE /\ cancellation = None /\ outcome = "none"
  /\ net = {} /\ got = (kind \notin Senders)
  /\ task = IF kind \notin Senders THEN "working" ELSE None

\* run() checks the clock and the signal before the work and after it.
InTime == clock = 0 /\ ~caller
Goto(from, to) == InTime /\ pc = from /\ pc' = to /\ UNCHANGED <<kind, clock, caller>>
Finished(from, result) == Goto(from, "done") /\ outcome' = result

\* Where an operation goes once it has a client.
FirstStep == CASE kind = "invoke" -> "send"
               [] kind = "read"   -> "ask"
               [] OTHER           -> "open"

\* The client is discovered: the card, its endpoints, the transport.
Connected ==
  /\ Goto("connect", FirstStep)
  /\ UNCHANGED <<work, cleanup, outcome, remote>>

\* Mutant: the attempt is only noted with the answer.
SendQuietly ==
  /\ Goto("send", "sent")
  /\ net' = net \cup {"send"}
  /\ UNCHANGED <<work, cleanup, outcome, got, task>>
Send ==
  /\ Goto("send", "sent")
  /\ attempted' = TRUE /\ net' = net \cup {"send"}
  /\ UNCHANGED <<accepted, known, journaled, stopped, cleanup, outcome, got, task>>

\* Mutant: the task is owned only when the hook has returned.
AcceptLater == known' = task /\ UNCHANGED accepted
\* accept(): the identity is pinned and the task is owned before onTask runs.
Accept == known' = task /\ accepted' = TRUE

SentMessage ==
  /\ task = "message" /\ Finished("sent", "result")
  /\ UNCHANGED <<work, cleanup, remote>>
SentTask ==
  /\ got /\ task # "message"
  /\ Goto("sent", "hook") /\ Accept
  /\ UNCHANGED <<attempted, journaled, stopped, cleanup, outcome, remote>>

\* onTask returns.  A stopped task is the result of invoke; a stream yields.
HookReturns ==
  /\ journaled' = IF kind \in Senders THEN known ELSE journaled
  /\ \/ kind = "invoke" /\ known \in Stopped /\ Finished("hook", "result")
     \/ kind = "invoke" /\ known \notin Stopped /\ Goto("hook", "sleep") /\ UNCHANGED outcome
     \/ kind # "invoke" /\ Goto("hook", "yield") /\ UNCHANGED outcome
  /\ UNCHANGED <<attempted, accepted, known, stopped, cleanup, remote>>

Slept == Goto("sleep", "poll") /\ UNCHANGED <<work, cleanup, outcome, remote>>
Polled ==
  /\ Goto("poll", "hook") /\ Accept
  /\ UNCHANGED <<attempted, journaled, stopped, cleanup, outcome, remote>>

\* The iterator is lazy: the message leaves with the first read.
Opened == Goto("open", "read") /\ UNCHANGED <<work, cleanup, outcome, remote>>
Read ==
  /\ Goto("read", "reading")
  /\ attempted' = (attempted \/ kind = "stream")
  /\ net' = IF kind = "stream" /\ ~attempted THEN net \cup {"send"} ELSE net
  /\ UNCHANGED <<accepted, known, journaled, stopped, cleanup, outcome, got, task>>

TaskEvent ==
  /\ got /\ task # "message" /\ Goto("reading", "hook") /\ Accept
  /\ stopped' = (task \in Stopped)
  /\ UNCHANGED <<attempted, journaled, cleanup, outcome, remote>>
\* Status and artifact updates pin the identity; only a status may stop.
StatusEvent ==
  /\ got /\ task # "message" /\ Goto("reading", "yield")
  /\ accepted' = TRUE /\ stopped' = (task \in Stopped)
  /\ UNCHANGED <<attempted, known, journaled, cleanup, outcome, remote>>
ArtifactEvent ==
  /\ got /\ task # "message" /\ Goto("reading", "yield")
  /\ accepted' = TRUE
  /\ UNCHANGED <<attempted, known, journaled, stopped, cleanup, outcome, remote>>
MessageEvent ==
  /\ task = "message" /\ Goto("reading", "yield")
  /\ UNCHANGED <<work, cleanup, outcome, remote>>
EndOfStream ==
  /\ got /\ Goto("reading", "close") /\ outcome' = "end"
  /\ UNCHANGED <<work, cleanup, remote>>

\* A single call has no cleanup: its answer is the caller's.
ReadAnswered ==
  /\ got /\ Finished("ask", "result")
  /\ UNCHANGED <<work, cleanup, remote>>

\* The consumer asks for the next event, whenever it likes.
Resume ==
  /\ pc = "yield" /\ pc' = "read"
  /\ UNCHANGED <<kind, clock, caller, work, cleanup, outcome, remote>>

\* Only work that was sent here and accepted is canceled.
CleanupFirst == kind \in Senders /\ accepted
Afterwards == IF kind \in {"invoke", "read"} THEN "done" ELSE "close"

\* The consumer leaves the stream early.
Break ==
  /\ pc = "yield" /\ outcome' = "left"
  /\ pc' = IF CleanupFirst /\ ~stopped THEN "cancel" ELSE "close"
  /\ UNCHANGED <<kind, clock, caller, work, cleanup, remote>>

\* An await rejects, by itself or because the signal is aborted or time is up.
Fail ==
  /\ outcome' = "failed"
  /\ pc' = IF CleanupFirst THEN "cancel" ELSE Afterwards
  /\ UNCHANGED <<kind, clock, caller, work, cleanup, remote>>
Reject == pc \in Awaits \ {"connect"} /\ Fail
\* No client: the card does not come within the discovery budget, or names an
\* endpoint that the origin or the policy of the route does not allow.
Undiscovered == pc = "connect" /\ Fail
\* The answer is about another task or context: it is refused before any of it
\* is pinned, kept or handed on.
Misidentified ==
  /\ InTime /\ pc \in {"sent", "poll", "reading", "ask"}
  /\ got /\ Fail
Interrupt == ~InTime /\ (Reject \/ Undiscovered)

\* CancelTask has a budget of its own, inside the deadline.
Cancel ==
  /\ pc = "cancel" /\ clock < 2
  /\ asked' = TRUE /\ net' = net \cup {"cancel"} /\ pc' = "cancelling"
  /\ UNCHANGED <<kind, clock, caller, work, cancellation, outcome, got, task>>
CancelTooLate ==
  /\ pc = "cancel" /\ clock = 2 /\ pc' = Afterwards
  /\ UNCHANGED <<kind, clock, caller, work, cleanup, outcome, remote>>
Canceled ==
  /\ pc = "cancelling" /\ clock < 2 /\ "cancel" \notin net
  /\ cancellation' = task /\ pc' = Afterwards
  /\ UNCHANGED <<kind, clock, caller, work, asked, outcome, remote>>
\* Mutant: the cleanup waits for its answer.
CancelAnswered ==
  /\ pc = "cancelling" /\ "cancel" \notin net /\ pc' = Afterwards
  /\ UNCHANGED <<kind, clock, caller, work, cleanup, outcome, remote>>
\* The budget ends, or the request fails.
CancelFails ==
  /\ pc = "cancelling" /\ pc' = Afterwards
  /\ UNCHANGED <<kind, clock, caller, work, cleanup, outcome, remote>>

\* The operation is closed; return() of the iterator is called, and waited for
\* as long as the budget allows.
Close ==
  /\ pc = "close" /\ pc' = "done"
  /\ UNCHANGED <<kind, clock, caller, work, cleanup, outcome, remote>>

Tick ==
  /\ pc # "done" /\ clock < 2 /\ clock' = clock + 1
  /\ UNCHANGED <<kind, pc, caller, work, cleanup, outcome, remote>>
CallerAborts ==
  /\ pc # "done" /\ ~caller /\ caller' = TRUE
  /\ UNCHANGED <<kind, pc, clock, work, cleanup, outcome, remote>>

client == <<kind, pc, clock, caller, work, cleanup, outcome>>

\* External: the remote agent receives requests, late ones too, and works.  The
\* CancelTask of a read is the caller's wish and concerns nobody here.
RemoteReceives ==
  /\ "send" \in net /\ net' = net \ {"send"} /\ got' = TRUE
  /\ task' \in {"working", "message"}
  /\ UNCHANGED client
RemoteCancels ==
  /\ "cancel" \in net /\ net' = net \ {"cancel"}
  /\ \/ UNCHANGED task
     \/ task \in {"working", "interrupted"} /\ task' = "canceled"
  /\ UNCHANGED <<client, got>>
RemoteWorks ==
  /\ task = "working"
  /\ \/ task' \in {"interrupted", "completed"}
     \/ kind = "read" /\ task' = "canceled"
  /\ UNCHANGED <<client, net, got>>

Next ==
  \/ Connected \/ Send \/ SentMessage \/ SentTask \/ HookReturns \/ Slept \/ Polled
  \/ Opened \/ Read \/ TaskEvent \/ StatusEvent \/ ArtifactEvent
  \/ MessageEvent \/ EndOfStream \/ ReadAnswered \/ Resume \/ Break
  \/ Reject \/ Undiscovered \/ Misidentified
  \/ Cancel \/ CancelTooLate \/ Canceled \/ CancelFails \/ Close
  \/ Tick \/ CallerAborts \/ RemoteReceives \/ RemoteCancels \/ RemoteWorks

Spec == Init /\ [][Next]_vars

\* Timers fire and the event loop runs; nobody else is trusted to answer.
FairSpec ==
  /\ Spec /\ WF_vars(Tick) /\ WF_vars(Interrupt) /\ WF_vars(Cancel)
  /\ WF_vars(CancelTooLate) /\ WF_vars(CancelFails) /\ WF_vars(Close)
=============================================================================
