----------------------------- MODULE InvokerProps ----------------------------
(***************************************************************************)
(* What Invoker guarantees, and the inductive invariant behind it.         *)
(***************************************************************************)
EXTENDS Invoker

\* A failure that says that no submission was attempted is safe to retry: the
\* message has not arrived and never will.
SafeToRetry ==
  pc = "done" /\ ~attempted /\ kind \in Senders => ~got /\ "send" \notin net

\* A caller sees no snapshot before the hook has taken it: what invoke returns
\* or a stream delivers can be found again after a crash.
JournaledFirst ==
  (pc = "yield" \/ outcome \in {"result", "end"}) /\ kind \in Senders =>
    journaled = known

\* Accepted work is not forgotten: whoever fails, times out or leaves asks for
\* its cancellation, unless no time at all is left.
AbandonedIsCanceled ==
  pc = "done" /\ outcome \in {"failed", "left"} /\ kind \in Senders /\ ~stopped =>
    \/ asked \/ clock = 2
    \/ known = None /\ ~accepted

\* Nobody else's work is canceled: not that of a subscription, and not work
\* that has been reported as finished.
CancelsOwnWork ==
  asked => kind \in Senders /\ accepted /\ outcome \in {"failed", "left"}

\* A reported cancellation was read back, never assumed.
CancellationIsReadBack == cancellation = "canceled" => task = "canceled"

\* The operation ends although nobody ever answers it; only a consumer that
\* does not come back keeps a stream open.
Ends == pc \notin {"done", "yield"} ~> pc \in {"done", "yield"}

(***************************************************************************)
(* The invariant that makes these inductive.                               *)
(***************************************************************************)

\* Where each kind of operation can be, and with what outcome.
PlaceInv ==
  /\ kind = "invoke" => pc \notin {"open", "read", "reading", "yield", "close", "ask"}
  /\ kind # "invoke" => pc \notin {"send", "sent", "sleep", "poll"}
  /\ kind = "read" => pc \in {"connect", "ask", "done"}
  /\ pc = "ask" => kind = "read"
  /\ pc \in Awaits \cup {"yield"} <=> outcome = "none"

\* The message is on its way or there only if that is on record, and a task is
\* known only if it is owned.
RequestInv ==
  /\ ~attempted /\ kind \in Senders => ~got /\ "send" \notin net
  /\ ~got <=> task = None
  /\ pc \in {"sent", "hook", "sleep", "poll", "reading", "yield"}
       => attempted \/ kind \notin Senders
  /\ known # None => accepted /\ known # "message" /\ task # "message"
  /\ accepted => got /\ task # "message"
  /\ pc \in {"connect", "send", "sent", "open"} => ~accepted
  /\ pc \in {"hook", "sleep", "poll"} => accepted
  /\ pc \in {"connect", "send", "open"} => ~attempted
  /\ "send" \in net => ~got

\* The cancellation concerns work that is owned.
CleanupInv ==
  /\ pc \in {"cancel", "cancelling"} => CleanupFirst /\ outcome \in {"failed", "left"}
  /\ pc = "cancelling" => asked
  /\ asked => CleanupFirst /\ outcome \in {"failed", "left"}
  /\ ~asked => "cancel" \notin net /\ cancellation = None

\* What will have been canceled at the end is so on the way there.
AbandonInv ==
  pc \in {"close", "done"} /\ outcome \in {"failed", "left"} /\ kind \in Senders
    /\ ~stopped => asked \/ clock = 2 \/ ~accepted

\* The hook has taken every snapshot but the one it is at.
JournalInv ==
  kind \in Senders /\ (pc \in (Awaits \cup {"yield"}) \ {"hook"} \/ outcome \in {"result", "end"})
    => journaled = known

IInv ==
  /\ TypeOK /\ PlaceInv /\ RequestInv /\ CleanupInv /\ AbandonInv
  /\ JournalInv /\ CancellationIsReadBack
=============================================================================
