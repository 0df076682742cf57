--------------------------- MODULE ToolCallsProps ---------------------------
(***************************************************************************)
(* What the tools of a session promise to their agent and to their host,   *)
(* and the inductive invariant behind it.                                  *)
(***************************************************************************)
EXTENDS ToolCalls

\* A call that was answered "submissionAttempted": false never has its message
\* sent, then or later: the work that goes on behind the answer checks its
\* signal before it submits (tool-service.ts:364, operation.ts:8).
HonestReport ==
  \A c \in sent : pc[c] = "answered" => report[c].attempted

\* Once the owner of the tools has ended, no message leaves, although work
\* already begun still takes its locks and writes its journal
\* (agent-sdk.ts:41, tool-service.ts:540).
NothingSentAfterEnd == [][ended # {} => sent' = sent]_vars

\* A close that reports success leaves no call and no write of the session's
\* behind (agent-sdk.ts:65): the calls were answered by their abort, but their
\* work was still holding locks then.
CloseMeansQuiet ==
  host = "sdk" /\ closing = "closed" => \A c \in Calls : pc[c] # "running" /\ ~Pending(c)

\* However long the strings and lists of a result, and though a remote peer fills
\* its strings with characters that take six in JSON, the report fits the budget
\* on the last rung and keeps the ids that a later readback needs: the fallback
\* is only a defense (tool-operations.ts:415).
NeverOmitted == \A c \in Calls : report[c].content = "shown"

\* Every call is answered and every close ends, although a lock, a disk or a
\* peer hangs (tool-service.ts:551, agent-sdk.ts:56).
CallsEnd ==
  /\ \A c \in Calls : (pc[c] = "running") ~> (pc[c] = "answered")
  /\ (closing = "settling") ~> (closing \in {"closed", "incomplete"})

(***************************************************************************)
(* The inductive invariant, in named parts.                                *)
(***************************************************************************)

\* Work that is answered before its end has been cut.
CutInv ==
  \A c \in Calls :
    /\ work[c] = "none" => pc[c] # "running" /\ c \notin cut
    /\ pc[c] = "idle" => work[c] = "none"
    /\ pc[c] = "running" => Pending(c)
    /\ pc[c] = "answered" /\ Pending(c) => c \in cut

\* What an answer or a result is made of has never been dropped.
ContentInv == \A c \in Calls : report[c].content = "shown" /\ result[c].content = "shown"

\* The attempt is noted before the message leaves, and with its result.
SentInv ==
  \A c \in Calls :
    /\ c \in sent => KindOf[c] = "invoke" /\ c \in attempted /\ work[c] \in {"remote", "saving", "over"}
    /\ KindOf[c] = "invoke" /\ work[c] \in {"connecting", "remote"} => c \in attempted
    /\ KindOf[c] = "invoke" /\ work[c] = "remote" => c \in sent
    /\ c \in sent /\ work[c] = "saving" => result[c].attempted
    /\ KindOf[c] # "invoke" => work[c] # "saving"

\* A session that has ended begins nothing, and its drain knows all its work.
EndedInv ==
  /\ ended # {} => \A c \in Calls : pc[c] # "running"
  /\ closing \in {"settling", "draining", "closed"} => "owner" \in ended
  /\ host = "sdk" /\ closing = "draining" => \A c \in Calls : Pending(c) => c \in awaited

IInv ==
  /\ TypeOK /\ CutInv /\ ContentInv /\ SentInv /\ EndedInv /\ HonestReport /\ CloseMeansQuiet
=============================================================================
