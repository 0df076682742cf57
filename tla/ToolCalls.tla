------------------------------ MODULE ToolCalls ------------------------------
(***************************************************************************)
(* The tools of a session (agent-sdk.ts, or the mod of mods/a2a-client.ts) *)
(* over A2AToolService: each call runs an operation of the service, whose  *)
(* answer is a race of its work, its deadline and the signals of the call  *)
(* and of the session.  Work that lost the race goes on behind the answer  *)
(* until its locks and writes are done, and closing the session drains it. *)
(*                                                                         *)
(* The calls are of one local scope and one target.  What the service does *)
(* under its locks is ToolService; here its work is a row of phases.       *)
(***************************************************************************)
EXTENDS ToolProjection

CONSTANTS
  Calls,
  KindOf        \* what each call does: invoke, get or cancel

Kinds == {"invoke", "get", "cancel"}
ASSUME KindAssumption == KindOf \in [Calls -> Kinds]

VARIABLES
  host,         \* sdk or mod, which never changes
  ended,        \* signals that are aborted: owner, service
  closing,      \* open, settling, draining, closed, incomplete
  awaited,      \* the work a drain waits for
  pc,           \* a call: idle, running, answered
  aborted,      \* calls whose own signal is aborted
  cut,          \* operations whose controller is aborted
  work,         \* the phase of the call's work
  attempted,    \* details.submissionAttempted
  sent,         \* invocations whose message has left
  result,       \* what an invocation has come to, while it is persisted
  report        \* what the call was answered

session == <<host, ended, closing, awaited>>
caller == <<pc, aborted, report>>
service == <<cut, work, attempted>>
vars == <<session, caller, service, sent, result>>

Phases == {"none", "waiting", "ready", "connecting", "remote", "saving", "over"}
Reports == [attempted: BOOLEAN, content: {"shown", "omitted"}]
Nothing == [attempted |-> FALSE, content |-> "shown"]

TypeOK ==
  /\ host \in {"sdk", "mod"} /\ ended \subseteq {"owner", "service"}
  /\ closing \in {"open", "settling", "draining", "closed", "incomplete"}
  /\ awaited \subseteq Calls /\ aborted \subseteq Calls /\ cut \subseteq Calls
  /\ pc \in [Calls -> {"idle", "running", "answered"}] /\ work \in [Calls -> Phases]
  /\ attempted \subseteq Calls /\ sent \subseteq Calls
  /\ result \in [Calls -> Reports] /\ report \in [Calls -> Reports]

----------------------------------------------------------------------------
(* Helpers *)

Pending(c) == work[c] \notin {"none", "over"}
Locked(c) == KindOf[c] = "invoke" /\ work[c] \in {"ready", "connecting", "remote", "saving"}

\* The projection may drop what it cannot fit.
Contents(extra) == {"shown"} \cup IF extra \in Omitted THEN {"omitted"} ELSE {}
Report(att, extra) == [attempted: {att}, content: Contents(extra)]

\* An operation listens to the call's own signal joined with the owner's, and
\* to the service's: the running calls that newly aborted signals reach.
Reached(signals, own) ==
  {c \in Calls : pc[c] = "running" /\ (c \in own \ aborted \/ signals \ ended # {})}

\* The abort of a controller answers its call at once, with what the work has
\* noted so far,
\* and the task it has seen since its message left, if it has seen one.
CutReports(c) ==
  UNION {Report(c \in attempted, extra) :
           extra \in {"readback"} \cup IF c \in sent THEN {"failure"} ELSE {}}
CutAll(cs) ==
  /\ cut' = cut \cup cs
  /\ pc' = [c \in Calls |-> IF c \in cs THEN "answered" ELSE pc[c]]
  /\ report' \in [Calls -> Reports]
  /\ \A c \in Calls : IF c \in cs THEN report'[c] \in CutReports(c) ELSE report'[c] = report[c]

\* Promise.race: work that ends answers the call unless it has been cut.
Finish(c, r) ==
  /\ work' = [work EXCEPT ![c] = "over"]
  /\ IF pc[c] = "running"
     THEN pc' = [pc EXCEPT ![c] = "answered"] /\ report' = [report EXCEPT ![c] = r]
     ELSE UNCHANGED <<pc, report>>
Go(c, phase) == work' = [work EXCEPT ![c] = phase] /\ UNCHANGED <<pc, report>>

Init ==
  /\ host \in {"sdk", "mod"} /\ ended = {} /\ closing = "open" /\ awaited = {}
  /\ pc = [c \in Calls |-> "idle"] /\ aborted = {} /\ cut = {}
  /\ work = [c \in Calls |-> "none"] /\ attempted = {} /\ sent = {}
  /\ result = [c \in Calls |-> Nothing] /\ report = [c \in Calls |-> Nothing]

----------------------------------------------------------------------------
(* A call *)

\* execute and runA2ATool: arguments or a scope that are refused, and a
\* signal that is aborted already, end the call before the service sees it.
Refuse(c) ==
  /\ pc[c] = "idle"
  /\ pc' = [pc EXCEPT ![c] = "answered"]
  /\ \E r \in Report(FALSE, "readback") : report' = [report EXCEPT ![c] = r]
  /\ UNCHANGED <<session, aborted, service, sent, result>>

\* operation(): work is begun and owned before anything is awaited; a closed
\* service cuts it at once.
Start(c) ==
  /\ pc[c] = "idle" /\ c \notin aborted /\ "owner" \notin ended
  /\ IF "service" \in ended
     THEN /\ \E r \in CutReports(c) : report' = [report EXCEPT ![c] = r]
          /\ cut' = cut \cup {c} /\ pc' = [pc EXCEPT ![c] = "answered"]
          /\ work' = [work EXCEPT ![c] = "over"]
     ELSE /\ pc' = [pc EXCEPT ![c] = "running"]
          /\ work' = [work EXCEPT ![c] = IF KindOf[c] = "invoke" THEN "waiting" ELSE "ready"]
          /\ UNCHANGED <<cut, report>>
  /\ UNCHANGED <<session, aborted, attempted, sent, result>>

\* Mutant: only the remote exchange is timed.
TimesOutRemotely(c) == pc[c] = "running" /\ work[c] = "remote"

\* The deadline of a call runs whatever its work does.
TimesOut(c) == pc[c] = "running"
Timeout(c) ==
  /\ TimesOut(c) /\ CutAll({c})
  /\ UNCHANGED <<session, aborted, work, attempted, sent, result>>

----------------------------------------------------------------------------
(* Its work *)

TakeLock(c) ==
  /\ work[c] = "waiting" /\ \A d \in Calls : ~Locked(d)
  /\ Go(c, "ready")
  /\ UNCHANGED <<session, aborted, cut, attempted, sent, result>>

\* An aborted waiter leaves, and so does one whose lock cannot be taken; a record
\* that cannot be read or written, or that asks for a readback, ends the work
\* with an error.
GiveUp(c) ==
  /\ work[c] \in {"waiting", "ready"}
  /\ \E r \in Report(FALSE, "readback") : Finish(c, r)
  /\ UNCHANGED <<session, aborted, cut, attempted, sent, result>>

\* Mutant: the attempt is not noted where it is made.
SubmitQuietly(c) ==
  /\ work[c] = "ready" /\ c \notin cut
  /\ Go(c, "connecting")
  /\ UNCHANGED <<session, aborted, cut, attempted, sent, result>>

\* throwIfAborted stands between the journal and the submission.
Submit(c) ==
  /\ work[c] = "ready" /\ c \notin cut
  /\ Go(c, "connecting")
  /\ attempted' = IF KindOf[c] = "invoke" THEN attempted \cup {c} ELSE attempted
  /\ UNCHANGED <<session, aborted, cut, sent, result>>

\* The invoker connects, and sends only with a live signal.
Send(c) ==
  /\ work[c] = "connecting" /\ c \notin cut
  /\ Go(c, "remote")
  /\ sent' = IF KindOf[c] = "invoke" THEN sent \cup {c} ELSE sent
  /\ UNCHANGED <<session, aborted, cut, attempted, result>>

\* Nothing was sent: the error says so, and the journal is rolled back.
ConnectFails(c) ==
  /\ work[c] = "connecting"
  /\ \E r \in Report(FALSE, "readback") :
       IF KindOf[c] = "invoke"
       THEN Go(c, "saving") /\ result' = [result EXCEPT ![c] = r]
       ELSE Finish(c, r) /\ UNCHANGED result
  /\ UNCHANGED <<session, aborted, cut, attempted, sent>>

\* An invocation ends with a result, or with an error that may carry the
\* readback of its cancellation; both are persisted before they count.
InvokeEnds(c) ==
  /\ KindOf[c] = "invoke" /\ work[c] = "remote"
  /\ \E r \in Report(TRUE, "none") \cup Report(TRUE, "failure") :
       result' = [result EXCEPT ![c] = r]
  /\ Go(c, "saving")
  /\ UNCHANGED <<session, aborted, cut, attempted, sent>>

\* Task readback and cancellation write nothing.
TaskEnds(c) ==
  /\ KindOf[c] # "invoke" /\ work[c] = "remote"
  /\ \E r \in Report(FALSE, IF KindOf[c] = "cancel" THEN "action" ELSE "none")
              \cup Report(FALSE, "readback") : Finish(c, r)
  /\ UNCHANGED <<session, aborted, cut, attempted, sent, result>>

Saved(c) ==
  /\ work[c] = "saving" /\ Finish(c, result[c])
  /\ UNCHANGED <<session, aborted, cut, attempted, sent, result>>

----------------------------------------------------------------------------
(* Signals and close *)

\* Signals are aborted: the calls they reach are cut and answered.
Signal(signals, own) ==
  /\ ended' = signals /\ aborted' = own
  /\ CutAll(Reached(signals, own))
  /\ UNCHANGED <<host, work, attempted, sent, result>>

Abort(c) ==
  /\ c \notin aborted /\ pc[c] # "answered"
  /\ Signal(ended, aborted \cup {c}) /\ UNCHANGED <<closing, awaited>>

\* The session's own signal is aborted without a close.
HostAborts ==
  /\ "owner" \notin ended
  /\ Signal(ended \cup {"owner"}, aborted) /\ UNCHANGED <<closing, awaited>>

\* The shared client is closed by its host: nobody waits for its work.
ServiceClose ==
  /\ host = "sdk" /\ "service" \notin ended
  /\ Signal(ended \cup {"service"}, aborted) /\ UNCHANGED <<closing, awaited>>

\* close() of the tool group.
Close ==
  /\ host = "sdk" /\ closing = "open"
  /\ closing' = "settling"
  /\ Signal(ended \cup {"owner"}, aborted) /\ UNCHANGED awaited

\* The mod's cleanup aborts its owner and closes its own client, and waits for
\* nothing.
Cleanup ==
  /\ host = "mod" /\ closing = "open"
  /\ closing' = "closed"
  /\ Signal({"owner", "service"}, aborted) /\ UNCHANGED awaited

\* Mutant: a closing service awaits no work.
OwnedNothing == {}

\* Promise.allSettled(active), then the work each used signal still owns.
Owned == {c \in Calls : Pending(c)}
Drain ==
  /\ closing = "settling" /\ \A c \in Calls : pc[c] # "running"
  /\ closing' = "draining" /\ awaited' = Owned
  /\ UNCHANGED <<host, ended, caller, service, sent, result>>

Closed ==
  /\ closing = "draining" /\ \A c \in awaited : ~Pending(c)
  /\ closing' = "closed"
  /\ UNCHANGED <<host, ended, awaited, caller, service, sent, result>>

CloseTimeout ==
  /\ closing \in {"settling", "draining"}
  /\ closing' = "incomplete"
  /\ UNCHANGED <<host, ended, awaited, caller, service, sent, result>>

----------------------------------------------------------------------------
Work(c) ==
  \/ TakeLock(c) \/ GiveUp(c) \/ Submit(c) \/ Send(c) \/ ConnectFails(c)
  \/ InvokeEnds(c) \/ TaskEnds(c) \/ Saved(c)
Next ==
  \/ \E c \in Calls : Refuse(c) \/ Start(c) \/ Timeout(c) \/ Work(c) \/ Abort(c)
  \/ HostAborts \/ ServiceClose \/ Close \/ Cleanup \/ Drain \/ Closed \/ CloseTimeout

Spec == Init /\ [][Next]_vars

\* Only timers are sure to fire: a peer, a lock file or a disk may hang.
FairSpec ==
  /\ Spec /\ WF_vars(CloseTimeout)
  /\ \A c \in Calls : WF_vars(Timeout(c))
=============================================================================
