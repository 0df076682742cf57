----------------------------- MODULE ToolService -----------------------------
(***************************************************************************)
(* A2AToolService.invoke (tool-service.ts): every submission is journaled  *)
(* in a record of the local scope (the binding) and in one of the remote   *)
(* context, each written under a lock of its own, so that after a failure  *)
(* or a death nothing is sent to a conversation whose last submission is   *)
(* not accounted for.                                                      *)
(*                                                                         *)
(* The locks are exclusive and end with the process (FileStore, after      *)
(* manual recovery); the invoker keeps the contract of Invoker: snapshots, *)
(* then an end, honest about whether a submission was attempted.           *)
(***************************************************************************)
EXTENDS Sequences

CONSTANTS
  Messages,     \* one invocation each; a task is named by the message it began with
  Scopes,
  Scopings,     \* the assignments of invocations to local scopes to look at
  Contexts, None,
  Abortable,    \* messages whose signal may be aborted
  MayDie        \* TRUE if the client process may die

ASSUME NoneAssumption == None \notin Messages \cup Contexts
ASSUME ScopingsAssumption == Scopings \subseteq [Messages -> Scopes]
ASSUME AbortableAssumption == Abortable \subseteq Messages
ASSUME MayDieAssumption == MayDie \in BOOLEAN

VARIABLES
  bind, exec,   \* the store: a record per scope, a record per context
  scope,        \* the local scope of each invocation, which never changes
  pc,           \* where each invocation is
  ctx,          \* contextId, None before it is known
  follow,       \* taskId, None for a new task
  base,         \* binding: the record of the scope as it was read
  previous,     \* the record of the context, read back
  locked,       \* the context whose lock is held, or None
  queue,        \* persistence: snapshots to be written
  half,         \* the head of the queue is in the binding already
  acked,        \* acceptanceObserved
  outcome,      \* none, ok, failed, notAttempted, refused
  aborted,      \* invocations whose signal is aborted
  net,          \* messages on their way
  taskOf,       \* the task a message went to, itself for a direct reply, or None
  ctxOf,        \* the context the agent answered with
  answered,     \* continuations answered by a direct reply, not by their task
  state         \* remote tasks: none, working, interrupted, final, reply

store == <<bind, exec>>
locals == <<ctx, follow, base, previous>>
writer == <<locked, queue, half, acked>>
remote == <<net, taskOf, ctxOf, answered, state>>
callers == <<aborted, scope>>
vars == <<store, pc, locals, writer, outcome, callers, remote>>

States == {"none", "working", "interrupted", "final", "reply"}
Stopped == {"interrupted", "final"}
Empty == [ctx |-> None, task |-> None, msg |-> None, state |-> "none",
          pending |-> FALSE, unknown |-> FALSE]
Records == [ctx: Contexts \cup {None}, task: Messages \cup {None},
            msg: Messages \cup {None}, state: States, pending: BOOLEAN, unknown: BOOLEAN]
Snapshots == [state: {"working", "interrupted", "final"}, acceptance: BOOLEAN]
Places == {"idle", "bound", "loaded", "ready", "journaled", "submit", "sent",
           "rollback", "rollbackContext", "replied", "replyContext", "ending", "done", "dead"}

TypeOK ==
  /\ bind \in [Scopes -> Records] /\ exec \in [Contexts -> Records]
  /\ scope \in [Messages -> Scopes]
  /\ pc \in [Messages -> Places]
  /\ ctx \in [Messages -> Contexts \cup {None}]
  /\ follow \in [Messages -> Messages \cup {None}]
  /\ base \in [Messages -> Records] /\ previous \in [Messages -> Records]
  /\ locked \in [Messages -> Contexts \cup {None}]
  /\ queue \in [Messages -> Seq(Snapshots)]
  /\ half \subseteq Messages /\ acked \subseteq Messages /\ aborted \subseteq Messages
  /\ outcome \in [Messages -> {"none", "ok", "failed", "notAttempted", "refused"}]
  /\ net \subseteq Messages
  /\ taskOf \in [Messages -> Messages \cup {None}]
  /\ ctxOf \in [Messages -> Contexts \cup {None}] /\ answered \subseteq Messages
  /\ state \in [Messages -> States]

\* An earlier process may have left a conversation that every scope knows.
Init ==
  /\ \E past \in SUBSET Contexts :
       exec = [c \in Contexts |-> IF c \in past THEN [Empty EXCEPT !.ctx = c] ELSE Empty]
  /\ bind \in [Scopes -> {exec[c] : c \in Contexts}]
  /\ scope \in Scopings
  /\ pc = [m \in Messages |-> "idle"]
  /\ ctx = [m \in Messages |-> None] /\ follow = [m \in Messages |-> None]
  /\ base = [m \in Messages |-> Empty] /\ previous = [m \in Messages |-> Empty]
  /\ locked = [m \in Messages |-> None]
  /\ queue = [m \in Messages |-> <<>>]
  /\ half = {} /\ acked = {} /\ aborted = {} /\ net = {} /\ answered = {}
  /\ outcome = [m \in Messages |-> "none"]
  /\ taskOf = [m \in Messages |-> None] /\ ctxOf = [m \in Messages |-> None]
  /\ state = [m \in Messages |-> "none"]

Under(m) == pc[m] \notin {"idle", "done", "dead"}   \* it holds the lock of its scope
ScopeFree(m) == \A n \in Messages : Under(n) => scope[n] # scope[m]
ContextFree(c) == \A n \in Messages : locked[n] # c

Goto(m, from, to) == pc[m] = from /\ pc' = [pc EXCEPT ![m] = to]
\* Mutant: the hold of a context learned from an answer is not resolved.
EndHolding(m, result) ==
  /\ pc' = [pc EXCEPT ![m] = "done"]
  /\ outcome' = [outcome EXCEPT ![m] = result]
  /\ locked' = IF ctx[m] = None THEN locked ELSE [locked EXCEPT ![m] = None]
End(m, result) ==
  /\ pc' = [pc EXCEPT ![m] = "done"]
  /\ outcome' = [outcome EXCEPT ![m] = result]
  /\ locked' = [locked EXCEPT ![m] = None]
SaveBinding(m, r) == bind' = [bind EXCEPT ![scope[m]] = r]
SaveContext(c, r) == exec' = [exec EXCEPT ![c] = r]

Snapshot(t, message) ==
  [ctx |-> ctxOf[t], task |-> t, msg |-> message, state |-> state[t],
   pending |-> state[t] # "final", unknown |-> FALSE]

\* requireReadback: the last submission of the record is not accounted for.
Unknown(r) == r.unknown \/ (r.pending /\ (r.task = None \/ r.state = "none"))

\* Mutant: the record of the context is all that is looked at.
RecordOnly(r, b, c) == r
\* The binding is a recovery journal too, for a death between the two writes.
Recovered(r, b, c) ==
  IF /\ c = b.ctx
     /\ \/ b.pending /\ ~r.pending
        \/ b.task # None /\ b.msg = r.msg /\ (r.task = None \/ (r.unknown /\ ~b.unknown))
  THEN b ELSE r

\* What a caller may ask for: a new conversation, one that a record names (an
\* invocation has told of it), or a task to continue, which is read back.
Known == {bind[s] : s \in {scope[n] : n \in {n \in Messages : ScopeFree(n)}}}
           \cup {exec[c] : c \in Contexts}
Requests ==
  [context: {None} \cup {r.ctx : r \in Known},
   task: {None} \cup {r.task : r \in Known}]

\* The lock of the scope is taken and the binding read.  An aborted waiter, an
\* unknown submission and a foreign task end the invocation.
Begin(m) ==
  /\ pc[m] = "idle" /\ m \notin aborted /\ ScopeFree(m)
  /\ \E r \in Requests :
       /\ r.task # None => r.context = ctxOf[r.task]
       /\ base' = [base EXCEPT ![m] = bind[scope[m]]]
       /\ ctx' = [ctx EXCEPT ![m] = r.context] /\ follow' = [follow EXCEPT ![m] = r.task]
       /\ IF Unknown(bind[scope[m]])
          THEN End(m, "refused")
          ELSE /\ pc' = [pc EXCEPT ![m] = IF r.context = None THEN "ready" ELSE "bound"]
               /\ UNCHANGED <<outcome, locked>>
  /\ UNCHANGED <<store, previous, queue, half, acked, callers, remote>>

\* The lock of the context is taken and its record read.
EnterContext(m) ==
  /\ pc[m] = "bound" /\ m \notin aborted /\ ContextFree(ctx[m])
  /\ LET r == Recovered(exec[ctx[m]], base[m], ctx[m]) IN
       /\ previous' = [previous EXCEPT ![m] = r]
       /\ IF Unknown(r) THEN End(m, "refused")
          ELSE /\ Goto(m, "bound", "loaded") /\ UNCHANGED outcome
               /\ locked' = [locked EXCEPT ![m] = ctx[m]]
  /\ UNCHANGED <<store, ctx, follow, base, queue, half, acked, callers, remote>>

\* GetTask for the recorded task, whose snapshot is saved, and for the one to
\* be continued: anything but a stopped past or the task awaiting this message
\* ends the invocation.
ReadBack(m) ==
  LET r == previous[m]
      open == r.task # None /\ r.state # "final"
      current == IF open THEN Snapshot(r.task, r.msg) ELSE r IN
  /\ IF \/ open /\ current.state = "working"
        \/ open /\ current.state = "interrupted" /\ follow[m] # r.task
        \/ follow[m] # None /\ state[follow[m]] # "interrupted"
     THEN pc[m] = "loaded" /\ End(m, "refused")
     ELSE Goto(m, "loaded", "ready") /\ UNCHANGED <<outcome, locked>>
  /\ IF open THEN SaveContext(ctx[m], current) ELSE UNCHANGED exec
  /\ previous' = [previous EXCEPT ![m] = current]
  /\ UNCHANGED <<bind, ctx, follow, base, queue, half, acked, callers, remote>>

\* A lock is not waited for any longer, or a read or write of these stages
\* fails: whatever is in the journal stays there.
GiveUp(m) ==
  /\ pc[m] \in {"bound", "loaded", "ready", "journaled", "rollback", "rollbackContext",
                "replied", "replyContext"}
  /\ End(m, "failed")
  /\ UNCHANGED <<store, locals, queue, half, acked, callers, remote>>

Pending(m) == [ctx |-> ctx[m], task |-> follow[m], msg |-> m, state |-> "none",
               pending |-> TRUE, unknown |-> TRUE]

JournalBinding(m) ==
  /\ Goto(m, "ready", IF ctx[m] = None THEN "submit" ELSE "journaled")
  /\ SaveBinding(m, Pending(m))
  /\ UNCHANGED <<exec, locals, writer, outcome, callers, remote>>
JournalContext(m) ==
  /\ Goto(m, "journaled", "submit")
  /\ SaveContext(ctx[m], Pending(m))
  /\ UNCHANGED <<bind, locals, writer, outcome, callers, remote>>

Submit(m) ==
  /\ m \notin aborted /\ Goto(m, "submit", "sent")
  /\ net' = net \cup {m}
  /\ UNCHANGED <<store, locals, writer, outcome, callers, taskOf, ctxOf, answered, state>>
\* The signal has been aborted while the journal was written.
AbortedBeforeSubmit(m) ==
  /\ m \in aborted /\ pc[m] = "submit" /\ End(m, "notAttempted")
  /\ UNCHANGED <<store, locals, queue, half, acked, callers, remote>>
\* The invoker fails before it submits.
DiscoveryFails(m) ==
  /\ Goto(m, "submit", "rollback")
  /\ outcome' = [outcome EXCEPT ![m] = "notAttempted"]
  /\ UNCHANGED <<store, locals, writer, callers, remote>>
RollBack(m) ==
  /\ IF ctx[m] = None
     THEN pc[m] = "rollback" /\ End(m, outcome[m])
     ELSE Goto(m, "rollback", "rollbackContext") /\ UNCHANGED <<outcome, locked>>
  /\ SaveBinding(m, base[m])
  /\ UNCHANGED <<exec, locals, queue, half, acked, callers, remote>>
RollBackContext(m) ==
  /\ pc[m] = "rollbackContext" /\ End(m, outcome[m])
  /\ SaveContext(ctx[m], previous[m])
  /\ UNCHANGED <<bind, locals, queue, half, acked, callers, remote>>

HasTask(m) == taskOf[m] # None /\ state[taskOf[m]] # "reply"
Seen(m, acceptance) == [state |-> state[taskOf[m]], acceptance |-> acceptance]

\* The invoker awaits the hook for a snapshot.
OnTask(m) ==
  /\ pc[m] = "sent" /\ outcome[m] = "none" /\ HasTask(m) /\ queue[m] = <<>>
  /\ queue' = [queue EXCEPT ![m] = <<Seen(m, TRUE)>>]
  /\ UNCHANGED <<store, pc, locals, locked, half, acked, outcome, callers, remote>>

\* writeTask: binding, then lock of a context just learned, then its record.
Record(m) ==
  LET s == Head(queue[m]) IN
  [ctx |-> ctxOf[taskOf[m]], task |-> taskOf[m], msg |-> m, state |-> s.state,
   pending |-> s.state # "final", unknown |-> m \notin acked /\ ~s.acceptance]
WriteBinding(m) ==
  /\ queue[m] # <<>> /\ m \notin half
  /\ SaveBinding(m, Record(m))
  /\ half' = half \cup {m}
  /\ acked' = IF Head(queue[m]).acceptance THEN acked \cup {m} ELSE acked
  /\ UNCHANGED <<exec, pc, locals, locked, queue, outcome, callers, remote>>
LeaseContext(m) ==
  /\ m \in half /\ locked[m] = None /\ m \notin aborted /\ ContextFree(ctxOf[taskOf[m]])
  /\ locked' = [locked EXCEPT ![m] = ctxOf[taskOf[m]]]
  /\ UNCHANGED <<store, pc, locals, queue, half, acked, outcome, callers, remote>>
WriteContext(m) ==
  /\ m \in half /\ locked[m] # None
  /\ SaveContext(ctxOf[taskOf[m]], Record(m))
  /\ half' = half \ {m} /\ queue' = [queue EXCEPT ![m] = Tail(@)]
  /\ UNCHANGED <<bind, pc, locals, locked, acked, outcome, callers, remote>>
\* A write fails, or the signal is aborted before the lock of the context: a
\* hook rejects, and the invoker with it.
WriteFails(m) ==
  /\ queue[m] # <<>>
  /\ queue' = [queue EXCEPT ![m] = Tail(@)] /\ half' = half \ {m}
  /\ acked' = IF Head(queue[m]).acceptance THEN acked \cup {m} ELSE acked
  /\ outcome' = [outcome EXCEPT ![m] = "failed"]
  /\ UNCHANGED <<store, pc, locals, locked, callers, remote>>

\* Mutant: the end does not wait for the hook it overtakes.
Overtaking(m, s) == <<s>> \o queue[m]
\* The end is written behind the hook that may still be running.
Behind(m, s) == Append(queue[m], s)

\* The invoker returns the stopped task it has shown, or fails with what it
\* knows: nothing, a snapshot, or the readback of a cancellation.
ReturnsTask(m) ==
  /\ outcome[m] = "none" /\ HasTask(m) /\ m \in acked /\ queue[m] = <<>> /\ state[taskOf[m]] \in Stopped
  /\ Goto(m, "sent", "ending")
  /\ outcome' = [outcome EXCEPT ![m] = "ok"]
  /\ queue' = [queue EXCEPT ![m] = Behind(m, Seen(m, TRUE))]
  /\ UNCHANGED <<store, locals, locked, half, acked, callers, remote>>
InvokerFails(m) ==
  /\ Goto(m, "sent", "ending")
  /\ outcome' = [outcome EXCEPT ![m] = "failed"]
  /\ \/ m \notin acked /\ queue[m] = <<>> /\ UNCHANGED queue
     \/ HasTask(m) /\ queue' = [queue EXCEPT ![m] = Behind(m, Seen(m, FALSE))]
  /\ UNCHANGED <<store, locals, locked, half, acked, callers, remote>>

\* The agent has answered directly, a continuation too: the conversation goes on
\* without a task, and the record names none.
Replied(m) ==
  /\ m \in answered \/ (taskOf[m] # None /\ state[taskOf[m]] = "reply")
  /\ Goto(m, "sent", "replied")
  /\ outcome' = [outcome EXCEPT ![m] = "ok"]
  /\ UNCHANGED <<store, locals, writer, callers, remote>>
Where(m) == IF ctxOf[m] # None THEN ctxOf[m] ELSE ctx[m]
Completed(m) == [Empty EXCEPT !.ctx = Where(m)]
ReplyBinding(m) ==
  /\ Goto(m, "replied", "replyContext")
  /\ SaveBinding(m, Completed(m))
  /\ UNCHANGED <<exec, locals, writer, outcome, callers, remote>>
ReplyContext(m) ==
  /\ pc[m] = "replyContext" /\ End(m, outcome[m])
  /\ locked[m] = None => ContextFree(Where(m))
  /\ SaveContext(Where(m), Completed(m))
  /\ UNCHANGED <<bind, locals, queue, half, acked, callers, remote>>

\* Persistence has settled: the locks are released.
Settle(m) ==
  /\ pc[m] = "ending" /\ queue[m] = <<>> /\ End(m, outcome[m])
  /\ UNCHANGED <<store, locals, queue, half, acked, callers, remote>>

Abort(m) ==
  /\ m \in Abortable \ aborted /\ pc[m] # "done" /\ aborted' = aborted \cup {m}
  /\ UNCHANGED <<store, pc, locals, writer, outcome, remote, scope>>

\* The process dies; its locks are removed by hand.
Die ==
  /\ MayDie /\ \E m \in Messages : Under(m)
  /\ pc' = [m \in Messages |-> IF Under(m) THEN "dead" ELSE pc[m]]
  /\ locked' = [m \in Messages |-> None]
  /\ queue' = [m \in Messages |-> <<>>] /\ half' = {}
  /\ UNCHANGED <<store, locals, acked, outcome, callers, remote>>

\* External: the agent receives a message, or never does; it works.
Receive(m) ==
  /\ m \in net /\ net' = net \ {m}
  /\ IF follow[m] # None
     THEN /\ taskOf' = [taskOf EXCEPT ![m] = follow[m]]
          /\ state' = [state EXCEPT ![follow[m]] = IF @ = "interrupted" THEN "working" ELSE @]
          /\ UNCHANGED ctxOf
     ELSE /\ taskOf' = [taskOf EXCEPT ![m] = m]
          /\ \E s \in {"working", "reply"} : state' = [state EXCEPT ![m] = s]
          /\ \E c \in Contexts :
               /\ \/ c = ctx[m]
                  \/ ctx[m] = None /\ exec[c].ctx = None
                     /\ \A n \in Messages : c \notin {ctx[n], ctxOf[n]}
               /\ ctxOf' = [ctxOf EXCEPT ![m] = c]
  /\ UNCHANGED <<store, pc, locals, writer, outcome, callers, answered>>
\* It receives a continuation and answers it directly: the task is left waiting.
AnswerDirectly(m) ==
  /\ m \in net /\ net' = net \ {m}
  /\ follow[m] # None /\ state[follow[m]] = "interrupted"
  /\ answered' = answered \cup {m}
  /\ UNCHANGED <<store, pc, locals, writer, outcome, callers, taskOf, ctxOf, state>>
Lose(m) ==
  /\ m \in net /\ net' = net \ {m}
  /\ UNCHANGED <<store, pc, locals, writer, outcome, callers, taskOf, ctxOf, answered, state>>
Work(t) ==
  /\ state[t] = "working"
  /\ \E s \in Stopped : state' = [state EXCEPT ![t] = s]
  /\ UNCHANGED <<store, pc, locals, writer, outcome, callers, net, taskOf, ctxOf, answered>>

\* External: an operator has correlated the message of an unknown record and
\* writes what became of it, in the record of its context too.
Truth(m) ==
  LET t == IF taskOf[m] # None THEN taskOf[m] ELSE follow[m] IN
  IF t = None \/ state[t] = "reply"
  THEN Completed(m)
  ELSE Snapshot(t, m)
Reconcile(m) ==
  /\ pc[m] \in {"done", "dead"} /\ m \notin net
  /\ \A n \in Messages : ~Under(n)
  /\ \/ \E s \in Scopes : bind[s].msg = m /\ Unknown(bind[s])
     \/ \E c \in Contexts : exec[c].msg = m /\ Unknown(exec[c])
  /\ bind' = [s \in Scopes |-> IF bind[s].msg = m THEN Truth(m) ELSE bind[s]]
  /\ exec' = [c \in Contexts |-> IF exec[c].msg \in {m, None} /\ c = Truth(m).ctx
                                 THEN Truth(m) ELSE exec[c]]
  /\ UNCHANGED <<pc, locals, writer, outcome, callers, remote>>

Step(m) ==
  \/ Begin(m) \/ EnterContext(m) \/ ReadBack(m) \/ GiveUp(m)
  \/ JournalBinding(m) \/ JournalContext(m)
  \/ Submit(m) \/ AbortedBeforeSubmit(m) \/ DiscoveryFails(m) \/ RollBack(m)
  \/ RollBackContext(m) \/ OnTask(m) \/ WriteBinding(m) \/ LeaseContext(m)
  \/ WriteContext(m) \/ WriteFails(m) \/ ReturnsTask(m) \/ InvokerFails(m)
  \/ Replied(m) \/ ReplyBinding(m) \/ ReplyContext(m) \/ Settle(m)

Next ==
  \/ \E m \in Messages :
       \/ Step(m) \/ Abort(m) \/ Receive(m) \/ AnswerDirectly(m) \/ Lose(m) \/ Work(m)
       \/ Reconcile(m)
  \/ Die

Spec == Init /\ [][Next]_vars

\* The invoker ends (Invoker!Ends), and so do file operations; locks are waited
\* for, unless the signal is aborted.  The agent is not trusted to do anything.
Progress(m) ==
  \/ m \in aborted /\ (GiveUp(m) \/ WriteFails(m))
  \/ pc[m] # "idle" /\ (EnterContext(m) \/ ReadBack(m) \/ JournalBinding(m))
  \/ JournalContext(m) \/ Submit(m) \/ AbortedBeforeSubmit(m)
  \/ RollBack(m) \/ RollBackContext(m) \/ WriteBinding(m) \/ LeaseContext(m)
  \/ WriteContext(m) \/ ReplyBinding(m) \/ ReplyContext(m) \/ Settle(m)
InvokerEnds(m) == ReturnsTask(m) \/ InvokerFails(m) \/ Replied(m)
Fairness == \A m \in Messages : WF_vars(Progress(m)) /\ WF_vars(InvokerEnds(m))
FairSpec == Spec /\ Fairness
=============================================================================
