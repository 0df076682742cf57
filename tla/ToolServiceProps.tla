-------------------------- MODULE ToolServiceProps --------------------------
(***************************************************************************)
(* What the journal of ToolService promises.                               *)
(***************************************************************************)
EXTENDS ToolService, Integers

Submits(m) == m \in net' /\ m \notin net
\* A continuation of the task was answered directly, which the record takes for
\* the end of the exchange: it names no task any more (tool-service.ts:377-405).
Answered(t) == \E k \in answered : follow[k] = t
\* The message may still arrive, its task is still at work, or the task waits
\* for an answer that m is not, and was not forgotten behind a direct one.
Active(n, m) ==
  \/ n \in net
  \/ taskOf[n] # None /\ state[taskOf[n]] = "working"
  \/ /\ taskOf[n] # None /\ state[taskOf[n]] = "interrupted" /\ follow[m] # taskOf[n]
     /\ ~Answered(taskOf[n])

\* The journal covers a submission of the same scope as long as it may arrive,
\* one to a context known when it was sent, whoever sent it, and the last one of
\* the scope in the context its binding has learned and no other scope has used.
Covered(n, m) ==
  \/ n \in net /\ scope[n] = scope[m]
  \/ ctx[n] # None /\ ctx[n] = ctx[m]
  \/ /\ base[m].msg = n /\ base[m].ctx # None /\ base[m].ctx = ctx[m]
     /\ \A k \in Messages : ctx[k] = ctx[m] => scope[k] = scope[m]

\* No message is sent while one that the journal covers may still arrive or is
\* unfinished, whatever was aborted, failed to be written or died.  The client's
\* README (line 29) promises it of every interrupted task; the code keeps it but
\* for a task that waits although a direct Message has answered it.
NoBlindSubmission ==
  [][\A m, n \in Messages : Submits(m) /\ n # m /\ Covered(n, m) => ~Active(n, m)]_vars

SameRecord(r, q) == r.msg = q.msg /\ r.task = q.task
\* Snapshots are written in the order they were seen: a hook that still runs
\* when its invocation ends never takes back that the task is over.
FinalStays ==
  [][\A s \in Scopes :
       bind[s].state = "final" /\ SameRecord(bind[s], bind'[s])
         => bind'[s].state = "final"]_vars

\* "The binding is also a recovery journal if a process died between the two
\* writes": no message enters a context whose last task is still at work.
NoContextIsShared ==
  [][\A m, n \in Messages :
       Submits(m) /\ n # m /\ ctx[m] # None /\ ctxOf[n] = ctx[m] => ~Active(n, m)]_vars

\* The lock of the scope precedes that of the context, and both are released:
\* an invocation comes to an end, or its process does.
Settles == \A m \in Messages : Under(m) ~> ~Under(m)
-----------------------------------------------------------------------------
(* The inductive invariant.                                                *)

\* The task a message goes to, if it goes to one.
Task(n) == IF follow[n] # None THEN follow[n] ELSE n
Started == {"working", "interrupted", "final"}
Open(n) == taskOf[n] # None /\ state[taskOf[n]] \in {"working", "interrupted"}
Submitted(n) == n \in net \/ taskOf[n] # None

\* A task is named by the message it began with and stays in its context.
TaskInv ==
  \A n \in Messages :
    /\ taskOf[n] \in {None, Task(n)}
    /\ taskOf[n] = None => state[n] = "none" /\ ctxOf[n] = None
    /\ follow[n] # None =>
         /\ state[n] = "none" /\ ctxOf[n] = None
         /\ state[follow[n]] \in Started /\ ctx[n] = ctxOf[follow[n]]
    /\ taskOf[n] = n =>
         state[n] # "none" /\ ctxOf[n] # None /\ ctx[n] \in {None, ctxOf[n]}

\* Only one message learns a context.
LearnerInv ==
  \A n, k \in Messages :
    ctxOf[n] # None /\ ctxOf[n] = ctxOf[k] /\ ctx[n] = None /\ ctx[k] = None => n = k

\* A record says what the agent has said, or that nothing is known.
TrueRecord(r) ==
  IF r.msg = None THEN r = [Empty EXCEPT !.ctx = r.ctx]
  ELSE /\ pc[r.msg] \notin {"idle", "bound", "loaded", "ready"}
       /\ \/ r = Pending(r.msg)
          \/ /\ r.task = Task(r.msg) /\ state[r.task] \in Started /\ r.ctx = ctxOf[r.task]
             /\ r.state \in Started /\ r.pending = (r.state # "final")
             /\ r.state = "final" => state[r.task] = "final"
\* A context that a record names is one that is known.
KnownContext(c) == c = None \/ exec[c].ctx = c \/ \E n \in Messages : c \in {ctx[n], ctxOf[n]}
GoodRecord(r) == TrueRecord(r) /\ KnownContext(r.ctx)
\* The record is of a message of that context, or of none.
Belongs(r, c) ==
  /\ r.ctx \in {None, c}
  /\ r.msg # None => ctx[r.msg] = c \/ (ctx[r.msg] = None /\ ctxOf[r.msg] = c)
RecordInv ==
  /\ \A s \in Scopes : GoodRecord(bind[s]) /\ (bind[s].msg # None => scope[bind[s].msg] = s)
  /\ \A c \in Contexts : GoodRecord(exec[c]) /\ Belongs(exec[c], c)
  /\ \A m \in Messages :
       /\ GoodRecord(base[m]) /\ GoodRecord(previous[m])
       /\ base[m].msg # None =>
            scope[base[m].msg] = scope[m] /\ pc[base[m].msg] \in {"done", "dead"}
       /\ pc[m] \in {"loaded", "ready", "journaled", "submit", "rollback", "rollbackContext"} /\ ctx[m] # None =>
            Belongs(previous[m], ctx[m])

\* Where an invocation is, and what it holds.
Early == {"idle", "bound", "loaded", "ready", "journaled", "submit", "rollback", "rollbackContext"}
PlaceInv ==
  \A m \in Messages :
    /\ pc[m] = "idle" => ctx[m] = None /\ follow[m] = None
    /\ pc[m] \in Early => ~Submitted(m)
    /\ pc[m] \in {"bound", "loaded", "journaled", "rollbackContext"} => ctx[m] # None
    /\ Under(m) => ~Unknown(base[m])
    /\ pc[m] \in {"replied", "replyContext"} =>
         \/ taskOf[m] = m /\ state[m] = "reply"
         \/ taskOf[m] = None /\ follow[m] # None /\ m \in answered
\* A continuation that was answered directly belongs to no task, and its task
\* waits until the invocation has recorded the answer.
AnsweredInv ==
  \A m \in answered :
    /\ follow[m] # None /\ taskOf[m] = None /\ m \notin net
    /\ pc[m] \in {"sent", "ending", "replied", "replyContext", "done", "dead"}
    /\ Under(m) => state[follow[m]] # "working"

\* The scope is locked, and its binding is what its holder has written.
BindingInv ==
  \A m \in Messages :
    /\ \A n \in Messages : Under(m) /\ Under(n) /\ scope[m] = scope[n] => m = n
    /\ pc[m] \in {"bound", "loaded", "ready", "rollbackContext"} => bind[scope[m]] = base[m]
    /\ pc[m] \in {"journaled", "submit", "rollback"} => bind[scope[m]] = Pending(m)
    /\ pc[m] \in {"sent", "ending", "replied"} => bind[scope[m]].msg = m

\* The same of the context.
LockInv ==
  \A m \in Messages :
    /\ locked[m] # None => Under(m) /\ locked[m] = IF ctx[m] # None THEN ctx[m] ELSE ctxOf[m]
    /\ locked[m] # None /\ ctx[m] = None => pc[m] \in {"sent", "ending"} /\ HasTask(m)
    /\ \A n \in Messages : locked[m] # None /\ locked[m] = locked[n] => m = n
    /\ Under(m) /\ pc[m] # "bound" /\ ctx[m] # None => locked[m] = ctx[m]
    /\ pc[m] = "bound" => locked[m] = None
ContextInv ==
  \A m \in Messages : ctx[m] # None =>
    /\ pc[m] = "loaded" =>
         previous[m] = Recovered(exec[ctx[m]], base[m], ctx[m]) /\ ~Unknown(previous[m])
    /\ pc[m] \in {"submit", "rollback", "rollbackContext"} => exec[ctx[m]] = Pending(m)
    /\ pc[m] \in {"sent", "ending", "replied", "replyContext"} => exec[ctx[m]].msg = m

\* While a message may arrive, all that is known of it is that it was to be sent.
NetInv ==
  \A n \in net :
    /\ taskOf[n] = None /\ pc[n] \in {"sent", "ending", "done", "dead"}
    /\ bind[scope[n]] = Pending(n)
    /\ ctx[n] # None => exec[ctx[n]] = Pending(n)

\* Snapshots are queued by an invocation that has a task, in the order of its
\* states: nothing follows the end.
QueueInv ==
  \A m \in Messages :
    /\ m \in half => queue[m] # <<>>
    /\ queue[m] # <<>> => pc[m] \in {"sent", "ending"} /\ HasTask(m)
    /\ \A i \in 1..Len(queue[m]) : queue[m][i].state = "final" =>
         /\ state[taskOf[m]] = "final"
         /\ \A j \in i..Len(queue[m]) : queue[m][j].state = "final"
    /\ pc[m] \in {"sent", "ending"} /\ bind[scope[m]].state = "final" =>
         \A j \in 1..Len(queue[m]) : queue[m][j].state = "final"

\* A context that an invocation has learned is nobody else's: unknown until the
\* invocation has its lock, closed to others as long as it holds it.
Learning(k) == Under(k) /\ ctx[k] = None /\ taskOf[k] = k
LearnInv ==
  \A k \in Messages : Learning(k) =>
    LET c == ctxOf[k] IN
    /\ \A j \in Messages : ctx[j] = c => pc[j] \in {"bound", "done", "dead"} /\ ~Submitted(j)
    /\ locked[k] = None =>
         /\ \A j \in Messages : ctx[j] # c /\ base[j].ctx # c /\ previous[j].ctx # c
         /\ \A x \in Contexts : exec[x].ctx # c
         /\ \A s \in Scopes : s # scope[k] => bind[s].ctx # c

\* An invocation that has read back knows what is open in its context.
Ready == {"ready", "journaled", "submit", "rollback", "rollbackContext"}
ReadyInv ==
  \A k, n \in Messages : pc[k] \in Ready /\ n # k /\ ctx[k] # None /\ ctx[n] = ctx[k] =>
    /\ n \notin net
    /\ Open(n) =>
         /\ state[taskOf[n]] = "interrupted"
         /\ Answered(taskOf[n]) \/ (follow[k] = taskOf[n] /\ previous[k].task = taskOf[n])
\* The record of a context covers what is open in it and not forgotten.
Forgotten(t) == state[t] = "interrupted" /\ Answered(t)
CoverInv ==
  \A n \in Messages : ctx[n] # None /\ Open(n) =>
    \/ exec[ctx[n]].msg = n \/ exec[ctx[n]].task = taskOf[n]
    \/ Forgotten(taskOf[n])

\* The message n that learned its context is the last of its scope, and no other
\* scope uses the context.
Last(n) ==
  \/ bind[scope[n]].msg = n
  \/ \E j \in Messages : base[j].msg = n /\ pc[j] \in {"journaled", "submit", "rollback"}
Sole(n) == \A k \in Messages : ctx[k] = ctxOf[n] => scope[k] = scope[n]
Covers(r, n) == r.pending => r.msg = n \/ r.task = n
AnchorInv ==
  \A n \in Messages : ctx[n] = None /\ taskOf[n] = n /\ Open(n) /\ Sole(n) =>
    /\ Last(n) =>
         /\ Covers(exec[ctxOf[n]], n)
         /\ \A j \in Messages : ctx[j] = ctxOf[n] => ~Submitted(j)
    /\ \A j \in Messages : pc[j] \in Ready /\ base[j].msg = n /\ ctx[j] = ctxOf[n] =>
         state[n] = "interrupted" /\ follow[j] = n /\ Covers(previous[j], n)

IInv ==
  /\ TypeOK /\ TaskInv /\ LearnerInv /\ RecordInv /\ PlaceInv /\ AnsweredInv /\ BindingInv /\ LockInv
  /\ ContextInv /\ NetInv /\ QueueInv /\ LearnInv /\ ReadyInv /\ CoverInv /\ AnchorInv
=============================================================================
