------------------------- MODULE ToolService_proofs -------------------------
(***************************************************************************)
(* Proofs about ToolService for every set of invocations, scopes and       *)
(* contexts.                                                               *)
(***************************************************************************)
EXTENDS ToolServiceProps, SequenceTheorems, TLAPS

-----------------------------------------------------------------------------
(* Records and tasks.                                                      *)

\* The records that the service writes are records of the journal.
LEMMA RecordTypes ==
  ASSUME TypeOK
  PROVE  /\ Empty \in Records
         /\ \A m \in Messages : Pending(m) \in Records
         /\ \A t, n \in Messages : state[t] # "none" => Snapshot(t, n) \in Records
         /\ \A t, n \in Messages : Snapshot(t, n) \in Records
         /\ \A m \in Messages : Completed(m) \in Records
         /\ \A m \in Messages : Truth(m) \in Records
  BY NoneAssumption DEF TypeOK, Records, States, Empty, Pending, Snapshot, Completed, Where, Truth

\* The fields of a record.
LEMMA RecordFields ==
  ASSUME NEW r \in Records
  PROVE  /\ r.ctx \in Contexts \cup {None} /\ r.task \in Messages \cup {None}
         /\ r.msg \in Messages \cup {None} /\ r.state \in States
         /\ r.pending \in BOOLEAN /\ r.unknown \in BOOLEAN
  BY DEF Records

\* What an invocation writes of the head of its queue is a record.
LEMMA QueueTypes ==
  ASSUME TypeOK, QueueInv, NEW m \in Messages, queue[m] # <<>>
  PROVE  /\ Record(m) \in Records
         /\ Head(queue[m]) \in Snapshots /\ Tail(queue[m]) \in Seq(Snapshots)
<1>1. taskOf[m] \in Messages /\ ctxOf[taskOf[m]] \in Contexts \cup {None}
  BY NoneAssumption DEF TypeOK, QueueInv, HasTask
<1>2. Head(queue[m]) \in Snapshots /\ Tail(queue[m]) \in Seq(Snapshots)
  BY HeadTailProperties DEF TypeOK
<1>3. Head(queue[m]).state \in States /\ Head(queue[m]).acceptance \in BOOLEAN
  BY <1>2 DEF Snapshots, States
<1> QED
  BY <1>1, <1>2, <1>3 DEF Record, Records

\* A task that has begun knows its context and follows no other.
LEMMA Begun ==
  ASSUME TypeOK, TaskInv, NEW t \in Messages, state[t] # "none" \/ taskOf[t] = t \/ ctxOf[t] # None
  PROVE  /\ taskOf[t] = t /\ follow[t] = None /\ Task(t) = t
         /\ state[t] # "none" /\ ctxOf[t] \in Contexts
<1>1. taskOf[t] # None
  BY NoneAssumption DEF TypeOK, TaskInv
<1>2. taskOf[t] = Task(t)
  BY <1>1 DEF TaskInv
<1>3. follow[t] = None
  <2> SUFFICES ASSUME follow[t] # None PROVE FALSE
    OBVIOUS
  <2>1. state[t] = "none" /\ ctxOf[t] = None /\ taskOf[t] = follow[t]
    BY <1>2 DEF TaskInv, Task
  <2>2. follow[t] = t
    BY <2>1
  <2> QED
    BY <2>1, <2>2 DEF TaskInv, Started
<1> QED
  BY <1>2, <1>3 DEF TypeOK, TaskInv, Task

\* An invocation that has a task sees a state of it that a snapshot may have.
LEMMA SeenTypes ==
  ASSUME TypeOK, TaskInv, NEW m \in Messages, HasTask(m)
  PROVE  /\ taskOf[m] \in Messages /\ taskOf[m] = Task(m) /\ state[taskOf[m]] \in Started
         /\ ctxOf[taskOf[m]] \in Contexts
         /\ \A acceptance \in BOOLEAN :
              /\ Seen(m, acceptance) \in Snapshots
              /\ <<Seen(m, acceptance)>> \in Seq(Snapshots)
              /\ Behind(m, Seen(m, acceptance)) \in Seq(Snapshots)
<1>1. taskOf[m] \in Messages /\ taskOf[m] = Task(m) /\ state[taskOf[m]] \in Started
  BY NoneAssumption DEF HasTask, TypeOK, TaskInv, Task, Started, States
<1>2. ctxOf[taskOf[m]] \in Contexts
  BY <1>1, Begun DEF Started
<1>3. ASSUME NEW acceptance \in BOOLEAN PROVE Seen(m, acceptance) \in Snapshots
  BY <1>1 DEF Seen, Snapshots, Started
<1> QED
  BY <1>1, <1>2, <1>3 DEF Behind, TypeOK

\* So does one whose snapshot is being written.
LEMMA HalfHasTask ==
  ASSUME TypeOK, TaskInv, QueueInv, NEW m \in Messages, m \in half \/ queue[m] # <<>>
  PROVE  HasTask(m) /\ queue[m] # <<>> /\ ctxOf[taskOf[m]] \in Contexts
  BY SeenTypes DEF QueueInv

\* Every step keeps the types of all variables.
LEMMA NextType == TypeOK /\ TaskInv /\ RecordInv /\ PlaceInv /\ QueueInv /\ [Next]_vars => TypeOK'
<1> SUFFICES ASSUME TypeOK, TaskInv, RecordInv, PlaceInv, QueueInv, [Next]_vars
             PROVE  TypeOK'
  OBVIOUS
<1> USE NoneAssumption, ScopingsAssumption, RecordTypes, RecordFields, QueueTypes, SeenTypes
        DEF TypeOK, Places, store, locals, writer, remote, callers, vars
<1>1. ASSUME NEW m \in Messages, Begin(m) PROVE TypeOK'
  <2>1. \A r \in Known : r \in Records
    BY DEF Known
  <2>2. \A r \in Requests : r.context \in Contexts \cup {None} /\ r.task \in Messages \cup {None}
    BY <2>1 DEF Requests
  <2>3. bind[scope[m]] \in Records
    OBVIOUS
  <2>4. PICK r \in Requests :
          /\ base' = [base EXCEPT ![m] = bind[scope[m]]]
          /\ ctx' = [ctx EXCEPT ![m] = r.context] /\ follow' = [follow EXCEPT ![m] = r.task]
    BY <1>1 DEF Begin
  <2>5. r.context \in Contexts \cup {None} /\ r.task \in Messages \cup {None}
    BY <2>2
  <2>6. ctx' \in [Messages -> Contexts \cup {None}] /\ follow' \in [Messages -> Messages \cup {None}]
    BY <2>4, <2>5
  <2>7. base' \in [Messages -> Records]
    BY <2>3, <2>4
  <2>8. /\ pc' \in [Messages -> Places] /\ locked' \in [Messages -> Contexts \cup {None}]
        /\ outcome' \in [Messages -> {"none", "ok", "failed", "notAttempted", "refused"}]
    <3>1. CASE Unknown(bind[scope[m]])
      <4>1. End(m, "refused")
        BY <1>1, <3>1 DEF Begin
      <4> QED
        BY <4>1 DEF End
    <3>2. CASE ~Unknown(bind[scope[m]])
      <4>1. outcome' = outcome /\ locked' = locked
        BY <1>1, <3>2 DEF Begin
      <4>2. \E p \in Places : pc' = [pc EXCEPT ![m] = p]
        BY <1>1, <3>2 DEF Begin
      <4> QED
        BY <4>1, <4>2
    <3> QED
      BY <3>1, <3>2
  <2> QED
    BY <1>1, <2>6, <2>7, <2>8 DEF Begin
<1>2. ASSUME NEW m \in Messages, EnterContext(m) PROVE TypeOK'
  <2>1. \A c \in Contexts : Recovered(exec[c], base[m], c) \in Records
    BY DEF Recovered
  <2>2. ctx[m] # None
    BY <1>2 DEF PlaceInv, EnterContext
  <2>3. Recovered(exec[ctx[m]], base[m], ctx[m]) \in Records
    BY <2>1, <2>2
  <2> QED
    BY <1>2, <2>2, <2>3 DEF EnterContext, Goto, End
<1>3. ASSUME NEW m \in Messages, ReadBack(m) PROVE TypeOK'
  <2> DEFINE r == previous[m]
             open == r.task # None /\ r.state # "final"
             current == IF open THEN Snapshot(r.task, r.msg) ELSE r
  <2>1. r \in Records
    OBVIOUS
  <2>2. r.task # None => r.task \in Messages /\ r.msg \in Messages
    BY <2>1 DEF RecordInv, GoodRecord, TrueRecord, Empty
  <2>3. current \in Records
    BY <2>1, <2>2
  <2>4. ctx[m] # None => [exec EXCEPT ![ctx[m]] = current] \in [Contexts -> Records]
    BY <2>3
  <2>5. ctx[m] # None
    BY <1>3 DEF PlaceInv, ReadBack, Goto, End
  <2>6. exec' \in [Contexts -> Records]
    BY <1>3, <2>4, <2>5 DEF ReadBack, SaveContext
  <2>7. previous' \in [Messages -> Records]
    BY <1>3, <2>3 DEF ReadBack
  <2> HIDE DEF open, current
  <2>8. /\ pc' \in [Messages -> Places] /\ locked' \in [Messages -> Contexts \cup {None}]
        /\ outcome' \in [Messages -> {"none", "ok", "failed", "notAttempted", "refused"}]
    BY <1>3 DEF ReadBack, Goto, End
  <2> QED
    BY <1>3, <2>6, <2>7, <2>8 DEF ReadBack
<1>4. ASSUME NEW m \in Messages, GiveUp(m) PROVE TypeOK'
  BY <1>4 DEF GiveUp, End
<1>5. ASSUME NEW m \in Messages, JournalBinding(m) PROVE TypeOK'
  BY <1>5 DEF JournalBinding, SaveBinding, Goto
<1>6. ASSUME NEW m \in Messages, JournalContext(m) PROVE TypeOK'
  BY <1>6 DEF JournalContext, SaveContext, Goto
<1>7. ASSUME NEW m \in Messages, Submit(m) PROVE TypeOK'
  BY <1>7 DEF Submit, Goto
<1>8. ASSUME NEW m \in Messages, AbortedBeforeSubmit(m) PROVE TypeOK'
  BY <1>8 DEF AbortedBeforeSubmit, End
<1>9. ASSUME NEW m \in Messages, DiscoveryFails(m) PROVE TypeOK'
  BY <1>9 DEF DiscoveryFails, Goto
<1>10. ASSUME NEW m \in Messages, RollBack(m) PROVE TypeOK'
  BY <1>10 DEF RollBack, SaveBinding, Goto, End
<1>11. ASSUME NEW m \in Messages, RollBackContext(m) PROVE TypeOK'
  BY <1>11 DEF RollBackContext, SaveContext, End
<1>12. ASSUME NEW m \in Messages, OnTask(m) PROVE TypeOK'
  BY <1>12 DEF OnTask
<1>13. ASSUME NEW m \in Messages, WriteBinding(m) PROVE TypeOK'
  BY <1>13 DEF WriteBinding, SaveBinding
<1>14. ASSUME NEW m \in Messages, LeaseContext(m) PROVE TypeOK'
  <2>1. ctxOf[taskOf[m]] \in Contexts
    BY <1>14, HalfHasTask DEF LeaseContext
  <2> QED
    BY <1>14, <2>1 DEF LeaseContext
<1>15. ASSUME NEW m \in Messages, WriteContext(m) PROVE TypeOK'
  <2>1. ctxOf[taskOf[m]] \in Contexts /\ queue[m] # <<>>
    BY <1>15, HalfHasTask DEF WriteContext
  <2> QED
    BY <1>15, <2>1 DEF WriteContext, SaveContext
<1>16. ASSUME NEW m \in Messages, WriteFails(m) PROVE TypeOK'
  BY <1>16 DEF WriteFails
<1>17. ASSUME NEW m \in Messages, ReturnsTask(m) PROVE TypeOK'
  BY <1>17 DEF ReturnsTask, Goto
<1>18. ASSUME NEW m \in Messages, InvokerFails(m) PROVE TypeOK'
  <2>1. queue' \in [Messages -> Seq(Snapshots)]
    <3>1. CASE queue' = queue
      BY <3>1
    <3>2. CASE HasTask(m) /\ queue' = [queue EXCEPT ![m] = Behind(m, Seen(m, FALSE))]
      <4>1. Behind(m, Seen(m, FALSE)) \in Seq(Snapshots)
        BY <3>2
      <4> QED
        BY <3>2, <4>1
    <3> QED
      BY <1>18, <3>1, <3>2 DEF InvokerFails
  <2> QED
    BY <1>18, <2>1 DEF InvokerFails, Goto
<1>19. ASSUME NEW m \in Messages, Replied(m) PROVE TypeOK'
  BY <1>19 DEF Replied, Goto
<1>20. ASSUME NEW m \in Messages, ReplyBinding(m) PROVE TypeOK'
  BY <1>20 DEF ReplyBinding, SaveBinding, Goto
<1>21. ASSUME NEW m \in Messages, ReplyContext(m) PROVE TypeOK'
  BY <1>21 DEF ReplyContext, SaveContext, End
<1>22. ASSUME NEW m \in Messages, Settle(m) PROVE TypeOK'
  BY <1>22 DEF Settle, End
<1>23. ASSUME NEW m \in Messages, Abort(m) PROVE TypeOK'
  BY <1>23 DEF Abort
<1>24. ASSUME NEW m \in Messages, Receive(m) PROVE TypeOK'
  <2>1. [state EXCEPT ![follow[m]] = IF @ = "interrupted" THEN "working" ELSE @] \in [Messages -> States]
    BY DEF States
  <2>2. \A s \in {"working", "reply"} : [state EXCEPT ![m] = s] \in [Messages -> States]
    BY DEF States
  <2>3. CASE follow[m] # None
    <3>1. /\ taskOf' = [taskOf EXCEPT ![m] = follow[m]] /\ ctxOf' = ctxOf
          /\ state' = [state EXCEPT ![follow[m]] = IF @ = "interrupted" THEN "working" ELSE @]
      BY <1>24, <2>3 DEF Receive
    <3>2. taskOf' \in [Messages -> Messages \cup {None}]
      BY <2>3, <3>1
    <3>3. UNCHANGED <<store, pc, locals, writer, outcome, callers, answered>> /\ net' \subseteq Messages
      BY <1>24 DEF Receive
    <3> QED
      BY <2>1, <3>1, <3>2, <3>3
  <2>4. CASE follow[m] = None
    <3>1. PICK s \in {"working", "reply"} : state' = [state EXCEPT ![m] = s]
      BY <1>24, <2>4 DEF Receive
    <3>2. PICK c \in Contexts : ctxOf' = [ctxOf EXCEPT ![m] = c]
      BY <1>24, <2>4 DEF Receive
    <3> QED
      <4>1. UNCHANGED <<store, pc, locals, writer, outcome, callers, answered>> /\ net' \subseteq Messages
        BY <1>24 DEF Receive
      <4>2. taskOf' = [taskOf EXCEPT ![m] = m]
        BY <1>24, <2>4 DEF Receive
      <4> QED
        BY <2>2, <3>1, <3>2, <4>1, <4>2
  <2> QED
    BY <2>3, <2>4
<1>25. ASSUME NEW m \in Messages, Lose(m) \/ AnswerDirectly(m) PROVE TypeOK'
  BY <1>25 DEF Lose, AnswerDirectly
<1>26. ASSUME NEW m \in Messages, Work(m) PROVE TypeOK'
  <2>1. \A s \in Stopped : [state EXCEPT ![m] = s] \in [Messages -> States]
    BY DEF States, Stopped
  <2> QED
    BY <1>26, <2>1 DEF Work
<1>27. ASSUME NEW m \in Messages, Reconcile(m) PROVE TypeOK'
  BY <1>27 DEF Reconcile
<1>28. CASE Die
  BY <1>28 DEF Die
<1>29. CASE UNCHANGED vars
  BY <1>29
<1>30. QED
  BY <1>1, <1>2, <1>3, <1>4, <1>5, <1>6, <1>7, <1>8, <1>9, <1>10, <1>11, <1>12, <1>13, <1>14,
     <1>15, <1>16, <1>17, <1>18, <1>19, <1>20, <1>21, <1>22, <1>23, <1>24, <1>25, <1>26, <1>27,
     <1>28, <1>29 DEF Next, Step

\* What a record says of a task: it has begun, and its message goes to it.
LEMMA RecordTask ==
  ASSUME TypeOK, TaskInv, NEW r \in Records, TrueRecord(r), r.task # None
  PROVE  /\ r.task \in Messages /\ state[r.task] \in Started /\ ctxOf[r.task] \in Contexts
         /\ r.msg \in Messages /\ r.task = Task(r.msg)
<1>1. r.task \in Messages /\ r.msg \in Messages
  BY NoneAssumption, RecordFields DEF TrueRecord, Empty
<1>2. state[r.task] \in Started /\ r.task = Task(r.msg)
  BY <1>1, NoneAssumption DEF TrueRecord, Pending, TaskInv, Task
<1> QED
  BY <1>1, <1>2, Begun DEF Started

\* Only three actions touch what is known of tasks and contexts.
LEMMA TaskSteps ==
  ASSUME [Next]_vars
  PROVE  \/ \E m \in Messages : Begin(m) \/ Receive(m) \/ Work(m)
         \/ UNCHANGED <<ctx, follow, taskOf, ctxOf, state>>
<1> SUFFICES ASSUME ~UNCHANGED <<ctx, follow, taskOf, ctxOf, state>>
             PROVE  \E m \in Messages : Begin(m) \/ Receive(m) \/ Work(m)
  OBVIOUS
<1> USE DEF locals, remote
<1>1. ~UNCHANGED vars /\ ~Die
  BY DEF vars, Die
<1>2. PICK m \in Messages :
        \/ Step(m) \/ Abort(m) \/ Receive(m) \/ AnswerDirectly(m) \/ Lose(m) \/ Work(m) \/ Reconcile(m)
  BY <1>1 DEF Next
<1>3. ~Abort(m) /\ ~AnswerDirectly(m) /\ ~Lose(m) /\ ~Reconcile(m)
  BY DEF Abort, AnswerDirectly, Lose, Reconcile
<1>4. ~EnterContext(m) /\ ~ReadBack(m) /\ ~GiveUp(m) /\ ~JournalBinding(m) /\ ~JournalContext(m)
  BY DEF EnterContext, ReadBack, GiveUp, JournalBinding, JournalContext
<1>5. ~Submit(m) /\ ~AbortedBeforeSubmit(m) /\ ~DiscoveryFails(m) /\ ~RollBack(m) /\ ~RollBackContext(m)
  BY DEF Submit, AbortedBeforeSubmit, DiscoveryFails, RollBack, RollBackContext
<1>6. ~OnTask(m) /\ ~WriteBinding(m) /\ ~LeaseContext(m) /\ ~WriteContext(m) /\ ~WriteFails(m)
  BY DEF OnTask, WriteBinding, LeaseContext, WriteContext, WriteFails
<1>7. ~ReturnsTask(m) /\ ~InvokerFails(m) /\ ~Replied(m) /\ ~ReplyBinding(m) /\ ~ReplyContext(m) /\ ~Settle(m)
  BY DEF ReturnsTask, InvokerFails, Replied, ReplyBinding, ReplyContext, Settle
<1> QED
  BY <1>2, <1>3, <1>4, <1>5, <1>6, <1>7 DEF Step

\* What an invocation asks for when it begins: a task that has begun, in its
\* own context, or a context that is known.
LEMMA BeginRequest ==
  ASSUME TypeOK, TaskInv, RecordInv, NEW m \in Messages, Begin(m)
  PROVE  \E r \in Known, q \in Known \cup {Empty} :
           /\ r \in Records /\ TrueRecord(r) /\ q \in Records /\ TrueRecord(q)
           /\ ctx' = [ctx EXCEPT ![m] = ctx'[m]] /\ ctx'[m] \in {None, r.ctx}
           /\ follow' = [follow EXCEPT ![m] = q.task]
           /\ q.task # None =>
                q.task \in Messages /\ state[q.task] \in Started /\ ctx'[m] = ctxOf[q.task]
<1>1. \A r \in Known : r \in Records /\ TrueRecord(r)
  BY DEF Known, TypeOK, RecordInv, GoodRecord
<1>2. PICK z \in Requests :
        /\ z.task # None => z.context = ctxOf[z.task]
        /\ ctx' = [ctx EXCEPT ![m] = z.context] /\ follow' = [follow EXCEPT ![m] = z.task]
  BY DEF Begin
<1>3. /\ z.context \in {None} \cup {r.ctx : r \in Known}
      /\ z.task \in {None} \cup {r.task : r \in Known}
  BY DEF Requests
<1>4. \E r \in Known : z.context \in {None, r.ctx}
  <2>1. bind[scope[m]] \in Known
    BY DEF Known, Begin
  <2> QED
    BY <1>3, <2>1
<1>5. \E q \in Known \cup {Empty} : z.task = q.task
  <2>1. Empty.task = None
    BY DEF Empty
  <2> QED
    BY <1>3, <2>1
<1>6. Empty \in Records /\ TrueRecord(Empty)
  BY RecordTypes DEF TrueRecord, Empty
<1>7. ctx'[m] = z.context
  BY <1>2 DEF TypeOK
<1> QED
  BY <1>1, <1>2, <1>4, <1>5, <1>6, <1>7, RecordTask

\* A task begins in its context, and no message changes what it goes to.
LEMMA NextTask ==
  IInv /\ [Next]_vars => TaskInv' /\ LearnerInv'
<1> SUFFICES ASSUME IInv, [Next]_vars PROVE TaskInv' /\ LearnerInv'
  OBVIOUS
<1> USE DEF IInv
<1>1. ASSUME NEW m \in Messages, Begin(m) PROVE TaskInv' /\ LearnerInv'
  <2>1. PICK q \in Known \cup {Empty} :
          /\ ctx' = [ctx EXCEPT ![m] = ctx'[m]] /\ follow' = [follow EXCEPT ![m] = q.task]
          /\ q.task # None =>
               q.task \in Messages /\ state[q.task] \in Started /\ ctx'[m] = ctxOf[q.task]
    BY <1>1, BeginRequest
  <2>2. taskOf[m] = None /\ state[m] = "none" /\ ctxOf[m] = None
    BY <1>1 DEF Begin, PlaceInv, Early, Submitted, TaskInv
  <2>3. UNCHANGED <<taskOf, ctxOf, state>>
    BY <1>1 DEF Begin, remote
  <2>4. TypeOK /\ TaskInv /\ LearnerInv
    OBVIOUS
  <2> HIDE DEF IInv
  <2>5. \A n \in Messages \ {m} : ctx'[n] = ctx[n] /\ follow'[n] = follow[n]
    BY <2>1, <2>4 DEF TypeOK
  <2>6. follow'[m] = q.task /\ m # None
    BY <2>1, <2>4, NoneAssumption DEF TypeOK
  <2>7. TaskInv'
    <3> SUFFICES ASSUME NEW n \in Messages
                 PROVE  /\ taskOf[n] \in {None, Task(n)'}
                        /\ taskOf[n] = None => state[n] = "none" /\ ctxOf[n] = None
                        /\ follow'[n] # None =>
                             /\ state[n] = "none" /\ ctxOf[n] = None
                             /\ state[follow'[n]] \in Started /\ ctx'[n] = ctxOf[follow'[n]]
                        /\ taskOf[n] = n =>
                             state[n] # "none" /\ ctxOf[n] # None /\ ctx'[n] \in {None, ctxOf[n]}
      BY <2>3 DEF TaskInv
    <3>1. CASE n = m
      BY <3>1, <2>1, <2>2, <2>6
    <3>2. CASE n # m
      BY <3>2, <2>4, <2>5 DEF TaskInv, Task
    <3> QED
      BY <3>1, <3>2
  <2>8. LearnerInv'
    BY <2>2, <2>3, <2>4, <2>5 DEF LearnerInv
  <2> QED
    BY <2>7, <2>8
<1>2. ASSUME NEW m \in Messages, Receive(m) PROVE TaskInv' /\ LearnerInv'
  <2>1. taskOf[m] = None /\ state[m] = "none" /\ ctxOf[m] = None
    BY <1>2 DEF Receive, NetInv, TaskInv
  <2>2. UNCHANGED <<ctx, follow>>
    BY <1>2 DEF Receive, locals
  <2>3. CASE follow[m] # None
    <3>1. /\ taskOf' = [taskOf EXCEPT ![m] = follow[m]] /\ ctxOf' = ctxOf
          /\ state' = [state EXCEPT ![follow[m]] = IF @ = "interrupted" THEN "working" ELSE @]
      BY <1>2, <2>3 DEF Receive
    <3>2. \A t \in Messages : \/ state'[t] = state[t]
                              \/ state[t] \in Started /\ state'[t] \in Started
      BY <3>1 DEF TypeOK, Started
    <3>3. \A t \in Messages : taskOf'[t] = IF t = m THEN follow[m] ELSE taskOf[t]
      BY <3>1 DEF TypeOK
    <3>4. TaskInv'
      BY <2>1, <2>2, <2>3, <3>1, <3>2, <3>3, NoneAssumption DEF TaskInv, Task, Started, TypeOK
    <3> QED
      BY <2>2, <3>1, <3>4 DEF LearnerInv
  <2>4. CASE follow[m] = None
    <3>1. PICK s \in {"working", "reply"}, c \in Contexts :
            /\ taskOf' = [taskOf EXCEPT ![m] = m] /\ state' = [state EXCEPT ![m] = s]
            /\ ctxOf' = [ctxOf EXCEPT ![m] = c]
            /\ c = ctx[m] \/ (ctx[m] = None /\ \A n \in Messages : c \notin {ctx[n], ctxOf[n]})
      BY <1>2, <2>4 DEF Receive
    <3>2. \A n \in Messages : follow[n] # m
      BY <2>1, NoneAssumption DEF TaskInv, Started
    <3>3. TaskInv'
      BY <2>1, <2>2, <2>4, <3>1, <3>2, NoneAssumption DEF TaskInv, Task, Started, TypeOK
    <3>4. LearnerInv'
      BY <2>1, <2>2, <3>1, NoneAssumption DEF LearnerInv, TypeOK
    <3> QED
      BY <3>3, <3>4
  <2> QED
    BY <2>3, <2>4
<1>3. ASSUME NEW m \in Messages, Work(m) PROVE TaskInv' /\ LearnerInv'
  <2>1. /\ UNCHANGED <<ctx, follow, taskOf, ctxOf>>
        /\ \E s \in Stopped : state' = [state EXCEPT ![m] = s]
        /\ state[m] = "working"
    BY <1>3 DEF Work, locals
  <2>2. \A t \in Messages : \/ state'[t] = state[t]
                            \/ state[t] \in Started /\ state'[t] \in Started
    BY <2>1 DEF TypeOK, Started, Stopped
  <2> QED
    BY <2>1, <2>2 DEF TaskInv, LearnerInv, Task, Started, TypeOK
<1>4. CASE UNCHANGED <<ctx, follow, taskOf, ctxOf, state>>
  BY <1>4 DEF TaskInv, LearnerInv, Task
<1> QED
  BY <1>1, <1>2, <1>3, <1>4, TaskSteps

-----------------------------------------------------------------------------
(* Where invocations are, and what they hold.                              *)

\* An invocation that has begun keeps what it asked for.
LEMMA BegunKept ==
  ASSUME TypeOK, [Next]_vars, NEW n \in Messages, pc[n] # "idle"
  PROVE  ctx'[n] = ctx[n] /\ follow'[n] = follow[n] /\ Pending(n)' = Pending(n)
<1>1. ASSUME NEW m \in Messages, Begin(m) PROVE ctx'[n] = ctx[n] /\ follow'[n] = follow[n]
  BY <1>1 DEF Begin, TypeOK
<1>2. ASSUME NEW m \in Messages, Receive(m) \/ Work(m) PROVE ctx'[n] = ctx[n] /\ follow'[n] = follow[n]
  BY <1>2 DEF Receive, Work, locals
<1>3. ctx'[n] = ctx[n] /\ follow'[n] = follow[n]
  BY <1>1, <1>2, TaskSteps
<1> QED
  BY <1>3 DEF Pending

\* Whose record the service writes.
LEMMA RecordMessages ==
  /\ \A m : Pending(m).msg = m /\ Record(m).msg = m /\ Completed(m).msg = None
  /\ \A t, m : Snapshot(t, m).msg = m
  BY DEF Pending, Record, Completed, Snapshot, Empty

\* What the place of an invocation says of its message stays true.
LEMMA NextPlace == IInv /\ [Next]_vars => PlaceInv'
<1> SUFFICES ASSUME IInv, [Next]_vars
             PROVE  PlaceInv'
  OBVIOUS
<1> USE NoneAssumption
        DEF IInv, TypeOK, PlaceInv, Early, Under, Submitted, Places,
            store, locals, writer, remote, callers, vars
<1>1. ASSUME NEW m \in Messages, Begin(m) PROVE PlaceInv'
  BY <1>1 DEF Begin, End
<1>2. ASSUME NEW m \in Messages, EnterContext(m) PROVE PlaceInv'
  BY <1>2 DEF EnterContext, Goto, End
<1>3. ASSUME NEW m \in Messages, ReadBack(m) PROVE PlaceInv'
  BY <1>3 DEF ReadBack, SaveContext, Goto, End
<1>4. ASSUME NEW m \in Messages, GiveUp(m) PROVE PlaceInv'
  BY <1>4 DEF GiveUp, End
<1>5. ASSUME NEW m \in Messages, JournalBinding(m) PROVE PlaceInv'
  BY <1>5 DEF JournalBinding, SaveBinding, Goto
<1>6. ASSUME NEW m \in Messages, JournalContext(m) PROVE PlaceInv'
  BY <1>6 DEF JournalContext, SaveContext, Goto
<1>7. ASSUME NEW m \in Messages, Submit(m) PROVE PlaceInv'
  BY <1>7 DEF Submit, Goto
<1>8. ASSUME NEW m \in Messages, AbortedBeforeSubmit(m) PROVE PlaceInv'
  BY <1>8 DEF AbortedBeforeSubmit, End
<1>9. ASSUME NEW m \in Messages, DiscoveryFails(m) PROVE PlaceInv'
  BY <1>9 DEF DiscoveryFails, Goto
<1>10. ASSUME NEW m \in Messages, RollBack(m) PROVE PlaceInv'
  BY <1>10 DEF RollBack, SaveBinding, Goto, End
<1>11. ASSUME NEW m \in Messages, RollBackContext(m) PROVE PlaceInv'
  BY <1>11 DEF RollBackContext, SaveContext, End
<1>12. ASSUME NEW m \in Messages, OnTask(m) PROVE PlaceInv'
  BY <1>12 DEF OnTask
<1>13. ASSUME NEW m \in Messages, WriteBinding(m) PROVE PlaceInv'
  BY <1>13 DEF WriteBinding, SaveBinding
<1>14. ASSUME NEW m \in Messages, LeaseContext(m) PROVE PlaceInv'
  BY <1>14 DEF LeaseContext
<1>15. ASSUME NEW m \in Messages, WriteContext(m) PROVE PlaceInv'
  BY <1>15 DEF WriteContext, SaveContext
<1>16. ASSUME NEW m \in Messages, WriteFails(m) PROVE PlaceInv'
  BY <1>16 DEF WriteFails
<1>17. ASSUME NEW m \in Messages, ReturnsTask(m) PROVE PlaceInv'
  BY <1>17 DEF ReturnsTask, Goto
<1>18. ASSUME NEW m \in Messages, InvokerFails(m) PROVE PlaceInv'
  BY <1>18 DEF InvokerFails, Goto
<1>19. ASSUME NEW m \in Messages, Replied(m) PROVE PlaceInv'
  <2>1. \/ taskOf[m] = m /\ state[m] = "reply"
        \/ taskOf[m] = None /\ follow[m] # None /\ m \in answered
    BY <1>19 DEF Replied, AnsweredInv, TaskInv, Task, Started
  <2> QED
    BY <1>19, <2>1 DEF Replied, Goto
<1>20. ASSUME NEW m \in Messages, ReplyBinding(m) PROVE PlaceInv'
  BY <1>20 DEF ReplyBinding, SaveBinding, Goto
<1>21. ASSUME NEW m \in Messages, ReplyContext(m) PROVE PlaceInv'
  BY <1>21 DEF ReplyContext, SaveContext, End
<1>22. ASSUME NEW m \in Messages, Settle(m) PROVE PlaceInv'
  BY <1>22 DEF Settle, End
<1>23. ASSUME NEW m \in Messages, Abort(m) PROVE PlaceInv'
  BY <1>23 DEF Abort
<1>24. ASSUME NEW m \in Messages, Receive(m) PROVE PlaceInv'
  <2>1. pc[m] \notin Early \cup {"replied", "replyContext"} /\ taskOf[m] = None /\ state[m] = "none"
    BY <1>24 DEF Receive, NetInv, TaskInv
  <2>2. UNCHANGED <<pc, ctx, follow, base, answered>> /\ net' \subseteq net
    BY <1>24 DEF Receive
  <2>3. \A n \in Messages : n # m => taskOf'[n] = taskOf[n]
    BY <1>24 DEF Receive
  <2>4. \A n \in Messages : state[n] = "reply" => state'[n] = "reply"
    <3>1. CASE follow[m] # None
      BY <1>24, <3>1 DEF Receive
    <3>2. CASE follow[m] = None
      BY <1>24, <2>1, <3>2 DEF Receive
    <3> QED
      BY <3>1, <3>2
  <2> QED
    BY <2>1, <2>2, <2>3, <2>4
<1>25. ASSUME NEW m \in Messages, Lose(m) \/ AnswerDirectly(m) PROVE PlaceInv'
  BY <1>25 DEF Lose, AnswerDirectly
<1>26. ASSUME NEW m \in Messages, Work(m) PROVE PlaceInv'
  BY <1>26 DEF Work
<1>27. ASSUME NEW m \in Messages, Reconcile(m) PROVE PlaceInv'
  BY <1>27 DEF Reconcile
<1>28. CASE Die
  BY <1>28 DEF Die
<1>29. CASE UNCHANGED vars
  BY <1>29
<1>30. QED
  BY <1>1, <1>2, <1>3, <1>4, <1>5, <1>6, <1>7, <1>8, <1>9, <1>10, <1>11, <1>12, <1>13, <1>14,
     <1>15, <1>16, <1>17, <1>18, <1>19, <1>20, <1>21, <1>22, <1>23, <1>24, <1>25, <1>26, <1>27,
     <1>28, <1>29 DEF Next, Step

-----------------------------------------------------------------------------
(* What each step does, one invocation, scope and context at a time.       *)

\* Invocation m goes from one place to another; the others stay.
Moves(m, from, to) ==
  pc[m] \in from /\ pc'[m] \in to /\ \A n \in Messages : n # m => pc'[n] = pc[n]
Keeps(m) == \A n \in Messages : n # m => locked'[n] = locked[n]
Binds(m, r) == bind'[scope[m]] = r /\ \A s \in Scopes : s # scope[m] => bind'[s] = bind[s]
Writes(c, r) == exec'[c] = r /\ \A x \in Contexts : x # c => exec'[x] = exec[x]
conversation == <<ctx, follow, scope>>
agent == <<taskOf, ctxOf, state>>
hooks == <<queue, half>>

\* An invocation that begins has its scope to itself.
LEMMA BeginDoes ==
  ASSUME TypeOK, NEW m \in Messages, Begin(m)
  PROVE  /\ Moves(m, {"idle"}, {"bound", "ready", "done"}) /\ ScopeFree(m)
         /\ UNCHANGED <<store, scope, agent, net, previous, hooks>>
         /\ base'[m] = bind[scope[m]]
         /\ \A n \in Messages : n # m => base'[n] = base[n] /\ ctx'[n] = ctx[n] /\ follow'[n] = follow[n]
         /\ pc'[m] = "bound" => ctx'[m] # None
         /\ pc'[m] = "ready" => ctx'[m] = None
         /\ pc'[m] # "done" => ~Unknown(bind[scope[m]])
         /\ Keeps(m) /\ (pc'[m] = "done" => locked'[m] = None) /\ (pc'[m] # "done" => locked'[m] = locked[m])
<1> USE DEF TypeOK, Moves, Keeps
<1>1. /\ pc[m] = "idle" /\ ScopeFree(m) /\ base' = [base EXCEPT ![m] = bind[scope[m]]]
      /\ UNCHANGED <<store, scope, agent, net, previous, hooks>>
  BY DEF Begin, agent, hooks, remote, callers
<1>2. PICK r \in Requests :
        /\ ctx' = [ctx EXCEPT ![m] = r.context] /\ follow' = [follow EXCEPT ![m] = r.task]
        /\ IF Unknown(bind[scope[m]])
           THEN End(m, "refused")
           ELSE /\ pc' = [pc EXCEPT ![m] = IF r.context = None THEN "ready" ELSE "bound"]
                /\ locked' = locked
  BY DEF Begin
<1>3. CASE Unknown(bind[scope[m]])
  <2>1. End(m, "refused")
    BY <1>2, <1>3
  <2> QED
    BY <1>1, <1>2, <2>1 DEF End
<1>4. CASE ~Unknown(bind[scope[m]])
  BY <1>1, <1>2, <1>4
<1> QED
  BY <1>3, <1>4

\* The lock of the context is taken, unless the record is of an unknown submission.
LEMMA EnterDoes ==
  ASSUME TypeOK, NEW m \in Messages, EnterContext(m)
  PROVE  /\ Moves(m, {"bound"}, {"loaded", "done"}) /\ ContextFree(ctx[m])
         /\ UNCHANGED <<store, conversation, base, agent, net, hooks>>
         /\ previous'[m] = Recovered(exec[ctx[m]], base[m], ctx[m])
         /\ \A n \in Messages : n # m => previous'[n] = previous[n]
         /\ pc'[m] = "loaded" => ~Unknown(previous'[m]) /\ locked'[m] = ctx[m]
         /\ pc'[m] = "done" => locked'[m] = None
         /\ Keeps(m)
<1> DEFINE r == Recovered(exec[ctx[m]], base[m], ctx[m])
<1> USE DEF TypeOK, Moves, Keeps
<1>1. /\ pc[m] = "bound" /\ ContextFree(ctx[m]) /\ previous' = [previous EXCEPT ![m] = r]
      /\ UNCHANGED <<store, conversation, base, agent, net, hooks>>
  BY DEF EnterContext, agent, hooks, remote, callers, conversation
<1>2. IF Unknown(r) THEN End(m, "refused")
      ELSE pc' = [pc EXCEPT ![m] = "loaded"] /\ locked' = [locked EXCEPT ![m] = ctx[m]]
  BY DEF EnterContext, Goto
<1> HIDE DEF r
<1>3. CASE Unknown(r)
  BY <1>1, <1>2, <1>3 DEF End, r
<1>4. CASE ~Unknown(r)
  BY <1>1, <1>2, <1>4 DEF r
<1> QED
  BY <1>3, <1>4

\* What is read back is saved; only a stopped past lets the invocation go on.
ReadBackOf(r) == IF r.task # None /\ r.state # "final" THEN Snapshot(r.task, r.msg) ELSE r
Opened(r) == r.task # None /\ r.state # "final"

\* A readback refreshes the record that was read, and refuses or goes on.
LEMMA ReadBackDoes ==
  ASSUME TypeOK, PlaceInv, NEW m \in Messages, ReadBack(m)
  PROVE  /\ Moves(m, {"loaded"}, {"ready", "done"}) /\ ctx[m] \in Contexts
         /\ UNCHANGED <<bind, conversation, base, agent, net, hooks>>
         /\ Writes(ctx[m], IF Opened(previous[m]) THEN ReadBackOf(previous[m]) ELSE exec[ctx[m]])
         /\ previous'[m] = ReadBackOf(previous[m])
         /\ \A n \in Messages : n # m => previous'[n] = previous[n]
         /\ pc'[m] = "ready" => locked'[m] = locked[m]
         /\ pc'[m] = "done" => locked'[m] = None
         /\ Keeps(m)
         /\ pc'[m] = "ready" /\ Opened(previous[m]) =>
              /\ state[previous[m].task] # "working"
              /\ state[previous[m].task] = "interrupted" => follow[m] = previous[m].task
<1> USE DEF TypeOK, Moves, Keeps, Writes
<1> DEFINE current == IF Opened(previous[m]) THEN Snapshot(previous[m].task, previous[m].msg) ELSE previous[m]
<1>1. current = ReadBackOf(previous[m])
  BY DEF ReadBackOf, Opened
<1>2. /\ UNCHANGED <<bind, conversation, base, agent, net, hooks>>
      /\ previous' = [previous EXCEPT ![m] = current]
      /\ IF Opened(previous[m]) THEN exec' = [exec EXCEPT ![ctx[m]] = current] ELSE exec' = exec
      /\ IF \/ Opened(previous[m]) /\ current.state = "working"
            \/ Opened(previous[m]) /\ current.state = "interrupted" /\ follow[m] # previous[m].task
            \/ follow[m] # None /\ state[follow[m]] # "interrupted"
         THEN pc[m] = "loaded" /\ End(m, "refused")
         ELSE Goto(m, "loaded", "ready") /\ locked' = locked
  BY DEF ReadBack, SaveContext, Opened, agent, hooks, remote, callers, conversation
<1>3. pc[m] = "loaded"
  BY <1>2 DEF Goto
<1>4. ctx[m] \in Contexts
  BY <1>3 DEF PlaceInv
<1>5. Opened(previous[m]) => current.state = state[previous[m].task]
  BY DEF Snapshot
<1> HIDE DEF current
<1>6. Writes(ctx[m], IF Opened(previous[m]) THEN current ELSE exec[ctx[m]])
  BY <1>2, <1>4
<1>7. previous'[m] = current /\ \A n \in Messages : n # m => previous'[n] = previous[n]
  BY <1>2
<1>8. CASE End(m, "refused")
  BY <1>1, <1>2, <1>3, <1>4, <1>6, <1>7, <1>8 DEF End
<1>9. CASE ~End(m, "refused")
  <2>1. Goto(m, "loaded", "ready") /\ locked' = locked
    BY <1>2, <1>9
  <2>2. Opened(previous[m]) =>
          /\ current.state # "working"
          /\ current.state = "interrupted" => follow[m] = previous[m].task
    <3> SUFFICES ASSUME ~(Opened(previous[m]) =>
          /\ current.state # "working"
          /\ current.state = "interrupted" => follow[m] = previous[m].task) PROVE FALSE
      OBVIOUS
    <3> QED
      BY <1>2, <1>9
  <2> QED
    BY <1>1, <1>2, <1>3, <1>4, <1>5, <1>6, <1>7, <2>1, <2>2 DEF Goto
<1> QED
  BY <1>8, <1>9

\* The steps that end an invocation and release its locks.
Finishes(m) == GiveUp(m) \/ AbortedBeforeSubmit(m) \/ Settle(m)

\* An invocation that ends releases its locks and writes nothing.
LEMMA FinishDoes ==
  ASSUME TypeOK, NEW m \in Messages, Finishes(m)
  PROVE  /\ Moves(m, Places \ {"idle", "sent", "done", "dead"}, {"done"})
         /\ UNCHANGED <<store, conversation, base, previous, agent, net, hooks>>
         /\ Keeps(m) /\ locked'[m] = None
         /\ pc[m] = "ending" => queue[m] = <<>>
  BY DEF Finishes, GiveUp, AbortedBeforeSubmit, Settle, End, TypeOK, Moves, Keeps, Places,
         conversation, locals, remote, agent, hooks, callers

\* The steps that lead an invocation on and write no record.
Advances(m) == Submit(m) \/ DiscoveryFails(m) \/ ReturnsTask(m) \/ InvokerFails(m) \/ Replied(m)

\* A submission, a failed discovery and an end of the invoker move the invocation only.
LEMMA AdvanceDoes ==
  ASSUME TypeOK, TaskInv, AnsweredInv, NEW m \in Messages, Advances(m)
  PROVE  /\ Moves(m, {"submit", "sent"}, {"sent", "rollback", "ending", "replied"})
         /\ UNCHANGED <<store, conversation, base, previous, locked, half, agent>>
         /\ pc[m] = "submit" => pc'[m] \in {"sent", "rollback"} /\ queue' = queue
         /\ pc[m] = "sent" => pc'[m] \in {"ending", "replied"} /\ net' = net
         /\ pc'[m] = "sent" => net' = net \cup {m}
         /\ pc'[m] \in {"rollback", "replied"} => net' = net /\ queue' = queue
         /\ pc'[m] = "replied" =>
              ~HasTask(m) /\ (m \in answered \/ (taskOf[m] # None /\ state[taskOf[m]] = "reply"))
         /\ \A n \in Messages : n # m => queue'[n] = queue[n]
         /\ \/ queue'[m] = queue[m]
            \/ /\ HasTask(m)
               /\ \E a \in BOOLEAN : queue'[m] = Append(queue[m], Seen(m, a))
<1> USE DEF TypeOK, Moves, conversation, locals, writer, remote, agent, hooks, callers, Goto
<1>1. CASE Submit(m)
  BY <1>1 DEF Submit
<1>2. CASE DiscoveryFails(m)
  BY <1>2 DEF DiscoveryFails
<1>3. CASE ReturnsTask(m)
  BY <1>3 DEF ReturnsTask, Behind
<1>4. CASE InvokerFails(m)
  BY <1>4 DEF InvokerFails, Behind
<1>5. CASE Replied(m)
  BY <1>5 DEF Replied, AnsweredInv, HasTask
<1> QED
  BY <1>1, <1>2, <1>3, <1>4, <1>5 DEF Advances

\* The steps of the hook and of the caller that touch neither records nor locks.
Waits(m) == OnTask(m) \/ WriteFails(m) \/ Abort(m) \/ AnswerDirectly(m) \/ Lose(m)

\* Aborts, snapshots, failed writes, lost messages and direct answers move no invocation.
LEMMA WaitDoes ==
  ASSUME TypeOK, NEW m \in Messages, Waits(m)
  PROVE  /\ UNCHANGED <<pc, store, conversation, base, previous, locked, agent>>
         /\ net' \subseteq net /\ half' \subseteq half
         /\ \A n \in Messages : n # m => queue'[n] = queue[n]
         /\ \A n \in Messages : n # m => (n \in half' <=> n \in half)
         /\ \/ queue'[m] = queue[m] /\ half' = half
            \/ queue[m] # <<>> /\ queue'[m] = Tail(queue[m]) /\ m \notin half'
            \/ pc[m] = "sent" /\ HasTask(m) /\ queue[m] = <<>> /\ queue'[m] = <<Seen(m, TRUE)>> /\ half' = half
<1> USE DEF TypeOK, conversation, locals, writer, remote, agent, hooks, callers
<1>1. CASE OnTask(m)
  BY <1>1 DEF OnTask
<1>2. CASE WriteFails(m)
  BY <1>2 DEF WriteFails
<1>3. CASE Abort(m)
  BY <1>3 DEF Abort
<1>4. CASE AnswerDirectly(m) \/ Lose(m)
  BY <1>4 DEF AnswerDirectly, Lose
<1> QED
  BY <1>1, <1>2, <1>3, <1>4 DEF Waits

\* The journal: both records are written before the message is submitted, and
\* taken back if it was not.
LEMMA JournalDoes ==
  ASSUME TypeOK, NEW m \in Messages, JournalBinding(m)
  PROVE  /\ Moves(m, {"ready"}, {"submit", "journaled"})
         /\ pc'[m] = "submit" <=> ctx[m] = None
         /\ Binds(m, Pending(m))
         /\ UNCHANGED <<exec, conversation, base, previous, locked, hooks, agent, net>>
  BY DEF JournalBinding, SaveBinding, Goto, TypeOK, Moves, Binds, conversation, locals, writer,
     remote, agent, hooks, callers

\* The journal of the context is written under its lock.
LEMMA JournalContextDoes ==
  ASSUME TypeOK, PlaceInv, NEW m \in Messages, JournalContext(m)
  PROVE  /\ Moves(m, {"journaled"}, {"submit"}) /\ ctx[m] \in Contexts
         /\ Writes(ctx[m], Pending(m))
         /\ UNCHANGED <<bind, conversation, base, previous, locked, hooks, agent, net>>
  BY DEF JournalContext, SaveContext, Goto, TypeOK, PlaceInv, Moves, Writes, conversation,
     locals, writer, remote, agent, hooks, callers

\* The binding is put back.
LEMMA RollBackDoes ==
  ASSUME TypeOK, NEW m \in Messages, RollBack(m)
  PROVE  /\ Moves(m, {"rollback"}, {"rollbackContext", "done"}) /\ Keeps(m)
         /\ pc'[m] = "rollbackContext" => ctx[m] # None /\ locked'[m] = locked[m]
         /\ pc'[m] = "done" => locked'[m] = None
         /\ Binds(m, base[m])
         /\ UNCHANGED <<exec, conversation, base, previous, hooks, agent, net>>
<1> USE DEF TypeOK, Moves, Binds, Keeps, conversation, locals, remote, agent, hooks, callers
<1>1. CASE ctx[m] = None
  BY <1>1 DEF RollBack, SaveBinding, End
<1>2. CASE ctx[m] # None
  BY <1>2 DEF RollBack, SaveBinding, Goto
<1> QED
  BY <1>1, <1>2

\* So is the record of the context, and the invocation ends.
LEMMA RollBackContextDoes ==
  ASSUME TypeOK, PlaceInv, NEW m \in Messages, RollBackContext(m)
  PROVE  /\ Moves(m, {"rollbackContext"}, {"done"}) /\ ctx[m] \in Contexts
         /\ Keeps(m) /\ locked'[m] = None
         /\ Writes(ctx[m], previous[m])
         /\ UNCHANGED <<bind, conversation, base, previous, hooks, agent, net>>
  BY DEF RollBackContext, SaveContext, End, TypeOK, PlaceInv, Moves, Keeps, Writes,
     conversation, locals, remote, agent, hooks, callers

\* A snapshot is written to the binding, then to the record of its context.
LEMMA WriteBindingDoes ==
  ASSUME TypeOK, TaskInv, QueueInv, NEW m \in Messages, WriteBinding(m)
  PROVE  /\ pc[m] \in {"sent", "ending"} /\ HasTask(m) /\ queue[m] # <<>>
         /\ Binds(m, Record(m))
         /\ UNCHANGED <<pc, exec, conversation, base, previous, locked, queue, agent, net>>
  BY DEF WriteBinding, SaveBinding, QueueInv, TypeOK, Binds, conversation, locals, remote,
     agent, hooks, callers

\* The lock of a context just learned is taken when it is free.
LEMMA LeaseDoes ==
  ASSUME TypeOK, TaskInv, QueueInv, NEW m \in Messages, LeaseContext(m)
  PROVE  /\ pc[m] \in {"sent", "ending"} /\ HasTask(m)
         /\ locked[m] = None /\ locked'[m] = ctxOf[taskOf[m]] /\ Keeps(m)
         /\ ctxOf[taskOf[m]] \in Contexts /\ ContextFree(ctxOf[taskOf[m]])
         /\ UNCHANGED <<pc, store, conversation, base, previous, hooks, agent, net>>
<1>1. HasTask(m) /\ queue[m] # <<>> /\ ctxOf[taskOf[m]] \in Contexts
  BY HalfHasTask DEF LeaseContext
<1> QED
  BY <1>1 DEF LeaseContext, QueueInv, TypeOK, Keeps, conversation, locals, remote, agent, hooks,
     callers

\* The head of the queue is written to the record of the context.
LEMMA WriteContextDoes ==
  ASSUME TypeOK, TaskInv, QueueInv, NEW m \in Messages, WriteContext(m)
  PROVE  /\ pc[m] \in {"sent", "ending"} /\ HasTask(m) /\ queue[m] # <<>>
         /\ ctxOf[taskOf[m]] \in Contexts /\ locked[m] # None
         /\ Writes(ctxOf[taskOf[m]], Record(m))
         /\ m \notin half' /\ queue'[m] = Tail(queue[m])
         /\ \A n \in Messages : n # m => queue'[n] = queue[n] /\ (n \in half' <=> n \in half)
         /\ UNCHANGED <<pc, bind, conversation, base, previous, locked, agent, net>>
<1>1. HasTask(m) /\ queue[m] # <<>> /\ ctxOf[taskOf[m]] \in Contexts
  BY HalfHasTask DEF WriteContext
<1> QED
  BY <1>1 DEF WriteContext, SaveContext, QueueInv, TypeOK, Writes, conversation, locals, remote,
     agent, hooks, callers

\* A direct reply leaves two records that name no task.
LEMMA ReplyBindingDoes ==
  ASSUME TypeOK, NEW m \in Messages, ReplyBinding(m)
  PROVE  /\ Moves(m, {"replied"}, {"replyContext"})
         /\ Binds(m, Completed(m))
         /\ UNCHANGED <<exec, conversation, base, previous, locked, hooks, agent, net>>
  BY DEF ReplyBinding, SaveBinding, Goto, TypeOK, Moves, Binds, conversation, locals, writer,
     remote, agent, hooks, callers

\* A direct answer is to a message that began no task, or to one that follows one.
LEMMA Replies ==
  ASSUME TypeOK, TaskInv, PlaceInv, NEW m \in Messages, pc[m] \in {"replied", "replyContext"}
  PROVE  /\ Where(m) \in Contexts /\ (ctx[m] # None => Where(m) = ctx[m])
         /\ ctx[m] = None => taskOf[m] = m /\ Where(m) = ctxOf[m]
         /\ taskOf[m] # None => taskOf[m] = m /\ state[m] = "reply" /\ Where(m) = ctxOf[m]
         /\ taskOf[m] = None => follow[m] # None /\ m \in answered
<1>1. CASE taskOf[m] = m /\ state[m] = "reply"
  <2>1. ctxOf[m] \in Contexts
    BY <1>1, Begun
  <2> QED
    BY <1>1, <2>1, NoneAssumption DEF Where, TaskInv
<1>2. CASE taskOf[m] = None /\ follow[m] # None /\ m \in answered
  <2>1. ctxOf[m] = None /\ ctx[m] = ctxOf[follow[m]] /\ state[follow[m]] \in Started /\ follow[m] \in Messages
    BY <1>2 DEF TaskInv, TypeOK
  <2>2. ctxOf[follow[m]] \in Contexts
    BY <2>1, Begun DEF Started
  <2> QED
    BY <1>2, <2>1, <2>2, NoneAssumption DEF Where
<1> QED
  BY <1>1, <1>2 DEF PlaceInv

\* A direct answer completes the record of the context.
LEMMA ReplyContextDoes ==
  ASSUME TypeOK, TaskInv, PlaceInv, NEW m \in Messages, ReplyContext(m)
  PROVE  /\ Moves(m, {"replyContext"}, {"done"}) /\ Where(m) \in Contexts
         /\ Keeps(m) /\ locked'[m] = None
         /\ locked[m] = None => ContextFree(Where(m))
         /\ Writes(Where(m), Completed(m))
         /\ UNCHANGED <<bind, conversation, base, previous, hooks, agent, net>>
<1>1. Where(m) \in Contexts
  BY Replies DEF ReplyContext
<1> QED
  BY <1>1 DEF ReplyContext, SaveContext, End, TypeOK, Moves, Keeps, Writes, conversation,
     locals, remote, agent, hooks, callers

\* A message arrives: it goes to its task, or begins one in a context.
LEMMA ReceiveDoes ==
  ASSUME TypeOK, TaskInv, NetInv, NEW m \in Messages, Receive(m)
  PROVE  /\ m \in net /\ net' = net \ {m}
         /\ UNCHANGED <<pc, store, conversation, base, previous, locked, hooks>>
         /\ taskOf[m] = None /\ state[m] = "none" /\ ctxOf[m] = None
         /\ taskOf'[m] = Task(m) /\ \A n \in Messages : n # m => taskOf'[n] = taskOf[n]
         /\ \A n \in Messages : n # m \/ follow[m] # None => ctxOf'[n] = ctxOf[n]
         /\ \A t \in Messages : t # m \/ follow[m] # None =>
              state'[t] = IF t = follow[m] /\ state[t] = "interrupted" THEN "working" ELSE state[t]
         /\ follow[m] = None =>
              /\ state'[m] \in {"working", "reply"} /\ ctxOf'[m] \in Contexts
              /\ \/ ctxOf'[m] = ctx[m]
                 \/ /\ ctx[m] = None /\ exec[ctxOf'[m]].ctx = None
                    /\ \A n \in Messages : ctxOf'[m] \notin {ctx[n], ctxOf[n]}
<1> USE DEF TypeOK, Task
<1>1. /\ m \in net /\ net' = net \ {m}
      /\ UNCHANGED <<pc, store, conversation, base, previous, locked, hooks>>
      /\ taskOf[m] = None /\ state[m] = "none" /\ ctxOf[m] = None
  BY DEF Receive, NetInv, TaskInv, conversation, locals, writer, hooks, callers
<1>2. CASE follow[m] # None
  <2>1. /\ taskOf' = [taskOf EXCEPT ![m] = follow[m]] /\ ctxOf' = ctxOf
        /\ state' = [state EXCEPT ![follow[m]] = IF @ = "interrupted" THEN "working" ELSE @]
    BY <1>2 DEF Receive
  <2> QED
    BY <1>1, <1>2, <2>1
<1>3. CASE follow[m] = None
  <2>1. PICK s \in {"working", "reply"}, c \in Contexts :
          /\ taskOf' = [taskOf EXCEPT ![m] = m] /\ state' = [state EXCEPT ![m] = s]
          /\ ctxOf' = [ctxOf EXCEPT ![m] = c]
          /\ \/ c = ctx[m]
             \/ ctx[m] = None /\ exec[c].ctx = None /\ \A n \in Messages : c \notin {ctx[n], ctxOf[n]}
    BY <1>3 DEF Receive
  <2>2. \A t \in Messages : t # m => state'[t] = state[t]
    BY <2>1
  <2>3. \A t \in Messages : t # follow[m]
    BY <1>3, NoneAssumption
  <2> QED
    BY <1>1, <1>3, <2>1, <2>2, <2>3
<1> QED
  BY <1>2, <1>3

\* A task that works stops.
LEMMA WorkDoes ==
  ASSUME TypeOK, NEW m \in Messages, Work(m)
  PROVE  /\ state[m] = "working" /\ state'[m] \in {"interrupted", "final"}
         /\ \A t \in Messages : t # m => state'[t] = state[t]
         /\ UNCHANGED <<pc, store, conversation, base, previous, locked, hooks, net, taskOf, ctxOf>>
  BY DEF Work, Stopped, TypeOK, conversation, locals, writer, hooks, callers

\* An operator writes the truth while nothing is under way.
LEMMA ReconcileDoes ==
  ASSUME TypeOK, NEW m \in Messages, Reconcile(m)
  PROVE  /\ pc[m] \in {"done", "dead"} /\ m \notin net
         /\ \A n \in Messages : ~Under(n)
         /\ \/ \E s \in Scopes : bind[s].msg = m /\ Unknown(bind[s])
            \/ \E c \in Contexts : exec[c].msg = m /\ Unknown(exec[c])
         /\ \A s \in Scopes : bind'[s] = IF bind[s].msg = m THEN Truth(m) ELSE bind[s]
         /\ \A c \in Contexts : exec'[c] = IF exec[c].msg \in {m, None} /\ c = Truth(m).ctx
                                           THEN Truth(m) ELSE exec[c]
         /\ UNCHANGED <<pc, conversation, base, previous, locked, hooks, net, agent>>
  BY DEF Reconcile, TypeOK, conversation, locals, writer, remote, agent, hooks, callers

\* A death takes the locks and the queues along.
LEMMA DieDoes ==
  ASSUME TypeOK, Die
  PROVE  /\ \A n \in Messages : pc'[n] = IF Under(n) THEN "dead" ELSE pc[n]
         /\ \A n \in Messages : locked'[n] = None /\ queue'[n] = <<>> /\ n \notin half'
         /\ UNCHANGED <<store, conversation, base, previous, net, agent>>
  BY DEF Die, TypeOK, conversation, locals, remote, agent, callers

\* The steps, grouped by what they do.
LEMMA Steps ==
  ASSUME [Next]_vars
  PROVE  \/ \E m \in Messages :
              \/ Begin(m) \/ EnterContext(m) \/ ReadBack(m) \/ Finishes(m) \/ Advances(m) \/ Waits(m)
              \/ JournalBinding(m) \/ JournalContext(m) \/ RollBack(m) \/ RollBackContext(m)
              \/ WriteBinding(m) \/ LeaseContext(m) \/ WriteContext(m)
              \/ ReplyBinding(m) \/ ReplyContext(m) \/ Receive(m) \/ Work(m) \/ Reconcile(m)
         \/ Die
         \/ UNCHANGED vars
  BY DEF Next, Step, Finishes, Advances, Waits

\* A scope is locked, and its binding is what the holder of the lock has written.
LEMMA NextBinding ==
  ASSUME TypeOK, TaskInv, PlaceInv, AnsweredInv, NetInv, QueueInv, BindingInv, [Next]_vars
  PROVE  BindingInv'
<1>0. /\ \A n \in Messages : pc[n] # "idle" => Pending(n)' = Pending(n)
      /\ \A n \in Messages : scope[n] \in Scopes /\ Pending(n).msg = n /\ Record(n).msg = n
  BY BegunKept, RecordMessages DEF TypeOK
<1>1. ASSUME NEW m \in Messages, Begin(m) PROVE BindingInv'
  BY <1>1, BeginDoes, <1>0 DEF BindingInv, Under, ScopeFree, Moves, store
<1>2. ASSUME NEW m \in Messages, EnterContext(m) PROVE BindingInv'
  BY <1>2, EnterDoes, <1>0 DEF BindingInv, Under, Moves, Binds, store, conversation
<1>3. ASSUME NEW m \in Messages, ReadBack(m) PROVE BindingInv'
  BY <1>3, ReadBackDoes, <1>0 DEF BindingInv, Under, Moves, Binds, store, conversation
<1>4. ASSUME NEW m \in Messages, Finishes(m) PROVE BindingInv'
  BY <1>4, FinishDoes, <1>0 DEF BindingInv, Under, Moves, Binds, store, conversation
<1>5. ASSUME NEW m \in Messages, Advances(m) PROVE BindingInv'
  BY <1>5, AdvanceDoes, <1>0 DEF BindingInv, Under, Moves, Binds, store, conversation
<1>6. ASSUME NEW m \in Messages, Waits(m) PROVE BindingInv'
  <2>1. UNCHANGED <<pc, bind, scope, base>>
    BY <1>6, WaitDoes DEF store, conversation, agent
  <2> QED
    BY <2>1, <1>0 DEF BindingInv, Under
<1>7. ASSUME NEW m \in Messages, JournalBinding(m) PROVE BindingInv'
  BY <1>7, JournalDoes, <1>0 DEF BindingInv, Under, Moves, Binds, store, conversation
<1>8. ASSUME NEW m \in Messages, JournalContext(m) PROVE BindingInv'
  BY <1>8, JournalContextDoes, <1>0 DEF BindingInv, Under, Moves, Binds, store, conversation
<1>9. ASSUME NEW m \in Messages, RollBack(m) PROVE BindingInv'
  BY <1>9, RollBackDoes, <1>0 DEF BindingInv, Under, Moves, Binds, store, conversation
<1>10. ASSUME NEW m \in Messages, RollBackContext(m) PROVE BindingInv'
  BY <1>10, RollBackContextDoes, <1>0 DEF BindingInv, Under, Moves, Binds, store, conversation
<1>11. ASSUME NEW m \in Messages, WriteBinding(m) PROVE BindingInv'
  BY <1>11, WriteBindingDoes, <1>0 DEF BindingInv, Under, Moves, Binds, store, conversation
<1>12. ASSUME NEW m \in Messages, LeaseContext(m) PROVE BindingInv'
  BY <1>12, LeaseDoes, <1>0 DEF BindingInv, Under, Moves, Binds, store, conversation
<1>13. ASSUME NEW m \in Messages, WriteContext(m) PROVE BindingInv'
  BY <1>13, WriteContextDoes, <1>0 DEF BindingInv, Under, Moves, Binds, store, conversation
<1>14. ASSUME NEW m \in Messages, ReplyBinding(m) PROVE BindingInv'
  BY <1>14, ReplyBindingDoes, <1>0 DEF BindingInv, Under, Moves, Binds, store, conversation
<1>15. ASSUME NEW m \in Messages, ReplyContext(m) PROVE BindingInv'
  BY <1>15, ReplyContextDoes, <1>0 DEF BindingInv, Under, Moves, Binds, store, conversation
<1>16. ASSUME NEW m \in Messages, Receive(m) PROVE BindingInv'
  BY <1>16, ReceiveDoes, <1>0 DEF BindingInv, Under, Moves, Binds, store, conversation
<1>17. ASSUME NEW m \in Messages, Work(m) PROVE BindingInv'
  BY <1>17, WorkDoes, <1>0 DEF BindingInv, Under, Moves, Binds, store, conversation
<1>18. ASSUME NEW m \in Messages, Reconcile(m) PROVE BindingInv'
  BY <1>18, ReconcileDoes, <1>0 DEF BindingInv, Under, Moves, Binds, store, conversation
<1>19. CASE Die
  BY <1>19, DieDoes, <1>0 DEF BindingInv, Under, Moves, Binds, store, conversation
<1>20. CASE UNCHANGED vars
  BY <1>20, <1>0 DEF vars, store, locals, writer, remote, callers, BindingInv, Under, Moves,
     Binds, store, conversation
<1> QED
  BY <1>1, <1>2, <1>3, <1>4, <1>5, <1>6, <1>7, <1>8, <1>9, <1>10, <1>11, <1>12, <1>13, <1>14,
     <1>15, <1>16, <1>17, <1>18, <1>19, <1>20, Steps

\* An invocation without a context has learned it of its own task.
LEMMA Learner ==
  ASSUME TypeOK, TaskInv, NEW m \in Messages, ctx[m] = None
  PROVE  /\ follow[m] = None /\ Task(m) = m
         /\ taskOf[m] # None => taskOf[m] = m /\ ctxOf[m] \in Contexts /\ state[m] # "none"
<1>1. follow[m] = None
  <2> SUFFICES ASSUME follow[m] # None PROVE FALSE
    OBVIOUS
  <2>1. follow[m] \in Messages /\ state[follow[m]] \in Started /\ ctx[m] = ctxOf[follow[m]]
    BY DEF TypeOK, TaskInv
  <2>2. ctxOf[follow[m]] \in Contexts
    BY <2>1, Begun DEF Started
  <2> QED
    BY <2>1, <2>2, NoneAssumption
<1> QED
  BY <1>1, Begun DEF TaskInv, Task

\* What a task is and where it works does not change, and it ends once.
LEMMA TaskKept ==
  ASSUME TypeOK, TaskInv, NetInv, [Next]_vars, NEW n \in Messages, taskOf[n] # None
  PROVE  /\ taskOf'[n] = taskOf[n] /\ ctxOf'[n] = ctxOf[n] /\ taskOf[n] \in Messages /\ taskOf[n] = Task(n)
         /\ state[taskOf[n]] # "none" /\ ctxOf[taskOf[n]] \in Contexts /\ taskOf[taskOf[n]] = taskOf[n]
         /\ \A t \in Messages : state[t] # "none" =>
              /\ taskOf'[t] = taskOf[t] /\ ctxOf'[t] = ctxOf[t]
              /\ state[t] \in {"final", "reply"} => state'[t] = state[t]
              /\ state[t] \in Started => state'[t] \in Started
<1>1. taskOf[n] \in Messages /\ taskOf[n] = Task(n)
  BY DEF TypeOK, TaskInv
<1>2. state[taskOf[n]] # "none"
  BY <1>1 DEF TaskInv, Task, Started
<1>3. ctxOf[taskOf[n]] \in Contexts /\ taskOf[taskOf[n]] = taskOf[n]
  BY <1>1, <1>2, Begun
<1>4. ASSUME NEW m \in Messages, Begin(m) PROVE UNCHANGED <<taskOf, ctxOf, state>>
  BY <1>4 DEF Begin, remote
<1>5. ASSUME NEW m \in Messages, Receive(m),
             NEW t \in Messages, state[t] # "none" \/ taskOf[t] # None
      PROVE  /\ taskOf'[t] = taskOf[t]
             /\ ctxOf'[t] = ctxOf[t]
             /\ state[t] # "none" =>
                  /\ state[t] \in {"final", "reply"} => state'[t] = state[t]
                  /\ state[t] \in Started => state'[t] \in Started
  <2>1. t # m
    BY <1>5, ReceiveDoes
  <2> QED
    BY <1>5, <2>1, ReceiveDoes DEF Started
<1>6. ASSUME NEW m \in Messages, Work(m)
      PROVE  /\ UNCHANGED <<taskOf, ctxOf>>
             /\ \A t \in Messages :
                  /\ state[t] \in {"final", "reply"} => state'[t] = state[t]
                  /\ state[t] \in Started => state'[t] \in Started
  BY <1>6, WorkDoes DEF Started
<1> QED
  BY <1>1, <1>2, <1>3, <1>4, <1>5, <1>6, TaskSteps

\* A context is locked by the invocation that works in it.
LEMMA NextLock ==
  ASSUME TypeOK, TaskInv, PlaceInv, AnsweredInv, NetInv, QueueInv, LockInv, [Next]_vars
  PROVE  LockInv'
<1>0. \A n \in Messages : pc[n] # "idle" => ctx'[n] = ctx[n]
  BY BegunKept
<1>00. \A n \in Messages : HasTask(n) => HasTask(n)' /\ ctxOf'[n] = ctxOf[n]
  <2> SUFFICES ASSUME NEW n \in Messages, HasTask(n) PROVE HasTask(n)' /\ ctxOf'[n] = ctxOf[n]
    OBVIOUS
  <2>1. state[taskOf[n]] \in Started /\ taskOf[n] \in Messages /\ taskOf[n] # None
    BY SeenTypes DEF HasTask
  <2>2. taskOf'[n] = taskOf[n] /\ ctxOf'[n] = ctxOf[n] /\ state'[taskOf[n]] \in Started
    BY <2>1, TaskKept DEF Started
  <2> QED
    BY <2>1, <2>2 DEF HasTask, Started
<1>1. ASSUME NEW m \in Messages, Begin(m) PROVE LockInv'
  BY <1>1, BeginDoes, <1>0 DEF LockInv, HasTask, Under, Moves, Keeps, ContextFree, conversation,
     agent, store, PlaceInv
<1>2. ASSUME NEW m \in Messages, EnterContext(m) PROVE LockInv'
  BY <1>2, EnterDoes, <1>0 DEF LockInv, HasTask, Under, Moves, Keeps, ContextFree, conversation,
     agent, store, PlaceInv
<1>3. ASSUME NEW m \in Messages, ReadBack(m) PROVE LockInv'
  BY <1>3, ReadBackDoes, <1>0 DEF LockInv, HasTask, Under, Moves, Keeps, ContextFree,
     conversation, agent, store, PlaceInv
<1>4. ASSUME NEW m \in Messages, Finishes(m) PROVE LockInv'
  BY <1>4, FinishDoes, <1>0 DEF LockInv, HasTask, Under, Moves, Keeps, ContextFree,
     conversation, agent, store, PlaceInv
<1>5. ASSUME NEW m \in Messages, Advances(m) PROVE LockInv'
  BY <1>5, AdvanceDoes, <1>0 DEF LockInv, HasTask, Under, Moves, Keeps, ContextFree,
     conversation, agent, store, PlaceInv
<1>6. ASSUME NEW m \in Messages, Waits(m) PROVE LockInv'
  <2>1. UNCHANGED <<pc, ctx, ctxOf, locked, taskOf, state>>
    BY <1>6, WaitDoes DEF store, conversation, agent
  <2> QED
    BY <2>1, <1>0 DEF LockInv, Under, HasTask
<1>7. ASSUME NEW m \in Messages, JournalBinding(m) PROVE LockInv'
  BY <1>7, JournalDoes, <1>0 DEF LockInv, HasTask, Under, Moves, Keeps, ContextFree,
     conversation, agent, store, PlaceInv
<1>8. ASSUME NEW m \in Messages, JournalContext(m) PROVE LockInv'
  BY <1>8, JournalContextDoes, <1>0 DEF LockInv, HasTask, Under, Moves, Keeps, ContextFree,
     conversation, agent, store, PlaceInv
<1>9. ASSUME NEW m \in Messages, RollBack(m) PROVE LockInv'
  BY <1>9, RollBackDoes, <1>0 DEF LockInv, HasTask, Under, Moves, Keeps, ContextFree,
     conversation, agent, store, PlaceInv
<1>10. ASSUME NEW m \in Messages, RollBackContext(m) PROVE LockInv'
  BY <1>10, RollBackContextDoes, <1>0 DEF LockInv, HasTask, Under, Moves, Keeps, ContextFree,
     conversation, agent, store, PlaceInv
<1>11. ASSUME NEW m \in Messages, WriteBinding(m) PROVE LockInv'
  BY <1>11, WriteBindingDoes, <1>0 DEF LockInv, HasTask, Under, Moves, Keeps, ContextFree,
     conversation, agent, store, PlaceInv
<1>12. ASSUME NEW m \in Messages, LeaseContext(m) PROVE LockInv'
  <2>1. ctx[m] = None
    BY <1>12, LeaseDoes DEF LockInv, Under
  <2>2. taskOf[m] = m
    BY <1>12, <2>1, LeaseDoes, Learner DEF HasTask
  <2> QED
    BY <1>12, LeaseDoes, <1>0, <2>1, <2>2, NoneAssumption DEF LockInv, Under, Keeps,
       ContextFree, conversation, agent, HasTask
<1>13. ASSUME NEW m \in Messages, WriteContext(m) PROVE LockInv'
  BY <1>13, WriteContextDoes, <1>0 DEF LockInv, HasTask, Under, Moves, Keeps, ContextFree,
     conversation, agent, store, PlaceInv
<1>14. ASSUME NEW m \in Messages, ReplyBinding(m) PROVE LockInv'
  BY <1>14, ReplyBindingDoes, <1>0 DEF LockInv, HasTask, Under, Moves, Keeps, ContextFree,
     conversation, agent, store, PlaceInv
<1>15. ASSUME NEW m \in Messages, ReplyContext(m) PROVE LockInv'
  BY <1>15, ReplyContextDoes, <1>0 DEF LockInv, HasTask, Under, Moves, Keeps, ContextFree,
     conversation, agent, store, PlaceInv
<1>16. ASSUME NEW m \in Messages, Receive(m) PROVE LockInv'
  BY <1>0, <1>00, <1>16, ReceiveDoes DEF LockInv, Under, conversation
<1>17. ASSUME NEW m \in Messages, Work(m) PROVE LockInv'
  BY <1>0, <1>00, <1>17, WorkDoes DEF LockInv, Under, conversation
<1>18. ASSUME NEW m \in Messages, Reconcile(m) PROVE LockInv'
  BY <1>18, ReconcileDoes, <1>0 DEF LockInv, HasTask, Under, Moves, Keeps, ContextFree,
     conversation, agent, store, PlaceInv
<1>19. CASE Die
  BY <1>19, DieDoes, <1>0 DEF LockInv, HasTask, Under, Moves, Keeps, ContextFree, conversation,
     agent, store, PlaceInv
<1>20. CASE UNCHANGED vars
  BY <1>20, <1>0 DEF vars, store, locals, writer, remote, callers, LockInv, HasTask, Under,
     Moves, Keeps, ContextFree, conversation, agent, store, PlaceInv
<1> QED
  BY <1>1, <1>2, <1>3, <1>4, <1>5, <1>6, <1>7, <1>8, <1>9, <1>10, <1>11, <1>12, <1>13, <1>14,
     <1>15, <1>16, <1>17, <1>18, <1>19, <1>20, Steps

-----------------------------------------------------------------------------
(* Records stay true.                                                      *)

\* An invocation does not come back to a place before its journal.
LEMMA PlaceKept ==
  ASSUME TypeOK, TaskInv, PlaceInv, AnsweredInv, NetInv, QueueInv, [Next]_vars, NEW n \in Messages
  PROVE  /\ pc[n] \notin {"idle", "bound", "loaded", "ready"} => pc'[n] \notin {"idle", "bound", "loaded", "ready"}
         /\ pc[n] \in {"done", "dead"} => pc'[n] \in {"done", "dead"}
         /\ scope'[n] = scope[n]
<1> DEFINE P == /\ pc[n] \notin {"idle", "bound", "loaded", "ready"} => pc'[n] \notin {"idle", "bound", "loaded", "ready"}
                /\ pc[n] \in {"done", "dead"} => pc'[n] \in {"done", "dead"}
                /\ scope'[n] = scope[n]
<1> USE DEF Moves, conversation
<1>1. ASSUME NEW m \in Messages, Begin(m) \/ EnterContext(m) \/ ReadBack(m) PROVE P
  BY <1>1, BeginDoes, EnterDoes, ReadBackDoes
<1>2. ASSUME NEW m \in Messages, Finishes(m) PROVE P
  BY <1>2, FinishDoes
<1>3. ASSUME NEW m \in Messages, Advances(m) PROVE P
  BY <1>3, AdvanceDoes
<1>4. ASSUME NEW m \in Messages, Waits(m) PROVE P
  <2>1. UNCHANGED <<pc, scope>>
    BY <1>4, WaitDoes
  <2> QED
    BY <2>1
<1>5. ASSUME NEW m \in Messages, JournalBinding(m) \/ JournalContext(m) PROVE P
  BY <1>5, JournalDoes, JournalContextDoes
<1>6. ASSUME NEW m \in Messages, RollBack(m) \/ RollBackContext(m) PROVE P
  BY <1>6, RollBackDoes, RollBackContextDoes
<1>7. ASSUME NEW m \in Messages, WriteBinding(m) \/ LeaseContext(m) \/ WriteContext(m) PROVE P
  BY <1>7, WriteBindingDoes, LeaseDoes, WriteContextDoes
<1>8. ASSUME NEW m \in Messages, ReplyBinding(m) \/ ReplyContext(m) PROVE P
  BY <1>8, ReplyBindingDoes, ReplyContextDoes
<1>9. ASSUME NEW m \in Messages, Receive(m) \/ Work(m) \/ Reconcile(m) PROVE P
  BY <1>9, ReceiveDoes, WorkDoes, ReconcileDoes
<1>10. CASE Die
  BY <1>10, DieDoes DEF Under
<1>11. CASE UNCHANGED vars
  BY <1>11 DEF vars, callers
<1> QED
  BY <1>1, <1>2, <1>3, <1>4, <1>5, <1>6, <1>7, <1>8, <1>9, <1>10, <1>11, Steps

\* A record that is true stays true, whatever happens.
LEMMA TrueKept ==
  ASSUME TypeOK, TaskInv, PlaceInv, AnsweredInv, NetInv, QueueInv, [Next]_vars, NEW r \in Records, TrueRecord(r)
  PROVE  TrueRecord(r)'
<1>1. CASE r.msg = None
  BY <1>1 DEF TrueRecord, Empty
<1>2. CASE r.msg # None
  <2> DEFINE n == r.msg
  <2>1. n \in Messages /\ pc[n] \notin {"idle", "bound", "loaded", "ready"}
    BY <1>2, RecordFields DEF TrueRecord
  <2>2. pc'[n] \notin {"idle", "bound", "loaded", "ready"} /\ pc[n] # "idle"
    BY <2>1, PlaceKept
  <2>3. Pending(n)' = Pending(n) /\ Task(n)' = Task(n)
    BY <2>1, <2>2, BegunKept DEF Task
  <2>4. CASE r = Pending(n)
    BY <1>2, <2>2, <2>3, <2>4 DEF TrueRecord
  <2>5. CASE r # Pending(n)
    <3>1. /\ r.task = Task(n) /\ state[r.task] \in Started /\ r.ctx = ctxOf[r.task]
          /\ r.state \in Started /\ r.pending = (r.state # "final")
          /\ r.state = "final" => state[r.task] = "final"
      BY <1>2, <2>5 DEF TrueRecord
    <3>2. r.task \in Messages
      BY <2>1, <3>1, RecordFields, NoneAssumption DEF Task, TypeOK
    <3>3. taskOf[r.task] = r.task
      BY <3>1, <3>2, Begun DEF Started
    <3>4. taskOf[r.task] # None
      BY <3>2, <3>3, NoneAssumption
    <3>5. /\ ctxOf'[r.task] = ctxOf[r.task] /\ state'[r.task] \in Started
          /\ state[r.task] = "final" => state'[r.task] = "final"
      BY <3>1, <3>2, <3>4, TaskKept DEF Started
    <3> QED
      BY <1>2, <2>2, <2>3, <3>1, <3>5 DEF TrueRecord
  <2> QED
    BY <2>4, <2>5
<1> QED
  BY <1>1, <1>2

\* A record of a task names the context of the task, to which its message belongs.
LEMMA RecordContext ==
  ASSUME TypeOK, TaskInv, NEW r \in Records, TrueRecord(r), r.msg # None, r.ctx # None
  PROVE  /\ r.msg \in Messages /\ Belongs(r, r.ctx)
         /\ r.task # None => r.ctx = ctxOf[r.task]
<1>1. r.msg \in Messages
  BY RecordFields
<1>2. CASE r = Pending(r.msg)
  <2>1. r.ctx = ctx[r.msg] /\ r.task = follow[r.msg]
    BY <1>2 DEF Pending
  <2> QED
    BY <1>1, <2>1 DEF Belongs, TaskInv
<1>3. CASE r # Pending(r.msg)
  <2>1. r.task = Task(r.msg) /\ state[r.task] \in Started /\ r.ctx = ctxOf[r.task]
    BY <1>3 DEF TrueRecord
  <2>2. CASE follow[r.msg] # None
    BY <1>1, <2>1, <2>2 DEF Belongs, TaskInv, Task
  <2>3. CASE follow[r.msg] = None
    <3>1. r.task = r.msg
      BY <2>1, <2>3 DEF Task
    <3>2. taskOf[r.msg] = r.msg
      BY <1>1, <2>1, <3>1, Begun DEF Started
    <3> QED
      BY <1>1, <2>1, <3>1, <3>2 DEF Belongs, TaskInv
  <2> QED
    BY <2>2, <2>3
<1> QED
  BY <1>2, <1>3

\* Reading a task back makes a true record of the same message, task and context.
LEMMA SnapshotTrue ==
  ASSUME TypeOK, TaskInv, NEW r \in Records, TrueRecord(r), Opened(r)
  PROVE  LET q == Snapshot(r.task, r.msg) IN
         /\ q \in Records /\ TrueRecord(q)
         /\ q.msg = r.msg /\ q.task = r.task /\ q.ctx = r.ctx /\ r.ctx \in Contexts
<1>1. /\ r.task \in Messages /\ state[r.task] \in Started /\ ctxOf[r.task] \in Contexts
      /\ r.msg \in Messages /\ r.task = Task(r.msg)
  BY RecordTask DEF Opened
<1>2. r.ctx = ctxOf[r.task]
  <2>1. CASE r = Pending(r.msg)
    <3>1. r.ctx = ctx[r.msg] /\ r.task = follow[r.msg]
      BY <2>1 DEF Pending
    <3> QED
      BY <1>1, <3>1, NoneAssumption DEF TaskInv
  <2>2. CASE r # Pending(r.msg)
    BY <1>1, <2>2, NoneAssumption DEF TrueRecord
  <2> QED
    BY <2>1, <2>2
<1>3. pc[r.msg] \notin {"idle", "bound", "loaded", "ready"}
  BY <1>1, NoneAssumption DEF TrueRecord
<1>4. Snapshot(r.task, r.msg) \in Records
  BY <1>1, RecordTypes
<1> QED
  BY <1>1, <1>2, <1>3, <1>4, NoneAssumption DEF TrueRecord, Snapshot

\* What an invocation writes of its task is true.
LEMMA RecordTrue ==
  ASSUME TypeOK, TaskInv, QueueInv, NEW m \in Messages, HasTask(m), queue[m] # <<>>
  PROVE  /\ Record(m) \in Records /\ TrueRecord(Record(m))
         /\ Record(m).msg = m /\ Record(m).ctx = ctxOf[taskOf[m]]
         /\ Belongs(Record(m), ctxOf[taskOf[m]])
<1>1. /\ taskOf[m] \in Messages /\ taskOf[m] = Task(m) /\ state[taskOf[m]] \in Started
      /\ ctxOf[taskOf[m]] \in Contexts
  BY SeenTypes
<1>2. Record(m) \in Records /\ Head(queue[m]) \in Snapshots
  BY QueueTypes
<1>3. Head(queue[m]).state \in Started
  BY <1>2 DEF Snapshots, Started
<1>4. queue[m] \in Seq(Snapshots) /\ Len(queue[m]) \in Nat /\ Len(queue[m]) >= 1 /\ Head(queue[m]) = queue[m][1]
  BY EmptySeq, LenProperties DEF TypeOK
<1>5. Head(queue[m]).state = "final" => state[taskOf[m]] = "final"
  BY <1>4 DEF QueueInv
<1>6. pc[m] \in {"sent", "ending"}
  BY DEF QueueInv
<1>7. TrueRecord(Record(m)) /\ Record(m).msg = m /\ Record(m).ctx = ctxOf[taskOf[m]] /\ Record(m).task = taskOf[m]
  BY <1>1, <1>3, <1>5, <1>6, NoneAssumption DEF TrueRecord, Record
<1>8. Belongs(Record(m), ctxOf[taskOf[m]])
  BY <1>1, <1>2, <1>7, NoneAssumption, RecordContext
<1> QED
  BY <1>2, <1>7, <1>8

\* So is what an operator writes.
LEMMA TruthTrue ==
  ASSUME TypeOK, TaskInv, NEW m \in Messages, pc[m] \in {"done", "dead"}
  PROVE  /\ Truth(m) \in Records /\ TrueRecord(Truth(m)) /\ Truth(m).msg \in {m, None}
         /\ Truth(m).ctx # None => Belongs(Truth(m), Truth(m).ctx)
         /\ KnownContext(Truth(m).ctx)
         /\ Truth(m).ctx # None /\ ctx[m] # None => Truth(m).ctx = ctx[m]
         /\ Truth(m).ctx # None /\ ctx[m] = None => Truth(m).ctx = ctxOf[m]
         /\ \/ Truth(m) = [Empty EXCEPT !.ctx = Truth(m).ctx] /\ (taskOf[m] # None => state[taskOf[m]] = "reply")
                 /\ follow[m] = None
            \/ Truth(m) = Snapshot(Task(m), m) /\ state[Task(m)] \in Started
<1> DEFINE t == IF taskOf[m] # None THEN taskOf[m] ELSE follow[m]
<1>1. t # None => /\ t \in Messages /\ t = Task(m) /\ state[t] # "none" /\ taskOf[t] = t
                  /\ follow[m] # None => state[t] \in Started
  <2> SUFFICES ASSUME t # None
               PROVE  /\ t \in Messages /\ t = Task(m) /\ state[t] # "none" /\ taskOf[t] = t
                      /\ follow[m] # None => state[t] \in Started
    OBVIOUS
  <2>1. t \in Messages /\ t = Task(m)
    BY DEF TypeOK, TaskInv, Task
  <2>2. follow[m] # None => state[t] \in Started
    BY <2>1 DEF TaskInv, Task
  <2>3. follow[m] = None => taskOf[m] = m /\ t = m
    BY <2>1 DEF Task
  <2>4. state[t] # "none"
    BY <2>2, <2>3, Begun DEF Started
  <2> QED
    BY <2>1, <2>2, <2>4, Begun
<1>2. CASE t = None \/ state[t] = "reply"
  <2>1. Truth(m) = [Empty EXCEPT !.ctx = IF ctxOf[m] # None THEN ctxOf[m] ELSE ctx[m]]
    BY <1>2 DEF Truth, Completed, Where
  <2>2. /\ Truth(m).msg = None /\ Truth(m).ctx = IF ctxOf[m] # None THEN ctxOf[m] ELSE ctx[m]
        /\ Truth(m) = [Empty EXCEPT !.ctx = Truth(m).ctx]
    BY <2>1 DEF Empty
  <2>3. ctxOf[m] # None /\ ctx[m] # None => ctx[m] = ctxOf[m]
    BY Begun DEF TaskInv
  <2>4. follow[m] = None
    BY <1>1, <1>2 DEF Started
  <2>5. taskOf[m] # None => state[taskOf[m]] = "reply"
    BY <1>2
  <2> HIDE DEF t
  <2> QED
    BY <2>2, <2>3, <2>4, <2>5, RecordTypes DEF TrueRecord, Belongs, KnownContext
<1>3. CASE ~(t = None \/ state[t] = "reply")
  <2>1. t \in Messages /\ t = Task(m) /\ state[t] \in Started /\ ctxOf[t] \in Contexts
    BY <1>1, <1>3, Begun DEF TypeOK, States, Started
  <2>2. Truth(m) = Snapshot(t, m)
    BY <1>3 DEF Truth
  <2> HIDE DEF t
  <2>3. Truth(m) \in Records /\ TrueRecord(Truth(m)) /\ Truth(m).msg = m /\ Truth(m).ctx = ctxOf[t]
    BY <2>1, <2>2, RecordTypes, NoneAssumption DEF TrueRecord, Snapshot
  <2>4. KnownContext(Truth(m).ctx)
    BY <2>1, <2>3 DEF KnownContext
  <2>5. Belongs(Truth(m), Truth(m).ctx)
    BY <2>1, <2>3, RecordContext, NoneAssumption
  <2>6. IF ctx[m] # None THEN Truth(m).ctx = ctx[m] ELSE Truth(m).ctx = ctxOf[m]
    BY <2>1, <2>3, <2>5, NoneAssumption DEF Belongs
  <2> QED
    BY <2>1, <2>2, <2>3, <2>4, <2>5, <2>6
<1> QED
  BY <1>2, <1>3

\* A context that is known stays known.
LEMMA ContextsKept ==
  ASSUME TypeOK, TaskInv, PlaceInv, AnsweredInv, NetInv, [Next]_vars, NEW n \in Messages
  PROVE  /\ ctx[n] # None => ctx'[n] = ctx[n]
         /\ ctxOf[n] # None => ctxOf'[n] = ctxOf[n]
         /\ ctx[n] # None /\ follow[n] = None => follow'[n] = None
         /\ taskOf[n] # None => taskOf'[n] = taskOf[n]
<1>1. ctx[n] # None => pc[n] # "idle"
  BY DEF PlaceInv
<1>2. ctxOf[n] # None => taskOf[n] # None
  BY DEF TaskInv
<1> QED
  BY <1>1, <1>2, BegunKept, TaskKept

\* Only contexts that are known are written to.
LEMMA WrittenContexts ==
  ASSUME TypeOK, TaskInv, PlaceInv, AnsweredInv, NetInv, QueueInv, [Next]_vars, NEW c \in Contexts
  PROVE  exec'[c] = exec[c] \/ \E n \in Messages : c \in {ctx[n], ctxOf[n]}
<1> DEFINE W == exec'[c] = exec[c] \/ \E n \in Messages : c \in {ctx[n], ctxOf[n]}
<1> USE DEF Writes, store
<1>1. ASSUME NEW m \in Messages, Begin(m) \/ EnterContext(m) PROVE W
  BY <1>1, BeginDoes, EnterDoes
<1>2. ASSUME NEW m \in Messages, ReadBack(m) PROVE W
  BY <1>2, ReadBackDoes
<1>3. ASSUME NEW m \in Messages, Finishes(m) PROVE W
  BY <1>3, FinishDoes
<1>4. ASSUME NEW m \in Messages, Advances(m) PROVE W
  BY <1>4, AdvanceDoes
<1>5. ASSUME NEW m \in Messages, Waits(m) PROVE W
  BY <1>5, WaitDoes
<1>6. ASSUME NEW m \in Messages, JournalBinding(m) \/ JournalContext(m) PROVE W
  BY <1>6, JournalDoes, JournalContextDoes
<1>7. ASSUME NEW m \in Messages, RollBack(m) \/ RollBackContext(m) PROVE W
  BY <1>7, RollBackDoes, RollBackContextDoes
<1>8. ASSUME NEW m \in Messages, WriteBinding(m) \/ LeaseContext(m) PROVE W
  BY <1>8, WriteBindingDoes, LeaseDoes
<1>9. ASSUME NEW m \in Messages, WriteContext(m) PROVE W
  <2>1. taskOf[m] \in Messages
    BY <1>9, WriteContextDoes, SeenTypes
  <2> QED
    BY <1>9, <2>1, WriteContextDoes
<1>10. ASSUME NEW m \in Messages, ReplyBinding(m) PROVE W
  BY <1>10, ReplyBindingDoes
<1>11. ASSUME NEW m \in Messages, ReplyContext(m) PROVE W
  BY <1>11, ReplyContextDoes DEF Where
<1>12. ASSUME NEW m \in Messages, Receive(m) \/ Work(m) PROVE W
  BY <1>12, ReceiveDoes, WorkDoes
<1>13. ASSUME NEW m \in Messages, Reconcile(m) PROVE W
  <2>1. c = Truth(m).ctx => c \in {ctx[m], ctxOf[m]}
    BY <1>13, ReconcileDoes, TruthTrue, NoneAssumption
  <2> QED
    BY <1>13, <2>1, ReconcileDoes
<1>14. CASE Die
  BY <1>14, DieDoes
<1>15. CASE UNCHANGED vars
  BY <1>15 DEF vars
<1> QED
  BY <1>1, <1>2, <1>3, <1>4, <1>5, <1>6, <1>7, <1>8, <1>9, <1>10, <1>11, <1>12, <1>13, <1>14,
     <1>15, Steps

\* A context that is known stays known.
LEMMA KnownKept ==
  ASSUME TypeOK, TaskInv, PlaceInv, AnsweredInv, NetInv, QueueInv, [Next]_vars,
         NEW c \in Contexts \cup {None}, KnownContext(c)
  PROVE  KnownContext(c)'
<1>1. CASE c = None
  BY <1>1 DEF KnownContext
<1>2. ASSUME NEW n \in Messages, c \in {ctx[n], ctxOf[n]}, c # None PROVE KnownContext(c)'
  BY <1>2, ContextsKept DEF KnownContext
<1>3. CASE exec[c].ctx = c /\ c # None
  BY <1>2, <1>3, WrittenContexts DEF KnownContext
<1> QED
  BY <1>1, <1>2, <1>3 DEF KnownContext

\* A record that is right stays right, and stays with its context.
LEMMA GoodKept ==
  ASSUME TypeOK, TaskInv, PlaceInv, AnsweredInv, NetInv, QueueInv, [Next]_vars, NEW r \in Records, GoodRecord(r)
  PROVE  GoodRecord(r)'
<1>1. r.ctx \in Contexts \cup {None}
  BY RecordFields
<1> QED
  BY <1>1, TrueKept, KnownKept DEF GoodRecord

\* A record of a context stays one.
LEMMA BelongsKept ==
  ASSUME TypeOK, TaskInv, PlaceInv, AnsweredInv, NetInv, QueueInv, [Next]_vars,
         NEW r \in Records, TrueRecord(r), NEW c \in Contexts, Belongs(r, c)
  PROVE  Belongs(r, c)'
<1>1. CASE r.msg = None
  BY <1>1 DEF Belongs
<1>2. CASE r.msg # None
  <2>1. r.msg \in Messages /\ pc[r.msg] # "idle"
    BY <1>2, RecordFields DEF TrueRecord
  <2>2. ctx'[r.msg] = ctx[r.msg]
    BY <2>1, BegunKept
  <2>3. ctxOf[r.msg] # None => ctxOf'[r.msg] = ctxOf[r.msg]
    BY <2>1, ContextsKept
  <2> QED
    BY <1>2, <2>2, <2>3, NoneAssumption DEF Belongs
<1> QED
  BY <1>1, <1>2

\* The binding of a scope is of a message of that scope.
LEMMA NextBind ==
  ASSUME TypeOK, TaskInv, RecordInv, PlaceInv, AnsweredInv, NetInv, QueueInv, [Next]_vars, NEW s \in Scopes
  PROVE  GoodRecord(bind[s])' /\ (bind'[s].msg # None => scope'[bind'[s].msg] = s)
<1> DEFINE P == GoodRecord(bind[s])' /\ (bind'[s].msg # None => scope'[bind'[s].msg] = s)
<1>1. bind[s] \in Records /\ GoodRecord(bind[s]) /\ (bind[s].msg # None => scope[bind[s].msg] = s)
  BY DEF TypeOK, RecordInv
<1>2. \A n \in Messages : scope'[n] = scope[n]
  BY PlaceKept
<1>3. ASSUME bind'[s] = bind[s] PROVE P
  <2>1. GoodRecord(bind[s])'
    BY <1>1, <1>3, GoodKept DEF GoodRecord, TrueRecord, KnownContext
  <2>2. bind[s].msg # None => bind[s].msg \in Messages
    BY <1>1, RecordFields
  <2> QED
    BY <1>1, <1>2, <1>3, <2>1, <2>2
<1>4. ASSUME NEW r \in Records, GoodRecord(r), bind'[s] = r, r.msg # None => scope[r.msg] = s
      PROVE  P
  <2>1. GoodRecord(bind[s])'
    BY <1>4, GoodKept DEF GoodRecord, TrueRecord, KnownContext
  <2>2. r.msg # None => r.msg \in Messages
    BY <1>4, RecordFields
  <2> QED
    BY <1>2, <1>4, <2>1, <2>2
<1> HIDE DEF P
<1> USE DEF store
<1>5. ASSUME NEW m \in Messages,
             \/ Begin(m) \/ EnterContext(m) \/ ReadBack(m) \/ Finishes(m) \/ Advances(m) \/ Waits(m)
             \/ JournalContext(m) \/ RollBackContext(m) \/ LeaseContext(m) \/ WriteContext(m) \/ ReplyContext(m)
             \/ Receive(m) \/ Work(m)
      PROVE  bind' = bind
  BY <1>5, BeginDoes, EnterDoes, ReadBackDoes, FinishDoes, AdvanceDoes, WaitDoes,
     JournalContextDoes,
     RollBackContextDoes, LeaseDoes, WriteContextDoes, ReplyContextDoes, ReceiveDoes, WorkDoes
<1>6. CASE Die \/ UNCHANGED vars
  <2>1. bind' = bind
    BY <1>6, DieDoes DEF vars
  <2>2. bind'[s] = bind[s]
    BY <2>1
  <2> QED
    BY <1>3, <2>2 DEF P
<1>7. ASSUME NEW m \in Messages, JournalBinding(m) PROVE P
  <2>1. CASE s # scope[m]
    BY <1>3, <1>7, <2>1, JournalDoes DEF Binds
  <2>2. CASE s = scope[m]
    <3>1. bind'[s] = Pending(m) /\ pc[m] = "ready" /\ pc'[m] \in {"submit",
    "journaled"} /\ ctx' = ctx
      BY <1>7, <2>2, JournalDoes DEF Binds, Moves, conversation
    <3>2. Pending(m)' = Pending(m)
      BY <3>1, BegunKept
    <3>3. bind'[s].msg = m /\ bind'[s].ctx = ctx'[m]
      BY <3>1 DEF Pending
    <3>4. TrueRecord(bind[s])'
      BY <3>1, <3>2, <3>3, NoneAssumption DEF TrueRecord
    <3>5. KnownContext(bind[s].ctx)'
      BY <3>3 DEF KnownContext
    <3> QED
      BY <1>2, <2>2, <3>3, <3>4, <3>5 DEF GoodRecord, P
  <2> QED
    BY <2>1, <2>2
<1>8. ASSUME NEW m \in Messages, RollBack(m) PROVE P
  <2>1. base[m] \in Records /\ GoodRecord(base[m]) /\ (base[m].msg # None => scope[base[m].msg] = scope[m])
    BY DEF TypeOK, RecordInv
  <2> QED
    BY <1>3, <1>4, <1>8, <2>1, RollBackDoes DEF Binds
<1>9. ASSUME NEW m \in Messages, WriteBinding(m) PROVE P
  <2>1. HasTask(m) /\ queue[m] # <<>>
    BY <1>9, WriteBindingDoes
  <2>2. Record(m) \in Records /\ GoodRecord(Record(m)) /\ Record(m).msg = m
    BY <2>1, RecordTrue, SeenTypes DEF GoodRecord, KnownContext
  <2> QED
    BY <1>3, <1>4, <1>9, <2>2, WriteBindingDoes DEF Binds
<1>10. ASSUME NEW m \in Messages, ReplyBinding(m) PROVE P
  <2>1. Completed(m) \in Records /\ GoodRecord(Completed(m)) /\ Completed(m).msg = None
    BY RecordTypes DEF GoodRecord, KnownContext, Completed, Where, TrueRecord, Empty
  <2> QED
    BY <1>3, <1>4, <1>10, <2>1, ReplyBindingDoes DEF Binds
<1>11. ASSUME NEW m \in Messages, Reconcile(m) PROVE P
  <2>1. Truth(m) \in Records /\ GoodRecord(Truth(m)) /\ Truth(m).msg \in {m, None}
    BY <1>11, ReconcileDoes, TruthTrue DEF GoodRecord
  <2>2. CASE bind[s].msg = m
    <3>1. scope[m] = s /\ bind'[s] = Truth(m)
      BY <1>1, <1>11, <2>2, ReconcileDoes, NoneAssumption
    <3> QED
      BY <1>4, <2>1, <3>1
  <2>3. CASE bind[s].msg # m
    BY <1>3, <1>11, <2>3, ReconcileDoes
  <2> QED
    BY <2>2, <2>3
<1> QED
  BY <1>3, <1>5, <1>6, <1>7, <1>8, <1>9, <1>10, <1>11, Steps DEF P

\* The record of a context is of a message of that context.
LEMMA NextExec ==
  ASSUME TypeOK, TaskInv, RecordInv, PlaceInv, AnsweredInv, NetInv, QueueInv, [Next]_vars, NEW c \in Contexts
  PROVE  GoodRecord(exec[c])' /\ Belongs(exec[c], c)'
<1> DEFINE P == GoodRecord(exec[c])' /\ Belongs(exec[c], c)'
<1>1. exec[c] \in Records /\ GoodRecord(exec[c]) /\ Belongs(exec[c], c)
  BY DEF TypeOK, RecordInv
<1>2. ASSUME NEW r \in Records, GoodRecord(r), exec'[c] = r, Belongs(r, c)
      PROVE  P
  <2>1. GoodRecord(exec[c])'
    BY <1>2, GoodKept DEF GoodRecord, TrueRecord, KnownContext
  <2>2. Belongs(exec[c], c)'
    BY <1>2, BelongsKept DEF GoodRecord, Belongs
  <2> QED
    BY <2>1, <2>2
<1>3. ASSUME exec'[c] = exec[c] PROVE P
  BY <1>1, <1>2, <1>3
<1> HIDE DEF P
<1> USE DEF store
<1>5. ASSUME NEW m \in Messages,
             \/ Begin(m) \/ EnterContext(m) \/ Finishes(m) \/ Advances(m) \/ Waits(m)
             \/ JournalBinding(m) \/ RollBack(m) \/ LeaseContext(m) \/ WriteBinding(m) \/ ReplyBinding(m)
             \/ Receive(m) \/ Work(m)
      PROVE  exec' = exec
  BY <1>5, BeginDoes, EnterDoes, FinishDoes, AdvanceDoes, WaitDoes, JournalDoes,
     RollBackDoes, LeaseDoes, WriteBindingDoes, ReplyBindingDoes, ReceiveDoes, WorkDoes
<1>6. CASE Die \/ UNCHANGED vars
  <2>1. exec' = exec
    BY <1>6, DieDoes DEF vars
  <2>2. exec'[c] = exec[c]
    BY <2>1
  <2> QED
    BY <1>3, <2>2 DEF P
<1>7. ASSUME NEW m \in Messages, JournalContext(m) PROVE P
  <2>1. CASE c # ctx[m]
    BY <1>3, <1>7, <2>1, JournalContextDoes DEF Writes
  <2>2. CASE c = ctx[m]
    <3>1. exec'[c] = Pending(m) /\ pc[m] = "journaled" /\ pc'[m] = "submit" /\ ctx' = ctx
      BY <1>7, <2>2, JournalContextDoes DEF Writes, Moves, conversation
    <3>2. Pending(m)' = Pending(m)
      BY <3>1, BegunKept
    <3>3. exec'[c].msg = m /\ exec'[c].ctx = ctx'[m] /\ ctx'[m] = c
      BY <2>2, <3>1 DEF Pending
    <3>4. TrueRecord(exec[c])'
      BY <3>1, <3>2, <3>3, NoneAssumption DEF TrueRecord
    <3>5. KnownContext(exec[c].ctx)'
      BY <3>3 DEF KnownContext
    <3>6. Belongs(exec[c], c)'
      BY <3>3 DEF Belongs
    <3> QED
      BY <3>4, <3>5, <3>6 DEF GoodRecord, P
  <2> QED
    BY <2>1, <2>2
<1>8. ASSUME NEW m \in Messages, RollBackContext(m) PROVE P
  <2>1. /\ previous[m] \in Records /\ GoodRecord(previous[m]) /\ ctx[m] \in Contexts
        /\ pc[m] = "rollbackContext"
    BY <1>8, RollBackContextDoes DEF TypeOK, RecordInv, Moves
  <2>2. Belongs(previous[m], ctx[m])
    BY <2>1, NoneAssumption DEF RecordInv
  <2> QED
    BY <1>2, <1>3, <1>8, <2>1, <2>2, RollBackContextDoes DEF Writes
<1>9. ASSUME NEW m \in Messages, WriteContext(m) PROVE P
  <2>1. HasTask(m) /\ queue[m] # <<>>
    BY <1>9, WriteContextDoes
  <2>2. /\ Record(m) \in Records /\ GoodRecord(Record(m)) /\ Belongs(Record(m), ctxOf[taskOf[m]])
    BY <2>1, RecordTrue, SeenTypes DEF GoodRecord, KnownContext
  <2> QED
    BY <1>2, <1>3, <1>9, <2>2, WriteContextDoes DEF Writes
<1>10. ASSUME NEW m \in Messages, ReplyContext(m) PROVE P
  <2>1. Completed(m) \in Records /\ GoodRecord(Completed(m)) /\ Belongs(Completed(m), Where(m))
    BY RecordTypes DEF GoodRecord, KnownContext, Completed, Where, TrueRecord, Empty, Belongs
  <2> QED
    BY <1>2, <1>3, <1>10, <2>1, ReplyContextDoes DEF Writes
<1>11. ASSUME NEW m \in Messages, ReadBack(m) PROVE P
  <2>1. CASE c # ctx[m] \/ ~Opened(previous[m])
    BY <1>3, <1>11, <2>1, ReadBackDoes DEF Writes
  <2>2. CASE c = ctx[m] /\ Opened(previous[m])
    <3>1. /\ previous[m] \in Records /\ GoodRecord(previous[m]) /\ Belongs(previous[m], c)
      BY <1>11, <2>2, ReadBackDoes, NoneAssumption DEF TypeOK, RecordInv, Moves
    <3> DEFINE q == Snapshot(previous[m].task, previous[m].msg)
    <3>2. /\ q \in Records /\ TrueRecord(q)
          /\ q.msg = previous[m].msg /\ q.ctx = previous[m].ctx
      BY <2>2, <3>1, SnapshotTrue DEF GoodRecord
    <3>3. exec'[c] = q
      BY <1>11, <2>2, ReadBackDoes DEF Writes, ReadBackOf, Opened
    <3>4. Belongs(q, c) /\ GoodRecord(q)
      BY <3>1, <3>2 DEF Belongs, GoodRecord
    <3> HIDE DEF q
    <3> QED
      BY <1>2, <3>2, <3>3, <3>4
  <2> QED
    BY <2>1, <2>2
<1>12. ASSUME NEW m \in Messages, Reconcile(m) PROVE P
  <2>1. /\ Truth(m) \in Records /\ GoodRecord(Truth(m))
        /\ Truth(m).ctx # None => Belongs(Truth(m), Truth(m).ctx)
    BY <1>12, ReconcileDoes, TruthTrue DEF GoodRecord
  <2>2. CASE c = Truth(m).ctx /\ exec'[c] = Truth(m)
    BY <1>2, <2>1, <2>2, NoneAssumption
  <2>3. CASE exec'[c] = exec[c]
    BY <1>3, <2>3
  <2> QED
    BY <1>12, <2>2, <2>3, ReconcileDoes
<1> QED
  BY <1>3, <1>5, <1>6, <1>7, <1>8, <1>9, <1>10, <1>11, <1>12, Steps DEF P

\* The binding an invocation has read is of a message of its scope that has ended.
LEMMA NextBase ==
  ASSUME TypeOK, TaskInv, RecordInv, PlaceInv, AnsweredInv, NetInv, QueueInv, [Next]_vars, NEW n \in Messages
  PROVE  /\ GoodRecord(base[n])'
         /\ base'[n].msg # None =>
              scope'[base'[n].msg] = scope'[n] /\ pc'[base'[n].msg] \in {"done", "dead"}
<1> DEFINE P == /\ GoodRecord(base[n])'
                /\ base'[n].msg # None =>
                     scope'[base'[n].msg] = scope'[n] /\ pc'[base'[n].msg] \in {"done", "dead"}
<1>1. ASSUME NEW r \in Records, GoodRecord(r), base'[n] = r,
             r.msg # None => scope[r.msg] = scope[n] /\ pc[r.msg] \in {"done", "dead"}
      PROVE  P
  <2>1. GoodRecord(base[n])'
    BY <1>1, GoodKept DEF GoodRecord, TrueRecord, KnownContext
  <2>2. r.msg # None => r.msg \in Messages
    BY <1>1, RecordFields
  <2> QED
    BY <1>1, <2>1, <2>2, PlaceKept
<1>2. /\ base[n] \in Records /\ GoodRecord(base[n])
      /\ base[n].msg # None => scope[base[n].msg] = scope[n] /\ pc[base[n].msg] \in {"done", "dead"}
  BY DEF TypeOK, RecordInv
<1>3. CASE base'[n] = base[n]
  BY <1>1, <1>2, <1>3
<1> HIDE DEF P
<1>4. ASSUME NEW m \in Messages, Begin(m) PROVE P
  <2>1. CASE n # m
    BY <1>3, <1>4, <2>1, BeginDoes DEF P
  <2>2. CASE n = m
    <3> DEFINE r == bind[scope[m]]
    <3>1. /\ r \in Records /\ GoodRecord(r) /\ base'[n] = r /\ ScopeFree(m)
          /\ r.msg # None => scope[r.msg] = scope[m]
      BY <1>4, <2>2, BeginDoes DEF TypeOK, RecordInv
    <3>2. r.msg # None => r.msg \in Messages /\ pc[r.msg] # "idle"
      BY <3>1, RecordFields DEF GoodRecord, TrueRecord
    <3>3. r.msg # None => pc[r.msg] \in {"done", "dead"}
      BY <3>1, <3>2 DEF ScopeFree, Under
    <3> HIDE DEF r
    <3> QED
      BY <1>1, <2>2, <3>1, <3>3
  <2> QED
    BY <2>1, <2>2
<1>5. ASSUME NEW m \in Messages, ~Begin(m),
             \/ EnterContext(m) \/ ReadBack(m) \/ Finishes(m) \/ Advances(m) \/ Waits(m)
             \/ JournalBinding(m) \/ JournalContext(m) \/ RollBack(m) \/ RollBackContext(m)
             \/ WriteBinding(m) \/ LeaseContext(m) \/ WriteContext(m)
             \/ ReplyBinding(m) \/ ReplyContext(m) \/ Receive(m) \/ Work(m) \/ Reconcile(m)
      PROVE  base' = base
  BY <1>5, EnterDoes, ReadBackDoes, FinishDoes, AdvanceDoes, WaitDoes, JournalDoes,
     JournalContextDoes,
     RollBackDoes, RollBackContextDoes, WriteBindingDoes, LeaseDoes, WriteContextDoes,
     ReplyBindingDoes,
     ReplyContextDoes, ReceiveDoes, WorkDoes, ReconcileDoes
<1>6. Die \/ UNCHANGED vars => base' = base
  BY DieDoes DEF vars, locals
<1>7. base' = base => P
  BY <1>3 DEF P
<1> QED
  BY <1>4, <1>5, <1>6, <1>7, Steps DEF P

\* What an invocation has read back of its context is of that context.
LEMMA NextPrevious ==
  ASSUME TypeOK, TaskInv, RecordInv, PlaceInv, AnsweredInv, NetInv, QueueInv, [Next]_vars, NEW n \in Messages
  PROVE  /\ GoodRecord(previous[n])'
         /\ pc'[n] \in {"loaded", "ready", "journaled", "submit", "rollback", "rollbackContext"}
              /\ ctx'[n] # None => Belongs(previous[n], ctx[n])'
<1> DEFINE Q == {"loaded", "ready", "journaled", "submit", "rollback", "rollbackContext"}
           P == /\ GoodRecord(previous[n])'
                /\ pc'[n] \in Q /\ ctx'[n] # None => Belongs(previous[n], ctx[n])'
<1>1. ASSUME NEW r \in Records, GoodRecord(r), previous'[n] = r,
             pc'[n] \in Q /\ ctx'[n] # None => ctx'[n] = ctx[n] /\ Belongs(r, ctx[n])
      PROVE  P
  <2>1. GoodRecord(previous[n])'
    BY <1>1, GoodKept DEF GoodRecord, TrueRecord, KnownContext
  <2>2. ctx[n] \in Contexts \cup {None}
    BY DEF TypeOK
  <2>3. pc'[n] \in Q /\ ctx'[n] # None => Belongs(r, ctx[n])'
    BY <1>1, <2>2, BelongsKept DEF GoodRecord
  <2>4. Belongs(previous[n], ctx[n])' <=> Belongs(r, ctx[n])'
    BY <1>1 DEF Belongs
  <2> QED
    BY <2>1, <2>3, <2>4
<1>2. /\ previous[n] \in Records /\ GoodRecord(previous[n])
      /\ pc[n] \in Q /\ ctx[n] # None => Belongs(previous[n], ctx[n])
  BY DEF TypeOK, RecordInv
<1>3. ASSUME previous'[n] = previous[n], ctx'[n] = ctx[n], pc'[n] \in Q => pc[n] \in Q
      PROVE  P
  BY <1>1, <1>2, <1>3
<1> USE DEF Moves, conversation
<1>4. ASSUME NEW m \in Messages, Begin(m) PROVE P
  <2>1. previous'[n] = previous[n] /\ (n # m => ctx'[n] = ctx[n] /\ pc'[n] = pc[n])
    BY <1>4, BeginDoes
  <2>2. CASE n # m
    BY <1>3, <2>1, <2>2
  <2>3. CASE n = m
    <3>1. pc'[n] \in Q => ctx'[n] = None
      BY <1>4, <2>3, BeginDoes
    <3> QED
      BY <1>1, <1>2, <2>1, <3>1
  <2> QED
    BY <2>2, <2>3
<1>5. ASSUME NEW m \in Messages, EnterContext(m) PROVE P
  <2>0. ctx' = ctx
    BY <1>5, EnterDoes
  <2>1. CASE n # m
    <3>1. previous'[n] = previous[n] /\ pc'[n] = pc[n]
      BY <1>5, <2>1, EnterDoes
    <3> QED
      BY <1>3, <2>0, <3>1
  <2>2. CASE n = m
    <3>1. pc[n] = "bound" /\ ctx[n] # None /\ previous'[n] = Recovered(exec[ctx[n]], base[n],
    ctx[n])
      BY <1>5, <2>2, EnterDoes DEF PlaceInv
    <3>2. ctx[n] \in Contexts
      BY <3>1 DEF TypeOK
    <3>3. CASE previous'[n] = exec[ctx[n]]
      <4>1. exec[ctx[n]] \in Records /\ GoodRecord(exec[ctx[n]]) /\ Belongs(exec[ctx[n]], ctx[n])
        BY <3>2 DEF TypeOK, RecordInv
      <4> QED
        BY <1>1, <2>0, <3>3, <4>1
    <3>4. CASE previous'[n] = base[n] /\ ctx[n] = base[n].ctx
      <4>1. base[n] \in Records /\ GoodRecord(base[n])
        BY DEF TypeOK, RecordInv
      <4>2. Belongs(base[n], ctx[n])
        <5>1. CASE base[n].msg = None
          BY <3>4, <5>1 DEF Belongs
        <5>2. CASE base[n].msg # None
          BY <3>1, <3>4, <4>1, <5>2, RecordContext DEF GoodRecord
        <5> QED
          BY <5>1, <5>2
      <4> QED
        BY <1>1, <2>0, <3>4, <4>1, <4>2
    <3> QED
      BY <3>1, <3>3, <3>4 DEF Recovered
  <2> QED
    BY <2>1, <2>2
<1>6. ASSUME NEW m \in Messages, ReadBack(m) PROVE P
  <2>0. ctx' = ctx
    BY <1>6, ReadBackDoes
  <2>1. CASE n # m
    <3>1. previous'[n] = previous[n] /\ pc'[n] = pc[n]
      BY <1>6, <2>1, ReadBackDoes
    <3> QED
      BY <1>3, <2>0, <3>1
  <2>2. CASE n = m
    <3>1. pc[n] = "loaded" /\ ctx[n] \in Contexts /\ previous'[n] = ReadBackOf(previous[n])
      BY <1>6, <2>2, ReadBackDoes
    <3>2. Belongs(previous[n], ctx[n])
      BY <1>2, <3>1, NoneAssumption
    <3>3. CASE ~Opened(previous[n])
      BY <1>1, <1>2, <2>0, <3>1, <3>2, <3>3 DEF ReadBackOf, Opened
    <3>4. CASE Opened(previous[n])
      <4> DEFINE q == Snapshot(previous[n].task, previous[n].msg)
      <4>1. /\ q \in Records /\ TrueRecord(q)
            /\ q.msg = previous[n].msg /\ q.ctx = previous[n].ctx
        BY <1>2, <3>4, SnapshotTrue DEF GoodRecord
      <4>2. previous'[n] = q
        BY <3>1, <3>4 DEF ReadBackOf, Opened
      <4>3. Belongs(q, ctx[n]) /\ GoodRecord(q)
        BY <1>2, <3>2, <4>1 DEF Belongs, GoodRecord
      <4> HIDE DEF q
      <4> QED
        BY <1>1, <2>0, <4>1, <4>2, <4>3
    <3> QED
      BY <3>3, <3>4
  <2> QED
    BY <2>1, <2>2
<1> HIDE DEF P
<1>7. ASSUME NEW m \in Messages, Finishes(m) PROVE P
  BY <1>3, <1>7, FinishDoes
<1>8. ASSUME NEW m \in Messages, Advances(m) PROVE P
  BY <1>3, <1>8, AdvanceDoes
<1>9. ASSUME NEW m \in Messages, Waits(m) PROVE P
  <2>1. UNCHANGED <<pc, ctx, previous>>
    BY <1>9, WaitDoes
  <2> QED
    BY <1>3, <2>1
<1>10. ASSUME NEW m \in Messages, JournalBinding(m) \/ JournalContext(m) PROVE P
  BY <1>3, <1>10, JournalDoes, JournalContextDoes
<1>11. ASSUME NEW m \in Messages, RollBack(m) \/ RollBackContext(m) PROVE P
  BY <1>3, <1>11, RollBackDoes, RollBackContextDoes
<1>12. ASSUME NEW m \in Messages, WriteBinding(m) \/ LeaseContext(m) \/ WriteContext(m) PROVE P
  BY <1>3, <1>12, WriteBindingDoes, LeaseDoes, WriteContextDoes
<1>13. ASSUME NEW m \in Messages, ReplyBinding(m) \/ ReplyContext(m) PROVE P
  BY <1>3, <1>13, ReplyBindingDoes, ReplyContextDoes
<1>14. ASSUME NEW m \in Messages, Receive(m) \/ Work(m) \/ Reconcile(m) PROVE P
  BY <1>3, <1>14, ReceiveDoes, WorkDoes, ReconcileDoes
<1>15. CASE Die
  BY <1>3, <1>15, DieDoes DEF P
<1>16. CASE UNCHANGED vars
  BY <1>3, <1>16 DEF P, vars, locals
<1> QED
  BY <1>4, <1>5, <1>6, <1>7, <1>8, <1>9, <1>10, <1>11, <1>12, <1>13, <1>14, <1>15, <1>16,
     Steps DEF P

\* What the records say stays true.
LEMMA NextRecord ==
  ASSUME TypeOK, TaskInv, RecordInv, PlaceInv, AnsweredInv, NetInv, QueueInv, [Next]_vars
  PROVE  RecordInv'
<1>1. \A s \in Scopes : GoodRecord(bind[s])' /\ (bind'[s].msg # None => scope'[bind'[s].msg] = s)
  BY NextBind
<1>2. \A c \in Contexts : GoodRecord(exec[c])' /\ Belongs(exec[c], c)'
  BY NextExec
<1>3. \A m \in Messages :
        /\ GoodRecord(base[m])'
        /\ base'[m].msg # None =>
             scope'[base'[m].msg] = scope'[m] /\ pc'[base'[m].msg] \in {"done", "dead"}
  BY NextBase
<1>4. \A m \in Messages :
        /\ GoodRecord(previous[m])'
        /\ pc'[m] \in {"loaded", "ready", "journaled", "submit", "rollback", "rollbackContext"}
             /\ ctx'[m] # None => Belongs(previous[m], ctx[m])'
  BY NextPrevious
<1> QED
  BY <1>1, <1>2, <1>3, <1>4 DEF RecordInv

-----------------------------------------------------------------------------
(* Who writes which record.                                                *)

\* The task of an invocation is in the context that was named.
LEMMA TaskContext ==
  ASSUME TypeOK, TaskInv, NEW m \in Messages, taskOf[m] # None
  PROVE  /\ taskOf[m] \in Messages /\ ctxOf[taskOf[m]] \in Contexts
         /\ ctx[m] # None => ctx[m] = ctxOf[taskOf[m]]
         /\ ctx[m] = None => taskOf[m] = m
<1>1. taskOf[m] = Task(m)
  BY DEF TaskInv
<1>2. CASE follow[m] = None
  <2>1. taskOf[m] = m
    BY <1>1, <1>2 DEF Task
  <2>2. ctxOf[m] \in Contexts
    BY <2>1, Begun
  <2> QED
    BY <2>1, <2>2 DEF TaskInv
<1>3. CASE follow[m] # None
  <2>1. taskOf[m] = follow[m] /\ state[follow[m]] \in Started /\ ctx[m] = ctxOf[follow[m]]
    BY <1>1, <1>3 DEF Task, TaskInv
  <2>2. follow[m] \in Messages
    BY <1>3 DEF TypeOK
  <2>3. ctxOf[follow[m]] \in Contexts
    BY <2>1, <2>2, Begun DEF Started
  <2> QED
    BY <2>1, <2>2, <2>3, NoneAssumption
<1> QED
  BY <1>2, <1>3

\* Who writes the record of a context holds its lock, or finds it free.
LEMMA ExecWrites ==
  ASSUME TypeOK, TaskInv, PlaceInv, AnsweredInv, NetInv, QueueInv, LockInv, [Next]_vars, NEW c \in Contexts, exec'[c] # exec[c]
  PROVE  \/ \E m \in Messages :
              /\ c = ctx[m] /\ locked[m] = c
              /\ \/ ReadBack(m) /\ Opened(previous[m]) /\ exec'[c] = ReadBackOf(previous[m])
                 \/ JournalContext(m) /\ exec'[c] = Pending(m)
                 \/ RollBackContext(m) /\ exec'[c] = previous[m]
         \/ \E m \in Messages :
              /\ WriteContext(m) /\ c = ctxOf[taskOf[m]] /\ locked[m] = c /\ exec'[c] = Record(m)
         \/ \E m \in Messages :
              /\ ReplyContext(m) /\ c = Where(m) /\ exec'[c] = Completed(m)
              /\ locked[m] = c \/ (locked[m] = None /\ ctx[m] = None /\ ContextFree(c))
         \/ \E m \in Messages :
              /\ Reconcile(m) /\ c = Truth(m).ctx /\ exec[c].msg \in {m, None} /\ exec'[c] = Truth(m)
<1> DEFINE P ==
         \/ \E m \in Messages :
              /\ c = ctx[m] /\ locked[m] = c
              /\ \/ ReadBack(m) /\ Opened(previous[m]) /\ exec'[c] = ReadBackOf(previous[m])
                 \/ JournalContext(m) /\ exec'[c] = Pending(m)
                 \/ RollBackContext(m) /\ exec'[c] = previous[m]
         \/ \E m \in Messages :
              /\ WriteContext(m) /\ c = ctxOf[taskOf[m]] /\ locked[m] = c /\ exec'[c] = Record(m)
         \/ \E m \in Messages :
              /\ ReplyContext(m) /\ c = Where(m) /\ exec'[c] = Completed(m)
              /\ locked[m] = c \/ (locked[m] = None /\ ctx[m] = None /\ ContextFree(c))
         \/ \E m \in Messages :
              /\ Reconcile(m) /\ c = Truth(m).ctx /\ exec[c].msg \in {m, None} /\ exec'[c] = Truth(m)
<1>1. ~UNCHANGED exec
  OBVIOUS
<1> USE DEF store
<1>5. ASSUME NEW m \in Messages,
             \/ Begin(m) \/ EnterContext(m) \/ Finishes(m) \/ Advances(m) \/ Waits(m)
             \/ JournalBinding(m) \/ RollBack(m) \/ LeaseContext(m) \/ WriteBinding(m) \/ ReplyBinding(m)
             \/ Receive(m) \/ Work(m)
      PROVE  exec' = exec
  BY <1>5, BeginDoes, EnterDoes, FinishDoes, AdvanceDoes, WaitDoes, JournalDoes,
     RollBackDoes, LeaseDoes, WriteBindingDoes, ReplyBindingDoes, ReceiveDoes, WorkDoes
<1>6. CASE Die \/ UNCHANGED vars
  BY <1>1, <1>6, DieDoes DEF vars
<1>7. ASSUME NEW m \in Messages, ReadBack(m) PROVE P
  <2>1. c = ctx[m] /\ Opened(previous[m]) /\ exec'[c] = ReadBackOf(previous[m]) /\ pc[m] = "loaded"
    BY <1>7, ReadBackDoes DEF Writes, Moves
  <2>2. locked[m] = c
    BY <2>1, NoneAssumption DEF LockInv, Under
  <2> QED
    BY <1>7, <2>1, <2>2
<1>8. ASSUME NEW m \in Messages, JournalContext(m) PROVE P
  <2>1. c = ctx[m] /\ exec'[c] = Pending(m) /\ pc[m] = "journaled"
    BY <1>8, JournalContextDoes DEF Writes, Moves
  <2>2. locked[m] = c
    BY <2>1, NoneAssumption DEF LockInv, Under
  <2> QED
    BY <1>8, <2>1, <2>2
<1>9. ASSUME NEW m \in Messages, RollBackContext(m) PROVE P
  <2>1. c = ctx[m] /\ exec'[c] = previous[m] /\ pc[m] = "rollbackContext"
    BY <1>9, RollBackContextDoes DEF Writes, Moves
  <2>2. locked[m] = c
    BY <2>1, NoneAssumption DEF LockInv, Under
  <2> QED
    BY <1>9, <2>1, <2>2
<1>10. ASSUME NEW m \in Messages, WriteContext(m) PROVE P
  <2>1. c = ctxOf[taskOf[m]] /\ exec'[c] = Record(m) /\ locked[m] # None /\ taskOf[m] # None
    BY <1>10, WriteContextDoes DEF Writes, HasTask
  <2>2. locked[m] = c
    BY <2>1, TaskContext DEF LockInv
  <2> QED
    BY <1>10, <2>1, <2>2
<1>11. ASSUME NEW m \in Messages, ReplyContext(m) PROVE P
  <2>1. c = Where(m) /\ exec'[c] = Completed(m) /\ pc[m] = "replyContext" /\ (locked[m] = None => ContextFree(c))
    BY <1>11, ReplyContextDoes DEF Writes, Moves
  <2>2. CASE ctx[m] = None
    <3>1. locked[m] = None
      BY <2>1, <2>2 DEF LockInv
    <3> QED
      BY <1>11, <2>1, <2>2, <3>1
  <2>3. CASE ctx[m] # None
    <3>1. locked[m] = c
      BY <2>1, <2>3, Replies, NoneAssumption DEF LockInv, Under
    <3> QED
      BY <1>11, <2>1, <3>1
  <2> QED
    BY <2>2, <2>3
<1>12. ASSUME NEW m \in Messages, Reconcile(m) PROVE P
  BY <1>12, ReconcileDoes
<1>13. P
  BY <1>1, <1>5, <1>6, <1>7, <1>8, <1>9, <1>10, <1>11, <1>12, Steps DEF P
<1> QED
  BY <1>13 DEF P

\* So the holder of the lock of a context is the only one to write its record.
LEMMA ContextHeld ==
  ASSUME TypeOK, TaskInv, PlaceInv, AnsweredInv, NetInv, QueueInv, LockInv, [Next]_vars,
         NEW n \in Messages, NEW c \in Contexts, locked[n] = c, exec'[c] # exec[c]
  PROVE  \/ /\ c = ctx[n]
            /\ \/ ReadBack(n) /\ exec'[c] = ReadBackOf(previous[n])
               \/ JournalContext(n) /\ exec'[c] = Pending(n)
               \/ RollBackContext(n)
         \/ WriteContext(n) /\ exec'[c] = Record(n)
         \/ ReplyContext(n)
<1>1. \A m \in Messages : locked[m] = c => m = n
  BY NoneAssumption DEF LockInv
<1>2. ~ContextFree(c)
  BY DEF ContextFree
<1>3. Under(n)
  BY NoneAssumption DEF LockInv
<1>4. \A m \in Messages : ~Reconcile(m)
  BY <1>3, ReconcileDoes
<1> QED
  BY <1>1, <1>2, <1>4, ExecWrites

\* Who writes the binding of a scope holds its lock, unless it is an operator.
LEMMA BindWrites ==
  ASSUME TypeOK, TaskInv, PlaceInv, AnsweredInv, NetInv, QueueInv, [Next]_vars, NEW s \in Scopes, bind'[s] # bind[s]
  PROVE  \/ \E m \in Messages :
              /\ scope[m] = s
              /\ \/ JournalBinding(m) /\ bind'[s] = Pending(m)
                 \/ RollBack(m) /\ bind'[s] = base[m]
                 \/ WriteBinding(m) /\ bind'[s] = Record(m)
                 \/ ReplyBinding(m) /\ bind'[s] = Completed(m)
         \/ \E m \in Messages : Reconcile(m) /\ bind[s].msg = m /\ bind'[s] = Truth(m)
<1> DEFINE P ==
         \/ \E m \in Messages :
              /\ scope[m] = s
              /\ \/ JournalBinding(m) /\ bind'[s] = Pending(m)
                 \/ RollBack(m) /\ bind'[s] = base[m]
                 \/ WriteBinding(m) /\ bind'[s] = Record(m)
                 \/ ReplyBinding(m) /\ bind'[s] = Completed(m)
         \/ \E m \in Messages : Reconcile(m) /\ bind[s].msg = m /\ bind'[s] = Truth(m)
<1>1. ~UNCHANGED bind
  OBVIOUS
<1> USE DEF store
<1>2. ASSUME NEW m \in Messages,
             \/ Begin(m) \/ EnterContext(m) \/ ReadBack(m) \/ Finishes(m) \/ Advances(m) \/ Waits(m)
             \/ JournalContext(m) \/ RollBackContext(m) \/ LeaseContext(m) \/ WriteContext(m) \/ ReplyContext(m)
             \/ Receive(m) \/ Work(m)
      PROVE  bind' = bind
  BY <1>2, BeginDoes, EnterDoes, ReadBackDoes, FinishDoes, AdvanceDoes, WaitDoes,
     JournalContextDoes,
     RollBackContextDoes, LeaseDoes, WriteContextDoes, ReplyContextDoes, ReceiveDoes, WorkDoes
<1>3. CASE Die \/ UNCHANGED vars
  BY <1>1, <1>3, DieDoes DEF vars
<1>4. ASSUME NEW m \in Messages, JournalBinding(m) \/ RollBack(m) \/ WriteBinding(m) \/ ReplyBinding(m) PROVE P
  BY <1>4, JournalDoes, RollBackDoes, WriteBindingDoes, ReplyBindingDoes DEF Binds
<1>5. ASSUME NEW m \in Messages, Reconcile(m) PROVE P
  BY <1>5, ReconcileDoes
<1>6. P
  BY <1>1, <1>2, <1>3, <1>4, <1>5, Steps DEF P
<1> QED
  BY <1>6 DEF P

\* From where an invocation came to where it is, and which step changes what it has.
LEMMA Origins ==
  ASSUME TypeOK, TaskInv, PlaceInv, AnsweredInv, NetInv, QueueInv, [Next]_vars, NEW n \in Messages
  PROVE  /\ pc'[n] # "idle" => pc[n] # "idle" \/ Begin(n)
         /\ pc'[n] = "loaded" => EnterContext(n) \/ (pc[n] = "loaded" /\ previous'[n] = previous[n] /\ base'[n] = base[n])
         /\ pc'[n] \in {"bound", "ready"} => \/ pc[n] = pc'[n] \/ Begin(n) \/ ReadBack(n)
         /\ pc'[n] = "journaled" => pc[n] = "journaled" \/ JournalBinding(n)
         /\ pc'[n] \in {"submit", "rollback", "rollbackContext"} =>
              \/ pc[n] \in {"submit", "rollback", "rollbackContext"} \/ JournalContext(n)
              \/ JournalBinding(n) /\ ctx[n] = None
         /\ pc'[n] \in {"sent", "ending", "replied", "replyContext"} =>
              pc[n] \in {"submit", "sent", "ending", "replied", "replyContext"}
         /\ pc[n] = "submit" /\ pc'[n] = "sent" => n \in net'
         /\ Under(n)' => Under(n) \/ Begin(n)
         /\ ctx'[n] # ctx[n] \/ follow'[n] # follow[n] \/ base'[n] # base[n] => Begin(n)
         /\ previous'[n] # previous[n] => EnterContext(n) \/ ReadBack(n)
         /\ locked'[n] = locked[n] \/ locked'[n] = None \/ EnterContext(n) \/ LeaseContext(n)
         /\ pc'[n] \in {"replied", "replyContext"} =>
              pc[n] \in {"replied", "replyContext"} \/ n \in answered \/ (taskOf[n] # None /\ state[taskOf[n]] = "reply")
         /\ pc[n] \in {"replied", "replyContext"} => pc'[n] \in {"replied", "replyContext", "done", "dead"}
         /\ pc[n] \in {"sent", "ending", "done", "dead"} =>
              pc'[n] \in {"sent", "ending", "replied", "done", "dead"}
         /\ taskOf'[n] # taskOf[n] => Receive(n)
         /\ pc[n] # "idle" => pc'[n] # "idle"
         /\ Under(n)' => locked'[n] = locked[n] \/ EnterContext(n) \/ LeaseContext(n)
         /\ n \in net' /\ n \notin net => pc[n] = "submit" /\ pc'[n] = "sent"
         /\ scope'[n] = scope[n]
<1> DEFINE P ==
           /\ pc'[n] # "idle" => pc[n] # "idle" \/ Begin(n)
           /\ pc'[n] = "loaded" => EnterContext(n) \/ (pc[n] = "loaded" /\ previous'[n] = previous[n] /\ base'[n] = base[n])
           /\ pc'[n] \in {"bound", "ready"} => \/ pc[n] = pc'[n] \/ Begin(n) \/ ReadBack(n)
           /\ pc'[n] = "journaled" => pc[n] = "journaled" \/ JournalBinding(n)
           /\ pc'[n] \in {"submit", "rollback", "rollbackContext"} =>
                \/ pc[n] \in {"submit", "rollback", "rollbackContext"} \/ JournalContext(n)
                \/ JournalBinding(n) /\ ctx[n] = None
           /\ pc'[n] \in {"sent", "ending", "replied", "replyContext"} =>
                pc[n] \in {"submit", "sent", "ending", "replied", "replyContext"}
           /\ pc[n] = "submit" /\ pc'[n] = "sent" => n \in net'
           /\ Under(n)' => Under(n) \/ Begin(n)
           /\ ctx'[n] # ctx[n] \/ follow'[n] # follow[n] \/ base'[n] # base[n] => Begin(n)
           /\ previous'[n] # previous[n] => EnterContext(n) \/ ReadBack(n)
           /\ locked'[n] = locked[n] \/ locked'[n] = None \/ EnterContext(n) \/ LeaseContext(n)
           /\ pc'[n] \in {"replied", "replyContext"} =>
                pc[n] \in {"replied", "replyContext"} \/ n \in answered \/ (taskOf[n] # None /\ state[taskOf[n]] = "reply")
           /\ pc[n] \in {"replied", "replyContext"} => pc'[n] \in {"replied", "replyContext", "done", "dead"}
           /\ pc[n] \in {"sent", "ending", "done", "dead"} =>
                pc'[n] \in {"sent", "ending", "replied", "done", "dead"}
           /\ taskOf'[n] # taskOf[n] => Receive(n)
           /\ pc[n] # "idle" => pc'[n] # "idle"
           /\ Under(n)' => locked'[n] = locked[n] \/ EnterContext(n) \/ LeaseContext(n)
           /\ n \in net' /\ n \notin net => pc[n] = "submit" /\ pc'[n] = "sent"
           /\ scope'[n] = scope[n]
<1> USE DEF Moves, Keeps, Under, store, conversation, agent
<1>1. ASSUME NEW m \in Messages, Begin(m) PROVE P
  <2>1. CASE n # m
    BY <1>1, <2>1, BeginDoes
  <2>2. CASE n = m
    BY <1>1, <2>2, BeginDoes
  <2> QED
    BY <2>1, <2>2
<1>2. ASSUME NEW m \in Messages, EnterContext(m) PROVE P
  <2>1. CASE n # m
    BY <1>2, <2>1, EnterDoes
  <2>2. CASE n = m
    BY <1>2, <2>2, EnterDoes
  <2> QED
    BY <2>1, <2>2
<1>3. ASSUME NEW m \in Messages, ReadBack(m) PROVE P
  <2>1. CASE n # m
    BY <1>3, <2>1, ReadBackDoes
  <2>2. CASE n = m
    BY <1>3, <2>2, ReadBackDoes
  <2> QED
    BY <2>1, <2>2
<1>4. ASSUME NEW m \in Messages, Finishes(m) PROVE P
  <2>1. CASE n # m
    BY <1>4, <2>1, FinishDoes
  <2>2. CASE n = m
    BY <1>4, <2>2, FinishDoes
  <2> QED
    BY <2>1, <2>2
<1>5. ASSUME NEW m \in Messages, Advances(m) PROVE P
  <2>1. CASE n # m
    BY <1>5, <2>1, AdvanceDoes
  <2>2. CASE n = m
    BY <1>5, <2>2, AdvanceDoes
  <2> QED
    BY <2>1, <2>2
<1>6. ASSUME NEW m \in Messages, Waits(m) PROVE P
  <2>1. UNCHANGED <<pc, conversation, base, previous, locked, agent>> /\ net' \subseteq net
    BY <1>6, WaitDoes
  <2> QED
    BY <2>1
<1>7. ASSUME NEW m \in Messages, JournalBinding(m) PROVE P
  <2>1. CASE n # m
    BY <1>7, <2>1, JournalDoes
  <2>2. CASE n = m
    BY <1>7, <2>2, JournalDoes
  <2> QED
    BY <2>1, <2>2
<1>8. ASSUME NEW m \in Messages, JournalContext(m) PROVE P
  <2>1. CASE n # m
    BY <1>8, <2>1, JournalContextDoes
  <2>2. CASE n = m
    BY <1>8, <2>2, JournalContextDoes
  <2> QED
    BY <2>1, <2>2
<1>9. ASSUME NEW m \in Messages, RollBack(m) PROVE P
  <2>1. CASE n # m
    BY <1>9, <2>1, RollBackDoes
  <2>2. CASE n = m
    BY <1>9, <2>2, RollBackDoes
  <2> QED
    BY <2>1, <2>2
<1>10. ASSUME NEW m \in Messages, RollBackContext(m) PROVE P
  <2>1. CASE n # m
    BY <1>10, <2>1, RollBackContextDoes
  <2>2. CASE n = m
    BY <1>10, <2>2, RollBackContextDoes
  <2> QED
    BY <2>1, <2>2
<1>11. ASSUME NEW m \in Messages, WriteBinding(m) PROVE P
  <2>1. CASE n # m
    BY <1>11, <2>1, WriteBindingDoes
  <2>2. CASE n = m
    BY <1>11, <2>2, WriteBindingDoes
  <2> QED
    BY <2>1, <2>2
<1>12. ASSUME NEW m \in Messages, LeaseContext(m) PROVE P
  <2>1. CASE n # m
    BY <1>12, <2>1, LeaseDoes
  <2>2. CASE n = m
    BY <1>12, <2>2, LeaseDoes
  <2> QED
    BY <2>1, <2>2
<1>13. ASSUME NEW m \in Messages, WriteContext(m) PROVE P
  <2>1. CASE n # m
    BY <1>13, <2>1, WriteContextDoes
  <2>2. CASE n = m
    BY <1>13, <2>2, WriteContextDoes
  <2> QED
    BY <2>1, <2>2
<1>14. ASSUME NEW m \in Messages, ReplyBinding(m) PROVE P
  <2>1. CASE n # m
    BY <1>14, <2>1, ReplyBindingDoes
  <2>2. CASE n = m
    BY <1>14, <2>2, ReplyBindingDoes
  <2> QED
    BY <2>1, <2>2
<1>15. ASSUME NEW m \in Messages, ReplyContext(m) PROVE P
  <2>1. CASE n # m
    BY <1>15, <2>1, ReplyContextDoes
  <2>2. CASE n = m
    BY <1>15, <2>2, ReplyContextDoes
  <2> QED
    BY <2>1, <2>2
<1>16. ASSUME NEW m \in Messages, Receive(m) PROVE P
  <2>1. CASE n # m
    BY <1>16, <2>1, ReceiveDoes
  <2>2. CASE n = m
    BY <1>16, <2>2, ReceiveDoes
  <2> QED
    BY <2>1, <2>2
<1>17. ASSUME NEW m \in Messages, Work(m) PROVE P
  <2>1. CASE n # m
    BY <1>17, <2>1, WorkDoes
  <2>2. CASE n = m
    BY <1>17, <2>2, WorkDoes
  <2> QED
    BY <2>1, <2>2
<1>18. ASSUME NEW m \in Messages, Reconcile(m) PROVE P
  <2>1. CASE n # m
    BY <1>18, <2>1, ReconcileDoes
  <2>2. CASE n = m
    BY <1>18, <2>2, ReconcileDoes
  <2> QED
    BY <2>1, <2>2
<1>19. CASE Die
  BY <1>19, DieDoes
<1>20. CASE UNCHANGED vars
  BY <1>20 DEF vars, locals, writer, callers, remote
<1> QED
  BY <1>1, <1>2, <1>3, <1>4, <1>5, <1>6, <1>7, <1>8, <1>9, <1>10, <1>11, <1>12, <1>13, <1>14,
     <1>15, <1>16, <1>17, <1>18, <1>19, <1>20, Steps

\* The record of a context is what the holder of its lock has written.
LEMMA NextContext ==
  ASSUME TypeOK, TaskInv, RecordInv, PlaceInv, AnsweredInv, LockInv, ContextInv, NetInv, QueueInv, [Next]_vars
  PROVE  ContextInv'
<1> SUFFICES ASSUME NEW n \in Messages, ctx'[n] # None
             PROVE  /\ pc'[n] = "loaded" =>
                         previous'[n] = Recovered(exec[ctx[n]], base[n], ctx[n])' /\ ~Unknown(previous[n])'
                    /\ pc'[n] \in {"submit", "rollback", "rollbackContext"} => exec'[ctx'[n]] = Pending(n)'
                    /\ pc'[n] \in {"sent", "ending", "replied", "replyContext"} => exec'[ctx'[n]].msg = n
  BY DEF ContextInv
<1> DEFINE c == ctx[n]
           Early1 == {"loaded", "submit", "rollback", "rollbackContext", "sent", "ending", "replied", "replyContext"}
<1>1. CASE Begin(n)
  <2>1. pc'[n] \in {"bound", "ready", "done"}
    BY <1>1, BeginDoes DEF Moves
  <2> QED
    BY <2>1
<1>2. CASE pc'[n] \notin Early1
  BY <1>2
<1>3. CASE ~Begin(n) /\ pc'[n] \in Early1
  <2>1. pc[n] # "idle" /\ ctx'[n] = c /\ base'[n] = base[n] /\ Pending(n)' = Pending(n)
    BY <1>3, Origins, BegunKept
  <2>2. c \in Contexts
    BY <2>1 DEF TypeOK
  <2>3. CASE pc'[n] = "loaded"
    <3>1. CASE EnterContext(n)
      <4>1. /\ exec' = exec /\ previous'[n] = Recovered(exec[c], base[n], c)
            /\ ~Unknown(previous'[n])
        BY <2>3, <3>1, EnterDoes DEF store
      <4> QED
        BY <2>1, <2>3, <4>1 DEF Recovered, Unknown
    <3>2. CASE ~EnterContext(n)
      <4>1. pc[n] = "loaded" /\ previous'[n] = previous[n]
        BY <2>3, <3>2, Origins
      <4>2. locked[n] = c
        BY <2>1, <4>1 DEF LockInv, Under
      <4>3. exec'[c] = exec[c]
        <5> SUFFICES ASSUME exec'[c] # exec[c] PROVE FALSE
          OBVIOUS
        <5>1. \/ ReadBack(n) \/ JournalContext(n) \/ RollBackContext(n) \/ WriteContext(n) \/ ReplyContext(n)
          BY <2>2, <4>2, ContextHeld
        <5> QED
          BY <2>3, <4>1, <5>1, ReadBackDoes, JournalContextDoes, RollBackContextDoes,
             WriteContextDoes, ReplyContextDoes DEF Moves
      <4>4. previous[n] = Recovered(exec[c], base[n], c) /\ ~Unknown(previous[n])
        BY <2>1, <4>1 DEF ContextInv
      <4> QED
        BY <2>1, <2>3, <4>1, <4>3, <4>4 DEF Recovered, Unknown
    <3> QED
      BY <3>1, <3>2
  <2>4. CASE pc'[n] \in {"submit", "rollback", "rollbackContext"}
    <3>1. CASE JournalContext(n)
      BY <2>1, <2>4, <3>1, JournalContextDoes DEF Writes
    <3>2. CASE ~JournalContext(n)
      <4>1. pc[n] \in {"submit", "rollback", "rollbackContext"}
        BY <2>1, <2>4, <3>2, Origins
      <4>2. locked[n] = c
        BY <2>1, <4>1 DEF LockInv, Under
      <4>3. exec'[c] = exec[c]
        <5> SUFFICES ASSUME exec'[c] # exec[c] PROVE FALSE
          OBVIOUS
        <5>1. \/ ReadBack(n) \/ RollBackContext(n) \/ WriteContext(n) \/ ReplyContext(n)
          BY <2>2, <3>2, <4>2, ContextHeld
        <5> QED
          BY <2>4, <4>1, <5>1, ReadBackDoes, RollBackContextDoes, WriteContextDoes,
             ReplyContextDoes DEF Moves
      <4> QED
        BY <2>1, <2>4, <4>1, <4>3 DEF ContextInv
    <3> QED
      BY <3>1, <3>2
  <2>5. CASE pc'[n] \in {"sent", "ending", "replied", "replyContext"}
    <3>1. pc[n] \in {"submit", "sent", "ending", "replied", "replyContext"}
      BY <2>5, Origins
    <3>2. locked[n] = c
      BY <2>1, <3>1 DEF LockInv, Under
    <3>3. exec[c].msg = n
      BY <2>1, <3>1, RecordMessages DEF ContextInv
    <3>4. CASE exec'[c] # exec[c]
      <4>1. \/ ReadBack(n) \/ JournalContext(n) \/ RollBackContext(n) \/ (WriteContext(n) /\ exec'[c] = Record(n)) \/ ReplyContext(n)
        BY <2>2, <3>2, <3>4, ContextHeld
      <4>2. exec'[c] = Record(n)
        BY <2>5, <3>1, <4>1, ReadBackDoes, JournalContextDoes, RollBackContextDoes,
           ReplyContextDoes DEF Moves
      <4> QED
        BY <2>1, <2>5, <4>2, RecordMessages
    <3> QED
      BY <2>1, <2>5, <3>3, <3>4
  <2> QED
    BY <1>3, <2>3, <2>4, <2>5
<1> QED
  BY <1>1, <1>2, <1>3

\* While a message may arrive nothing is written over the two records that say so.
LEMMA NextNet ==
  ASSUME TypeOK, TaskInv, RecordInv, PlaceInv, AnsweredInv, BindingInv, LockInv, ContextInv, NetInv, QueueInv,
         LearnInv, ReadyInv, [Next]_vars
  PROVE  NetInv'
<1> SUFFICES ASSUME NEW n \in net'
             PROVE  /\ taskOf'[n] = None /\ pc'[n] \in {"sent", "ending", "done", "dead"}
                    /\ bind'[scope'[n]] = Pending(n)'
                    /\ ctx'[n] # None => exec'[ctx'[n]] = Pending(n)'
  BY DEF NetInv
<1> DEFINE s == scope[n]
           c == ctx[n]
<1>0. /\ n \in Messages /\ s \in Scopes /\ c \in Contexts \cup {None}
      /\ \A m \in Messages : Pending(m).msg = m /\ Unknown(Pending(m))
  <2>1. n \in Messages
    BY NextType DEF TypeOK
  <2> QED
    BY <2>1 DEF TypeOK, Pending, Unknown
<1>1. CASE n \notin net
  <2>1. pc[n] = "submit" /\ pc'[n] = "sent"
    BY <1>0, <1>1, Origins
  <2>2. c # None => locked[n] = c
    BY <1>0, <2>1 DEF LockInv, Under
  <2>3. taskOf[n] = None /\ bind[s] = Pending(n) /\ (c # None => exec[c] = Pending(n))
    BY <1>0, <2>1 DEF PlaceInv, Early, Submitted, BindingInv, ContextInv
  <2>4. taskOf'[n] = None
    <3>1. ~Receive(n)
      BY <1>0, <1>1, ReceiveDoes
    <3> QED
      BY <1>0, <2>3, <3>1, Origins
  <2>5. bind'[s] = bind[s]
    <3> SUFFICES ASSUME bind'[s] # bind[s] PROVE FALSE
      OBVIOUS
    <3>1. ASSUME NEW m \in Messages, scope[m] = s,
                 JournalBinding(m) \/ RollBack(m) \/ WriteBinding(m) \/ ReplyBinding(m)
          PROVE  FALSE
      <4>1. Under(m) /\ pc[m] # "submit"
        BY <3>1, JournalDoes, RollBackDoes, WriteBindingDoes, ReplyBindingDoes DEF Moves, Under
      <4> QED
        BY <1>0, <2>1, <3>1, <4>1 DEF BindingInv, Under
    <3>2. ASSUME NEW m \in Messages, Reconcile(m) PROVE FALSE
      BY <1>0, <2>1, <3>2, ReconcileDoes DEF Under
    <3> QED
      BY <1>0, <3>1, <3>2, BindWrites
  <2>6. c # None => exec'[c] = exec[c]
    <3> SUFFICES ASSUME c # None, exec'[c] # exec[c] PROVE FALSE
      OBVIOUS
    <3>1. ReadBack(n) \/ JournalContext(n) \/ RollBackContext(n) \/ WriteContext(n) \/ ReplyContext(n)
      BY <1>0, <2>2, ContextHeld
    <3> QED
      BY <1>0, <2>1, <3>1, ReadBackDoes, JournalContextDoes, RollBackContextDoes,
         WriteContextDoes, ReplyContextDoes DEF Moves
  <2> QED
    BY <1>0, <2>1, <2>3, <2>4, <2>5, <2>6, BegunKept, PlaceKept
<1>2. CASE n \in net
  <2>1. /\ taskOf[n] = None /\ pc[n] \in {"sent", "ending", "done", "dead"}
        /\ bind[s] = Pending(n) /\ (c # None => exec[c] = Pending(n))
    BY <1>2 DEF NetInv
  <2>2. taskOf'[n] = None
    <3>1. ~Receive(n)
      BY <1>0, ReceiveDoes
    <3> QED
      BY <1>0, <2>1, <3>1, Origins
  <2>3. pc'[n] \in {"sent", "ending", "done", "dead"}
    BY <1>0, <1>2, <2>1, Origins DEF AnsweredInv
  <2>4. bind'[s] = bind[s]
    <3> SUFFICES ASSUME bind'[s] # bind[s] PROVE FALSE
      OBVIOUS
    <3>1. ASSUME NEW m \in Messages, scope[m] = s, JournalBinding(m) PROVE FALSE
      <4>1. pc[m] = "ready"
        BY <3>1, JournalDoes DEF Moves
      <4>2. bind[s] = base[m] /\ ~Unknown(base[m])
        BY <3>1, <4>1 DEF BindingInv, PlaceInv, Under
      <4> QED
        BY <1>0, <2>1, <4>2
    <3>2. ASSUME NEW m \in Messages, scope[m] = s,
    RollBack(m) \/ WriteBinding(m) \/ ReplyBinding(m) PROVE FALSE
      <4>1. pc[m] = "rollback" \/ (pc[m] \in {"sent",
      "ending"} /\ HasTask(m)) \/ pc[m] = "replied"
        BY <3>2, RollBackDoes, WriteBindingDoes, ReplyBindingDoes DEF Moves
      <4>2. bind[s].msg = m
        BY <1>0, <3>2, <4>1 DEF BindingInv
      <4>3. m = n
        BY <1>0, <2>1, <4>2
      <4> QED
        BY <2>1, <4>1, <4>3 DEF HasTask
    <3>3. ASSUME NEW m \in Messages, Reconcile(m), bind[s].msg = m PROVE FALSE
      BY <1>0, <1>2, <2>1, <3>3, ReconcileDoes
    <3> QED
      BY <1>0, <3>1, <3>2, <3>3, BindWrites
  <2>5. c # None => exec'[c] = exec[c]
    <3> SUFFICES ASSUME c # None, exec'[c] # exec[c] PROVE FALSE
      OBVIOUS
    <3>0. exec[c] = Pending(n) /\ exec[c].msg = n /\ Submitted(n)
      BY <1>0, <1>2, <2>1 DEF Submitted
    <3>1. ASSUME NEW m \in Messages, ReadBack(m), c = ctx[m] PROVE FALSE
      <4>1. pc[m] = "loaded"
        BY <3>1, ReadBackDoes DEF Moves
      <4>2. previous[m] = Recovered(exec[c], base[m], c) /\ ~Unknown(previous[m])
        BY <3>1, <4>1 DEF ContextInv
      <4>3. previous[m] # exec[c]
        BY <1>0, <3>0, <4>2
      <4>4. previous[m] = base[m] /\ exec[c].pending
        BY <3>0, <4>2, <4>3 DEF Recovered, Pending
      <4>5. base[m].msg = n
        BY <3>0, <4>2, <4>3, <4>4 DEF Recovered
      <4>6. scope[m] = s /\ bind[s] = base[m] /\ ~Unknown(base[m])
        <5>1. scope[m] = scope[n]
          BY <1>0, <4>5, NoneAssumption DEF RecordInv
        <5>2. bind[scope[m]] = base[m] /\ ~Unknown(base[m])
          BY <4>1 DEF BindingInv, PlaceInv, Under
        <5> QED
          BY <5>1, <5>2
      <4> QED
        BY <1>0, <2>1, <4>6
    <3>2. ASSUME NEW m \in Messages, JournalContext(m), c = ctx[m] PROVE FALSE
      <4>1. pc[m] = "journaled"
        BY <3>2, JournalContextDoes DEF Moves
      <4>2. n # m
        BY <2>1, <4>1
      <4> QED
        BY <1>0, <1>2, <3>2, <4>1, <4>2 DEF ReadyInv, Ready
    <3>3. ASSUME NEW m \in Messages, RollBackContext(m), c = ctx[m] PROVE FALSE
      <4>1. pc[m] = "rollbackContext"
        BY <3>3, RollBackContextDoes DEF Moves
      <4>2. exec[c] = Pending(m)
        BY <3>3, <4>1 DEF ContextInv
      <4> QED
        BY <1>0, <2>1, <3>0, <4>1, <4>2
    <3>4. ASSUME NEW m \in Messages, WriteContext(m), c = ctxOf[taskOf[m]] PROVE FALSE
      <4>1. pc[m] \in {"sent", "ending"} /\ taskOf[m] # None
        BY <3>4, WriteContextDoes DEF HasTask
      <4>2. CASE ctx[m] # None
        <5>1. ctx[m] = c
          BY <3>4, <4>1, <4>2, TaskContext
        <5>2. exec[c].msg = m
          BY <4>1, <4>2, <5>1 DEF ContextInv
        <5> QED
          BY <2>1, <3>0, <4>1, <5>2
      <4>3. CASE ctx[m] = None
        <5>1. taskOf[m] = m /\ c = ctxOf[m] /\ Learning(m)
          BY <3>4, <4>1, <4>3, TaskContext DEF Learning, Under
        <5> QED
          BY <1>0, <3>0, <5>1 DEF LearnInv
      <4> QED
        BY <4>2, <4>3
    <3>5. ASSUME NEW m \in Messages, ReplyContext(m), c = Where(m) PROVE FALSE
      <4>1. pc[m] = "replyContext"
        BY <3>5, ReplyContextDoes DEF Moves
      <4>2. CASE ctx[m] # None
        <5>1. ctx[m] = c
          BY <3>5, <4>1, <4>2, Replies
        <5>2. exec[c].msg = m
          BY <4>1, <4>2, <5>1 DEF ContextInv
        <5> QED
          BY <2>1, <3>0, <4>1, <5>2
      <4>3. CASE ctx[m] = None
        <5>1. Learning(m) /\ c = ctxOf[m]
          BY <3>5, <4>1, <4>3, Replies DEF Learning, Under
        <5> QED
          BY <1>0, <3>0, <5>1 DEF LearnInv
      <4> QED
        BY <4>2, <4>3
    <3>6. ASSUME NEW m \in Messages, Reconcile(m), exec[c].msg \in {m, None} PROVE FALSE
      BY <1>0, <1>2, <3>0, <3>6, ReconcileDoes, NoneAssumption
    <3> QED
      BY <1>0, <3>1, <3>2, <3>3, <3>4, <3>5, <3>6, ExecWrites
  <2> QED
    BY <1>0, <2>1, <2>2, <2>3, <2>4, <2>5, BegunKept, PlaceKept
<1> QED
  BY <1>1, <1>2

-----------------------------------------------------------------------------
(* The queue of snapshots.                                                 *)

\* What happens to a queue: its head is written or given up, a snapshot is put
\* behind its last, or it is lost with the process.
LEMMA QueueSteps ==
  ASSUME TypeOK, TaskInv, PlaceInv, AnsweredInv, NetInv, QueueInv, [Next]_vars, NEW n \in Messages
  PROVE  \/ queue'[n] = queue[n] /\ (n \in half' => n \in half \/ queue[n] # <<>>)
              /\ (queue[n] # <<>> => pc'[n] \in {"sent", "ending"})
         \/ queue'[n] = <<>> /\ n \notin half'
         \/ /\ queue[n] # <<>> /\ queue'[n] = Tail(queue[n]) /\ n \notin half'
            /\ UNCHANGED <<pc, bind, scope, agent>>
         \/ /\ HasTask(n) /\ pc[n] = "sent" /\ pc'[n] \in {"sent", "ending"}
            /\ UNCHANGED <<bind, scope, agent>>
            /\ \E a \in BOOLEAN : queue'[n] = Append(queue[n], Seen(n, a))
<1> DEFINE A == queue'[n] = queue[n] /\ (n \in half' => n \in half \/ queue[n] # <<>>)
              /\ (queue[n] # <<>> => pc'[n] \in {"sent", "ending"})
           B == queue'[n] = <<>> /\ n \notin half'
           C == /\ queue[n] # <<>> /\ queue'[n] = Tail(queue[n]) /\ n \notin half'
                /\ UNCHANGED <<pc, bind, scope, agent>>
           D == /\ HasTask(n) /\ pc[n] = "sent" /\ pc'[n] \in {"sent", "ending"}
                /\ UNCHANGED <<bind, scope, agent>>
                /\ \E a \in BOOLEAN : queue'[n] = Append(queue[n], Seen(n, a))
<1>0. /\ queue[n] # <<>> => pc[n] \in {"sent", "ending"} /\ HasTask(n)
      /\ n \in half => queue[n] # <<>>
  BY DEF QueueInv
<1>1. ASSUME NEW m \in Messages, Begin(m) \/ EnterContext(m) \/ ReadBack(m) PROVE A
  BY <1>0, <1>1, BeginDoes, EnterDoes, ReadBackDoes DEF Moves, hooks
<1>2. ASSUME NEW m \in Messages, Finishes(m) PROVE A
  BY <1>0, <1>2, FinishDoes DEF Moves, hooks
<1>3. ASSUME NEW m \in Messages, Advances(m) PROVE A \/ D
  <2>1. half' = half /\ UNCHANGED <<bind, scope, agent>>
    BY <1>3, AdvanceDoes DEF store, conversation
  <2>2. CASE m # n
    BY <1>0, <1>3, <2>1, <2>2, AdvanceDoes DEF Moves
  <2>3. CASE m = n /\ pc[n] = "submit"
    BY <1>0, <1>3, <2>1, <2>3, AdvanceDoes
  <2>4. CASE m = n /\ pc[n] = "sent"
    <3>1. pc'[n] = "ending" \/ (pc'[n] = "replied" /\ queue'[n] = queue[n] /\ ~HasTask(n))
      BY <1>3, <2>4, AdvanceDoes
    <3>2. CASE pc'[n] = "replied"
      BY <1>0, <2>1, <3>1, <3>2
    <3>3. CASE pc'[n] = "ending"
      <4>1. \/ queue'[n] = queue[n]
            \/ HasTask(n) /\ \E a \in BOOLEAN : queue'[n] = Append(queue[n], Seen(n, a))
        BY <1>3, <2>4, AdvanceDoes
      <4> QED
        BY <2>1, <2>4, <3>3, <4>1
    <3> QED
      BY <3>1, <3>2, <3>3
  <2> QED
    BY <1>3, <2>2, <2>3, <2>4, AdvanceDoes DEF Moves
<1>4. ASSUME NEW m \in Messages, Waits(m) PROVE A \/ C \/ D
  <2>1. UNCHANGED <<pc, bind, scope, agent>>
    BY <1>4, WaitDoes DEF store, conversation
  <2>2. CASE m # n
    <3>1. queue'[n] = queue[n] /\ (n \in half' <=> n \in half)
      BY <1>4, <2>2, WaitDoes
    <3> QED
      BY <1>0, <2>1, <3>1
  <2>3. CASE m = n
    <3>1. \/ queue'[n] = queue[n] /\ half' = half
          \/ queue[n] # <<>> /\ queue'[n] = Tail(queue[n]) /\ n \notin half'
          \/ pc[n] = "sent" /\ HasTask(n) /\ queue[n] = <<>> /\ queue'[n] = <<Seen(n, TRUE)>> /\ half' = half
      BY <1>4, <2>3, WaitDoes
    <3>2. queue[n] = <<>> => Append(queue[n], Seen(n, TRUE)) = <<Seen(n, TRUE)>>
      OBVIOUS
    <3>3. CASE queue'[n] = queue[n] /\ half' = half
      BY <1>0, <2>1, <3>3
    <3>4. CASE queue[n] # <<>> /\ queue'[n] = Tail(queue[n]) /\ n \notin half'
      BY <2>1, <3>4
    <3>5. CASE pc[n] = "sent" /\ HasTask(n) /\ queue[n] = <<>> /\ queue'[n] = <<Seen(n, TRUE)>>
      BY <2>1, <3>2, <3>5
    <3> QED
      BY <3>1, <3>3, <3>4, <3>5
  <2> QED
    BY <2>2, <2>3
<1>5. ASSUME NEW m \in Messages, JournalBinding(m) \/ JournalContext(m) \/ RollBack(m) \/ RollBackContext(m) PROVE A
  BY <1>0, <1>5, JournalDoes, JournalContextDoes, RollBackDoes, RollBackContextDoes DEF Moves,
     hooks
<1>6. ASSUME NEW m \in Messages, WriteBinding(m) PROVE A
  <2>1. queue[m] # <<>> /\ half' = half \cup {m} /\ UNCHANGED <<pc, queue>>
    BY <1>6 DEF WriteBinding
  <2> QED
    BY <1>0, <2>1
<1>7. ASSUME NEW m \in Messages, LeaseContext(m) PROVE A
  BY <1>0, <1>7, LeaseDoes DEF hooks
<1>8. ASSUME NEW m \in Messages, WriteContext(m) PROVE A \/ C
  <2>1. /\ UNCHANGED <<pc, bind, scope, agent>>
        /\ queue[m] # <<>> /\ queue'[m] = Tail(queue[m]) /\ m \notin half'
        /\ n # m => queue'[n] = queue[n] /\ (n \in half' <=> n \in half)
    BY <1>8, WriteContextDoes DEF conversation
  <2> QED
    BY <1>0, <2>1
<1>9. ASSUME NEW m \in Messages, ReplyBinding(m) \/ ReplyContext(m) PROVE A
  BY <1>0, <1>9, ReplyBindingDoes, ReplyContextDoes DEF Moves, hooks
<1>10. ASSUME NEW m \in Messages, Receive(m) \/ Work(m) \/ Reconcile(m) PROVE A
  BY <1>0, <1>10, ReceiveDoes, WorkDoes, ReconcileDoes DEF hooks
<1>11. CASE Die
  BY <1>11, DieDoes
<1>12. CASE UNCHANGED vars
  BY <1>0, <1>12 DEF vars, writer
<1> QED
  BY <1>1, <1>2, <1>3, <1>4, <1>5, <1>6, <1>7, <1>8, <1>9, <1>10, <1>11, <1>12, Steps

\* One end behind another, and nothing behind an end.
Ordered(q, m) ==
  \A i \in 1..Len(q) : q[i].state = "final" =>
    state[taskOf[m]] = "final" /\ \A j \in i..Len(q) : q[j].state = "final"
Ends(q) == \A j \in 1..Len(q) : q[j].state = "final"

\* What is left of a queue in order is in order.
LEMMA OrderedTail ==
  ASSUME NEW m \in Messages, NEW q \in Seq(Snapshots), q # <<>>, Ordered(q, m)
  PROVE  Ordered(Tail(q), m) /\ (Head(q).state = "final" => Ends(q)) /\ (Ends(q) => Ends(Tail(q)))
<1>1. Len(q) \in Nat /\ Len(q) >= 1 /\ Head(q) = q[1]
  BY EmptySeq, LenProperties
<1>2. /\ Len(Tail(q)) = Len(q) - 1
      /\ \A i \in 1..(Len(q) - 1) : Tail(q)[i] = q[i + 1]
  BY HeadTailProperties
<1>3. Ordered(Tail(q), m)
  <2> SUFFICES ASSUME NEW i \in 1..Len(Tail(q)), Tail(q)[i].state = "final"
               PROVE  state[taskOf[m]] = "final" /\ \A j \in i..Len(Tail(q)) : Tail(q)[j].state = "final"
    BY DEF Ordered
  <2>1. i + 1 \in 1..Len(q) /\ q[i + 1].state = "final"
    BY <1>1, <1>2
  <2>2. state[taskOf[m]] = "final" /\ \A j \in (i + 1)..Len(q) : q[j].state = "final"
    BY <2>1 DEF Ordered
  <2>3. ASSUME NEW j \in i..Len(Tail(q)) PROVE Tail(q)[j].state = "final"
    <3>1. j \in 1..(Len(q) - 1) /\ j + 1 \in (i + 1)..Len(q)
      BY <1>1, <1>2
    <3> QED
      BY <1>2, <2>2, <3>1
  <2> QED
    BY <2>2, <2>3
<1>4. Head(q).state = "final" => Ends(q)
  BY <1>1 DEF Ordered, Ends
<1>5. Ends(q) => Ends(Tail(q))
  <2> SUFFICES ASSUME Ends(q), NEW j \in 1..Len(Tail(q)) PROVE Tail(q)[j].state = "final"
    BY DEF Ends
  <2>1. j \in 1..(Len(q) - 1) /\ j + 1 \in 1..Len(q)
    BY <1>1, <1>2
  <2> QED
    BY <1>2, <2>1 DEF Ends
<1> QED
  BY <1>3, <1>4, <1>5

\* So is a queue to which the present state is appended.
LEMMA OrderedAppend ==
  ASSUME NEW m \in Messages, NEW q \in Seq(Snapshots), NEW e \in Snapshots, Ordered(q, m),
         e.state = state[taskOf[m]]
  PROVE  Ordered(Append(q, e), m) /\ (Ends(q) /\ e.state = "final" => Ends(Append(q, e)))
<1>1. /\ Len(q) \in Nat /\ Len(Append(q, e)) = Len(q) + 1
      /\ Append(q, e)[Len(q) + 1] = e
      /\ \A i \in 1..Len(q) : Append(q, e)[i] = q[i]
  BY AppendProperties, LenProperties
<1> DEFINE p == Append(q, e)
<1> HIDE DEF p
<1>2. \A i \in 1..Len(p) : i \in 1..Len(q) \/ i = Len(q) + 1
  BY <1>1 DEF p
<1>3. Ordered(p, m)
  <2> SUFFICES ASSUME NEW i \in 1..Len(p), p[i].state = "final"
               PROVE  state[taskOf[m]] = "final" /\ \A j \in i..Len(p) : p[j].state = "final"
    BY DEF Ordered
  <2>1. state[taskOf[m]] = "final"
    <3>1. CASE i \in 1..Len(q)
      BY <1>1, <3>1 DEF Ordered, p
    <3>2. CASE i = Len(q) + 1
      BY <1>1, <3>2 DEF p
    <3> QED
      BY <1>2, <3>1, <3>2
  <2>2. ASSUME NEW j \in i..Len(p) PROVE p[j].state = "final"
    <3>1. CASE j = Len(q) + 1
      BY <1>1, <2>1, <3>1 DEF p
    <3>2. CASE j # Len(q) + 1
      <4>1. i \in 1..Len(q) /\ j \in i..Len(q) /\ j \in 1..Len(q)
        BY <1>1, <3>2 DEF p
      <4>2. q[i].state = "final"
        BY <1>1, <4>1 DEF p
      <4> QED
        BY <1>1, <4>1, <4>2 DEF Ordered, p
    <3> QED
      BY <3>1, <3>2
  <2> QED
    BY <2>1, <2>2
<1>4. Ends(q) /\ e.state = "final" => Ends(p)
  <2> SUFFICES ASSUME Ends(q), e.state = "final", NEW j \in 1..Len(p) PROVE p[j].state = "final"
    BY DEF Ends
  <2>1. CASE j \in 1..Len(q)
    BY <1>1, <2>1 DEF Ends, p
  <2>2. CASE j = Len(q) + 1
    BY <1>1, <2>2 DEF p
  <2> QED
    BY <1>2, <2>1, <2>2
<1> QED
  BY <1>3, <1>4 DEF p

\* The binding says that a task is over only if it is.
LEMMA FinalBinding ==
  ASSUME TypeOK, RecordInv, TaskInv, BindingInv, NEW n \in Messages, pc[n] \in {"sent", "ending"}, HasTask(n),
         bind[scope[n]].state = "final"
  PROVE  state[taskOf[n]] = "final"
<1> DEFINE r == bind[scope[n]]
<1>1. r.msg = n /\ TrueRecord(r)
  BY DEF TypeOK, BindingInv, RecordInv, GoodRecord
<1>2. r # Pending(n)
  BY DEF Pending
<1>3. r.task = Task(n) /\ state[r.task] = "final"
  BY <1>1, <1>2, NoneAssumption DEF TrueRecord
<1> QED
  BY <1>3, SeenTypes

\* What has been said of the end stays said: nothing follows it in the queue.
LEMMA NextQueue ==
  ASSUME TypeOK, TaskInv, RecordInv, PlaceInv, AnsweredInv, BindingInv, NetInv, QueueInv, [Next]_vars
  PROVE  QueueInv'
<1> SUFFICES ASSUME NEW n \in Messages
             PROVE  /\ n \in half' => queue'[n] # <<>>
                    /\ queue'[n] # <<>> => pc'[n] \in {"sent", "ending"} /\ HasTask(n)'
                    /\ Ordered(queue[n], n)'
                    /\ pc'[n] \in {"sent", "ending"} /\ bind'[scope'[n]].state = "final" => Ends(queue[n])'
  BY DEF QueueInv, Ordered, Ends
<1> DEFINE q == queue[n]
           s == scope[n]
<1>1. /\ n \in half => q # <<>>
      /\ q # <<>> => pc[n] \in {"sent", "ending"} /\ HasTask(n)
      /\ Ordered(q, n)
      /\ pc[n] \in {"sent", "ending"} /\ bind[s].state = "final" => Ends(q)
      /\ q \in Seq(Snapshots) /\ s \in Scopes /\ scope'[n] = s
  BY PlaceKept DEF QueueInv, TypeOK, Ordered, Ends
<1>2. HasTask(n) => HasTask(n)' /\ taskOf'[n] = taskOf[n] /\ (state[taskOf[n]] = "final" => state'[taskOf[n]] = "final")
  <2> SUFFICES ASSUME HasTask(n)
               PROVE  HasTask(n)' /\ taskOf'[n] = taskOf[n] /\ (state[taskOf[n]] = "final" => state'[taskOf[n]] = "final")
    OBVIOUS
  <2>1. taskOf[n] # None /\ taskOf[n] \in Messages /\ state[taskOf[n]] \in Started
    BY SeenTypes DEF HasTask
  <2>2. taskOf'[n] = taskOf[n] /\ state'[taskOf[n]] \in Started
        /\ (state[taskOf[n]] = "final" => state'[taskOf[n]] = "final")
    BY <2>1, TaskKept DEF Started
  <2> QED
    BY <2>1, <2>2 DEF HasTask, Started
<1>3. Ordered(<<>>, n)' /\ Ends(<<>>)
  BY DEF Ordered, Ends
<1>4. CASE queue'[n] = <<>> /\ n \notin half'
  BY <1>3, <1>4 DEF Ordered, Ends
<1>5. CASE queue'[n] = q /\ (n \in half' => n \in half \/ q # <<>>) /\ (q # <<>> => pc'[n] \in {"sent", "ending"})
  <2>1. CASE q = <<>>
    BY <1>1, <1>3, <1>5, <2>1 DEF Ordered, Ends
  <2>2. CASE q # <<>>
    <3>1. pc[n] \in {"sent", "ending"} /\ HasTask(n)
      BY <1>1, <2>2
    <3>2. Ordered(queue[n], n)'
      BY <1>1, <1>2, <1>5, <3>1 DEF Ordered
    <3>3. bind'[s].state = "final" => Ends(q)
      <4>1. CASE bind'[s] = bind[s]
        BY <1>1, <3>1, <4>1
      <4>2. CASE bind'[s] # bind[s]
        <5>1. PICK m \in Messages : \/ scope[m] = s /\ (JournalBinding(m) \/ RollBack(m) \/ ReplyBinding(m))
                                    \/ scope[m] = s /\ WriteBinding(m) /\ bind'[s] = Record(m)
                                    \/ Reconcile(m)
          BY <1>1, <4>2, BindWrites
        <5>2. Under(n) /\ ~Reconcile(m)
          BY <3>1, ReconcileDoes DEF Under
        <5>3. Under(m)
          BY <5>1, <5>2, JournalDoes, RollBackDoes, ReplyBindingDoes, WriteBindingDoes
             DEF Under, Moves
        <5>4. m = n
          BY <5>1, <5>2, <5>3 DEF BindingInv
        <5>5. bind'[s] = Record(n)
          BY <3>1, <5>1, <5>2, <5>4, JournalDoes, RollBackDoes, ReplyBindingDoes DEF Moves
        <5>6. bind'[s].state = Head(q).state
          BY <5>5 DEF Record
        <5> QED
          BY <1>1, <2>2, <5>6, OrderedTail
      <4> QED
        BY <4>1, <4>2
    <3>4. queue'[n] = q
      BY <1>5
    <3>5. Ends(queue[n])' <=> Ends(q)
      BY <3>4 DEF Ends
    <3> QED
      BY <1>1, <1>2, <1>5, <2>2, <3>1, <3>2, <3>3, <3>5
  <2> QED
    BY <2>1, <2>2
<1>6. CASE /\ q # <<>> /\ queue'[n] = Tail(q) /\ n \notin half'
           /\ UNCHANGED <<pc, bind, scope, agent>>
  <2>1. pc[n] \in {"sent", "ending"} /\ HasTask(n) /\ HasTask(n)'
    BY <1>1, <1>2, <1>6
  <2>2. Ordered(Tail(q), n) /\ (Ends(q) => Ends(Tail(q)))
    BY <1>1, <1>6, OrderedTail
  <2>3. Ordered(queue[n], n)' /\ (Ends(queue[n])' <=> Ends(Tail(q)))
    BY <1>6, <2>2 DEF Ordered, Ends, agent
  <2> QED
    BY <1>1, <1>6, <2>1, <2>2, <2>3
<1>7. ASSUME HasTask(n), pc[n] = "sent", pc'[n] \in {"sent", "ending"}, UNCHANGED <<bind, scope, agent>>,
             NEW a \in BOOLEAN, queue'[n] = Append(q, Seen(n, a))
      PROVE  /\ n \in half' => queue'[n] # <<>>
             /\ queue'[n] # <<>> => pc'[n] \in {"sent", "ending"} /\ HasTask(n)'
             /\ Ordered(queue[n], n)'
             /\ pc'[n] \in {"sent", "ending"} /\ bind'[scope'[n]].state = "final" => Ends(queue[n])'
  <2> DEFINE e == Seen(n, a)
  <2>1. e \in Snapshots /\ e.state = state[taskOf[n]]
    BY <1>7, SeenTypes DEF Seen
  <2> HIDE DEF e
  <2>2. Ordered(Append(q, e), n) /\ (Ends(q) /\ e.state = "final" => Ends(Append(q, e)))
    BY <1>1, <2>1, OrderedAppend
  <2>3. queue'[n] = Append(q, e)
    BY <1>7 DEF e
  <2>4. Ordered(queue[n], n)' /\ (Ends(queue[n])' <=> Ends(Append(q, e)))
    BY <1>7, <2>2, <2>3 DEF Ordered, Ends, agent
  <2>5. queue'[n] # <<>>
    BY <1>1, <2>1, <2>3, AppendProperties
  <2>6. bind'[s].state = "final" => Ends(q) /\ e.state = "final"
    BY <1>1, <1>7, <2>1, FinalBinding
  <2> QED
    BY <1>1, <1>2, <1>7, <2>2, <2>4, <2>5, <2>6
<1> QED
  BY <1>4, <1>5, <1>6, <1>7, QueueSteps

-----------------------------------------------------------------------------
(* Contexts that are learned.                                              *)

\* What is written of a task names its context.
LEMMA RecordNames ==
  ASSUME TypeOK, TaskInv
  PROVE  /\ \A m \in Messages : Pending(m).ctx = ctx[m] /\ Record(m).ctx = ctxOf[taskOf[m]] /\ Completed(m).ctx = Where(m)
         /\ \A r \in Records : TrueRecord(r) => ReadBackOf(r).ctx = r.ctx
<1>1. ASSUME NEW r \in Records, TrueRecord(r) PROVE ReadBackOf(r).ctx = r.ctx
  <2>1. CASE Opened(r)
    BY <1>1, <2>1, SnapshotTrue DEF ReadBackOf, Opened
  <2>2. CASE ~Opened(r)
    BY <2>2 DEF ReadBackOf, Opened
  <2> QED
    BY <2>1, <2>2
<1> QED
  BY <1>1 DEF Pending, Record, Completed, Empty

\* A context that has just been learned is new to everybody.
LEMMA BeginsLearning ==
  ASSUME TypeOK, TaskInv, RecordInv, PlaceInv, AnsweredInv, NetInv, QueueInv, [Next]_vars,
         NEW k \in Messages, Learning(k)', ~Learning(k)
  PROVE  LET c == ctxOf'[k] IN
         /\ \A j \in Messages : ctx'[j] # c /\ base'[j].ctx # c /\ previous'[j].ctx # c
         /\ \A x \in Contexts : exec'[x].ctx # c
         /\ \A s \in Scopes : bind'[s].ctx # c
<1> DEFINE c == ctxOf'[k]
<1>1. Receive(k)
  <2>1. CASE Begin(k)
    <3>1. taskOf[k] = None /\ UNCHANGED agent
      BY <2>1, BeginDoes DEF PlaceInv, Early, Submitted, Moves
    <3> QED
      BY <3>1, NoneAssumption DEF Learning, agent
  <2>2. CASE ~Begin(k)
    <3>1. Under(k) /\ ctx[k] = None
      BY <2>2, Origins DEF Learning
    <3>2. taskOf'[k] = k /\ taskOf[k] # k
      BY <3>1 DEF Learning
    <3> QED
      BY <3>2, Origins
  <2> QED
    BY <2>1, <2>2
<1>2. UNCHANGED <<store, ctx, base, previous, follow>> /\ k \in net
  BY <1>1, ReceiveDoes DEF conversation
<1>3. ctx[k] = None
  BY <1>2 DEF Learning
<1>4. follow[k] = None
  BY <1>3, Learner
<1>5. /\ c \in Contexts /\ exec[c].ctx = None
      /\ \A n \in Messages : c \notin {ctx[n], ctxOf[n]}
  BY <1>1, <1>3, <1>4, ReceiveDoes, NoneAssumption
<1>6. ~KnownContext(c)
  BY <1>5, NoneAssumption DEF KnownContext
<1>7. \A r : GoodRecord(r) => r.ctx # c
  BY <1>6 DEF GoodRecord
<1> HIDE DEF c
<1>8. /\ \A j \in Messages : ctx[j] # c /\ base[j].ctx # c /\ previous[j].ctx # c
      /\ \A x \in Contexts : exec[x].ctx # c
      /\ \A s \in Scopes : bind[s].ctx # c
  BY <1>5, <1>7 DEF RecordInv
<1> QED
  BY <1>2, <1>8 DEF store, c

\* As long as its lock is not held, nobody else hears of it.
LEMMA GoesOnLearning ==
  ASSUME TypeOK, TaskInv, LearnerInv, RecordInv, PlaceInv, AnsweredInv, BindingInv, LockInv, NetInv, QueueInv, LearnInv, [Next]_vars,
         NEW k \in Messages, Learning(k), Under(k)', locked[k] = None
  PROVE  LET c == ctxOf[k] IN
         /\ \A j \in Messages : ctx'[j] # c /\ base'[j].ctx # c /\ previous'[j].ctx # c
         /\ \A x \in Contexts : exec'[x].ctx # c
         /\ \A s \in Scopes : s # scope[k] => bind'[s].ctx # c
<1> DEFINE c == ctxOf[k]
<1>0. /\ Under(k) /\ ctx[k] = None /\ taskOf[k] = k /\ c # None
      /\ \A m \in Messages : ~Reconcile(m)
      /\ \A j \in Messages : previous[j] \in Records /\ TrueRecord(previous[j]) /\ scope[j] \in Scopes
  <2>1. Under(k) /\ ctx[k] = None /\ taskOf[k] = k
    BY DEF Learning
  <2>2. \A m \in Messages : ~Reconcile(m)
    BY <2>1, ReconcileDoes
  <2> QED
    BY <2>1, <2>2, Begun, NoneAssumption DEF TypeOK, RecordInv, GoodRecord
<1>1. /\ \A j \in Messages : ctx[j] # c /\ base[j].ctx # c /\ previous[j].ctx # c
      /\ \A x \in Contexts : exec[x].ctx # c
      /\ \A s \in Scopes : s # scope[k] => bind[s].ctx # c
  BY DEF LearnInv
<1>2. \A m \in Messages : ctxOf[m] = c /\ ctx[m] = None => m = k
  BY <1>0 DEF LearnerInv
<1> HIDE DEF c
<1>3. ASSUME NEW j \in Messages PROVE ctx'[j] # c
  <2>1. CASE Begin(j)
    <3>1. PICK r \in Known : ctx'[j] \in {None, r.ctx}
      BY <2>1, BeginRequest
    <3>2. r.ctx # c
      <4>1. CASE \E x \in Contexts : r = exec[x]
        BY <1>1, <4>1
      <4>2. CASE \E n \in Messages : ScopeFree(n) /\ r = bind[scope[n]]
        <5>1. PICK n \in Messages : ScopeFree(n) /\ r = bind[scope[n]]
          BY <4>2
        <5>2. scope[n] # scope[k] /\ scope[n] \in Scopes
          BY <1>0, <5>1 DEF ScopeFree
        <5> QED
          BY <1>1, <5>1, <5>2
      <4> QED
        BY <4>1, <4>2 DEF Known
    <3> QED
      BY <1>0, <3>1, <3>2
  <2>2. CASE ~Begin(j)
    BY <1>1, <2>2, Origins
  <2> QED
    BY <2>1, <2>2
<1>4. ASSUME NEW j \in Messages PROVE base'[j].ctx # c
  <2>1. CASE Begin(j)
    <3>1. base'[j] = bind[scope[j]] /\ ScopeFree(j)
      BY <2>1, BeginDoes
    <3>2. scope[j] # scope[k]
      BY <1>0, <3>1 DEF ScopeFree
    <3> QED
      BY <1>0, <1>1, <3>1, <3>2
  <2>2. CASE ~Begin(j)
    BY <1>1, <2>2, Origins
  <2> QED
    BY <2>1, <2>2
<1>5. ASSUME NEW j \in Messages PROVE previous'[j].ctx # c
  <2>1. CASE EnterContext(j)
    <3>1. previous'[j] = Recovered(exec[ctx[j]], base[j], ctx[j]) /\ ctx[j] \in Contexts
      BY <2>1, EnterDoes DEF PlaceInv, TypeOK, Moves
    <3> QED
      BY <1>1, <3>1 DEF Recovered
  <2>2. CASE ReadBack(j)
    BY <1>0, <1>1, <2>2, ReadBackDoes, RecordNames
  <2>3. CASE previous'[j] = previous[j]
    BY <1>1, <2>3
  <2> QED
    BY <2>1, <2>2, <2>3, Origins
<1>6. ASSUME NEW m \in Messages, taskOf[m] # None, ctxOf[taskOf[m]] = c PROVE m = k
  <2>1. ctx[m] = None /\ taskOf[m] = m
    BY <1>1, <1>6, TaskContext
  <2> QED
    BY <1>2, <1>6, <2>1
<1>9. ASSUME NEW m \in Messages, m # k, pc[m] \in {"replied", "replyContext"} PROVE Completed(m).ctx # c
  <2>1. Completed(m).ctx = Where(m)
    BY RecordNames
  <2>2. CASE taskOf[m] = None
    <3>1. ctx[m] # None /\ Where(m) = ctx[m]
      BY <1>9, <2>2, Replies, NoneAssumption
    <3> QED
      BY <1>1, <2>1, <3>1
  <2>3. CASE taskOf[m] # None
    BY <1>6, <1>9, <2>1, <2>3, Replies
  <2> QED
    BY <2>2, <2>3
<1>7. ASSUME NEW x \in Contexts PROVE exec'[x].ctx # c
  <2>1. CASE exec'[x] = exec[x]
    BY <1>1, <2>1
  <2>2. CASE exec'[x] # exec[x]
    <3>1. CASE \E m \in Messages :
              \/ exec'[x] = ReadBackOf(previous[m]) \/ exec'[x] = Pending(m) \/ exec'[x] = previous[m]
      BY <1>0, <1>1, <3>1, RecordNames
    <3>2. ASSUME NEW m \in Messages, WriteContext(m), x = ctxOf[taskOf[m]], locked[m] = x,
    exec'[x] = Record(m)
          PROVE  exec'[x].ctx # c
      <4>1. taskOf[m] # None /\ m # k
        BY <3>2, WriteContextDoes, NoneAssumption DEF HasTask
      <4> QED
        BY <1>6, <3>2, <4>1, RecordNames
    <3>3. ASSUME NEW m \in Messages, ReplyContext(m), x = Where(m), exec'[x] = Completed(m)
          PROVE  exec'[x].ctx # c
      <4>1. pc[m] = "replyContext" /\ pc'[m] = "done"
        BY <3>3, ReplyContextDoes DEF Moves
      <4>2. m # k
        BY <4>1 DEF Under
      <4> QED
        BY <3>3, <4>1, <4>2, <1>9
    <3> QED
      BY <1>0, <2>2, <3>1, <3>2, <3>3, ExecWrites
  <2> QED
    BY <2>1, <2>2
<1>8. ASSUME NEW s \in Scopes, s # scope[k] PROVE bind'[s].ctx # c
  <2>1. CASE bind'[s] = bind[s]
    BY <1>1, <1>8, <2>1
  <2>2. CASE bind'[s] # bind[s]
    <3>1. CASE \E m \in Messages : bind'[s] = Pending(m) \/ bind'[s] = base[m]
      BY <1>1, <3>1, RecordNames
    <3>2. ASSUME NEW m \in Messages, scope[m] = s, WriteBinding(m), bind'[s] = Record(m)
          PROVE  bind'[s].ctx # c
      <4>1. taskOf[m] # None /\ m # k
        BY <1>8, <3>2, WriteBindingDoes DEF HasTask
      <4> QED
        BY <1>6, <3>2, <4>1, RecordNames
    <3>3. ASSUME NEW m \in Messages, scope[m] = s, ReplyBinding(m), bind'[s] = Completed(m)
          PROVE  bind'[s].ctx # c
      <4>1. pc[m] = "replied" /\ m # k
        BY <1>8, <3>3, ReplyBindingDoes DEF Moves
      <4> QED
        BY <3>3, <4>1, <1>9
    <3> QED
      BY <1>0, <2>2, <3>1, <3>2, <3>3, BindWrites
  <2> QED
    BY <2>1, <2>2
<1> QED
  BY <1>3, <1>4, <1>5, <1>7, <1>8 DEF c

\* A context that an invocation has learned stays closed to the others.
LEMMA NextLearn ==
  ASSUME TypeOK, TaskInv, LearnerInv, RecordInv, PlaceInv, AnsweredInv, BindingInv, LockInv, NetInv, QueueInv, LearnInv, [Next]_vars
  PROVE  LearnInv'
<1> SUFFICES ASSUME NEW k \in Messages, Learning(k)'
             PROVE  LET c == ctxOf'[k] IN
                    /\ \A j \in Messages : ctx'[j] = c => pc'[j] \in {"bound", "done", "dead"} /\ ~Submitted(j)'
                    /\ locked'[k] = None =>
                         /\ \A j \in Messages : ctx'[j] # c /\ base'[j].ctx # c /\ previous'[j].ctx # c
                         /\ \A x \in Contexts : exec'[x].ctx # c
                         /\ \A s \in Scopes : s # scope'[k] => bind'[s].ctx # c
  BY DEF LearnInv
<1>1. CASE ~Learning(k)
  BY <1>1, BeginsLearning
<1>2. CASE Learning(k)
  <2> DEFINE c == ctxOf[k]
  <2>1. /\ Under(k) /\ Under(k)' /\ ctx[k] = None /\ taskOf[k] = k /\ c \in Contexts
        /\ ctxOf'[k] = c /\ scope'[k] = scope[k]
    <3>1. Under(k) /\ Under(k)' /\ ctx[k] = None /\ taskOf[k] = k
      BY <1>2 DEF Learning
    <3> QED
      BY <3>1, Begun, TaskKept, PlaceKept, NoneAssumption
  <2>2. \A j \in Messages : ctx[j] = c => pc[j] \in {"bound", "done", "dead"} /\ ~Submitted(j)
    BY <1>2 DEF LearnInv
  <2>3. locked'[k] = None => locked[k] = None
    <3>1. ~EnterContext(k)
      BY <2>1, EnterDoes, NoneAssumption DEF PlaceInv, Moves
    <3>2. LeaseContext(k) => locked[k] = None
      BY LeaseDoes
    <3> QED
      BY <2>1, <3>1, <3>2, Origins
  <2>4. locked[k] # None => locked[k] = c
    BY <2>1 DEF LockInv
  <2> HIDE DEF c
  <2>5. ASSUME NEW j \in Messages, ctx'[j] = c PROVE pc'[j] \in {"bound", "done", "dead"} /\ ~Submitted(j)'
    <3>1. CASE Begin(j)
      <4>1. pc'[j] \in {"bound", "done"} /\ ~Submitted(j) /\ UNCHANGED <<agent, net>>
        BY <2>1, <2>5, <3>1, BeginDoes, NoneAssumption DEF PlaceInv, Early, Moves
      <4> QED
        BY <4>1 DEF Submitted, agent
    <3>2. CASE ~Begin(j)
      <4>1. ctx[j] = c
        BY <2>5, <3>2, Origins
      <4>2. pc[j] \in {"bound", "done", "dead"} /\ ~Submitted(j)
        BY <2>2, <4>1
      <4>3. ~EnterContext(j)
        <5>1. locked[k] # None
          BY <1>2, <4>1 DEF LearnInv, c
        <5> QED
          BY <2>4, <4>1, <5>1, EnterDoes DEF ContextFree
      <4>4. ~ReadBack(j) /\ ~JournalBinding(j) /\ ~JournalContext(j)
        BY <4>2, ReadBackDoes, JournalDoes, JournalContextDoes DEF Moves
      <4>5. pc'[j] \in Places
        BY NextType DEF TypeOK
      <4>6. pc'[j] \in {"bound", "done", "dead"}
        BY <3>2, <4>2, <4>3, <4>4, <4>5, Origins DEF Places
      <4>7. taskOf'[j] = taskOf[j] /\ j \notin net'
        <5>1. ~Receive(j)
          BY <4>2, ReceiveDoes DEF Submitted
        <5> QED
          BY <4>2, <5>1, Origins DEF Submitted
      <4> QED
        BY <4>2, <4>6, <4>7 DEF Submitted
    <3> QED
      BY <3>1, <3>2
  <2>6. locked'[k] = None =>
          /\ \A j \in Messages : ctx'[j] # c /\ base'[j].ctx # c /\ previous'[j].ctx # c
          /\ \A x \in Contexts : exec'[x].ctx # c
          /\ \A s \in Scopes : s # scope[k] => bind'[s].ctx # c
    BY <1>2, <2>1, <2>3, GoesOnLearning DEF c
  <2> QED
    BY <2>1, <2>5, <2>6
<1> QED
  BY <1>1, <1>2

-----------------------------------------------------------------------------
(* Reading back.                                                           *)

\* A task is opened again only by a message that follows it.
LEMMA Reopened ==
  ASSUME TypeOK, TaskInv, NetInv, [Next]_vars, NEW t \in Messages, state[t] = "interrupted", state'[t] # "interrupted"
  PROVE  state'[t] = "final" \/ \E m \in net : Receive(m) /\ follow[m] = t /\ ctx[m] = ctxOf[t]
<1>1. state'[t] \in Started
  <2>1. taskOf[t] # None
    BY Begun, NoneAssumption
  <2> QED
    BY <2>1, TaskKept DEF Started
<1>2. CASE \E m \in Messages : Receive(m)
  <2>1. PICK m \in Messages : Receive(m)
    BY <1>2
  <2>2. m \in net /\ state[m] = "none"
    BY <2>1, ReceiveDoes
  <2>3. follow[m] = t
    BY <2>1, <2>2, ReceiveDoes
  <2> QED
    BY <2>1, <2>2, <2>3, NoneAssumption DEF TaskInv
<1>3. CASE ~\E m \in Messages : Receive(m)
  <2>1. \A m \in Messages : Begin(m) => state' = state
    BY BeginDoes DEF agent
  <2>2. \A m \in Messages : ~Work(m)
    BY WorkDoes
  <2> QED
    BY <1>3, <2>1, <2>2, TaskSteps
<1> QED
  BY <1>2, <1>3

\* A record that is known is of a task, its own message's, and says when it is over.
LEMMA KnownRecord ==
  ASSUME TypeOK, NEW r \in Records, TrueRecord(r), ~Unknown(r), r.msg # None
  PROVE  /\ r.msg \in Messages /\ r.task = Task(r.msg) /\ r.pending = (r.state # "final") /\ r.task # None
         /\ r.state = "final" => state[r.task] = "final"
<1>1. r.msg \in Messages
  BY RecordFields
<1>2. r # Pending(r.msg)
  BY DEF Unknown, Pending
<1>3. Task(r.msg) # None
  BY <1>1, NoneAssumption DEF Task
<1> QED
  BY <1>1, <1>2, <1>3 DEF TrueRecord

\* What is read back: the binding or the record of the context.
LEMMA LoadedRecord ==
  ASSUME TypeOK, RecordInv, PlaceInv, AnsweredInv, BindingInv, ContextInv, NEW k \in Messages, pc[k] = "loaded"
  PROVE  /\ ctx[k] \in Contexts
         /\ previous[k] = Recovered(exec[ctx[k]], base[k], ctx[k])
         /\ ~Unknown(previous[k]) /\ ~Unknown(base[k]) /\ bind[scope[k]] = base[k]
         /\ exec[ctx[k]] \in Records /\ TrueRecord(exec[ctx[k]])
         /\ base[k] \in Records /\ TrueRecord(base[k])
         /\ previous[k] \in Records /\ TrueRecord(previous[k])
<1>1. ctx[k] \in Contexts
  BY DEF PlaceInv, TypeOK
<1>2. /\ previous[k] = Recovered(exec[ctx[k]], base[k], ctx[k])
      /\ ~Unknown(previous[k]) /\ ~Unknown(base[k]) /\ bind[scope[k]] = base[k]
  BY <1>1, NoneAssumption DEF ContextInv, PlaceInv, BindingInv, Under
<1> QED
  BY <1>1, <1>2 DEF TypeOK, RecordInv, GoodRecord

\* An invocation that reads back finds no message on its way to its context.
LEMMA LoadedAlone ==
  ASSUME TypeOK, RecordInv, PlaceInv, AnsweredInv, BindingInv, ContextInv, NetInv,
         NEW k \in Messages, pc[k] = "loaded", NEW n \in Messages, ctx[n] = ctx[k]
  PROVE  n \notin net
<1> SUFFICES ASSUME n \in net PROVE FALSE
  OBVIOUS
<1> DEFINE c == ctx[k]
           e == exec[c]
           b == base[k]
<1>1. /\ c \in Contexts /\ previous[k] = Recovered(e, b, c)
      /\ ~Unknown(previous[k]) /\ ~Unknown(b) /\ bind[scope[k]] = b
  BY LoadedRecord
<1>2. e = Pending(n) /\ bind[scope[n]] = Pending(n)
  BY <1>1, NoneAssumption DEF NetInv
<1>3. Unknown(Pending(n)) /\ Pending(n).pending /\ Pending(n).msg = n
  BY DEF Unknown, Pending
<1> HIDE DEF c, e, b
<1>4. previous[k] # e
  BY <1>1, <1>2, <1>3
<1>5. b.msg = n
  BY <1>1, <1>2, <1>3, <1>4 DEF Recovered
<1>6. scope[n] = scope[k]
  BY <1>5, NoneAssumption DEF RecordInv, b
<1> QED
  BY <1>1, <1>2, <1>3, <1>6

\* What it reads back is the task that is open there and not forgotten, whoever
\* sent the last message.
LEMMA LoadedCovers ==
  ASSUME TypeOK, TaskInv, RecordInv, PlaceInv, AnsweredInv, BindingInv, ContextInv, CoverInv,
         NEW k \in Messages, pc[k] = "loaded", NEW n \in Messages, ctx[n] = ctx[k], Open(n), ~Forgotten(taskOf[n])
  PROVE  Opened(previous[k]) /\ previous[k].task = taskOf[n]
<1> DEFINE c == ctx[k]
           e == exec[c]
           b == base[k]
           r == previous[k]
           t == taskOf[n]
<1>1. /\ c \in Contexts /\ r = Recovered(e, b, c)
      /\ ~Unknown(r) /\ ~Unknown(b)
      /\ e \in Records /\ TrueRecord(e) /\ b \in Records /\ TrueRecord(b) /\ r \in Records /\ TrueRecord(r)
  BY LoadedRecord
<1>2. t # None /\ t = Task(n) /\ state[t] # "final"
  BY DEF Open, TaskInv
<1>3. e.msg = n \/ e.task = t
  BY <1>1, NoneAssumption DEF CoverInv
<1>4. e.msg # None /\ e.msg \in Messages
  BY <1>1, <1>2, <1>3, RecordTask, NoneAssumption
<1>5. Task(e.msg) = t
  BY <1>1, <1>2, <1>3, RecordTask
<1> HIDE DEF c, e, b, r, t
<1>6. CASE r.msg = e.msg
  <2>1. r.task = t /\ (r.state = "final" => state[t] = "final")
    BY <1>1, <1>4, <1>5, <1>6, KnownRecord
  <2> QED
    BY <1>2, <2>1 DEF Opened, r, t
<1>7. CASE r.msg # e.msg
  <2>1. b.pending /\ ~e.pending
    BY <1>1, <1>7 DEF Recovered
  <2>2. e # Pending(e.msg)
    BY <2>1 DEF Pending
  <2>3. state[t] = "final"
    BY <1>1, <1>4, <1>5, <2>1, <2>2 DEF TrueRecord
  <2> QED
    BY <1>2, <2>3
<1> QED
  BY <1>6, <1>7

\* Only one step adds a direct answer to a continuation.
LEMMA AnswerSteps ==
  ASSUME [Next]_vars
  PROVE  \/ answered' = answered
         \/ \E m \in Messages : AnswerDirectly(m) /\ answered' = answered \cup {m}
<1> USE DEF remote
<1>1. ASSUME NEW m \in Messages, Step(m), answered' # answered PROVE FALSE
  <2>1. ~Begin(m) /\ ~EnterContext(m) /\ ~ReadBack(m) /\ ~GiveUp(m) /\ ~JournalBinding(m) /\ ~JournalContext(m)
    BY <1>1 DEF Begin, EnterContext, ReadBack, GiveUp, JournalBinding, JournalContext
  <2>2. ~Submit(m) /\ ~AbortedBeforeSubmit(m) /\ ~DiscoveryFails(m) /\ ~RollBack(m) /\ ~RollBackContext(m)
    BY <1>1 DEF Submit, AbortedBeforeSubmit, DiscoveryFails, RollBack, RollBackContext
  <2>3. ~OnTask(m) /\ ~WriteBinding(m) /\ ~LeaseContext(m) /\ ~WriteContext(m) /\ ~WriteFails(m)
    BY <1>1 DEF OnTask, WriteBinding, LeaseContext, WriteContext, WriteFails
  <2>4. ~ReturnsTask(m) /\ ~InvokerFails(m) /\ ~Replied(m) /\ ~ReplyBinding(m) /\ ~ReplyContext(m) /\ ~Settle(m)
    BY <1>1 DEF ReturnsTask, InvokerFails, Replied, ReplyBinding, ReplyContext, Settle
  <2> QED
    BY <1>1, <2>1, <2>2, <2>3, <2>4 DEF Step
<1>2. ASSUME NEW m \in Messages, Abort(m) \/ Receive(m) \/ Lose(m) \/ Work(m) \/ Reconcile(m) PROVE answered' = answered
  BY <1>2 DEF Abort, Receive, Lose, Work, Reconcile
<1>3. ASSUME NEW m \in Messages, AnswerDirectly(m) PROVE answered' = answered \cup {m}
  BY <1>3 DEF AnswerDirectly
<1>4. CASE Die \/ UNCHANGED vars
  BY <1>4 DEF Die, vars
<1> QED
  BY <1>1, <1>2, <1>3, <1>4 DEF Next

\* A task that was answered directly stays one.
Stays(t) == \E k \in answered' : follow'[k] = t
LEMMA AnsweredKept ==
  ASSUME TypeOK, AnsweredInv, [Next]_vars
  PROVE  \A t : Answered(t) => Stays(t)
<1> SUFFICES ASSUME NEW t, Answered(t) PROVE Stays(t)
  OBVIOUS
<1>1. PICK m \in answered : follow[m] = t
  BY DEF Answered
<1>2. m \in Messages /\ pc[m] # "idle" /\ m \in answered'
  BY AnswerSteps DEF TypeOK, AnsweredInv
<1>3. follow'[m] = t
  BY <1>1, <1>2, BegunKept
<1> QED
  BY <1>2, <1>3 DEF Stays

\* A continuation that was answered directly began no task, and the one it
\* follows is not at work before the answer is recorded: no other message enters.
LEMMA NextAnswered ==
  ASSUME TypeOK, TaskInv, RecordInv, PlaceInv, AnsweredInv, BindingInv, LockInv, ContextInv, NetInv,
         QueueInv, [Next]_vars
  PROVE  AnsweredInv'
<1> SUFFICES ASSUME NEW m \in answered'
             PROVE  /\ follow'[m] # None /\ taskOf'[m] = None /\ m \notin net'
                    /\ pc'[m] \in {"sent", "ending", "replied", "replyContext", "done", "dead"}
                    /\ Under(m)' => state'[follow'[m]] # "working"
  BY DEF AnsweredInv
<1>1. CASE m \notin answered
  <2>1. AnswerDirectly(m)
    BY <1>1, AnswerSteps
  <2>2. /\ m \in net /\ net' = net \ {m} /\ follow[m] # None /\ state[follow[m]] = "interrupted"
        /\ UNCHANGED <<pc, follow, taskOf, state>>
    BY <2>1 DEF AnswerDirectly, locals
  <2>3. taskOf[m] = None /\ pc[m] \in {"sent", "ending", "done", "dead"}
    BY <2>2 DEF NetInv
  <2> QED
    BY <2>2, <2>3
<1>2. CASE m \in answered
  <2>1. /\ m \in Messages /\ follow[m] # None /\ taskOf[m] = None /\ m \notin net
        /\ pc[m] \in {"sent", "ending", "replied", "replyContext", "done", "dead"}
        /\ Under(m) => state[follow[m]] # "working"
    BY <1>2 DEF AnsweredInv, TypeOK
  <2>2. follow'[m] = follow[m] /\ ctx'[m] = ctx[m]
    BY <2>1, BegunKept
  <2>3. m \notin net'
    BY <2>1, Origins
  <2>4. taskOf'[m] = None
    BY <2>1, Origins, ReceiveDoes
  <2>5. pc'[m] \in {"sent", "ending", "replied", "replyContext", "done", "dead"}
    BY <2>1, Origins
  <2>6. ASSUME Under(m)', state'[follow[m]] = "working" PROVE FALSE
    <3>1. pc[m] \in {"sent", "ending", "replied", "replyContext"} /\ state[follow[m]] # "working"
      BY <2>1, <2>6, PlaceKept DEF Under
    <3>2. follow[m] \in Messages /\ state[follow[m]] \in Started /\ ctx[m] = ctxOf[follow[m]]
      BY <2>1 DEF TypeOK, TaskInv
    <3>3. ctxOf[follow[m]] \in Contexts /\ taskOf[follow[m]] # None
      BY <3>2, Begun, NoneAssumption DEF Started
    <3>4. state[follow[m]] = "interrupted"
      BY <2>6, <3>1, <3>2, <3>3, TaskKept DEF Started
    <3>5. PICK k \in net : ctx[k] = ctx[m]
      BY <2>6, <3>2, <3>4, Reopened
    <3>6. exec[ctx[m]] = Pending(k)
      BY <3>2, <3>3, <3>5, NoneAssumption DEF NetInv
    <3>7. exec[ctx[m]].msg = m
      BY <2>1, <3>1, <3>2, <3>3, NoneAssumption DEF ContextInv
    <3> QED
      BY <2>1, <3>5, <3>6, <3>7 DEF Pending
  <2> QED
    BY <2>1, <2>2, <2>3, <2>4, <2>5, <2>6
<1> QED
  BY <1>1, <1>2

\* An invocation that has read back knows what is open in its context until it
\* has submitted: nobody else submits to it, and nobody opens what it follows.
LEMMA NextReady ==
  ASSUME TypeOK, TaskInv, RecordInv, PlaceInv, AnsweredInv, BindingInv, LockInv, ContextInv, NetInv,
         QueueInv, ReadyInv, CoverInv, [Next]_vars
  PROVE  ReadyInv'
<1> SUFFICES ASSUME NEW k \in Messages, NEW n \in Messages,
                    pc'[k] \in Ready, n # k, ctx'[k] # None, ctx'[n] = ctx'[k]
             PROVE  /\ n \notin net'
                    /\ Open(n)' =>
                         /\ state'[taskOf'[n]] = "interrupted"
                         /\ \/ Answered(taskOf[n])'
                            \/ follow'[k] = taskOf'[n] /\ previous'[k].task = taskOf'[n]
  BY DEF ReadyInv
<1> DEFINE c == ctx[k]
           t == taskOf[n]
<1>1. ~Begin(k) /\ c = ctx'[k] /\ c # None /\ follow'[k] = follow[k]
  <2>1. ~Begin(k)
    BY BeginDoes DEF Ready, Moves
  <2> QED
    BY <2>1, Origins
<1>2. CASE pc[k] \notin Ready
  <2>1. ReadBack(k)
    BY <1>1, <1>2, Origins, JournalDoes, JournalContextDoes DEF Ready, Moves
  <2>2. /\ pc[k] = "loaded" /\ pc'[k] = "ready" /\ UNCHANGED <<ctx, follow, agent, net>>
        /\ previous'[k] = ReadBackOf(previous[k])
        /\ Opened(previous[k]) =>
              /\ state[previous[k].task] # "working"
              /\ state[previous[k].task] = "interrupted" => follow[k] = previous[k].task
    BY <2>1, ReadBackDoes DEF Moves, conversation, Ready
  <2>3. n \notin net'
    BY <2>2, LoadedAlone
  <2>4. ASSUME Open(n), ~Forgotten(t)
        PROVE  state[t] = "interrupted" /\ follow[k] = t /\ previous'[k].task = t
    <3>1. Opened(previous[k]) /\ previous[k].task = t
      BY <2>2, <2>4, LoadedCovers
    <3>2. state[t] \in {"working", "interrupted"}
      BY <2>4 DEF Open
    <3>3. previous'[k].task = t
      BY <2>2, <3>1 DEF ReadBackOf, Opened, Snapshot
    <3> QED
      BY <2>2, <3>1, <3>2, <3>3
  <2>5. Forgotten(t) => state'[t] = "interrupted" /\ Stays(t)
    BY <2>2, AnsweredKept DEF Forgotten, agent
  <2>6. taskOf' = taskOf /\ state' = state
    BY <2>2 DEF agent
  <2> QED
    BY <2>2, <2>3, <2>4, <2>5, <2>6 DEF Open, Stays, Answered
<1>3. CASE pc[k] \in Ready
  <2>1. locked[k] = c
    BY <1>1, <1>3 DEF LockInv, Under, Ready
  <2>2. previous'[k] = previous[k]
    BY <1>3, Origins, EnterDoes, ReadBackDoes DEF Moves, Ready
  <2>3. CASE Begin(n)
    <3>1. ~Submitted(n) /\ UNCHANGED <<agent, net>>
      BY <2>3, BeginDoes DEF PlaceInv, Early, Moves
    <3> QED
      BY <3>1 DEF Submitted, Open, agent
  <2>4. CASE ~Begin(n)
    <3>1. ctx[n] = c
      BY <1>1, <2>4, Origins
    <3>2. /\ n \notin net
          /\ Open(n) => state[t] = "interrupted" /\ (Answered(t) \/ (follow[k] = t /\ previous[k].task = t))
      BY <1>1, <1>3, <3>1 DEF ReadyInv
    <3>3. n \notin net'
      <4>1. pc[n] # "submit"
        <5> SUFFICES ASSUME pc[n] = "submit" PROVE FALSE
          OBVIOUS
        <5>1. locked[n] = c
          BY <1>1, <3>1 DEF LockInv, Under
        <5> QED
          BY <1>1, <2>1, <5>1 DEF LockInv
      <4> QED
        BY <3>2, <4>1, Origins
    <3>4. taskOf'[n] = t
      BY <3>2, Origins, ReceiveDoes
    <3>5. ASSUME Open(n)'
          PROVE  state'[t] = "interrupted" /\ (Stays(t) \/ (follow[k] = t /\ previous[k].task = t))
      <4>1. t # None /\ t \in Messages /\ state'[t] \in {"working", "interrupted"} /\ ctxOf[t] = c
        <5>1. t # None /\ state'[t] \in {"working", "interrupted"}
          BY <3>4, <3>5 DEF Open
        <5> QED
          BY <1>1, <3>1, <5>1, TaskContext
      <4>2. state[t] \in {"working", "interrupted"}
        <5>1. state[t] # "none" /\ state[t] \notin {"final", "reply"}
          BY <4>1, TaskKept
        <5> QED
          BY <4>1, <5>1 DEF TypeOK, States
      <4>3. state[t] = "interrupted" /\ (Stays(t) \/ (follow[k] = t /\ previous[k].task = t))
        BY <3>2, <4>1, <4>2, AnsweredKept DEF Open
      <4>4. state'[t] = "interrupted"
        <5> SUFFICES ASSUME state'[t] # "interrupted" PROVE FALSE
          OBVIOUS
        <5>1. PICK m \in net : ctx[m] = c
          BY <4>1, <4>3, Reopened
        <5>2. m \in Messages /\ m # k
          BY <1>3, <5>1 DEF TypeOK, PlaceInv, Early, Ready, Submitted
        <5> QED
          BY <1>1, <1>3, <5>1, <5>2 DEF ReadyInv
      <4> QED
        BY <4>3, <4>4
    <3> QED
      BY <1>1, <2>2, <3>3, <3>4, <3>5 DEF Stays, Answered
  <2> QED
    BY <2>3, <2>4
<1> QED
  BY <1>2, <1>3

\* A task that is open now was open before, unless it has just been received.
LEMMA OpenBefore ==
  ASSUME TypeOK, TaskInv, PlaceInv, AnsweredInv, NetInv, QueueInv, [Next]_vars, NEW n \in Messages, Open(n)'
  PROVE  \/ Receive(n)
         \/ Open(n) /\ taskOf'[n] = taskOf[n] /\ ctx'[n] = ctx[n] /\ ctxOf'[n] = ctxOf[n]
              /\ taskOf[n] \in Messages /\ taskOf[n] = Task(n)
<1> SUFFICES ASSUME ~Receive(n)
             PROVE  Open(n) /\ taskOf'[n] = taskOf[n] /\ ctx'[n] = ctx[n] /\ ctxOf'[n] = ctxOf[n]
              /\ taskOf[n] \in Messages /\ taskOf[n] = Task(n)
  OBVIOUS
<1>1. taskOf'[n] = taskOf[n]
  BY Origins
<1>2. taskOf[n] # None /\ state'[taskOf[n]] \in {"working", "interrupted"}
  BY <1>1 DEF Open
<1>3. /\ taskOf[n] \in Messages /\ state[taskOf[n]] \notin {"none", "final", "reply"} /\ ctxOf'[n] = ctxOf[n]
      /\ taskOf[n] = Task(n)
  BY <1>2, TaskKept
<1>4. pc[n] # "idle"
  BY <1>2 DEF PlaceInv, Early, Submitted
<1>5. ctx'[n] = ctx[n]
  BY <1>4, BegunKept
<1> QED
  BY <1>1, <1>2, <1>3, <1>5 DEF Open, TypeOK, States

\* Whoever writes the record of a context leaves it covering what is open there.
LEMMA NextCover ==
  ASSUME TypeOK, TaskInv, RecordInv, PlaceInv, BindingInv, LockInv, ContextInv, NetInv, QueueInv,
         AnsweredInv, LearnInv, ReadyInv, CoverInv, [Next]_vars
  PROVE  CoverInv'
<1> SUFFICES ASSUME NEW n \in Messages, ctx'[n] # None, Open(n)'
             PROVE  exec'[ctx'[n]].msg = n \/ exec'[ctx'[n]].task = taskOf'[n] \/ Forgotten(taskOf[n])'
  BY DEF CoverInv
<1> DEFINE c == ctx[n]
           t == taskOf[n]
           e == exec[c]
<1>1. CASE Receive(n)
  <2>1. n \in net /\ UNCHANGED <<store, ctx>>
    BY <1>1, ReceiveDoes DEF conversation
  <2>2. exec'[ctx'[n]] = Pending(n)
    BY <2>1 DEF NetInv, store
  <2> QED
    BY <2>2 DEF Pending
<1>2. CASE ~Receive(n) /\ Forgotten(t)
  <2>1. Open(n) /\ taskOf'[n] = t /\ ctx'[n] = c /\ c \in Contexts /\ t \in Messages
    BY <1>2, OpenBefore DEF TypeOK
  <2>2. state[t] = "interrupted" /\ Stays(t) /\ state'[t] \in {"working", "interrupted"}
    BY <1>2, <2>1, AnsweredKept DEF Forgotten, Open
  <2>3. CASE state'[t] = "interrupted"
    BY <2>1, <2>2, <2>3 DEF Forgotten, Stays, Answered
  <2>4. CASE state'[t] # "interrupted"
    <3>1. PICK m \in net : Receive(m) /\ follow[m] = t /\ ctx[m] = ctxOf[t]
      BY <2>1, <2>2, <2>4, Reopened
    <3>2. m \in Messages /\ ctx[m] = c
      BY <2>1, <3>1, TaskContext DEF TypeOK, Open
    <3>3. exec[c] = Pending(m) /\ exec' = exec
      BY <2>1, <3>1, <3>2, ReceiveDoes, NoneAssumption DEF NetInv, store
    <3>4. exec'[c].task = t
      BY <3>1, <3>3 DEF Pending
    <3> QED
      BY <2>1, <3>4
  <2> QED
    BY <2>3, <2>4
<1>3. CASE ~Receive(n) /\ ~Forgotten(t)
  <2>1. Open(n) /\ taskOf'[n] = t /\ ctx'[n] = c /\ c \in Contexts /\ t \in Messages /\ t = Task(n)
    BY <1>3, OpenBefore DEF TypeOK
  <2>2. /\ state[t] \in {"working", "interrupted"} /\ taskOf[t] = t /\ Submitted(n)
        /\ e.msg = n \/ e.task = t
    BY <1>3, <2>1, Begun, NoneAssumption DEF Open, CoverInv, Submitted
  <2>3. /\ e \in Records /\ TrueRecord(e)
        /\ e.task # None => e.task = Task(e.msg)
    BY <2>1, RecordTask DEF TypeOK, RecordInv, GoodRecord
  <2> HIDE DEF c, t, e
  <2>4. Task(e.msg) = t /\ e.msg \in Messages
    BY <2>1, <2>2, <2>3, RecordTask, NoneAssumption
  <2>5. CASE exec'[c] = e
    BY <2>1, <2>2, <2>5
  <2>6. ASSUME NEW m \in Messages, ctx[m] = c, ReadBack(m), exec'[c] = ReadBackOf(previous[m])
        PROVE  exec'[c].task = t
    <3>1. Opened(previous[m]) /\ previous[m].task = t
      BY <1>3, <2>1, <2>6, ReadBackDoes, LoadedCovers DEF Moves, c, t
    <3> QED
      BY <2>6, <3>1 DEF ReadBackOf, Opened, Snapshot
  <2>7. ASSUME NEW m \in Messages, ctx[m] = c, JournalContext(m), exec'[c] = Pending(m)
        PROVE  exec'[c].msg = n \/ exec'[c].task = t
    <3>1. pc[m] = "journaled"
      BY <2>7, JournalContextDoes DEF Moves
    <3>2. m # n => follow[m] = t
      BY <1>3, <2>1, <2>7, <3>1, NoneAssumption DEF ReadyInv, Ready, Forgotten, c, t
    <3> QED
      BY <2>7, <3>2 DEF Pending
  <2>8. ASSUME NEW m \in Messages, ctx[m] = c, RollBackContext(m), exec'[c] = previous[m]
        PROVE  exec'[c].task = t
    <3>1. pc[m] = "rollbackContext"
      BY <2>8, RollBackContextDoes DEF Moves
    <3>2. m # n
      BY <2>2, <3>1 DEF PlaceInv, Early
    <3> QED
      BY <1>3, <2>1, <2>8, <3>1, <3>2, NoneAssumption DEF ReadyInv, Ready, Forgotten, c, t
  <2>9. ASSUME NEW m \in Messages, Learning(m), ctxOf[m] = c PROVE FALSE
    BY <2>2, <2>9 DEF LearnInv, c
  <2>10. ASSUME NEW m \in Messages, WriteContext(m), c = ctxOf[taskOf[m]], exec'[c] = Record(m)
         PROVE  exec'[c].task = t
    <3>1. pc[m] \in {"sent", "ending"} /\ taskOf[m] # None
      BY <2>10, WriteContextDoes DEF HasTask
    <3>2. ctx[m] # None
      BY <2>9, <2>10, <3>1, TaskContext DEF Learning, Under
    <3>3. ctx[m] = c
      BY <2>10, <3>1, <3>2, TaskContext
    <3>4. e.msg = m
      BY <3>1, <3>2, <3>3 DEF ContextInv, e
    <3>5. taskOf[m] = t
      BY <2>4, <3>1, <3>4 DEF TaskInv
    <3> QED
      BY <2>10, <3>5 DEF Record
  <2>11. ASSUME NEW m \in Messages, ReplyContext(m), c = Where(m)
         PROVE  state'[t] = "interrupted" /\ Stays(t)
    <3>1. pc[m] = "replyContext" /\ UNCHANGED <<agent, net>>
      BY <2>11, ReplyContextDoes DEF Moves
    <3>2. ctx[m] # None
      BY <2>9, <2>11, <3>1, Replies DEF Learning, Under
    <3>3. ctx[m] = c /\ e.msg = m
      BY <2>11, <3>1, <3>2, Replies DEF ContextInv, e
    <3>4. t = Task(m)
      BY <2>4, <3>3
    <3>5. taskOf[m] = None
      <4> SUFFICES ASSUME taskOf[m] # None PROVE FALSE
        OBVIOUS
      <4>1. taskOf[m] = m /\ state[m] = "reply"
        BY <3>1, Replies
      <4>2. t = m
        BY <3>4, <4>1, NoneAssumption DEF TaskInv
      <4> QED
        BY <2>2, <4>1, <4>2
    <3>6. follow[m] = t /\ m \in answered
      BY <3>1, <3>4, <3>5, Replies DEF Task
    <3>7. state[t] = "interrupted"
      BY <2>2, <3>1, <3>6 DEF AnsweredInv, Under
    <3>8. Answered(t)
      BY <3>6 DEF Answered
    <3>9. state' = state
      BY <3>1 DEF agent
    <3> QED
      BY <3>7, <3>8, <3>9, AnsweredKept
  <2>12. ASSUME NEW m \in Messages, Reconcile(m), e.msg \in {m, None}, exec'[c] = Truth(m)
         PROVE  exec'[c].task = t
    <3>1. Task(m) = t
      BY <2>4, <2>12, NoneAssumption
    <3>2. \/ (taskOf[m] # None => state[taskOf[m]] = "reply") /\ follow[m] = None
          \/ Truth(m) = Snapshot(Task(m), m)
      BY <2>12, ReconcileDoes, TruthTrue
    <3>3. follow[m] = None => taskOf[m] = t /\ t # None
      BY <2>2, <3>1, NoneAssumption DEF Task
    <3>4. Truth(m) = Snapshot(t, m)
      BY <2>2, <3>1, <3>2, <3>3
    <3> QED
      BY <2>12, <3>4 DEF Snapshot
  <2> DEFINE Kept == exec'[c].msg = n \/ exec'[c].task = t \/ (state'[t] = "interrupted" /\ Stays(t))
  <2>13. ASSUME exec'[c] # e PROVE Kept
    <3>1. ASSUME NEW m \in Messages, c = ctx[m],
                 \/ ReadBack(m) /\ exec'[c] = ReadBackOf(previous[m])
                 \/ JournalContext(m) /\ exec'[c] = Pending(m)
                 \/ RollBackContext(m) /\ exec'[c] = previous[m]
          PROVE  Kept
      BY <2>6, <2>7, <2>8, <3>1
    <3>2. ASSUME NEW m \in Messages, WriteContext(m), c = ctxOf[taskOf[m]], exec'[c] = Record(m) PROVE Kept
      BY <2>10, <3>2
    <3>3. ASSUME NEW m \in Messages, ReplyContext(m), c = Where(m) PROVE Kept
      BY <2>11, <3>3
    <3>4. ASSUME NEW m \in Messages, Reconcile(m), exec[c].msg \in {m, None}, exec'[c] = Truth(m) PROVE Kept
      BY <2>12, <3>4 DEF e
    <3> HIDE DEF Kept
    <3> QED
      BY <2>1, <2>13, <3>1, <3>2, <3>3, <3>4, ExecWrites DEF e
  <2> QED
    BY <2>1, <2>5, <2>13 DEF Kept, Forgotten, Stays, Answered
<1> QED
  BY <1>1, <1>2, <1>3

-----------------------------------------------------------------------------
(* The last message of a scope.                                            *)

\* A task whose context was learned, with the context used by one scope only.
Anchored(n) == ctx[n] = None /\ taskOf[n] = n /\ Open(n) /\ Sole(n)

\* It was so before, or its message has just arrived.
LEMMA AnchoredBefore ==
  ASSUME TypeOK, TaskInv, PlaceInv, AnsweredInv, NetInv, QueueInv, [Next]_vars, NEW n \in Messages, Anchored(n)'
  PROVE  \/ Receive(n)
         \/ /\ Anchored(n) /\ ctxOf'[n] = ctxOf[n] /\ ctxOf[n] \in Contexts /\ Task(n) = n
            /\ state[n] \in {"working", "interrupted"} /\ Submitted(n)
<1> SUFFICES ASSUME ~Receive(n)
             PROVE  /\ Anchored(n) /\ ctxOf'[n] = ctxOf[n] /\ ctxOf[n] \in Contexts /\ Task(n) = n
                    /\ state[n] \in {"working", "interrupted"} /\ Submitted(n)
  OBVIOUS
<1>1. Open(n) /\ taskOf[n] = n /\ ctx[n] = None /\ ctxOf'[n] = ctxOf[n] /\ Task(n) = n
  BY OpenBefore DEF Anchored
<1>2. ctxOf[n] \in Contexts /\ state[n] \in {"working", "interrupted"} /\ Submitted(n)
  BY <1>1, Begun DEF Open, Submitted
<1>3. ASSUME NEW k \in Messages, ctx[k] = ctxOf[n] PROVE scope[k] = scope[n]
  <2>1. pc[k] # "idle"
    BY <1>2, <1>3, NoneAssumption DEF PlaceInv
  <2>2. ctx'[k] = ctxOf'[n] /\ scope'[k] = scope[k] /\ scope'[n] = scope[n]
    BY <1>1, <1>3, <2>1, BegunKept, Origins
  <2> QED
    BY <2>2 DEF Anchored, Sole
<1> QED
  BY <1>1, <1>2, <1>3 DEF Anchored, Sole

\* No step makes an earlier message the last of its scope again.
LEMMA LastBefore ==
  ASSUME TypeOK, TaskInv, RecordInv, PlaceInv, AnsweredInv, BindingInv, NetInv, QueueInv, [Next]_vars,
         NEW n \in Messages, Submitted(n), Last(n)'
  PROVE  Last(n)
<1> DEFINE s == scope[n]
<1>1. s \in Scopes /\ scope'[n] = s
  BY Origins DEF TypeOK
<1>2. CASE bind'[s].msg = n /\ bind'[s] # bind[s]
  <2>1. ASSUME NEW m \in Messages, scope[m] = s, JournalBinding(m), bind'[s] = Pending(m) PROVE FALSE
    <3>1. m = n /\ pc[m] = "ready"
      BY <1>2, <2>1, JournalDoes, RecordMessages DEF Moves
    <3> QED
      BY <3>1 DEF PlaceInv, Early
  <2>2. ASSUME NEW m \in Messages, scope[m] = s, RollBack(m), bind'[s] = base[m] PROVE Last(n)
    <3>1. base[m].msg = n /\ pc[m] = "rollback"
      BY <1>2, <2>2, RollBackDoes DEF Moves
    <3> QED
      BY <3>1 DEF Last
  <2>3. ASSUME NEW m \in Messages, scope[m] = s, WriteBinding(m), bind'[s] = Record(m) PROVE Last(n)
    <3>1. m = n /\ pc[m] \in {"sent", "ending"}
      BY <1>2, <2>3, WriteBindingDoes, RecordMessages
    <3>2. bind[s].msg = n
      BY <3>1 DEF BindingInv
    <3> QED
      BY <3>2 DEF Last
  <2>4. ASSUME NEW m \in Messages, bind'[s] = Completed(m) PROVE FALSE
    BY <1>2, <2>4, RecordMessages, NoneAssumption
  <2>5. ASSUME NEW m \in Messages, Reconcile(m), bind[s].msg = m, bind'[s] = Truth(m) PROVE Last(n)
    <3>1. Truth(m).msg \in {m, None}
      BY <2>5, ReconcileDoes, TruthTrue
    <3> QED
      BY <1>2, <2>5, <3>1, NoneAssumption DEF Last
  <2> QED
    BY <1>1, <1>2, <2>1, <2>2, <2>3, <2>4, <2>5, BindWrites
<1>3. CASE bind'[s].msg = n /\ bind'[s] = bind[s]
  BY <1>3 DEF Last
<1>4. ASSUME NEW j \in Messages, base'[j].msg = n, pc'[j] \in {"journaled", "submit", "rollback"}
      PROVE  Last(n)
  <2>1. base[j].msg = n
    BY <1>4, Origins, BeginDoes DEF Moves
  <2>2. scope[j] = s
    BY <2>1, NoneAssumption DEF RecordInv
  <2>3. CASE pc[j] \in {"journaled", "submit", "rollback"}
    BY <2>1, <2>3 DEF Last
  <2>4. CASE pc[j] \in {"ready", "rollbackContext"}
    <3>1. bind[s].msg = n
      BY <2>1, <2>2, <2>4 DEF BindingInv
    <3> QED
      BY <3>1 DEF Last
  <2> QED
    BY <1>4, <2>3, <2>4, Origins, JournalDoes, JournalContextDoes DEF Moves
<1> QED
  BY <1>1, <1>2, <1>3, <1>4 DEF Last

\* The invocation under way in the scope is the one that follows the last message.
LEMMA LastUnder ==
  ASSUME TypeOK, RecordInv, PlaceInv, AnsweredInv, BindingInv, NEW n \in Messages, Submitted(n), Last(n),
         NEW j \in Messages, scope[j] = scope[n], Under(j), pc[j] \notin {"sent", "ending", "replied", "replyContext"}
  PROVE  base[j].msg = n
<1> DEFINE s == scope[n]
<1>1. j # n
  BY DEF PlaceInv, Early, Under, TypeOK, Places
<1>2. CASE bind[s].msg = n
  <2>1. pc[j] \notin {"journaled", "submit", "rollback"}
    BY <1>1, <1>2, RecordMessages DEF BindingInv
  <2>2. pc[j] \in {"bound", "loaded", "ready", "rollbackContext"}
    BY <2>1 DEF Under, TypeOK, Places
  <2> QED
    BY <1>2, <2>2 DEF BindingInv
<1>3. ASSUME NEW i \in Messages, base[i].msg = n, pc[i] \in {"journaled", "submit", "rollback"}
      PROVE  base[j].msg = n
  <2>1. scope[i] = s
    BY <1>3, NoneAssumption DEF RecordInv
  <2>2. i = j
    BY <1>3, <2>1 DEF BindingInv, Under
  <2> QED
    BY <1>3, <2>2
<1> QED
  BY <1>2, <1>3 DEF Last

\* Such an invocation, when it reads back its context, reads the task of that message.
LEMMA LastLoaded ==
  ASSUME TypeOK, TaskInv, RecordInv, PlaceInv, AnsweredInv, BindingInv, ContextInv, NEW n \in Messages,
         Task(n) = n, state[n] \in {"working", "interrupted"}, Covers(exec[ctxOf[n]], n),
         NEW k \in Messages, pc[k] = "loaded", ctx[k] = ctxOf[n], base[k].msg = n
  PROVE  Opened(previous[k]) /\ previous[k].task = n
<1> DEFINE c == ctx[k]
           e == exec[c]
           b == base[k]
           r == previous[k]
<1>1. /\ c \in Contexts /\ r = Recovered(e, b, c)
      /\ ~Unknown(r) /\ ~Unknown(b)
      /\ e \in Records /\ TrueRecord(e) /\ b \in Records /\ TrueRecord(b) /\ r \in Records /\ TrueRecord(r)
      /\ Covers(e, n)
  BY LoadedRecord
<1>2. b.task = n /\ b.pending /\ b.ctx = c /\ b.msg = n
  <2>1. b.task = n /\ b.pending = (b.state # "final") /\ (b.state = "final" => state[n] = "final") /\ b.msg = n
    BY <1>1, KnownRecord, NoneAssumption
  <2>2. b # Pending(n)
    BY <1>1, <2>1 DEF Unknown, Pending
  <2> QED
    BY <1>1, <2>1, <2>2, NoneAssumption DEF TrueRecord
<1> HIDE DEF c, e, b, r
<1>3. CASE r = b
  BY <1>1, <1>2, <1>3, KnownRecord, NoneAssumption DEF Opened, r
<1>4. CASE r # b
  <2>1. r = e /\ e.pending
    BY <1>1, <1>2, <1>4 DEF Recovered
  <2>2. e.msg = n \/ e.task = n
    BY <1>1, <2>1 DEF Covers
  <2>3. e.msg # None
    BY <2>1, <1>1 DEF TrueRecord, Empty
  <2>4. e.task = Task(e.msg) /\ (e.state = "final" => state[e.task] = "final")
    BY <1>1, <2>1, <2>3, KnownRecord
  <2>5. e.task = n
    BY <2>2, <2>4
  <2> QED
    BY <2>1, <2>4, <2>5, NoneAssumption DEF Opened, r
<1> QED
  BY <1>3, <1>4

\* Nobody submits to the context of the last message while its task is open
\* but who follows it, and then another message is the last one.
LEMMA AnchorAlone ==
  ASSUME TypeOK, TaskInv, RecordInv, PlaceInv, AnsweredInv, BindingInv, NetInv, QueueInv, AnchorInv, [Next]_vars,
         BindingInv', RecordInv',
         NEW n \in Messages, Anchored(n), ctxOf[n] \in Contexts, Submitted(n), Last(n), Last(n)',
         NEW j \in Messages, ctx'[j] = ctxOf[n]
  PROVE  ~Submitted(j)'
<1> SUFFICES ASSUME Submitted(j)' PROVE FALSE
  OBVIOUS
<1>1. ~Begin(j)
  <2> SUFFICES ASSUME Begin(j) PROVE FALSE
    OBVIOUS
  <2>1. ~Submitted(j) /\ UNCHANGED <<agent, net>>
    BY BeginDoes DEF PlaceInv, Early, Moves
  <2> QED
    BY <2>1 DEF Submitted, agent
<1>2. ctx[j] = ctxOf[n] /\ j # n
  BY <1>1, Origins, NoneAssumption DEF Anchored
<1>3. ~Submitted(j)
  BY <1>2 DEF AnchorInv, Anchored
<1>4. taskOf'[j] = taskOf[j]
  BY <1>3, Origins, ReceiveDoes DEF Submitted
<1>5. pc'[j] = "sent"
  BY <1>3, <1>4, Origins DEF Submitted
<1>6. scope'[j] = scope'[n] /\ scope'[n] = scope[n]
  BY <1>2, Origins DEF Anchored, Sole
<1>7. bind'[scope'[n]].msg = j
  BY <1>5, <1>6 DEF BindingInv
<1>8. PICK i \in Messages : base'[i].msg = n /\ pc'[i] \in {"journaled", "submit", "rollback"}
  BY <1>2, <1>7 DEF Last
<1>9. scope'[i] = scope'[n]
  BY <1>8, NoneAssumption DEF RecordInv
<1>10. i = j
  BY <1>5, <1>6, <1>8, <1>9 DEF BindingInv, Under
<1> QED
  BY <1>5, <1>8, <1>10

\* Who writes the record of that context leaves it covering the task.
LEMMA AnchorCovered ==
  ASSUME TypeOK, TaskInv, LearnerInv, RecordInv, PlaceInv, AnsweredInv, BindingInv, LockInv, ContextInv, NetInv, QueueInv,
         AnchorInv, [Next]_vars,
         NEW n \in Messages, Anchored(n), ctxOf[n] \in Contexts, Submitted(n), Task(n) = n,
         state[n] \in {"working", "interrupted"}, Last(n)
  PROVE  Covers(exec'[ctxOf[n]], n)
<1> DEFINE c == ctxOf[n]
           e == exec[c]
<1>1. /\ Covers(e, n) /\ c # None /\ e \in Records /\ TrueRecord(e) /\ Belongs(e, c)
      /\ ctx[n] = None /\ taskOf[n] = n
      /\ \A j \in Messages : ctx[j] = c => ~Submitted(j) /\ scope[j] = scope[n] /\ j # n
      /\ \A j \in Messages : pc[j] \in Ready /\ base[j].msg = n /\ ctx[j] = c =>
           follow[j] = n /\ Covers(previous[j], n)
  BY NoneAssumption DEF AnchorInv, Anchored, Sole, TypeOK, RecordInv, GoodRecord
<1>2. \A j \in Messages : ctx[j] = None /\ ctxOf[j] = c => j = n
  BY <1>1 DEF LearnerInv
<1> HIDE DEF c
<1>3. ASSUME NEW m \in Messages, ctx[m] = c, ReadBack(m), exec'[c] = ReadBackOf(previous[m])
      PROVE  Covers(exec'[c], n)
  <2>1. pc[m] = "loaded"
    BY <1>3, ReadBackDoes DEF Moves
  <2>2. base[m].msg = n
    BY <1>1, <1>3, <2>1, LastUnder DEF Under
  <2>3. Opened(previous[m]) /\ previous[m].task = n
    BY <1>1, <1>3, <2>1, <2>2, LastLoaded DEF c
  <2> QED
    BY <1>3, <2>3 DEF ReadBackOf, Opened, Snapshot, Covers
<1>4. ASSUME NEW m \in Messages, ctx[m] = c, JournalContext(m), exec'[c] = Pending(m)
      PROVE  Covers(exec'[c], n)
  <2>1. pc[m] = "journaled"
    BY <1>4, JournalContextDoes DEF Moves
  <2>2. base[m].msg = n
    BY <1>1, <1>4, <2>1, LastUnder DEF Under
  <2>3. follow[m] = n
    BY <1>1, <1>4, <2>1, <2>2 DEF Ready
  <2> QED
    BY <1>4, <2>3 DEF Pending, Covers
<1>5. ASSUME NEW m \in Messages, ctx[m] = c, RollBackContext(m), exec'[c] = previous[m]
      PROVE  Covers(exec'[c], n)
  <2>1. pc[m] = "rollbackContext"
    BY <1>5, RollBackContextDoes DEF Moves
  <2>2. base[m].msg = n
    BY <1>1, <1>5, <2>1, LastUnder DEF Under
  <2> QED
    BY <1>1, <1>5, <2>1, <2>2 DEF Ready
<1>6. ASSUME NEW m \in Messages, taskOf[m] # None, ctxOf[taskOf[m]] = c PROVE m = n
  <2>1. ctx[m] # c
    BY <1>1, <1>6 DEF Submitted
  <2>2. ctx[m] = None /\ taskOf[m] = m
    BY <1>6, <2>1, TaskContext
  <2> QED
    BY <1>2, <1>6, <2>2
<1>7. ASSUME NEW m \in Messages, WriteContext(m), c = ctxOf[taskOf[m]], exec'[c] = Record(m)
      PROVE  Covers(exec'[c], n)
  <2>1. taskOf[m] # None
    BY <1>7, WriteContextDoes DEF HasTask
  <2>2. m = n
    BY <1>6, <1>7, <2>1
  <2> QED
    BY <1>7, <2>2, RecordMessages DEF Covers
<1>8. ASSUME NEW m \in Messages, exec'[c] = Completed(m)
      PROVE  Covers(exec'[c], n)
  BY <1>8 DEF Completed, Empty, Covers
<1>9. ASSUME NEW m \in Messages, Reconcile(m), c = Truth(m).ctx, e.msg \in {m, None}, exec'[c] = Truth(m)
      PROVE  Covers(exec'[c], n)
  <2>0. pc[m] \in {"done", "dead"} /\ m \notin net /\ \A j \in Messages : ~Under(j)
    BY <1>9, ReconcileDoes
  <2> SUFFICES ASSUME m # n, Task(m) # n PROVE ~Truth(m).pending
    <3>1. \/ Truth(m) = [Empty EXCEPT !.ctx = Truth(m).ctx]
          \/ Truth(m) = Snapshot(Task(m), m)
      BY <2>0, TruthTrue
    <3> QED
      BY <1>9, <3>1 DEF Covers, Snapshot, Empty
  <2>1. \/ ~Truth(m).pending
        \/ Truth(m) = Snapshot(Task(m), m) /\ state[Task(m)] \in Started
    BY <2>0, TruthTrue DEF Empty
  <2>2. CASE Truth(m) = Snapshot(Task(m), m)
    <3>1. ctx[m] = c
      BY <1>1, <1>2, <1>9, <2>0, TruthTrue
    <3>2. taskOf[m] = None /\ follow[m] = Task(m)
      <4>1. taskOf[m] = None
        BY <1>1, <3>1 DEF Submitted
      <4>2. follow[m] # None
        BY <2>0, <2>2, <4>1, TruthTrue, RecordMessages DEF Empty, TaskInv, Truth, Task
      <4> QED
        BY <4>1, <4>2 DEF Task
    <3>3. bind[scope[n]].msg = n
      BY <2>0 DEF Last, Under
    <3>4. \A s \in Scopes : bind[s].msg # m
      BY <1>1, <3>1, <3>3, NoneAssumption DEF RecordInv
    <3>5. \A x \in Contexts : exec[x].msg = m => x = c
      BY <1>1, <3>1, NoneAssumption DEF RecordInv, Belongs
    <3>6. e.msg = m /\ Unknown(e)
      BY <1>9, <3>4, <3>5, ReconcileDoes DEF c
    <3>7. e.task # n /\ e.msg # n
      BY <1>1, <3>6, RecordTask, NoneAssumption
    <3>8. ~e.pending
      BY <1>1, <3>7 DEF Covers
    <3>9. e.state = "final" /\ e.task = Task(m) /\ state[e.task] = "final"
      <4>1. e # Pending(m)
        BY <3>8 DEF Pending
      <4> HIDE DEF e
      <4> QED
        BY <1>1, <3>6, <3>8, <4>1, NoneAssumption DEF TrueRecord
    <3>10. state[Task(m)] = "final"
      BY <3>9
    <3>11. Snapshot(Task(m), m).pending = (state[Task(m)] # "final")
      BY DEF Snapshot
    <3> QED
      BY <2>2, <3>10, <3>11
  <2> QED
    BY <2>1, <2>2
<1>10. CASE exec'[c] = e
  BY <1>1, <1>10 DEF c
<1> QED
  BY <1>3, <1>4, <1>5, <1>7, <1>8, <1>9, <1>10, ExecWrites DEF c

\* The task of a message that has just arrived in a context of its own is known
\* to no record of the context and to no invocation in it.
LEMMA AnchorBegins ==
  ASSUME TypeOK, TaskInv, RecordInv, NetInv, [Next]_vars,
         NEW n \in Messages, Receive(n), ctx[n] = None
  PROVE  /\ ctxOf'[n] \in Contexts /\ Covers(exec'[ctxOf'[n]], n)
         /\ \A j \in Messages : ctx'[j] # ctxOf'[n]
<1> DEFINE c == ctxOf'[n]
           e == exec[c]
<1>1. /\ UNCHANGED <<exec, ctx>> /\ c \in Contexts /\ e.ctx = None
      /\ \A j \in Messages : c \notin {ctx[j], ctxOf[j]}
  <2>1. follow[n] = None
    BY Learner
  <2> QED
    BY <2>1, ReceiveDoes, NoneAssumption DEF store, conversation
<1> HIDE DEF c
<1>2. e \in Records /\ TrueRecord(e) /\ Belongs(e, c)
  BY <1>1 DEF TypeOK, RecordInv, GoodRecord
<1>3. e.msg = None
  <2>1. e.msg \in Messages \cup {None}
    BY <1>2, RecordFields
  <2> QED
    BY <1>1, <1>2, <2>1 DEF Belongs
<1>4. ~e.pending
  BY <1>2, <1>3 DEF TrueRecord, Empty
<1> QED
  BY <1>1, <1>4 DEF c, Covers

\* Who has read back, after the last message, follows its task: nobody opens it again.
LEMMA AnchorFollowed ==
  ASSUME TypeOK, TaskInv, RecordInv, PlaceInv, AnsweredInv, BindingInv, LockInv, ContextInv, NetInv, QueueInv,
         AnchorInv, [Next]_vars,
         NEW n \in Messages, Anchored(n), ctxOf[n] \in Contexts, Submitted(n), Task(n) = n,
         state[n] \in {"working", "interrupted"}, state'[n] \in {"working", "interrupted"},
         NEW j \in Messages, pc'[j] \in Ready, base'[j].msg = n, ctx'[j] = ctxOf[n]
  PROVE  state'[n] = "interrupted" /\ follow'[j] = n /\ Covers(previous'[j], n)
<1> DEFINE c == ctxOf[n]
<1>0. /\ c # None /\ ctx[n] = None /\ taskOf[n] = n
      /\ \A k \in Messages : ctx[k] = c => scope[k] = scope[n] /\ k # n
  BY NoneAssumption DEF Anchored, Sole
<1>1. /\ ctx[j] = c /\ base[j] = base'[j] /\ follow'[j] = follow[j]
  <2>1. ~Begin(j)
    BY <1>0, BeginDoes DEF Ready, Moves
  <2> QED
    BY <2>1, Origins
<1>2. CASE pc[j] \notin Ready
  <2>1. ReadBack(j)
    BY <1>0, <1>1, <1>2, Origins, JournalDoes, JournalContextDoes, BeginDoes DEF Ready, Moves
  <2>2. /\ pc[j] = "loaded" /\ pc'[j] = "ready" /\ UNCHANGED agent
        /\ previous'[j] = ReadBackOf(previous[j])
        /\ Opened(previous[j]) =>
              /\ state[previous[j].task] # "working"
              /\ state[previous[j].task] = "interrupted" => follow[j] = previous[j].task
    BY <2>1, ReadBackDoes DEF Moves, Ready
  <2>3. bind[scope[n]].msg = n
    BY <1>0, <1>1, <2>2 DEF BindingInv
  <2>4. Covers(exec[c], n)
    BY <2>3 DEF AnchorInv, Anchored, Last
  <2>5. Opened(previous[j]) /\ previous[j].task = n
    BY <1>1, <2>2, <2>4, LastLoaded
  <2>6. Covers(previous'[j], n)
    BY <2>2, <2>5 DEF ReadBackOf, Opened, Snapshot, Covers
  <2> QED
    BY <1>1, <2>2, <2>5, <2>6 DEF agent
<1>3. CASE pc[j] \in Ready
  <2>1. state[n] = "interrupted" /\ follow[j] = n /\ Covers(previous[j], n)
    BY <1>1, <1>3 DEF AnchorInv, Anchored
  <2>2. previous'[j] = previous[j]
    BY <1>3, Origins, EnterDoes, ReadBackDoes DEF Moves, Ready
  <2>3. state'[n] = "interrupted"
    <3> SUFFICES ASSUME state'[n] # "interrupted" PROVE FALSE
      OBVIOUS
    <3>1. PICK m \in net : ctx[m] = c
      BY <2>1, Reopened
    <3>2. m \in Messages /\ m # n /\ scope[m] = scope[n] /\ m # j /\ scope[j] = scope[n]
      BY <1>0, <1>1, <1>3, <3>1 DEF TypeOK, PlaceInv, Early, Ready, Submitted
    <3>3. bind[scope[n]].msg = m
      BY <3>1, <3>2, RecordMessages DEF NetInv
    <3>4. bind[scope[n]].msg \in {n, j}
      BY <1>1, <1>3, <3>2, RecordMessages DEF BindingInv, Ready
    <3> QED
      BY <3>2, <3>3, <3>4
  <2> QED
    BY <1>1, <2>1, <2>2, <2>3
<1> QED
  BY <1>2, <1>3

\* What is open in a context that was learned is covered as long as its message
\* is the last of the scope.
LEMMA NextAnchor ==
  ASSUME TypeOK, TaskInv, LearnerInv, RecordInv, PlaceInv, AnsweredInv, BindingInv, LockInv, ContextInv, NetInv, QueueInv,
         AnchorInv, [Next]_vars
  PROVE  AnchorInv'
<1> SUFFICES ASSUME NEW n \in Messages, Anchored(n)'
             PROVE  /\ Last(n)' =>
                         /\ Covers(exec[ctxOf[n]], n)'
                         /\ \A j \in Messages : ctx'[j] = ctxOf'[n] => ~Submitted(j)'
                    /\ \A j \in Messages : pc'[j] \in Ready /\ base'[j].msg = n /\ ctx'[j] = ctxOf'[n] =>
                         state'[n] = "interrupted" /\ follow'[j] = n /\ Covers(previous[j], n)'
  BY DEF AnchorInv, Anchored
<1>1. CASE Receive(n)
  <2>1. ctx[n] = None
    BY <1>1, ReceiveDoes DEF Anchored, conversation
  <2> QED
    BY <1>1, <2>1, AnchorBegins DEF Covers
<1>2. CASE ~Receive(n)
  <2>1. /\ Anchored(n) /\ ctxOf'[n] = ctxOf[n] /\ ctxOf[n] \in Contexts /\ Task(n) = n
        /\ state[n] \in {"working", "interrupted"} /\ Submitted(n)
    BY <1>2, AnchoredBefore
  <2>2. state'[n] \in {"working", "interrupted"}
    BY DEF Anchored, Open
  <2>3. Last(n)' => Last(n)
    BY <2>1, LastBefore
  <2>4. BindingInv' /\ RecordInv'
    BY NextBinding, NextRecord
  <2>5. Last(n)' => Covers(exec[ctxOf[n]], n)'
    BY <2>1, <2>3, AnchorCovered DEF Covers
  <2>6. Last(n)' => \A j \in Messages : ctx'[j] = ctxOf'[n] => ~Submitted(j)'
    BY <2>1, <2>3, <2>4, AnchorAlone
  <2>7. \A j \in Messages : pc'[j] \in Ready /\ base'[j].msg = n /\ ctx'[j] = ctxOf'[n] =>
          state'[n] = "interrupted" /\ follow'[j] = n /\ Covers(previous[j], n)'
    BY <2>1, <2>2, AnchorFollowed DEF Covers
  <2> QED
    BY <2>5, <2>6, <2>7
<1> QED
  BY <1>1, <1>2

-----------------------------------------------------------------------------
(* The theorems.                                                           *)

\* At first nothing is known but what an earlier process has left.
LEMMA InitIInv == Init => IInv
<1> SUFFICES ASSUME Init PROVE IInv
  OBVIOUS
<1>1. \E past \in SUBSET Contexts :
        exec = [c \in Contexts |-> IF c \in past THEN [Empty EXCEPT !.ctx = c] ELSE Empty]
  BY DEF Init
<1>2. \A c \in Contexts : exec[c] \in {Empty, [Empty EXCEPT !.ctx = c]}
  BY <1>1
<1>3. exec \in [Contexts -> Records] /\ Empty \in Records
  <2>1. Empty \in Records /\ \A c \in Contexts : [Empty EXCEPT !.ctx = c] \in Records
    BY DEF Empty, Records, States
  <2> QED
    BY <1>1, <2>1
<1>4. \A s \in Scopes : \E c \in Contexts : bind[s] = exec[c]
  BY DEF Init
<1>5. bind \in [Scopes -> Records]
  <2>1. bind \in [Scopes -> {exec[c] : c \in Contexts}]
    BY DEF Init
  <2> QED
    BY <1>3, <2>1
<1>6. /\ scope \in [Messages -> Scopes]
      /\ \A m \in Messages :
           /\ pc[m] = "idle" /\ ctx[m] = None /\ follow[m] = None
           /\ base[m] = Empty /\ previous[m] = Empty
           /\ locked[m] = None /\ queue[m] = <<>>
           /\ taskOf[m] = None /\ ctxOf[m] = None /\ state[m] = "none"
      /\ net = {} /\ half = {} /\ answered = {}
  BY ScopingsAssumption DEF Init
<1>7. TypeOK
  <2>1. States = {"none", "working", "interrupted", "final", "reply"} /\ "idle" \in Places
    BY DEF States, Places
  <2>2. /\ pc \in [Messages -> Places]
        /\ ctx \in [Messages -> Contexts \cup {None}]
        /\ follow \in [Messages -> Messages \cup {None}]
        /\ locked \in [Messages -> Contexts \cup {None}]
        /\ taskOf \in [Messages -> Messages \cup {None}]
        /\ ctxOf \in [Messages -> Contexts \cup {None}]
        /\ state \in [Messages -> States]
    BY <2>1 DEF Init
  <2>3. /\ base \in [Messages -> Records] /\ previous \in [Messages -> Records]
        /\ queue \in [Messages -> Seq(Snapshots)]
        /\ half \subseteq Messages /\ acked \subseteq Messages /\ aborted \subseteq Messages
        /\ outcome \in [Messages -> {"none", "ok", "failed", "notAttempted", "refused"}]
        /\ net \subseteq Messages /\ answered \subseteq Messages
    BY <1>3 DEF Init
  <2> QED
    BY <1>3, <1>5, <1>6, <2>2, <2>3 DEF TypeOK
<1>8. /\ Empty.msg = None /\ Empty.ctx = None /\ Empty.state = "none"
      /\ Empty = [Empty EXCEPT !.ctx = Empty.ctx] /\ ~Empty.pending /\ ~Unknown(Empty)
      /\ \A c : /\ [Empty EXCEPT !.ctx = c].msg = None /\ [Empty EXCEPT !.ctx = c].ctx = c
                /\ [Empty EXCEPT !.ctx = c].state = "none"
  <2>1. Empty.msg = None /\ Empty.ctx = None /\ Empty.state = "none" /\ ~Empty.pending /\ ~Unknown(Empty)
    BY DEF Empty, Unknown
  <2>2. ASSUME NEW r, r = Empty PROVE r = [Empty EXCEPT !.ctx = r.ctx]
    BY <2>2 DEF Empty
  <2>3. ASSUME NEW c
        PROVE  /\ [Empty EXCEPT !.ctx = c].msg = None /\ [Empty EXCEPT !.ctx = c].ctx = c
               /\ [Empty EXCEPT !.ctx = c].state = "none"
    BY DEF Empty
  <2> QED
    BY <2>1, <2>2, <2>3
<1>9. GoodRecord(Empty)
  BY <1>8 DEF GoodRecord, TrueRecord, KnownContext
<1>10. \A c \in Contexts : GoodRecord(exec[c]) /\ Belongs(exec[c], c) /\ exec[c].msg = None /\ exec[c].state = "none"
  <2> TAKE c \in Contexts
  <2>1. exec[c].msg = None /\ exec[c].ctx \in {None, c} /\ exec[c].state = "none"
    <3>1. CASE exec[c] = Empty
      BY <1>8, <3>1
    <3>2. CASE exec[c] = [Empty EXCEPT !.ctx = c]
      BY <3>2 DEF Empty
    <3> QED
      BY <1>2, <3>1, <3>2
  <2>2. exec[c] = [Empty EXCEPT !.ctx = exec[c].ctx]
    BY <1>2, <1>8
  <2>3. KnownContext(exec[c].ctx)
    BY <2>1 DEF KnownContext
  <2> QED
    BY <2>1, <2>2, <2>3 DEF GoodRecord, TrueRecord, Belongs
<1>11. RecordInv
  BY <1>4, <1>6, <1>8, <1>9, <1>10 DEF RecordInv
<1>12. TaskInv /\ LearnerInv /\ PlaceInv /\ AnsweredInv
  <2>1. TaskInv
    BY <1>6, NoneAssumption DEF TaskInv
  <2>2. LearnerInv
    BY <1>6 DEF LearnerInv
  <2>3. PlaceInv
    BY <1>6 DEF PlaceInv, Submitted, Under
  <2>4. AnsweredInv
    BY <1>6 DEF AnsweredInv
  <2> QED
    BY <2>1, <2>2, <2>3, <2>4
<1>13. BindingInv /\ LockInv /\ ContextInv /\ NetInv
  BY <1>6 DEF BindingInv, LockInv, ContextInv, NetInv, Under
<1>14. QueueInv
  <2>1. \A m \in Messages : queue[m] = <<>> /\ Len(queue[m]) = 0 /\ m \notin half /\ pc[m] = "idle"
    <3>1. \A m \in Messages : queue[m] = <<>> /\ m \notin half /\ pc[m] = "idle"
      BY <1>6
    <3>2. \A m \in Messages : Len(queue[m]) = 0
      BY <3>1, EmptySeq
    <3> QED
      BY <3>1, <3>2
  <2>2. \A m \in Messages : \A i \in 1..Len(queue[m]) : FALSE
    BY <2>1
  <2> QED
    BY <2>1, <2>2 DEF QueueInv
<1>15. LearnInv /\ ReadyInv /\ CoverInv /\ AnchorInv
  <2>1. LearnInv
    BY <1>6 DEF LearnInv, Learning, Under
  <2>2. ReadyInv /\ CoverInv
    BY <1>6 DEF ReadyInv, CoverInv
  <2>3. AnchorInv
    BY <1>6, NoneAssumption DEF AnchorInv
  <2> QED
    BY <2>1, <2>2, <2>3
<1> QED
  BY <1>7, <1>11, <1>12, <1>13, <1>14, <1>15 DEF IInv

\* Every step keeps it, one part after the other.
LEMMA NextIInv == IInv /\ [Next]_vars => IInv'
<1> SUFFICES ASSUME IInv, [Next]_vars PROVE IInv'
  OBVIOUS
<1>1. /\ TypeOK /\ TaskInv /\ LearnerInv /\ RecordInv /\ PlaceInv /\ AnsweredInv /\ BindingInv /\ LockInv
      /\ ContextInv /\ NetInv /\ QueueInv /\ LearnInv /\ ReadyInv /\ CoverInv /\ AnchorInv
  BY DEF IInv
<1>2. TypeOK' /\ TaskInv' /\ LearnerInv' /\ RecordInv' /\ PlaceInv' /\ AnsweredInv'
  BY <1>1, NextType, NextTask, NextRecord, NextPlace, NextAnswered
<1>3. BindingInv' /\ LockInv' /\ ContextInv' /\ NetInv' /\ QueueInv'
  BY <1>1, NextBinding, NextLock, NextContext, NextNet, NextQueue
<1>4. LearnInv' /\ ReadyInv' /\ CoverInv' /\ AnchorInv'
  BY <1>1, NextLearn, NextReady, NextCover, NextAnchor
<1> QED
  BY <1>2, <1>3, <1>4 DEF IInv

\* What the locks, the journal and the agent know of each other holds always.
THEOREM Invariance == Spec => []IInv
<1>1. Init => IInv
  BY InitIInv
<1>2. IInv /\ [Next]_vars => IInv'
  BY NextIInv
<1> QED
  BY <1>1, <1>2, PTL DEF Spec

\* The records, the invocations and the agent's tasks have their types.
THEOREM TypeCorrect == Spec => []TypeOK
<1>1. IInv => TypeOK
  BY DEF IInv
<1> QED
  BY <1>1, Invariance, PTL

\* A message is sent by an invocation that has found nothing open.
LEMMA StepBlind ==
  IInv /\ [Next]_vars =>
    \A m, n \in Messages : Submits(m) /\ n # m /\ Covered(n, m) => ~Active(n, m)
<1> SUFFICES ASSUME IInv, [Next]_vars, NEW m \in Messages, NEW n \in Messages,
                    Submits(m), n # m, Covered(n, m), Active(n, m)
             PROVE  FALSE
  OBVIOUS
<1>1. /\ TypeOK /\ TaskInv /\ RecordInv /\ PlaceInv /\ AnsweredInv /\ BindingInv /\ NetInv
      /\ QueueInv /\ ReadyInv /\ AnchorInv
  BY DEF IInv
<1>2. pc[m] = "submit" /\ Under(m) /\ bind[scope[m]] = Pending(m)
  <2>1. pc[m] = "submit"
    BY <1>1, Origins DEF Submits
  <2> QED
    BY <1>1, <2>1 DEF Under, BindingInv
<1>3. ~(n \in net /\ scope[n] = scope[m])
  BY <1>1, <1>2, RecordMessages DEF NetInv
<1>4. CASE ctx[n] # None /\ ctx[n] = ctx[m]
  BY <1>1, <1>2, <1>4 DEF ReadyInv, Ready, Active, Open
<1>5. CASE /\ ctx[n] # ctx[m]
           /\ base[m].msg = n /\ base[m].ctx # None /\ base[m].ctx = ctx[m]
           /\ \A k \in Messages : ctx[k] = ctx[m] => scope[k] = scope[m]
  <2>1. scope[n] = scope[m]
    BY <1>1, <1>5, NoneAssumption DEF RecordInv
  <2>2. taskOf[n] # None /\ Open(n)
    BY <1>3, <2>1 DEF Active, Open
  <2>3. base[m] \in Records /\ TrueRecord(base[m]) /\ ~Unknown(base[m])
    BY <1>1, <1>2 DEF TypeOK, RecordInv, GoodRecord, PlaceInv
  <2>4. base[m].task = Task(n) /\ base[m].task # None
    BY <1>1, <1>5, <2>3, KnownRecord, NoneAssumption
  <2>5. ctx[m] = ctxOf[taskOf[n]]
    <3>1. ctx[m] = ctxOf[base[m].task]
      BY <1>1, <1>5, <2>3, <2>4, RecordContext, NoneAssumption
    <3> QED
      BY <1>1, <2>2, <2>4, <3>1 DEF TaskInv
  <2>6. ctx[n] = None /\ taskOf[n] = n
    BY <1>1, <1>5, <2>2, <2>5, TaskContext
  <2>7. Sole(n)
    BY <1>5, <2>1, <2>5, <2>6 DEF Sole
  <2>8. state[n] = "interrupted" /\ follow[m] = n
    BY <1>1, <1>2, <1>5, <2>2, <2>5, <2>6, <2>7 DEF AnchorInv, Ready
  <2> QED
    BY <1>3, <2>1, <2>6, <2>8 DEF Active
<1> QED
  BY <1>3, <1>4, <1>5 DEF Covered

\* No message is sent while one that the journal covers may still arrive or is
\* unfinished: tool-service.ts, requireReadback and the journal before submission.
THEOREM NothingBlind == Spec => NoBlindSubmission
<1>1. IInv /\ [Next]_vars =>
        [\A m, n \in Messages : Submits(m) /\ n # m /\ Covered(n, m) => ~Active(n, m)]_vars
  BY StepBlind
<1> QED
  BY <1>1, Invariance, PTL DEF Spec, NoBlindSubmission

\* A record that says that a task is over is replaced by one that says so, or by
\* one of another submission.
LEMMA StepFinal ==
  IInv /\ [Next]_vars =>
    \A s \in Scopes : bind[s].state = "final" /\ SameRecord(bind[s], bind'[s]) => bind'[s].state = "final"
<1> SUFFICES ASSUME IInv, [Next]_vars, NEW s \in Scopes,
                    bind[s].state = "final", SameRecord(bind[s], bind'[s]), bind'[s] # bind[s]
             PROVE  bind'[s].state = "final"
  OBVIOUS
<1> DEFINE r == bind[s]
<1>1. TypeOK /\ TaskInv /\ RecordInv /\ PlaceInv /\ AnsweredInv /\ BindingInv /\ NetInv /\ QueueInv
  BY DEF IInv
<1>2. /\ r \in Records /\ TrueRecord(r) /\ bind'[s].msg = r.msg
      /\ r.msg # None /\ ~(r = Pending(r.msg))
  <2>1. r \in Records /\ TrueRecord(r) /\ bind'[s].msg = r.msg
    BY <1>1 DEF TypeOK, RecordInv, GoodRecord, SameRecord
  <2>2. r.msg # None
    BY <2>1 DEF TrueRecord, Empty
  <2>3. ~(r = Pending(r.msg))
    BY DEF Pending
  <2> QED
    BY <2>1, <2>2, <2>3
<1>3. /\ pc[r.msg] \notin {"idle", "bound", "loaded", "ready"}
      /\ r.task = Task(r.msg) /\ state[r.task] = "final"
  BY <1>2 DEF TrueRecord
<1>4. ASSUME NEW m \in Messages, scope[m] = s, JournalBinding(m), bind'[s] = Pending(m) PROVE FALSE
  <2>1. pc[m] = "ready" /\ r.msg = m
    BY <1>1, <1>2, <1>4, JournalDoes, RecordMessages DEF Moves
  <2> QED
    BY <1>3, <2>1
<1>5. ASSUME NEW m \in Messages, scope[m] = s, RollBack(m) PROVE FALSE
  <2>1. r = Pending(m)
    BY <1>1, <1>5, RollBackDoes DEF Moves, BindingInv
  <2> QED
    BY <1>2, <2>1, RecordMessages
<1>6. ASSUME NEW m \in Messages, scope[m] = s, WriteBinding(m), bind'[s] = Record(m)
      PROVE  bind'[s].state = "final"
  <2>1. pc[m] \in {"sent", "ending"} /\ queue[m] # <<>>
    BY <1>1, <1>6, WriteBindingDoes
  <2>2. \A j \in 1..Len(queue[m]) : queue[m][j].state = "final"
    BY <1>1, <1>6, <2>1 DEF QueueInv
  <2>3. queue[m] \in Seq(Snapshots) /\ Len(queue[m]) \in Nat /\ Len(queue[m]) >= 1 /\ Head(queue[m]) = queue[m][1]
    BY <1>1, <2>1, EmptySeq, LenProperties DEF TypeOK
  <2>4. Head(queue[m]).state = "final"
    BY <2>2, <2>3
  <2> QED
    BY <1>6, <2>4 DEF Record
<1>7. ASSUME NEW m \in Messages, bind'[s] = Completed(m) PROVE FALSE
  BY <1>2, <1>7, RecordMessages
<1>8. ASSUME NEW m \in Messages, Reconcile(m), r.msg = m, bind'[s] = Truth(m)
      PROVE  bind'[s].state = "final"
  <2>1. pc[m] \in {"done", "dead"}
    BY <1>1, <1>8, ReconcileDoes
  <2>2. Truth(m).msg # None
    BY <1>2, <1>8
  <2>3. [Empty EXCEPT !.ctx = Truth(m).ctx].msg = None
    BY DEF Empty
  <2>4. Truth(m) = Snapshot(Task(m), m)
    BY <1>1, <2>1, <2>2, <2>3, TruthTrue
  <2> QED
    BY <1>3, <1>8, <2>4 DEF Snapshot
<1> QED
  BY <1>1, <1>4, <1>5, <1>6, <1>7, <1>8, BindWrites

\* A hook that still runs when its invocation ends never takes back that a task
\* is over: the chain of writes in tool-service.ts.
THEOREM FinalRecords == Spec => FinalStays
<1>1. IInv /\ [Next]_vars =>
        [\A s \in Scopes : bind[s].state = "final" /\ SameRecord(bind[s], bind'[s])
                             => bind'[s].state = "final"]_vars
  BY StepFinal
<1> QED
  BY <1>1, Invariance, PTL DEF Spec, FinalStays
=============================================================================
