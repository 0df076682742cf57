------------------------ MODULE DurableTurns_proofs -------------------------
(***************************************************************************)
(* Proofs about DurableTurns for every set of messages, contexts and       *)
(* conversations and every bound: type correctness, the inductive          *)
(* invariant, the safety properties and the refinement of                  *)
(* ConversationInputs.                                                     *)
(***************************************************************************)
EXTENDS DurableTurnsProps, FiniteSetTheorems, TLAPS

\* Init establishes the types of all variables.
LEMMA InitType == Init => TypeOK
  BY NoneAssumption, LimitAssumption
     DEF Init, TypeOK, NoDraft, Position, Running, Queued, Holding, Opened,
         Attached, FinalState, Result, Outcome, Phase

\* Every step keeps the types of all variables.
LEMMA NextType == TypeOK /\ [Next]_vars => TypeOK'
<1> SUFFICES ASSUME TypeOK, [Next]_vars
             PROVE  TypeOK'
  OBVIOUS
<1> USE ContextOfAssumption, NoneAssumption, LimitAssumption
    DEF TypeOK, journal, agent, owner, turn, memory, SavePublication, TakeOwner,
        Position, Running, Queued, Holding, Opened, Attached, FinalState,
        Result, Outcome, Phase, Goto, NoDraft, DropDraft
<1>1. ASSUME NEW m \in Messages, Reserve(m) PROVE TypeOK'
  BY <1>1 DEF Reserve
<1>2. ASSUME NEW m \in Messages, CancelIntent(m) PROVE TypeOK'
  BY <1>2 DEF CancelIntent
<1>3. ASSUME NEW m \in Messages, Cancel(m) PROVE TypeOK'
  <2>1. CASE CancelInterrupted(m)
    BY <2>1 DEF CancelInterrupted, Cancels, TakeDraft
  <2>2. CASE CancelRefused(m)
    BY <2>2 DEF CancelRefused, Cancels
  <2>3. CASE CancelAbort(m)
    BY <2>3 DEF CancelAbort, Cancels
  <2>4. CASE CancelMissingBus(m)
    BY <2>4 DEF CancelMissingBus, Cancels
  <2>5. QED
    BY <1>3, <2>1, <2>2, <2>3, <2>4 DEF Cancel
<1>4. ASSUME NEW m \in Messages, Execute(m) PROVE TypeOK'
  BY <1>4 DEF Execute
<1>5. ASSUME NEW m \in Messages, ExecuteRefused(m) \/ ExecuteClosed(m)
      PROVE  TypeOK'
  <2>1. tasks' \in [Messages -> Outcome \cup {"none", "open"}]
    BY <1>5 DEF ExecuteRefused, ExecuteClosed, Synthesize
  <2>2. QED
    BY <1>5, <2>1 DEF ExecuteRefused, ExecuteClosed
<1>6. ASSUME NEW m \in Messages, AbandonReserved(m) PROVE TypeOK'
  BY <1>6 DEF AbandonReserved
<1>7. ASSUME NEW m \in Messages, AcceptCommit(m) PROVE TypeOK'
  BY <1>7 DEF AcceptCommit
<1>8. ASSUME NEW m \in Messages, AcceptRefused(m) PROVE TypeOK'
  BY <1>8 DEF AcceptRefused, Synthesize
<1>9. ASSUME NEW m \in Messages, Dispatched(m) PROVE TypeOK'
  BY <1>9 DEF Dispatched
<1>10. ASSUME NEW m \in Messages, DispatchRefused(m) PROVE TypeOK'
  BY <1>10 DEF DispatchRefused
<1>11. ASSUME NEW m \in Messages, Enqueue(m) PROVE TypeOK'
  BY <1>11 DEF Enqueue, Peers
<1>12. ASSUME NEW m \in Messages, WaitCancelled(m) PROVE TypeOK'
  BY <1>12 DEF WaitCancelled, Release
<1>13. ASSUME NEW m \in Messages, BeginTurn(m) PROVE TypeOK'
  BY <1>13 DEF BeginTurn
<1>14. ASSUME NEW m \in Messages, BeforeTurn(m) PROVE TypeOK'
  BY <1>14 DEF BeforeTurn
<1>15. ASSUME NEW m \in Messages, SessionReady(m) PROVE TypeOK'
  BY <1>15 DEF SessionReady
<1>16. ASSUME NEW m \in Messages, BeforeSend(m) PROVE TypeOK'
  BY <1>16 DEF BeforeSend
<1>17. ASSUME NEW m \in Messages, RecordIntent(m) PROVE TypeOK'
  BY <1>17 DEF RecordIntent
<1>18. ASSUME NEW m \in Messages, Send(m) PROVE TypeOK'
  BY <1>18 DEF Send
<1>19. ASSUME NEW m \in Messages, SendThrows(m) PROVE TypeOK'
  BY <1>19 DEF SendThrows
<1>20. ASSUME NEW m \in Messages, TurnCancelled(m) PROVE TypeOK'
  BY <1>20 DEF TurnCancelled, Leave
<1>21. ASSUME NEW m \in Messages, TurnRefused(m) PROVE TypeOK'
  BY <1>21 DEF TurnRefused, Leave
<1>22. ASSUME NEW m \in Messages, TurnStopped(m) PROVE TypeOK'
  BY <1>22 DEF TurnStopped, Leave
<1>23. ASSUME NEW m \in Messages, TurnStoppedFails(m) PROVE TypeOK'
  BY <1>23 DEF TurnStoppedFails
<1>24. ASSUME NEW m \in Messages, TurnUnresolved(m) PROVE TypeOK'
  BY <1>24 DEF TurnUnresolved, Leave, Quarantine
<1>25. ASSUME NEW m \in Messages, TurnUnresolvedFails(m) PROVE TypeOK'
  BY <1>25 DEF TurnUnresolvedFails, Leave, Quarantine
<1>26. ASSUME NEW m \in Messages, Unlock(m) PROVE TypeOK'
  BY <1>26 DEF Unlock, Release
<1>27. ASSUME NEW m \in Messages, StreamSucceeds(m) PROVE TypeOK'
  BY <1>27 DEF StreamSucceeds
<1>28. ASSUME NEW m \in Messages, StreamFails(m) PROVE TypeOK'
  BY <1>28 DEF StreamFails
<1>29. ASSUME NEW m \in Messages, ObserveRead(m) PROVE TypeOK'
  BY <1>29 DEF ObserveRead, TakeDraft
<1>30. ASSUME NEW m \in Messages, ObserveWrite(m) PROVE TypeOK'
  BY <1>30 DEF ObserveWrite
<1>31. ASSUME NEW m \in Messages, Conclude(m) PROVE TypeOK'
  BY <1>31 DEF Conclude, Verdict, KnownUnsent, TakeDraft
<1>32. ASSUME NEW m \in Messages, PublishIntent(m) PROVE TypeOK'
  BY <1>32 DEF PublishIntent
<1>33. ASSUME NEW m \in Messages, PublishFails(m) PROVE TypeOK'
  BY <1>33 DEF PublishFails, EndTurn, Synthesize
<1>34. ASSUME NEW m \in Messages, SdkSave(m) PROVE TypeOK'
  BY <1>34 DEF SdkSave, Settled, EndTurn
<1>35. ASSUME NEW m \in Messages, Consume(m) PROVE TypeOK'
  BY <1>35 DEF Consume, ConsumerFails, ConsumerEnds, Synthesize
<1>36. ASSUME NEW m \in Messages, RecoverSkip(m) PROVE TypeOK'
  BY <1>36 DEF RecoverSkip
<1>37. ASSUME NEW m \in Messages, RecoverPublication(m) PROVE TypeOK'
  BY <1>37 DEF RecoverPublication, Settled
<1>38. ASSUME NEW m \in Messages, RecoverAttempt(m) PROVE TypeOK'
  BY <1>38 DEF RecoverAttempt, Settled, RecoveredStop, StopRecorded, KnownUnsent
<1>39. ASSUME NEW m \in Messages, ResolveStart(m) PROVE TypeOK'
  BY <1>39 DEF ResolveStart, TakeDraft
<1>40. ASSUME NEW m \in Messages, ResolveCommit(m) PROVE TypeOK'
  BY <1>40 DEF ResolveCommit
<1>41. ASSUME NEW m \in Messages, Prune(m) PROVE TypeOK'
  BY <1>41 DEF Prune
<1>42. ASSUME NEW m \in Messages, RemoteFinish(m) PROVE TypeOK'
  BY <1>42 DEF RemoteFinish
<1>43. CASE Open
  BY <1>43 DEF Open
<1>44. CASE Recovered
  BY <1>44 DEF Recovered
<1>45. CASE Attach
  BY <1>45 DEF Attach
<1>46. CASE Close
  BY <1>46 DEF Close
<1>47. CASE ReleaseOwner
  BY <1>47 DEF ReleaseOwner, ClearMemory
<1>48. CASE CloseIncomplete
  BY <1>48 DEF CloseIncomplete
<1>49. CASE Terminate
  BY <1>49 DEF Terminate, ClearMemory
<1>50. CASE CloseBinding
  BY <1>50 DEF CloseBinding, ClearMemory
<1>51. CASE Crash
  BY <1>51 DEF Crash, ClearMemory
<1>52. ASSUME NEW m \in Messages, ResolveFails(m) PROVE TypeOK'
  BY <1>52 DEF ResolveFails
<1>53. CASE UNCHANGED vars
  BY <1>53 DEF vars
<1>54. QED
  BY <1>1, <1>2, <1>3, <1>4, <1>5, <1>6, <1>7, <1>8, <1>9, <1>10, <1>11,
     <1>12, <1>13, <1>14, <1>15, <1>16, <1>17, <1>18, <1>19, <1>20, <1>21,
     <1>22, <1>23, <1>24, <1>25, <1>26, <1>27, <1>28, <1>29, <1>30, <1>31,
     <1>32, <1>33, <1>34, <1>35, <1>36, <1>37, <1>38, <1>39, <1>40, <1>41,
     <1>42, <1>43, <1>44, <1>45, <1>46, <1>47, <1>48, <1>49, <1>50, <1>51,
     <1>52, <1>53
     DEF Next, TurnStep, Request, Admit, RunTurn, Stream, StreamOver, Publish,
         Recover, Operate, LifeCycle

\* Every reachable state is well typed, for every value of the constants.
THEOREM TypeCorrect == Spec => []TypeOK
<1>1. Init => TypeOK
  BY InitType
<1>2. TypeOK /\ [Next]_vars => TypeOK'
  BY NextType
<1>3. QED
  BY <1>1, <1>2, PTL DEF Spec

\* Turns run, and contexts are quarantined, only under an attached bridge.
LEMMA NextProcessInv ==
  TypeOK /\ ProcessInv /\ [Next]_vars => ProcessInv'
<1> SUFFICES ASSUME TypeOK, ProcessInv, [Next]_vars
             PROVE  ProcessInv'
  OBVIOUS
<1> USE NoneAssumption, ContextOfAssumption DEF TypeOK, ProcessInv, journal,
        agent, owner, turn, memory, SavePublication, TakeOwner, Attached,
        Opened, Quarantine, Goto, Leave, EndTurn, ClearMemory
<1>1. ASSUME NEW m \in Messages, Request(m) PROVE ProcessInv'
  BY <1>1 DEF Request, Reserve, CancelIntent, Cancel, CancelRefused,
     CancelAbort, CancelInterrupted, CancelMissingBus, Cancels, Cancelable,
     TakeDraft
<1>2. ASSUME NEW m \in Messages, Admit(m) PROVE ProcessInv'
  BY <1>2 DEF Admit, Execute, ExecuteRefused, ExecuteClosed, Synthesize,
     AbandonReserved, AcceptCommit, AcceptRefused, Dispatched, DispatchRefused,
     AcceptRecheck
<1>3. ASSUME NEW m \in Messages, RunTurn(m) PROVE ProcessInv'
  BY <1>3 DEF RunTurn, Enqueue, WaitCancelled, BeginTurn, BeforeTurn,
     SessionReady, BeforeSend, RecordIntent, Send, SendThrows,
     TurnCancelled, TurnRefused, TurnStopped, TurnStoppedFails,
     TurnUnresolved, TurnUnresolvedFails, Unlock
<1>4. ASSUME NEW m \in Messages, Stream(m) PROVE ProcessInv'
  BY <1>4 DEF Stream, StreamOver, StreamSucceeds, StreamFails, ObserveRead,
     ObserveWrite, TakeDraft, DropDraft, NoDraft
<1>5. ASSUME NEW m \in Messages, Publish(m) PROVE ProcessInv'
  BY <1>5 DEF Publish, Conclude, PublishIntent, PublishFails, Synthesize,
     SdkSave, Verdict, KnownUnsent, TakeDraft, Settled, DropDraft, NoDraft
<1>6. ASSUME NEW m \in Messages, Recover(m) PROVE ProcessInv'
  BY <1>6 DEF Recover, RecoverSkip, RecoverPublication, RecoverAttempt,
     Settled, RecoveredStop, StopRecorded, KnownUnsent, RecoverSkips
<1>7. ASSUME NEW m \in Messages, Operate(m) PROVE ProcessInv'
  BY <1>7 DEF Operate, ResolveStart, ResolveCommit, ResolveFails, Prune,
     TakeDraft, DropDraft, NoDraft, Prunable
<1>8. ASSUME NEW m \in Messages, RemoteFinish(m) PROVE ProcessInv'
  BY <1>8 DEF RemoteFinish
<1>9. CASE LifeCycle
  BY <1>9 DEF LifeCycle, Open, Recovered, Attach, Close, ReleaseOwner,
     CloseIncomplete, Terminate, CloseBinding, Crash, NoDraft
<1>10. CASE UNCHANGED vars
  BY <1>10 DEF vars
<1>11. ASSUME NEW m \in Messages, Consume(m) PROVE ProcessInv'
  BY <1>11 DEF Consume, ConsumerFails, ConsumerEnds, Synthesize
<1>12. QED
  BY <1>1, <1>2, <1>3, <1>4, <1>5, <1>6, <1>7, <1>8, <1>9, <1>10, <1>11 DEF
     Next, TurnStep

\* A step keeps the lock as long as no turn enters or leaves the queue and only
\* the first in it starts to hold.
LEMMA LockKept ==
  ASSUME LockInv, ahead' = ahead,
         \A n \in Messages : /\ pc'[n] \in Queued <=> pc[n] \in Queued
                             /\ pc'[n] \in Holding =>
                                  pc[n] \in Holding \/ ahead[n] = {}
  PROVE  LockInv'
  BY DEF LockInv, Peers

\* The lock of a context: whoever enters it queues behind every turn that has
\* not released, and a release removes only itself.
LEMMA NextLockInv == TypeOK /\ LockInv /\ [Next]_vars => LockInv'
<1> SUFFICES ASSUME TypeOK, LockInv, [Next]_vars
             PROVE  LockInv'
  OBVIOUS
<1> DEFINE Kept == /\ ahead' = ahead
                   /\ \A n \in Messages :
                        /\ pc'[n] \in Queued <=> pc[n] \in Queued
                        /\ pc'[n] \in Holding =>
                             pc[n] \in Holding \/ ahead[n] = {}
<1> USE DEF TypeOK, journal, agent, owner, turn, memory, SavePublication,
        TakeOwner, Queued, Holding, Goto, Leave, EndTurn
<1>1. ASSUME NEW m \in Messages, Request(m) PROVE Kept
  BY <1>1 DEF Request, Reserve, CancelIntent, Cancel, CancelRefused,
     CancelAbort, CancelInterrupted, CancelMissingBus, Cancels, Cancelable,
     TakeDraft
<1>2. ASSUME NEW m \in Messages, Admit(m) PROVE Kept
  BY <1>2 DEF Admit, Execute, ExecuteRefused, ExecuteClosed, Synthesize,
     AbandonReserved, AcceptCommit, AcceptRefused, Dispatched, DispatchRefused
<1>3. ASSUME NEW m \in Messages, RunTurn(m) PROVE LockInv'
  <2>1. CASE Enqueue(m)
    BY <2>1 DEF Enqueue, LockInv, Peers
  <2>2. CASE WaitCancelled(m) \/ Unlock(m)
    <3>1. /\ pc' = [pc EXCEPT ![m] = "returned"]
          /\ ahead' = [n \in Messages |->
                        IF n = m THEN {} ELSE ahead[n] \ {m}]
      BY <2>2 DEF WaitCancelled, Unlock, Release
    <3>2. QED
      BY <3>1 DEF LockInv, Peers
  <2>3. CASE BeginTurn(m)
    <3>1. Kept
      BY <2>3 DEF BeginTurn
    <3>2. QED
      BY <3>1, LockKept
  <2>4. CASE BeforeTurn(m) \/ SessionReady(m) \/ BeforeSend(m) \/
             RecordIntent(m) \/ Send(m) \/ SendThrows(m) \/ TurnCancelled(m)
             \/ TurnRefused(m) \/ TurnStopped(m) \/ TurnStoppedFails(m) \/
             TurnUnresolved(m) \/ TurnUnresolvedFails(m)
    <3>1. Kept
      BY <2>4 DEF BeforeTurn, SessionReady, BeforeSend, RecordIntent, Send,
         SendThrows, TurnCancelled, TurnRefused, TurnStopped,
         TurnStoppedFails, TurnUnresolved, TurnUnresolvedFails
    <3>2. QED
      BY <3>1, LockKept
  <2>5. QED
    BY <1>3, <2>1, <2>2, <2>3, <2>4 DEF RunTurn
<1>4. ASSUME NEW m \in Messages, Stream(m) PROVE Kept
  <2>1. /\ ahead' = ahead
        /\ pc[m] \in {"streaming", "observing"}
        /\ \E p \in {"streaming", "observing", "settled", "failing"} :
             pc' = [pc EXCEPT ![m] = p]
    BY <1>4 DEF Stream, StreamOver, StreamSucceeds, StreamFails, ObserveRead,
       ObserveWrite
  <2>2. QED
    BY <2>1
<1>5. ASSUME NEW m \in Messages, Publish(m) PROVE Kept
  BY <1>5 DEF Publish, Conclude, PublishIntent, PublishFails, Synthesize,
     SdkSave
<1>6. ASSUME NEW m \in Messages, Recover(m) PROVE Kept
  BY <1>6 DEF Recover, RecoverSkip, RecoverPublication, RecoverAttempt
<1>7. ASSUME NEW m \in Messages, Operate(m) PROVE Kept
  BY <1>7 DEF Operate, ResolveStart, ResolveCommit, ResolveFails, Prune
<1>8. ASSUME NEW m \in Messages, RemoteFinish(m) PROVE Kept
  BY <1>8 DEF RemoteFinish
<1>9. CASE LifeCycle
  BY <1>9 DEF LifeCycle, Open, Recovered, Attach, Close, ReleaseOwner,
     CloseIncomplete, Terminate, CloseBinding, Crash, ClearMemory, LockInv,
     Peers
<1>10. CASE UNCHANGED vars
  BY <1>10 DEF vars, LockInv, Peers
<1>11. ASSUME NEW m \in Messages, Consume(m) PROVE Kept
  BY <1>11 DEF Consume, ConsumerFails, ConsumerEnds, Synthesize
<1>12. QED
  BY <1>1, <1>2, <1>3, <1>4, <1>5, <1>6, <1>7, <1>8, <1>9, <1>10, <1>11,
     LockKept DEF Next, TurnStep

\* Row and turn agree at every position.
LEMMA NextPhaseInv ==
  TypeOK /\ ProcessInv /\ PhaseInv /\ SendInv /\ BusInv /\ RecoverInv
    /\ [Next]_vars => PhaseInv'
<1> SUFFICES ASSUME TypeOK, ProcessInv, PhaseInv, SendInv, BusInv, RecoverInv,
                    [Next]_vars
             PROVE  PhaseInv'
  OBVIOUS
<1> USE NoneAssumption, ContextOfAssumption DEF TypeOK, ProcessInv, PhaseInv,
        SendInv, RecoverInv, journal, agent, owner, turn, memory,
        SavePublication, TakeOwner, Finishing, Attached, Opened, Goto, Leave,
        EndTurn, ClearMemory
<1>1. ASSUME NEW m \in Messages, Request(m) PROVE PhaseInv'
  <2>1. CASE Reserve(m) \/ CancelIntent(m)
    BY <2>1 DEF Reserve, CancelIntent
  <2>2. CASE CancelRefused(m) \/ CancelAbort(m)
    BY <2>2 DEF CancelRefused, CancelAbort, Cancels
  <2>3. CASE CancelInterrupted(m)
    BY <2>3 DEF CancelInterrupted, Cancels, TakeDraft, BusInv, Running,
       Queued, Holding
  <2>4. CASE CancelMissingBus(m)
    BY <2>4 DEF CancelMissingBus, Cancels, Cancelable
  <2>5. QED
    BY <1>1, <2>1, <2>2, <2>3, <2>4 DEF Request, Cancel
<1>2. ASSUME NEW m \in Messages, Admit(m) PROVE PhaseInv'
  BY <1>2 DEF Admit, Execute, ExecuteRefused, ExecuteClosed, Synthesize,
     AbandonReserved, AcceptCommit, AcceptRefused, Dispatched, DispatchRefused,
     AcceptRecheck
<1>3. ASSUME NEW m \in Messages, RunTurn(m) PROVE PhaseInv'
  <2>1. CASE Enqueue(m) \/ WaitCancelled(m) \/ BeginTurn(m) \/ BeforeTurn(m)
    BY <2>1 DEF Enqueue, WaitCancelled, BeginTurn, BeforeTurn
  <2>2. CASE SessionReady(m) \/ BeforeSend(m) \/ RecordIntent(m) \/ Send(m)
             \/ SendThrows(m)
    BY <2>2 DEF SessionReady, BeforeSend, RecordIntent, Send, SendThrows
  <2>3. CASE TurnCancelled(m) \/ TurnRefused(m) \/ TurnStoppedFails(m)
             \/ Unlock(m)
    BY <2>3 DEF TurnCancelled, TurnRefused, TurnStoppedFails, Unlock
  <2>4. CASE TurnStopped(m) \/ TurnUnresolved(m) \/ TurnUnresolvedFails(m)
    BY <2>4 DEF TurnStopped, TurnUnresolved, TurnUnresolvedFails, Result
  <2>5. QED
    BY <1>3, <2>1, <2>2, <2>3, <2>4 DEF RunTurn
<1>4. ASSUME NEW m \in Messages, Stream(m) PROVE PhaseInv'
  BY <1>4 DEF Stream, StreamOver, StreamSucceeds, StreamFails, ObserveRead,
     ObserveWrite, TakeDraft, DropDraft, NoDraft
<1>5. ASSUME NEW m \in Messages, Publish(m) PROVE PhaseInv'
  BY <1>5 DEF Publish, Conclude, PublishIntent, PublishFails, Synthesize,
     SdkSave, Verdict, KnownUnsent, TakeDraft, Settled, DropDraft, NoDraft
<1>6. ASSUME NEW m \in Messages, Recover(m) PROVE PhaseInv'
  BY <1>6 DEF Recover, RecoverSkip, RecoverPublication, RecoverAttempt,
     Settled, RecoveredStop, StopRecorded, KnownUnsent, RecoverSkips
<1>7. ASSUME NEW m \in Messages, Operate(m) PROVE PhaseInv'
  BY <1>7 DEF Operate, ResolveStart, ResolveCommit, ResolveFails, Prune,
     TakeDraft, DropDraft, NoDraft, Prunable, FinalState
<1>8. ASSUME NEW m \in Messages, RemoteFinish(m) PROVE PhaseInv'
  BY <1>8 DEF RemoteFinish
<1>9. CASE LifeCycle
  BY <1>9 DEF LifeCycle, Open, Recovered, Attach, Close, ReleaseOwner,
     CloseIncomplete, Terminate, CloseBinding, Crash, NoDraft
<1>10. CASE UNCHANGED vars
  BY <1>10 DEF vars
<1>11. ASSUME NEW m \in Messages, Consume(m) PROVE PhaseInv'
  BY <1>11 DEF Consume, ConsumerFails, ConsumerEnds, Synthesize
<1>12. QED
  BY <1>1, <1>2, <1>3, <1>4, <1>5, <1>6, <1>7, <1>8, <1>9, <1>10, <1>11 DEF
     Next, TurnStep

\* Nothing is sent before the intent, and nothing twice.
LEMMA NextSendInv ==
  TypeOK /\ ProcessInv /\ PhaseInv /\ SendInv /\ RecoverInv /\
    [Next]_vars => SendInv'
<1> SUFFICES ASSUME TypeOK, ProcessInv, PhaseInv, SendInv, RecoverInv,
                    [Next]_vars
             PROVE  SendInv'
  OBVIOUS
<1> USE NoneAssumption, ContextOfAssumption DEF TypeOK, ProcessInv, PhaseInv,
        SendInv, RecoverInv, journal, agent, owner, turn, memory,
        SavePublication, TakeOwner, Unsent, Attached, Opened, Goto, Leave,
        EndTurn, ClearMemory
<1>1. ASSUME NEW m \in Messages, Request(m) PROVE SendInv'
  BY <1>1 DEF Request, Reserve, CancelIntent, Cancel, CancelRefused,
     CancelAbort, CancelInterrupted, CancelMissingBus, Cancels, Cancelable,
     TakeDraft
<1>2. ASSUME NEW m \in Messages, Admit(m) PROVE SendInv'
  BY <1>2 DEF Admit, Execute, ExecuteRefused, ExecuteClosed, Synthesize,
     AbandonReserved, AcceptCommit, AcceptRefused, Dispatched, DispatchRefused,
     AcceptRecheck
<1>3. ASSUME NEW m \in Messages, RunTurn(m) PROVE SendInv'
  BY <1>3 DEF RunTurn, Enqueue, WaitCancelled, BeginTurn, BeforeTurn,
     SessionReady, BeforeSend, RecordIntent, Send, SendThrows,
     TurnCancelled, TurnRefused, TurnStopped, TurnStoppedFails,
     TurnUnresolved, TurnUnresolvedFails, Unlock
<1>4. ASSUME NEW m \in Messages, Stream(m) PROVE SendInv'
  BY <1>4 DEF Stream, StreamOver, StreamSucceeds, StreamFails, ObserveRead,
     ObserveWrite, TakeDraft, DropDraft, NoDraft
<1>5. ASSUME NEW m \in Messages, Publish(m) PROVE SendInv'
  BY <1>5 DEF Publish, Conclude, PublishIntent, PublishFails, Synthesize,
     SdkSave, Verdict, KnownUnsent, TakeDraft, Settled, DropDraft, NoDraft
<1>6. ASSUME NEW m \in Messages, Recover(m) PROVE SendInv'
  BY <1>6 DEF Recover, RecoverSkip, RecoverPublication, RecoverAttempt,
     Settled, RecoveredStop, StopRecorded, KnownUnsent, RecoverSkips
<1>7. ASSUME NEW m \in Messages, Operate(m) PROVE SendInv'
  BY <1>7 DEF Operate, ResolveStart, ResolveCommit, ResolveFails, Prune,
     TakeDraft, DropDraft, NoDraft, Prunable
<1>8. ASSUME NEW m \in Messages, RemoteFinish(m) PROVE SendInv'
  BY <1>8 DEF RemoteFinish
<1>9. CASE LifeCycle
  BY <1>9 DEF LifeCycle, Open, Recovered, Attach, Close, ReleaseOwner,
     CloseIncomplete, Terminate, CloseBinding, Crash, NoDraft
<1>10. CASE UNCHANGED vars
  BY <1>10 DEF vars
<1>11. ASSUME NEW m \in Messages, Consume(m) PROVE SendInv'
  BY <1>11 DEF Consume, ConsumerFails, ConsumerEnds, Synthesize, Running,
     Queued, Holding
<1>12. QED
  BY <1>1, <1>2, <1>3, <1>4, <1>5, <1>6, <1>7, <1>8, <1>9, <1>10, <1>11 DEF
     Next, TurnStep

\* What publication and recovery call unsent was never submitted.
LEMMA UnsentIsSilent ==
  ASSUME TypeOK, SendInv, NEW m \in Messages, pc[m] \in Unsent \/ KnownUnsent(m)
  PROVE  remote[m] = "none"
  BY DEF TypeOK, SendInv, KnownUnsent

\* No step takes a running input for a stopped one.
LEMMA NextStopInv ==
  TypeOK /\ ProcessInv /\ PhaseInv /\ SendInv /\ StopInv /\ BusInv
    /\ RecoverInv /\ [Next]_vars => StopInv'
<1> SUFFICES ASSUME TypeOK, ProcessInv, PhaseInv, SendInv, StopInv,
                    BusInv, RecoverInv, [Next]_vars
             PROVE  StopInv'
  OBVIOUS
<1> USE NoneAssumption, ContextOfAssumption DEF TypeOK, Result, ProcessInv,
        PhaseInv, SendInv, StopInv, RecoverInv, journal, agent, owner, turn,
        memory, SavePublication, TakeOwner, Unsent, Finishing, Attached,
        Opened, Goto, Leave, EndTurn, ClearMemory
<1>1. ASSUME NEW m \in Messages, Request(m) PROVE StopInv'
  <2>1. CASE Reserve(m) \/ CancelIntent(m)
    BY <2>1 DEF Reserve, CancelIntent
  <2>2. CASE CancelRefused(m) \/ CancelAbort(m)
    BY <2>2 DEF CancelRefused, CancelAbort, Cancels
  <2>3. CASE CancelInterrupted(m)
    BY <2>3 DEF CancelInterrupted, Cancels, TakeDraft, BusInv, Running,
       Queued, Holding
  <2>4. CASE CancelMissingBus(m)
    BY <2>4 DEF CancelMissingBus, Cancels, Cancelable
  <2>5. QED
    BY <1>1, <2>1, <2>2, <2>3, <2>4 DEF Request, Cancel
<1>2. ASSUME NEW m \in Messages, Admit(m) PROVE StopInv'
  BY <1>2 DEF Admit, Execute, ExecuteRefused, ExecuteClosed, Synthesize,
     AbandonReserved, AcceptCommit, AcceptRefused, Dispatched, DispatchRefused,
     AcceptRecheck
<1>3. ASSUME NEW m \in Messages, RunTurn(m) PROVE StopInv'
  <2>1. CASE WaitCancelled(m) \/ TurnCancelled(m)
    <3>1. pc[m] \in Unsent /\ remote[m] = "none"
      BY <2>1, UnsentIsSilent DEF WaitCancelled, TurnCancelled
    <3>2. /\ \E p \in {"returned", "unlocking"} : pc' = [pc EXCEPT ![m] = p]
          /\ outcome' = [outcome EXCEPT ![m] = "canceled"]
          /\ UNCHANGED <<phase, stopped, remote, draft>>
      BY <2>1 DEF WaitCancelled, TurnCancelled
    <3>3. QED
      BY <3>1, <3>2
  <2>2. CASE TurnStopped(m) \/ TurnUnresolved(m) \/ TurnUnresolvedFails(m)
    BY <1>3, <2>2 DEF TurnStopped, TurnUnresolved, TurnUnresolvedFails,
       Quarantine
  <2>3. CASE Send(m) \/ SendThrows(m)
    BY <1>3, <2>3 DEF Send, SendThrows
  <2>4. CASE Enqueue(m) \/ BeginTurn(m) \/ BeforeTurn(m) \/ SessionReady(m)
             \/ BeforeSend(m) \/ RecordIntent(m) \/ TurnRefused(m) \/
             TurnStoppedFails(m) \/ Unlock(m)
    BY <1>3, <2>4 DEF Enqueue, BeginTurn, BeforeTurn, SessionReady,
       BeforeSend, RecordIntent, TurnRefused, TurnStoppedFails, Unlock
  <2>5. QED
    BY <1>3, <2>1, <2>2, <2>3, <2>4 DEF RunTurn
<1>4. ASSUME NEW m \in Messages, Stream(m) PROVE StopInv'
  BY <1>4 DEF Stream, StreamOver, StreamSucceeds, StreamFails, ObserveRead,
     ObserveWrite, TakeDraft, DropDraft, NoDraft
<1>5. ASSUME NEW m \in Messages, Publish(m) PROVE StopInv'
  <2>1. CASE Conclude(m)
    <3>1. Verdict(m) # "failed" => remote[m] # "running"
      BY <2>1 DEF Conclude, Verdict, Outcome, FinalState, Result
    <3>2. stopped[m] \/ KnownUnsent(m) => remote[m] # "running"
      BY UnsentIsSilent
    <3>3. draft'[m].stopped => remote[m] # "running"
      BY <2>1, <3>1, <3>2 DEF Conclude, TakeDraft
    <3>4. ASSUME Verdict(m) # "failed" PROVE draft'[m].stopped
      <4>1. (Verdict(m) # "failed" \/ stopped[m] \/ KnownUnsent(m)) = TRUE
        BY <3>4
      <4>2. draft' = [draft EXCEPT ![m] =
                        [stopped |-> TRUE, cancel |-> cancelRequested[m]]]
        BY <2>1, <4>1 DEF Conclude, TakeDraft
      <4>3. QED
        BY <4>2
    <3>5. /\ pc' = [pc EXCEPT ![m] = "reducing"]
          /\ outcome' = [outcome EXCEPT ![m] = Verdict(m)]
          /\ \A n \in Messages \ {m} : draft'[n] = draft[n]
          /\ UNCHANGED <<phase, stopped, remote>>
      BY <2>1 DEF Conclude, TakeDraft
    <3>6. QED
      BY <2>1, <3>1, <3>3, <3>4, <3>5 DEF Conclude
  <2>2. CASE PublishIntent(m)
    BY <2>2 DEF PublishIntent, DropDraft, NoDraft
  <2>3. CASE PublishFails(m)
    BY <2>3 DEF PublishFails, DropDraft, NoDraft
  <2>4. CASE SdkSave(m)
    BY <2>4 DEF SdkSave, Settled
  <2>5. QED
    BY <1>5, <2>1, <2>2, <2>3, <2>4 DEF Publish
<1>6. ASSUME NEW m \in Messages, Recover(m) PROVE StopInv'
  <2>1. CASE RecoverAttempt(m)
    <3>1. RecoveredStop(m) => remote[m] # "running"
      BY UnsentIsSilent DEF RecoveredStop, StopRecorded
    <3>2. /\ stopped' = [stopped EXCEPT ![m] = RecoveredStop(m)]
          /\ phase' = [phase EXCEPT ![m] = Settled(RecoveredStop(m))]
          /\ UNCHANGED <<remote, pc, outcome, draft>>
      BY <2>1 DEF RecoverAttempt
    <3>3. QED
      BY <3>1, <3>2 DEF Settled
  <2>2. CASE RecoverPublication(m)
    BY <2>2 DEF RecoverPublication, Settled
  <2>3. CASE RecoverSkip(m)
    BY <2>3 DEF RecoverSkip
  <2>4. QED
    BY <1>6, <2>1, <2>2, <2>3 DEF Recover
<1>7. ASSUME NEW m \in Messages, Operate(m) PROVE StopInv'
  <2>1. CASE ResolveCommit(m)
    BY <1>7, <2>1 DEF ResolveCommit, DropDraft, NoDraft
  <2>2. CASE ResolveStart(m)
    BY <2>2 DEF ResolveStart, TakeDraft
  <2>3. CASE Prune(m)
    BY <2>3 DEF Prune, Prunable
  <2>4. CASE ResolveFails(m)
    BY <2>4 DEF ResolveFails, DropDraft, NoDraft
  <2>5. QED
    BY <1>7, <2>1, <2>2, <2>3, <2>4 DEF Operate
<1>8. ASSUME NEW m \in Messages, RemoteFinish(m) PROVE StopInv'
  BY <1>8 DEF RemoteFinish
<1>9. CASE LifeCycle
  BY <1>9 DEF LifeCycle, Open, Recovered, Attach, Close, ReleaseOwner,
     CloseIncomplete, Terminate, CloseBinding, Crash, NoDraft
<1>10. CASE UNCHANGED vars
  BY <1>10 DEF vars
<1>11. ASSUME NEW m \in Messages, Consume(m) PROVE StopInv'
  BY <1>11 DEF Consume, ConsumerFails, ConsumerEnds, Synthesize
<1>12. QED
  BY <1>1, <1>2, <1>3, <1>4, <1>5, <1>6, <1>7, <1>8, <1>9, <1>10, <1>11 DEF
     Next, TurnStep

\* Outcomes are recorded only for stopped attempts, but for the cancellation of a
\* task nobody consumes any longer.
LEMMA NextHonestInv ==
  TypeOK /\ ProcessInv /\ PhaseInv /\ StopInv /\ HonestInv /\ RowInv /\ BusInv
    /\ RecoverInv /\ ReleaseInv /\ [Next]_vars => HonestInv'
<1> SUFFICES ASSUME TypeOK, ProcessInv, PhaseInv, StopInv, HonestInv, RowInv,
                    BusInv, RecoverInv, ReleaseInv, [Next]_vars
             PROVE  HonestInv'
  OBVIOUS
<1> USE NoneAssumption, ContextOfAssumption DEF TypeOK, PhaseInv, HonestInv,
        Result, journal, agent, owner, turn, memory, SavePublication,
        TakeOwner, Goto, Leave, EndTurn
<1>1. ASSUME NEW m \in Messages, Request(m) PROVE HonestInv'
  <2>1. CASE Reserve(m)
    BY <2>1 DEF Reserve, Running, Queued, Holding
  <2>2. CASE CancelIntent(m) \/ CancelRefused(m) \/ CancelAbort(m)
    BY <2>2 DEF CancelIntent, CancelRefused, CancelAbort, Cancels
  <2>3. CASE CancelInterrupted(m)
    BY <2>3 DEF CancelInterrupted, Cancels, Running, Queued, Holding
  <2>4. CASE CancelMissingBus(m)
    <3>1. proc \in Attached
      BY <2>4 DEF CancelMissingBus, Cancels, ProcessInv
    <3>2. pc[m] \in Running \/ phase[m] = "done"
            \/ ContextOf[m] \in finalizationFailures
      BY <2>4, <3>1 DEF CancelMissingBus, Cancelable, ReleaseInv, RowInv,
         Position, Opened, PhaseInv
    <3>3. /\ m \notin bus
          /\ \A n \in Messages \ {m} : tasks'[n] = tasks[n]
          /\ tasks'[m] \in {tasks[m], "canceled"}
          /\ UNCHANGED <<phase, stopped, publication, proc, pc, bus,
                        finalizationFailures>>
      BY <2>4 DEF CancelMissingBus
    <3>4. QED
      BY <3>2, <3>3
  <2>5. QED
    BY <1>1, <2>1, <2>2, <2>3, <2>4 DEF Request, Cancel
<1>2. ASSUME NEW m \in Messages, Admit(m) PROVE HonestInv'
  <2>1. CASE Execute(m)
    BY <2>1 DEF Execute, RowInv
  <2>2. CASE AcceptCommit(m) \/ Dispatched(m) \/ DispatchRefused(m)
    <3>1. /\ pc[m] \in Running /\ \E p \in Running : pc' = [pc EXCEPT ![m] = p]
          /\ UNCHANGED <<stopped, publication, proc, bus, finalizationFailures>>
          /\ phase[m] \in {"none", "accepted"}
          /\ \E f \in {phase[m], "accepted", "dispatching"} :
               phase' = [phase EXCEPT ![m] = f]
          /\ tasks' \in {tasks, [tasks EXCEPT ![m] = "open"]}
      BY <2>2 DEF AcceptCommit, AcceptRecheck, Dispatched, DispatchRefused,
         Running
    <3>2. publication[m] = "none" /\ tasks[m] \notin {"completed", "interrupted"}
      BY <3>1
    <3>3. tasks[m] = "canceled" /\ proc \in Opened => m \notin bus
      BY <3>1
    <3>4. QED
      BY <3>1, <3>2, <3>3
  <2>3. CASE ExecuteRefused(m)
    BY <2>3 DEF ExecuteRefused, Synthesize, RowInv
  <2>4. CASE ExecuteClosed(m)
    BY <2>4 DEF ExecuteClosed, Synthesize, RowInv
  <2>5. CASE AbandonReserved(m)
    BY <2>5 DEF AbandonReserved, Synthesize, RowInv
  <2>6. CASE AcceptRefused(m)
    BY <2>6 DEF AcceptRefused, Synthesize, RowInv
  <2>7. QED
    BY <1>2, <2>1, <2>2, <2>3, <2>4, <2>5, <2>6 DEF Admit
<1>3. ASSUME NEW m \in Messages, RunTurn(m) PROVE HonestInv'
  <2>1. /\ pc[m] \in Running /\ \E p \in Running : pc' = [pc EXCEPT ![m] = p]
        /\ UNCHANGED <<publication, tasks, proc, bus, finalizationFailures>>
    <3>1. CASE Enqueue(m) \/ WaitCancelled(m) \/ BeginTurn(m) \/ BeforeTurn(m)
               \/ SessionReady(m) \/ BeforeSend(m) \/ RecordIntent(m)
      BY <3>1 DEF Enqueue, WaitCancelled, BeginTurn, BeforeTurn, SessionReady,
         BeforeSend, RecordIntent, Running, Queued, Holding
    <3>2. CASE Send(m) \/ SendThrows(m) \/ TurnCancelled(m) \/ TurnRefused(m)
      BY <3>2 DEF Send, SendThrows, TurnCancelled, TurnRefused, Running, Queued,
         Holding
    <3>3. CASE TurnStopped(m) \/ TurnStoppedFails(m) \/ TurnUnresolved(m)
               \/ TurnUnresolvedFails(m) \/ Unlock(m)
      BY <3>3 DEF TurnStopped, TurnStoppedFails, TurnUnresolved,
         TurnUnresolvedFails, Unlock, Running, Queued, Holding
    <3>4. QED
      BY <1>3, <3>1, <3>2, <3>3 DEF RunTurn
  <2>2. \/ UNCHANGED <<phase, stopped>>
        \/ /\ phase[m] \notin {"publishing", "done", "unresolved"}
           /\ \E f \in {"preparing", "intent", "stopped", "unresolved"} :
                phase' = [phase EXCEPT ![m] = f]
           /\ \A n \in Messages \ {m} : stopped'[n] = stopped[n]
    BY <1>3 DEF RunTurn, Enqueue, WaitCancelled, BeginTurn, BeforeTurn,
       SessionReady, BeforeSend, RecordIntent, Send, SendThrows,
       TurnCancelled, TurnRefused, TurnStopped, TurnStoppedFails,
       TurnUnresolved, TurnUnresolvedFails, Unlock
  <2>3. CASE UNCHANGED <<phase, stopped>>
    BY <2>1, <2>3
  <2>4. CASE phase[m] \notin {"publishing", "done", "unresolved"}
    <3>1. publication[m] = "none" /\ tasks[m] \notin {"completed", "interrupted"}
      BY <2>4
    <3>2. QED
      BY <2>1, <2>2, <3>1
  <2>5. QED
    BY <2>2, <2>3, <2>4
<1>4. ASSUME NEW m \in Messages, Stream(m) PROVE HonestInv'
  <2>1. /\ UNCHANGED <<phase, stopped, publication, tasks, proc, bus,
                      finalizationFailures>>
        /\ \E p \in Running : pc' = [pc EXCEPT ![m] = p]
    BY <1>4 DEF Running, Queued, Holding, Stream, StreamOver, StreamSucceeds,
       StreamFails, ObserveRead, ObserveWrite
  <2>2. QED
    BY <2>1
<1>5. ASSUME NEW m \in Messages, Publish(m) PROVE HonestInv'
  <2>1. CASE Conclude(m)
    <3>1. /\ pc' = [pc EXCEPT ![m] = "reducing"]
          /\ UNCHANGED <<phase, stopped, publication, tasks, proc, bus,
                        finalizationFailures>>
      BY <2>1 DEF Conclude
    <3>2. "reducing" \in Running
      BY DEF Running
    <3>3. QED
      BY <3>1, <3>2
  <2>2. CASE PublishIntent(m)
    <3>1. outcome[m] # "failed" => draft[m].stopped
      BY <2>2 DEF PublishIntent, StopInv
    <3>2. tasks[m] = "interrupted" => draft[m].stopped
      BY <2>2, <3>1 DEF PublishIntent
    <3>3. tasks[m] # "completed"
      BY <2>2 DEF PublishIntent
    <3>4. QED
      BY <2>2, <3>1, <3>2, <3>3 DEF PublishIntent, Running, Queued, Holding
  <2>3. CASE SdkSave(m)
    BY <2>3 DEF SdkSave, Settled
  <2>4. CASE PublishFails(m)
    BY <2>4 DEF PublishFails, Synthesize
  <2>5. QED
    BY <1>5, <2>1, <2>2, <2>3, <2>4 DEF Publish
<1>6. ASSUME NEW m \in Messages, Recover(m) PROVE HonestInv'
  <2>1. proc \notin Opened /\ UNCHANGED <<proc, pc, bus, finalizationFailures>>
    BY <1>6 DEF Recover, RecoverSkip, RecoverPublication, RecoverAttempt,
       Opened, Attached
  <2>2. CASE RecoverSkip(m)
    BY <2>1, <2>2 DEF RecoverSkip
  <2>3. CASE RecoverPublication(m)
    BY <2>1, <2>3 DEF RecoverPublication, Settled
  <2>4. CASE RecoverAttempt(m)
    <3>1. StopRecorded(m) => RecoveredStop(m)
      BY DEF RecoveredStop
    <3>2. /\ stopped' = [stopped EXCEPT ![m] = RecoveredStop(m)]
          /\ phase' = [phase EXCEPT ![m] = Settled(RecoveredStop(m))]
          /\ \/ /\ StopRecorded(m)
                /\ tasks' = [tasks EXCEPT ![m] = "completed"]
                /\ publication' = [publication EXCEPT ![m] = "completed"]
             \/ /\ tasks' = [tasks EXCEPT ![m] = "failed"]
                /\ publication' = [publication EXCEPT ![m] = "failed"]
      BY <2>4 DEF RecoverAttempt
    <3>3. QED
      BY <2>1, <3>1, <3>2 DEF Settled
  <2>5. QED
    BY <1>6, <2>2, <2>3, <2>4 DEF Recover
<1>7. ASSUME NEW m \in Messages, Operate(m) PROVE HonestInv'
  <2>1. CASE ResolveCommit(m)
    BY <2>1 DEF ResolveCommit
  <2>2. CASE Prune(m)
    BY <2>2 DEF Prune
  <2>3. CASE ResolveStart(m) \/ ResolveFails(m)
    <3>1. UNCHANGED <<phase, stopped, publication, tasks, proc, pc, bus,
                      finalizationFailures>>
      BY <2>3 DEF ResolveStart, ResolveFails
    <3>2. QED
      BY <3>1
  <2>4. QED
    BY <1>7, <2>1, <2>2, <2>3 DEF Operate
<1>8. ASSUME NEW m \in Messages, RemoteFinish(m) PROVE HonestInv'
  BY <1>8 DEF RemoteFinish
<1>9. CASE LifeCycle
  <2>1. CASE Recovered
    BY <2>1 DEF Recovered, RecoverInv
  <2>2. CASE Open \/ Attach \/ Close \/ CloseIncomplete
    BY <2>2 DEF Open, Attach, Close, CloseIncomplete, Opened, Attached
  <2>3. CASE ReleaseOwner \/ Terminate \/ CloseBinding \/ Crash
    BY <2>3 DEF ReleaseOwner, Terminate, CloseBinding, Crash, Opened, Attached
  <2>4. QED
    BY <1>9, <2>1, <2>2, <2>3 DEF LifeCycle
<1>10. CASE UNCHANGED vars
  BY <1>10 DEF vars
<1>11. ASSUME NEW m \in Messages, Consume(m) PROVE HonestInv'
  BY <1>11 DEF Consume, ConsumerFails, ConsumerEnds, Synthesize
<1>12. QED
  BY <1>1, <1>2, <1>3, <1>4, <1>5, <1>6, <1>7, <1>8, <1>9, <1>10, <1>11
     DEF Next, TurnStep

\* The SDK listens to whom it should.
LEMMA NextBusInv ==
  TypeOK /\ ProcessInv /\ PhaseInv /\ SendInv /\ HonestInv /\ RowInv /\ BusInv
    /\ RecoverInv /\ [Next]_vars => BusInv'
<1> SUFFICES ASSUME TypeOK, ProcessInv, PhaseInv, SendInv, HonestInv, RowInv,
                    BusInv, RecoverInv, [Next]_vars
             PROVE  BusInv'
  OBVIOUS
<1> USE NoneAssumption DEF TypeOK, BusInv, Result, journal, agent, owner, turn,
        memory, SavePublication, TakeOwner, Goto, Leave, EndTurn, Running,
        Queued, Holding
<1>1. ASSUME NEW m \in Messages, Request(m) PROVE BusInv'
  <2>1. CASE Reserve(m)
    BY <2>1 DEF Reserve, SendInv
  <2>2. CASE CancelIntent(m) \/ CancelRefused(m) \/ CancelAbort(m)
    BY <2>2 DEF CancelIntent, CancelRefused, CancelAbort
  <2>3. CASE CancelInterrupted(m)
    BY <2>3 DEF CancelInterrupted
  <2>4. CASE CancelMissingBus(m)
    BY <2>4 DEF CancelMissingBus
  <2>5. QED
    BY <1>1, <2>1, <2>2, <2>3, <2>4 DEF Request, Cancel
<1>2. ASSUME NEW m \in Messages, Admit(m) PROVE BusInv'
  <2>1. CASE Execute(m)
    BY <2>1 DEF Execute
  <2>2. CASE ExecuteRefused(m)
    BY <2>2 DEF ExecuteRefused, Synthesize
  <2>3. CASE ExecuteClosed(m)
    BY <2>3 DEF ExecuteClosed, Synthesize
  <2>4. CASE AbandonReserved(m)
    BY <2>4 DEF AbandonReserved
  <2>5. CASE AcceptCommit(m) \/ Dispatched(m) \/ DispatchRefused(m)
    BY <2>5 DEF AcceptCommit, AcceptRecheck, Dispatched, DispatchRefused
  <2>6. CASE AcceptRefused(m)
    BY <2>6 DEF AcceptRefused, Synthesize
  <2>7. QED
    BY <1>2, <2>1, <2>2, <2>3, <2>4, <2>5, <2>6 DEF Admit
<1>3. ASSUME NEW m \in Messages, RunTurn(m) PROVE BusInv'
  <2>1. /\ UNCHANGED <<tasks, bus>>
        /\ pc[m] \in Running
        /\ \E p \in Running : pc' = [pc EXCEPT ![m] = p]
        /\ \A n \in Messages \ {m} : phase'[n] = phase[n]
    <3>1. CASE Enqueue(m) \/ WaitCancelled(m) \/ BeginTurn(m) \/ BeforeTurn(m)
               \/ SessionReady(m) \/ BeforeSend(m) \/ RecordIntent(m)
      BY <3>1 DEF Enqueue, WaitCancelled, BeginTurn, BeforeTurn, SessionReady,
         BeforeSend, RecordIntent
    <3>2. CASE Send(m) \/ SendThrows(m) \/ TurnCancelled(m) \/ TurnRefused(m)
      BY <3>2 DEF Send, SendThrows, TurnCancelled, TurnRefused
    <3>3. CASE TurnStopped(m) \/ TurnStoppedFails(m) \/ TurnUnresolved(m)
               \/ TurnUnresolvedFails(m) \/ Unlock(m)
      BY <3>3 DEF TurnStopped, TurnStoppedFails, TurnUnresolved,
         TurnUnresolvedFails, Unlock
    <3>4. QED
      BY <1>3, <3>1, <3>2, <3>3 DEF RunTurn
  <2>2. QED
    BY <2>1
<1>4. ASSUME NEW m \in Messages, Stream(m) PROVE BusInv'
  <2>1. /\ UNCHANGED <<phase, tasks, bus>>
        /\ pc[m] \in {"streaming", "observing"}
        /\ \E p \in {"streaming", "observing", "settled", "failing"} :
             pc' = [pc EXCEPT ![m] = p]
    BY <1>4 DEF Stream, StreamOver, StreamSucceeds, StreamFails, ObserveRead,
       ObserveWrite
  <2>2. QED
    BY <2>1
<1>5. ASSUME NEW m \in Messages, Publish(m) PROVE BusInv'
  <2>1. CASE Conclude(m)
    BY <2>1 DEF Conclude
  <2>2. CASE PublishIntent(m)
    BY <2>2 DEF PublishIntent
  <2>3. CASE PublishFails(m)
    BY <2>3 DEF PublishFails, Synthesize
  <2>4. CASE SdkSave(m)
    BY <2>4 DEF SdkSave, Settled, HonestInv
  <2>5. QED
    BY <1>5, <2>1, <2>2, <2>3, <2>4 DEF Publish
<1>6. ASSUME NEW m \in Messages, Recover(m) PROVE BusInv'
  <2>1. bus = {} /\ bus' = bus
    BY <1>6 DEF Recover, RecoverSkip, RecoverPublication, RecoverAttempt,
       ProcessInv, Attached
  <2>2. QED
    BY <2>1
<1>7. ASSUME NEW m \in Messages, Operate(m) PROVE BusInv'
  <2>1. CASE ResolveCommit(m)
    BY <2>1 DEF ResolveCommit, RecoverInv
  <2>2. CASE Prune(m)
    BY <2>2 DEF Prune, Prunable, FinalState
  <2>3. CASE ResolveStart(m) \/ ResolveFails(m)
    BY <2>3 DEF ResolveStart, ResolveFails
  <2>4. QED
    BY <1>7, <2>1, <2>2, <2>3 DEF Operate
<1>8. ASSUME NEW m \in Messages, RemoteFinish(m) PROVE BusInv'
  BY <1>8 DEF RemoteFinish
<1>9. CASE LifeCycle
  BY <1>9 DEF LifeCycle, Open, Recovered, Attach, Close, ReleaseOwner,
     CloseIncomplete, Terminate, CloseBinding, Crash, ClearMemory
<1>10. CASE UNCHANGED vars
  BY <1>10 DEF vars
<1>11. ASSUME NEW m \in Messages, Consume(m) PROVE BusInv'
  BY <1>11 DEF Consume, ConsumerFails, ConsumerEnds, Synthesize
<1>12. QED
  BY <1>1, <1>2, <1>3, <1>4, <1>5, <1>6, <1>7, <1>8, <1>9, <1>10, <1>11
     DEF Next, TurnStep

\* Recovery visits every row; a resolution keeps its row to itself.
LEMMA NextRecoverInv ==
  TypeOK /\ ProcessInv /\ PhaseInv /\ SendInv /\ StopInv /\ HonestInv
    /\ RowInv /\ BusInv /\ RecoverInv /\ [Next]_vars => RecoverInv'
<1> SUFFICES ASSUME TypeOK, ProcessInv, PhaseInv, SendInv, StopInv,
                    HonestInv, RowInv, BusInv, RecoverInv, [Next]_vars
             PROVE  RecoverInv'
  OBVIOUS
<1> USE NoneAssumption, ContextOfAssumption DEF TypeOK, ProcessInv, PhaseInv,
        SendInv, StopInv, RecoverInv, journal, agent, owner, turn, memory,
        SavePublication, TakeOwner, Finishing, Attached, Opened, Goto, Leave,
        EndTurn, ClearMemory
<1>1. ASSUME NEW m \in Messages, Request(m) PROVE RecoverInv'
  <2>1. CASE Reserve(m) \/ CancelIntent(m)
    BY <2>1 DEF Reserve, CancelIntent
  <2>2. CASE CancelRefused(m) \/ CancelAbort(m)
    BY <2>2 DEF CancelRefused, CancelAbort, Cancels
  <2>3. CASE CancelInterrupted(m)
    BY <2>3 DEF CancelInterrupted, Cancels, TakeDraft, BusInv, Running,
       Queued, Holding
  <2>4. CASE CancelMissingBus(m)
    BY <2>4 DEF CancelMissingBus, Cancels, Cancelable
  <2>5. QED
    BY <1>1, <2>1, <2>2, <2>3, <2>4 DEF Request, Cancel
<1>2. ASSUME NEW m \in Messages, Admit(m) PROVE RecoverInv'
  BY <1>2 DEF Admit, Execute, ExecuteRefused, ExecuteClosed, Synthesize,
     AbandonReserved, AcceptCommit, AcceptRefused, Dispatched, DispatchRefused,
     AcceptRecheck
<1>3. ASSUME NEW m \in Messages, RunTurn(m) PROVE RecoverInv'
  BY <1>3 DEF RunTurn, Enqueue, WaitCancelled, BeginTurn, BeforeTurn,
     SessionReady, BeforeSend, RecordIntent, Send, SendThrows,
     TurnCancelled, TurnRefused, TurnStopped, TurnStoppedFails,
     TurnUnresolved, TurnUnresolvedFails, Unlock
<1>4. ASSUME NEW m \in Messages, Stream(m) PROVE RecoverInv'
  BY <1>4 DEF Stream, StreamOver, StreamSucceeds, StreamFails, ObserveRead,
     ObserveWrite, TakeDraft, DropDraft, NoDraft
<1>5. ASSUME NEW m \in Messages, Publish(m) PROVE RecoverInv'
  BY <1>5 DEF Publish, Conclude, PublishIntent, PublishFails, Synthesize,
     SdkSave, Verdict, KnownUnsent, TakeDraft, Settled, DropDraft, NoDraft
<1>6. ASSUME NEW m \in Messages, Recover(m) PROVE RecoverInv'
  <2>1. /\ proc = "recovering" /\ m \in toRecover
        /\ toRecover' = toRecover \ {m}
        /\ UNCHANGED <<proc, resolving>>
    BY <1>6 DEF Recover, RecoverSkip, RecoverPublication, RecoverAttempt
  <2>2. /\ phase'[m] \in {"done", "unresolved"}
        /\ \A n \in Messages \ {m} : phase'[n] = phase[n] /\ tasks'[n] = tasks[n]
    BY <1>6 DEF Recover, RecoverSkip, RecoverPublication, RecoverAttempt,
       RecoverSkips, Settled
  <2>3. tasks'[m] # "open" /\ (tasks'[m] = "canceled" => phase'[m] = "done")
    <3>1. CASE RecoverSkip(m)
      BY <3>1 DEF RecoverSkip, RecoverSkips, RowInv, FinalState
    <3>2. CASE RecoverPublication(m)
      <4>1. /\ tasks'[m] = publication[m]
            /\ phase'[m] = IF stopped[m] THEN "done" ELSE "unresolved"
        BY <3>2 DEF RecoverPublication, Settled
      <4>2. publication[m] = "canceled" => stopped[m]
        BY DEF HonestInv
      <4>3. publication[m] # "open"
        BY <3>2 DEF RecoverPublication, Outcome, FinalState, Result
      <4>4. QED
        BY <4>1, <4>2, <4>3
    <3>3. CASE RecoverAttempt(m)
      BY <3>3 DEF RecoverAttempt
    <3>4. QED
      BY <1>6, <3>1, <3>2, <3>3 DEF Recover
  <2>4. QED
    BY <2>1, <2>2, <2>3
<1>7. ASSUME NEW m \in Messages, Operate(m) PROVE RecoverInv'
  BY <1>7 DEF Operate, ResolveStart, ResolveCommit, ResolveFails, Prune,
     TakeDraft, DropDraft, NoDraft, Prunable
<1>8. ASSUME NEW m \in Messages, RemoteFinish(m) PROVE RecoverInv'
  BY <1>8 DEF RemoteFinish
<1>9. CASE LifeCycle
  BY <1>9 DEF LifeCycle, RowInv, Open, Recovered, Attach, Close, ReleaseOwner,
     CloseIncomplete, Terminate, CloseBinding, Crash, NoDraft
<1>10. CASE UNCHANGED vars
  BY <1>10 DEF vars
<1>11. ASSUME NEW m \in Messages, Consume(m) PROVE RecoverInv'
  BY <1>11 DEF Consume, ConsumerFails, ConsumerEnds, Synthesize
<1>12. QED
  BY <1>1, <1>2, <1>3, <1>4, <1>5, <1>6, <1>7, <1>8, <1>9, <1>10, <1>11 DEF
     Next, TurnStep

\* Conversations stay with their context.
LEMMA NextMappingInv ==
  TypeOK /\ MappingInv /\ [Next]_vars => MappingInv'
<1> SUFFICES ASSUME TypeOK, MappingInv, [Next]_vars
             PROVE  MappingInv'
  OBVIOUS
<1> USE NoneAssumption, ContextOfAssumption DEF TypeOK, MappingInv, journal,
        agent, owner, turn, memory, SavePublication, TakeOwner, CanMap, Goto,
        Leave, EndTurn, ClearMemory
<1>1. ASSUME NEW m \in Messages, Request(m) PROVE MappingInv'
  BY <1>1 DEF Request, Reserve, CancelIntent, Cancel, CancelRefused,
     CancelAbort, CancelInterrupted, CancelMissingBus, Cancels, Cancelable,
     TakeDraft
<1>2. ASSUME NEW m \in Messages, Admit(m) PROVE MappingInv'
  BY <1>2 DEF Admit, Execute, ExecuteRefused, ExecuteClosed, Synthesize,
     AbandonReserved, AcceptCommit, AcceptRefused, Dispatched, DispatchRefused,
     AcceptRecheck
<1>3. ASSUME NEW m \in Messages, RunTurn(m) PROVE MappingInv'
  <2>1. CASE SessionReady(m)
    BY <1>3, <2>1 DEF SessionReady
  <2>2. CASE Send(m) \/ SendThrows(m)
    BY <1>3, <2>2 DEF Send, SendThrows
  <2>3. CASE Enqueue(m) \/ WaitCancelled(m) \/ BeginTurn(m) \/ BeforeTurn(m)
             \/ BeforeSend(m) \/ RecordIntent(m) \/ TurnCancelled(m) \/
             TurnRefused(m) \/ TurnStopped(m) \/ TurnStoppedFails(m) \/
             TurnUnresolved(m) \/ TurnUnresolvedFails(m) \/ Unlock(m)
    BY <1>3, <2>3 DEF Enqueue, WaitCancelled, BeginTurn, BeforeTurn,
       BeforeSend, RecordIntent, TurnCancelled, TurnRefused, TurnStopped,
       TurnStoppedFails, TurnUnresolved, TurnUnresolvedFails, Unlock,
       Quarantine
  <2>4. QED
    BY <1>3, <2>1, <2>2, <2>3 DEF RunTurn
<1>4. ASSUME NEW m \in Messages, Stream(m) PROVE MappingInv'
  BY <1>4 DEF Stream, StreamOver, StreamSucceeds, StreamFails, ObserveRead,
     ObserveWrite, TakeDraft, DropDraft, NoDraft
<1>5. ASSUME NEW m \in Messages, Publish(m) PROVE MappingInv'
  BY <1>5 DEF Publish, Conclude, PublishIntent, PublishFails, Synthesize,
     SdkSave, Verdict, KnownUnsent, TakeDraft, Settled, DropDraft, NoDraft
<1>6. ASSUME NEW m \in Messages, Recover(m) PROVE MappingInv'
  BY <1>6 DEF Recover, RecoverSkip, RecoverPublication, RecoverAttempt,
     Settled, RecoveredStop, StopRecorded, KnownUnsent, RecoverSkips
<1>7. ASSUME NEW m \in Messages, Operate(m) PROVE MappingInv'
  BY <1>7 DEF Operate, ResolveStart, ResolveCommit, ResolveFails, Prune,
     TakeDraft, DropDraft, NoDraft, Prunable
<1>8. ASSUME NEW m \in Messages, RemoteFinish(m) PROVE MappingInv'
  BY <1>8 DEF RemoteFinish
<1>9. CASE LifeCycle
  BY <1>9 DEF LifeCycle, Open, Recovered, Attach, Close, ReleaseOwner,
     CloseIncomplete, Terminate, CloseBinding, Crash, NoDraft
<1>10. CASE UNCHANGED vars
  BY <1>10 DEF vars
<1>11. ASSUME NEW m \in Messages, Consume(m) PROVE MappingInv'
  BY <1>11 DEF Consume, ConsumerFails, ConsumerEnds, Synthesize
<1>12. QED
  BY <1>1, <1>2, <1>3, <1>4, <1>5, <1>6, <1>7, <1>8, <1>9, <1>10, <1>11 DEF
     Next, TurnStep

\* The fence holds: see FenceInv for its three layers.
LEMMA NextFenceInv ==
  TypeOK /\ ProcessInv /\ LockInv /\ PhaseInv /\ SendInv /\ StopInv /\
    BusInv /\ RecoverInv /\ FenceInv /\ [Next]_vars => FenceInv'
<1> SUFFICES ASSUME TypeOK, ProcessInv, LockInv, PhaseInv, SendInv, StopInv,
                    BusInv, RecoverInv, FenceInv, [Next]_vars
             PROVE  FenceInv'
  OBVIOUS
<1> USE NoneAssumption, ContextOfAssumption DEF TypeOK, ProcessInv, LockInv,
        PhaseInv, SendInv, StopInv, RecoverInv, FenceInv, journal, agent,
        owner, turn, memory, SavePublication, TakeOwner, Unsent, Finishing,
        Attached, Opened, Holding, Queued, Peers, Available, Goto, Leave,
        EndTurn, ClearMemory
<1>1. ASSUME NEW m \in Messages, Request(m) PROVE FenceInv'
  <2>1. CASE Reserve(m) \/ CancelIntent(m)
    BY <2>1 DEF Reserve, CancelIntent
  <2>2. CASE CancelRefused(m) \/ CancelAbort(m)
    BY <2>2 DEF CancelRefused, CancelAbort, Cancels
  <2>3. CASE CancelInterrupted(m)
    <3>1. /\ pc[m] = "idle" /\ pc' = [pc EXCEPT ![m] = "reducing"]
          /\ UNCHANGED <<phase, remote, proc, quarantine>>
      BY <2>3 DEF CancelInterrupted
    <3>2. phase[m] = "done"
      BY <2>3 DEF CancelInterrupted, BusInv, Running
    <3>3. remote[m] # "running"
      BY <3>2
    <3>4. QED
      BY <3>1, <3>3
  <2>4. CASE CancelMissingBus(m)
    BY <2>4 DEF CancelMissingBus, Cancels, Cancelable
  <2>5. QED
    BY <1>1, <2>1, <2>2, <2>3, <2>4 DEF Request, Cancel
<1>2. ASSUME NEW m \in Messages, Admit(m) PROVE FenceInv'
  BY <1>2 DEF Admit, Execute, ExecuteRefused, ExecuteClosed, Synthesize,
     AbandonReserved, AcceptCommit, AcceptRefused, Dispatched, DispatchRefused,
     AcceptRecheck
<1>3. ASSUME NEW m \in Messages, RunTurn(m) PROVE FenceInv'
  <2>1. CASE BeforeTurn(m)
    <3>1. /\ pc[m] = "admitted"
          /\ pc' = [pc EXCEPT ![m] = "preparing"]
          /\ phase' = [phase EXCEPT ![m] = "preparing"]
          /\ UNCHANGED <<remote, proc, quarantine>>
          /\ Available(ContextOf[m])
      BY <2>1 DEF BeforeTurn
    <3>2. ASSUME NEW n \in Peers(m) PROVE remote[n] # "running"
      <4>1. proc \in Opened /\ ContextOf[n] \notin quarantine
        BY <3>1
      <4>2. n # m => pc[n] \notin Holding
        BY <3>1
      <4>3. phase[n] # "unresolved"
        BY <3>1
      <4>4. QED
        BY <3>1, <4>1, <4>2, <4>3
    <3>3. QED
      BY <3>1, <3>2
  <2>2. CASE Send(m) \/ SendThrows(m)
    BY <1>3, <2>2 DEF Send, SendThrows
  <2>3. CASE TurnUnresolved(m) \/ TurnUnresolvedFails(m)
    BY <1>3, <2>3 DEF TurnUnresolved, TurnUnresolvedFails, Quarantine
  <2>4. CASE TurnStopped(m)
    BY <1>3, <2>4 DEF TurnStopped
  <2>5. CASE Enqueue(m) \/ WaitCancelled(m) \/ BeginTurn(m) \/
             SessionReady(m) \/ BeforeSend(m) \/ RecordIntent(m) \/
             TurnCancelled(m) \/ TurnRefused(m) \/ TurnStoppedFails(m) \/
             Unlock(m)
    BY <1>3, <2>5 DEF Enqueue, WaitCancelled, BeginTurn, SessionReady,
       BeforeSend, RecordIntent, TurnCancelled, TurnRefused,
       TurnStoppedFails, Unlock
  <2>6. QED
    BY <1>3, <2>1, <2>2, <2>3, <2>4, <2>5 DEF RunTurn
<1>4. ASSUME NEW m \in Messages, Stream(m) PROVE FenceInv'
  BY <1>4 DEF Stream, StreamOver, StreamSucceeds, StreamFails, ObserveRead,
     ObserveWrite, TakeDraft, DropDraft, NoDraft
<1>5. ASSUME NEW m \in Messages, Publish(m) PROVE FenceInv'
  <2>1. CASE Conclude(m)
    BY <2>1 DEF Conclude, Verdict, KnownUnsent, TakeDraft
  <2>2. CASE PublishIntent(m)
    BY <2>2 DEF PublishIntent, DropDraft, NoDraft
  <2>3. CASE PublishFails(m)
    <3>1. /\ pc[m] = "reducing" /\ pc' = [pc EXCEPT ![m] = "idle"]
          /\ UNCHANGED <<phase, remote, proc, quarantine>>
      BY <2>3 DEF PublishFails
    <3>2. QED
      BY <3>1
  <2>4. CASE SdkSave(m)
    BY <2>4 DEF SdkSave, Settled
  <2>5. QED
    BY <1>5, <2>1, <2>2, <2>3, <2>4 DEF Publish
<1>6. ASSUME NEW m \in Messages, Recover(m) PROVE FenceInv'
  BY <1>6 DEF Recover, RecoverSkip, RecoverPublication, RecoverAttempt,
     Settled, RecoveredStop, StopRecorded, KnownUnsent, RecoverSkips
<1>7. ASSUME NEW m \in Messages, Operate(m) PROVE FenceInv'
  BY <1>7 DEF Operate, ResolveStart, ResolveCommit, ResolveFails, Prune,
     TakeDraft, DropDraft, NoDraft, Prunable
<1>8. ASSUME NEW m \in Messages, RemoteFinish(m) PROVE FenceInv'
  BY <1>8 DEF RemoteFinish
<1>9. CASE LifeCycle
  BY <1>9 DEF LifeCycle, Open, Recovered, Attach, Close, ReleaseOwner,
     CloseIncomplete, Terminate, CloseBinding, Crash, NoDraft
<1>10. CASE UNCHANGED vars
  BY <1>10 DEF vars
<1>11. ASSUME NEW m \in Messages, Consume(m) PROVE FenceInv'
  BY <1>11 DEF Consume, ConsumerFails, ConsumerEnds, Synthesize
<1>12. QED
  BY <1>1, <1>2, <1>3, <1>4, <1>5, <1>6, <1>7, <1>8, <1>9, <1>10, <1>11 DEF
     Next, TurnStep

\* A row never loses its task, and what settles or fences a row has a task to
\* show for it.
LEMMA NextRowInv ==
  TypeOK /\ PhaseInv /\ SendInv /\ HonestInv /\ RowInv /\ BusInv /\ RecoverInv
    /\ [Next]_vars => RowInv'
<1> SUFFICES ASSUME TypeOK, PhaseInv, SendInv, HonestInv, RowInv, BusInv,
                    RecoverInv, [Next]_vars
             PROVE  RowInv'
  OBVIOUS
<1> USE NoneAssumption DEF TypeOK, RowInv, Result, Outcome, FinalState, journal,
        agent, owner, turn, memory, Goto, Leave, EndTurn
<1>1. ASSUME NEW m \in Messages, Request(m) PROVE RowInv'
  <2>1. CASE Reserve(m)
    BY <2>1 DEF Reserve, SendInv
  <2>2. CASE CancelIntent(m) \/ CancelRefused(m) \/ CancelAbort(m)
    BY <2>2 DEF CancelIntent, CancelRefused, CancelAbort
  <2>3. CASE CancelInterrupted(m)
    BY <2>3 DEF CancelInterrupted, BusInv, Running, Queued, Holding
  <2>4. CASE CancelMissingBus(m)
    BY <2>4 DEF CancelMissingBus, Cancelable
  <2>5. QED
    BY <1>1, <2>1, <2>2, <2>3, <2>4 DEF Request, Cancel
<1>2. ASSUME NEW m \in Messages, Admit(m) PROVE RowInv'
  <2>1. CASE Execute(m) \/ ExecuteRefused(m) \/ ExecuteClosed(m)
             \/ AbandonReserved(m) \/ AcceptRefused(m)
    BY <2>1 DEF Execute, ExecuteRefused, ExecuteClosed, AbandonReserved,
       AcceptRefused, Synthesize, PhaseInv
  <2>2. CASE AcceptCommit(m) \/ Dispatched(m) \/ DispatchRefused(m)
    BY <2>2 DEF AcceptCommit, AcceptRecheck, Dispatched, DispatchRefused,
       PhaseInv, HonestInv
  <2>3. QED
    BY <1>2, <2>1, <2>2 DEF Admit
<1>3. ASSUME NEW m \in Messages, RunTurn(m) PROVE RowInv'
  <2>1. CASE Enqueue(m) \/ WaitCancelled(m) \/ BeginTurn(m) \/ BeforeTurn(m)
             \/ SessionReady(m) \/ BeforeSend(m) \/ RecordIntent(m)
    BY <2>1 DEF Enqueue, WaitCancelled, BeginTurn, BeforeTurn, SessionReady,
       BeforeSend, RecordIntent, PhaseInv
  <2>2. CASE Send(m) \/ SendThrows(m) \/ TurnCancelled(m) \/ TurnRefused(m)
             \/ TurnStoppedFails(m) \/ Unlock(m)
    BY <2>2 DEF Send, SendThrows, TurnCancelled, TurnRefused, TurnStoppedFails,
       Unlock
  <2>3. CASE TurnStopped(m) \/ TurnUnresolved(m) \/ TurnUnresolvedFails(m)
    BY <2>3 DEF TurnStopped, TurnUnresolved, TurnUnresolvedFails, Quarantine,
       PhaseInv, HonestInv
  <2>4. QED
    BY <1>3, <2>1, <2>2, <2>3 DEF RunTurn
<1>4. ASSUME NEW m \in Messages, Stream(m) PROVE RowInv'
  <2>1. /\ UNCHANGED <<phase, publication, tasks>>
        /\ pc[m] \in {"streaming", "observing"}
        /\ \A n \in Messages \ {m} : pc'[n] = pc[n]
    BY <1>4 DEF Stream, StreamOver, StreamSucceeds, StreamFails, ObserveRead,
       ObserveWrite
  <2>2. QED
    BY <2>1
<1>5. ASSUME NEW m \in Messages, Publish(m) PROVE RowInv'
  <2>1. CASE Conclude(m)
    BY <2>1 DEF Conclude, PhaseInv
  <2>2. CASE PublishIntent(m)
    BY <2>2 DEF PublishIntent, SavePublication, PhaseInv
  <2>3. CASE PublishFails(m)
    BY <2>3 DEF PublishFails, Synthesize, PhaseInv
  <2>4. CASE SdkSave(m)
    BY <2>4 DEF SdkSave, Settled, PhaseInv, HonestInv
  <2>5. QED
    BY <1>5, <2>1, <2>2, <2>3, <2>4 DEF Publish
<1>6. ASSUME NEW m \in Messages, Recover(m) PROVE RowInv'
  <2>1. CASE RecoverSkip(m)
    BY <2>1 DEF RecoverSkip
  <2>2. CASE RecoverPublication(m)
    BY <2>2 DEF RecoverPublication, Settled, HonestInv
  <2>3. CASE RecoverAttempt(m)
    <3>1. StopRecorded(m) => RecoveredStop(m)
      BY DEF RecoveredStop
    <3>2. /\ phase[m] # "none" /\ pc' = pc
          /\ phase' = [phase EXCEPT ![m] = Settled(RecoveredStop(m))]
          /\ \/ StopRecorded(m) /\ tasks' = [tasks EXCEPT ![m] = "completed"]
             \/ tasks' = [tasks EXCEPT ![m] = "failed"]
          /\ \A n \in Messages \ {m} : publication'[n] = publication[n]
      BY <2>3 DEF RecoverAttempt, SavePublication, RecoverInv
    <3>3. QED
      BY <3>1, <3>2 DEF Settled
  <2>4. QED
    BY <1>6, <2>1, <2>2, <2>3 DEF Recover
<1>7. ASSUME NEW m \in Messages, Operate(m) PROVE RowInv'
  <2>1. CASE ResolveCommit(m)
    BY <2>1 DEF ResolveCommit, SavePublication
  <2>2. CASE Prune(m)
    BY <2>2 DEF Prune
  <2>3. CASE ResolveStart(m) \/ ResolveFails(m)
    BY <2>3 DEF ResolveStart, ResolveFails
  <2>4. QED
    BY <1>7, <2>1, <2>2, <2>3 DEF Operate
<1>8. ASSUME NEW m \in Messages, RemoteFinish(m) PROVE RowInv'
  BY <1>8 DEF RemoteFinish
<1>9. CASE LifeCycle
  BY <1>9 DEF LifeCycle, Open, Recovered, Attach, Close, ReleaseOwner,
     CloseIncomplete, Terminate, CloseBinding, Crash, ClearMemory
<1>10. CASE UNCHANGED vars
  BY <1>10 DEF vars
<1>11. ASSUME NEW m \in Messages, Consume(m) PROVE RowInv'
  <2>1. CASE ConsumerFails(m)
    BY <2>1 DEF ConsumerFails, Synthesize, PhaseInv, Running, Queued, Holding
  <2>2. CASE ConsumerEnds(m)
    BY <2>2 DEF ConsumerEnds
  <2>3. QED
    BY <1>11, <2>1, <2>2 DEF Consume
<1>12. QED
  BY <1>1, <1>2, <1>3, <1>4, <1>5, <1>6, <1>7, <1>8, <1>9, <1>10, <1>11
     DEF Next, TurnStep

\* A turn gives its attempt up only when it is settled, fenced, never accepted,
\* or on the list that keeps the owner.
LEMMA NextReleaseInv ==
  TypeOK /\ ProcessInv /\ PhaseInv /\ RowInv /\ RecoverInv
    /\ ReleaseInv /\ [Next]_vars => ReleaseInv'
<1> SUFFICES ASSUME TypeOK, ProcessInv, PhaseInv, RowInv, RecoverInv,
                    ReleaseInv, [Next]_vars
             PROVE  ReleaseInv'
  OBVIOUS
<1> USE NoneAssumption, ContextOfAssumption DEF TypeOK, ReleaseInv, journal,
        agent, owner, turn, memory, Attached, Opened, Goto, Leave, EndTurn
<1>1. ASSUME NEW m \in Messages, Request(m) PROVE ReleaseInv'
  BY <1>1 DEF Request, Reserve, CancelIntent, Cancel, CancelRefused,
     CancelAbort, CancelInterrupted, CancelMissingBus, Cancels, Cancelable,
     TakeDraft
<1>2. ASSUME NEW m \in Messages, Admit(m) PROVE ReleaseInv'
  <2>1. CASE Execute(m)
    BY <2>1 DEF Execute
  <2>2. CASE AcceptCommit(m) \/ Dispatched(m) \/ DispatchRefused(m)
    BY <2>2 DEF AcceptCommit, AcceptRecheck, Dispatched, DispatchRefused
  <2>3. CASE ExecuteRefused(m)
    BY <2>3 DEF ExecuteRefused, Synthesize, PhaseInv, RowInv
  <2>4. CASE ExecuteClosed(m)
    BY <2>4 DEF ExecuteClosed, Synthesize, PhaseInv, RowInv
  <2>5. CASE AbandonReserved(m)
    BY <2>5 DEF AbandonReserved, PhaseInv, RowInv
  <2>6. CASE AcceptRefused(m)
    BY <2>6 DEF AcceptRefused, Synthesize, PhaseInv, RowInv
  <2>7. QED
    BY <1>2, <2>1, <2>2, <2>3, <2>4, <2>5, <2>6 DEF Admit
<1>3. ASSUME NEW m \in Messages, RunTurn(m) PROVE ReleaseInv'
  BY <1>3 DEF RunTurn, Enqueue, WaitCancelled, BeginTurn, BeforeTurn,
     SessionReady, BeforeSend, RecordIntent, Send, SendThrows,
     TurnCancelled, TurnRefused, TurnStopped, TurnStoppedFails,
     TurnUnresolved, TurnUnresolvedFails, Unlock
<1>4. ASSUME NEW m \in Messages, Stream(m) PROVE ReleaseInv'
  <2>1. /\ UNCHANGED <<phase, tasks, finalizationFailures, proc>>
        /\ \E p \in {"streaming", "observing", "settled", "failing"} :
             pc' = [pc EXCEPT ![m] = p]
    BY <1>4 DEF Stream, StreamOver, StreamSucceeds, StreamFails, ObserveRead,
       ObserveWrite
  <2>2. QED
    BY <2>1
<1>5. ASSUME NEW m \in Messages, Publish(m) PROVE ReleaseInv'
  <2>1. CASE Conclude(m)
    BY <2>1 DEF Conclude
  <2>2. CASE PublishIntent(m)
    BY <2>2 DEF PublishIntent, SavePublication
  <2>3. CASE PublishFails(m)
    BY <2>3 DEF PublishFails, Synthesize
  <2>4. CASE SdkSave(m)
    BY <2>4 DEF SdkSave, Settled, Outcome, FinalState, Result, PhaseInv
  <2>5. QED
    BY <1>5, <2>1, <2>2, <2>3, <2>4 DEF Publish
<1>6. ASSUME NEW m \in Messages, Recover(m) PROVE ReleaseInv'
  BY <1>6 DEF Recover, RecoverSkip, RecoverPublication, RecoverAttempt
<1>7. ASSUME NEW m \in Messages, Operate(m) PROVE ReleaseInv'
  <2>1. CASE ResolveCommit(m)
    BY <2>1 DEF ResolveCommit, FinalState
  <2>2. CASE Prune(m)
    BY <2>2 DEF Prune
  <2>3. CASE ResolveStart(m) \/ ResolveFails(m)
    BY <2>3 DEF ResolveStart, ResolveFails
  <2>4. QED
    BY <1>7, <2>1, <2>2, <2>3 DEF Operate
<1>8. ASSUME NEW m \in Messages, RemoteFinish(m) PROVE ReleaseInv'
  BY <1>8 DEF RemoteFinish
<1>9. CASE LifeCycle
  BY <1>9 DEF LifeCycle, Open, TakeOwner, Recovered, Attach, Close,
     ReleaseOwner, CloseIncomplete, Terminate, CloseBinding, Crash, RecoverInv
<1>10. CASE UNCHANGED vars
  BY <1>10 DEF vars
<1>11. ASSUME NEW m \in Messages, Consume(m) PROVE ReleaseInv'
  BY <1>11 DEF Consume, ConsumerFails, ConsumerEnds, Synthesize
<1>12. QED
  BY <1>1, <1>2, <1>3, <1>4, <1>5, <1>6, <1>7, <1>8, <1>9, <1>10, <1>11
     DEF Next, TurnStep

\* The initial state satisfies every part of the invariant.
LEMMA InitInv == Init => IInv
  BY InitType, NoneAssumption, ContextOfAssumption
     DEF Init, IInv, ProcessInv, LockInv, PhaseInv, SendInv, StopInv,
         HonestInv, RowInv, BusInv, RecoverInv, ReleaseInv, FenceInv,
         MappingInv, Attached, Opened, Queued,
         Holding, Unsent, Finishing, Peers, NoDraft, Result

\* Every step preserves it.
LEMMA NextInv == IInv /\ [Next]_vars => IInv'
  BY NextType, NextProcessInv, NextLockInv, NextPhaseInv, NextSendInv,
     NextStopInv, NextHonestInv, NextRowInv, NextBusInv, NextRecoverInv,
     NextReleaseInv, NextMappingInv, NextFenceInv
     DEF IInv

\* The inductive invariant holds in every reachable state: the journal, the
\* lock and the quarantine together fence whatever may still be running.
THEOREM Invariance == Spec => []IInv
<1>1. QED
  BY InitInv, NextInv, PTL DEF Spec

\* No message is ever submitted twice, whatever the retries, crashes,
\* recoveries and prunings.
THEOREM SubmittedOnce == Spec => []AtMostOneSend
<1>1. IInv => AtMostOneSend
  BY DEF IInv, SendInv, AtMostOneSend
<1>2. QED
  BY <1>1, Invariance, PTL

\* Two inputs never run in one conversation at a time.
THEOREM ConversationExclusive == Spec => []NoOverlap
<1>1. IInv => NoOverlap
  <2> SUFFICES ASSUME IInv, NEW m \in Messages, NEW n \in Messages, m # n,
                      remote[m] = "running", remote[n] = "running",
                      mapping[ContextOf[m]] = mapping[ContextOf[n]]
               PROVE  FALSE
    BY DEF NoOverlap
  <2>1. ContextOf[m] = ContextOf[n]
    BY ContextOfAssumption DEF IInv, MappingInv
  <2>2. n \in Peers(m)
    BY <2>1 DEF Peers
  <2>3. QED
    BY <2>2 DEF IInv, FenceInv
<1>2. QED
  BY <1>1, Invariance, PTL

\* The fence of an attempt is released only after its remote turn is over.
THEOREM SettledIsStopped == Spec => []SettledMeansStopped
<1>1. IInv => SettledMeansStopped
  BY DEF IInv, StopInv, SettledMeansStopped
<1>2. QED
  BY <1>1, Invariance, PTL

\* Completed and interrupted tasks have nothing running behind them; a canceled
\* one only while its turn goes on without a consumer or the owner is kept.
THEOREM OutcomeIsHonest == Spec => []HonestOutcome
<1>1. IInv => HonestOutcome
  BY DEF IInv, TypeOK, StopInv, HonestInv, HonestOutcome, Result
<1>2. QED
  BY <1>1, Invariance, PTL

\* A settled attempt with a final task is never rewritten, and one with an
\* interrupted task is rewritten by its cancellation only.
THEOREM SettledIsFinal == Spec => SettledForever
<1> DEFINE Kept == \A m \in Messages : phase[m] = "done" =>
    \/ phase'[m] = "none" /\ tasks'[m] = "none" /\ tasks[m] \in FinalState
    \/ phase'[m] = "done" /\ tasks'[m] = tasks[m]
    \/ /\ tasks[m] = "interrupted"
       /\ \/ phase'[m] = "done" /\ tasks'[m] = "canceled"
          \/ /\ phase'[m] = "publishing" /\ publication'[m] = "canceled"
             /\ stopped'[m] /\ tasks'[m] = tasks[m]
<1>1. IInv /\ [Next]_vars => Kept
  <2> SUFFICES ASSUME IInv, [Next]_vars PROVE Kept
    OBVIOUS
  <2> USE DEF IInv, TypeOK, PhaseInv, RecoverInv, journal, agent, owner, turn,
          memory, SavePublication, TakeOwner
  <2>1. ASSUME NEW m \in Messages, Request(m) PROVE Kept
    <3>1. CASE Reserve(m) \/ CancelIntent(m)
      BY <3>1 DEF Reserve, CancelIntent
    <3>2. CASE CancelRefused(m) \/ CancelAbort(m) \/ CancelInterrupted(m)
      BY <3>2 DEF CancelRefused, CancelAbort, CancelInterrupted
    <3>3. CASE CancelMissingBus(m)
      BY <3>3 DEF CancelMissingBus, Cancelable, RowInv, FinalState
    <3>4. QED
      BY <2>1, <3>1, <3>2, <3>3 DEF Request, Cancel
  <2>2. ASSUME NEW m \in Messages, Admit(m) PROVE Kept
    BY <2>2 DEF Admit, Execute, ExecuteRefused, ExecuteClosed, Synthesize,
       AbandonReserved, AcceptCommit, AcceptRefused, Dispatched,
       DispatchRefused, AcceptRecheck
  <2>3. ASSUME NEW m \in Messages, RunTurn(m) PROVE Kept
    BY <2>3 DEF RunTurn, Enqueue, WaitCancelled, BeginTurn, BeforeTurn,
       SessionReady, BeforeSend, RecordIntent, Send, SendThrows,
       TurnCancelled, TurnRefused, TurnStopped, TurnStoppedFails,
       TurnUnresolved, TurnUnresolvedFails, Unlock, Goto, Leave
  <2>4. ASSUME NEW m \in Messages, Stream(m) PROVE Kept
    BY <2>4 DEF Stream, StreamOver, StreamSucceeds, StreamFails,
       ObserveRead, ObserveWrite
  <2>5. ASSUME NEW m \in Messages, Publish(m) PROVE Kept
    <3>1. CASE Conclude(m)
      BY <3>1 DEF Conclude
    <3>2. CASE PublishIntent(m)
      <4>1. phase[m] = "done" =>
              outcome[m] = "canceled" /\ tasks[m] = "interrupted" /\ draft[m].stopped
        BY <3>2 DEF PublishIntent, StopInv
      <4>2. QED
        BY <3>2, <4>1 DEF PublishIntent
    <3>3. CASE PublishFails(m)
      BY <3>3 DEF PublishFails, Synthesize
    <3>4. CASE SdkSave(m)
      BY <3>4 DEF SdkSave
    <3>5. QED
      BY <2>5, <3>1, <3>2, <3>3, <3>4 DEF Publish
  <2>6. ASSUME NEW m \in Messages, Recover(m) PROVE Kept
    BY <2>6 DEF Recover, RecoverSkip, RecoverPublication, RecoverAttempt,
       RecoverSkips, Settled
  <2>7. ASSUME NEW m \in Messages, Operate(m) PROVE Kept
    <3>1. CASE ResolveStart(m)
      BY <3>1 DEF ResolveStart
    <3>2. CASE ResolveCommit(m)
      <4>1. phase[m] = "unresolved"
        BY <3>2, NoneAssumption DEF ResolveCommit
      <4>2. QED
        BY <3>2, <4>1 DEF ResolveCommit
    <3>3. CASE Prune(m)
      BY <3>3 DEF Prune, Prunable
    <3>4. CASE ResolveFails(m)
      BY <3>4 DEF ResolveFails
    <3>5. QED
      BY <2>7, <3>1, <3>2, <3>3, <3>4 DEF Operate
  <2>8. ASSUME NEW m \in Messages, RemoteFinish(m) PROVE Kept
    BY <2>8 DEF RemoteFinish
  <2>9. ASSUME LifeCycle PROVE Kept
    BY <2>9 DEF LifeCycle, Open, Recovered, Attach, Close, ReleaseOwner,
       CloseIncomplete, Terminate, CloseBinding, Crash
  <2>10. CASE UNCHANGED vars
    BY <2>10 DEF vars
  <2>11. ASSUME NEW m \in Messages, Consume(m) PROVE Kept
    BY <2>11 DEF Consume, ConsumerFails, ConsumerEnds, Synthesize
  <2>12. QED
    BY <2>1, <2>2, <2>3, <2>4, <2>5, <2>6, <2>7, <2>8, <2>9, <2>10, <2>11 DEF
       Next, TurnStep
<1>2. QED
  BY <1>1, Invariance, PTL DEF Spec, SettledForever

\* A context keeps the conversation it was first given.
THEOREM ConversationIsStable == Spec => ConversationStable
<1> DEFINE Kept == \A x \in Contexts : mapping[x] # None => mapping'[x] = mapping[x]
<1>1. TypeOK /\ [Next]_vars => Kept
  <2> SUFFICES ASSUME TypeOK, [Next]_vars PROVE Kept
    OBVIOUS
  <2> USE ContextOfAssumption DEF TypeOK, journal, agent, owner, turn, memory,
          SavePublication, TakeOwner
  <2>1. ASSUME NEW m \in Messages, Request(m) PROVE Kept
    BY <2>1 DEF Request, Reserve, CancelIntent, Cancel, CancelRefused,
       CancelAbort, CancelInterrupted, CancelMissingBus, Cancels, Cancelable,
       TakeDraft
  <2>2. ASSUME NEW m \in Messages, Admit(m) PROVE Kept
    BY <2>2 DEF Admit, Execute, ExecuteRefused, ExecuteClosed, Synthesize,
       AbandonReserved, AcceptCommit, AcceptRefused, Dispatched,
       DispatchRefused
  <2>3. ASSUME NEW m \in Messages, RunTurn(m) PROVE Kept
    BY <2>3 DEF RunTurn, Enqueue, WaitCancelled, BeginTurn, BeforeTurn,
       SessionReady, BeforeSend, RecordIntent, Send, SendThrows,
       TurnCancelled, TurnRefused, TurnStopped, TurnStoppedFails,
       TurnUnresolved, TurnUnresolvedFails, Unlock, CanMap
  <2>4. ASSUME NEW m \in Messages, Stream(m) PROVE Kept
    BY <2>4 DEF Stream, StreamOver, StreamSucceeds, StreamFails,
       ObserveRead, ObserveWrite
  <2>5. ASSUME NEW m \in Messages, Publish(m) PROVE Kept
    BY <2>5 DEF Publish, Conclude, PublishIntent, PublishFails, Synthesize,
       SdkSave
  <2>6. ASSUME NEW m \in Messages, Recover(m) PROVE Kept
    BY <2>6 DEF Recover, RecoverSkip, RecoverPublication, RecoverAttempt
  <2>7. ASSUME NEW m \in Messages, Operate(m) PROVE Kept
    BY <2>7 DEF Operate, ResolveStart, ResolveCommit, ResolveFails, Prune
  <2>8. ASSUME NEW m \in Messages, RemoteFinish(m) PROVE Kept
    BY <2>8 DEF RemoteFinish
  <2>9. ASSUME LifeCycle PROVE Kept
    BY <2>9 DEF LifeCycle, Open, Recovered, Attach, Close, ReleaseOwner,
       CloseIncomplete, Terminate, CloseBinding, Crash
  <2>10. CASE UNCHANGED vars
    BY <2>10 DEF vars
  <2>11. ASSUME NEW m \in Messages, Consume(m) PROVE Kept
    BY <2>11 DEF Consume, ConsumerFails, ConsumerEnds, Synthesize
  <2>12. QED
    BY <2>1, <2>2, <2>3, <2>4, <2>5, <2>6, <2>7, <2>8, <2>9, <2>10, <2>11 DEF
       Next, TurnStep
<1>2. QED
  BY <1>1, TypeCorrect, PTL DEF Spec, ConversationStable

\* Only finished work leaves the journal.
THEOREM UnresolvedIsKept == Spec => NothingForgotten
<1> DEFINE Kept == \A m \in Messages : phase[m] # "none" /\ phase'[m] = "none" =>
                     remote[m] # "running" /\ tasks[m] \in FinalState
<1>1. IInv /\ [Next]_vars => Kept
  <2> SUFFICES ASSUME IInv, [Next]_vars PROVE Kept
    OBVIOUS
  <2> USE DEF IInv, TypeOK, StopInv, journal, agent, owner, turn, memory,
          SavePublication, TakeOwner
  <2>1. ASSUME NEW m \in Messages, Request(m) PROVE Kept
    BY <2>1 DEF Request, Reserve, CancelIntent, Cancel, CancelRefused,
       CancelAbort, CancelInterrupted, CancelMissingBus, Cancels, Cancelable,
       TakeDraft
  <2>2. ASSUME NEW m \in Messages, Admit(m) PROVE Kept
    BY <2>2 DEF Admit, Execute, ExecuteRefused, ExecuteClosed, Synthesize,
       AbandonReserved, AcceptCommit, AcceptRefused, Dispatched,
       DispatchRefused
  <2>3. ASSUME NEW m \in Messages, RunTurn(m) PROVE Kept
    BY <2>3 DEF RunTurn, Enqueue, WaitCancelled, BeginTurn, BeforeTurn,
       SessionReady, BeforeSend, RecordIntent, Send, SendThrows,
       TurnCancelled, TurnRefused, TurnStopped, TurnStoppedFails,
       TurnUnresolved, TurnUnresolvedFails, Unlock
  <2>4. ASSUME NEW m \in Messages, Stream(m) PROVE Kept
    BY <2>4 DEF Stream, StreamOver, StreamSucceeds, StreamFails,
       ObserveRead, ObserveWrite
  <2>5. ASSUME NEW m \in Messages, Publish(m) PROVE Kept
    BY <2>5 DEF Publish, Conclude, PublishIntent, PublishFails, Synthesize,
       SdkSave, Settled
  <2>6. ASSUME NEW m \in Messages, Recover(m) PROVE Kept
    BY <2>6 DEF Recover, RecoverSkip, RecoverPublication, RecoverAttempt,
       Settled
  <2>7. ASSUME NEW m \in Messages, Operate(m) PROVE Kept
    <3>1. CASE ResolveStart(m)
      BY <3>1 DEF ResolveStart
    <3>2. CASE ResolveCommit(m)
      BY <3>2 DEF ResolveCommit
    <3>3. CASE Prune(m)
      <4>1. remote[m] # "running" /\ tasks[m] \in FinalState
        BY <3>3 DEF Prune, Prunable
      <4>2. QED
        BY <3>3, <4>1 DEF Prune
    <3>4. CASE ResolveFails(m)
      BY <3>4 DEF ResolveFails
    <3>5. QED
      BY <2>7, <3>1, <3>2, <3>3, <3>4 DEF Operate
  <2>8. ASSUME NEW m \in Messages, RemoteFinish(m) PROVE Kept
    BY <2>8 DEF RemoteFinish
  <2>9. ASSUME LifeCycle PROVE Kept
    BY <2>9 DEF LifeCycle, Open, Recovered, Attach, Close, ReleaseOwner,
       CloseIncomplete, Terminate, CloseBinding, Crash
  <2>10. CASE UNCHANGED vars
    BY <2>10 DEF vars
  <2>11. ASSUME NEW m \in Messages, Consume(m) PROVE Kept
    BY <2>11 DEF Consume, ConsumerFails, ConsumerEnds, Synthesize
  <2>12. QED
    BY <2>1, <2>2, <2>3, <2>4, <2>5, <2>6, <2>7, <2>8, <2>9, <2>10, <2>11 DEF
       Next, TurnStep
<1>2. QED
  BY <1>1, Invariance, PTL DEF Spec, NothingForgotten

\* A step saves at most one task more, whoever saves it.
LEMMA SavedTasksStep ==
  ASSUME TypeOK, [Next]_vars
  PROVE  \/ SavedTasks' \subseteq SavedTasks
         \/ \E m \in Messages : SavedTasks' \subseteq SavedTasks \cup {m}
<1> DEFINE One(m) == \A n \in Messages \ {m} : tasks'[n] = tasks[n]
<1> USE DEF TypeOK, journal, agent, owner, turn, memory
<1>1. ASSUME NEW m \in Messages, One(m)
      PROVE  SavedTasks' \subseteq SavedTasks \cup {m}
  BY <1>1 DEF SavedTasks
<1>2. ASSUME NEW m \in Messages, Request(m) PROVE One(m)
  BY <1>2 DEF Request, Reserve, CancelIntent, Cancel, CancelRefused,
     CancelAbort, CancelInterrupted, CancelMissingBus
<1>3. ASSUME NEW m \in Messages, Admit(m) PROVE One(m)
  BY <1>3 DEF Admit, Execute, ExecuteRefused, ExecuteClosed, Synthesize,
     AbandonReserved, AcceptCommit, AcceptRefused, Dispatched, DispatchRefused
<1>4. ASSUME NEW m \in Messages, RunTurn(m) PROVE One(m)
  BY <1>4 DEF RunTurn, Enqueue, WaitCancelled, BeginTurn, BeforeTurn,
     SessionReady, BeforeSend, RecordIntent, Send, SendThrows,
     TurnCancelled, TurnRefused, TurnStopped, TurnStoppedFails,
     TurnUnresolved, TurnUnresolvedFails, Unlock
<1>5. ASSUME NEW m \in Messages, Stream(m) PROVE One(m)
  BY <1>5 DEF Stream, StreamOver, StreamSucceeds, StreamFails, ObserveRead,
     ObserveWrite
<1>6. ASSUME NEW m \in Messages, Publish(m) \/ Consume(m) PROVE One(m)
  BY <1>6 DEF Publish, Conclude, PublishIntent, PublishFails, SdkSave, Consume,
     ConsumerFails, ConsumerEnds, Synthesize
<1>7. ASSUME NEW m \in Messages, Recover(m) PROVE One(m)
  BY <1>7 DEF Recover, RecoverSkip, RecoverPublication, RecoverAttempt
<1>8. ASSUME NEW m \in Messages, Operate(m) PROVE One(m)
  <2>1. CASE ResolveStart(m) \/ ResolveFails(m)
    BY <2>1 DEF ResolveStart, ResolveFails
  <2>2. CASE ResolveCommit(m)
    BY <2>2 DEF ResolveCommit
  <2>3. CASE Prune(m)
    BY <2>3 DEF Prune
  <2>4. QED
    BY <1>8, <2>1, <2>2, <2>3 DEF Operate
<1>9. ASSUME NEW m \in Messages, RemoteFinish(m) PROVE One(m)
  BY <1>9 DEF RemoteFinish
<1>10. CASE LifeCycle
  BY <1>10 DEF SavedTasks, LifeCycle, Open, Recovered, Attach, Close,
     ReleaseOwner, CloseIncomplete, Terminate, CloseBinding, Crash
<1>11. CASE UNCHANGED vars
  BY <1>11 DEF vars, SavedTasks
<1>12. QED
  BY <1>1, <1>2, <1>3, <1>4, <1>5, <1>6, <1>7, <1>8, <1>9, <1>10, <1>11
     DEF Next, TurnStep

\* An attempt is accepted only when there was room at the very moment of the
\* transaction.
LEMMA AttemptsStep ==
  ASSUME TypeOK, PhaseInv, BusInv, RecoverInv, [Next]_vars
  PROVE  \/ Attempts' \subseteq Attempts
         \/ HasRoom /\ \E m \in Messages : Attempts' = Attempts \cup {m}
<1> DEFINE Fewer == \A n \in Messages : phase'[n] # "none" => phase[n] # "none"
<1> USE NoneAssumption DEF TypeOK, journal, agent, owner, turn, memory, Goto
<1>1. Fewer => Attempts' \subseteq Attempts
  BY DEF Attempts
<1>2. ASSUME NEW m \in Messages, Request(m) PROVE Fewer
  BY <1>2 DEF Request, Reserve, CancelIntent, Cancel, CancelRefused,
     CancelAbort, CancelInterrupted, CancelMissingBus
<1>3. ASSUME NEW m \in Messages, AcceptCommit(m)
      PROVE  HasRoom /\ Attempts' = Attempts \cup {m}
  BY <1>3 DEF AcceptCommit, AcceptRecheck, Attempts
<1>4. ASSUME NEW m \in Messages, Admit(m) PROVE AcceptCommit(m) \/ Fewer
  BY <1>4 DEF Admit, Execute, ExecuteRefused, ExecuteClosed, AbandonReserved,
     AcceptRefused, Dispatched, DispatchRefused, PhaseInv
<1>5. ASSUME NEW m \in Messages, RunTurn(m) PROVE Fewer
  BY <1>5 DEF RunTurn, Enqueue, WaitCancelled, BeginTurn, BeforeTurn,
     SessionReady, BeforeSend, RecordIntent, Send, SendThrows,
     TurnCancelled, TurnRefused, TurnStopped, TurnStoppedFails,
     TurnUnresolved, TurnUnresolvedFails, Unlock, PhaseInv
<1>6. ASSUME NEW m \in Messages, Stream(m) PROVE Fewer
  BY <1>6 DEF Stream, StreamOver, StreamSucceeds, StreamFails, ObserveRead,
     ObserveWrite
<1>7. ASSUME NEW m \in Messages, Publish(m) \/ Consume(m) PROVE Fewer
  BY <1>7 DEF Publish, Conclude, PublishIntent, PublishFails, SdkSave, Consume,
     ConsumerFails, ConsumerEnds, PhaseInv
<1>8. ASSUME NEW m \in Messages, Recover(m) PROVE Fewer
  BY <1>8 DEF Recover, RecoverSkip, RecoverPublication, RecoverAttempt,
     RecoverInv
<1>9. ASSUME NEW m \in Messages, Operate(m) PROVE Fewer
  <2>1. CASE ResolveCommit(m)
    BY <2>1 DEF ResolveCommit, RecoverInv
  <2>2. CASE Prune(m)
    BY <2>2 DEF Prune
  <2>3. CASE ResolveStart(m) \/ ResolveFails(m)
    BY <2>3 DEF ResolveStart, ResolveFails
  <2>4. QED
    BY <1>9, <2>1, <2>2, <2>3 DEF Operate
<1>10. ASSUME NEW m \in Messages, RemoteFinish(m) PROVE Fewer
  BY <1>10 DEF RemoteFinish
<1>11. CASE LifeCycle
  BY <1>11, <1>1 DEF LifeCycle, Open, Recovered, Attach, Close, ReleaseOwner,
     CloseIncomplete, Terminate, CloseBinding, Crash
<1>12. CASE UNCHANGED vars
  BY <1>12, <1>1 DEF vars
<1>13. QED
  BY <1>1, <1>2, <1>3, <1>4, <1>5, <1>6, <1>7, <1>8, <1>9, <1>10, <1>11,
     <1>12 DEF Next, TurnStep

\* maxTasks bounds the attempts for every number of requests that pass its first
\* check together, over restarts and pruning.
THEOREM AttemptsBounded == Spec => []TaskBound
<1> USE LimitAssumption
<1>1. Init => BoundInv
  <2> SUFFICES ASSUME Init PROVE BoundInv
    OBVIOUS
  <2>1. SavedTasks = {} /\ Attempts = {}
    BY DEF Init, SavedTasks, Attempts
  <2>2. QED
    BY <2>1, FS_EmptySet DEF BoundInv, TaskBound
<1>2. IInv /\ BoundInv /\ [Next]_vars => BoundInv'
  <2> SUFFICES ASSUME IInv, BoundInv, [Next]_vars PROVE BoundInv'
    OBVIOUS
  <2>1. IsFiniteSet(SavedTasks')
    <3>1. CASE SavedTasks' \subseteq SavedTasks
      BY <3>1, FS_Subset DEF BoundInv
    <3>2. ASSUME NEW m \in Messages, SavedTasks' \subseteq SavedTasks \cup {m}
          PROVE  IsFiniteSet(SavedTasks')
      BY <3>2, FS_AddElement, FS_Subset DEF BoundInv
    <3>3. QED
      BY <3>1, <3>2, SavedTasksStep DEF IInv
  <2>2. Attempts \subseteq SavedTasks
    BY DEF IInv, RowInv, Attempts, SavedTasks
  <2>3. /\ IsFiniteSet(Attempts) /\ Cardinality(Attempts) <= Cardinality(SavedTasks)
        /\ Cardinality(Attempts) \in Nat /\ Cardinality(SavedTasks) \in Nat
    BY <2>2, FS_Subset, FS_CardinalityType DEF BoundInv
  <2>4. CASE Attempts' \subseteq Attempts
    <3>1. Cardinality(Attempts') \in Nat /\ Cardinality(Attempts') <= Cardinality(Attempts)
      BY <2>3, <2>4, FS_Subset, FS_CardinalityType
    <3>2. QED
      BY <2>1, <2>3, <3>1 DEF BoundInv, TaskBound
  <2>5. ASSUME HasRoom, NEW m \in Messages, Attempts' = Attempts \cup {m}
        PROVE  BoundInv'
    <3>1. Cardinality(Attempts') \in {Cardinality(Attempts),
                                     Cardinality(Attempts) + 1}
      BY <2>3, <2>5, FS_AddElement
    <3>2. QED
      BY <2>1, <2>3, <2>5, <3>1 DEF BoundInv, TaskBound, HasRoom
  <2>6. QED
    BY <2>4, <2>5, AttemptsStep DEF IInv
<1>3. BoundInv => TaskBound
  BY DEF BoundInv
<1>4. QED
  BY <1>1, <1>2, <1>3, Invariance, PTL DEF Spec

\* No journal this code writes is refused by its own validation, and none makes
\* a recovery throw for want of a task.
THEOREM JournalReopens == Spec => []Reopens
<1>1. IInv => Reopens
  BY DEF IInv, StopInv, RowInv, Reopens, Valid, Reducible
<1>2. QED
  BY <1>1, Invariance, PTL

\* The close that releases the owner has nothing left to recover, whatever was
\* admitted, cancelled, failed or fenced before it.
THEOREM ReleaseIsClean == Spec => CleanRelease
<1> DEFINE Clean == \A m \in Messages : /\ phase[m] \in {"none", "done"}
                                        /\ tasks[m] # "open"
                                        /\ remote[m] # "running"
           Releases == proc = "closing" /\ proc' = "down" /\ crashes' = crashes
<1>1. IInv /\ [Next]_vars => (Releases => Clean)
  <2> SUFFICES ASSUME IInv, [Next]_vars, Releases PROVE Clean
    OBVIOUS
  <2>1. ReleaseOwner
    <3> USE DEF owner, turn, memory
    <3>1. ASSUME NEW m \in Messages,
                 \/ Request(m) \/ Admit(m) \/ Stream(m) \/ Publish(m)
                 \/ Consume(m) \/ Recover(m) \/ Operate(m) \/ RemoteFinish(m)
          PROVE  FALSE
      BY <3>1 DEF Request, Reserve, CancelIntent, Cancel, CancelRefused,
         CancelAbort, CancelInterrupted, CancelMissingBus, Cancels, Cancelable,
         TakeDraft, Admit, Execute, ExecuteRefused, ExecuteClosed, Synthesize,
         AbandonReserved, AcceptCommit, AcceptRefused, Dispatched,
         DispatchRefused, Stream, StreamOver, StreamSucceeds, StreamFails,
         ObserveRead, ObserveWrite, Publish, Consume, ConsumerFails,
         ConsumerEnds, Conclude, PublishIntent, PublishFails, Synthesize,
         SdkSave, Recover, RecoverSkip, RecoverPublication, RecoverAttempt,
         Operate, ResolveStart, ResolveCommit, ResolveFails, Prune,
         RemoteFinish
    <3>2. ASSUME NEW m \in Messages, RunTurn(m) PROVE FALSE
      BY <3>2 DEF RunTurn, Enqueue, WaitCancelled, BeginTurn, BeforeTurn,
         SessionReady, BeforeSend, RecordIntent, Send, SendThrows,
         TurnCancelled, TurnRefused, TurnStopped, TurnStoppedFails,
         TurnUnresolved, TurnUnresolvedFails, Unlock
    <3>3. CASE LifeCycle
      BY <3>3 DEF LifeCycle, Open, TakeOwner, Recovered, Attach, Close,
         CloseIncomplete, Terminate, CloseBinding, Crash, IInv, TypeOK
    <3>4. QED
      BY <3>1, <3>2, <3>3 DEF Next, TurnStep, vars
  <2>2. ASSUME NEW m \in Messages PROVE phase[m] \in {"none", "done"}
    BY <2>1 DEF ReleaseOwner, Drained, IInv, ReleaseInv, Opened, Attached
  <2>3. QED
    BY <2>2 DEF IInv, RowInv, FenceInv, FinalState
<1>2. QED
  BY <1>1, Invariance, PTL DEF Spec, CleanRelease

\* The durable path implements the promise made to a conversation: every send
\* is a submission nobody contests, and recovery never submits.
THEOREM Refinement == Spec => ImplementsInputs
<1>1. Init => Inputs!Init
  BY DEF Init, Inputs!Init
<1>2. IInv /\ [Next]_vars => [Inputs!Next]_remote
  <2> SUFFICES ASSUME IInv, [Next]_vars PROVE [Inputs!Next]_remote
    OBVIOUS
  <2> USE DEF journal, agent, owner, turn, memory, SavePublication, TakeOwner
  <2>1. ASSUME NEW m \in Messages, Send(m) \/ SendThrows(m)
        PROVE  UNCHANGED remote \/ Inputs!Submit(m)
    <3>1. remote[m] = "none"
      BY <2>1, UnsentIsSilent DEF Send, SendThrows, Unsent, IInv
    <3>2. \A n \in Peers(m) : remote[n] # "running"
      BY <2>1 DEF Send, SendThrows, IInv, FenceInv
    <3>3. QED
      BY <2>1, <3>1, <3>2 DEF Send, SendThrows, Peers, Inputs!Submit
  <2>2. ASSUME NEW m \in Messages, RemoteFinish(m)
        PROVE  Inputs!Finish(m)
    BY <2>2 DEF RemoteFinish, Inputs!Finish
  <2>3. ASSUME NEW m \in Messages, Request(m) PROVE UNCHANGED remote
    BY <2>3 DEF Request, Reserve, CancelIntent, Cancel, CancelRefused,
       CancelAbort, CancelInterrupted, CancelMissingBus, Cancels, Cancelable,
       TakeDraft
  <2>4. ASSUME NEW m \in Messages, Admit(m) PROVE UNCHANGED remote
    BY <2>4 DEF Admit, Execute, ExecuteRefused, ExecuteClosed, Synthesize,
       AbandonReserved, AcceptCommit, AcceptRefused, Dispatched,
       DispatchRefused
  <2>5. ASSUME NEW m \in Messages, RunTurn(m)
        PROVE  Send(m) \/ SendThrows(m) \/ UNCHANGED remote
    BY <2>5 DEF RunTurn, Enqueue, WaitCancelled, BeginTurn, BeforeTurn,
       SessionReady, BeforeSend, RecordIntent, TurnCancelled, TurnRefused,
       TurnStopped, TurnStoppedFails, TurnUnresolved, TurnUnresolvedFails,
       Unlock
  <2>6. ASSUME NEW m \in Messages, Stream(m) PROVE UNCHANGED remote
    BY <2>6 DEF Stream, StreamOver, StreamSucceeds, StreamFails,
       ObserveRead, ObserveWrite
  <2>7. ASSUME NEW m \in Messages, Publish(m) PROVE UNCHANGED remote
    BY <2>7 DEF Publish, Conclude, PublishIntent, PublishFails, Synthesize,
       SdkSave
  <2>8. ASSUME NEW m \in Messages, Recover(m) PROVE UNCHANGED remote
    BY <2>8 DEF Recover, RecoverSkip, RecoverPublication, RecoverAttempt
  <2>9. ASSUME NEW m \in Messages, Operate(m) PROVE UNCHANGED remote
    BY <2>9 DEF Operate, ResolveStart, ResolveCommit, ResolveFails, Prune
  <2>10. ASSUME LifeCycle PROVE UNCHANGED remote
    BY <2>10 DEF LifeCycle, Open, Recovered, Attach, Close, ReleaseOwner,
       CloseIncomplete, Terminate, CloseBinding, Crash
  <2>11. CASE UNCHANGED vars
    BY <2>11 DEF vars
  <2>12. ASSUME NEW m \in Messages, Consume(m) PROVE UNCHANGED remote
    BY <2>12 DEF Consume, ConsumerFails, ConsumerEnds, Synthesize
  <2>13. QED
    BY <2>1, <2>2, <2>3, <2>4, <2>5, <2>6, <2>7, <2>8, <2>9, <2>10, <2>11,
       <2>12 DEF Next, TurnStep, Inputs!Next
<1>3. QED
  BY <1>1, <1>2, Invariance, PTL DEF Spec, ImplementsInputs, Inputs!Spec
=============================================================================
