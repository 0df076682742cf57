--------------------------- MODULE Invoker_proofs ----------------------------
(***************************************************************************)
(* Proofs about Invoker.                                                   *)
(***************************************************************************)
EXTENDS InvokerProps, TLAPS

LEMMA InitIInv == Init => IInv
<1> USE NoneAssumption DEF Init, Kinds, Senders, Places, Awaits, Stopped, TaskState, CleanupFirst
<1>1. Init => TypeOK
  <2>1. Init => got \in BOOLEAN
    BY Zenon
  <2>2. Init => task \in TaskState \cup {None, "message"}
    OBVIOUS
  <2>3. Init => /\ caller \in BOOLEAN /\ attempted \in BOOLEAN /\ accepted \in BOOLEAN
                /\ stopped \in BOOLEAN /\ asked \in BOOLEAN
    OBVIOUS
  <2> QED BY <2>1, <2>2, <2>3 DEF TypeOK
<1>2. Init => PlaceInv /\ RequestInv /\ CleanupInv
  BY DEF PlaceInv, RequestInv, CleanupInv
<1>3. Init => AbandonInv /\ JournalInv /\ CancellationIsReadBack
  BY DEF AbandonInv, JournalInv, CancellationIsReadBack
<1> QED BY <1>1, <1>2, <1>3 DEF IInv

LEMMA NextTypes ==
  ASSUME IInv, [Next]_vars
  PROVE  TypeOK'
<1> USE NoneAssumption DEF IInv, TypeOK, RequestInv, CleanupInv, Kinds, Places, Awaits, Stopped, TaskState, CleanupFirst,
            work, cleanup, remote, client, Goto, Finished, InTime, Afterwards, Accept,
            Senders, FirstStep, Fail
<1>1. CASE Connected
  BY <1>1 DEF Connected
<1>2. CASE Send
  BY <1>2 DEF Send
<1>3. CASE SentMessage
  BY <1>3 DEF SentMessage
<1>4. CASE SentTask
  BY <1>4 DEF SentTask
<1>5. CASE HookReturns
  BY <1>5 DEF HookReturns
<1>6. CASE Slept
  BY <1>6 DEF Slept
<1>7. CASE Polled
  BY <1>7 DEF Polled
<1>8. CASE Opened
  BY <1>8 DEF Opened
<1>9. CASE Read
  BY <1>9 DEF Read
<1>10. CASE TaskEvent
  BY <1>10 DEF TaskEvent
<1>11. CASE StatusEvent \/ ArtifactEvent
  <2>1. stopped' \in BOOLEAN
    <3>1. CASE StatusEvent
      BY <3>1 DEF StatusEvent
    <3>2. CASE ArtifactEvent
      BY <3>2 DEF ArtifactEvent
    <3> QED BY <1>11, <3>1, <3>2
  <2>2. CASE StatusEvent
    BY <2>1, <2>2 DEF StatusEvent
  <2>3. CASE ArtifactEvent
    BY <2>1, <2>3 DEF ArtifactEvent
  <2> QED BY <1>11, <2>2, <2>3
<1>12. CASE MessageEvent
  BY <1>12 DEF MessageEvent
<1>13. CASE EndOfStream
  BY <1>13 DEF EndOfStream
<1>14. CASE Resume
  BY <1>14 DEF Resume
<1>15. CASE Break
  BY <1>15 DEF Break
<1>16. CASE Reject
  BY <1>16 DEF Reject
<1>17. CASE Cancel
  BY <1>17 DEF Cancel
<1>18. CASE CancelTooLate
  BY <1>18 DEF CancelTooLate
<1>19. CASE Canceled
  BY <1>19 DEF Canceled
<1>20. CASE CancelFails
  BY <1>20 DEF CancelFails
<1>21. CASE Close
  BY <1>21 DEF Close
<1>22. CASE Tick
  BY <1>22 DEF Tick
<1>23. CASE CallerAborts
  BY <1>23 DEF CallerAborts
<1>24. CASE RemoteReceives
  BY <1>24 DEF RemoteReceives
<1>25. CASE RemoteCancels
  BY <1>25 DEF RemoteCancels
<1>26. CASE RemoteWorks
  BY <1>26 DEF RemoteWorks
<1>27. CASE UNCHANGED vars
  BY <1>27 DEF vars
<1>28. CASE ReadAnswered
  BY <1>28 DEF ReadAnswered
<1>29. CASE Undiscovered
  BY <1>29 DEF Undiscovered
<1>30. CASE Misidentified
  BY <1>30 DEF Misidentified
<1> QED BY <1>1, <1>2, <1>3, <1>4, <1>5, <1>6, <1>7, <1>8, <1>9, <1>10, <1>11, <1>12, <1>13, <1>14, <1>15, <1>16, <1>17, <1>18, <1>19, <1>20, <1>21, <1>22, <1>23, <1>24, <1>25, <1>26, <1>27,
     <1>28, <1>29, <1>30 DEF Next

LEMMA NextParts ==
  ASSUME IInv, [Next]_vars
  PROVE  /\ PlaceInv' /\ RequestInv' /\ CleanupInv' /\ AbandonInv'
         /\ JournalInv' /\ CancellationIsReadBack'
<1> USE NoneAssumption DEF IInv, TypeOK, Kinds, Places, Awaits, Stopped, TaskState, CleanupFirst,
            PlaceInv, RequestInv, CleanupInv, AbandonInv, JournalInv,
            CancellationIsReadBack,
            work, cleanup, remote, client, Goto, Finished, InTime, Afterwards, Accept,
            Senders, FirstStep, Fail
<1>1. CASE Connected
  BY <1>1 DEF Connected
<1>2. CASE Send
  BY <1>2 DEF Send
<1>3. CASE SentMessage
  BY <1>3 DEF SentMessage
<1>4. CASE SentTask
  BY <1>4 DEF SentTask
<1>5. CASE HookReturns
  BY <1>5 DEF HookReturns
<1>6. CASE Slept
  BY <1>6 DEF Slept
<1>7. CASE Polled
  BY <1>7 DEF Polled
<1>8. CASE Opened
  BY <1>8 DEF Opened
<1>9. CASE Read
  BY <1>9 DEF Read
<1>10. CASE TaskEvent
  BY <1>10 DEF TaskEvent
<1>11. CASE StatusEvent \/ ArtifactEvent
  BY <1>11 DEF StatusEvent, ArtifactEvent
<1>12. CASE MessageEvent
  BY <1>12 DEF MessageEvent
<1>13. CASE EndOfStream
  BY <1>13 DEF EndOfStream
<1>14. CASE Resume
  BY <1>14 DEF Resume
<1>15. CASE Break
  BY <1>15 DEF Break
<1>16. CASE Reject
  BY <1>16 DEF Reject
<1>17. CASE Cancel
  BY <1>17 DEF Cancel
<1>18. CASE CancelTooLate
  BY <1>18 DEF CancelTooLate
<1>19. CASE Canceled
  BY <1>19 DEF Canceled
<1>20. CASE CancelFails
  BY <1>20 DEF CancelFails
<1>21. CASE Close
  BY <1>21 DEF Close
<1>22. CASE Tick
  BY <1>22 DEF Tick
<1>23. CASE CallerAborts
  BY <1>23 DEF CallerAborts
<1>24. CASE RemoteReceives
  BY <1>24 DEF RemoteReceives
<1>25. CASE RemoteCancels
  BY <1>25 DEF RemoteCancels
<1>26. CASE RemoteWorks
  BY <1>26 DEF RemoteWorks
<1>27. CASE UNCHANGED vars
  BY <1>27 DEF vars
<1>28. CASE ReadAnswered
  BY <1>28 DEF ReadAnswered
<1>29. CASE Undiscovered
  BY <1>29 DEF Undiscovered
<1>30. CASE Misidentified
  BY <1>30 DEF Misidentified
<1> QED BY <1>1, <1>2, <1>3, <1>4, <1>5, <1>6, <1>7, <1>8, <1>9, <1>10, <1>11, <1>12, <1>13, <1>14, <1>15, <1>16, <1>17, <1>18, <1>19, <1>20, <1>21, <1>22, <1>23, <1>24, <1>25, <1>26, <1>27,
     <1>28, <1>29, <1>30 DEF Next

\* The invariant of an operation: of invoke, stream and subscribe under their
\* deadline, whatever the remote agent and the network do.
THEOREM Invariance == Spec => []IInv
<1>1. IInv /\ [Next]_vars => IInv'
  BY NextTypes, NextParts DEF IInv
<1> QED BY InitIInv, <1>1, PTL DEF Spec

\* submissionAttempted is never understated.
THEOREM RetryIsSafe == Spec => []SafeToRetry
<1>1. IInv => SafeToRetry
  BY DEF IInv, RequestInv, SafeToRetry
<1> QED BY <1>1, Invariance, PTL

\* The hook precedes the caller.
THEOREM HookFirst == Spec => []JournaledFirst
<1>1. IInv => JournaledFirst
  BY DEF IInv, JournalInv, JournaledFirst, Awaits, Places
<1> QED BY <1>1, Invariance, PTL

\* Accepted work is canceled when it is given up, unless time is up.
THEOREM Abandoned == Spec => []AbandonedIsCanceled
<1>1. IInv => AbandonedIsCanceled
  BY DEF IInv, AbandonInv, RequestInv, AbandonedIsCanceled
<1> QED BY <1>1, Invariance, PTL

\* Cancellation never reaches the work of a subscription, or finished work.
THEOREM OwnWork == Spec => []CancelsOwnWork
<1>1. IInv => CancelsOwnWork
  BY DEF IInv, CleanupInv, CleanupFirst, CancelsOwnWork
<1> QED BY <1>1, Invariance, PTL

\* A reported cancellation is the state of the remote task.
THEOREM ReadBack == Spec => []CancellationIsReadBack
<1>1. IInv => CancellationIsReadBack
  BY DEF IInv
<1> QED BY <1>1, Invariance, PTL
=============================================================================
