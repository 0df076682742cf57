------------------------- MODULE ContextStore_proofs ------------------------
(***************************************************************************)
(* Proofs about the two stores of context-store.ts, for any number of      *)
(* calls: the chain of promises of ContextLock (of the runner too) and the *)
(* lock files of FileStore.                                                *)
(***************************************************************************)
EXTENDS ContextLockProps, FileStoreProps, TLAPS

(* The chain of promises.                                                  *)

Step(c) == Enter(c) \/ Start(c) \/ GiveUp(c) \/ Finish(c) \/ Settle(c)
           \/ Cleanup(c) \/ Abort(c)

\* The initial state satisfies the invariant.
LEMMA InitInv == Init => IInv
  BY DEF Init, IInv, TypeOK, OrderInv, SettledInv, ChainInv, TailInv, WorkInv,
     Arrived

\* A step keeps every variable in its type.
LEMMA StepType ==
  ASSUME TypeOK, NEW c \in Calls, Step(c)
  PROVE  TypeOK'
<1> USE KeyOfAssumption, NoneAssumption DEF TypeOK
<1>1. CASE Enter(c)
  BY <1>1 DEF Enter, Arrived
<1>2. CASE Start(c) \/ GiveUp(c) \/ Finish(c)
  BY <1>2 DEF Start, GiveUp, Finish
<1>3. CASE Settle(c) \/ Abort(c)
  BY <1>3 DEF Settle, Abort
<1>4. CASE Cleanup(c)
  BY <1>4 DEF Cleanup
<1>5. QED
  BY <1>1, <1>2, <1>3, <1>4 DEF Step

\* An arrival extends the order, the chain and the map entry consistently.
LEMMA EnterInv ==
  ASSUME IInv, NEW c \in Calls, Enter(c)
  PROVE  OrderInv' /\ SettledInv' /\ ChainInv' /\ TailInv' /\ WorkInv'
<1> USE KeyOfAssumption, NoneAssumption DEF IInv, TypeOK, Enter
<1> DEFINE k == KeyOf[c]
<1>1. /\ Arrived(k)' = Arrived(k) \cup {c}
      /\ \A l \in Keys \ {k} : Arrived(l)' = Arrived(l)
      /\ c \notin Arrived(k)
  BY DEF Arrived
<1>2. \A d \in Calls \ {c} : c \notin earlier[d]
  BY DEF OrderInv, Arrived
<1>3. OrderInv'
  BY <1>1, <1>2 DEF OrderInv, Arrived
<1>4. SettledInv'
  BY DEF SettledInv, OrderInv
<1>5. ChainInv'
  <2>1. ASSUME NEW d \in Calls \ {c}
        PROVE  /\ previous'[d] = None => earlier'[d] \subseteq settled'
               /\ previous'[d] # None =>
                    earlier'[d] = earlier'[previous'[d]] \cup {previous'[d]}
    <3>1. previous'[d] = previous[d] /\ earlier'[d] = earlier[d]
      OBVIOUS
    <3>2. previous[d] # None => previous[d] # c
      BY <1>2 DEF ChainInv
    <3>3. QED
      BY <3>1, <3>2 DEF ChainInv
  <2>2. /\ tail[k] = None => earlier'[c] \subseteq settled
        /\ tail[k] # None => earlier'[c] = earlier[tail[k]] \cup {tail[k]}
    BY DEF TailInv
  <2>3. tail[k] # c
    BY <1>1 DEF TailInv
  <2>4. QED
    BY <2>1, <2>2, <2>3 DEF ChainInv
<1>6. TailInv'
  BY <1>1 DEF TailInv
<1>7. WorkInv'
  BY DEF WorkInv
<1>8. QED
  BY <1>3, <1>4, <1>5, <1>6, <1>7

\* A call that moves on has arrived before and is still there.
LEMMA MoveInv ==
  ASSUME IInv, NEW c \in Calls, Start(c) \/ GiveUp(c) \/ Finish(c)
  PROVE  OrderInv' /\ SettledInv' /\ ChainInv' /\ TailInv' /\ WorkInv'
<1> USE KeyOfAssumption, NoneAssumption DEF IInv, TypeOK, Start, GiveUp, Finish
<1>1. \A l \in Keys : Arrived(l)' = Arrived(l)
  BY DEF Arrived
<1>2. OrderInv'
  BY <1>1 DEF OrderInv
<1>3. SettledInv' /\ ChainInv' /\ TailInv'
  BY <1>1 DEF SettledInv, ChainInv, TailInv
<1>4. WorkInv'
  <2>1. PreviousSettled(c) => earlier[c] \subseteq settled
    BY DEF PreviousSettled, ChainInv, SettledInv
  <2>2. QED
    BY <2>1 DEF WorkInv
<1>5. QED
  BY <1>2, <1>3, <1>4

\* A tail settles only after all that arrived before it.
LEMMA SettleInv ==
  ASSUME IInv, NEW c \in Calls, Settle(c)
  PROVE  OrderInv' /\ SettledInv' /\ ChainInv' /\ TailInv' /\ WorkInv'
<1> USE KeyOfAssumption, NoneAssumption DEF IInv, TypeOK, Settle
<1>1. \A l \in Keys : Arrived(l)' = Arrived(l)
  BY DEF Arrived
<1>2. earlier[c] \subseteq settled
  BY DEF PreviousSettled, ChainInv, SettledInv
<1>3. OrderInv' /\ ChainInv' /\ TailInv' /\ WorkInv'
  BY <1>1 DEF OrderInv, ChainInv, TailInv, WorkInv
<1>4. SettledInv'
  BY <1>2 DEF SettledInv
<1>5. QED
  BY <1>3, <1>4

\* An entry is removed only when everything that arrived has settled.
LEMMA CleanupInv ==
  ASSUME IInv, NEW c \in Calls, Cleanup(c)
  PROVE  OrderInv' /\ SettledInv' /\ ChainInv' /\ TailInv' /\ WorkInv'
<1> USE KeyOfAssumption, NoneAssumption DEF IInv, TypeOK, Cleanup
<1>1. \A l \in Keys : Arrived(l)' = Arrived(l)
  BY DEF Arrived
<1>2. OrderInv' /\ SettledInv' /\ ChainInv' /\ WorkInv'
  BY <1>1 DEF OrderInv, SettledInv, ChainInv, WorkInv
<1>3. TailInv'
  <2>1. earlier[c] \cup {c} \subseteq settled
    BY DEF SettledInv
  <2>2. QED
    BY <1>1, <2>1 DEF TailInv
<1>4. QED
  BY <1>2, <1>3

\* Every step keeps the invariant.
LEMMA NextInv == IInv /\ [Next]_vars => IInv'
<1> SUFFICES ASSUME IInv, [Next]_vars PROVE IInv'
  OBVIOUS
<1>1. ASSUME NEW c \in Calls, Step(c) PROVE IInv'
  <2>1. TypeOK'
    BY <1>1, StepType DEF IInv
  <2>2. CASE Enter(c)
    BY <2>1, <2>2, EnterInv DEF IInv
  <2>3. CASE Start(c) \/ GiveUp(c) \/ Finish(c)
    BY <2>1, <2>3, MoveInv DEF IInv
  <2>4. CASE Settle(c)
    BY <2>1, <2>4, SettleInv DEF IInv
  <2>5. CASE Cleanup(c)
    BY <2>1, <2>5, CleanupInv DEF IInv
  <2>6. CASE Abort(c)
    BY <2>1, <2>6 DEF Abort, IInv, OrderInv, SettledInv, ChainInv, TailInv,
       WorkInv, Arrived
  <2>7. QED
    BY <1>1, <2>2, <2>3, <2>4, <2>5, <2>6 DEF Step
<1>2. CASE UNCHANGED vars
  BY <1>2 DEF vars, IInv, TypeOK, OrderInv, SettledInv, ChainInv, TailInv,
     WorkInv, Arrived
<1>3. QED
  BY <1>1, <1>2 DEF Next, Step

\* The invariant holds of every reachable state.
THEOREM Invariance == Spec => []IInv
  BY InitInv, NextInv, PTL DEF Spec

\* A working call has seen every call that arrived before it leave.
THEOREM ArrivalOrder == Spec => []NoOvertaking
<1>1. IInv => NoOvertaking
  BY DEF IInv, NoOvertaking, WorkInv, SettledInv, OrderInv, Arrived
<1>2. QED
  BY <1>1, Invariance, PTL

\* Two calls of one context never work at the same time.
THEOREM Exclusion == Spec => []MutualExclusion
<1>1. IInv => MutualExclusion
  <2> SUFFICES ASSUME IInv, NEW c \in Calls, NEW d \in Calls,
                      at[c] = "working", at[d] = "working",
                      KeyOf[c] = KeyOf[d], c # d
               PROVE  FALSE
    BY DEF MutualExclusion
  <2>1. c \in earlier[d] \/ d \in earlier[c]
    BY DEF IInv, OrderInv, Arrived
  <2>2. QED
    BY <2>1 DEF IInv, WorkInv, SettledInv
<1>2. QED
  BY <1>1, Invariance, PTL

\* The promise chain implements the queue: taking the place behind the tail is
\* waiting for exactly those present, and leaving frees nobody but oneself.
THEOREM Refinement == Spec => ImplementsQueue
<1>1. Init => Queue!Init
  BY DEF Init, Queue!Init, Ahead, Present
<1>2. IInv /\ [Next]_vars => [Queue!Next]_<<at, Ahead>>
  <2> SUFFICES ASSUME IInv, [Next]_vars PROVE [Queue!Next]_<<at, Ahead>>
    OBVIOUS
  <2> USE KeyOfAssumption, NoneAssumption DEF IInv, TypeOK
  <2>1. ASSUME NEW c \in Calls, Enter(c) PROVE Queue!Enter(c)
    <3>1. Present' = Present \cup {c} /\ c \notin Present
      BY <2>1 DEF Enter, Present
    <3>2. \A d \in Calls \ {c} : c \notin earlier[d] /\ earlier'[d] = earlier[d]
      BY <2>1 DEF Enter, OrderInv, Arrived
    <3>3. earlier'[c] \cap Present' = Queue!Present(KeyOf[c])
      BY <2>1, <3>1 DEF Enter, Arrived, Present, Queue!Present
    <3>4. Ahead' = [Ahead EXCEPT ![c] = Queue!Present(KeyOf[c])]
      <4>1. \A d \in Calls \ {c} :
              (IF d \in Present' THEN earlier'[d] \cap Present' ELSE {}) = Ahead[d]
        <5> SUFFICES ASSUME NEW d \in Calls \ {c}
                     PROVE  (IF d \in Present' THEN earlier'[d] \cap Present' ELSE {})
                              = Ahead[d]
          OBVIOUS
        <5>1. c \notin earlier[d] /\ earlier'[d] = earlier[d]
          BY <3>2
        <5>2. earlier'[d] \cap Present' = earlier[d] \cap Present
          BY <3>1, <5>1
        <5>3. d \in Present' <=> d \in Present
          BY <3>1
        <5>4. QED
          BY <5>2, <5>3 DEF Ahead
      <4>2. c \in Present'
        BY <3>1
      <4>3. QED
        BY <4>1, <4>2, <3>3 DEF Ahead
    <3>5. QED
      BY <2>1, <3>4 DEF Enter, Queue!Enter
  <2>2. ASSUME NEW c \in Calls, Start(c) PROVE Queue!Start(c)
    <3>1. Present' = Present
      BY <2>2 DEF Start, Present
    <3>2. Ahead' = Ahead
      BY <2>2, <3>1 DEF Start, Ahead
    <3>3. earlier[c] \subseteq settled
      BY <2>2 DEF Start, PreviousSettled, ChainInv, SettledInv
    <3>4. Ahead[c] = {}
      BY <3>3 DEF Ahead, Present, SettledInv
    <3>5. QED
      BY <2>2, <3>2, <3>4 DEF Start, Queue!Start
  <2>3. ASSUME NEW c \in Calls, GiveUp(c) \/ Finish(c) PROVE Queue!Leave(c)
    <3>1. Present' = Present \ {c} /\ earlier' = earlier
      BY <2>3 DEF GiveUp, Finish, Present
    <3>2. Ahead' = [d \in Calls |-> IF d = c THEN {} ELSE Ahead[d] \ {c}]
      BY <3>1 DEF Ahead
    <3>3. QED
      BY <2>3, <3>2 DEF GiveUp, Finish, Queue!Leave
  <2>4. ASSUME NEW c \in Calls, Settle(c) \/ Cleanup(c) \/ Abort(c)
        PROVE  UNCHANGED <<at, Ahead>>
    BY <2>4 DEF Settle, Cleanup, Abort, Ahead, Present
  <2>5. CASE UNCHANGED vars
    BY <2>5 DEF vars, Ahead, Present
  <2>6. QED
    BY <2>1, <2>2, <2>3, <2>4, <2>5 DEF Next, Queue!Next
<1>3. QED
  BY <1>1, <1>2, Invariance, PTL DEF Spec, ImplementsQueue, Queue!Spec

-----------------------------------------------------------------------------
(* The lock files.  A path is the key of the call or the store.            *)

\* At first no lock file exists and the map is empty.
LEMMA InitFile == FileInit => FileInv
  BY FreeAssumption DEF FileInit, FileInv, FileTypeOK, HoldInv, FreshInv, Paths, Value, Places,
                        UsesStore, UsesKey

\* A write token, an open and a failed token, whatever the path.
LEMMA LockKeeps ==
  ASSUME FileInv, NEW c \in Operations, LockKey(c) \/ LockStore(c)
  PROVE  FileInv'
<1> USE ProcessOfAssumption, PathAssumption, FreeAssumption
        DEF FileInv, FileTypeOK, HoldInv, FreshInv, Paths, Value, Places, UsesStore, UsesKey,
            Goto, Live, locks, data, faults
<1>1. CASE Open(c, key[c], "keyWait", "keyOpen")
  BY <1>1 DEF Open
<1>2. CASE WriteToken(c, key[c], "keyOpen", "work")
  BY <1>2 DEF WriteToken
<1>3. CASE TokenFails(c, key[c], "keyOpen", "done")
  <2>1. lockfile[key[c]] = c /\ key[c] # Store
    BY <1>3 DEF TokenFails
  <2>2. CASE UNCHANGED <<lockfile, partial>>
    BY <1>3, <2>2 DEF TokenFails
  <2>3. CASE lockfile' = [lockfile EXCEPT ![key[c]] = Free]
             /\ partial' = partial \ {key[c]}
    BY <1>3, <2>1, <2>3 DEF TokenFails
  <2> QED BY <1>3, <2>2, <2>3 DEF TokenFails
<1>4. CASE Open(c, Store, "storeWait", "storeOpen")
  BY <1>4 DEF Open
<1>5. CASE WriteToken(c, Store, "storeOpen", "store")
  BY <1>5 DEF WriteToken
<1>6. CASE TokenFails(c, Store, "storeOpen", "keyRelease")
  BY <1>6 DEF TokenFails
<1> QED BY <1>1, <1>2, <1>3, <1>4, <1>5, <1>6 DEF LockKey, LockStore

\* A release, of a file whose token was read or of none.
LEMMA ReleaseKeeps ==
  ASSUME FileInv, NEW c \in Operations, Release(c)
  PROVE  FileInv'
<1> USE ProcessOfAssumption, PathAssumption, FreeAssumption
        DEF FileInv, FileTypeOK, HoldInv, FreshInv, Paths, Value, Places, UsesStore, UsesKey,
            Goto, Live, locks, data, faults
<1>1. CASE ReleaseReads(c, Store, "storeRelease", "storeUnlink", "keyRelease")
  <2>1. CASE lockfile[Store] = c /\ Goto(c, "storeRelease", "storeUnlink")
    BY <1>1, <2>1 DEF ReleaseReads
  <2>2. CASE Goto(c, "storeRelease", "keyRelease")
    BY <1>1, <2>2 DEF ReleaseReads
  <2> QED BY <1>1, <2>1, <2>2 DEF ReleaseReads
<1>2. CASE Unlink(c, Store, "storeUnlink", "keyRelease")
  BY <1>2 DEF Unlink
<1>3. CASE ReleaseReads(c, key[c], "keyRelease", "keyUnlink", "done")
  <2>1. CASE lockfile[key[c]] = c /\ Goto(c, "keyRelease", "keyUnlink")
    BY <1>3, <2>1 DEF ReleaseReads
  <2>2. CASE Goto(c, "keyRelease", "done")
    BY <1>3, <2>2 DEF ReleaseReads
  <2> QED BY <1>3, <2>1, <2>2 DEF ReleaseReads
<1>4. CASE Unlink(c, key[c], "keyUnlink", "done")
  BY <1>4 DEF Unlink
<1> QED BY <1>1, <1>2, <1>3, <1>4 DEF Release

\* Every step of a call.
LEMMA StepKeeps ==
  ASSUME FileInv, NEW c \in Operations, FileStep(c)
  PROVE  FileInv'
<1> USE ProcessOfAssumption, PathAssumption, FreeAssumption
        DEF FileInv, FileTypeOK, HoldInv, FreshInv, Paths, Value, Places, UsesStore, UsesKey,
            Goto, Live, locks, data, faults
<1>1. CASE WithLock(c)
  BY <1>1 DEF WithLock
<1>2. CASE NotBegun(c)
  BY <1>2 DEF NotBegun
<1>3. CASE Get(c)
  BY <1>3 DEF Get
<1>4. CASE KeyAbort(c)
  BY <1>4 DEF KeyAbort, StopWaiting
<1>8. CASE StoreTimeout(c)
  BY <1>8 DEF StoreTimeout, StopWaiting
<1>5. CASE Read(c)
  BY <1>5 DEF Read
<1>6. CASE Rename(c)
  <2>1. file' \in [Entries -> Value]
    BY <1>6 DEF Rename
  <2>2. FileTypeOK'
    BY <1>6, <2>1 DEF Rename
  <2>3. HoldInv'
    BY <1>6 DEF Rename
  <2>4. ASSUME NEW d \in Operations, Live(d),
               pc'[d] \in {"storeWait", "storeOpen", "store", "rename"}
        PROVE  seen'[d] = file'[key[d]]
    BY <1>6, <2>4 DEF Rename
  <2>5. ASSUME NEW d \in Operations, Live(d), pc'[d] = "rename"
        PROVE  FALSE
    BY <1>6, <2>5 DEF Rename
  <2> QED BY <1>6, <2>2, <2>3, <2>4, <2>5 DEF Rename
<1>7. CASE WriteFails(c)
  BY <1>7 DEF WriteFails
<1> QED BY <1>1, <1>2, <1>3, <1>4, <1>5, <1>6, <1>7, <1>8, LockKeeps, ReleaseKeeps DEF FileStep

\* So does what happens to it: aborts, deaths and recoveries.
LEMMA NextKeeps ==
  ASSUME FileInv, [FileNext]_fileVars
  PROVE  FileInv'
<1> USE DEF FileInv, FileTypeOK, HoldInv, FreshInv, Paths, Value, Places, UsesStore, UsesKey,
            Live, locks, data
<1>1. CASE \E c \in Operations : FileStep(c)
  BY <1>1, StepKeeps
<1>2. CASE \E c \in Operations : Cancel(c)
  BY <1>2 DEF Cancel
<1>3. CASE \E p \in Processes : Die(p)
  BY <1>3 DEF Die
<1>4. CASE \E path \in Paths : Recover(path)
  BY <1>4, PathAssumption, FreeAssumption DEF Recover, faults
<1>5. CASE UNCHANGED fileVars
  BY <1>5 DEF fileVars
<1> QED BY <1>1, <1>2, <1>3, <1>4, <1>5 DEF FileNext

\* The inductive invariant holds in every state: of acquireFileLock, withLock and
\* set together, whatever dies, fails or is recovered.
THEOREM FileInvariance == FileSpec => []FileInv
  BY InitFile, NextKeeps, PTL DEF FileSpec

\* Controller operations of a key exclude each other (withLock).
THEOREM FileExclusion == FileSpec => []KeyExclusion
<1>1. FileInv => KeyExclusion
  BY DEF FileInv, HoldInv, KeyExclusion, Working, UsesKey, UsesStore
<1> QED BY <1>1, FileInvariance, PTL

\* No replacement of the map loses an update (set).
THEOREM NoLostUpdate == FileSpec => UpdatesKept
<1>1. ASSUME FileInv, [FileNext]_fileVars, NEW k \in Entries
      PROVE  file[k] \subseteq file'[k]
  <2>1. CASE \E c \in Operations : Rename(c)
    <3>1. PICK c \in Operations : Rename(c)
      BY <2>1
    <3>2. draft[c] = file /\ seen[c] = file[key[c]]
      BY <1>1, <3>1 DEF FileInv, FreshInv, Rename, Goto
    <3>3. file' = [file EXCEPT ![key[c]] = file[key[c]] \cup {c}]
      BY <3>1, <3>2 DEF Rename
    <3> QED BY <1>1, <3>3 DEF FileInv, FileTypeOK
  <2>2. CASE ~(\E c \in Operations : Rename(c))
    BY <1>1, <2>2
       DEF FileNext, FileStep, WithLock, LockKey, LockStore, Open, WriteToken, TokenFails, KeyAbort,
           StoreTimeout, StopWaiting, NotBegun, Get, Read, WriteFails, Release, ReleaseReads,
           Unlink, Cancel, Die, Recover, data, fileVars
  <2> QED BY <2>1, <2>2
<1>2. FileInv /\ [FileNext]_fileVars => [\A k \in Entries : file[k] \subseteq file'[k]]_fileVars
  BY <1>1
<1> QED BY <1>2, FileInvariance, PTL DEF FileSpec, UpdatesKept
=============================================================================
