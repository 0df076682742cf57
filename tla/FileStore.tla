------------------------------ MODULE FileStore ------------------------------
(***************************************************************************)
(* FileContextStore (context-store.ts): a map in one file, shared by       *)
(* processes.  A lock file per key covers a controller operation; another  *)
(* covers the replacement of the whole map.  A lock file is created with   *)
(* O_EXCL, gets a token, and is removed by the call whose token it holds.  *)
(*                                                                         *)
(* A call here takes the lock of its key, reads the value of the key, and  *)
(* sets it to what it read with itself added.                              *)
(***************************************************************************)
CONSTANTS
  Operations,         \* calls that set a value under the lock of its key
  Entries,            \* the keys of the map
  Processes,
  ProcessOf,          \* the process of each call
  Store,              \* the path of the write lock
  Free                \* no lock file

ASSUME ProcessOfAssumption == ProcessOf \in [Operations -> Processes]
ASSUME PathAssumption == Store \notin Entries
ASSUME FreeAssumption == Free \notin Operations

VARIABLES
  pc,        \* where each call is
  file,      \* the map on disk: here, the calls whose update a value contains
  lockfile,  \* the call whose token the lock file of a path holds, or will
  partial,   \* paths whose lock file has no complete token
  seen,      \* the value of the key a call has read
  draft,     \* the map a call has read under the write lock
  cancelled, \* calls whose signal is aborted
  dead,      \* processes that have died
  key        \* the key of each call, which never changes

fileVars == <<pc, file, lockfile, partial, seen, draft, cancelled, dead, key>>

Paths == Entries \cup {Store}
Value == SUBSET Operations
Places == {"idle", "keyWait", "keyOpen", "work", "storeWait", "storeOpen", "store",
           "rename", "storeRelease", "storeUnlink", "keyRelease", "keyUnlink", "done"}

\* The places from which a call still uses its two lock files.
UsesStore == {"storeOpen", "store", "rename", "storeRelease", "storeUnlink"}
UsesKey == UsesStore \cup {"keyOpen", "work", "storeWait", "keyRelease", "keyUnlink"}

FileTypeOK ==
  /\ pc \in [Operations -> Places]
  /\ file \in [Entries -> Value]
  /\ lockfile \in [Paths -> Operations \cup {Free}]
  /\ partial \subseteq Paths
  /\ seen \in [Operations -> Value]
  /\ draft \in [Operations -> [Entries -> Value]]
  /\ cancelled \subseteq Operations
  /\ dead \subseteq Processes
  /\ key \in [Operations -> Entries]

FileInit ==
  /\ pc = [c \in Operations |-> "idle"]
  /\ file = [k \in Entries |-> {}]
  /\ lockfile = [p \in Paths |-> Free]
  /\ partial = {}
  /\ seen = [c \in Operations |-> {}]
  /\ draft = [c \in Operations |-> [k \in Entries |-> {}]]
  /\ cancelled = {} /\ dead = {}
  /\ key \in [Operations -> Entries]

Live(c) == ProcessOf[c] \notin dead
Goto(c, from, to) == Live(c) /\ pc[c] = from /\ pc' = [pc EXCEPT ![c] = to]
locks == <<lockfile, partial>>
data == <<file, seen, draft>>
faults == <<cancelled, dead, key>>

\* signal.throwIfAborted() comes before everything else.
WithLock(c) ==
  /\ Goto(c, "idle", IF c \in cancelled THEN "done" ELSE "keyWait")
  /\ UNCHANGED <<locks, data, faults>>

\* Mutant: a lock without a token is taken over.
OpenStealing(c, path, from, to) ==
  /\ Goto(c, from, to)
  /\ lockfile[path] = Free \/ path \in partial
  /\ lockfile' = [lockfile EXCEPT ![path] = c] /\ partial' = partial \cup {path}
  /\ UNCHANGED <<data, faults>>

\* open(path, "wx"): fails while the lock file exists, whoever left it.
Open(c, path, from, to) ==
  /\ Goto(c, from, to)
  /\ lockfile[path] = Free
  /\ lockfile' = [lockfile EXCEPT ![path] = c] /\ partial' = partial \cup {path}
  /\ UNCHANGED <<data, faults>>

\* The token is written in full.
WriteToken(c, path, from, to) ==
  /\ Goto(c, from, to)
  /\ partial' = partial \ {path}
  /\ UNCHANGED <<lockfile, data, faults>>

\* Or the write fails, and the call with it.  A partial token stays.
TokenFails(c, path, from, to) ==
  /\ Goto(c, from, to)
  /\ \/ UNCHANGED locks
     \/ lockfile' = [lockfile EXCEPT ![path] = Free] /\ partial' = partial \ {path}
  /\ UNCHANGED <<data, faults>>

\* The wait ends with the signal: the caller's for a key, a timer for the store.
StopWaiting(c, from, to) ==
  /\ Goto(c, from, to)
  /\ UNCHANGED <<locks, data, faults>>

\* The signal is looked at once more; an abort after that does not stop work.
NotBegun(c) ==
  /\ c \in cancelled /\ Goto(c, "work", "keyRelease")
  /\ UNCHANGED <<locks, data, faults>>
Get(c) ==
  /\ Goto(c, "work", "storeWait")
  /\ seen' = [seen EXCEPT ![c] = file[key[c]]]
  /\ UNCHANGED <<file, draft, locks, faults>>

\* Mutant: nothing but the own key is read.
ReadKey(c) ==
  /\ Goto(c, "store", "rename")
  /\ draft' = [draft EXCEPT ![c][key[c]] = file[key[c]]]
  /\ UNCHANGED <<file, seen, locks, faults>>

\* Read the whole map, change the key, write a temporary file.
Read(c) ==
  /\ Goto(c, "store", "rename")
  /\ draft' = [draft EXCEPT ![c] = file]
  /\ UNCHANGED <<file, seen, locks, faults>>

\* The temporary file replaces the map at once, or the write fails.
Rename(c) ==
  /\ Goto(c, "rename", "storeRelease")
  /\ file' = [draft[c] EXCEPT ![key[c]] = seen[c] \cup {c}]
  /\ UNCHANGED <<seen, draft, locks, faults>>
WriteFails(c) ==
  /\ Goto(c, "store", "storeRelease") \/ Goto(c, "rename", "storeRelease")
  /\ UNCHANGED <<locks, data, faults>>

\* Release reads the token and unlinks the file it holds, in two steps; a read
\* error leaves the file where it is.
ReleaseReads(c, path, from, unlink, next) ==
  /\ \/ lockfile[path] = c /\ path \notin partial /\ Goto(c, from, unlink)
     \/ Goto(c, from, next)
  /\ UNCHANGED <<locks, data, faults>>
Unlink(c, path, from, to) ==
  /\ Goto(c, from, to)
  /\ lockfile' = [lockfile EXCEPT ![path] = Free]
  /\ UNCHANGED <<partial, data, faults>>

Cancel(c) ==
  /\ c \notin cancelled /\ cancelled' = cancelled \cup {c}
  /\ UNCHANGED <<pc, dead, key, locks, data>>
Die(p) ==
  /\ p \notin dead /\ dead' = dead \cup {p}
  /\ UNCHANGED <<pc, cancelled, key, locks, data>>

\* External: the operator removes a lock file after confirming that no process
\* is using it, as the error message demands.
Recover(path) ==
  /\ lockfile[path] # Free
  /\ LET c == lockfile[path] IN
       ~Live(c) \/ pc[c] \notin (IF path = Store THEN UsesStore ELSE UsesKey)
  /\ lockfile' = [lockfile EXCEPT ![path] = Free] /\ partial' = partial \ {path}
  /\ UNCHANGED <<pc, data, faults>>

LockKey(c) ==
  \/ Open(c, key[c], "keyWait", "keyOpen")
  \/ WriteToken(c, key[c], "keyOpen", "work")
  \/ TokenFails(c, key[c], "keyOpen", "done")
LockStore(c) ==
  \/ Open(c, Store, "storeWait", "storeOpen")
  \/ WriteToken(c, Store, "storeOpen", "store")
  \/ TokenFails(c, Store, "storeOpen", "keyRelease")
KeyAbort(c) == c \in cancelled /\ StopWaiting(c, "keyWait", "done")
\* Mutant: the wait for the store has no timer of its own.
NoTimeout(c) == c \in cancelled /\ StopWaiting(c, "storeWait", "keyRelease")
StoreTimeout(c) == StopWaiting(c, "storeWait", "keyRelease")
Release(c) ==
  \/ ReleaseReads(c, Store, "storeRelease", "storeUnlink", "keyRelease")
  \/ Unlink(c, Store, "storeUnlink", "keyRelease")
  \/ ReleaseReads(c, key[c], "keyRelease", "keyUnlink", "done")
  \/ Unlink(c, key[c], "keyUnlink", "done")

FileStep(c) == \/ WithLock(c) \/ LockKey(c) \/ NotBegun(c) \/ Get(c) \/ LockStore(c) \/ KeyAbort(c)
           \/ StoreTimeout(c) \/ Read(c) \/ Rename(c) \/ WriteFails(c) \/ Release(c)

FileNext == \/ \E c \in Operations : FileStep(c) \/ Cancel(c)
        \/ \E p \in Processes : Die(p)
        \/ \E path \in Paths : Recover(path)

FileSpec == FileInit /\ [][FileNext]_fileVars

\* Whatever file operation a live call has started ends, and the timer of set()
\* fires, as does an abort.  Nobody promises a lock to a call that polls for it.
FairSpec ==
  /\ FileSpec
  /\ \A c \in Operations : /\ WF_fileVars(pc[c] \notin {"idle", "keyWait"} /\ FileStep(c))
                      /\ WF_fileVars(KeyAbort(c)) /\ WF_fileVars(StoreTimeout(c))
=============================================================================
