---------------------------- MODULE FileStoreProps ---------------------------
(***************************************************************************)
(* What FileStore guarantees, and the inductive invariant behind it.       *)
(***************************************************************************)
EXTENDS FileStore

\* The controller operations of a key exclude each other across processes, with
\* orphaned and half-written lock files around and an operator removing them.
Working(c) == Live(c) /\ pc[c] \in UsesKey \ {"keyOpen"}
KeyExclusion ==
  \A c, d \in Operations : Working(c) /\ Working(d) /\ key[c] = key[d] => c = d

\* "Read/modify/atomic-replace across different keys/processes": no replacement
\* of the map takes an update of any key back.
UpdatesKept == [][\A k \in Entries : file[k] \subseteq file'[k]]_fileVars

\* Once it has its key a call comes to an end, and an aborted one does even
\* while it waits for the key: no orphaned lock blocks it for good.
MustEnd(c) ==
  \/ pc[c] \notin {"idle", "keyWait", "done"}
  \/ pc[c] = "keyWait" /\ c \in cancelled
CallEnds == \A c \in Operations : MustEnd(c) ~> (pc[c] = "done" \/ ~Live(c))

(***************************************************************************)
(* The inductive invariant.                                                *)
(***************************************************************************)

\* The lock files a live call uses are its own.
HoldInv ==
  \A c \in Operations :
    Live(c) => /\ pc[c] \in UsesStore => lockfile[Store] = c
               /\ pc[c] \in UsesKey => lockfile[key[c]] = c

\* What a live call has read under a lock is still true.
FreshInv ==
  \A c \in Operations :
    Live(c) =>
      /\ pc[c] \in {"storeWait", "storeOpen", "store", "rename"}
           => seen[c] = file[key[c]]
      /\ pc[c] = "rename" => draft[c] = file

FileInv == FileTypeOK /\ HoldInv /\ FreshInv
=============================================================================
