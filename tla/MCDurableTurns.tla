--------------------------- MODULE MCDurableTurns ---------------------------
(***************************************************************************)
(* Small instances of DurableTurns for TLC.                                *)
(***************************************************************************)
EXTENDS DurableTurnsProps, TLC

CONSTANTS m0, m1, m2, x1, x2

\* One message, and two of one context.
Alone == [m \in {m1} |-> x1]
OneContext == [m \in {m1, m2} |-> x1]
AfterM0 == [m \in {m0, m1, m2} |-> x1]

\* States of DurableTurns in which an earlier message is over: its row was
\* pruned, or it was refused and the SDK has saved that it failed, which takes
\* room from the others.
MCInit ==
  /\ \E task \in {"none", "failed"} :
       tasks = [m \in Messages |-> IF m = m0 THEN task ELSE "none"]
  /\ tombstones = {m0}
  /\ phase = [m \in Messages |-> "none"]
  /\ stopped = [m \in Messages |-> FALSE]
  /\ cancelRequested = [m \in Messages |-> FALSE]
  /\ publication = [m \in Messages |-> "none"]
  /\ mapping = [x \in Contexts |-> None]
  /\ remote = [m \in Messages |-> "none"]
  /\ sends = [m \in Messages |-> 0]
  /\ proc = "down" /\ toRecover = {} /\ resolving = None /\ crashes = 0
  /\ pc = [m \in Messages |-> "idle"]
  /\ outcome = [m \in Messages |-> "none"]
  /\ abort = [m \in Messages |-> FALSE]
  /\ ahead = [m \in Messages |-> {}]
  /\ draft = [m \in Messages |-> NoDraft]
  /\ quarantine = {} /\ finalizationFailures = {} /\ cancelling = {} /\ bus = {}
MCSpec == MCInit /\ [][Next]_vars /\ Fairness

\* All that the properties of MCCrash and MCSettles tell apart: nothing reads the
\* intent of a cancellation but the writes that carry it from row to row, and no
\* fair step changes it alone (MCCancel looks at it).
Visible == <<phase, stopped, publication, tasks, tombstones, mapping, agent,
             owner, pc, outcome, abort, ahead,
             [m \in Messages |-> draft[m].stopped], memory>>

Symmetric == Permutations({m1, m2})
=============================================================================
