-------------------------- MODULE NotificationLedger --------------------------
(***************************************************************************)
(* The receiver of push notifications in the reference agent               *)
(* (webhook_receiver.py): events of one task are recorded once however     *)
(* often they come, and the state of the task is followed although they    *)
(* may come late.                                                          *)
(***************************************************************************)
EXTENDS Naturals

CONSTANT Events   \* the notifications of the task

VARIABLES
  trace,    \* the state each event tells of, which never changes
  count,    \* deliveryCount of the record of each event, 0 without one
  current   \* _task_states.get(task_id)

ledger == <<trace, count, current>>

Terminal == {"final"}   \* completed, failed, canceled or rejected
States == {"working", "interrupted"} \cup Terminal
\* STATE_ORDER
Rank(s) == CASE s = "working" -> 2 [] s = "interrupted" -> 3 [] s \in Terminal -> 4
             [] OTHER -> 0

LedgerOK ==
  /\ trace \in [Events -> States] /\ count \in [Events -> Nat]
  /\ current \in States \cup {"none"}

\* A task ends once, with its last event.
Legal(t) == \A e \in Events : t[e] \in Terminal => \A d \in Events : d <= e
LedgerInit ==
  /\ trace \in {t \in [Events -> States] : Legal(t)}
  /\ count = [e \in Events |-> 0] /\ current = "none"

\* Mutant: the state of the latest notification is taken.
FollowLatest(s) == s
\* A terminal state is kept, and no state is taken back for an earlier one.
Follow(s) ==
  IF current = "none" \/ (current \notin Terminal /\ Rank(s) >= Rank(current))
  THEN s ELSE current
\* record(): a known fingerprint is counted, and changes nothing else.
Record(e) ==
  /\ count' = [count EXCEPT ![e] = @ + 1]
  /\ current' = IF count[e] > 0 THEN current ELSE Follow(trace[e])
  /\ UNCHANGED trace
=============================================================================
