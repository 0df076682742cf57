------------------------- MODULE ConversationInputs -------------------------
(***************************************************************************)
(* What the bridge promises about a Letta conversation, whatever happens   *)
(* to its processes: an input is submitted at most once, and never while   *)
(* another input of the same A2A context may still be running.             *)
(***************************************************************************)
CONSTANTS Messages, Contexts, ContextOf

VARIABLE input   \* fate of each message's input at the remote agent

Init == input = [m \in Messages |-> "none"]

\* An input starts to run; no other input of its context is running.
Submit(m) ==
  /\ input[m] = "none"
  /\ \A n \in Messages : ContextOf[n] = ContextOf[m] => input[n] # "running"
  /\ input' = [input EXCEPT ![m] = "running"]

Finish(m) ==
  /\ input[m] = "running"
  /\ input' = [input EXCEPT ![m] = "finished"]

Next == \E m \in Messages : Submit(m) \/ Finish(m)

Spec == Init /\ [][Next]_input
=============================================================================
