----------------------------- MODULE PushToLedger -----------------------------
(***************************************************************************)
(* The bridge's push delivery (PushDelivery) with the reference receiver   *)
(* (NotificationLedger) at the first callback.  A request whose delivery   *)
(* was given up, or whose answer was lost, may arrive all the same, and    *)
(* late.                                                                   *)
(***************************************************************************)
EXTENDS PushDelivery, NotificationLedger

ASSUME EventsAssumption == Events = Sends

VARIABLE
  arrived   \* transports whose request has reached the receiver

allVars == <<vars, ledger, arrived>>

BothTypeOK == TypeOK /\ LedgerOK /\ arrived \subseteq transports

BothInit == Init /\ LedgerInit /\ arrived = {}

\* receive(): the token matches and the body is an event of the task.
Arrive(x) ==
  /\ x \in transports \ arrived /\ x[2] = 1
  /\ x = Current(x[1]) => response[x[1]] = "none"
  /\ arrived' = arrived \cup {x}
  /\ Record(x[1])
  /\ UNCHANGED vars

\* The receiver answers what it has recorded; whatever else a sender sees
\* comes from the network or from another callback.
Answers(s) ==
  config[s] = 1 /\ response'[s] = "ok" => Current(s) \in arrived
Deliver ==
  /\ Next
  /\ \A s \in Sends : response'[s] # response[s] => Answers(s)
  /\ arrived' = arrived \cap transports'
  /\ UNCHANGED ledger

LedgerNext == Deliver \/ \E x \in transports : Arrive(x)
LedgerSpec ==
  /\ BothInit /\ [][LedgerNext]_allVars
  /\ \A s \in Sends : WF_vars(Step(s)) /\ WF_vars(Timeout(s))
=============================================================================
