----------------------- MODULE BridgeRequests_proofs -----------------------
(***************************************************************************)
(* Proofs about BridgeRequests.                                            *)
(***************************************************************************)
EXTENDS BridgeRequestsProps, TLAPS

(***************************************************************************)
(* The inductive invariant holds initially, and every action keeps each    *)
(* part of it.                                                             *)
(***************************************************************************)
LEMMA InitIInv == Init => IInv
<1> SUFFICES ASSUME Init PROVE IInv
  OBVIOUS
<1> USE RequestsAssumption, TaskOfAssumption, KindOfAssumption DEF Init, Requests
<1>1. TypeOK
  BY DEF TypeOK, States, Terminal
<1>2. PlaceInv /\ MessageInv /\ DrainInv
  BY DEF PlaceInv, MessageInv, DrainInv, InSdk, Admitted, closed
<1>3. OldInv
  BY DEF OldInv
<1>4. NewInv
  BY DEF NewInv
<1>5. ClaimInv /\ TurnInv
  BY DEF ClaimInv, TurnInv, Running, Continuing, Canceling
<1>6. ReservationsHeld /\ EventsAreConsumed
  BY DEF ReservationsHeld, EventsAreConsumed
<1> QED BY <1>1, <1>2, <1>3, <1>4, <1>5, <1>6 DEF IInv

LEMMA NextTypeOK == TypeOK /\ [Next]_vars => TypeOK'
<1> SUFFICES ASSUME TypeOK, [Next]_vars PROVE TypeOK'
  OBVIOUS
<1> USE RequestsAssumption, TaskOfAssumption, KindOfAssumption
        DEF TypeOK, Requests, InSdk, States, Terminal, Goto, Leave, Finish, Publish, Persist,
            Release, reservations, executor, store, shutdown
<1>1. ASSUME NEW r \in Requests, Enter(r) \/ Denied(r) \/ Load(r) PROVE TypeOK'
  BY <1>1 DEF Enter, Denied, Load
<1>2. ASSUME NEW r \in Requests, Reserve(r) \/ Start(r) PROVE TypeOK'
  BY <1>2 DEF Reserve, Start, Admissible, Continuable
<1>3. ASSUME NEW r \in Requests, Execute(r) PROVE TypeOK'
  BY <1>3 DEF Execute
<1>4. ASSUME NEW r \in Requests, EndTurn(r) PROVE TypeOK'
  BY <1>4 DEF EndTurn, Running
<1>5. ASSUME NEW r \in Requests, Consume(r) \/ ConsumeBehind(r) \/ Disconnect(r) PROVE TypeOK'
  BY <1>5 DEF Consume, ConsumeBehind, Disconnect
<1>6. ASSUME NEW k \in Requests, AdmitCancel(k) \/ SdkCancel(k) PROVE TypeOK'
  BY <1>6 DEF AdmitCancel, SdkCancel
<1>7. ASSUME NEW k \in Requests, ExecutorCancel(k) PROVE TypeOK'
  BY <1>7 DEF ExecutorCancel, Running
<1>8. ASSUME NEW k \in Requests, ConsumeCancel(k) PROVE TypeOK'
  BY <1>8 DEF ConsumeCancel
<1>9. CASE Close \/ RequestsClosed \/ BeginRecheck \/ Recheck
  BY <1>9 DEF Close, RequestsClosed, BeginRecheck, Recheck, Running
<1>10. CASE UNCHANGED vars
  BY <1>10 DEF vars
<1> QED BY <1>1, <1>2, <1>3, <1>4, <1>5, <1>6, <1>7, <1>8, <1>9, <1>10 DEF Next, Handle
\* Requests stay where their kind lives, and what is pending is held.
LEMMA NextPlaceInv == TypeOK /\ PlaceInv /\ TurnInv /\ [Next]_vars => PlaceInv'
<1> SUFFICES ASSUME TypeOK, PlaceInv, TurnInv, [Next]_vars PROVE PlaceInv'
  OBVIOUS
<1> USE RequestsAssumption, TaskOfAssumption, KindOfAssumption, NewAssumption
        DEF TypeOK, PlaceInv, TurnInv, Terminal, Requests, InSdk, Goto, Leave, Release, Finish,
            Publish, Persist, closed, Running, reservations, executor, store, shutdown
<1>1. ASSUME NEW r \in Requests, Enter(r) \/ Denied(r) \/ Load(r) PROVE PlaceInv'
  BY <1>1 DEF Enter, Denied, Load
<1>2. ASSUME NEW r \in Requests, Reserve(r) PROVE PlaceInv'
  BY <1>2 DEF Reserve, Admissible, Continuable, CanResume, Busy
<1>3. ASSUME NEW r \in Requests, Start(r) PROVE PlaceInv'
  BY <1>3 DEF Start
<1>4. ASSUME NEW r \in Requests, Execute(r) PROVE PlaceInv'
  BY <1>4 DEF Execute
<1>5. ASSUME NEW r \in Requests, EndTurn(r) PROVE PlaceInv'
  BY <1>5 DEF EndTurn
<1>6. ASSUME NEW r \in Requests, Consume(r) PROVE PlaceInv'
  BY <1>6 DEF Consume, Stops
<1>7. ASSUME NEW r \in Requests, ConsumeBehind(r) \/ Disconnect(r) PROVE PlaceInv'
  BY <1>7 DEF ConsumeBehind, Disconnect, Stops
<1>8. ASSUME NEW r \in Requests, AdmitCancel(r) PROVE PlaceInv'
  BY <1>8 DEF AdmitCancel, Cancelable, CanResume
<1>9. ASSUME NEW r \in Requests, SdkCancel(r) PROVE PlaceInv'
  BY <1>9 DEF SdkCancel, HasBus
<1>10. ASSUME NEW r \in Requests, ExecutorCancel(r) PROVE PlaceInv'
  BY <1>10 DEF ExecutorCancel, HasBus
<1>11. ASSUME NEW r \in Requests, ConsumeCancel(r) PROVE PlaceInv'
  BY <1>11 DEF ConsumeCancel, Stops
<1>12. CASE Close \/ RequestsClosed \/ BeginRecheck \/ Recheck
  BY <1>12 DEF Close, RequestsClosed, BeginRecheck, Recheck
<1>13. CASE UNCHANGED vars
  BY <1>13 DEF vars
<1> QED BY <1>1, <1>2, <1>3, <1>4, <1>5, <1>6, <1>7, <1>8, <1>9, <1>10, <1>11, <1>12, <1>13 DEF Next, Handle

\* Only a message that is not reserved is admitted.
LEMMA NextMessageInv == TypeOK /\ PlaceInv /\ MessageInv /\ [Next]_vars => MessageInv'
<1> SUFFICES ASSUME TypeOK, PlaceInv, MessageInv, [Next]_vars PROVE MessageInv'
  OBVIOUS
<1> USE RequestsAssumption, TaskOfAssumption, KindOfAssumption, NewAssumption
        DEF TypeOK, PlaceInv, MessageInv, Admitted, Requests, InSdk, Goto, Leave, Release, Finish,
            Publish, Persist, closed, Running, reservations, executor, store, shutdown
<1>1. ASSUME NEW r \in Requests, Enter(r) \/ Denied(r) \/ Load(r) PROVE MessageInv'
  BY <1>1 DEF Enter, Denied, Load
<1>2. ASSUME NEW r \in Requests, Reserve(r) PROVE MessageInv'
  BY <1>2 DEF Reserve, Admissible, Continuable, CanResume, Busy
<1>3. ASSUME NEW r \in Requests, Start(r) PROVE MessageInv'
  BY <1>3 DEF Start
<1>4. ASSUME NEW r \in Requests, Execute(r) PROVE MessageInv'
  BY <1>4 DEF Execute
<1>5. ASSUME NEW r \in Requests, EndTurn(r) PROVE MessageInv'
  BY <1>5 DEF EndTurn
<1>6. ASSUME NEW r \in Requests, Consume(r) PROVE MessageInv'
  BY <1>6 DEF Consume, Stops
<1>7. ASSUME NEW r \in Requests, ConsumeBehind(r) \/ Disconnect(r) PROVE MessageInv'
  BY <1>7 DEF ConsumeBehind, Disconnect, Stops
<1>8. ASSUME NEW r \in Requests, AdmitCancel(r) PROVE MessageInv'
  BY <1>8 DEF AdmitCancel, Cancelable, CanResume
<1>9. ASSUME NEW r \in Requests, SdkCancel(r) PROVE MessageInv'
  BY <1>9 DEF SdkCancel, HasBus
<1>10. ASSUME NEW r \in Requests, ExecutorCancel(r) PROVE MessageInv'
  BY <1>10 DEF ExecutorCancel, HasBus
<1>11. ASSUME NEW r \in Requests, ConsumeCancel(r) PROVE MessageInv'
  BY <1>11 DEF ConsumeCancel, Stops
<1>12. CASE Close \/ RequestsClosed \/ BeginRecheck \/ Recheck
  BY <1>12 DEF Close, RequestsClosed, BeginRecheck, Recheck
<1>13. CASE UNCHANGED vars
  BY <1>13 DEF vars
<1> QED BY <1>1, <1>2, <1>3, <1>4, <1>5, <1>6, <1>7, <1>8, <1>9, <1>10, <1>11, <1>12, <1>13 DEF Next, Handle

\* Nothing is held or run anew once the drain has looked.
LEMMA NextDrainInv == TypeOK /\ PlaceInv /\ DrainInv /\ [Next]_vars => DrainInv'
<1> SUFFICES ASSUME TypeOK, PlaceInv, DrainInv, [Next]_vars PROVE DrainInv'
  OBVIOUS
<1> USE RequestsAssumption, TaskOfAssumption, KindOfAssumption, NewAssumption
        DEF TypeOK, PlaceInv, DrainInv, Requests, InSdk, Goto, Leave, Release, Finish,
            Publish, Persist, closed, Running, reservations, executor, store, shutdown
<1>1. ASSUME NEW r \in Requests, Enter(r) \/ Denied(r) \/ Load(r) PROVE DrainInv'
  BY <1>1 DEF Enter, Denied, Load
<1>2. ASSUME NEW r \in Requests, Reserve(r) PROVE DrainInv'
  BY <1>2 DEF Reserve, Admissible, Continuable, CanResume, Busy
<1>3. ASSUME NEW r \in Requests, Start(r) PROVE DrainInv'
  BY <1>3 DEF Start
<1>4. ASSUME NEW r \in Requests, Execute(r) PROVE DrainInv'
  BY <1>4 DEF Execute
<1>5. ASSUME NEW r \in Requests, EndTurn(r) PROVE DrainInv'
  BY <1>5 DEF EndTurn
<1>6. ASSUME NEW r \in Requests, Consume(r) PROVE DrainInv'
  BY <1>6 DEF Consume, Stops
<1>7. ASSUME NEW r \in Requests, ConsumeBehind(r) \/ Disconnect(r) PROVE DrainInv'
  BY <1>7 DEF ConsumeBehind, Disconnect, Stops
<1>8. ASSUME NEW r \in Requests, AdmitCancel(r) PROVE DrainInv'
  BY <1>8 DEF AdmitCancel, Cancelable, CanResume
<1>9. ASSUME NEW r \in Requests, SdkCancel(r) PROVE DrainInv'
  BY <1>9 DEF SdkCancel, HasBus
<1>10. ASSUME NEW r \in Requests, ExecutorCancel(r) PROVE DrainInv'
  BY <1>10 DEF ExecutorCancel, HasBus
<1>11. ASSUME NEW r \in Requests, ConsumeCancel(r) PROVE DrainInv'
  BY <1>11 DEF ConsumeCancel, Stops
<1>12. CASE Close \/ RequestsClosed \/ BeginRecheck \/ Recheck
  BY <1>12 DEF Close, RequestsClosed, BeginRecheck, Recheck
<1>13. CASE UNCHANGED vars
  BY <1>13 DEF vars
<1> QED BY <1>1, <1>2, <1>3, <1>4, <1>5, <1>6, <1>7, <1>8, <1>9, <1>10, <1>11, <1>12, <1>13 DEF Next, Handle

\* A task without an executor can neither be continued nor canceled.
LEMMA NextOldInv == TypeOK /\ PlaceInv /\ OldInv /\ [Next]_vars => OldInv'
<1> SUFFICES ASSUME TypeOK, PlaceInv, OldInv, [Next]_vars PROVE OldInv'
  OBVIOUS
<1> USE RequestsAssumption, TaskOfAssumption, KindOfAssumption, NewAssumption
        DEF TypeOK, PlaceInv, OldInv, Terminal, Requests, InSdk, Goto, Leave, Release, Finish,
            Publish, Persist, closed, Running, reservations, executor, store, shutdown
<1>1. ASSUME NEW r \in Requests, Enter(r) \/ Denied(r) \/ Load(r) PROVE OldInv'
  BY <1>1 DEF Enter, Denied, Load
<1>2. ASSUME NEW r \in Requests, Reserve(r) PROVE OldInv'
  BY <1>2 DEF Reserve, Admissible, Continuable, CanResume, Busy
<1>3. ASSUME NEW r \in Requests, Start(r) PROVE OldInv'
  BY <1>3 DEF Start
<1>4. ASSUME NEW r \in Requests, Execute(r) PROVE OldInv'
  BY <1>4 DEF Execute
<1>5. ASSUME NEW r \in Requests, EndTurn(r) PROVE OldInv'
  BY <1>5 DEF EndTurn
<1>6. ASSUME NEW r \in Requests, Consume(r) PROVE OldInv'
  BY <1>6 DEF Consume, Stops
<1>7. ASSUME NEW r \in Requests, ConsumeBehind(r) \/ Disconnect(r) PROVE OldInv'
  BY <1>7 DEF ConsumeBehind, Disconnect, Stops
<1>8. ASSUME NEW r \in Requests, AdmitCancel(r) PROVE OldInv'
  BY <1>8 DEF AdmitCancel, Cancelable, CanResume
<1>9. ASSUME NEW r \in Requests, SdkCancel(r) PROVE OldInv'
  BY <1>9 DEF SdkCancel, HasBus
<1>10. ASSUME NEW r \in Requests, ExecutorCancel(r) PROVE OldInv'
  BY <1>10 DEF ExecutorCancel, HasBus
<1>11. ASSUME NEW r \in Requests, ConsumeCancel(r) PROVE OldInv'
  BY <1>11 DEF ConsumeCancel, Stops
<1>12. CASE Close \/ RequestsClosed \/ BeginRecheck \/ Recheck
  BY <1>12 DEF Close, RequestsClosed, BeginRecheck, Recheck
<1>13. CASE UNCHANGED vars
  BY <1>13 DEF vars
<1> QED BY <1>1, <1>2, <1>3, <1>4, <1>5, <1>6, <1>7, <1>8, <1>9, <1>10, <1>11, <1>12, <1>13 DEF Next, Handle

\* Nobody can name a new task before it is stored.
LEMMA NextNewInv == TypeOK /\ PlaceInv /\ NewInv /\ [Next]_vars => NewInv'
<1> SUFFICES ASSUME TypeOK, PlaceInv, NewInv, [Next]_vars PROVE NewInv'
  OBVIOUS
<1> USE RequestsAssumption, TaskOfAssumption, KindOfAssumption, NewAssumption
        DEF TypeOK, PlaceInv, NewInv, Terminal, Requests, InSdk, Goto, Leave, Release, Finish,
            Publish, Persist, closed, Running, reservations, executor, store, shutdown
<1>1. ASSUME NEW r \in Requests, Enter(r) \/ Denied(r) \/ Load(r) PROVE NewInv'
  BY <1>1 DEF Enter, Denied, Load
<1>2. ASSUME NEW r \in Requests, Reserve(r) PROVE NewInv'
  BY <1>2 DEF Reserve, Admissible, Continuable, CanResume, Busy
<1>3. ASSUME NEW r \in Requests, Start(r) PROVE NewInv'
  BY <1>3 DEF Start
<1>4. ASSUME NEW r \in Requests, Execute(r) PROVE NewInv'
  BY <1>4 DEF Execute
<1>5. ASSUME NEW r \in Requests, EndTurn(r) PROVE NewInv'
  BY <1>5 DEF EndTurn
<1>6. ASSUME NEW r \in Requests, Consume(r) PROVE NewInv'
  BY <1>6 DEF Consume, Stops
<1>7. ASSUME NEW r \in Requests, ConsumeBehind(r) \/ Disconnect(r) PROVE NewInv'
  BY <1>7 DEF ConsumeBehind, Disconnect, Stops
<1>8. ASSUME NEW r \in Requests, AdmitCancel(r) PROVE NewInv'
  BY <1>8 DEF AdmitCancel, Cancelable, CanResume
<1>9. ASSUME NEW r \in Requests, SdkCancel(r) PROVE NewInv'
  BY <1>9 DEF SdkCancel, HasBus
<1>10. ASSUME NEW r \in Requests, ExecutorCancel(r) PROVE NewInv'
  BY <1>10 DEF ExecutorCancel, HasBus
<1>11. ASSUME NEW r \in Requests, ConsumeCancel(r) PROVE NewInv'
  BY <1>11 DEF ConsumeCancel, Stops
<1>12. CASE Close \/ RequestsClosed \/ BeginRecheck \/ Recheck
  BY <1>12 DEF Close, RequestsClosed, BeginRecheck, Recheck
<1>13. CASE UNCHANGED vars
  BY <1>13 DEF vars
<1> QED BY <1>1, <1>2, <1>3, <1>4, <1>5, <1>6, <1>7, <1>8, <1>9, <1>10, <1>11, <1>12, <1>13 DEF Next, Handle

\* Admission looks at everything that has been admitted.
LEMMA NextClaimInv == TypeOK /\ PlaceInv /\ NewInv /\ ClaimInv /\ TurnInv /\ [Next]_vars => ClaimInv'
<1> SUFFICES ASSUME TypeOK, PlaceInv, NewInv, ClaimInv, TurnInv, [Next]_vars PROVE ClaimInv'
  OBVIOUS
<1> USE RequestsAssumption, TaskOfAssumption, KindOfAssumption, NewAssumption
        DEF TypeOK, PlaceInv, NewInv, ClaimInv, TurnInv, Continuing, Canceling, Requests, InSdk, Goto, Leave, Release, Finish,
            Publish, Persist, closed, Running, reservations, executor, store, shutdown
<1>1. ASSUME NEW r \in Requests, Enter(r) \/ Denied(r) \/ Load(r) PROVE ClaimInv'
  BY <1>1 DEF Enter, Denied, Load
<1>2. ASSUME NEW r \in Requests, Reserve(r) PROVE ClaimInv'
  BY <1>2 DEF Reserve, Admissible, Continuable, CanResume, Busy
<1>3. ASSUME NEW r \in Requests, Start(r) PROVE ClaimInv'
  BY <1>3 DEF Start
<1>4. ASSUME NEW r \in Requests, Execute(r) PROVE ClaimInv'
  BY <1>4 DEF Execute
<1>5. ASSUME NEW r \in Requests, EndTurn(r) PROVE ClaimInv'
  BY <1>5 DEF EndTurn
<1>6. ASSUME NEW r \in Requests, Consume(r) PROVE ClaimInv'
  BY <1>6 DEF Consume, Stops
<1>7. ASSUME NEW r \in Requests, ConsumeBehind(r) \/ Disconnect(r) PROVE ClaimInv'
  BY <1>7 DEF ConsumeBehind, Disconnect, Stops
<1>8. ASSUME NEW r \in Requests, AdmitCancel(r) PROVE ClaimInv'
  BY <1>8 DEF AdmitCancel, Cancelable, CanResume
<1>9. ASSUME NEW r \in Requests, SdkCancel(r) PROVE ClaimInv'
  BY <1>9 DEF SdkCancel, HasBus
<1>10. ASSUME NEW r \in Requests, ExecutorCancel(r) PROVE ClaimInv'
  BY <1>10 DEF ExecutorCancel, HasBus
<1>11. ASSUME NEW r \in Requests, ConsumeCancel(r) PROVE ClaimInv'
  BY <1>11 DEF ConsumeCancel, Stops
<1>12. CASE Close \/ RequestsClosed \/ BeginRecheck \/ Recheck
  BY <1>12 DEF Close, RequestsClosed, BeginRecheck, Recheck
<1>13. CASE UNCHANGED vars
  BY <1>13 DEF vars
<1> QED BY <1>1, <1>2, <1>3, <1>4, <1>5, <1>6, <1>7, <1>8, <1>9, <1>10, <1>11, <1>12, <1>13 DEF Next, Handle

\* A turn begins alone, and only its end is published while it runs.
LEMMA NextTurnInv == TypeOK /\ PlaceInv /\ NewInv /\ ClaimInv /\ TurnInv /\ [Next]_vars => TurnInv'
<1> SUFFICES ASSUME TypeOK, PlaceInv, NewInv, ClaimInv, TurnInv, [Next]_vars PROVE TurnInv'
  OBVIOUS
<1> USE RequestsAssumption, TaskOfAssumption, KindOfAssumption, NewAssumption
        DEF TypeOK, PlaceInv, NewInv, ClaimInv, TurnInv, Continuing, Canceling, Terminal, Requests, InSdk, Goto, Leave, Release, Finish,
            Publish, Persist, closed, Running, reservations, executor, store, shutdown
<1>1. ASSUME NEW r \in Requests, Enter(r) \/ Denied(r) \/ Load(r) PROVE TurnInv'
  BY <1>1 DEF Enter, Denied, Load
<1>2. ASSUME NEW r \in Requests, Reserve(r) PROVE TurnInv'
  BY <1>2 DEF Reserve, Admissible, Continuable, CanResume, Busy
<1>3. ASSUME NEW r \in Requests, Start(r) PROVE TurnInv'
  BY <1>3 DEF Start
<1>4. ASSUME NEW r \in Requests, Execute(r) PROVE TurnInv'
  BY <1>4 DEF Execute
<1>5. ASSUME NEW r \in Requests, EndTurn(r) PROVE TurnInv'
  BY <1>5 DEF EndTurn
<1>6. ASSUME NEW r \in Requests, Consume(r) PROVE TurnInv'
  BY <1>6 DEF Consume, Stops
<1>7. ASSUME NEW r \in Requests, ConsumeBehind(r) \/ Disconnect(r) PROVE TurnInv'
  BY <1>7 DEF ConsumeBehind, Disconnect, Stops
<1>8. ASSUME NEW r \in Requests, AdmitCancel(r) PROVE TurnInv'
  BY <1>8 DEF AdmitCancel, Cancelable, CanResume
<1>9. ASSUME NEW r \in Requests, SdkCancel(r) PROVE TurnInv'
  BY <1>9 DEF SdkCancel, HasBus
<1>10. ASSUME NEW r \in Requests, ExecutorCancel(r) PROVE TurnInv'
  BY <1>10 DEF ExecutorCancel, HasBus
<1>11. ASSUME NEW r \in Requests, ConsumeCancel(r) PROVE TurnInv'
  BY <1>11 DEF ConsumeCancel, Stops
<1>12. CASE Close \/ RequestsClosed \/ BeginRecheck \/ Recheck
  BY <1>12 DEF Close, RequestsClosed, BeginRecheck, Recheck
<1>13. CASE UNCHANGED vars
  BY <1>13 DEF vars
<1> QED BY <1>1, <1>2, <1>3, <1>4, <1>5, <1>6, <1>7, <1>8, <1>9, <1>10, <1>11, <1>12, <1>13 DEF Next, Handle

\* Whoever reserves releases when it leaves.
LEMMA NextReservationsHeld == TypeOK /\ PlaceInv /\ ReservationsHeld /\ [Next]_vars => ReservationsHeld'
<1> SUFFICES ASSUME TypeOK, PlaceInv, ReservationsHeld, [Next]_vars PROVE ReservationsHeld'
  OBVIOUS
<1> USE RequestsAssumption, TaskOfAssumption, KindOfAssumption, NewAssumption
        DEF TypeOK, PlaceInv, ReservationsHeld, Holds, Requests, InSdk, Goto, Leave, Release, Finish,
            Publish, Persist, closed, Running, reservations, executor, store, shutdown
<1>1. ASSUME NEW r \in Requests, Enter(r) \/ Denied(r) \/ Load(r) PROVE ReservationsHeld'
  BY <1>1 DEF Enter, Denied, Load
<1>2. ASSUME NEW r \in Requests, Reserve(r) PROVE ReservationsHeld'
  BY <1>2 DEF Reserve, Admissible, Continuable, CanResume, Busy
<1>3. ASSUME NEW r \in Requests, Start(r) PROVE ReservationsHeld'
  BY <1>3 DEF Start
<1>4. ASSUME NEW r \in Requests, Execute(r) PROVE ReservationsHeld'
  BY <1>4 DEF Execute
<1>5. ASSUME NEW r \in Requests, EndTurn(r) PROVE ReservationsHeld'
  BY <1>5 DEF EndTurn
<1>6. ASSUME NEW r \in Requests, Consume(r) PROVE ReservationsHeld'
  BY <1>6 DEF Consume, Stops
<1>7. ASSUME NEW r \in Requests, ConsumeBehind(r) \/ Disconnect(r) PROVE ReservationsHeld'
  BY <1>7 DEF ConsumeBehind, Disconnect, Stops
<1>8. ASSUME NEW r \in Requests, AdmitCancel(r) PROVE ReservationsHeld'
  BY <1>8 DEF AdmitCancel, Cancelable, CanResume
<1>9. ASSUME NEW r \in Requests, SdkCancel(r) PROVE ReservationsHeld'
  BY <1>9 DEF SdkCancel, HasBus
<1>10. ASSUME NEW r \in Requests, ExecutorCancel(r) PROVE ReservationsHeld'
  BY <1>10 DEF ExecutorCancel, HasBus
<1>11. ASSUME NEW r \in Requests, ConsumeCancel(r) PROVE ReservationsHeld'
  BY <1>11 DEF ConsumeCancel, Stops
<1>12. CASE Close \/ RequestsClosed \/ BeginRecheck \/ Recheck
  BY <1>12 DEF Close, RequestsClosed, BeginRecheck, Recheck
<1>13. CASE UNCHANGED vars
  BY <1>13 DEF vars
<1> QED BY <1>1, <1>2, <1>3, <1>4, <1>5, <1>6, <1>7, <1>8, <1>9, <1>10, <1>11, <1>12, <1>13 DEF Next, Handle

\* Whoever publishes or leaves lets somebody pull.
LEMMA NextEventsAreConsumed == TypeOK /\ PlaceInv /\ TurnInv /\ EventsAreConsumed /\ [Next]_vars => EventsAreConsumed'
<1> SUFFICES ASSUME TypeOK, PlaceInv, TurnInv, EventsAreConsumed, [Next]_vars PROVE EventsAreConsumed'
  OBVIOUS
<1> USE RequestsAssumption, TaskOfAssumption, KindOfAssumption, NewAssumption
        DEF TypeOK, PlaceInv, TurnInv, EventsAreConsumed, Pulls, Terminal, Requests, InSdk, Goto, Leave, Release, Finish,
            Publish, Persist, closed, Running, reservations, executor, store, shutdown
<1>1. ASSUME NEW r \in Requests, Enter(r) \/ Denied(r) \/ Load(r) PROVE EventsAreConsumed'
  BY <1>1 DEF Enter, Denied, Load
<1>2. ASSUME NEW r \in Requests, Reserve(r) PROVE EventsAreConsumed'
  BY <1>2 DEF Reserve, Admissible, Continuable, CanResume, Busy
<1>3. ASSUME NEW r \in Requests, Start(r) PROVE EventsAreConsumed'
  BY <1>3 DEF Start
<1>4. ASSUME NEW r \in Requests, Execute(r) PROVE EventsAreConsumed'
  BY <1>4 DEF Execute
<1>5. ASSUME NEW r \in Requests, EndTurn(r) PROVE EventsAreConsumed'
  BY <1>5 DEF EndTurn
<1>6. ASSUME NEW r \in Requests, Consume(r) PROVE EventsAreConsumed'
  BY <1>6 DEF Consume, Stops
<1>7. ASSUME NEW r \in Requests, ConsumeBehind(r) \/ Disconnect(r) PROVE EventsAreConsumed'
  BY <1>7 DEF ConsumeBehind, Disconnect, Stops
<1>8. ASSUME NEW r \in Requests, AdmitCancel(r) PROVE EventsAreConsumed'
  BY <1>8 DEF AdmitCancel, Cancelable, CanResume
<1>9. ASSUME NEW r \in Requests, SdkCancel(r) PROVE EventsAreConsumed'
  BY <1>9 DEF SdkCancel, HasBus
<1>10. ASSUME NEW r \in Requests, ExecutorCancel(r) PROVE EventsAreConsumed'
  BY <1>10 DEF ExecutorCancel, HasBus
<1>11. ASSUME NEW r \in Requests, ConsumeCancel(r) PROVE EventsAreConsumed'
  BY <1>11 DEF ConsumeCancel, Stops
<1>12. CASE Close \/ RequestsClosed \/ BeginRecheck \/ Recheck
  BY <1>12 DEF Close, RequestsClosed, BeginRecheck, Recheck
<1>13. CASE UNCHANGED vars
  BY <1>13 DEF vars
<1> QED BY <1>1, <1>2, <1>3, <1>4, <1>5, <1>6, <1>7, <1>8, <1>9, <1>10, <1>11, <1>12, <1>13 DEF Next, Handle
(***************************************************************************)
(* The theorems.                                                           *)
(***************************************************************************)

\* The inductive invariant of the admission of requests.
THEOREM Invariance == Spec => []IInv
<1>1. Init => IInv
  BY InitIInv
<1>2. IInv /\ [Next]_vars => IInv'
  BY NextTypeOK, NextPlaceInv, NextMessageInv, NextDrainInv, NextOldInv, NextNewInv,
     NextClaimInv, NextTurnInv, NextReservationsHeld, NextEventsAreConsumed DEF IInv
<1> QED BY <1>1, <1>2, PTL DEF Spec

\* Every reachable state of the handler and the executor is well typed.
THEOREM TypeCorrect == Spec => []TypeOK
<1>1. IInv => TypeOK
  BY DEF IInv
<1> QED BY <1>1, Invariance, PTL

\* However many duplicates of a message arrive, one is executed.
THEOREM OneExecution == Spec => []ExecutedOnce
<1>1. IInv => ExecutedOnce
  BY DEF IInv, MessageInv, Admitted, ExecutedOnce
<1> QED BY <1>1, Invariance, PTL

\* No reservation outlives the request that made it, while the bridge is open.
THEOREM NoLeftover == Spec => []ReservationsHeld
<1>1. IInv => ReservationsHeld
  BY DEF IInv
<1> QED BY <1>1, Invariance, PTL

\* A task of an earlier process is never called canceled.
THEOREM Orphans == Spec => []OrphansAreLeft
<1>1. IInv => OrphansAreLeft
  BY DEF IInv, OldInv, OrphansAreLeft, Terminal
<1> QED BY <1>1, Invariance, PTL

\* A complete close has seen the end of everything it admitted.
THEOREM QuietClose == Spec => []CompleteIsQuiet
<1>1. IInv => CompleteIsQuiet
  BY DEF IInv, DrainInv, PlaceInv, CompleteIsQuiet
<1> QED BY <1>1, Invariance, PTL

\* Whatever has been published is stored or still being pulled.
THEOREM Consumed == Spec => []EventsAreConsumed
<1>1. IInv => EventsAreConsumed
  BY DEF IInv
<1> QED BY <1>1, Invariance, PTL

\* A terminal state that has been published stays, whatever races with it.
THEOREM TerminalIsFinal == Spec => TerminalStays
<1>1. ASSUME IInv, [Next]_vars
      PROVE  [\A t \in Tasks : shown[t] \in Terminal /\ ~closed => shown'[t] = shown[t]]_vars
  <2> SUFFICES ASSUME NEW t \in Tasks, shown[t] \in Terminal, ~closed
               PROVE  shown'[t] = shown[t]
    OBVIOUS
  <2> USE <1>1, RequestsAssumption, TaskOfAssumption
          DEF IInv, TypeOK, Requests, Terminal, Publish
  <2>1. ASSUME NEW r \in Requests, Execute(r) PROVE shown'[t] = shown[t]
    <3>1. r \in New => shown[TaskOf[r]] = "none"
      BY <2>1 DEF Execute, NewInv
    <3>2. r \notin New => shown[TaskOf[r]] = "interrupted"
      BY <2>1 DEF Execute, ClaimInv, Continuing, TurnInv, PlaceInv, InSdk
    <3> QED BY <2>1, <3>1, <3>2 DEF Execute
  <2>2. ASSUME NEW r \in Requests, EndTurn(r) PROVE shown'[t] = shown[t]
    <3>1. shown[TaskOf[r]] = "working"
      BY <2>2 DEF EndTurn, TurnInv, Running
    <3> QED BY <2>2, <3>1 DEF EndTurn, Running
  <2>3. ASSUME NEW k \in Requests, SdkCancel(k) PROVE shown'[t] = shown[t]
    BY <2>3 DEF SdkCancel, HasBus
  <2>4. ASSUME NEW k \in Requests, ExecutorCancel(k) PROVE shown'[t] = shown[t]
    BY <2>4 DEF ExecutorCancel, TurnInv
  <2>5. ASSUME NEW r \in Requests,
               Enter(r) \/ Denied(r) \/ Load(r) \/ Reserve(r) \/ Start(r) \/ Consume(r)
               \/ ConsumeBehind(r) \/ Disconnect(r) \/ AdmitCancel(r) \/ ConsumeCancel(r)
        PROVE  shown'[t] = shown[t]
    BY <2>5 DEF Enter, Denied, Load, Reserve, Start, Consume, ConsumeBehind, Disconnect,
       AdmitCancel, ConsumeCancel, store
  <2>6. CASE Close \/ RequestsClosed \/ BeginRecheck \/ Recheck \/ UNCHANGED vars
    BY <2>6 DEF Close, RequestsClosed, BeginRecheck, Recheck, store, vars
  <2> QED BY <2>1, <2>2, <2>3, <2>4, <2>5, <2>6 DEF Next, Handle
<1> QED BY <1>1, Invariance, PTL DEF Spec, TerminalStays
=============================================================================
