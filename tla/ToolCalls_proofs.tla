--------------------------- MODULE ToolCalls_proofs ---------------------------
(***************************************************************************)
(* Proofs about ToolCalls.                                                 *)
(***************************************************************************)
EXTENDS ToolCallsProps, TLAPS

(***************************************************************************)
(* The size of a report on the last rung.                                  *)
(***************************************************************************)

\* At the last rung two entries of a list and a hundred characters are left.
LEMMA LastRungIs == LastRung.limit = 100 /\ LastRung.count = 2
  BY DEF LastRung, Ladder

\* The names, each by itself.
LEMMA Lengths ==
  /\ Names["type"] = 4 /\ Names["text"] = 4
  /\ Names["filename"] = 8 /\ Names["mediaType"] = 9
  /\ Names["url"] = 3 /\ Names["summary"] = 7
  /\ Names["preview"] = 7 /\ Names["properties"] = 10
  /\ Names["valuesOmitted"] = 13 /\ Names["byteCount"] = 9
  /\ Names["bytesOmitted"] = 12 /\ Names["parts"] = 5
  /\ Names["omittedParts"] = 12 /\ Names["messageId"] = 9
  /\ Names["artifactId"] = 10 /\ Names["name"] = 4
  /\ Names["target"] = 6 /\ Names["status"] = 6
  /\ Names["taskId"] = 6 /\ Names["contextId"] = 9
  /\ Names["artifacts"] = 9 /\ Names["statusMessage"] = 13
  /\ Names["omittedArtifacts"] = 16 /\ Names["omittedHistoryMessages"] = 22
  /\ Names["cancellation"] = 12 /\ Names["error"] = 5
  /\ Names["submissionAttempted"] = 19 /\ Names["cancellationTaskId"] = 18
  /\ Names["cancellationContextId"] = 21 /\ Names["cancellationStatus"] = 18
  BY DEF Names

LEMMA Strings ==
  Remote(LastRung) = 631 /\ Own(LastRung) = 231 /\ Route(LastRung) = 131
  BY LastRungIs DEF Remote, Own, Route, Clip, Digits

\* A text is the smaller part, though it fills the joined text too.
LEMMA PartSizes ==
  /\ TextPart(LastRung) \in 0..654
  /\ \A kind \in {"data", "raw", "url"} : OtherPart(LastRung, kind) \in 0..1540
<1>1. TextPart(LastRung) \in 0..654
  BY Strings, Lengths DEF TextPart, Object, Field, Kind
<1>2. OtherPart(LastRung, "data") \in 0..1540
  BY Strings, LastRungIs, Lengths DEF OtherPart, Object, Field, Digits, Kind
<1>3. OtherPart(LastRung, "raw") \in 0..1540
  BY Strings, LastRungIs, Lengths DEF OtherPart, Object, Field, Digits, Kind
<1>4. OtherPart(LastRung, "url") \in 0..1540
  BY Strings, LastRungIs, Lengths DEF OtherPart, Object, Field, Digits, Kind
<1> QED BY <1>1, <1>2, <1>3, <1>4

\* The texts of a list, joined: the more of them, the shorter is the rest.
LEMMA JoinedIs ==
  ASSUME NEW texts
  PROVE  Joined(LastRung, texts) = IF texts = 0 THEN 10 ELSE 639
  BY Strings, Lengths DEF Joined, Field

\* A message, and the artifacts of a task.
LEMMA MessageBound ==
  ASSUME NEW kind \in {"data", "raw", "url"}, NEW texts \in 0..2
  PROVE  PreviewMessage(LastRung, texts, kind) \in 0..3772
<1> DEFINE t == TextPart(LastRung)
           o == OtherPart(LastRung, kind)
           joined == Joined(LastRung, texts)
           parts == texts * t + (2 - texts) * o
<1>1. t \in 0..654 /\ o \in 0..1540
  BY PartSizes
<1>2. joined = IF texts = 0 THEN 10 ELSE 639
  BY JoinedIs
<1>3. Parts(LastRung, 2, texts, kind) = parts
  BY DEF Parts
<1> HIDE DEF t, o, joined
<1>4. parts \in 0..3080 /\ joined + parts \in 0..3090
  <2>1. CASE texts = 0
    BY <1>1, <1>2, <2>1
  <2>2. CASE texts = 1
    BY <1>1, <1>2, <2>2
  <2>3. CASE texts = 2
    BY <1>1, <1>2, <2>3
  <2> QED BY <2>1, <2>2, <2>3
<1> HIDE DEF parts
<1>5. PreviewMessage(LastRung, texts, kind) = 635 + 9 + joined + 9 + (parts + 3) + 26
  BY <1>2, <1>3, <1>4, LastRungIs, Strings, Lengths
     DEF PreviewMessage, List, Field, Digits, joined
<1> QED BY <1>2, <1>4, <1>5

LEMMA ArtifactsBound ==
  ASSUME NEW kind \in {"data", "raw", "url"}, NEW texts \in 0..4
  PROVE  Artifacts(LastRung, texts, kind) \in 0..(8816 - Joined(LastRung, texts))
<1> DEFINE t == TextPart(LastRung)
           o == OtherPart(LastRung, kind)
           parts == texts * t + (4 - texts) * o
           fixed == Object(Field("artifactId", 631) + Field("name", 631)
                             + Field("parts", List(2, 0)) + Field("omittedParts", 10))
<1>1. t \in 0..654 /\ o \in 0..1540
  BY PartSizes
<1>2. fixed = 1323
  BY Lengths DEF Object, Field, List
<1>3. Parts(LastRung, 4, texts, kind) = parts
  BY DEF Parts
<1> HIDE DEF t, o, fixed
<1>4. parts \in 0..(IF texts = 0 THEN 6160 ELSE 5274)
  <2>1. CASE texts = 0
    BY <1>1, <2>1
  <2>2. CASE texts = 1
    BY <1>1, <2>2
  <2>3. CASE texts = 2
    BY <1>1, <2>3
  <2>4. CASE texts = 3
    BY <1>1, <2>4
  <2>5. CASE texts = 4
    BY <1>1, <2>5
  <2> QED BY <2>1, <2>2, <2>3, <2>4, <2>5
<1> HIDE DEF parts
<1>5. Artifacts(LastRung, texts, kind) = 2 * fixed + parts
  <2>1. LastRung.count * LastRung.count = 4
    BY LastRungIs
  <2> QED BY <1>3, <2>1, LastRungIs, Strings DEF Artifacts, Digits, fixed
<1> QED BY <1>2, <1>4, <1>5, JoinedIs

\* A task is larger than a Message.
LEMMA ProjectionBound ==
  ASSUME NEW r \in Results
  PROVE  Projection(r, LastRung) \in 0..14140
<1>1. PICK kind \in {"data", "raw", "url"}, texts \in 0..2, many \in 0..4 :
        kind = r.rest /\ texts = r.texts /\ many = r.artifactTexts
  BY LastRungIs DEF Results
<1> DEFINE message == PreviewMessage(LastRung, texts, kind)
           joined == Joined(LastRung, many)
           artifacts == Artifacts(LastRung, many, kind)
<1>2. message \in 0..3772
  BY MessageBound
<1>3. artifacts \in 0..(8816 - joined)
  BY ArtifactsBound
<1>4. joined = IF many = 0 THEN 10 ELSE 639
  BY JoinedIs
<1> HIDE DEF message, joined, artifacts
<1>5. joined \in Int /\ artifacts \in Int /\ joined + artifacts \in 0..8816
  BY <1>3, <1>4
<1>6. CASE r.direct
  <2>1. Projection(r, LastRung) = 141 + 26 + 641 + 644 + message
    BY <1>1, <1>2, <1>6, Strings, Lengths DEF Projection, Field, State, message
  <2> QED BY ONLY <1>2, <2>1
<1>7. CASE ~r.direct
  <2>1. Projection(r, LastRung) =
          Field("target", Route(LastRung)) + Field("status", State)
            + Field("taskId", Remote(LastRung)) + Field("contextId", Remote(LastRung))
            + (joined + Field("statusMessage", Object(message))
                 + Field("artifacts", List(2, artifacts))
                 + Field("omittedArtifacts", Digits) + Field("omittedHistoryMessages", Digits))
    BY <1>1, <1>7, LastRungIs DEF Projection, message, joined, artifacts
  <2>2. Projection(r, LastRung) =
          141 + 26 + 641 + 644 + (joined + (17 + message + 1) + (13 + artifacts + 3) + 30 + 36)
    BY <1>2, <1>5, <2>1, Strings, Lengths DEF List, Object, Field, Digits, State
  <2> QED BY ONLY <1>2, <1>5, <2>2
<1> QED BY <1>6, <1>7

\* What runA2ATool adds to the largest projection still fits.
LEMMA SizeBound ==
  ASSUME NEW r \in Results, NEW extra \in Extras
  PROVE  ContentSize(r, LastRung, extra) \in 0..Budget
<1> DEFINE q == [r EXCEPT !.direct = FALSE]
           p == Projection(r, LastRung)
           f == Projection(q, LastRung)
<1>1. q \in Results
  BY DEF Results
<1>2. p \in 0..14140 /\ f \in 0..14140
  BY <1>1, ProjectionBound
<1>3. Failure(231) = 309 /\ Failure(631) = 709
  BY Lengths DEF Failure, Field, Confirmation
<1> HIDE DEF q, p, f
<1>4. CASE extra = "none"
  <2>1. ContentSize(r, LastRung, extra) = Object(p)
    BY <1>4 DEF ContentSize, p
  <2> QED BY <1>2, <2>1 DEF Object, Budget
<1>5. CASE extra = "action"
  <2>1. ContentSize(r, LastRung, extra) = Object(p + Field("cancellation", Confirmation))
    BY <1>5 DEF ContentSize, p
  <2> QED BY <1>2, <2>1, Lengths DEF Object, Field, Confirmation, Budget
<1>6. CASE extra = "failure"
  <2>1. ContentSize(r, LastRung, extra) =
          Object(f + 309 + Field("messageId", MessageID) + Field("cancellationTaskId", 631)
                   + Field("cancellationContextId", 631) + Field("cancellationStatus", State))
    BY <1>3, <1>6, Strings DEF ContentSize, f, q
  <2> QED BY <1>2, <2>1, Lengths DEF Object, Field, MessageID, State, Budget
<1>7. CASE extra = "readback"
  <2>1. ContentSize(r, LastRung, extra) =
          Object(Field("target", 631) + Field("status", State) + Field("taskId", 631)
                   + Field("contextId", 631) + 709 + Field("messageId", 631))
    BY <1>3, <1>7, Strings DEF ContentSize
  <2> QED BY <2>1, Lengths DEF Object, Field, State, Budget
<1> QED BY <1>4, <1>5, <1>6, <1>7 DEF Extras

\* Every report fits the last rung, even if each character of the remote's
\* takes six in JSON (tool-operations.ts:391-422).
THEOREM ReportsFit ==
  \A r \in Results, extra \in Extras : ContentSize(r, LastRung, extra) <= Budget
<1> SUFFICES ASSUME NEW r \in Results, NEW extra \in Extras
             PROVE  ContentSize(r, LastRung, extra) <= Budget
  OBVIOUS
<1> DEFINE size == ContentSize(r, LastRung, extra)
<1>1. size \in 0..Budget
  BY SizeBound
<1> HIDE DEF size
<1>2. size <= Budget
  BY <1>1 DEF Budget
<1> QED BY <1>2 DEF size

\* So no report is dropped.
LEMMA NothingOmitted == Omitted = {}
<1>1. ASSUME NEW extra \in Extras, NEW r \in Results
      PROVE  ~(ContentSize(r, LastRung, extra) > Budget)
  <2> DEFINE size == ContentSize(r, LastRung, extra)
  <2>1. size \in 0..Budget
    BY SizeBound
  <2> HIDE DEF size
  <2>2. ~(size > Budget)
    BY <2>1 DEF Budget
  <2> QED BY <2>2 DEF size
<1> QED BY <1>1 DEF Omitted

(***************************************************************************)
(* The steps of a session.                                                 *)
(***************************************************************************)

\* A report says of the attempt what it is made of.
LEMMA ReportFields ==
  /\ \A r \in Reports : r.attempted \in BOOLEAN
  /\ Nothing \in Reports /\ Nothing.attempted = FALSE
  BY DEF Reports, Nothing

LEMMA ReportsOf ==
  ASSUME NEW att \in BOOLEAN, NEW extra, NEW r \in Report(att, extra)
  PROVE  r \in Reports /\ r.attempted = att
  BY DEF Report, Reports, Contents

LEMMA CutReport ==
  ASSUME NEW c, NEW r \in CutReports(c)
  PROVE  r \in Reports /\ (r.attempted <=> c \in attempted)
<1>1. PICK extra \in {"readback", "failure"} : r \in Report(c \in attempted, extra)
  BY DEF CutReports
<1>2. CASE c \in attempted
  <2>1. (c \in attempted) = TRUE
    BY <1>2
  <2>2. r \in Report(TRUE, extra)
    BY <1>1, <2>1
  <2> QED BY <1>2, <2>2, ReportsOf
<1>3. CASE c \notin attempted
  <2>1. (c \in attempted) = FALSE
    BY <1>3
  <2>2. r \in Report(FALSE, extra)
    BY <1>1, <2>1
  <2> QED BY <1>3, <2>2, ReportsOf
<1> QED BY <1>2, <1>3

\* What a cut answers is what has been noted.
LEMMA CutAnswers ==
  ASSUME NEW cs \in SUBSET Calls, CutAll(cs)
  PROVE  \A c \in cs : report'[c].attempted <=> c \in attempted
  BY CutReport DEF CutAll

LEMMA SignalAnswers ==
  ASSUME NEW signals, NEW own, Signal(signals, own)
  PROVE  /\ CutAll(Reached(signals, own))
         /\ \A c \in Reached(signals, own) : report'[c].attempted <=> c \in attempted
  BY CutAnswers DEF Signal, Reached

\* A report shows what is known of its task.
LEMMA ReportShown ==
  /\ \A att \in BOOLEAN : \A extra : \A r \in Report(att, extra) : r \in Reports /\ r.content = "shown"
  /\ \A c : \A r \in CutReports(c) : r \in Reports /\ r.content = "shown"
  /\ Nothing.content = "shown"
<1>1. \A extra : Contents(extra) = {"shown"}
  BY NothingOmitted DEF Contents
<1>2. ASSUME NEW att \in BOOLEAN, NEW extra, NEW r \in Report(att, extra)
      PROVE  r \in Reports /\ r.content = "shown"
  BY <1>1 DEF Report, Reports
<1>3. \A c : (c \in attempted) \in BOOLEAN
  OBVIOUS
<1> QED BY <1>2, <1>3 DEF CutReports, Nothing

\* The session begins with nothing noted.
LEMMA InitIInv == Init => IInv
  BY KindAssumption, ReportFields, ReportShown
     DEF Init, IInv, TypeOK, Phases, CutInv, ContentInv, SentInv, EndedInv, HonestReport, CloseMeansQuiet,
         Pending

\* Reports are reports.
LEMMA NextTypeOK == TypeOK /\ [Next]_vars => TypeOK'
<1> SUFFICES ASSUME TypeOK, [Next]_vars PROVE TypeOK'
  OBVIOUS
<1> USE KindAssumption, ReportFields
        DEF TypeOK, Pending, session, caller, service, Phases, Kinds
<1>1. ASSUME NEW c \in Calls, Refuse(c) PROVE TypeOK'
  <2>1. PICK r \in Report(FALSE, "readback") : report' = [report EXCEPT ![c] = r]
    BY <1>1 DEF Refuse
  <2>2. r \in Reports
    BY <2>1, ReportsOf
  <2> QED BY <1>1, <2>1, <2>2 DEF Refuse
<1>2. ASSUME NEW c \in Calls, Start(c) PROVE TypeOK'
  <2>1. CASE "service" \in ended
    <3>1. PICK r \in CutReports(c) : report' = [report EXCEPT ![c] = r]
      BY <1>2, <2>1 DEF Start
    <3>2. r \in Reports
      BY <3>1, CutReport
    <3> QED BY <1>2, <2>1, <3>1, <3>2 DEF Start
  <2>2. CASE "service" \notin ended
    BY <1>2, <2>2 DEF Start
  <2> QED BY <2>1, <2>2
<1>3. ASSUME NEW c \in Calls, Timeout(c) PROVE TypeOK'
  BY <1>3 DEF Timeout, TimesOut, CutAll, CutReports
<1>4. ASSUME NEW c \in Calls, TakeLock(c) \/ Submit(c) PROVE TypeOK'
  BY <1>4 DEF TakeLock, Submit, Go
<1>5. ASSUME NEW c \in Calls, Send(c) PROVE TypeOK'
  BY <1>5 DEF Send, Go
<1>6. ASSUME NEW c \in Calls, GiveUp(c) PROVE TypeOK'
  <2>1. PICK r \in Report(FALSE, "readback") : Finish(c, r)
    BY <1>6 DEF GiveUp
  <2>2. r \in Reports
    BY <2>1, ReportsOf
  <2> QED BY <1>6, <2>1, <2>2 DEF GiveUp, Finish
<1>7. ASSUME NEW c \in Calls, ConnectFails(c) PROVE TypeOK'
  <2>1. PICK r \in Report(FALSE, "readback") :
          IF KindOf[c] = "invoke"
          THEN Go(c, "saving") /\ result' = [result EXCEPT ![c] = r]
          ELSE Finish(c, r) /\ UNCHANGED result
    BY <1>7 DEF ConnectFails
  <2>2. r \in Reports
    BY <2>1, ReportsOf
  <2>3. CASE KindOf[c] = "invoke"
    BY <1>7, <2>1, <2>2, <2>3 DEF ConnectFails, Go
  <2>4. CASE KindOf[c] # "invoke"
    BY <1>7, <2>1, <2>2, <2>4 DEF ConnectFails, Finish
  <2> QED BY <2>3, <2>4
<1>8. ASSUME NEW c \in Calls, InvokeEnds(c) PROVE TypeOK'
  <2>1. \A r \in Report(TRUE, "none") \cup Report(TRUE, "failure") : r \in Reports
    BY ReportsOf
  <2> QED BY <1>8, <2>1 DEF InvokeEnds, Go
<1>9. ASSUME NEW c \in Calls, TaskEnds(c) PROVE TypeOK'
  <2>1. PICK r \in Report(FALSE, IF KindOf[c] = "cancel" THEN "action" ELSE "none")
                     \cup Report(FALSE, "readback") : Finish(c, r)
    BY <1>9 DEF TaskEnds
  <2>2. r \in Reports
    BY <2>1, ReportsOf
  <2> QED BY <1>9, <2>1, <2>2 DEF TaskEnds, Finish
<1>10. ASSUME NEW c \in Calls, Saved(c) PROVE TypeOK'
  BY <1>10 DEF Saved, Finish
<1>11. ASSUME NEW c \in Calls, Abort(c) PROVE TypeOK'
  BY <1>11 DEF Abort, Signal, Reached, CutAll, CutReports
<1>12. CASE HostAborts \/ ServiceClose
  <2>1. CASE HostAborts
    BY <2>1 DEF HostAborts, Signal, CutAll, Reached
  <2>2. CASE ServiceClose
    BY <2>2 DEF ServiceClose, Signal, CutAll, Reached
  <2> QED BY <1>12, <2>1, <2>2
<1>13. CASE Close \/ Cleanup
  BY <1>13 DEF Close, Cleanup, Signal, Reached, CutAll, CutReports
<1>14. CASE Drain \/ Closed \/ CloseTimeout
  BY <1>14 DEF Drain, Closed, CloseTimeout, Owned
<1>15. CASE UNCHANGED vars
  BY <1>15 DEF vars
<1> QED BY <1>1, <1>2, <1>3, <1>4, <1>5, <1>6, <1>7, <1>8, <1>9, <1>10, <1>11, <1>12, <1>13, <1>14, <1>15 DEF Next, Work

\* Only a cut answers a call before its work.
LEMMA NextCutInv == TypeOK /\ CutInv /\ [Next]_vars => CutInv'
<1> SUFFICES ASSUME TypeOK, CutInv, [Next]_vars PROVE CutInv'
  OBVIOUS
<1> USE KindAssumption, ReportFields
        DEF TypeOK, CutInv, Pending, session, caller, service, Phases, Kinds
<1>1. ASSUME NEW c \in Calls, Refuse(c) PROVE CutInv'
  BY <1>1 DEF Refuse
<1>2. ASSUME NEW c \in Calls, Start(c) PROVE CutInv'
  BY <1>2 DEF Start, CutReports
<1>3. ASSUME NEW c \in Calls, Timeout(c) PROVE CutInv'
  BY <1>3 DEF Timeout, TimesOut, CutAll, CutReports
<1>4. ASSUME NEW c \in Calls, TakeLock(c) \/ Submit(c) PROVE CutInv'
  BY <1>4 DEF TakeLock, Submit, Go
<1>5. ASSUME NEW c \in Calls, Send(c) PROVE CutInv'
  BY <1>5 DEF Send, Go
<1>6. ASSUME NEW c \in Calls, GiveUp(c) PROVE CutInv'
  BY <1>6 DEF GiveUp, Finish
<1>7. ASSUME NEW c \in Calls, ConnectFails(c) PROVE CutInv'
  BY <1>7 DEF ConnectFails, Go, Finish
<1>8. ASSUME NEW c \in Calls, InvokeEnds(c) PROVE CutInv'
  BY <1>8 DEF InvokeEnds, Go
<1>9. ASSUME NEW c \in Calls, TaskEnds(c) PROVE CutInv'
  BY <1>9 DEF TaskEnds, Finish
<1>10. ASSUME NEW c \in Calls, Saved(c) PROVE CutInv'
  BY <1>10 DEF Saved, Finish
<1>11. ASSUME NEW c \in Calls, Abort(c) PROVE CutInv'
  BY <1>11 DEF Abort, Signal, Reached, CutAll, CutReports
<1>12. CASE HostAborts \/ ServiceClose
  BY <1>12 DEF HostAborts, ServiceClose, Signal, Reached, CutAll, CutReports
<1>13. CASE Close \/ Cleanup
  BY <1>13 DEF Close, Cleanup, Signal, Reached, CutAll, CutReports
<1>14. CASE Drain \/ Closed \/ CloseTimeout
  BY <1>14 DEF Drain, Closed, CloseTimeout, Owned
<1>15. CASE UNCHANGED vars
  BY <1>15 DEF vars
<1> QED BY <1>1, <1>2, <1>3, <1>4, <1>5, <1>6, <1>7, <1>8, <1>9, <1>10, <1>11, <1>12, <1>13, <1>14, <1>15 DEF Next, Work

\* Submit notes the attempt, Send follows it.
LEMMA NextSentInv == TypeOK /\ CutInv /\ SentInv /\ [Next]_vars => SentInv'
<1> SUFFICES ASSUME TypeOK, CutInv, SentInv, [Next]_vars PROVE SentInv'
  OBVIOUS
<1> USE KindAssumption, ReportFields
        DEF TypeOK, CutInv, SentInv, Pending, session, caller, service, Phases, Kinds
<1>1. ASSUME NEW c \in Calls, Refuse(c) PROVE SentInv'
  BY <1>1 DEF Refuse
<1>2. ASSUME NEW c \in Calls, Start(c) PROVE SentInv'
  BY <1>2 DEF Start, CutReports
<1>3. ASSUME NEW c \in Calls, Timeout(c) PROVE SentInv'
  BY <1>3 DEF Timeout, TimesOut, CutAll, CutReports
<1>4. ASSUME NEW c \in Calls, TakeLock(c) \/ Submit(c) PROVE SentInv'
  BY <1>4 DEF TakeLock, Submit, Go
<1>5. ASSUME NEW c \in Calls, Send(c) PROVE SentInv'
  BY <1>5 DEF Send, Go
<1>6. ASSUME NEW c \in Calls, GiveUp(c) PROVE SentInv'
  BY <1>6 DEF GiveUp, Finish
<1>7. ASSUME NEW c \in Calls, ConnectFails(c) PROVE SentInv'
  BY <1>7 DEF ConnectFails, Go, Finish
<1>8. ASSUME NEW c \in Calls, InvokeEnds(c) PROVE SentInv'
  <2>1. PICK r \in Report(TRUE, "none") \cup Report(TRUE, "failure") :
          result' = [result EXCEPT ![c] = r]
    BY <1>8 DEF InvokeEnds
  <2>2. r.attempted
    BY <2>1, ReportsOf
  <2> QED BY <1>8, <2>1, <2>2 DEF InvokeEnds, Go
<1>9. ASSUME NEW c \in Calls, TaskEnds(c) PROVE SentInv'
  BY <1>9 DEF TaskEnds, Finish
<1>10. ASSUME NEW c \in Calls, Saved(c) PROVE SentInv'
  BY <1>10 DEF Saved, Finish
<1>11. ASSUME NEW c \in Calls, Abort(c) PROVE SentInv'
  BY <1>11 DEF Abort, Signal, Reached, CutAll, CutReports
<1>12. CASE HostAborts \/ ServiceClose
  BY <1>12 DEF HostAborts, ServiceClose, Signal, Reached, CutAll, CutReports
<1>13. CASE Close \/ Cleanup
  BY <1>13 DEF Close, Cleanup, Signal, Reached, CutAll, CutReports
<1>14. CASE Drain \/ Closed \/ CloseTimeout
  BY <1>14 DEF Drain, Closed, CloseTimeout, Owned
<1>15. CASE UNCHANGED vars
  BY <1>15 DEF vars
<1> QED BY <1>1, <1>2, <1>3, <1>4, <1>5, <1>6, <1>7, <1>8, <1>9, <1>10, <1>11, <1>12, <1>13, <1>14, <1>15 DEF Next, Work

\* A signal that ends a session cuts every call, and none begins afterwards.
LEMMA NextEndedInv == TypeOK /\ CutInv /\ EndedInv /\ [Next]_vars => EndedInv'
<1> SUFFICES ASSUME TypeOK, CutInv, EndedInv, [Next]_vars PROVE EndedInv'
  OBVIOUS
<1> USE KindAssumption, ReportFields
        DEF TypeOK, CutInv, EndedInv, Pending, session, caller, service, Phases, Kinds
<1>1. ASSUME NEW c \in Calls, Refuse(c) PROVE EndedInv'
  BY <1>1 DEF Refuse
<1>2. ASSUME NEW c \in Calls, Start(c) PROVE EndedInv'
  <2>1. CASE "service" \in ended
    BY <1>2, <2>1 DEF Start
  <2>2. CASE "service" \notin ended
    <3>1. ended = {}
      BY <1>2, <2>2 DEF Start
    <3> QED BY <1>2, <2>2, <3>1 DEF Start
  <2> QED BY <2>1, <2>2
<1>3. ASSUME NEW c \in Calls, Timeout(c) PROVE EndedInv'
  BY <1>3 DEF Timeout, TimesOut, CutAll, CutReports
<1>4. ASSUME NEW c \in Calls, TakeLock(c) \/ Submit(c) PROVE EndedInv'
  BY <1>4 DEF TakeLock, Submit, Go
<1>5. ASSUME NEW c \in Calls, Send(c) PROVE EndedInv'
  BY <1>5 DEF Send, Go
<1>6. ASSUME NEW c \in Calls, GiveUp(c) PROVE EndedInv'
  BY <1>6 DEF GiveUp, Finish
<1>7. ASSUME NEW c \in Calls, ConnectFails(c) PROVE EndedInv'
  BY <1>7 DEF ConnectFails, Go, Finish
<1>8. ASSUME NEW c \in Calls, InvokeEnds(c) PROVE EndedInv'
  BY <1>8 DEF InvokeEnds, Go
<1>9. ASSUME NEW c \in Calls, TaskEnds(c) PROVE EndedInv'
  BY <1>9 DEF TaskEnds, Finish
<1>10. ASSUME NEW c \in Calls, Saved(c) PROVE EndedInv'
  BY <1>10 DEF Saved, Finish
<1>11. ASSUME NEW c \in Calls, Abort(c) PROVE EndedInv'
  BY <1>11 DEF Abort, Signal, Reached, CutAll, CutReports
<1>12. CASE HostAborts \/ ServiceClose
  BY <1>12 DEF HostAborts, ServiceClose, Signal, Reached, CutAll, CutReports
<1>13. CASE Close \/ Cleanup
  BY <1>13 DEF Close, Cleanup, Signal, Reached, CutAll, CutReports
<1>14. CASE Drain \/ Closed \/ CloseTimeout
  BY <1>14 DEF Drain, Closed, CloseTimeout, Owned
<1>15. CASE UNCHANGED vars
  BY <1>15 DEF vars
<1> QED BY <1>1, <1>2, <1>3, <1>4, <1>5, <1>6, <1>7, <1>8, <1>9, <1>10, <1>11, <1>12, <1>13, <1>14, <1>15 DEF Next, Work

\* A call is answered before its message leaves only by a cut, and that stops the message.
LEMMA NextHonestReport == TypeOK /\ CutInv /\ SentInv /\ HonestReport /\ [Next]_vars => HonestReport'
<1> SUFFICES ASSUME TypeOK, CutInv, SentInv, HonestReport, [Next]_vars PROVE HonestReport'
  OBVIOUS
<1> USE KindAssumption, ReportFields
        DEF TypeOK, CutInv, SentInv, HonestReport, Pending, session, caller, service, Phases, Kinds
<1>1. ASSUME NEW c \in Calls, Refuse(c) PROVE HonestReport'
  BY <1>1 DEF Refuse
<1>2. ASSUME NEW c \in Calls, Start(c) PROVE HonestReport'
  BY <1>2 DEF Start, CutReports
<1>3. ASSUME NEW c \in Calls, Timeout(c) PROVE HonestReport'
  <2>1. report'[c].attempted <=> c \in attempted
    BY <1>3, CutAnswers DEF Timeout
  <2> QED BY <1>3, <2>1 DEF Timeout, TimesOut, CutAll
<1>4. ASSUME NEW c \in Calls, TakeLock(c) \/ Submit(c) PROVE HonestReport'
  BY <1>4 DEF TakeLock, Submit, Go
<1>5. ASSUME NEW c \in Calls, Send(c) PROVE HonestReport'
  BY <1>5 DEF Send, Go
<1>6. ASSUME NEW c \in Calls, GiveUp(c) PROVE HonestReport'
  BY <1>6 DEF GiveUp, Finish
<1>7. ASSUME NEW c \in Calls, ConnectFails(c) PROVE HonestReport'
  BY <1>7 DEF ConnectFails, Go, Finish
<1>8. ASSUME NEW c \in Calls, InvokeEnds(c) PROVE HonestReport'
  BY <1>8 DEF InvokeEnds, Go
<1>9. ASSUME NEW c \in Calls, TaskEnds(c) PROVE HonestReport'
  BY <1>9 DEF TaskEnds, Finish
<1>10. ASSUME NEW c \in Calls, Saved(c) PROVE HonestReport'
  BY <1>10 DEF Saved, Finish
<1>11. ASSUME NEW c \in Calls, Abort(c) PROVE HonestReport'
  <2>1. PICK signals, own : Signal(signals, own)
    BY <1>11 DEF Abort
  <2>2. \A d \in Reached(signals, own) : report'[d].attempted <=> d \in attempted
    BY <2>1, SignalAnswers
  <2> QED BY <2>1, <2>2 DEF Signal, CutAll
<1>12. CASE HostAborts \/ ServiceClose
  <2>1. PICK signals, own : Signal(signals, own)
    BY <1>12 DEF HostAborts, ServiceClose
  <2>2. \A d \in Reached(signals, own) : report'[d].attempted <=> d \in attempted
    BY <2>1, SignalAnswers
  <2> QED BY <2>1, <2>2 DEF Signal, CutAll
<1>13. CASE Close \/ Cleanup
  <2>1. PICK signals, own : Signal(signals, own)
    BY <1>13 DEF Close, Cleanup
  <2>2. \A d \in Reached(signals, own) : report'[d].attempted <=> d \in attempted
    BY <2>1, SignalAnswers
  <2> QED BY <2>1, <2>2 DEF Signal, CutAll
<1>14. CASE Drain \/ Closed \/ CloseTimeout
  BY <1>14 DEF Drain, Closed, CloseTimeout, Owned
<1>15. CASE UNCHANGED vars
  BY <1>15 DEF vars
<1> QED BY <1>1, <1>2, <1>3, <1>4, <1>5, <1>6, <1>7, <1>8, <1>9, <1>10, <1>11, <1>12, <1>13, <1>14, <1>15 DEF Next, Work

\* The drain awaits all that is pending.
LEMMA NextCloseMeansQuiet == TypeOK /\ CutInv /\ EndedInv /\ CloseMeansQuiet /\ [Next]_vars => CloseMeansQuiet'
<1> SUFFICES ASSUME TypeOK, CutInv, EndedInv, CloseMeansQuiet, [Next]_vars PROVE CloseMeansQuiet'
  OBVIOUS
<1> USE KindAssumption, ReportFields
        DEF TypeOK, CutInv, EndedInv, CloseMeansQuiet, Pending, session, caller, service, Phases, Kinds
<1>1. ASSUME NEW c \in Calls, Refuse(c) PROVE CloseMeansQuiet'
  BY <1>1 DEF Refuse
<1>2. ASSUME NEW c \in Calls, Start(c) PROVE CloseMeansQuiet'
  BY <1>2 DEF Start, CutReports
<1>3. ASSUME NEW c \in Calls, Timeout(c) PROVE CloseMeansQuiet'
  BY <1>3 DEF Timeout, TimesOut, CutAll, CutReports
<1>4. ASSUME NEW c \in Calls, TakeLock(c) \/ Submit(c) PROVE CloseMeansQuiet'
  BY <1>4 DEF TakeLock, Submit, Go
<1>5. ASSUME NEW c \in Calls, Send(c) PROVE CloseMeansQuiet'
  BY <1>5 DEF Send, Go
<1>6. ASSUME NEW c \in Calls, GiveUp(c) PROVE CloseMeansQuiet'
  BY <1>6 DEF GiveUp, Finish
<1>7. ASSUME NEW c \in Calls, ConnectFails(c) PROVE CloseMeansQuiet'
  BY <1>7 DEF ConnectFails, Go, Finish
<1>8. ASSUME NEW c \in Calls, InvokeEnds(c) PROVE CloseMeansQuiet'
  BY <1>8 DEF InvokeEnds, Go
<1>9. ASSUME NEW c \in Calls, TaskEnds(c) PROVE CloseMeansQuiet'
  BY <1>9 DEF TaskEnds, Finish
<1>10. ASSUME NEW c \in Calls, Saved(c) PROVE CloseMeansQuiet'
  BY <1>10 DEF Saved, Finish
<1>11. ASSUME NEW c \in Calls, Abort(c) PROVE CloseMeansQuiet'
  BY <1>11 DEF Abort, Signal, Reached, CutAll, CutReports
<1>12. CASE HostAborts \/ ServiceClose
  BY <1>12 DEF HostAborts, ServiceClose, Signal, Reached, CutAll, CutReports
<1>13. CASE Close \/ Cleanup
  BY <1>13 DEF Close, Cleanup, Signal
<1>14. CASE Drain \/ Closed \/ CloseTimeout
  BY <1>14 DEF Drain, Closed, CloseTimeout, Owned
<1>15. CASE UNCHANGED vars
  BY <1>15 DEF vars
<1> QED BY <1>1, <1>2, <1>3, <1>4, <1>5, <1>6, <1>7, <1>8, <1>9, <1>10, <1>11, <1>12, <1>13, <1>14, <1>15 DEF Next, Work

\* No report is dropped, neither where an answer nor where a result is made.
LEMMA NextContentInv == TypeOK /\ ContentInv /\ [Next]_vars => ContentInv'
<1> SUFFICES ASSUME TypeOK, ContentInv, [Next]_vars PROVE ContentInv'
  OBVIOUS
<1> USE DEF TypeOK, ContentInv
<1>1. ASSUME NEW c \in Calls, NEW r, r.content = "shown", report' = [report EXCEPT ![c] = r], UNCHANGED result
      PROVE  ContentInv'
  BY <1>1
<1>2. ASSUME NEW c \in Calls, NEW r, r.content = "shown", result' = [result EXCEPT ![c] = r], UNCHANGED report
      PROVE  ContentInv'
  BY <1>2
<1>3. ASSUME UNCHANGED <<report, result>> PROVE ContentInv'
  BY <1>3
<1>4. ASSUME NEW c \in Calls, NEW r, r.content = "shown", Finish(c, r), UNCHANGED result PROVE ContentInv'
  BY <1>1, <1>3, <1>4 DEF Finish
<1>5. ASSUME NEW cs \in SUBSET Calls, CutAll(cs), UNCHANGED result PROVE ContentInv'
  BY <1>5, ReportShown DEF CutAll
<1>6. ASSUME NEW c \in Calls, Refuse(c) PROVE ContentInv'
  <2>1. PICK r \in Report(FALSE, "readback") : report' = [report EXCEPT ![c] = r]
    BY <1>6 DEF Refuse
  <2> QED BY <1>1, <1>6, <2>1, ReportShown DEF Refuse
<1>7. ASSUME NEW c \in Calls, Start(c) PROVE ContentInv'
  <2>1. CASE "service" \in ended
    <3>1. PICK r \in CutReports(c) : report' = [report EXCEPT ![c] = r]
      BY <1>7, <2>1 DEF Start
    <3> QED BY <1>1, <1>7, <3>1, ReportShown DEF Start
  <2>2. CASE "service" \notin ended
    BY <1>3, <1>7, <2>2 DEF Start
  <2> QED BY <2>1, <2>2
<1>8. ASSUME NEW c \in Calls, Timeout(c) PROVE ContentInv'
  BY <1>5, <1>8 DEF Timeout
<1>9. ASSUME NEW c \in Calls, TakeLock(c) \/ Submit(c) \/ Send(c) PROVE ContentInv'
  BY <1>3, <1>9 DEF TakeLock, Submit, Send, Go
<1>10. ASSUME NEW c \in Calls, GiveUp(c) PROVE ContentInv'
  <2>1. PICK r \in Report(FALSE, "readback") : Finish(c, r)
    BY <1>10 DEF GiveUp
  <2> QED BY <1>4, <1>10, <2>1, ReportShown DEF GiveUp
<1>11. ASSUME NEW c \in Calls, ConnectFails(c) PROVE ContentInv'
  <2>1. PICK r \in Report(FALSE, "readback") :
          IF KindOf[c] = "invoke"
          THEN Go(c, "saving") /\ result' = [result EXCEPT ![c] = r]
          ELSE Finish(c, r) /\ UNCHANGED result
    BY <1>11 DEF ConnectFails
  <2>2. r.content = "shown"
    BY <2>1, ReportShown
  <2> QED BY <1>2, <1>4, <2>1, <2>2 DEF Go
<1>12. ASSUME NEW c \in Calls, InvokeEnds(c) PROVE ContentInv'
  <2>1. PICK r \in Report(TRUE, "none") \cup Report(TRUE, "failure") :
          result' = [result EXCEPT ![c] = r]
    BY <1>12 DEF InvokeEnds
  <2>2. r.content = "shown"
    BY <2>1, ReportShown
  <2> QED BY <1>2, <1>12, <2>1, <2>2 DEF InvokeEnds, Go
<1>13. ASSUME NEW c \in Calls, TaskEnds(c) PROVE ContentInv'
  <2>1. PICK r \in Report(FALSE, IF KindOf[c] = "cancel" THEN "action" ELSE "none")
                     \cup Report(FALSE, "readback") : Finish(c, r)
    BY <1>13 DEF TaskEnds
  <2>2. r.content = "shown"
    BY <2>1, ReportShown
  <2> QED BY <1>4, <1>13, <2>1, <2>2 DEF TaskEnds
<1>14. ASSUME NEW c \in Calls, Saved(c) PROVE ContentInv'
  BY <1>4, <1>14 DEF Saved
<1>15. ASSUME NEW signals, NEW own, Signal(signals, own) PROVE ContentInv'
  <2>1. Reached(signals, own) \in SUBSET Calls
    BY DEF Reached
  <2> QED BY <1>5, <1>15, <2>1 DEF Signal
<1>16. ASSUME NEW c \in Calls, Abort(c) PROVE ContentInv'
  BY <1>15, <1>16 DEF Abort
<1>17. CASE HostAborts \/ ServiceClose \/ Close \/ Cleanup
  BY <1>15, <1>17 DEF HostAborts, ServiceClose, Close, Cleanup
<1>18. CASE Drain \/ Closed \/ CloseTimeout \/ UNCHANGED vars
  BY <1>3, <1>18 DEF Drain, Closed, CloseTimeout, vars, caller
<1> QED BY <1>6, <1>7, <1>8, <1>9, <1>10, <1>11, <1>12, <1>13, <1>14, <1>16, <1>17, <1>18
        DEF Next, Work

(***************************************************************************)
(* The theorems.                                                           *)
(***************************************************************************)

\* The inductive invariant of a session of tools.
THEOREM Invariance == Spec => []IInv
<1>1. IInv /\ [Next]_vars => IInv'
  BY NextTypeOK, NextCutInv, NextContentInv, NextSentInv, NextEndedInv, NextHonestReport, NextCloseMeansQuiet
     DEF IInv
<1> QED BY <1>1, InitIInv, PTL DEF Spec

\* Every reachable state of the tools is well typed.
THEOREM TypeCorrect == Spec => []TypeOK
<1>1. IInv => TypeOK
  BY DEF IInv
<1> QED BY <1>1, Invariance, PTL

\* "submissionAttempted": false stays true of the work behind the answer.
THEOREM ReportIsHonest == Spec => []HonestReport
<1>1. IInv => HonestReport
  BY DEF IInv
<1> QED BY <1>1, Invariance, PTL

\* No report drops the ids that a later readback needs.
THEOREM NothingDropped == Spec => []NeverOmitted
<1>1. IInv => NeverOmitted
  BY DEF IInv, ContentInv, NeverOmitted
<1> QED BY <1>1, Invariance, PTL

\* A close that succeeds leaves no work behind.
THEOREM QuietClose == Spec => []CloseMeansQuiet
<1>1. IInv => CloseMeansQuiet
  BY DEF IInv
<1> QED BY <1>1, Invariance, PTL

\* Nothing is sent for a session whose owner or service has ended.
THEOREM EndMeansEnd == Spec => NothingSentAfterEnd
<1>1. ASSUME IInv, [Next]_vars PROVE [ended # {} => sent' = sent]_vars
  <2>1. ASSUME NEW c \in Calls, Send(c), ended # {} PROVE FALSE
    BY <1>1, <2>1 DEF IInv, EndedInv, CutInv, TypeOK, Send, Pending
  <2>2. CASE ~ \E c \in Calls : Send(c)
    BY <1>1, <2>2
       DEF Next, Work, Refuse, Start, Timeout, TakeLock, GiveUp, Submit, ConnectFails,
           InvokeEnds, TaskEnds, Saved, Abort, HostAborts, ServiceClose, Close, Cleanup,
           Signal, Drain, Closed, CloseTimeout, vars
  <2> QED BY <2>1, <2>2
<1> QED BY <1>1, Invariance, PTL DEF Spec, NothingSentAfterEnd
=============================================================================
