--------------------------- MODULE ToolProjection ---------------------------
(***************************************************************************)
(* How much of a result a tool shows its model (tool-operations.ts).       *)
(* boundedProjection tries four pairs of a string limit and a count and    *)
(* shows the first whose JSON fits; what does not fit on the last rung is  *)
(* dropped.  Every size here is the largest there is: strings and lists    *)
(* are longer than the rung shows, and a character of the remote's may     *)
(* take six in JSON.                                                       *)
(***************************************************************************)
EXTENDS Integers, Sequences

Budget == 16000

\* Mutant: the steps shorten the texts, but keep all twelve entries.
LadderOfLimits == << [limit |-> 2000, count |-> 12], [limit |-> 800, count |-> 12],
                     [limit |-> 300, count |-> 12], [limit |-> 100, count |-> 12] >>

\* The steps of the report, from the longest texts and lists to the shortest.
Ladder == << [limit |-> 2000, count |-> 12], [limit |-> 800, count |-> 8],
             [limit |-> 300, count |-> 4], [limit |-> 100, count |-> 2] >>
LastRung == Ladder[Len(Ladder)]

\* What a tool reports: a result, that of a cancel action, an error that knows a
\* task, or one that knows only the ids it was called with.
Extras == {"none", "action", "failure", "readback"}
\* A result, by what decides its size: a Message or a Task; what its parts are,
\* but for those of its message and of its artifacts that are texts.
Results ==
  [direct: BOOLEAN, rest: {"data", "raw", "url"},
   texts: 0..LastRung.count, artifactTexts: 0..(LastRung.count * LastRung.count)]

\* The names of the fields, with their lengths.
Names == [type |-> 4, text |-> 4, filename |-> 8, mediaType |-> 9, url |-> 3, summary |-> 7,
  preview |-> 7, properties |-> 10, valuesOmitted |-> 13, byteCount |-> 9, bytesOmitted |-> 12,
  parts |-> 5, omittedParts |-> 12, messageId |-> 9, artifactId |-> 10, name |-> 4, target |-> 6,
  status |-> 6, taskId |-> 6, contextId |-> 9, artifacts |-> 9, statusMessage |-> 13,
  omittedArtifacts |-> 16, omittedHistoryMessages |-> 22, cancellation |-> 12, error |-> 5,
  submissionAttempted |-> 19, cancellationTaskId |-> 18, cancellationContextId |-> 21,
  cancellationStatus |-> 18]
ASSUME NamesAssumption == \A f \in DOMAIN Names : Names[f] = Len(f)

Digits == 10      \* of a length; no string is longer
Kind == 6         \* "data", "file", "text"
State == 16       \* "input-required"
Confirmation == 25    \* "requested-not-confirmed"
MessageID == 38   \* of randomUUID

\* {"name":value,...}: a field takes its quotes, its colon and its comma.
Field(f, size) == Names[f] + 4 + size
Object(fields) == fields + 1
List(n, items) == items + n + 1

\* clip, then JSON: a note says how many characters are left out.
Clip(b, esc) == 2 + esc * b.limit + 19 + Digits
Remote(b) == Clip(b, 6)   \* \u0000
Own(b) == Clip(b, 2)      \* the client's own words, and a URL: \\ at worst
Route(b) == Clip(b, 1)    \* letters, digits and signs

\* The part is a text, or a datum, a file or the URL of one.
TextPart(b) == Object(Field("type", Kind) + Field("text", Remote(b)))
OtherPart(b, kind) ==
  Object(Field("type", Kind) + Field("filename", Remote(b)) + Field("mediaType", Remote(b))
    + CASE kind = "data" ->
             Field("summary", Object(Field("type", 8) + Field("properties", Digits)
                                       + Field("valuesOmitted", 4)))
               + Field("preview", b.limit)
        [] kind = "raw" -> Field("byteCount", Digits) + Field("bytesOmitted", 4)
        [] OTHER -> Field("url", Own(b)))
Parts(b, n, texts, kind) == texts * TextPart(b) + (n - texts) * OtherPart(b, kind)

\* The texts of the parts, joined and cut once more.
Joined(b, texts) == Field("text", IF texts = 0 THEN 2 ELSE Remote(b))
PreviewMessage(b, texts, kind) ==
  Field("messageId", Remote(b)) + Joined(b, texts)
    + Field("parts", List(b.count, Parts(b, b.count, texts, kind)))
    + Field("omittedParts", Digits)

\* The artifacts, with the parts of all of them.
Artifacts(b, texts, kind) ==
  b.count * Object(Field("artifactId", Remote(b)) + Field("name", Remote(b))
                     + Field("parts", List(b.count, 0)) + Field("omittedParts", Digits))
    + Parts(b, b.count * b.count, texts, kind)

\* A direct reply is a Message, any other result a Task.
Projection(r, b) ==
  Field("target", Route(b)) + Field("status", State)
    + Field("taskId", Remote(b)) + Field("contextId", Remote(b))
    + IF r.direct THEN PreviewMessage(b, r.texts, r.rest)
      ELSE Joined(b, r.artifactTexts)
             + Field("statusMessage", Object(PreviewMessage(b, r.texts, r.rest)))
             + Field("artifacts", List(b.count, Artifacts(b, r.artifactTexts, r.rest)))
             + Field("omittedArtifacts", Digits) + Field("omittedHistoryMessages", Digits)

\* What runA2ATool shows besides, or instead if it knows no result: the demand
\* for a readback quotes an id of the remote's.
Failure(error) ==
  Field("error", error) + Field("submissionAttempted", 5) + Field("cancellation", Confirmation)
ContentSize(r, b, extra) ==
  Object(CASE extra = "none" -> Projection(r, b)
           [] extra = "action" -> Projection(r, b) + Field("cancellation", Confirmation)
           [] extra = "failure" -> Projection([r EXCEPT !.direct = FALSE], b) + Failure(Own(b))
                + Field("messageId", MessageID) + Field("cancellationTaskId", Remote(b))
                + Field("cancellationContextId", Remote(b)) + Field("cancellationStatus", State)
           [] OTHER -> Field("target", Remote(b)) + Field("status", State)
                + Field("taskId", Remote(b)) + Field("contextId", Remote(b)) + Failure(Remote(b))
                + Field("messageId", Remote(b)))

\* The reports that may be the fallback, which names no task.
Omitted == {extra \in Extras : \E r \in Results : ContentSize(r, LastRung, extra) > Budget}
=============================================================================
