---------------------------- MODULE HttpMessages ----------------------------
(***************************************************************************)
(* What the requests and answers of the HTTP surface carry, and what each  *)
(* side insists on when it reads them (src/olos/src/runtime/               *)
(* request-fields.ts, http-parse.ts, slot-issue-payload.ts,                *)
(* commit-payload-parser.ts, client-payload.ts, publisher-plan.ts).        *)
(*                                                                         *)
(* A message is a function from the names of its fields to the kinds of    *)
(* their values; a kind stands for every value that the parsers treat      *)
(* alike.  A reader says which kinds it takes for the fields it requires,  *)
(* for those it takes when they are there, and which fields it refuses.    *)
(* Fields it does not name are ignored.                                    *)
(***************************************************************************)
EXTENDS SessionHttp

ObjectNames == {"init", "part", "segment"}

StateNames == {"live", "ending", "ended", "aborted"}

PublicationModes ==
  {"direct-public", "read-gated", "private-upload-public-promotion"}

\* Kinds of strings: each is also one of the kinds that take more.
Ids == {"id"} \cup ObjectNames \cup StateNames
Segments == Ids \cup {"segment name"}
Paths == Segments \cup {"path"}
Timestamps == {"time"}
Texts == Paths \cup Timestamps \cup {"url", "text"}

\* Kinds of numbers: integers, and what is positive and none.
NonNegativeIntegers == {"zero", "positive"}
PositiveIntegers == {"positive"}
NonNegativeNumbers == NonNegativeIntegers \cup {"fraction"}
PositiveNumbers == PositiveIntegers \cup {"fraction"}
Numbers == NonNegativeNumbers \cup {"negative"}

NoFields == [f \in {} |-> {}]

\* A message and more fields.
With(message, more) ==
  [f \in DOMAIN message \cup DOMAIN more |->
     IF f \in DOMAIN more THEN more[f] ELSE message[f]]

\* What a reader makes of a message.
Reads(reader, message) ==
  /\ \A f \in DOMAIN reader.required :
       f \in DOMAIN message /\ message[f] \in reader.required[f]
  /\ \A f \in DOMAIN reader.optional \cap DOMAIN message :
       message[f] \in reader.optional[f]
  /\ reader.refused \cap DOMAIN message = {}

Requires(required) ==
  [required |-> required, optional |-> NoFields, refused |-> {}]

----------------------------------------------------------------------------
(***************************************************************************)
(* What the server reads.                                                  *)
(***************************************************************************)

CreateReader == Requires([session |-> {"session"}, deliveryBaseUrl |-> {"url"}])

TransitionReader == Requires([state |-> StateNames])

HeartbeatReader == Requires([publisherInstanceId |-> Ids])

\* The addresses of objects are the coordinator's to derive.
SlotReader ==
  [required |-> [contentType |-> Texts, expiresAt |-> Texts,
                 kind |-> ObjectNames, maxBytes |-> PositiveNumbers,
                 sequenceNumber |-> NonNegativeIntegers,
                 slotId |-> Ids, trackId |-> Ids],
   optional |-> [minBytes |-> NonNegativeIntegers,
                 partNumber |-> NonNegativeIntegers, profile |-> {"record"},
                 extension |-> Segments, objectKeyNonce |-> Ids,
                 objectKeyPrefix |-> Paths, byterange |-> {"byterange"}],
   refused  |-> {"objectKey", "deliveryUrl"}]

\* parseRuntimeSlotIssuePayload: part numbers are for parts, and parts only.
ReadsSlot(m) ==
  /\ Reads(SlotReader, m)
  /\ m["kind"] = "part" <=> "partNumber" \in DOMAIN m
  /\ "byterange" \in DOMAIN m => m["kind"] = "part"

CommitOptions ==
  [lateToleranceMs |-> NonNegativeNumbers, maxSegments |-> PositiveIntegers,
   profile |-> {"record"}]

CommitReader ==
  [required |-> [commitId |-> Ids, committedAt |-> Timestamps, slotId |-> Ids],
   optional |-> CommitOptions,
   refused  |-> {}]

ObservedReader ==
  [required |-> [contentType |-> Texts, objectKey |-> Paths,
                 observedAt |-> Timestamps, providerId |-> Ids,
                 size |-> PositiveNumbers],
   optional |-> [etag |-> Texts, metadata |-> {"record"}],
   refused  |-> {}]

\* parseRuntimeCommitPayload: the object is a message within the message.
ReadsCommit(m, observed) ==
  Reads(CommitReader, m) /\ Reads(ObservedReader, observed)

\* The two queries: the clock of a retention plan and the publisher that
\* health is asked about.  A session must be there before the publisher is
\* looked at, while a clock is refused before anything is loaded.
RetentionQuery == [required |-> NoFields, optional |-> [now |-> Timestamps],
                   refused |-> {}]
HealthQuery == [required |-> NoFields,
                optional |-> [publisherInstanceId |-> Ids], refused |-> {}]

QueryOutcome(op, query, found) ==
  CASE op = "retention" -> IF ~Reads(RetentionQuery, query) THEN "invalid"
                           ELSE IF found THEN "planned" ELSE "not_found"
    [] op = "health"    -> IF ~found THEN "not_found"
                           ELSE IF Reads(HealthQuery, query)
                           THEN "judged" ELSE "invalid"

----------------------------------------------------------------------------
(***************************************************************************)
(* What the publisher sends.                                               *)
(***************************************************************************)

PlanReader ==
  [required |-> [contentType |-> Texts, expiresAt |-> Timestamps,
                 kind |-> ObjectNames, maxBytes |-> PositiveNumbers,
                 sequenceNumber |-> NonNegativeIntegers, trackId |-> Ids],
   optional |-> [minBytes |-> NonNegativeIntegers,
                 partNumber |-> NonNegativeIntegers, profile |-> {"record"},
                 extension |-> Segments, objectKeyNonce |-> Ids,
                 objectKeyPrefix |-> Paths, slotIdPrefix |-> Ids,
                 commitIdPrefix |-> Ids],
   refused  |-> {}]

\* assertPlanOptions.
PlanTaken(o, mode) ==
  /\ Reads(PlanReader, o)
  /\ mode \in PublicationModes
  /\ mode = "direct-public" => "objectKeyNonce" \in DOMAIN o
  /\ o["kind"] = "part" <=> "partNumber" \in DOMAIN o

PlannedFields ==
  {"contentType", "expiresAt", "kind", "maxBytes", "sequenceNumber",
   "trackId", "extension", "minBytes", "objectKeyNonce", "objectKeyPrefix",
   "partNumber", "profile"}

\* createRuntimePublisherObjectPlan: ids joined with underscores are ids.
PlannedSlot(o) ==
  [f \in (DOMAIN o \cap PlannedFields) \cup {"slotId"} |->
     IF f = "slotId" THEN "id" ELSE o[f]]

\* publisherCommitPayload, after a slot of the plan was issued.
PlannedCommit(step) ==
  [f \in (DOMAIN step \cap DOMAIN CommitOptions)
           \cup {"commitId", "committedAt", "slotId"} |->
     IF f \in {"commitId", "slotId"} THEN "id" ELSE step[f]]

----------------------------------------------------------------------------
(***************************************************************************)
(* Answers, and what the client reads of them.                             *)
(***************************************************************************)

AnswersOf(outcome) ==
  CASE outcome = "created"      -> {[sessionId |-> "id"]}
    [] outcome = "transitioned" ->
         {[sessionId |-> "id", state |-> s] : s \in StateNames}
    [] outcome = "refreshed"    -> {[lease |-> "lease"]}
    [] outcome = "issued"       -> {[slot |-> "slot"]}
    [] outcome \in {"committed", "idempotent"} ->
         {[commit |-> "commit"], [commit |-> "commit", cursor |-> "cursor"]}
    [] outcome = "judged"       -> {[health |-> "health"]}
    [] outcome = "planned"      -> {[plan |-> "plan"]}
    [] outcome = "served"       -> {NoFields}

AnswerReader(op) ==
  CASE op = "create"     -> Requires([sessionId |-> Texts])
    [] op = "transition" -> Requires([sessionId |-> Texts, state |-> StateNames])
    [] op = "heartbeat"  -> Requires([lease |-> {"lease"}])
    [] op = "slots"      -> Requires([slot |-> {"slot"}])
    [] op = "commits"    -> [required |-> [commit |-> {"commit"}],
                             optional |-> [cursor |-> {"cursor"}],
                             refused  |-> {}]
    [] op = "health"     -> Requires([health |-> {"health"}])
    [] op = "retention"  -> Requires([plan |-> {"plan"}])
    [] op \in {"master", "media"} -> Requires(NoFields)

\* The ways that each operation can succeed.
SuccessesOf(op) ==
  CASE op = "create"     -> {"created"}
    [] op = "transition" -> {"transitioned"}
    [] op = "heartbeat"  -> {"refreshed"}
    [] op = "slots"      -> {"issued"}
    [] op = "commits"    -> {"committed", "idempotent"}
    [] op = "health"     -> {"judged"}
    [] op = "retention"  -> {"planned"}
    [] op \in {"master", "media"} -> {"served"}

\* resolveRuntimeLiveHealthFromState: lease is the status of the lease that
\* is looked at, or none; asked tells whether the request names a publisher.
HealthReport(freshness, lease, asked) ==
  LET status == CASE lease = "none" /\ asked         -> "stale"
                  [] ~(lease = "none" /\ asked) /\ freshness = "missing" ->
                       IF lease = "stale" THEN "stale" ELSE "starting"
                  [] ~(lease = "none" /\ asked) /\ freshness # "missing" ->
                       IF freshness = "fresh" /\ lease # "stale"
                       THEN "active" ELSE "stale"
      age == IF freshness = "missing" THEN NoFields ELSE [cursorAgeMs |-> "zero"]
      judged == IF lease = "none" THEN NoFields ELSE [leaseStatus |-> lease]
      named == IF asked /\ lease # "none"
               THEN [publisherInstanceId |-> "id"] ELSE NoFields
  IN  With(With(With([cursorFreshness |-> freshness, status |-> status], age),
                judged), named)

\* assertRuntimeLiveHealth.
HealthReader ==
  [required |-> [cursorFreshness |-> {"fresh", "stale", "missing"},
                 status |-> {"active", "stale", "starting"}],
   optional |-> [leaseStatus |-> {"active", "stale"}, cursorAgeMs |-> Numbers,
                 publisherInstanceId |-> Ids],
   refused  |-> {}]

\* A retention plan and the objects that it retires.
RetentionPlans ==
  {[expiredSlots |-> "slots", retiredObjects |-> "retired objects"],
   [expiredSlots |-> "slots", retiredObjects |-> "retired objects",
    cursor |-> "cursor"]}

RetentionPlanReader ==
  [required |-> [expiredSlots |-> {"slots"},
                 retiredObjects |-> {"retired objects"}],
   optional |-> [cursor |-> {"cursor"}], refused |-> {}]

RetiredObject == [commitId |-> "id", objectKey |-> "path", slotId |-> "id"]

RetiredObjectReader ==
  Requires([commitId |-> Texts, objectKey |-> Texts, slotId |-> Texts])

\* What the steps of a publisher take for success, call by call
\* (isSuccessfulPublisherStepStatus and the steps of the S3 publisher).
StepPasses(op, outcome) ==
  CASE op = "heartbeat" -> outcome = "refreshed"
    [] op = "slots"     -> outcome = "issued"
    [] op = "commits"   -> outcome \in {"committed", "idempotent"}

=============================================================================
