------------------------------- MODULE S3Http -------------------------------
(***************************************************************************)
(* The S3 routes of a session (src/olos/src/s3/http*.ts, client*.ts, and   *)
(* reconciliation-summary.ts): which requests they take before the base    *)
(* routes see them, what they insist on, how each outcome is answered,     *)
(* and the reports of sweeps.                                              *)
(***************************************************************************)
EXTENDS HttpMessages, SequencesExt

S3Actions ==
  {"slots", "commits", "events", "reconcile-plan", "reconcile", "retention"}

S3Operations == S3Actions \cup {"completion-hint"}

\* matchedS3RouteParts: the shape of the path alone decides.
S3Action(parts) ==
  CASE /\ Len(parts) = 4
       /\ parts[2] = "upload-slots" /\ parts[4] = "complete" -> "completion-hint"
    [] /\ Len(parts) = 3
       /\ parts[2] = "s3" /\ parts[3] \in S3Actions -> parts[3]
    [] OTHER -> "not_s3"

\* s3Route: the method is looked at before the ids.
S3Route(r) ==
  CASE r.root # "sessions"                                    -> "not_s3"
    [] r.root = "sessions" /\ ~r.decodes                      -> "400"
    [] r.root = "sessions" /\ r.decodes ->
         LET action == S3Action(r.parts)
         IN  CASE action = "not_s3"                           -> "not_s3"
               [] action # "not_s3" /\ r.method # "POST"      -> "405"
               [] action # "not_s3" /\ r.method = "POST" ->
                    IF \/ r.parts[1] \notin SafeIds
                       \/ action = "completion-hint" /\ r.parts[3] \notin SafeIds
                    THEN "400" ELSE action

\* What the handler does with a request: the base handler gets what no S3
\* route takes.
Handled(r) ==
  IF S3Route(r) = "not_s3" THEN <<"runtime", Route(r)>>
                           ELSE <<"s3", S3Route(r)>>

\* The requests of the S3 client.
S3ClientRequest(op, id, slot) ==
  LET session == Down(SessionRoot, id)
  IN  Sent("POST",
           IF op = "completion-hint"
           THEN Down(Down(Down(session, "upload-slots"), slot), "complete")
           ELSE Down(Down(session, "s3"), op))

----------------------------------------------------------------------------
(***************************************************************************)
(* What the routes read.                                                   *)
(***************************************************************************)

\* parseProviderId: the provider comes with the request or was configured.
ProviderKnown(m, configured) ==
  IF "providerId" \in DOMAIN m THEN m["providerId"] \in Ids ELSE configured

S3CommitReader ==
  [CommitReader EXCEPT
     !.optional = With(CommitOptions, [objectKey |-> Paths, versionId |-> Texts])]

\* A hint is named by its path, may leave its time to the server, and has no
\* say in what the store reports of the object.
HintReader ==
  [required |-> NoFields,
   optional |-> With(S3CommitReader.optional, [committedAt |-> Timestamps]),
   refused  |-> {"deliveryUrl", "etag", "size"}]

ReconcileReader ==
  [required |-> [committedAt |-> Timestamps],
   optional |-> With(CommitOptions, [slotIds |-> {"ids"}, versionId |-> Texts]),
   refused  |-> {}]

ReconcilePlanReader ==
  [required |-> NoFields, optional |-> [slotIds |-> {"ids"}], refused |-> {}]

S3RetentionReader == Requires([now |-> Timestamps])

MaxEventRecords == 1000

\* Events are taken only where a provider is configured; records is how many
\* the body holds.
S3Parsed(op, m, configured, records) ==
  CASE op = "slots"          -> ReadsSlot(m)
    [] op = "commits"        -> /\ Reads(S3CommitReader, m)
                                /\ ProviderKnown(m, configured)
    [] op = "completion-hint" -> /\ Reads(HintReader, m)
                                 /\ ProviderKnown(m, configured)
    [] op = "events"         -> configured /\ records <= MaxEventRecords
    [] op = "reconcile"      -> /\ Reads(ReconcileReader, m)
                                /\ ProviderKnown(m, configured)
    [] op = "reconcile-plan" -> Reads(ReconcilePlanReader, m)
    [] op = "retention"      -> Reads(S3RetentionReader, m)

----------------------------------------------------------------------------
(***************************************************************************)
(* Outcomes and their answers.                                             *)
(***************************************************************************)

S3SuccessesOf(op) ==
  CASE op = "slots"           -> {"saved"}
    [] op \in {"commits", "completion-hint"} -> {"committed", "idempotent"}
    [] op = "events"          -> {"routed"}
    [] op = "reconcile-plan"  -> {"planned"}
    [] op = "reconcile"       -> {"reconciled"}
    [] op = "retention"       -> {"swept"}

\* not_observed is a hint whose object the store does not show yet, and
\* not_issuable what issuing a slot objects to.
S3Refusals ==
  {"not_found", "rejected", "unknown_slot", "conflict", "invalid",
   "too_large", "not_issuable", "not_observed", "threw"}

S3Status(outcome) ==
  CASE outcome \in {"saved", "committed"}                -> 201
    [] outcome \in {"idempotent", "planned"}             -> 200
    [] outcome \in {"routed", "reconciled", "swept"}     -> 202
    [] outcome \in {"invalid", "not_issuable"}           -> 400
    [] outcome \in {"not_found", "unknown_slot"}         -> 404
    [] outcome \in {"rejected", "conflict", "not_observed"} -> 409
    [] outcome = "too_large"                             -> 413
    [] outcome = "threw"                                 -> 500

S3AnswersOf(outcome) ==
  CASE outcome = "saved"      -> {[grant |-> "grant", slot |-> "slot"]}
    [] outcome \in {"committed", "idempotent"} ->
         {[commit |-> "commit"], [commit |-> "commit", cursor |-> "cursor"]}
    [] outcome = "routed"     -> {[results |-> "results"]}
    [] outcome = "planned"    ->
         {[status |-> "planned", slotIds |-> "ids", slots |-> "slots"]}
    [] outcome = "reconciled" -> {[results |-> "results", summary |-> "summary"]}
    [] outcome = "swept"      ->
         {[plan |-> "plan", result |-> "deletions", summary |-> "summary"]}

\* Nothing in the client reads the answer to events.
S3AnswerReader(op) ==
  CASE op = "slots"           -> Requires([grant |-> {"grant"}, slot |-> {"slot"}])
    [] op \in {"commits", "completion-hint"} ->
         [required |-> [commit |-> {"commit"}],
          optional |-> [cursor |-> {"cursor"}], refused |-> {}]
    [] op = "events"          -> Requires(NoFields)
    [] op = "reconcile-plan"  -> Requires([status |-> {"planned"},
                                           slotIds |-> {"ids", "strings"},
                                           slots |-> {"slots"}])
    [] op = "reconcile"       -> Requires([results |-> {"results"},
                                           summary |-> {"summary"}])
    [] op = "retention"       -> Requires([plan |-> {"plan"},
                                           result |-> {"deletions"},
                                           summary |-> {"summary"}])

----------------------------------------------------------------------------
(***************************************************************************)
(* The reports of sweeps.                                                  *)
(***************************************************************************)

\* What a sweep makes of one slot: how its commit ended, or that it threw.
SlotOutcomes ==
  {"committed", "idempotent", "rejected", "conflict", "not_found", "threw"}

Entries(SlotNames) == [slot : SlotNames, outcome : SlotOutcomes]

EntryStatus(e) ==
  IF e.outcome \in {"committed", "idempotent"} THEN e.outcome ELSE "failed"

\* reconciliationResult: the entry as it is answered.  A rejection names its
\* error, a slot that threw a fixed one, and any other end its status.
EntryAnswers(e) ==
  LET named == [slotId |-> "id", status |-> EntryStatus(e)]
  IN  CASE e.outcome \in {"committed", "idempotent"} ->
             {With(named, [commit |-> "commit"]),
              With(named, [commit |-> "commit", cursor |-> "cursor"])}
        [] e.outcome \in {"rejected", "threw"} ->
             {With(named, [code |-> "text", message |-> "text"]),
              With(named, [code |-> "text", message |-> "text", details |-> "record"])}
        [] e.outcome \in {"conflict", "not_found"} ->
             {With(named, [resultStatus |-> "text"])}

\* reconciliationResultPayload: what the client insists on, by the status
\* that it finds.
ReadsEntry(m) ==
  \/ Reads([required |-> [slotId |-> Texts, commit |-> {"commit"},
                          status |-> {"committed", "idempotent"}],
            optional |-> [cursor |-> {"cursor"}], refused |-> {}], m)
  \/ Reads([required |-> [slotId |-> Texts, status |-> {"failed"}],
            optional |-> [code |-> Texts, message |-> Texts,
                          details |-> {"record"}, resultStatus |-> Texts],
            refused  |-> {}], m)

\* The slots of a report whose status is s.
Counted(results, s) == {i \in DOMAIN results : EntryStatus(results[i]) = s}

\* summarizeStoredS3CoordinatorUploadReconciliation.
SweepSummary(results) ==
  LET Failures == SelectSeq(results, LAMBDA e : EntryStatus(e) = "failed")
      Rejections == SelectSeq(results, LAMBDA e : e.outcome = "rejected")
  IN  [committed     |-> Cardinality(Counted(results, "committed")),
       idempotent    |-> Cardinality(Counted(results, "idempotent")),
       failed        |-> Cardinality(Counted(results, "failed")),
       planned       |-> Len(results),
       slotIds       |-> [i \in DOMAIN results |-> results[i].slot],
       failedSlotIds |-> [i \in DOMAIN Failures |-> Failures[i].slot],
       rejected      |-> Len(Rejections),
       ok            |-> Counted(results, "failed") = {}]

\* summarizeRetiredCoordinatorObjectDeletions.
DeletionSummary(deleted, failed) ==
  [deleted          |-> Len(deleted),
   failed           |-> Len(failed),
   planned          |-> Len(deleted) + Len(failed),
   failedObjectKeys |-> failed,
   ok               |-> Len(failed) = 0]


\* The two reports as they are answered, and what the client insists on.
SweepReport ==
  [committed |-> "zero", failed |-> "zero", idempotent |-> "zero",
   planned |-> "zero", failedErrorCodes |-> "strings", failedSlotIds |-> "ids",
   slotIds |-> "ids", ok |-> "boolean", status |-> "reconciled"]

SweepReportReader ==
  Requires([committed |-> Numbers, failed |-> Numbers, idempotent |-> Numbers,
            planned |-> Numbers, failedErrorCodes |-> {"ids", "strings"},
            failedSlotIds |-> {"ids", "strings"},
            slotIds |-> {"ids", "strings"}, ok |-> {"boolean"},
            status |-> {"reconciled"}])

\* A failure names its object and what was thrown.
Deletions == [deletedObjects |-> "retired objects",
              failedObjects |-> "failed objects"]
DeletionFailure == [error |-> "text", object |-> "retired object"]
DeletionReport ==
  [deleted |-> "zero", failed |-> "zero", planned |-> "zero",
   failedObjectKeys |-> "strings", failedSlotIds |-> "ids", ok |-> "boolean"]

DeletionsReader ==
  Requires([deletedObjects |-> {"retired objects"},
            failedObjects |-> {"failed objects"}])
DeletionFailureReader ==
  Requires([error |-> Texts, object |-> {"retired object"}])
DeletionReportReader ==
  Requires([deleted |-> Numbers, failed |-> Numbers, planned |-> Numbers,
            failedObjectKeys |-> {"ids", "strings"},
            failedSlotIds |-> {"ids", "strings"}, ok |-> {"boolean"}])

=============================================================================
