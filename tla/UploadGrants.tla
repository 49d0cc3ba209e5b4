---------------------------- MODULE UploadGrants ----------------------------
(***************************************************************************)
(* What ties an uploaded object to the slot it was granted for             *)
(* (src/olos/src/s3/upload-grant.ts, object-observation.ts,                *)
(* src/olos/src/state/upload-grant.ts, upload-slot-observe.ts): the        *)
(* headers that a grant makes the uploader send, what the bucket keeps of  *)
(* them, and what is read from the bucket when the upload is completed.    *)
(*                                                                         *)
(* A header is a pair of its prefix and the rest of its name, in lower     *)
(* case; a map of headers is a function from such pairs to values.         *)
(***************************************************************************)
EXTENDS Integers

Header(n) == <<"", n>>

Meta(n) == <<"x-amz-meta-", n>>

HeaderNames(Names) == {"", "x-amz-meta-"} \X Names

MetaHeaders(headers) == {h \in DOMAIN headers : h[1] = "x-amz-meta-"}

\* The names after x-amz-meta- of what a grant says of its slot.  Other names
\* that begin with olos- are refused alike and not told apart.
PlaceNames ==
  {"olos-epoch", "olos-kind", "olos-sequence-number", "olos-session-id",
   "olos-track-id", "olos-part-number"}

SlotNames == PlaceNames \cup {"olos-slot-id"}

\* The headers that a grant sets itself.
Reserved ==
  {Header("content-type"), Header("if-none-match"), Header("x-olos-slot-id")}

States ==
  {"issued", "upload_observed", "committed", "expired", "rejected", "revoked"}

\* A slot as grants see it; place has no part number where the slot has none,
\* and minBytes is 0 where it sets no limit.
GrantSlots(Ids, Keys, Values) ==
  [id : Ids, key : Keys, contentType : Values, state : States,
   minBytes : Nat, maxBytes : Nat, expiresAt : Int,
   place : UNION {[D -> Values] : D \in SUBSET PlaceNames}]

----------------------------------------------------------------------------
(***************************************************************************)
(* The grant.                                                              *)
(***************************************************************************)

\* createBaseRequiredHeaders.
BaseHeaders(s) ==
  [h \in Reserved |->
     CASE h = Header("content-type")   -> s.contentType
       [] h = Header("if-none-match")  -> "*"
       [] h = Header("x-olos-slot-id") -> s.id]

\* createS3SlotMetadataHeaders.
SlotMetadata(s) ==
  [h \in {Meta("olos-slot-id")} \cup {Meta(n) : n \in DOMAIN s.place} |->
     IF h = Meta("olos-slot-id") THEN s.id ELSE s.place[h[2]]]

\* What the additional headers may not name.  The names a grant sets itself
\* are looked at only after the URL has been presigned.
ExtraTaken(extra) ==
  DOMAIN extra \cap (Reserved \cup {Meta(n) : n \in SlotNames}) = {}

GrantHeaders(s, extra) ==
  LET metadata == SlotMetadata(s)
  IN  [h \in Reserved \cup DOMAIN metadata \cup DOMAIN extra |->
         IF h \in DOMAIN extra THEN extra[h]
         ELSE IF h \in DOMAIN metadata THEN metadata[h]
         ELSE BaseHeaders(s)[h]]

\* createPresignedS3UploadGrant: a URL is signed for an issued slot, for no
\* longer than the slot itself is open.
Granted(s, expiresAt, extra) ==
  /\ s.state = "issued"
  /\ expiresAt <= s.expiresAt
  /\ ExtraTaken(extra)

----------------------------------------------------------------------------
(***************************************************************************)
(* The bucket.                                                             *)
(***************************************************************************)

\* A PUT passes the signature with all that was signed, unaltered, and with no
\* metadata besides.
Signed(headers, granted) ==
  /\ DOMAIN granted \subseteq DOMAIN headers
  /\ \A h \in DOMAIN granted : headers[h] = granted[h]
  /\ MetaHeaders(headers) \subseteq DOMAIN granted

\* Metadata comes back without its prefix.
MetadataOf(headers) ==
  [n \in {h[2] : h \in MetaHeaders(headers)} |-> headers[Meta(n)]]

----------------------------------------------------------------------------
(***************************************************************************)
(* The observation.                                                        *)
(***************************************************************************)

\* normalizeS3Metadata: the slot that the metadata names, if any; an entry of
\* the canonical name goes before what the grant has signed.
NamedSlot(metadata) ==
  LET named == {n \in {"x-olos-slot-id", "olos-slot-id",
                       "x-amz-meta-olos-slot-id"} : n \in DOMAIN metadata}
  IN  IF "x-olos-slot-id" \in named THEN {metadata["x-olos-slot-id"]}
      ELSE IF "olos-slot-id" \in named THEN {metadata["olos-slot-id"]}
      ELSE {metadata[n] : n \in named}

\* The time of an observation: what the caller says, or else when the object
\* was last modified, or else now.
ObservedAt(override, lastModified, now) ==
  IF override # {} THEN override
  ELSE IF lastModified # {} THEN lastModified ELSE {now}

\* createObservedUploadFromS3HeadObject.
Observation(key, headers, size, time) ==
  [key |-> key, contentType |-> headers[Header("content-type")], size |-> size,
   named |-> NamedSlot(MetadataOf(headers)), observedAt |-> time]

\* objectSlotMismatch: the first rule that the object breaks.
Mismatch(o, s) ==
  CASE o.key # s.key                                      -> "objectKey"
    [] o.key = s.key /\ o.contentType # s.contentType     -> "contentType"
    [] /\ o.key = s.key /\ o.contentType = s.contentType
       /\ o.size > s.maxBytes                             -> "maxBytes"
    [] /\ o.key = s.key /\ o.contentType = s.contentType
       /\ o.size <= s.maxBytes /\ o.size < s.minBytes     -> "minBytes"
    [] OTHER                                              -> "none"

\* assertObservedUploadMatchesSlot.
Evidence(o, s, tolerance) ==
  /\ s.state \in {"issued", "upload_observed"}
  /\ Mismatch(o, s) = "none"
  /\ o.observedAt <= s.expiresAt + tolerance
  /\ o.named \subseteq {s.id}

----------------------------------------------------------------------------
(***************************************************************************)
(* What becomes of the slot.                                               *)
(***************************************************************************)

SlotTransitions ==
  ({"issued"} \X {"upload_observed", "expired", "revoked"})
    \cup ({"upload_observed"} \X {"committed", "rejected", "revoked"})
    \cup {<<"committed", "revoked">>}

Verdicts == {"expired", "rejected", "revoked"}

\* resolveTerminalUploadTransition: a slot that has the verdict keeps it, and
\* only then is the transition looked at, and the deadline of an expiry.
Resolvable(s, verdict, now) ==
  \/ s.state = verdict
  \/ /\ <<s.state, verdict>> \in SlotTransitions
     /\ verdict = "expired" => now >= s.expiresAt

Resolved(s, verdict) == [s EXCEPT !.state = verdict]

\* resolveUploadObservation.
Observed(s) == [s EXCEPT !.state = "upload_observed"]

=============================================================================
