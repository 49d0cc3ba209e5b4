-------------------------- MODULE SessionRequests --------------------------
(***************************************************************************)
(* The requests handlers bring to one stored session, and what a handler   *)
(* decides about a request from the state it has loaded.  A state is       *)
(* represented by its history: the requests saved so far, oldest first,    *)
(* <<>> while the session does not exist.                                  *)
(***************************************************************************)
EXTENDS Integers, Sequences

CONSTANTS
  Creates,    \* session creations, all for the same session id
  SlotIds,    \* upload slots to commit
  Contents,   \* what publishers upload to a slot: the fields a repeated
              \* commit is compared by (the commit id is not one of them)
  Touches     \* requests every state accepts: slot issues, heartbeats

Commits == [slot : SlotIds, content : Contents]

Requests == Creates \cup Commits \cup Touches

ASSUME RequestsAssumption ==
  /\ Creates \cap (Commits \cup Touches) = {}
  /\ Commits \cap Touches = {}

Entries(log) == {log[i] : i \in DOMAIN log}

\* Fault: only the same content is recognised, not the committed slot.
DecideByContent(log, r) ==
  CASE log = <<>> /\ r \in Creates    -> "save"
    [] log = <<>> /\ r \notin Creates -> "not_found"
    [] log # <<>> /\ r \in Creates    -> "conflict"
    [] log # <<>> /\ r \in Touches    -> "save"
    [] log # <<>> /\ r \in Commits    ->
         IF r \in Entries(log) THEN "idempotent" ELSE "save"

\* A repeated commit is answered from the state, one of other content for
\* the same slot is refused; neither is saved.
Decide(log, r) ==
  CASE log = <<>> /\ r \in Creates    -> "save"
    [] log = <<>> /\ r \notin Creates -> "not_found"
    [] log # <<>> /\ r \in Creates    -> "conflict"
    [] log # <<>> /\ r \in Touches    -> "save"
    [] log # <<>> /\ r \in Commits    ->
         IF r \in Entries(log) THEN "idempotent"
         ELSE IF \E e \in Entries(log) \cap Commits : e.slot = r.slot
              THEN "rejected"
              ELSE "save"

=============================================================================
