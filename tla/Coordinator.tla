---------------------------- MODULE Coordinator ----------------------------
(***************************************************************************)
(* The coordinator pipeline of one session: the pure operations that turn  *)
(* issued upload slots into commits, commits into the live cursor, and old *)
(* commits into retired objects (src/olos/src/protocol and                 *)
(* src/olos/src/state).  Every operation of the code maps one persisted    *)
(* pipeline state to the next one, so every action here is atomic; how     *)
(* those steps are serialised is the store's concern.  A call the code     *)
(* refuses leaves the state as it was and is a stuttering step.            *)
(*                                                                         *)
(* The deadline, tolerance and window size of a call come with the request *)
(* (the payload may override the deployment's values) and so does          *)
(* committedAt, which is also the clock of the pruning that a commit       *)
(* performs.  They are therefore chosen afresh in every step.              *)
(***************************************************************************)
EXTENDS Integers, FiniteSets

CONSTANTS
  Tracks,          \* track ids the session declares
  SlotIds,         \* slot ids publishers may ask for
  Kinds,           \* object kinds in use, among "init", "segment" and "part"
  Seqs,            \* media sequence numbers
  Parts,           \* part numbers
  Times,           \* timestamps, in ticks
  LateTolerances,  \* values of lateToleranceMs
  WindowSizes      \* values of maxSegments; one above every segment count
                   \* stands for a request without the option

ASSUME CoordinatorAssumption ==
  /\ Kinds \subseteq {"init", "segment", "part"}
  /\ Seqs \subseteq Nat
  /\ Parts \subseteq Nat
  /\ Times \subseteq Int
  /\ LateTolerances \subseteq Nat
  /\ WindowSizes \subseteq Nat \ {0}

VARIABLES
  session,      \* session.state
  slots,        \* retained slots, as a set of records
  commits,      \* recorded segment and part commits
  initCommits,  \* recorded init commits
  cursor        \* the live cursor; NoCursor until something is visible

vars == <<session, slots, commits, initCommits, cursor>>

\* The part number of an object that has none; it sorts before every part
\* (SEGMENT_COMMIT_PART_ORDER, SEGMENT_ONLY_CURSOR_PART_ORDER).
NoPart == -1

SessionStates == {"live", "ending", "ended", "aborted"}

\* Only part slots carry a part number.
Positions ==
  [track : Tracks, kind : Kinds \ {"part"}, seq : Seqs, part : {NoPart}]
    \cup [track : Tracks, kind : Kinds \cap {"part"}, seq : Seqs, part : Parts]

\* upload_observed is passed through inside one commit and never persisted;
\* the coordinator itself never moves a slot to expired or rejected.
SlotStates == {"issued", "committed", "revoked"}

Slots == [id : SlotIds, at : Positions, expiresAt : Times, state : SlotStates]

\* A commit is identified by its slot; its position is the slot's.
Commits == [slot : SlotIds, at : Positions]

Cursors ==
  [media : SUBSET Commits, inits : SUBSET Commits, state : SessionStates]

\* A cursor exists exactly when some media is visible, so the absent cursor
\* is the one without media.
NoCursor == [media |-> {}, inits |-> {}, state |-> "live"]

CommitOf(s) == [slot |-> s.id, at |-> s.at]

----------------------------------------------------------------------------
(***************************************************************************)
(* The committed window: what a set of commits makes visible.              *)
(***************************************************************************)

OnTrack(C, t) == {c \in C : c.at.track = t}

SeqsOf(C) == {c.at.seq : c \in C}

\* A part shows once every lower part of its segment has been committed; a
\* full segment shows by itself.
Contiguous(C) ==
  {c \in C : \A p \in 0 .. c.at.part - 1 :
     \E d \in C : /\ d.at.track = c.at.track
                  /\ d.at.seq = c.at.seq
                  /\ d.at.part = p}

\* The newest max visible segments of every track, with all their objects.
VisibleMedia(C, max) ==
  LET shown == Contiguous(C)
      Newer(c) == {n \in SeqsOf(OnTrack(shown, c.at.track)) : n > c.at.seq}
  IN  {c \in shown : Cardinality(Newer(c)) < max}

\* Every visible track carries its init object when it has one.
VisibleInits(I, media) == {c \in I : OnTrack(media, c.at.track) # {}}

\* Building the window throws on two inits of a track, on two full segments
\* or on two equal parts at one position.
Distinct(C, I) ==
  /\ \A c, d \in C : c.at = d.at => c = d
  /\ \A c, d \in I : c.at.track = d.at.track => c = d

\* Fault: lateness measured at the front of the window, not at its edge.
IsBehindWindow(a, media) ==
  /\ OnTrack(media, a.track) # {}
  /\ \A c \in OnTrack(media, a.track) : a.seq < c.at.seq

\* Whether position a is behind the live edge of its own track.  At the edge
\* itself a full segment may still arrive, and so may a later part.
IsLateSlot(a, media) ==
  \E c \in OnTrack(media, a.track) :
    \/ a.seq < c.at.seq
    \/ /\ a.seq = c.at.seq
       /\ a.part # NoPart
       /\ c.at.part # NoPart
       /\ a.part <= c.at.part

LastSeq(media) ==
  CHOOSE n \in SeqsOf(media) : \A m \in SeqsOf(media) : m <= n

\* The highest visible part number at the last sequence number, over all
\* tracks; NoPart when only full segments are visible there.
LastPart(media) ==
  LET ps == {c.at.part : c \in {d \in media : d.at.seq = LastSeq(media)}}
  IN  CHOOSE p \in ps : \A q \in ps : q <= p

\* compareCursorPosition(a, b) < 0.  The epoch is fixed for a session.
Behind(a, b) ==
  \/ LastSeq(a) < LastSeq(b)
  \/ LastSeq(a) = LastSeq(b) /\ LastPart(a) < LastPart(b)

\* Fault: a candidate at the current position is taken for a stale one.
NextCursorAhead(candidate) ==
  IF cursor.media # {} /\ ~Behind(cursor.media, candidate.media)
  THEN cursor
  ELSE candidate

\* A stale candidate leaves the current cursor; at the same position the
\* candidate's content wins.
NextCursor(candidate) ==
  IF cursor.media # {} /\ Behind(candidate.media, cursor.media)
  THEN cursor
  ELSE candidate

WindowSlotIds(cur) == {c.slot : c \in cur.media \cup cur.inits}

----------------------------------------------------------------------------
(***************************************************************************)
(* Deadlines and retention.                                                *)
(***************************************************************************)

\* A timestamp counts as late only after the deadline and its tolerance.
IsAfterSlotExpiry(time, s, tolerance) == time > s.expiresAt + tolerance

\* Fault: a committed slot past its deadline counts as expired.
ExpiredSlotsCommitted(S, now, tolerance) ==
  {s \in S : s.state # "revoked" /\ s.expiresAt + tolerance <= now}
ExpiredSlots(S, now, tolerance) ==
  {s \in S : s.state = "issued" /\ s.expiresAt + tolerance <= now}

\* Fault: a lagging track pins what the other tracks have trimmed.
RetiredCommitsGlobal(C, cur) ==
  {c \in C : /\ cur.media # {}
             /\ \A d \in cur.media : c.at.seq < d.at.seq}

\* Fault: the first visible segment is retired too.
RetiredCommitsAtFirst(C, cur) ==
  {c \in C : /\ OnTrack(cur.media, c.at.track) # {}
             /\ \A d \in OnTrack(cur.media, c.at.track) : c.at.seq <= d.at.seq}

\* Commits strictly below the first visible segment of their own track.
RetiredCommits(C, cur) ==
  {c \in C : /\ OnTrack(cur.media, c.at.track) # {}
             /\ \A d \in OnTrack(cur.media, c.at.track) : c.at.seq < d.at.seq
             /\ c.slot \notin WindowSlotIds(cur)}

\* applyCoordinatorRetention: the slot ids whose slots and commits go.
ObsoleteSlotIds(S, C, cur, now, tolerance) ==
  {s.id : s \in ExpiredSlots(S, now, tolerance)}
    \cup {c.slot : c \in RetiredCommits(C, cur)}

\* Fault: the commits go and their slots stay.
KeptSlots(S, obsolete) == S

PrunedSlots(S, obsolete) == {s \in S : s.id \notin obsolete}

PrunedCommits(C, obsolete) == {c \in C : c.slot \notin obsolete}

----------------------------------------------------------------------------
(***************************************************************************)
(* The operations.                                                         *)
(***************************************************************************)

Init ==
  /\ session = "live"
  /\ slots = {}
  /\ commits = {}
  /\ initCommits = {}
  /\ cursor = NoCursor

OpenStates == {"issued", "upload_observed", "committed"}

\* Fault: a committed slot no longer holds its position.
PositionTakenWhileIssued(a) == \E s \in slots : s.at = a /\ s.state = "issued"

\* A position is taken while a slot holds it open (OPEN_UPLOAD_SLOT_STATES).
PositionTaken(a) == \E s \in slots : s.at = a /\ s.state \in OpenStates

IssueSlot(id, a, expiresAt) ==
  /\ session = "live"
  /\ \A s \in slots : s.id # id
  /\ ~PositionTaken(a)
  /\ slots' = slots \cup
       {[id |-> id, at |-> a, expiresAt |-> expiresAt, state |-> "issued"]}
  /\ UNCHANGED <<session, commits, initCommits, cursor>>

\* Only an aborted session takes no commit.
TakesCommits == session # "aborted"

\* The stages a new commit passes before it is applied.  Publication control
\* and the commit policy can only refuse.  A revoked slot is not observable
\* and a committed one answers with its existing commit.
CommitAccepted(s, committedAt, tolerance) ==
  /\ s.state = "issued"
  /\ \E observedAt \in Times : ~IsAfterSlotExpiry(observedAt, s, tolerance)
  /\ ~IsAfterSlotExpiry(committedAt, s, tolerance)
  /\ TakesCommits
  /\ ~IsLateSlot(s.at, cursor.media)

\* Fault: the slot is stored as observed.
MarkObserved(s) == (slots \ {s}) \cup {[s EXCEPT !.state = "upload_observed"]}

\* recordCommit: the next values of slots, commits and initCommits.
MarkCommitted(s) == (slots \ {s}) \cup {[s EXCEPT !.state = "committed"]}

RecordedMedia(s) ==
  commits \cup (IF s.at.kind = "init" THEN {} ELSE {CommitOf(s)})

RecordedInits(s) ==
  initCommits \cup (IF s.at.kind = "init" THEN {CommitOf(s)} ELSE {})

\* The commit makes nothing visible yet: either no media has been committed
\* (the window, and its check for duplicates, is skipped altogether) or no
\* contiguous prefix has landed.  It is recorded and the cursor holds.
CommitHeld(s, max, committedAt, tolerance) ==
  /\ CommitAccepted(s, committedAt, tolerance)
  /\ VisibleMedia(RecordedMedia(s), max) = {}
  /\ \/ RecordedMedia(s) = {}
     \/ Distinct(RecordedMedia(s), RecordedInits(s))
  /\ slots' = MarkCommitted(s)
  /\ commits' = RecordedMedia(s)
  /\ initCommits' = RecordedInits(s)
  /\ UNCHANGED <<session, cursor>>

\* advanceAndRetain: the cursor moves onto the new window and whatever fell
\* behind it is pruned, with the commit's own timestamp as the clock.
CommitAdvances(s, max, committedAt, tolerance) ==
  LET media == RecordedMedia(s)
      inits == RecordedInits(s)
      window == VisibleMedia(media, max)
      next == NextCursor([media |-> window,
                          inits |-> VisibleInits(inits, window),
                          state |-> session])
      obsolete == ObsoleteSlotIds(MarkCommitted(s), media, next,
                                  committedAt, tolerance)
  IN  /\ CommitAccepted(s, committedAt, tolerance)
      /\ window # {}
      /\ Distinct(media, inits)
      /\ slots' = PrunedSlots(MarkCommitted(s), obsolete)
      /\ commits' = PrunedCommits(media, obsolete)
      /\ initCommits' = inits
      /\ cursor' = next
      /\ UNCHANGED session

CommitUpload(s, max, committedAt, tolerance) ==
  \/ CommitHeld(s, max, committedAt, tolerance)
  \/ CommitAdvances(s, max, committedAt, tolerance)

\* A standalone retention sweep never moves the cursor.
ApplyRetention(now, tolerance) ==
  LET obsolete == ObsoleteSlotIds(slots, commits, cursor, now, tolerance)
  IN  /\ obsolete # {}
      /\ slots' = PrunedSlots(slots, obsolete)
      /\ commits' = PrunedCommits(commits, obsolete)
      /\ UNCHANGED <<session, initCommits, cursor>>

\* Fault: only visible media is protected, not the tracks' init objects.
RevocableUnlessMedia(s) ==
  /\ s.id \notin {c.slot : c \in cursor.media}
  /\ s.state \in {"issued", "committed"}

\* Revoking drops the slot's commit; what the cursor shows cannot be revoked.
Revocable(s) ==
  /\ s.id \notin WindowSlotIds(cursor)
  /\ s.state \in {"issued", "committed"}

RevokeUpload(s) ==
  /\ Revocable(s)
  /\ slots' = (slots \ {s}) \cup {[s EXCEPT !.state = "revoked"]}
  /\ commits' = {c \in commits : c.slot # s.id}
  /\ initCommits' = {c \in initCommits : c.slot # s.id}
  /\ UNCHANGED <<session, cursor>>

SessionTransitions ==
  {<<"live", "ending">>, <<"live", "aborted">>, <<"ending", "ended">>}

\* Fault: the cursor keeps the state it was published with.
TransitionedCursorStale(next) == cursor

\* The cursor's copy of the session state; the absent cursor stays absent.
TransitionedCursor(next) ==
  IF cursor.media = {} THEN cursor ELSE [cursor EXCEPT !.state = next]

TransitionSession(next) ==
  /\ <<session, next>> \in SessionTransitions
  /\ session' = next
  /\ cursor' = TransitionedCursor(next)
  /\ UNCHANGED <<slots, commits, initCommits>>

Next ==
  \/ \E id \in SlotIds, a \in Positions, t \in Times : IssueSlot(id, a, t)
  \/ \E s \in slots, max \in WindowSizes, t \in Times, tol \in LateTolerances :
       CommitUpload(s, max, t, tol)
  \/ \E t \in Times, tol \in LateTolerances : ApplyRetention(t, tol)
  \/ \E s \in slots : RevokeUpload(s)
  \/ \E next \in SessionStates : TransitionSession(next)

Spec == Init /\ [][Next]_vars

----------------------------------------------------------------------------
(***************************************************************************)
(* Invariants.                                                             *)
(***************************************************************************)

\* Every persisted field has its shape: the state that the store validates
\* on each load (assertCoordinatorPipelineState).
TypeOK ==
  /\ session \in SessionStates
  /\ slots \subseteq Slots
  /\ commits \subseteq Commits
  /\ initCommits \subseteq Commits
  /\ cursor \in Cursors

\* Slot ids are unique among retained slots, and no position is held open
\* twice: the guards of issueCoordinatorSlot survive commits, pruning,
\* revocation and the reuse of a pruned id.
OpenSlotsUnique ==
  \A s, r \in slots :
    \/ s = r
    \/ /\ s.id # r.id
       /\ s.at = r.at => ~(s.state \in OpenStates /\ r.state \in OpenStates)

\* The two copies of "this slot is committed" that the code keeps, slot.state
\* and the commit arrays, always agree, so a retry finds its commit exactly
\* as long as the slot that names it.
CommitsMatchSlots ==
  LET committed == {s \in slots : s.state = "committed"}
  IN  /\ commits = {CommitOf(s) : s \in {r \in committed : r.at.kind # "init"}}
      /\ initCommits = {CommitOf(s) : s \in {r \in committed : r.at.kind = "init"}}

\* Whatever the cursor shows is still recorded: neither retention nor
\* revocation drops a commit that players can be fetching.
WindowBacked ==
  /\ cursor.media \subseteq commits
  /\ cursor.inits \subseteq initCommits

\* The cursor is never stale: it always shows exactly the window that some
\* request size makes of the recorded commits, with the init objects of the
\* tracks in it.
CursorCurrent ==
  /\ IF cursor.media = {}
     THEN \A max \in WindowSizes : VisibleMedia(commits, max) = {}
     ELSE \E max \in WindowSizes : cursor.media = VisibleMedia(commits, max)
  /\ cursor.inits = VisibleInits(initCommits, cursor.media)

\* The snapshot does not grow with the age of the session: nothing stays
\* recorded behind the first visible segment of its track.
NothingBehindWindow ==
  \A c \in commits : OnTrack(cursor.media, c.at.track) # {} =>
    \E e \in OnTrack(cursor.media, c.at.track) : e.at.seq <= c.at.seq

\* A published cursor always carries the session's own state.
CursorStateInStep == cursor.media # {} => cursor.state = session

----------------------------------------------------------------------------
(***************************************************************************)
(* Action properties.                                                      *)
(***************************************************************************)

\* A commit leaves the record only by being revoked or once players have been
\* moved past it; a deadline that passes takes slots, never commits.
CommitsLeaveBehind ==
  [][\A c \in commits \ commits' :
       \/ \E s \in slots : RevokeUpload(s) /\ c = CommitOf(s)
       \/ /\ OnTrack(cursor'.media, c.at.track) # {}
          /\ \A d \in OnTrack(cursor'.media, c.at.track) : c.at.seq < d.at.seq]_vars

\* "no further transitions or commits can occur" in a terminal session.
NoCommitAfterEnd ==
  [][(session \in {"ended", "aborted"}) =>
       /\ commits' \subseteq commits
       /\ initCommits' \subseteq initCommits]_vars

\* At most one init commit per track is ever accepted.
OneInitPerTrack ==
  \A c, d \in initCommits : c.at.track = d.at.track => c = d

----------------------------------------------------------------------------
(***************************************************************************)
(* What players see of the pipeline is a LiveWindow.                       *)
(***************************************************************************)

Live == INSTANCE LiveWindow
          WITH media <- cursor.media, inits <- cursor.inits, state <- session

\* Every step of the pipeline is a step of the window players were promised:
\* trimmed only at the front, extended only at the edge, parts gapless.
ImplementsLiveWindow == Live!Spec

=============================================================================
