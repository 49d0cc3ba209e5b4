------------------------- MODULE CoordinatorProofs --------------------------
(***************************************************************************)
(* The safety of the coordinator pipeline, for every choice of its         *)
(* constants.  IInv is the inductive invariant: its parts need each other. *)
(* That a pruned id cannot be the id of something visible rests on slot    *)
(* ids being unique and on commits and slots agreeing; that commits and    *)
(* slots agree after pruning rests on the ids again, and that nothing      *)
(* stays behind the window rests on what is visible still being recorded.  *)
(*                                                                         *)
(* The second part is about the window: the cursor is always the window of *)
(* what is recorded, and what players see of it is a LiveWindow.  Both     *)
(* rest on Shows: of each track a window is everything visible from some   *)
(* sequence number on, and never nothing of a track that has something     *)
(* visible.  WInv joins it to IInv.                                        *)
(***************************************************************************)
EXTENDS Coordinator, FiniteSetTheorems, TLAPS

IInv ==
  /\ TypeOK
  /\ OpenSlotsUnique
  /\ CommitsMatchSlots
  /\ WindowBacked
  /\ NothingBehindWindow
  /\ CursorStateInStep

\* The parts of IInv about slots and commits, as predicates of their values.
UniqueSlots(S) ==
  \A s, r \in S :
    \/ s = r
    \/ /\ s.id # r.id
       /\ s.at = r.at => ~(s.state \in OpenStates /\ r.state \in OpenStates)

Matched(S, C, I) ==
  LET committed == {s \in S : s.state = "committed"}
  IN  /\ C = {CommitOf(s) : s \in {r \in committed : r.at.kind # "init"}}
      /\ I = {CommitOf(s) : s \in {r \in committed : r.at.kind = "init"}}

----------------------------------------------------------------------------
(***************************************************************************)
(* What the operators preserve.                                            *)
(***************************************************************************)

\* A window never shows what is not recorded, whatever its size.
LEMMA VisibleAreRecorded ==
  ASSUME NEW C, NEW I, NEW max, NEW media
  PROVE  /\ VisibleMedia(C, max) \subseteq C
         /\ VisibleInits(I, media) \subseteq I
BY DEF VisibleMedia, VisibleInits, Contiguous

\* A pruned id is never the id of an init commit, and a commit that goes is
\* one of the retired commits, not the namesake of an expired slot.
LEMMA ObsoleteCommits ==
  ASSUME NEW S, NEW C, NEW I, NEW cur, NEW now, NEW tol,
         UniqueSlots(S), Matched(S, C, I)
  PROVE  LET obsolete == ObsoleteSlotIds(S, C, cur, now, tol)
         IN  /\ \A c \in C : c.slot \in obsolete => c \in RetiredCommits(C, cur)
             /\ \A c \in I : c.slot \notin obsolete
<1> DEFINE obsolete == ObsoleteSlotIds(S, C, cur, now, tol)
<1>1. \A c \in C \cup I : \E s \in S :
        s.state = "committed" /\ c = CommitOf(s) /\ c.slot = s.id /\ c.at = s.at
  BY DEF Matched, CommitOf
<1>2. ASSUME NEW c \in C \cup I, c.slot \in obsolete
      PROVE  c \in RetiredCommits(C, cur)
  <2>1. PICK s \in S : s.state = "committed" /\ c = CommitOf(s) /\ c.slot = s.id
    BY <1>1
  <2>2. c.slot \notin {r.id : r \in ExpiredSlots(S, now, tol)}
    BY <2>1 DEF ExpiredSlots, UniqueSlots
  <2>3. PICK d \in RetiredCommits(C, cur) : d.slot = c.slot
    BY <1>2, <2>2 DEF ObsoleteSlotIds
  <2>4. PICK r \in S : d = CommitOf(r) /\ d.slot = r.id
    BY <1>1 DEF RetiredCommits
  <2> QED
    BY <2>1, <2>3, <2>4 DEF UniqueSlots
<1>3. \A c \in I : c \notin RetiredCommits(C, cur)
  <2> SUFFICES ASSUME NEW c \in I, c \in C PROVE FALSE
    BY DEF RetiredCommits
  <2> QED
    BY DEF Matched, CommitOf
<1> QED
  BY <1>2, <1>3

\* Pruning takes slots and commits together.
LEMMA PruningMatches ==
  ASSUME NEW S, NEW C, NEW I, NEW cur, NEW now, NEW tol,
         UniqueSlots(S), Matched(S, C, I)
  PROVE  LET obsolete == ObsoleteSlotIds(S, C, cur, now, tol)
         IN  /\ UniqueSlots(PrunedSlots(S, obsolete))
             /\ Matched(PrunedSlots(S, obsolete), PrunedCommits(C, obsolete), I)
<1> DEFINE obsolete == ObsoleteSlotIds(S, C, cur, now, tol)
<1>1. \A c \in I : c.slot \notin obsolete
  BY ObsoleteCommits
<1> HIDE DEF obsolete
<1>2. UniqueSlots(PrunedSlots(S, obsolete))
  BY DEF UniqueSlots, PrunedSlots
<1>3. PrunedCommits(C, obsolete)
        = {CommitOf(s) : s \in {r \in PrunedSlots(S, obsolete) :
                                  r.state = "committed" /\ r.at.kind # "init"}}
  BY DEF Matched, PrunedSlots, PrunedCommits, CommitOf
<1>4. I = {CommitOf(s) : s \in {r \in PrunedSlots(S, obsolete) :
                                  r.state = "committed" /\ r.at.kind = "init"}}
  BY <1>1 DEF Matched, PrunedSlots, CommitOf
<1>5. Matched(PrunedSlots(S, obsolete), PrunedCommits(C, obsolete), I)
  BY <1>3, <1>4 DEF Matched
<1> QED
  BY <1>2, <1>5 DEF obsolete

\* Pruning spares what the window shows and clears what is behind it.
LEMMA PruningSparesWindow ==
  ASSUME NEW S, NEW C, NEW I, NEW cur, NEW now, NEW tol,
         UniqueSlots(S), Matched(S, C, I), cur.media \subseteq C
  PROVE  LET obsolete == ObsoleteSlotIds(S, C, cur, now, tol)
         IN  cur.media \subseteq PrunedCommits(C, obsolete)
<1> DEFINE obsolete == ObsoleteSlotIds(S, C, cur, now, tol)
<1>1. \A c \in cur.media : c.slot \in obsolete => c \in RetiredCommits(C, cur)
  BY ObsoleteCommits
<1>2. \A c \in cur.media : c \notin RetiredCommits(C, cur)
  BY DEF RetiredCommits, WindowSlotIds
<1> QED
  BY <1>1, <1>2 DEF PrunedCommits

\* Positions carry integers that can be compared.
LEMMA SequenceNumbers ==
  \A c \in Commits : c.at.seq \in Nat
BY CoordinatorAssumption DEF CoordinatorAssumption, Commits, Positions

\* Pruning by a window leaves nothing behind it.
LEMMA PruningClearsBehind ==
  ASSUME NEW S, NEW C \in SUBSET Commits, NEW I, NEW cur, NEW now, NEW tol,
         UniqueSlots(S), Matched(S, C, I),
         cur.media \subseteq C, cur.inits \subseteq I
  PROVE  LET obsolete == ObsoleteSlotIds(S, C, cur, now, tol)
         IN  \A c \in PrunedCommits(C, obsolete) :
               OnTrack(cur.media, c.at.track) # {} =>
                 \E e \in OnTrack(cur.media, c.at.track) : e.at.seq <= c.at.seq
<1> DEFINE obsolete == ObsoleteSlotIds(S, C, cur, now, tol)
<1>1. SUFFICES ASSUME NEW c \in PrunedCommits(C, obsolete),
                      OnTrack(cur.media, c.at.track) # {},
                      \A e \in OnTrack(cur.media, c.at.track) :
                        ~(e.at.seq <= c.at.seq)
               PROVE  FALSE
  OBVIOUS
<1>2. \A e \in OnTrack(cur.media, c.at.track) : c.at.seq < e.at.seq
  BY <1>1, SequenceNumbers DEF PrunedCommits, OnTrack
<1>3. c \in C /\ c \notin RetiredCommits(C, cur)
  BY DEF PrunedCommits, ObsoleteSlotIds
<1>4. PICK d \in cur.media \cup cur.inits : d.slot = c.slot
  BY <1>1, <1>2, <1>3 DEF RetiredCommits, WindowSlotIds
<1>5. d = c
  BY <1>3, <1>4 DEF UniqueSlots, Matched, CommitOf
<1>6. d \in cur.media
  <2> SUFFICES ASSUME d \in I PROVE FALSE
    BY <1>4
  <2> QED
    BY <1>3, <1>5 DEF Matched, CommitOf
<1>7. c.at.seq < c.at.seq
  BY <1>2, <1>5, <1>6 DEF OnTrack
<1> QED
  BY <1>3, <1>7, SequenceNumbers

\* recordCommit keeps the slots and the commit arrays in step.
LEMMA MarkingMatches ==
  ASSUME IInv, NEW s \in slots, s.state = "issued"
  PROVE  /\ MarkCommitted(s) \subseteq Slots
         /\ RecordedMedia(s) \subseteq Commits
         /\ RecordedInits(s) \subseteq Commits
         /\ UniqueSlots(MarkCommitted(s))
         /\ Matched(MarkCommitted(s), RecordedMedia(s), RecordedInits(s))
<1> DEFINE r == [s EXCEPT !.state = "committed"]
<1>1. /\ s \in Slots
      /\ r \in Slots
      /\ r.id = s.id /\ r.at = s.at /\ r.state = "committed"
  BY DEF IInv, TypeOK, Slots, SlotStates
<1>2. MarkCommitted(s) = (slots \ {s}) \cup {r}
  BY DEF MarkCommitted
<1>3. CommitOf(s) = CommitOf(r) /\ CommitOf(s) \in Commits
  BY <1>1 DEF CommitOf, Slots, Commits
<1> HIDE DEF r
<1>4. UniqueSlots(slots)
  BY DEF IInv, OpenSlotsUnique, UniqueSlots
<1>5. Matched(slots, commits, initCommits)
  BY DEF IInv, CommitsMatchSlots, Matched
<1>6. UniqueSlots(MarkCommitted(s))
  BY <1>1, <1>2, <1>4 DEF UniqueSlots, OpenStates
<1>7. Matched(MarkCommitted(s), RecordedMedia(s), RecordedInits(s))
  <2>1. CASE s.at.kind = "init"
    BY <2>1, <1>1, <1>2, <1>3, <1>5 DEF Matched, RecordedMedia, RecordedInits
  <2>2. CASE s.at.kind # "init"
    BY <2>2, <1>1, <1>2, <1>3, <1>5 DEF Matched, RecordedMedia, RecordedInits
  <2> QED
    BY <2>1, <2>2
<1> QED
  BY <1>1, <1>2, <1>3, <1>6, <1>7
    DEF IInv, TypeOK, RecordedMedia, RecordedInits

\* The next cursor shows recorded commits only.
LEMMA NextCursorBacked ==
  ASSUME IInv, NEW s \in slots, s.state = "issued", NEW max, NEW next,
         LET window == VisibleMedia(RecordedMedia(s), max)
         IN  next = NextCursor([media |-> window,
                                inits |-> VisibleInits(RecordedInits(s), window),
                                state |-> session])
  PROVE  /\ next \in Cursors
         /\ next.media \subseteq RecordedMedia(s)
         /\ next.inits \subseteq RecordedInits(s)
         /\ next.media # {} => next.state = session
<1> DEFINE window == VisibleMedia(RecordedMedia(s), max)
           candidate == [media |-> window,
                         inits |-> VisibleInits(RecordedInits(s), window),
                         state |-> session]
<1>1. /\ window \subseteq RecordedMedia(s)
      /\ candidate.inits \subseteq RecordedInits(s)
  BY VisibleAreRecorded
<1>2. RecordedMedia(s) \subseteq Commits /\ RecordedInits(s) \subseteq Commits
  BY MarkingMatches
<1>3. candidate \in Cursors
  BY <1>1, <1>2 DEF Cursors, IInv, TypeOK
<1>4. CASE next = cursor
  BY <1>4 DEF IInv, TypeOK, WindowBacked, CursorStateInStep,
              RecordedMedia, RecordedInits
<1>5. CASE next = candidate
  BY <1>1, <1>3, <1>5
<1> QED
  BY <1>4, <1>5 DEF NextCursor

----------------------------------------------------------------------------
(***************************************************************************)
(* IInv is inductive: one lemma per action.                                *)
(***************************************************************************)

\* The parts of IInv that IssueSlot, RevokeUpload and the commits disturb,
\* in terms of UniqueSlots and Matched.
LEMMA IInvParts ==
  /\ OpenSlotsUnique <=> UniqueSlots(slots)
  /\ CommitsMatchSlots <=> Matched(slots, commits, initCommits)
BY DEF OpenSlotsUnique, UniqueSlots, CommitsMatchSlots, Matched

\* The primed invariants in terms of the primed state, for the lemmas above.
LEMMA IInvPartsNext ==
  /\ OpenSlotsUnique' <=> UniqueSlots(slots')
  /\ CommitsMatchSlots' <=> Matched(slots', commits', initCommits')
BY DEF OpenSlotsUnique, UniqueSlots, CommitsMatchSlots, Matched

\* A new session satisfies IInv: nothing is issued, recorded or shown.
LEMMA InitIInv == Init => IInv
BY DEF Init, IInv, TypeOK, SessionStates, Cursors, NoCursor, OpenSlotsUnique,
       CommitsMatchSlots, WindowBacked, NothingBehindWindow, CursorStateInStep

\* A new slot is issued, so it has no commit; its id and position are new.
LEMMA IssueSlotIInv ==
  ASSUME IInv, NEW id \in SlotIds, NEW a \in Positions, NEW t \in Times,
         IssueSlot(id, a, t)
  PROVE  IInv'
<1> DEFINE n == [id |-> id, at |-> a, expiresAt |-> t, state |-> "issued"]
<1>1. /\ n \in Slots /\ n.id = id /\ n.at = a /\ n.state = "issued"
      /\ slots' = slots \cup {n}
  BY DEF IssueSlot, Slots, SlotStates
<1> HIDE DEF n
<1>2. TypeOK'
  BY <1>1 DEF IInv, TypeOK, IssueSlot
<1>3. UniqueSlots(slots')
  BY <1>1 DEF IInv, OpenSlotsUnique, UniqueSlots, IssueSlot, PositionTaken
<1>4. Matched(slots', commits', initCommits')
  BY <1>1 DEF IInv, CommitsMatchSlots, Matched, IssueSlot
<1>5. (WindowBacked /\ NothingBehindWindow /\ CursorStateInStep)'
  BY DEF IInv, WindowBacked, NothingBehindWindow, CursorStateInStep, IssueSlot
<1> QED
  BY <1>2, <1>3, <1>4, <1>5, IInvPartsNext DEF IInv

\* The new commit is not late, so it lands in front of what its track shows.
LEMMA CommitHeldIInv ==
  ASSUME IInv, NEW s \in slots, NEW max \in WindowSizes, NEW t \in Times,
         NEW tol \in LateTolerances, CommitHeld(s, max, t, tol)
  PROVE  IInv'
<1>1. /\ s.state = "issued" /\ ~IsLateSlot(s.at, cursor.media)
      /\ slots' = MarkCommitted(s)
      /\ commits' = RecordedMedia(s)
      /\ initCommits' = RecordedInits(s)
      /\ UNCHANGED <<session, cursor>>
  BY DEF CommitHeld, CommitAccepted
<1>2. TypeOK'
  BY <1>1, MarkingMatches DEF IInv, TypeOK
<1>3. UniqueSlots(slots') /\ Matched(slots', commits', initCommits')
  BY <1>1, MarkingMatches
<1>4. WindowBacked'
  BY <1>1 DEF IInv, WindowBacked, RecordedMedia, RecordedInits
<1>5. NothingBehindWindow'
  <2>1. SUFFICES ASSUME NEW c \in commits',
                        OnTrack(cursor.media, c.at.track) # {}
                 PROVE  \E e \in OnTrack(cursor.media, c.at.track) :
                          e.at.seq <= c.at.seq
    BY <1>1 DEF NothingBehindWindow
  <2>2. CASE c \in commits
    BY <2>1, <2>2 DEF IInv, NothingBehindWindow
  <2>3. CASE c = CommitOf(s)
    <3>1. PICK e \in OnTrack(cursor.media, c.at.track) : TRUE
      BY <2>1
    <3>2. c.at = s.at
      BY <2>3 DEF CommitOf
    <3>3. ~(c.at.seq < e.at.seq)
      BY <1>1, <3>1, <3>2 DEF IsLateSlot, OnTrack
    <3>4. c \in Commits /\ e \in Commits
      BY <1>1, <1>2, <3>1 DEF TypeOK, Cursors, OnTrack
    <3> QED
      BY <3>1, <3>3, <3>4, SequenceNumbers
  <2> QED
    BY <1>1, <2>2, <2>3 DEF RecordedMedia
<1>6. CursorStateInStep'
  BY <1>1 DEF IInv, CursorStateInStep
<1> QED
  BY <1>2, <1>3, <1>4, <1>5, <1>6, IInvPartsNext DEF IInv

\* The cursor moves onto recorded commits, and the pruning that follows
\* spares them.
LEMMA CommitAdvancesIInv ==
  ASSUME IInv, NEW s \in slots, NEW max \in WindowSizes, NEW t \in Times,
         NEW tol \in LateTolerances, CommitAdvances(s, max, t, tol)
  PROVE  IInv'
<1> DEFINE S == MarkCommitted(s)
           C == RecordedMedia(s)
           I == RecordedInits(s)
           obsolete == ObsoleteSlotIds(S, C, cursor', t, tol)
<1>1. /\ s.state = "issued"
      /\ slots' = PrunedSlots(S, obsolete)
      /\ commits' = PrunedCommits(C, obsolete)
      /\ initCommits' = I
      /\ session' = session
  BY DEF CommitAdvances, CommitAccepted
<1>2. /\ S \subseteq Slots /\ C \in SUBSET Commits /\ I \in SUBSET Commits
      /\ UniqueSlots(S) /\ Matched(S, C, I)
  BY <1>1, MarkingMatches
<1>3. /\ cursor' \in Cursors
      /\ cursor'.media \subseteq C
      /\ cursor'.inits \subseteq I
      /\ cursor'.media # {} => cursor'.state = session
  <2>1. LET window == VisibleMedia(C, max)
        IN  cursor' = NextCursor([media |-> window,
                                  inits |-> VisibleInits(I, window),
                                  state |-> session])
    BY DEF CommitAdvances
  <2> QED
    BY <1>1, <2>1, NextCursorBacked
<1> HIDE DEF S, C, I
<1>4. TypeOK'
  BY <1>1, <1>2, <1>3 DEF IInv, TypeOK, PrunedSlots, PrunedCommits
<1>5. UniqueSlots(slots') /\ Matched(slots', commits', initCommits')
  BY <1>1, <1>2, PruningMatches
<1>6. WindowBacked'
  BY <1>1, <1>2, <1>3, PruningSparesWindow DEF WindowBacked
<1>7. NothingBehindWindow'
  BY <1>1, <1>2, <1>3, PruningClearsBehind DEF NothingBehindWindow
<1>8. CursorStateInStep'
  BY <1>1, <1>3 DEF CursorStateInStep
<1> QED
  BY <1>4, <1>5, <1>6, <1>7, <1>8, IInvPartsNext DEF IInv

\* A sweep takes slots and their commits together, and none that the cursor
\* shows.
LEMMA ApplyRetentionIInv ==
  ASSUME IInv, NEW t \in Times, NEW tol \in LateTolerances,
         ApplyRetention(t, tol)
  PROVE  IInv'
<1> DEFINE obsolete == ObsoleteSlotIds(slots, commits, cursor, t, tol)
<1>1. /\ slots' = PrunedSlots(slots, obsolete)
      /\ commits' = PrunedCommits(commits, obsolete)
      /\ UNCHANGED <<session, initCommits, cursor>>
  BY DEF ApplyRetention
<1>2. UniqueSlots(slots) /\ Matched(slots, commits, initCommits)
  BY IInvParts DEF IInv
<1>3. TypeOK'
  BY <1>1 DEF IInv, TypeOK, PrunedSlots, PrunedCommits
<1>4. UniqueSlots(slots') /\ Matched(slots', commits', initCommits')
  BY <1>1, <1>2, PruningMatches
<1>5. WindowBacked'
  BY <1>1, <1>2, PruningSparesWindow DEF IInv, WindowBacked
<1>6. NothingBehindWindow' /\ CursorStateInStep'
  BY <1>1 DEF IInv, NothingBehindWindow, CursorStateInStep, PrunedCommits
<1> QED
  BY <1>3, <1>4, <1>5, <1>6, IInvPartsNext DEF IInv

\* What the cursor shows has other slot ids than the slot revoked.
LEMMA RevokeUploadIInv ==
  ASSUME IInv, NEW s \in slots, RevokeUpload(s)
  PROVE  IInv'
<1> DEFINE r == [s EXCEPT !.state = "revoked"]
<1>1. /\ s \in Slots /\ r \in Slots
      /\ r.id = s.id /\ r.at = s.at /\ r.state = "revoked"
      /\ slots' = (slots \ {s}) \cup {r}
      /\ commits' = {c \in commits : c.slot # s.id}
      /\ initCommits' = {c \in initCommits : c.slot # s.id}
      /\ UNCHANGED <<session, cursor>>
      /\ s.id \notin WindowSlotIds(cursor)
  BY DEF IInv, TypeOK, Slots, SlotStates, RevokeUpload, Revocable
<1> HIDE DEF r
<1>2. UniqueSlots(slots) /\ Matched(slots, commits, initCommits)
  BY IInvParts DEF IInv
<1>3. TypeOK'
  BY <1>1 DEF IInv, TypeOK
<1>4. UniqueSlots(slots')
  BY <1>1, <1>2 DEF UniqueSlots, OpenStates
<1>5. Matched(slots', commits', initCommits')
  <2>1. \A q \in slots : q \in slots' /\ q.state = "committed"
                           <=> q.state = "committed" /\ q.id # s.id
    BY <1>1, <1>2 DEF UniqueSlots
  <2>2. \A q \in slots' : q.state = "committed" => q \in slots
    BY <1>1
  <2>3. \A q : CommitOf(q).slot = q.id
    BY DEF CommitOf
  <2> HIDE DEF CommitOf
  <2>4. commits' = {CommitOf(q) : q \in {p \in slots' :
                       p.state = "committed" /\ p.at.kind # "init"}}
    BY <1>1, <1>2, <2>1, <2>2, <2>3 DEF Matched
  <2>5. initCommits' = {CommitOf(q) : q \in {p \in slots' :
                           p.state = "committed" /\ p.at.kind = "init"}}
    BY <1>1, <1>2, <2>1, <2>2, <2>3 DEF Matched
  <2> QED
    BY <2>4, <2>5 DEF Matched
<1>6. (WindowBacked /\ NothingBehindWindow /\ CursorStateInStep)'
  BY <1>1 DEF IInv, WindowBacked, NothingBehindWindow, CursorStateInStep,
              WindowSlotIds
<1> QED
  BY <1>3, <1>4, <1>5, <1>6, IInvPartsNext DEF IInv

\* A transition moves the session and the cursor's copy of its state at once.
LEMMA TransitionSessionIInv ==
  ASSUME IInv, NEW next \in SessionStates, TransitionSession(next)
  PROVE  IInv'
<1>1. /\ UNCHANGED <<slots, commits, initCommits>>
      /\ session' = next
      /\ cursor' \in Cursors
      /\ cursor'.media = cursor.media /\ cursor'.inits = cursor.inits
      /\ cursor.media # {} => cursor'.state = next
  BY DEF IInv, TypeOK, Cursors, TransitionSession, TransitionedCursor
<1> QED
  BY <1>1 DEF IInv, TypeOK, OpenSlotsUnique, CommitsMatchSlots, WindowBacked,
              NothingBehindWindow, CursorStateInStep

\* Every step preserves IInv.
LEMMA NextIInv == IInv /\ [Next]_vars => IInv'
<1> SUFFICES ASSUME IInv, [Next]_vars PROVE IInv'
  OBVIOUS
<1>1. CASE UNCHANGED vars
  BY <1>1 DEF vars, IInv, TypeOK, OpenSlotsUnique, CommitsMatchSlots,
              WindowBacked, NothingBehindWindow, CursorStateInStep
<1>2. ASSUME NEW id \in SlotIds, NEW a \in Positions, NEW t \in Times,
             IssueSlot(id, a, t)
      PROVE  IInv'
  BY <1>2, IssueSlotIInv
<1>3. ASSUME NEW s \in slots, NEW max \in WindowSizes, NEW t \in Times,
             NEW tol \in LateTolerances, CommitUpload(s, max, t, tol)
      PROVE  IInv'
  BY <1>3, CommitHeldIInv, CommitAdvancesIInv DEF CommitUpload
<1>4. ASSUME NEW t \in Times, NEW tol \in LateTolerances,
             ApplyRetention(t, tol)
      PROVE  IInv'
  BY <1>4, ApplyRetentionIInv
<1>5. ASSUME NEW s \in slots, RevokeUpload(s)
      PROVE  IInv'
  BY <1>5, RevokeUploadIInv
<1>6. ASSUME NEW next \in SessionStates, TransitionSession(next)
      PROVE  IInv'
  BY <1>6, TransitionSessionIInv
<1> QED
  BY <1>1, <1>2, <1>3, <1>4, <1>5, <1>6 DEF Next

----------------------------------------------------------------------------
(***************************************************************************)
(* The theorems.                                                           *)
(***************************************************************************)

\* IInv holds in every reachable state.
THEOREM Invariance == Spec => []IInv
BY InitIInv, NextIInv, PTL DEF Spec

\* Every state the operations lead to has the shape that the store insists
\* on when it loads a snapshot.
THEOREM TypeCorrect == Spec => []TypeOK
BY Invariance, PTL DEF IInv

\* No position is ever held open by two slots, and ids of retained slots
\* differ, though pruned ids and revoked positions are issued again.
THEOREM OpenSlotsAreUnique == Spec => []OpenSlotsUnique
BY Invariance, PTL DEF IInv

\* Slot states and commit arrays never disagree about what is committed.
THEOREM CommitsAlwaysMatchSlots == Spec => []CommitsMatchSlots
BY Invariance, PTL DEF IInv

\* Neither retention nor revocation ever drops what the cursor shows.
THEOREM WindowAlwaysBacked == Spec => []WindowBacked
BY Invariance, PTL DEF IInv

\* Once a track shows a window, nothing behind it stays recorded.
THEOREM NothingStaysBehind == Spec => []NothingBehindWindow
BY Invariance, PTL DEF IInv

\* The state on a published cursor is the session's.
THEOREM CursorStateFollows == Spec => []CursorStateInStep
BY Invariance, PTL DEF IInv

----------------------------------------------------------------------------
(***************************************************************************)
(* What a step may never do.                                               *)
(***************************************************************************)

\* A commit that a step drops is revoked, or lies behind the cursor it leaves.
LEMMA StepLeavesBehind ==
  IInv /\ [Next]_vars =>
    [\A c \in commits \ commits' :
       \/ \E s \in slots : RevokeUpload(s) /\ c = CommitOf(s)
       \/ /\ OnTrack(cursor'.media, c.at.track) # {}
          /\ \A d \in OnTrack(cursor'.media, c.at.track) : c.at.seq < d.at.seq]_vars
<1> SUFFICES ASSUME IInv, Next, NEW c \in commits, c \notin commits'
             PROVE  \/ \E s \in slots : RevokeUpload(s) /\ c = CommitOf(s)
                    \/ /\ OnTrack(cursor'.media, c.at.track) # {}
                       /\ \A d \in OnTrack(cursor'.media, c.at.track) :
                            c.at.seq < d.at.seq
  OBVIOUS
<1>1. UniqueSlots(slots) /\ Matched(slots, commits, initCommits)
  BY IInvParts DEF IInv
<1>2. ASSUME NEW s \in slots, NEW max \in WindowSizes, NEW t \in Times,
             NEW tol \in LateTolerances, CommitAdvances(s, max, t, tol)
      PROVE  c \in RetiredCommits(RecordedMedia(s), cursor')
  <2> DEFINE obsolete == ObsoleteSlotIds(MarkCommitted(s), RecordedMedia(s),
                                         cursor', t, tol)
  <2>1. s.state = "issued" /\ commits' = PrunedCommits(RecordedMedia(s), obsolete)
    BY <1>2 DEF CommitAdvances, CommitAccepted
  <2>2. c \in RecordedMedia(s) /\ c.slot \in obsolete
    BY <2>1 DEF PrunedCommits, RecordedMedia
  <2> HIDE DEF obsolete
  <2>3. /\ UniqueSlots(MarkCommitted(s))
        /\ Matched(MarkCommitted(s), RecordedMedia(s), RecordedInits(s))
    BY <2>1, MarkingMatches
  <2> QED
    BY <2>2, <2>3, ObsoleteCommits DEF obsolete
<1>3. ASSUME NEW t \in Times, NEW tol \in LateTolerances, ApplyRetention(t, tol)
      PROVE  c \in RetiredCommits(commits, cursor')
  <2> DEFINE obsolete == ObsoleteSlotIds(slots, commits, cursor, t, tol)
  <2>1. commits' = PrunedCommits(commits, obsolete) /\ cursor' = cursor
    BY <1>3 DEF ApplyRetention
  <2>2. c.slot \in obsolete
    BY <2>1 DEF PrunedCommits
  <2> HIDE DEF obsolete
  <2> QED
    BY <1>1, <2>1, <2>2, ObsoleteCommits DEF obsolete
<1>4. ASSUME NEW s \in slots, RevokeUpload(s)
      PROVE  c = CommitOf(s)
  <2>1. c.slot = s.id
    BY <1>4 DEF RevokeUpload
  <2>2. PICK r \in slots : c = CommitOf(r) /\ c.slot = r.id
    BY <1>1 DEF Matched, CommitOf
  <2> QED
    BY <1>1, <2>1, <2>2 DEF UniqueSlots
<1>5. CASE \E s \in slots, max \in WindowSizes, t \in Times,
              tol \in LateTolerances : CommitUpload(s, max, t, tol)
  <2>1. PICK s \in slots, max \in WindowSizes, t \in Times,
             tol \in LateTolerances : CommitUpload(s, max, t, tol)
    BY <1>5
  <2>2. CASE CommitHeld(s, max, t, tol)
    BY <2>2 DEF CommitHeld, RecordedMedia
  <2>3. CASE CommitAdvances(s, max, t, tol)
    BY <1>2, <2>3 DEF RetiredCommits
  <2> QED
    BY <2>1, <2>2, <2>3 DEF CommitUpload
<1>6. CASE \E t \in Times, tol \in LateTolerances : ApplyRetention(t, tol)
  BY <1>3, <1>6 DEF RetiredCommits
<1>7. CASE \E s \in slots : RevokeUpload(s)
  BY <1>4, <1>7
<1>8. CASE \/ \E id \in SlotIds, a \in Positions, t \in Times : IssueSlot(id, a, t)
           \/ \E next \in SessionStates : TransitionSession(next)
  BY <1>8 DEF IssueSlot, TransitionSession
<1> QED
  BY <1>5, <1>6, <1>7, <1>8 DEF Next

\* No commit is lost to a deadline or to another track's progress: it goes by
\* revocation, or when its own track's window has moved past it.
THEOREM CommitsOnlyLeaveBehind == Spec => CommitsLeaveBehind
BY Invariance, StepLeavesBehind, PTL DEF Spec, CommitsLeaveBehind

----------------------------------------------------------------------------
(***************************************************************************)
(* The window.                                                             *)
(***************************************************************************)

Shows(media, C) ==
  /\ media \subseteq Contiguous(C)
  /\ \A c \in Contiguous(C) :
       /\ OnTrack(media, c.at.track) # {}
       /\ \A e \in OnTrack(media, c.at.track) :
            e.at.seq <= c.at.seq => c \in media

WInv ==
  /\ IInv
  /\ IsFiniteSet(commits)
  /\ CursorCurrent

----------------------------------------------------------------------------
(***************************************************************************)
(* Windows.                                                                *)
(***************************************************************************)

\* A finite set of integers has a greatest element.
LEMMA GreatestExists ==
  ASSUME NEW S \in SUBSET Int, IsFiniteSet(S), S # {}
  PROVE  \E n \in S : \A m \in S : m <= n
<1> DEFINE Above(n) == {m \in S : m > n}
           T == {Above(n) : n \in S}
           R == StrictSubsetOrdering(S)
<1>1. T \subseteq FiniteSubsetsOf(S) /\ T # {}
  <2>1. ASSUME NEW n \in S PROVE Above(n) \in FiniteSubsetsOf(S)
    <3>1. Above(n) \in SUBSET S
      OBVIOUS
    <3> HIDE DEF Above
    <3>2. IsFiniteSet(Above(n))
      BY <3>1, FS_Subset
    <3> QED
      BY <3>1, <3>2 DEF FiniteSubsetsOf
  <2> HIDE DEF Above
  <2> QED
    BY <2>1
<1>2. PICK A \in T : \A B \in T : <<B, A>> \notin R
  <2> HIDE DEF T, R
  <2>1. IsWellFoundedOn(StrictSubsetOrdering(S), FiniteSubsetsOf(S))
    BY FS_StrictSubsetOrderingWellFounded
  <2> QED
    BY <1>1, <2>1, WFMin DEF R
<1>3. PICK n \in S : A = Above(n)
  OBVIOUS
<1>4. ASSUME NEW m \in S, m > n PROVE FALSE
  <2>1. Above(m) \in T
    OBVIOUS
  <2>2. /\ Above(m) \subseteq Above(n)
        /\ m \in Above(n) /\ m \notin Above(m)
    <3>1. n \in Int /\ m \in Int /\ m > n
      BY <1>4
    <3>2. \A k \in Int : k > m => k > n
      BY <3>1
    <3>3. \A k \in S : k \in Int
      OBVIOUS
    <3>4. Above(m) \subseteq Above(n)
      BY <3>2, <3>3
    <3>5. m \in Above(n)
      BY <3>1
    <3>6. m \notin Above(m)
      <4>1. ~(m > m)
        BY <3>1
      <4> QED
        BY <4>1
    <3> HIDE DEF Above
    <3> QED
      BY <3>4, <3>5, <3>6
  <2>3. <<Above(m), Above(n)>> \in (SUBSET S) \X (SUBSET S)
    OBVIOUS
  <2>4. <<Above(m), Above(n)>> \in R
    BY <2>2, <2>3 DEF StrictSubsetOrdering
  <2> QED
    BY <1>2, <1>3, <2>1, <2>4
<1> QED
  BY <1>4

\* Finitely many commits have finitely many sequence numbers and parts.
LEMMA FiniteImages ==
  ASSUME NEW C, IsFiniteSet(C)
  PROVE  IsFiniteSet(SeqsOf(C)) /\ IsFiniteSet({c.at.part : c \in C})
<1>1. IsFiniteSet(SeqsOf(C))
  <2> DEFINE f == [c \in C |-> c.at.seq]
  <2>1. f \in Surjection(C, SeqsOf(C))
    BY DEF Surjection, SeqsOf
  <2> QED
    BY <2>1, FS_Surjection
<1>2. IsFiniteSet({c.at.part : c \in C})
  <2> DEFINE f == [c \in C |-> c.at.part]
  <2>1. f \in Surjection(C, {c.at.part : c \in C})
    BY DEF Surjection
  <2> QED
    BY <2>1, FS_Surjection
<1> QED
  BY <1>1, <1>2

\* Parts are numbered by integers, and NoPart comes before them all.
LEMMA PartOrder ==
  \A c \in Commits : c.at.part \in Int /\ c.at.part >= NoPart
<1> SUFFICES ASSUME NEW a \in Positions
             PROVE  a.part \in Int /\ a.part >= NoPart
  BY DEF Commits
<1>1. Parts \subseteq Nat
  BY CoordinatorAssumption DEF CoordinatorAssumption
<1>2. a.part = NoPart \/ a.part \in Parts
  BY DEF Positions
<1>3. \A p \in Nat : p \in Int /\ p >= NoPart
  BY DEF NoPart
<1>4. NoPart \in Int /\ NoPart >= NoPart
  BY DEF NoPart
<1> QED
  BY <1>1, <1>2, <1>3, <1>4

\* What is visible stays visible when more is recorded.
LEMMA ContiguousGrows ==
  ASSUME NEW C, NEW D, C \subseteq D
  PROVE  Contiguous(C) \subseteq Contiguous(D)
BY DEF Contiguous

\* The sequence numbers that a track shows beyond a given one.
Newer(C, t, n) == {m \in SeqsOf(OnTrack(Contiguous(C), t)) : m > n}

LEMMA VisibleByNewer ==
  ASSUME NEW C, NEW max
  PROVE  VisibleMedia(C, max) =
           {c \in Contiguous(C) :
              Cardinality(Newer(C, c.at.track, c.at.seq)) < max}
BY DEF VisibleMedia, Newer

LEMMA NewerFinite ==
  ASSUME NEW C \in SUBSET Commits, IsFiniteSet(C), NEW t, NEW n
  PROVE  /\ IsFiniteSet(Newer(C, t, n))
         /\ Cardinality(Newer(C, t, n)) \in Nat
         /\ Newer(C, t, n) \subseteq Nat
<1>1. OnTrack(Contiguous(C), t) \in SUBSET C
  BY DEF OnTrack, Contiguous
<1>2. IsFiniteSet(OnTrack(Contiguous(C), t))
  BY <1>1, FS_Subset
<1>3. IsFiniteSet(SeqsOf(OnTrack(Contiguous(C), t)))
  BY <1>2, FiniteImages
<1>4. Newer(C, t, n) \in SUBSET SeqsOf(OnTrack(Contiguous(C), t))
  BY DEF Newer
<1>5. IsFiniteSet(Newer(C, t, n))
  BY <1>3, <1>4, FS_Subset
<1>6. SeqsOf(OnTrack(Contiguous(C), t)) \subseteq Nat
  BY <1>1, SequenceNumbers DEF SeqsOf
<1> QED
  BY <1>4, <1>5, <1>6, FS_CardinalityType

\* A window of any size shows every track from some point on.
LEMMA WindowShows ==
  ASSUME NEW C \in SUBSET Commits, IsFiniteSet(C), NEW max \in Nat \ {0}
  PROVE  Shows(VisibleMedia(C, max), C)
<1> DEFINE media == VisibleMedia(C, max)
<1>0. Contiguous(C) \subseteq C
  BY DEF Contiguous
<1>1. media \subseteq Contiguous(C)
  BY VisibleByNewer
<1>2. ASSUME NEW c \in Contiguous(C), NEW e \in OnTrack(media, c.at.track),
             e.at.seq <= c.at.seq
      PROVE  c \in media
  <2> DEFINE t == c.at.track
  <2>1. e.at.track = t /\ Cardinality(Newer(C, t, e.at.seq)) < max
    BY VisibleByNewer DEF OnTrack
  <2>2. e.at.seq \in Nat /\ c.at.seq \in Nat
    BY <1>0, <1>1, SequenceNumbers DEF OnTrack
  <2>3. Newer(C, t, c.at.seq) \in SUBSET Newer(C, t, e.at.seq)
    <3>1. \A m \in Newer(C, t, c.at.seq) : m \in Nat
      BY NewerFinite
    <3> QED
      BY <1>2, <2>2, <3>1 DEF Newer
  <2>4. /\ IsFiniteSet(Newer(C, t, e.at.seq))
        /\ Cardinality(Newer(C, t, e.at.seq)) \in Nat
        /\ Cardinality(Newer(C, t, c.at.seq)) \in Nat
    BY NewerFinite
  <2>5. Cardinality(Newer(C, t, c.at.seq))
          <= Cardinality(Newer(C, t, e.at.seq))
    BY <2>3, <2>4, FS_Subset
  <2> QED
    BY <2>1, <2>4, <2>5, VisibleByNewer
<1>3. ASSUME NEW c \in Contiguous(C)
      PROVE  OnTrack(media, c.at.track) # {}
  <2> DEFINE t == c.at.track
             S == SeqsOf(OnTrack(Contiguous(C), t))
  <2>1. S \in SUBSET Int /\ S # {}
    BY <1>0, SequenceNumbers DEF SeqsOf, OnTrack
  <2>2. OnTrack(Contiguous(C), t) \in SUBSET C
    BY <1>0 DEF OnTrack
  <2>3. IsFiniteSet(S)
    BY <2>2, FS_Subset, FiniteImages
  <2> HIDE DEF S
  <2>4. PICK n \in S : \A m \in S : m <= n
    BY <2>1, <2>3, GreatestExists
  <2>5. PICK d \in Contiguous(C) : d.at.track = t /\ d.at.seq = n
    BY <2>4 DEF S, SeqsOf, OnTrack
  <2>6. Newer(C, t, n) = {}
    BY <2>1, <2>4 DEF Newer, S
  <2>7. Cardinality(Newer(C, t, n)) = 0
    BY <2>6, FS_EmptySet
  <2>8. d \in media
    BY <2>5, <2>7, VisibleByNewer
  <2> QED
    BY <2>5, <2>8 DEF OnTrack
<1> QED
  BY <1>1, <1>2, <1>3 DEF Shows

\* Taking away what lies wholly before the window, and leaving nothing there,
\* leaves the window as it was.
LEMMA TrimmingKeepsWindow ==
  ASSUME NEW C \in SUBSET Commits, IsFiniteSet(C), NEW D \in SUBSET C,
         NEW max \in Nat \ {0},
         \A c \in C \ D : \A e \in OnTrack(VisibleMedia(C, max), c.at.track) :
           c.at.seq < e.at.seq,
         \A c \in D : OnTrack(VisibleMedia(C, max), c.at.track) # {} =>
           \E e \in OnTrack(VisibleMedia(C, max), c.at.track) :
             e.at.seq <= c.at.seq
  PROVE  VisibleMedia(D, max) = VisibleMedia(C, max)
<1> DEFINE media == VisibleMedia(C, max)
           From(c) == \E e \in OnTrack(media, c.at.track) : e.at.seq <= c.at.seq
<1>1. /\ \A c \in C : c.at.seq \in Nat
      /\ Contiguous(C) \subseteq C /\ Contiguous(D) \subseteq Contiguous(C)
      /\ Contiguous(D) \subseteq D
      /\ Shows(media, C)
  BY SequenceNumbers, ContiguousGrows, WindowShows DEF Contiguous
<1>2. media \subseteq C
  BY <1>1 DEF Shows
<1>3. \A c \in C : From(c) => c \in D
  <2> SUFFICES ASSUME NEW c \in C, c \notin D,
                      NEW e \in OnTrack(media, c.at.track), e.at.seq <= c.at.seq
               PROVE  FALSE
    OBVIOUS
  <2>1. c.at.seq < e.at.seq /\ e \in C
    BY <1>2 DEF OnTrack
  <2> QED
    BY <1>1, <2>1
<1>4. \A c \in Contiguous(D) : From(c)
  BY <1>1 DEF Shows
<1> HIDE DEF media
<1>5. ASSUME NEW c \in Contiguous(C), From(c) PROVE c \in Contiguous(D)
  <2>1. c \in D
    BY <1>1, <1>3, <1>5
  <2>2. ASSUME NEW p \in 0 .. c.at.part - 1
        PROVE  \E d \in D : /\ d.at.track = c.at.track
                            /\ d.at.seq = c.at.seq
                            /\ d.at.part = p
    <3>1. PICK d \in C : /\ d.at.track = c.at.track
                         /\ d.at.seq = c.at.seq
                         /\ d.at.part = p
      BY <1>5 DEF Contiguous
    <3>2. From(d)
      BY <1>5, <3>1
    <3> QED
      BY <1>3, <3>1, <3>2
  <2> QED
    BY <2>1, <2>2 DEF Contiguous
<1>6. ASSUME NEW c \in Contiguous(C), From(c)
      PROVE  Newer(D, c.at.track, c.at.seq) = Newer(C, c.at.track, c.at.seq)
  <2>1. Newer(D, c.at.track, c.at.seq) \subseteq Newer(C, c.at.track, c.at.seq)
    BY <1>1 DEF Newer, SeqsOf, OnTrack
  <2>2. ASSUME NEW n \in Newer(C, c.at.track, c.at.seq)
        PROVE  n \in Newer(D, c.at.track, c.at.seq)
    <3>1. PICK d \in Contiguous(C) :
            d.at.track = c.at.track /\ d.at.seq = n /\ n > c.at.seq
      BY DEF Newer, SeqsOf, OnTrack
    <3>2. PICK e \in OnTrack(media, c.at.track) : e.at.seq <= c.at.seq
      BY <1>6
    <3>3. e.at.seq \in Nat /\ c.at.seq \in Nat /\ d.at.seq \in Nat
      BY <1>1, <1>2, <3>2 DEF OnTrack
    <3>4. From(d)
      BY <3>1, <3>2, <3>3
    <3>5. d \in Contiguous(D)
      BY <1>5, <3>4
    <3> QED
      BY <3>1, <3>5 DEF Newer, SeqsOf, OnTrack
  <2> QED
    BY <2>1, <2>2
<1>7. ASSUME NEW c \in media PROVE From(c)
  <2>1. c.at.seq \in Nat
    BY <1>1, <1>2
  <2> QED
    BY <2>1 DEF OnTrack
<1>8. media \subseteq VisibleMedia(D, max)
  <2> SUFFICES ASSUME NEW c \in media PROVE c \in VisibleMedia(D, max)
    OBVIOUS
  <2>1. /\ c \in Contiguous(C)
        /\ Cardinality(Newer(C, c.at.track, c.at.seq)) < max
    BY VisibleByNewer DEF media
  <2> QED
    BY <1>5, <1>6, <1>7, <2>1, VisibleByNewer
<1>9. VisibleMedia(D, max) \subseteq media
  <2> SUFFICES ASSUME NEW c \in VisibleMedia(D, max) PROVE c \in media
    OBVIOUS
  <2>1. /\ c \in Contiguous(D)
        /\ Cardinality(Newer(D, c.at.track, c.at.seq)) < max
    BY VisibleByNewer
  <2>2. c \in Contiguous(C) /\ From(c)
    BY <1>1, <1>4, <2>1
  <2>3. Cardinality(Newer(C, c.at.track, c.at.seq)) < max
    BY <1>6, <2>1, <2>2
  <2> QED
    BY <2>2, <2>3, VisibleByNewer DEF media
<1> QED
  BY <1>8, <1>9 DEF media

\* What is not visible can go without a trace.
LEMMA HiddenLeaveNoTrace ==
  ASSUME NEW C \in SUBSET Commits, NEW D \in SUBSET C,
         \A c \in Contiguous(C) : c \in D
  PROVE  Contiguous(D) = Contiguous(C)
<1>1. Contiguous(D) \subseteq Contiguous(C)
  BY ContiguousGrows
<1>2. ASSUME NEW c \in Contiguous(C) PROVE c \in Contiguous(D)
  <2>1. ASSUME NEW p \in 0 .. c.at.part - 1
        PROVE  \E d \in D : /\ d.at.track = c.at.track
                            /\ d.at.seq = c.at.seq
                            /\ d.at.part = p
    <3>1. PICK d \in C : /\ d.at.track = c.at.track
                         /\ d.at.seq = c.at.seq
                         /\ d.at.part = p
      BY DEF Contiguous
    <3>2. \A q \in 0 .. d.at.part - 1 : q \in 0 .. c.at.part - 1
      <4>1. c.at.part \in Int
        BY PartOrder DEF Contiguous
      <4> QED
        BY <3>1, <4>1
    <3>3. d \in Contiguous(C)
      BY <3>1, <3>2 DEF Contiguous
    <3> QED
      BY <3>1, <3>3
  <2> QED
    BY <2>1 DEF Contiguous
<1> QED
  BY <1>1, <1>2

\* The last position of a window is a position of it, and no other is past it.
LEMMA LastPosition ==
  ASSUME NEW media \in SUBSET Commits, IsFiniteSet(media), media # {}
  PROVE  /\ \A c \in media : c.at.seq <= LastSeq(media)
         /\ \E c \in media :
              c.at.seq = LastSeq(media) /\ c.at.part = LastPart(media)
         /\ \A c \in media :
              c.at.seq = LastSeq(media) => c.at.part <= LastPart(media)
<1>1. SeqsOf(media) \in SUBSET Int /\ SeqsOf(media) # {}
  BY SequenceNumbers DEF SeqsOf
<1>2. \E n \in SeqsOf(media) : \A m \in SeqsOf(media) : m <= n
  BY <1>1, FiniteImages, GreatestExists
<1>3. /\ LastSeq(media) \in SeqsOf(media)
      /\ \A m \in SeqsOf(media) : m <= LastSeq(media)
  BY <1>2 DEF LastSeq
<1> DEFINE last == {d \in media : d.at.seq = LastSeq(media)}
           ps == {c.at.part : c \in last}
<1>4. last \in SUBSET media /\ last # {}
  BY <1>3 DEF SeqsOf
<1>5. IsFiniteSet(last)
  BY <1>4, FS_Subset
<1>6. ps \in SUBSET Int /\ ps # {}
  BY <1>4, PartOrder
<1> HIDE DEF last
<1>7. IsFiniteSet(ps)
  BY <1>5, FiniteImages
<1> HIDE DEF ps
<1>8. \E p \in ps : \A q \in ps : q <= p
  BY <1>6, <1>7, GreatestExists
<1>9. LastPart(media) = CHOOSE p \in ps : \A q \in ps : q <= p
  BY DEF LastPart, ps, last
<1>10. LastPart(media) \in ps /\ \A q \in ps : q <= LastPart(media)
  BY <1>8, <1>9
<1> QED
  BY <1>3, <1>10 DEF SeqsOf, ps, last

\* A window of more commits is never at an earlier position.
LEMMA LargerNotBehind ==
  ASSUME NEW C \in SUBSET Commits, IsFiniteSet(C),
         NEW media \in SUBSET Contiguous(C), media # {},
         NEW next \in SUBSET C, Shows(next, C)
  PROVE  ~Behind(next, media)
<1>1. /\ media \in SUBSET C /\ media \in SUBSET Commits
      /\ next \in SUBSET Commits
  BY DEF Contiguous
<1>2. IsFiniteSet(media) /\ IsFiniteSet(next)
  BY <1>1, FS_Subset
<1>3. ASSUME NEW c \in media
      PROVE  \E e \in next : c.at.seq <= e.at.seq
  <2>1. PICK e \in OnTrack(next, c.at.track) : TRUE
    BY DEF Shows
  <2>2. e \in next /\ e.at.seq \in Nat /\ c.at.seq \in Nat
    BY <1>1, SequenceNumbers DEF OnTrack
  <2>3. CASE e.at.seq <= c.at.seq
    BY <2>2, <2>3 DEF Shows
  <2> QED
    BY <2>2, <2>3
<1>4. next # {}
  BY <1>3
<1>5. \A c \in media \cup next : c.at.seq \in Nat /\ c.at.part \in Int
  BY <1>1, SequenceNumbers, PartOrder
<1>6. PICK c \in media :
        c.at.seq = LastSeq(media) /\ c.at.part = LastPart(media)
  BY <1>1, <1>2, LastPosition
<1>7. PICK d \in next :
        d.at.seq = LastSeq(next) /\ d.at.part = LastPart(next)
  BY <1>1, <1>2, <1>4, LastPosition
<1>8. \A e \in next : e.at.seq <= LastSeq(next)
  BY <1>1, <1>2, <1>4, LastPosition
<1>9. LastSeq(media) <= LastSeq(next)
  BY <1>3, <1>5, <1>6, <1>7, <1>8
<1>10. ASSUME LastSeq(next) = LastSeq(media)
       PROVE  LastPart(media) <= LastPart(next)
  <2>1. PICK e \in OnTrack(next, c.at.track) : TRUE
    BY DEF Shows
  <2>2. e.at.seq <= c.at.seq
    BY <1>6, <1>8, <1>10 DEF OnTrack
  <2>3. c \in next
    BY <2>2 DEF Shows
  <2> QED
    BY <1>1, <1>2, <1>4, <1>6, <1>10, <2>3, LastPosition
<1> QED
  BY <1>5, <1>6, <1>7, <1>9, <1>10 DEF Behind

----------------------------------------------------------------------------
(***************************************************************************)
(* WInv is inductive.                                                      *)
(***************************************************************************)

\* The sizes of windows count at least one segment.
LEMMA WindowSizesPositive == \A max \in WindowSizes : max \in Nat \ {0}
BY CoordinatorAssumption DEF CoordinatorAssumption

\* The cursor shows of what is recorded, as soon as it can show anything.
LEMMA CursorShows ==
  ASSUME WInv, WindowSizes # {}
  PROVE  Shows(cursor.media, commits)
<1>1. commits \in SUBSET Commits /\ IsFiniteSet(commits)
  BY DEF WInv, IInv, TypeOK
<1>2. CASE cursor.media = {}
  <2>1. PICK max \in WindowSizes : VisibleMedia(commits, max) = {}
    BY <1>2 DEF WInv, CursorCurrent
  <2>2. Shows({}, commits)
    BY <1>1, <2>1, WindowShows, WindowSizesPositive
  <2> QED
    BY <1>2, <2>2
<1>3. CASE cursor.media # {}
  BY <1>1, <1>3, WindowShows, WindowSizesPositive DEF WInv, CursorCurrent
<1> QED
  BY <1>2, <1>3

\* Nothing is visible of commits that show nothing.
LEMMA NothingVisible ==
  ASSUME NEW C, Contiguous(C) = {}
  PROVE  \A max : VisibleMedia(C, max) = {}
BY DEF VisibleMedia

\* A new commit is one commit more.
LEMMA RecordedFinite ==
  ASSUME WInv, NEW s \in slots, s.state = "issued"
  PROVE  /\ RecordedMedia(s) \in SUBSET Commits
         /\ IsFiniteSet(RecordedMedia(s))
         /\ commits \subseteq RecordedMedia(s)
         /\ RecordedMedia(s) \subseteq commits \cup {CommitOf(s)}
<1>1. IsFiniteSet(commits) /\ IsFiniteSet(commits \cup {CommitOf(s)})
  BY FS_AddElement DEF WInv
<1>2. RecordedMedia(s) \in {commits, commits \cup {CommitOf(s)}}
  BY DEF RecordedMedia
<1> QED
  BY <1>1, <1>2, MarkingMatches DEF WInv

\* A commit is held only when nothing can be shown at all.
LEMMA HeldShowsNothing ==
  ASSUME WInv, NEW s \in slots, NEW max \in WindowSizes, NEW t \in Times,
         NEW tol \in LateTolerances, CommitHeld(s, max, t, tol)
  PROVE  /\ cursor.media = {}
         /\ \A m \in WindowSizes : VisibleMedia(commits', m) = {}
         /\ IsFiniteSet(commits')
<1> DEFINE C == RecordedMedia(s)
<1>1. s.state = "issued" /\ commits' = C /\ VisibleMedia(C, max) = {}
  BY DEF CommitHeld, CommitAccepted
<1>2. C \in SUBSET Commits /\ IsFiniteSet(C) /\ commits \subseteq C
  BY <1>1, RecordedFinite
<1> HIDE DEF C
<1>3. Shows({}, C)
  BY <1>1, <1>2, WindowShows, WindowSizesPositive
<1>4. Contiguous(C) = {}
  BY <1>3 DEF Shows, OnTrack
<1>5. Contiguous(commits) = {}
  BY <1>2, <1>4, ContiguousGrows
<1>6. cursor.media = {}
  BY <1>5, CursorShows DEF Shows
<1> QED
  BY <1>1, <1>2, <1>4, <1>6, NothingVisible

\* A commit that makes something visible moves the cursor onto it.
LEMMA AdvancesOnto ==
  ASSUME WInv, NEW s \in slots, NEW max \in WindowSizes, NEW t \in Times,
         NEW tol \in LateTolerances, CommitAdvances(s, max, t, tol)
  PROVE  LET C == RecordedMedia(s)
         IN  /\ C \in SUBSET Commits /\ IsFiniteSet(C) /\ commits \subseteq C
             /\ cursor'.media = VisibleMedia(C, max) /\ cursor'.media # {}
             /\ cursor'.inits = VisibleInits(RecordedInits(s), cursor'.media)
             /\ Shows(cursor'.media, C)
<1> DEFINE C == RecordedMedia(s)
           window == VisibleMedia(C, max)
           candidate == [media |-> window,
                         inits |-> VisibleInits(RecordedInits(s), window),
                         state |-> session]
<1>1. s.state = "issued" /\ window # {} /\ cursor' = NextCursor(candidate)
  BY DEF CommitAdvances, CommitAccepted
<1>2. C \in SUBSET Commits /\ IsFiniteSet(C) /\ commits \subseteq C
  BY <1>1, RecordedFinite
<1> HIDE DEF C
<1>3. Shows(window, C)
  BY <1>2, WindowShows, WindowSizesPositive
<1>4. cursor.media \subseteq Contiguous(C)
  BY <1>2, CursorShows, ContiguousGrows DEF Shows
<1>5. window \in SUBSET C
  BY <1>3 DEF Shows, Contiguous
<1> HIDE DEF window
<1>6. ~(cursor.media # {} /\ Behind(window, cursor.media))
  BY <1>2, <1>3, <1>4, <1>5, LargerNotBehind
<1>7. cursor' = candidate
  BY <1>1, <1>6 DEF NextCursor
<1> QED
  BY <1>1, <1>2, <1>3, <1>7 DEF C, window

\* The window of a commit survives the pruning that follows it.
LEMMA AdvanceKeepsWindow ==
  ASSUME WInv, NEW s \in slots, NEW max \in WindowSizes, NEW t \in Times,
         NEW tol \in LateTolerances, CommitAdvances(s, max, t, tol)
  PROVE  /\ VisibleMedia(commits', max) = cursor'.media
         /\ IsFiniteSet(commits')
<1> DEFINE S == MarkCommitted(s)
           C == RecordedMedia(s)
           I == RecordedInits(s)
           obsolete == ObsoleteSlotIds(S, C, cursor', t, tol)
<1>1. s.state = "issued" /\ commits' = PrunedCommits(C, obsolete)
  BY DEF CommitAdvances, CommitAccepted
<1>2. UniqueSlots(S) /\ Matched(S, C, I)
  BY <1>1, MarkingMatches DEF WInv
<1>3. /\ C \in SUBSET Commits /\ IsFiniteSet(C)
      /\ cursor'.media = VisibleMedia(C, max)
  BY AdvancesOnto
<1> HIDE DEF S, C, I
<1>4. \A c \in C : c.slot \in obsolete => c \in RetiredCommits(C, cursor')
  BY <1>2, ObsoleteCommits
<1>5. commits' \in SUBSET C
  BY <1>1 DEF PrunedCommits
<1>6. \A c \in C \ commits' : c \in RetiredCommits(C, cursor')
  BY <1>1, <1>4 DEF PrunedCommits
<1>7. \A c \in C \ commits' : \A e \in OnTrack(cursor'.media, c.at.track) :
        c.at.seq < e.at.seq
  BY <1>6 DEF RetiredCommits
<1>8. \A c \in commits' : OnTrack(cursor'.media, c.at.track) # {} =>
        \E e \in OnTrack(cursor'.media, c.at.track) : e.at.seq <= c.at.seq
  <2>1. NothingBehindWindow'
    BY CommitAdvancesIInv DEF WInv, IInv
  <2> QED
    BY <2>1 DEF NothingBehindWindow
<1>9. VisibleMedia(commits', max) = VisibleMedia(C, max)
  BY <1>3, <1>5, <1>7, <1>8, WindowSizesPositive, TrimmingKeepsWindow
<1> QED
  BY <1>3, <1>5, <1>9, FS_Subset

\* A new session has nothing to show.
LEMMA InitWInv == Init => WInv
<1> SUFFICES ASSUME Init PROVE WInv
  OBVIOUS
<1>1. IInv
  BY InitIInv
<1>2. /\ commits = {} /\ initCommits = {}
      /\ cursor.media = {} /\ cursor.inits = {}
  BY DEF Init, NoCursor
<1>3. Contiguous({}) = {} /\ VisibleInits({}, {}) = {}
  BY DEF Contiguous, VisibleInits
<1>4. CursorCurrent
  BY <1>2, <1>3, NothingVisible DEF CursorCurrent
<1> QED
  BY <1>1, <1>2, <1>4, FS_EmptySet DEF WInv

\* A step that records and shows what was recorded and shown keeps WInv.
LEMMA SameWindow ==
  ASSUME WInv, IInv', commits' = commits, initCommits' = initCommits,
         cursor'.media = cursor.media, cursor'.inits = cursor.inits
  PROVE  WInv'
BY DEF WInv, CursorCurrent

\* What is held shows nothing, and its init objects are of no visible track.
LEMMA CommitHeldWInv ==
  ASSUME WInv, NEW s \in slots, NEW max \in WindowSizes, NEW t \in Times,
         NEW tol \in LateTolerances, CommitHeld(s, max, t, tol)
  PROVE  WInv'
<1>1. IInv'
  BY CommitHeldIInv DEF WInv
<1>2. cursor' = cursor
  BY DEF CommitHeld
<1>3. /\ cursor.media = {} /\ IsFiniteSet(commits')
      /\ \A m \in WindowSizes : VisibleMedia(commits', m) = {}
  BY HeldShowsNothing
<1>4. \A J : VisibleInits(J, {}) = {}
  BY DEF VisibleInits, OnTrack
<1>5. CursorCurrent'
  BY <1>2, <1>3, <1>4 DEF WInv, CursorCurrent
<1> QED
  BY <1>1, <1>3, <1>5 DEF WInv

\* The cursor moves onto the window of what is recorded.
LEMMA CommitAdvancesWInv ==
  ASSUME WInv, NEW s \in slots, NEW max \in WindowSizes, NEW t \in Times,
         NEW tol \in LateTolerances, CommitAdvances(s, max, t, tol)
  PROVE  WInv'
<1>1. IInv'
  BY CommitAdvancesIInv DEF WInv
<1>2. VisibleMedia(commits', max) = cursor'.media /\ IsFiniteSet(commits')
  BY AdvanceKeepsWindow
<1>3. initCommits' = RecordedInits(s)
  BY DEF CommitAdvances
<1>4. /\ cursor'.media # {}
      /\ cursor'.inits = VisibleInits(RecordedInits(s), cursor'.media)
  BY AdvancesOnto
<1>5. CursorCurrent'
  BY <1>2, <1>3, <1>4 DEF CursorCurrent
<1> QED
  BY <1>1, <1>2, <1>5 DEF WInv

\* A sweep takes only what lies behind the window.
LEMMA ApplyRetentionWInv ==
  ASSUME WInv, NEW t \in Times, NEW tol \in LateTolerances,
         ApplyRetention(t, tol)
  PROVE  WInv'
<1> DEFINE obsolete == ObsoleteSlotIds(slots, commits, cursor, t, tol)
<1>1. IInv'
  BY ApplyRetentionIInv DEF WInv
<1>2. /\ commits' = PrunedCommits(commits, obsolete)
      /\ initCommits' = initCommits /\ cursor' = cursor
  BY DEF ApplyRetention
<1>3. commits \in SUBSET Commits /\ IsFiniteSet(commits)
  BY DEF WInv, IInv, TypeOK
<1>4. UniqueSlots(slots) /\ Matched(slots, commits, initCommits)
  BY IInvParts DEF WInv, IInv
<1>5. \A c \in commits :
        c.slot \in obsolete => c \in RetiredCommits(commits, cursor)
  BY <1>4, ObsoleteCommits
<1>6. commits' \in SUBSET commits
  BY <1>2 DEF PrunedCommits
<1>7. \A c \in commits \ commits' : c \in RetiredCommits(commits, cursor)
  BY <1>2, <1>5 DEF PrunedCommits
<1>8. \A c \in commits \ commits' :
        /\ OnTrack(cursor.media, c.at.track) # {}
        /\ \A e \in OnTrack(cursor.media, c.at.track) : c.at.seq < e.at.seq
  BY <1>7 DEF RetiredCommits
<1>9. IsFiniteSet(commits')
  BY <1>3, <1>6, FS_Subset
<1>10. CASE cursor.media = {}
  <2>1. commits' = commits
    BY <1>6, <1>8, <1>10 DEF OnTrack
  <2> QED
    BY <1>1, <1>2, <2>1, SameWindow
<1>11. CASE cursor.media # {}
  <2>1. PICK max \in WindowSizes : cursor.media = VisibleMedia(commits, max)
    BY <1>11 DEF WInv, CursorCurrent
  <2>2. \A c \in commits' : OnTrack(cursor.media, c.at.track) # {} =>
          \E e \in OnTrack(cursor.media, c.at.track) : e.at.seq <= c.at.seq
    BY <1>6 DEF WInv, IInv, NothingBehindWindow
  <2>3. VisibleMedia(commits', max) = VisibleMedia(commits, max)
    BY <1>3, <1>6, <1>8, <2>1, <2>2, WindowSizesPositive, TrimmingKeepsWindow
  <2>4. CursorCurrent'
    BY <1>2, <1>11, <2>1, <2>3 DEF WInv, CursorCurrent
  <2> QED
    BY <1>1, <1>9, <2>4 DEF WInv
<1> QED
  BY <1>10, <1>11

\* A commit that can be revoked is not visible, in a window of any size, and
\* an init object that can be revoked belongs to no visible track.
LEMMA RevokedAreHidden ==
  ASSUME WInv, WindowSizes # {}, NEW s \in slots, RevokeUpload(s)
  PROVE  /\ \A c \in Contiguous(commits) : c.slot # s.id
         /\ \A c \in cursor.inits : c.slot # s.id
<1>1. s.id \notin {c.slot : c \in cursor.media \cup cursor.inits}
  BY DEF RevokeUpload, Revocable, WindowSlotIds
<1>2. ASSUME NEW c \in Contiguous(commits) PROVE c \in cursor.media
  <2>1. OnTrack(cursor.media, c.at.track) # {}
    BY CursorShows DEF Shows
  <2>2. c \in commits
    BY DEF Contiguous
  <2>3. PICK e \in OnTrack(cursor.media, c.at.track) : e.at.seq <= c.at.seq
    BY <2>1, <2>2 DEF WInv, IInv, NothingBehindWindow
  <2> QED
    BY <2>3, CursorShows DEF Shows
<1> QED
  BY <1>1, <1>2

\* Revocation takes only what is hidden.
LEMMA RevokeUploadWInv ==
  ASSUME WInv, NEW s \in slots, RevokeUpload(s)
  PROVE  WInv'
<1>1. IInv'
  BY RevokeUploadIInv DEF WInv
<1>2. /\ commits' = {c \in commits : c.slot # s.id}
      /\ initCommits' = {c \in initCommits : c.slot # s.id}
      /\ cursor' = cursor
  BY DEF RevokeUpload
<1>3. commits \in SUBSET Commits /\ IsFiniteSet(commits)
  BY DEF WInv, IInv, TypeOK
<1>4. commits' \in SUBSET commits /\ IsFiniteSet(commits')
  BY <1>2, <1>3, FS_Subset
<1>5. cursor.inits = VisibleInits(initCommits', cursor.media)
  <2>1. s.id \notin {c.slot : c \in cursor.inits}
    BY DEF RevokeUpload, Revocable, WindowSlotIds
  <2>2. cursor.inits = VisibleInits(initCommits, cursor.media)
    BY DEF WInv, CursorCurrent
  <2> QED
    BY <1>2, <2>1, <2>2 DEF VisibleInits
<1>6. CASE WindowSizes = {}
  <2>1. CursorCurrent'
    BY <1>2, <1>5, <1>6 DEF WInv, CursorCurrent
  <2> QED
    BY <1>1, <1>4, <2>1 DEF WInv
<1>7. CASE WindowSizes # {}
  <2>1. \A c \in Contiguous(commits) : c \in commits'
    BY <1>2, <1>7, RevokedAreHidden DEF Contiguous
  <2>2. Contiguous(commits') = Contiguous(commits)
    BY <1>3, <1>4, <2>1, HiddenLeaveNoTrace
  <2>3. \A max : VisibleMedia(commits', max) = VisibleMedia(commits, max)
    BY <2>2 DEF VisibleMedia
  <2>4. CursorCurrent'
    BY <1>2, <1>5, <2>3 DEF WInv, CursorCurrent
  <2> QED
    BY <1>1, <1>4, <2>4 DEF WInv
<1> QED
  BY <1>6, <1>7

\* Every step preserves WInv.
LEMMA NextWInv == WInv /\ [Next]_vars => WInv'
<1> SUFFICES ASSUME WInv, [Next]_vars PROVE WInv'
  OBVIOUS
<1>1. IInv'
  BY NextIInv DEF WInv
<1>2. CASE UNCHANGED vars
  BY <1>1, <1>2, SameWindow DEF vars
<1>3. ASSUME NEW id \in SlotIds, NEW a \in Positions, NEW t \in Times,
             IssueSlot(id, a, t)
      PROVE  WInv'
  BY <1>1, <1>3, SameWindow DEF IssueSlot
<1>4. ASSUME NEW s \in slots, NEW max \in WindowSizes, NEW t \in Times,
             NEW tol \in LateTolerances, CommitUpload(s, max, t, tol)
      PROVE  WInv'
  BY <1>4, CommitHeldWInv, CommitAdvancesWInv DEF CommitUpload
<1>5. ASSUME NEW t \in Times, NEW tol \in LateTolerances,
             ApplyRetention(t, tol)
      PROVE  WInv'
  BY <1>5, ApplyRetentionWInv
<1>6. ASSUME NEW s \in slots, RevokeUpload(s)
      PROVE  WInv'
  BY <1>6, RevokeUploadWInv
<1>7. ASSUME NEW next \in SessionStates, TransitionSession(next)
      PROVE  WInv'
  <2>1. cursor'.media = cursor.media /\ cursor'.inits = cursor.inits
    BY <1>7 DEF WInv, IInv, TypeOK, Cursors, TransitionSession,
                TransitionedCursor
  <2> QED
    BY <1>1, <1>7, <2>1, SameWindow DEF TransitionSession
<1> QED
  BY <1>2, <1>3, <1>4, <1>5, <1>6, <1>7 DEF Next

\* WInv holds in every reachable state.
THEOREM WindowInvariance == Spec => []WInv
BY InitWInv, NextWInv, PTL DEF Spec

\* The cursor always shows exactly the window that some request size makes of
\* the recorded commits: neither pruning nor revocation leaves it stale.
THEOREM CursorAlwaysCurrent == Spec => []CursorCurrent
BY WindowInvariance, PTL DEF WInv

----------------------------------------------------------------------------
(***************************************************************************)
(* What players see is a LiveWindow.                                       *)
(***************************************************************************)

\* A commit moves the window forward: it trims the front of each track only,
\* and what it adds lies at the edge.
LEMMA AdvanceMovesForward ==
  ASSUME WInv, NEW s \in slots, NEW max \in WindowSizes, NEW t \in Times,
         NEW tol \in LateTolerances, CommitAdvances(s, max, t, tol)
  PROVE  Live!TrimmedAtFront /\ Live!AppendedAtEdge /\ Live!PartsFromZero
<1> DEFINE C == RecordedMedia(s)
           new == CommitOf(s)
           M == cursor.media
           N == cursor'.media
<1>1. /\ C \in SUBSET Commits /\ commits \subseteq C
      /\ Shows(N, C) /\ Shows(M, commits)
  BY AdvancesOnto, CursorShows
<1>2. C \subseteq commits \cup {new} /\ ~IsLateSlot(new.at, M)
  BY DEF RecordedMedia, CommitAdvances, CommitAccepted, CommitOf
<1>3. /\ M \subseteq commits /\ M \subseteq Contiguous(C)
      /\ N \subseteq Contiguous(C) /\ Contiguous(C) \subseteq C
  BY <1>1, ContiguousGrows DEF Shows, Contiguous
<1>4. \A c \in C : c.at.seq \in Nat /\ c.at.part \in Int /\ c.at.part >= NoPart
  BY <1>1, SequenceNumbers, PartOrder
<1> HIDE DEF C, new
<1>5. Live!TrimmedAtFront
  <2>1. SUFFICES ASSUME NEW o \in M \ N
                 PROVE  /\ OnTrack(N, o.at.track) # {}
                        /\ \A p \in OnTrack(N, o.at.track) : o.at.seq < p.at.seq
    BY DEF Live!TrimmedAtFront, Live!Track, OnTrack
  <2>2. /\ OnTrack(N, o.at.track) # {}
        /\ \A p \in OnTrack(N, o.at.track) : ~(p.at.seq <= o.at.seq)
    BY <1>1, <1>3 DEF Shows
  <2>3. \A p \in OnTrack(N, o.at.track) : p \in C
    BY <1>3 DEF OnTrack
  <2> QED
    BY <1>3, <1>4, <2>2, <2>3
<1>6. Live!AppendedAtEdge
  <2>1. SUFFICES ASSUME NEW o \in N \ M, NEW p \in M,
                        p.at.track = o.at.track
                 PROVE  \/ p.at.seq < o.at.seq
                        \/ /\ p.at.seq = o.at.seq
                           /\ p.at.part < o.at.part \/ o.at.part = NoPart
    BY DEF Live!AppendedAtEdge, Live!Track, NoPart
  <2>2. o \in Contiguous(C) /\ o \in C /\ p \in C
    BY <1>1, <1>3
  <2>3. ASSUME new.at.track = o.at.track
        PROVE  /\ ~(new.at.seq < p.at.seq)
               /\ \/ new.at.seq # p.at.seq
                  \/ new.at.part = NoPart
                  \/ p.at.part = NoPart
                  \/ ~(new.at.part <= p.at.part)
    BY <1>2, <2>1, <2>3 DEF IsLateSlot, OnTrack
  <2>4. CASE o = new
    BY <1>4, <2>2, <2>3, <2>4
  <2>5. CASE o \in Contiguous(commits)
    <3>1. ~(\E e \in OnTrack(M, o.at.track) : e.at.seq <= o.at.seq)
      BY <1>1, <2>5 DEF Shows
    <3>2. o \in commits /\ OnTrack(M, o.at.track) # {}
      BY <2>1, <2>5 DEF Contiguous, OnTrack
    <3> QED
      BY <3>1, <3>2 DEF WInv, IInv, NothingBehindWindow
  <2>6. CASE o \in commits /\ o \notin Contiguous(commits)
    <3>1. PICK q \in 0 .. o.at.part - 1 :
            ~\E d \in commits : /\ d.at.track = o.at.track
                                /\ d.at.seq = o.at.seq
                                /\ d.at.part = q
      BY <2>6 DEF Contiguous
    <3>2. PICK d \in C : /\ d.at.track = o.at.track
                         /\ d.at.seq = o.at.seq
                         /\ d.at.part = q
      BY <2>2 DEF Contiguous
    <3>3. d = new
      BY <1>2, <3>1, <3>2
    <3>4. q >= 0 /\ q < o.at.part
      BY <1>4, <2>2
    <3>5. /\ ~(o.at.seq < p.at.seq)
          /\ o.at.seq # p.at.seq \/ p.at.part = NoPart \/ ~(q <= p.at.part)
      BY <2>3, <3>2, <3>3, <3>4 DEF NoPart
    <3> QED
      BY <1>4, <2>2, <3>4, <3>5 DEF NoPart
  <2> QED
    BY <1>2, <2>2, <2>4, <2>5, <2>6
<1>7. Live!PartsFromZero
  <2>1. SUFFICES ASSUME NEW o \in N, NEW n \in 0 .. o.at.part - 1
                 PROVE  \E p \in OnTrack(N, o.at.track) :
                          p.at.seq = o.at.seq /\ p.at.part = n
    BY DEF Live!PartsFromZero, Live!Track, OnTrack
  <2>2. o \in Contiguous(C) /\ o \in C
    BY <1>3
  <2>3. PICK d \in C : /\ d.at.track = o.at.track
                       /\ d.at.seq = o.at.seq
                       /\ d.at.part = n
    BY <2>2 DEF Contiguous
  <2>4. \A q \in 0 .. d.at.part - 1 : q \in 0 .. o.at.part - 1
    BY <1>4, <2>2, <2>3
  <2>5. d \in Contiguous(C)
    BY <2>2, <2>3, <2>4 DEF Contiguous
  <2>6. o \in OnTrack(N, d.at.track) /\ o.at.seq <= d.at.seq
    BY <1>4, <2>2, <2>3 DEF OnTrack
  <2>7. d \in N
    BY <1>1, <2>5, <2>6 DEF Shows
  <2> QED
    BY <2>3, <2>7 DEF OnTrack
<1> QED
  BY <1>5, <1>6, <1>7

\* A commit takes no init object away, and no track shows two.
LEMMA AdvanceKeepsInits ==
  ASSUME WInv, NEW s \in slots, NEW max \in WindowSizes, NEW t \in Times,
         NEW tol \in LateTolerances, CommitAdvances(s, max, t, tol)
  PROVE  Live!InitsStay
<1> DEFINE C == RecordedMedia(s)
           I == RecordedInits(s)
           M == cursor.media
           N == cursor'.media
<1>1. /\ commits \subseteq C /\ Shows(N, C) /\ Shows(M, commits)
      /\ cursor'.inits = VisibleInits(I, N)
  BY AdvancesOnto, CursorShows
<1>2. cursor.inits = VisibleInits(initCommits, M) /\ initCommits \subseteq I
  BY DEF WInv, CursorCurrent, RecordedInits
<1>3. \A c, d \in I : c.at.track = d.at.track => c = d
  BY DEF CommitAdvances, Distinct
<1> HIDE DEF C, I
<1>4. ASSUME NEW c \in cursor.inits PROVE c \in cursor'.inits
  <2>1. c \in I /\ OnTrack(M, c.at.track) # {}
    BY <1>2 DEF VisibleInits
  <2>2. PICK e \in M : e.at.track = c.at.track
    BY <2>1 DEF OnTrack
  <2>3. e \in Contiguous(C)
    BY <1>1, ContiguousGrows DEF Shows
  <2>4. OnTrack(N, c.at.track) # {}
    BY <1>1, <2>2, <2>3 DEF Shows
  <2> QED
    BY <1>1, <2>1, <2>4 DEF VisibleInits
<1>5. \A c \in cursor'.inits : c \in I /\ OnTrack(N, c.at.track) # {}
  BY <1>1 DEF VisibleInits
<1> QED
  BY <1>3, <1>4, <1>5 DEF Live!InitsStay, Live!Track, OnTrack

\* Every step of the pipeline is a step players were promised, or changes
\* nothing that they see.
LEMMA StepShowsLiveWindow ==
  WInv /\ [Next]_vars => [Live!Next]_<<cursor.media, cursor.inits, session>>
<1> DEFINE seen == <<cursor.media, cursor.inits, session>>
<1> SUFFICES ASSUME WInv, [Next]_vars PROVE Live!Next \/ UNCHANGED seen
  OBVIOUS
<1>1. CASE UNCHANGED vars
  BY <1>1 DEF vars
<1>2. ASSUME NEW id \in SlotIds, NEW a \in Positions, NEW t \in Times,
             IssueSlot(id, a, t)
      PROVE  UNCHANGED seen
  BY <1>2 DEF IssueSlot
<1>3. ASSUME NEW s \in slots, NEW max \in WindowSizes, NEW t \in Times,
             NEW tol \in LateTolerances, CommitUpload(s, max, t, tol)
      PROVE  Live!Next \/ UNCHANGED seen
  <2>1. CASE CommitHeld(s, max, t, tol)
    BY <2>1 DEF CommitHeld
  <2>2. CASE CommitAdvances(s, max, t, tol)
    <3>1. session # "aborted" /\ session' = session
      BY <2>2 DEF CommitAdvances, CommitAccepted, TakesCommits
    <3>2. cursor'.media # {}
      BY <2>2, AdvancesOnto
    <3>3. Live!TrimmedAtFront /\ Live!AppendedAtEdge /\ Live!PartsFromZero
      BY <2>2, AdvanceMovesForward
    <3>4. Live!InitsStay
      BY <2>2, AdvanceKeepsInits
    <3>5. Live!window' # Live!window => Live!Publish
      BY <3>1, <3>2, <3>3, <3>4 DEF Live!Publish
    <3>6. Live!window' = Live!window => UNCHANGED seen
      BY <3>1 DEF Live!window
    <3> QED
      BY <3>5, <3>6 DEF Live!Next
  <2> QED
    BY <1>3, <2>1, <2>2 DEF CommitUpload
<1>4. ASSUME NEW t \in Times, NEW tol \in LateTolerances,
             ApplyRetention(t, tol)
      PROVE  UNCHANGED seen
  BY <1>4 DEF ApplyRetention
<1>5. ASSUME NEW s \in slots, RevokeUpload(s)
      PROVE  UNCHANGED seen
  BY <1>5 DEF RevokeUpload
<1>6. ASSUME NEW next \in SessionStates, TransitionSession(next)
      PROVE  Live!Close
  <2>1. cursor'.media = cursor.media /\ cursor'.inits = cursor.inits
    BY <1>6 DEF WInv, IInv, TypeOK, Cursors, TransitionSession,
                TransitionedCursor
  <2>2. \/ session = "live" /\ session' \in {"ending", "aborted"}
        \/ session = "ending" /\ session' = "ended"
    BY <1>6 DEF TransitionSession, SessionTransitions
  <2> QED
    BY <2>1, <2>2 DEF Live!Close, Live!window
<1> QED
  BY <1>1, <1>2, <1>3, <1>4, <1>5, <1>6 DEF Next, Live!Next

\* A new session shows nothing and is live.
LEMMA InitShowsLiveWindow == Init => Live!Init
BY DEF Init, NoCursor, Live!Init

\* The pipeline implements LiveWindow: what a player polls is only ever
\* trimmed at its front, extended at its edge and gapless in its parts.
THEOREM PlayersSeeLiveWindow == Spec => ImplementsLiveWindow
BY WindowInvariance, InitShowsLiveWindow, StepShowsLiveWindow, PTL
   DEF Spec, ImplementsLiveWindow, Live!Spec

=============================================================================
