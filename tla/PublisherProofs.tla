-------------------------- MODULE PublisherProofs ---------------------------
(***************************************************************************)
(* The publishers of a session, for any number of them, of attempts and of *)
(* faults.  Their calls are steps of the pipeline, so what is proved of    *)
(* Coordinator holds of a session that publishers drive (LoopInv).  On a   *)
(* session with one track they leave no hole in its timeline (TimelineInv):*)
(* whatever any of them has planned, sent or got issued lies at most one   *)
(* object past the edge of the window, and nothing before the edge can be  *)
(* committed any more.                                                     *)
(***************************************************************************)
EXTENDS PublisherLoop, CoordinatorProofs, SequenceTheorems

\* Where a step is under way there is a plan.
PlansHeld == \A p \in Publishers : phase[p] # "idle" => plan[p] \in Positions

\* Slots are named by their positions, and publishers never revoke them.
SlotsNamed ==
  \A s \in slots : s.id = SlotIdOf(s.at) /\ s.state \in {"issued", "committed"}

\* What is known of a commit's content is known of a commit that is there.
ContentRecorded ==
  \A id \in SlotIds : content[id] # NoContent =>
    \E c \in commits \cup initCommits : c.slot = id

LoopInv ==
  /\ WInv
  /\ LoopTypeOK
  /\ attempt \in [Publishers -> Nat]
  /\ LeasesSound
  /\ PlansHeld
  /\ SlotsNamed
  /\ ContentRecorded
  /\ ConfirmedStaysPublished

\* Position a is that of an init object, or of a part at most one past the
\* edge of the window.
Reach(media, a) ==
  /\ a.kind # "segment"
  /\ a.kind = "part" =>
       IF media = {} THEN a.seq = StartSeq /\ a.part = 0
       ELSE \/ a.seq < LastSeq(media)
            \/ /\ a.seq = LastSeq(media)
               /\ a.part <= LastPart(media) + 1
               /\ a.part < PartsPerSegment
            \/ /\ a.seq = LastSeq(media) + 1
               /\ a.part = 0
               /\ LastPart(media) + 1 = PartsPerSegment

\* TimelineGapless of any window.
Gapless(media) ==
  \A c \in media : c.at.seq < LastSeq(media) =>
    /\ c.at.seq + 1 \in SeqsOf(media)
    /\ \A k \in 0 .. PartsPerSegment - 1 :
         \E d \in media : d.at.seq = c.at.seq /\ d.at.part = k

\* A window of consecutive parts.
Solid(media) ==
  /\ IsFiniteSet(media)
  /\ media \subseteq Contiguous(media)
  /\ \A c \in media : c.at.kind = "part" /\ c.at.part < PartsPerSegment
  /\ Gapless(media)

TimelineInv ==
  /\ LoopInv
  /\ \A p \in Publishers : phase[p] # "idle" => Reach(cursor.media, plan[p])
  /\ late # NoCall => Reach(cursor.media, late.at)
  /\ \A s \in slots : Reach(cursor.media, s.at)
  /\ commits = cursor.media
  /\ Solid(cursor.media)

----------------------------------------------------------------------------
(***************************************************************************)
(* Calls, and their steps as steps of the pipeline.                        *)
(***************************************************************************)

LEMMA Clocks ==
  /\ \A t \in 0 .. MaxClock : t \in Times /\ t \in Nat
  /\ \A t \in 0 .. MaxClock : t + ObjectTtl \in Times
BY LoopAssumption DEF LoopAssumption

LEMMA CallTyped ==
  ASSUME LoopTypeOK, PlansHeld, NEW p \in Publishers, Calling(p)
  PROVE  /\ CallOf(p) \in Calls
         /\ CallOf(p).from = p
         /\ CallOf(p).at = plan[p]
         /\ CallOf(p).time = planned[p]
         /\ phase[p] = "heartbeat" <=> CallOf(p).op = "heartbeat"
         /\ phase[p] = "issue" <=> CallOf(p).op = "slots"
         /\ phase[p] = "commit" <=> CallOf(p).op = "commits"
<1>1. phase[p] \in {"heartbeat", "issue", "commit"}
  BY DEF LoopTypeOK, Calling
<1>2. plan[p] \in Positions /\ planned[p] \in 0 .. MaxClock
  BY DEF PlansHeld, Calling, LoopTypeOK
<1> QED BY <1>1, <1>2 DEF CallOf, Calls

\* The slot that a commit is for.
LEMMA CommitCall ==
  ASSUME NEW c \in Calls, NEW now, NEW tol,
         Effect(c, now, tol, "committed")
  PROVE  \E s \in slots :
           /\ s.id = SlotIdOf(c.at)
           /\ CommitUpload(s, MaxSegments[c.from], c.time, tol)
           /\ content' = Recorded([content EXCEPT ![s.id] = c.from])
           /\ leases' = leases
BY DEF Effect

\* How a call can end.
LEMMA OutcomesOf ==
  ASSUME NEW c \in Calls, NEW now, NEW tol
  PROVE  /\ c.op = "heartbeat" =>
              Outcome(c, now, tol) \in {"refreshed", "rejected"}
         /\ c.op = "slots" => Outcome(c, now, tol) \in {"invalid", "issued"}
         /\ c.op = "commits" /\ SlotsNamed =>
              Outcome(c, now, tol) \in
                {"unknown_slot", "rejected", "idempotent", "conflict",
                 "committed"}
<1>1. ASSUME NEW s, s.state \in {"issued", "committed"}
      PROVE  CommitOutcome(c.from, s, c.time, tol) \in
               {"rejected", "idempotent", "conflict", "committed"}
  BY <1>1 DEF CommitOutcome
<1>2. ASSUME c.op = "commits", SlotsNamed
      PROVE  Outcome(c, now, tol) \in
               {"unknown_slot", "rejected", "idempotent", "conflict",
                "committed"}
  <2> DEFINE known == {s \in slots : s.id = SlotIdOf(c.at)}
  <2>1. CASE known = {}
    BY <1>2, <2>1 DEF Outcome
  <2>2. CASE known # {}
    <3>1. (CHOOSE s \in known : TRUE) \in known
      BY <2>2
    <3>2. (CHOOSE s \in known : TRUE).state \in {"issued", "committed"}
      BY <1>2, <3>1 DEF SlotsNamed
    <3> QED BY <1>1, <1>2, <2>2, <3>2 DEF Outcome
  <2> QED BY <2>1, <2>2
<1>3. c.op = "heartbeat" => Outcome(c, now, tol) \in {"refreshed", "rejected"}
  BY DEF Outcome
<1>4. c.op = "slots" => Outcome(c, now, tol) \in {"invalid", "issued"}
  BY DEF Outcome
<1> QED BY <1>2, <1>3, <1>4

\* What a served call does to the session, the leases and the content.
LEMMA EffectOf ==
  ASSUME LoopTypeOK, NEW c \in Calls, NEW now, NEW tol \in LateTolerances,
         NEW outcome, Effect(c, now, tol, outcome)
  PROVE  \/ /\ outcome \notin {"issued", "committed"}
            /\ UNCHANGED <<vars, content>>
            /\ \/ UNCHANGED leases
               \/ outcome = "refreshed" /\ Heartbeat(c.from, now, session)
         \/ /\ outcome = "issued"
            /\ \E t \in Times : IssueSlot(SlotIdOf(c.at), c.at, t)
            /\ SlotIdOf(c.at) \in SlotIds
            /\ UNCHANGED <<leases, content>>
         \/ /\ outcome = "committed"
            /\ \E s \in slots, max \in WindowSizes, t \in Times :
                 /\ s.id = SlotIdOf(c.at)
                 /\ CommitUpload(s, max, t, tol)
                 /\ content' = Recorded([content EXCEPT ![s.id] = c.from])
            /\ UNCHANGED leases
<1>1. /\ c.from \in Publishers /\ c.at \in Positions
      /\ c.time \in Times /\ c.time + ObjectTtl \in Times
  BY Clocks DEF Calls
<1>2. MaxSegments[c.from] \in WindowSizes
  BY <1>1, LoopAssumption DEF LoopAssumption
<1>3. SlotIdOf(c.at) \in SlotIds
  BY <1>1, NamesAssumption DEF NamesAssumption
<1>4. CASE outcome = "issued"
  BY <1>1, <1>3, <1>4 DEF Effect
<1>5. CASE outcome = "committed"
  BY <1>1, <1>2, <1>5, CommitCall DEF Effect
<1>6. CASE outcome \notin {"issued", "committed"}
  BY <1>6 DEF Effect
<1> QED BY <1>4, <1>5, <1>6

LEMMA EffectRunsPipeline ==
  ASSUME LoopTypeOK, NEW c \in Calls, NEW now, NEW tol \in LateTolerances,
         NEW outcome, Effect(c, now, tol, outcome)
  PROVE  [Next]_vars
<1>1. c.at \in Positions
  BY DEF Calls
<1> QED BY <1>1, EffectOf DEF Next

\* The calls that can be served.
Pending ==
  {CallOf(p) : p \in {q \in Publishers : Calling(q)}}
    \cup {c \in {late} : c # NoCall}

\* What happens to the session: nothing, what is not a publisher's doing, or
\* what a call does that somebody has made.
LEMMA LoopStep ==
  ASSUME LoopInv, [LoopNext]_loopvars
  PROVE  \/ UNCHANGED <<vars, leases, content>>
         \/ Meanwhile
         \/ \E c \in Calls, now \in Nat, tol \in LateTolerances :
              c \in Pending /\ Effect(c, now, tol, Outcome(c, now, tol))
<1>1. CASE UNCHANGED loopvars
  BY <1>1 DEF loopvars
<1>2. ASSUME NEW p \in Publishers, NEW t \in Tracks, NEW b \in BOOLEAN,
             Plan(p, t, b)
      PROVE  UNCHANGED <<vars, leases, content>>
  BY <1>2 DEF Plan
<1>3. ASSUME NEW op PROVE ServerClocks(op) \subseteq Nat
  BY DEF ServerClocks, LoopInv, LoopTypeOK
<1>4. ASSUME NEW p \in Publishers, Calling(p),
             NEW now \in ServerClocks(CallOf(p).op), NEW tol \in LateTolerances,
             Called(p, now, tol)
      PROVE  \E c \in Calls, n \in Nat, tl \in LateTolerances :
               c \in Pending /\ Effect(c, n, tl, Outcome(c, n, tl))
  <2>1. CallOf(p) \in Calls
    BY <1>4, CallTyped DEF LoopInv
  <2> QED BY <1>3, <1>4, <2>1 DEF Called, Pending
<1>5. ASSUME NEW p \in Publishers, CallFails(p) \/ Crash(p)
      PROVE  UNCHANGED <<vars, leases, content>>
  BY <1>5 DEF CallFails, Crash
<1>6. ASSUME late # NoCall, NEW now \in ServerClocks(late.op),
             NEW tol \in LateTolerances, ServeLate(now, tol)
      PROVE  \E c \in Calls, n \in Nat, tl \in LateTolerances :
               c \in Pending /\ Effect(c, n, tl, Outcome(c, n, tl))
  <2>1. late \in Calls
    BY <1>6 DEF LoopInv, LoopTypeOK
  <2> QED BY <1>3, <1>6, <2>1 DEF ServeLate, Pending
<1>7. CASE Tick
  BY <1>7 DEF Tick
<1> QED BY <1>1, <1>2, <1>4, <1>5, <1>6, <1>7 DEF LoopNext

LEMMA MeanwhileRunsPipeline ==
  ASSUME LoopTypeOK, Meanwhile
  PROVE  \/ \E t \in Times, tol \in LateTolerances : ApplyRetention(t, tol)
         \/ \E next \in SessionStates : TransitionSession(next)
<1>1. clock \in Times
  BY Clocks DEF LoopTypeOK
<1>2. Closings \subseteq SessionStates
  BY LoopAssumption DEF LoopAssumption
<1> QED BY <1>1, <1>2 DEF Meanwhile

\* Whoever drives the session runs its pipeline.
LEMMA LoopNextRunsPipeline ==
  ASSUME LoopInv, [LoopNext]_loopvars
  PROVE  [Next]_vars
<1>1. CASE UNCHANGED <<vars, leases, content>>
  BY <1>1
<1>2. CASE Meanwhile
  BY <1>2, MeanwhileRunsPipeline DEF LoopInv, Next
<1>3. ASSUME NEW c \in Calls, NEW now \in Nat, NEW tol \in LateTolerances,
             Effect(c, now, tol, Outcome(c, now, tol))
      PROVE  [Next]_vars
  BY <1>3, EffectRunsPipeline DEF LoopInv
<1> QED BY <1>1, <1>2, <1>3, LoopStep

----------------------------------------------------------------------------
(***************************************************************************)
(* Leases.                                                                 *)
(***************************************************************************)

\* A list without its i-th entry.
LEMMA WithoutOne ==
  ASSUME NEW S, NEW s \in Seq(S), NEW i \in 1 .. Len(s)
  PROVE  /\ RemoveAt(s, i) \in Seq(S)
         /\ Len(RemoveAt(s, i)) = Len(s) - 1
         /\ \A j \in 1 .. Len(s) - 1 :
              RemoveAt(s, i)[j] = IF j < i THEN s[j] ELSE s[j + 1]
<1> DEFINE front == SubSeq(s, 1, i - 1)
           back == SubSeq(s, i + 1, Len(s))
<1>1. /\ front \in Seq(S) /\ Len(front) = i - 1
      /\ \A j \in 1 .. i - 1 : front[j] = s[j]
  BY SubSeqProperties
<1>2. /\ back \in Seq(S) /\ Len(back) = Len(s) - i
      /\ \A j \in 1 .. Len(s) - i : back[j] = s[i + j]
  BY SubSeqProperties
<1> HIDE DEF front, back
<1>3. /\ front \o back \in Seq(S)
      /\ Len(front \o back) = Len(front) + Len(back)
      /\ \A j \in 1 .. Len(front) + Len(back) :
           (front \o back)[j] =
             IF j <= Len(front) THEN front[j] ELSE back[j - Len(front)]
  BY <1>1, <1>2, ConcatProperties
<1>4. RemoveAt(s, i) = front \o back
  BY DEF RemoveAt, front, back
<1>5. ASSUME NEW j \in 1 .. Len(s) - 1
      PROVE  (front \o back)[j] = IF j < i THEN s[j] ELSE s[j + 1]
  <2>1. CASE j < i
    BY <1>1, <1>2, <1>3, <2>1
  <2>2. CASE j >= i
    <3>1. j - (i - 1) \in 1 .. Len(s) - i
      BY <2>2
    <3>2. back[j - (i - 1)] = s[i + (j - (i - 1))]
      BY <1>2, <3>1
    <3>3. i + (j - (i - 1)) = j + 1
      OBVIOUS
    <3>4. (front \o back)[j] = back[j - Len(front)]
      <4>1. j \in 1 .. Len(front) + Len(back) /\ ~(j <= Len(front))
        BY <1>1, <1>2, <2>2
      <4> QED BY <1>3, <4>1
    <3>5. back[j - Len(front)] = s[j + 1]
      <4>1. Len(front) = i - 1
        BY <1>1
      <4> QED BY <3>2, <3>3, <4>1
    <3>6. ~(j < i)
      BY <2>2
    <3>7. (front \o back)[j] = s[j + 1]
      BY <3>4, <3>5
    <3> QED BY <3>6, <3>7
  <2>3. j < i \/ j >= i
    OBVIOUS
  <2> QED BY <2>1, <2>2, <2>3
<1>6. RemoveAt(s, i) \in Seq(S)
  BY <1>3, <1>4
<1>7. Len(RemoveAt(s, i)) = Len(s) - 1
  <2>1. Len(front) = i - 1 /\ Len(back) = Len(s) - i
    BY <1>1, <1>2
  <2>2. Len(front \o back) = Len(front) + Len(back)
    BY <1>3
  <2>3. i \in Int /\ Len(s) \in Int
    OBVIOUS
  <2> QED BY <1>4, <2>1, <2>2, <2>3
<1>8. \A j \in 1 .. Len(s) - 1 :
        RemoveAt(s, i)[j] = IF j < i THEN s[j] ELSE s[j + 1]
  BY <1>4, <1>5, Zenon
<1> QED BY <1>6, <1>7, <1>8, Zenon

\* Replacing a publisher's lease leaves one lease per publisher.
LEMMA ReplacingKeepsOne ==
  ASSUME leases \in Seq(Leases), LeasesSound, NEW l \in Leases, Timeline(l)
  PROVE  LET list == LeaseReplaced(l)
         IN  /\ list \in Seq(Leases)
             /\ \A i, j \in DOMAIN list :
                  list[i].publisher = list[j].publisher => i = j
             /\ \A i \in DOMAIN list : Timeline(list[i])
<1> DEFINE Mine(e) == e.publisher = l.publisher
           at == {i \in 1 .. Len(leases) : Mine(leases[i])}
           rest == RemoveFirstMatch(leases, Mine)
<1>0. DOMAIN leases = 1 .. Len(leases) /\ Len(leases) \in Nat
  BY LenProperties
<1>1. /\ rest \in Seq(Leases)
      /\ \A i \in DOMAIN rest : ~Mine(rest[i]) /\ Timeline(rest[i])
      /\ \A i, j \in DOMAIN rest :
           rest[i].publisher = rest[j].publisher => i = j
  <2>1. CASE at = {}
    <3>1. rest = leases
      BY <2>1 DEF RemoveFirstMatch
    <3>2. \A i \in DOMAIN leases : ~Mine(leases[i])
      BY <1>0, <2>1
    <3> QED BY <3>1, <3>2 DEF LeasesSound
  <2>2. CASE at # {}
    <3>1. PICK i \in at : TRUE
      BY <2>2
    <3>2. at = {i}
      BY <1>0, <3>1 DEF LeasesSound
    <3>3. Min(at) = i
      BY <3>2 DEF Min
    <3>4. rest = RemoveAt(leases, i)
      BY <2>2, <3>3 DEF RemoveFirstMatch, SelectInSeq
    <3>5. /\ rest \in Seq(Leases) /\ Len(rest) = Len(leases) - 1
          /\ \A j \in 1 .. Len(leases) - 1 :
               rest[j] = IF j < i THEN leases[j] ELSE leases[j + 1]
      BY <1>0, <3>1, <3>4, WithoutOne
    <3> DEFINE From(j) == IF j < i THEN j ELSE j + 1
    <3>6. DOMAIN rest = 1 .. Len(leases) - 1
      BY <3>5, LenProperties
    <3>7. \A j \in DOMAIN rest :
            /\ From(j) \in 1 .. Len(leases) /\ From(j) # i
            /\ rest[j] = leases[From(j)]
      <4> TAKE j \in DOMAIN rest
      <4>1. j \in 1 .. Len(leases) - 1 /\ i \in 1 .. Len(leases)
        BY <3>1, <3>6
      <4>2. From(j) \in 1 .. Len(leases) /\ From(j) # i
        BY <1>0, <4>1
      <4>3. rest[j] = IF j < i THEN leases[j] ELSE leases[j + 1]
        BY <3>5, <4>1
      <4> QED BY <4>2, <4>3
    <3>8. \A j, k \in DOMAIN rest : From(j) = From(k) => j = k
      BY <1>0, <3>1, <3>6
    <3> HIDE DEF From, rest
    <3>9. \A j \in DOMAIN rest : ~Mine(rest[j]) /\ Timeline(rest[j])
      BY <1>0, <3>2, <3>7 DEF LeasesSound
    <3>10. \A j, k \in DOMAIN rest :
             rest[j].publisher = rest[k].publisher => j = k
      BY <1>0, <3>7, <3>8 DEF LeasesSound
    <3> QED BY <3>5, <3>9, <3>10
  <2> QED BY <2>1, <2>2
<1> HIDE DEF rest
<1>2. LeaseReplaced(l) = Append(rest, l)
  BY DEF LeaseReplaced, rest
<1>3. /\ Append(rest, l) \in Seq(Leases)
      /\ DOMAIN Append(rest, l) = 1 .. Len(rest) + 1
      /\ DOMAIN rest = 1 .. Len(rest) /\ Len(rest) \in Nat
      /\ \A i \in 1 .. Len(rest) : Append(rest, l)[i] = rest[i]
      /\ Append(rest, l)[Len(rest) + 1] = l
  BY <1>1, AppendProperties, LenProperties
<1> QED BY <1>1, <1>2, <1>3

\* Heartbeats, however clocked, keep the leases sound.
LEMMA HeartbeatKeepsLeases ==
  ASSUME leases \in Seq(Leases), LeasesSound, NEW p \in Publishers,
         NEW now \in Nat, Heartbeat(p, now, session)
  PROVE  leases' \in Seq(Leases) /\ LeasesSound'
<1> DEFINE old == CHOOSE l \in LeaseOf(p) : TRUE
           new == IF LeaseOf(p) = {} THEN CreateLease(p, now)
                  ELSE RefreshLease(old, now)
<1>1. LeaseTtl \in Int /\ LeaseTtl > 0
  BY LeaseAssumption DEF LeaseAssumption
<1>2. new \in Leases /\ Timeline(new)
  <2>1. CASE LeaseOf(p) = {}
    BY <1>1, <2>1 DEF CreateLease, Leases, Timeline
  <2>2. CASE LeaseOf(p) # {}
    <3>1. old \in LeaseOf(p)
      BY <2>2
    <3>2. old \in Leases
      <4>1. ToSet(leases) \subseteq Leases
        BY LenProperties, ElementOfSeq DEF ToSet
      <4> QED BY <3>1, <4>1 DEF LeaseOf
    <3>3. now >= old.issuedAt
      BY <3>1 DEF Heartbeat, HeartbeatTaken
    <3>4. new = [old EXCEPT !.lastSeenAt = now, !.expiresAt = now + LeaseTtl]
      BY <2>2 DEF RefreshLease
    <3> HIDE DEF old, new
    <3>5. /\ new.publisher = old.publisher /\ new.issuedAt = old.issuedAt
          /\ new.lastSeenAt = now /\ new.expiresAt = now + LeaseTtl
          /\ new \in Leases
      <4>1. now + LeaseTtl \in Int /\ now \in Int
        BY <1>1
      <4> QED BY <3>2, <3>4, <4>1 DEF Leases
    <3>6. old.issuedAt \in Int
      BY <3>2 DEF Leases
    <3> QED BY <1>1, <3>3, <3>5, <3>6 DEF Timeline
  <2> QED BY <2>1, <2>2
<1>3. leases' = LeaseReplaced(new)
  BY DEF Heartbeat
<1> HIDE DEF new
<1> QED BY <1>2, <1>3, ReplacingKeepsOne DEF LeasesSound

----------------------------------------------------------------------------
(***************************************************************************)
(* The publishers.                                                         *)
(***************************************************************************)

\* The types of what publishers know, as one predicate.
StepsTyped ==
  /\ phase \in [Publishers -> {"idle", "heartbeat", "issue", "commit"}]
  /\ plan \in [Publishers -> Positions \cup {NoPlan}]
  /\ planned \in [Publishers -> 0 .. MaxClock]
  /\ attempt \in [Publishers -> Nat]
  /\ \A p \in Publishers : attempt[p] < MaxAttempts[p]
  /\ PlansHeld

LEMMA StepsOfLoopInv == LoopInv => StepsTyped
<1> SUFFICES ASSUME LoopInv PROVE StepsTyped
  OBVIOUS
<1>1. ASSUME NEW p \in Publishers PROVE attempt[p] < MaxAttempts[p]
  <2>1. MaxAttempts[p] \in Nat \ {0}
    BY LoopAssumption DEF LoopAssumption
  <2> QED
    BY <2>1 DEF LoopInv, LoopTypeOK
<1> QED
  BY <1>1 DEF StepsTyped, LoopInv, LoopTypeOK

LEMMA OverTyped ==
  ASSUME StepsTyped, NEW p \in Publishers, Over(p)
  PROVE  StepsTyped'
<1>1. 0 \in 0 .. MaxClock /\ MaxAttempts[p] \in Nat \ {0}
  BY LoopAssumption DEF LoopAssumption
<1>2. \A q \in Publishers : attempt'[q] < MaxAttempts[q]
  BY <1>1 DEF StepsTyped, Over
<1> QED
  BY <1>1, <1>2 DEF StepsTyped, Over, PlansHeld

LEMMA FailedTyped ==
  ASSUME StepsTyped, NEW p \in Publishers, Calling(p), Failed(p)
  PROVE  StepsTyped'
<1>1. CASE Over(p)
  BY <1>1, OverTyped
<1>2. ASSUME attempt[p] + 1 < MaxAttempts[p],
             phase' = [phase EXCEPT ![p] = FirstPhase(p)],
             attempt' = [attempt EXCEPT ![p] = @ + 1],
             UNCHANGED <<plan, planned>>
      PROVE  StepsTyped'
  <2>1. FirstPhase(p) \in {"heartbeat", "issue"}
    BY DEF FirstPhase
  <2>2. attempt' \in [Publishers -> Nat]
    BY <1>2 DEF StepsTyped
  <2>3. \A q \in Publishers : attempt'[q] < MaxAttempts[q]
    BY <1>2 DEF StepsTyped
  <2> QED
    BY <1>2, <2>1, <2>2, <2>3 DEF StepsTyped, PlansHeld, Calling
<1> QED
  BY <1>1, <1>2 DEF Failed

LEMMA PassedTyped ==
  ASSUME StepsTyped, NEW p \in Publishers, Passed(p)
  PROVE  StepsTyped'
<1>1. CASE Over(p)
  BY <1>1, OverTyped
<1>2. ASSUME phase[p] \in {"heartbeat", "issue"},
             phase' = [phase EXCEPT ![p] =
               IF @ = "heartbeat" THEN "issue" ELSE "commit"],
             UNCHANGED <<plan, planned, attempt>>
      PROVE  StepsTyped'
  BY <1>2 DEF StepsTyped, PlansHeld
<1> QED
  BY <1>1, <1>2 DEF Passed

LEMMA PlanTyped ==
  ASSUME StepsTyped, clock \in 0 .. MaxClock, NEW p \in Publishers,
         NEW t, NEW b, Plan(p, t, b)
  PROVE  StepsTyped'
<1>1. FirstPhase(p) \in {"heartbeat", "issue"}
  BY DEF FirstPhase
<1>2. MaxAttempts[p] \in Nat \ {0}
  BY LoopAssumption DEF LoopAssumption
<1>3. /\ attempt' \in [Publishers -> Nat]
      /\ \A q \in Publishers : attempt'[q] < MaxAttempts[q]
  BY <1>2 DEF StepsTyped, Plan
<1> QED
  BY <1>1, <1>3 DEF StepsTyped, Plan, PlansHeld

\* Every step leaves the publishers with plans, and attempts to spare.
LEMMA LoopKeepsSteps ==
  ASSUME LoopInv, [LoopNext]_loopvars
  PROVE  /\ StepsTyped'
         /\ clock' \in 0 .. MaxClock
         /\ faults' \in 0 .. MaxFaults
         /\ late' \in Calls \cup {NoCall}
<1> DEFINE Rest == /\ clock' \in 0 .. MaxClock
                   /\ faults' \in 0 .. MaxFaults
                   /\ late' \in Calls \cup {NoCall}
<1>0. /\ StepsTyped /\ clock \in 0 .. MaxClock /\ faults \in 0 .. MaxFaults
      /\ late \in Calls \cup {NoCall}
      /\ MaxClock \in Nat /\ MaxFaults \in Nat
  BY StepsOfLoopInv, LoopAssumption DEF LoopInv, LoopTypeOK, LoopAssumption
<1>f. Fault => faults' \in 0 .. MaxFaults
  BY <1>0 DEF Fault
<1>1. CASE UNCHANGED loopvars
  BY <1>0, <1>1 DEF loopvars, loop, StepsTyped, PlansHeld
<1>2. ASSUME NEW p \in Publishers, NEW t \in Tracks, NEW b \in BOOLEAN,
             Plan(p, t, b)
      PROVE  StepsTyped' /\ Rest
  <2>1. StepsTyped'
    BY <1>0, <1>2, PlanTyped
  <2> QED
    BY <1>0, <1>2, <2>1 DEF Plan
<1>3. ASSUME NEW p \in Publishers, Calling(p), NEW now, NEW tol,
             Called(p, now, tol)
      PROVE  StepsTyped' /\ Rest
  <2>1. Passed(p) \/ Failed(p)
    BY <1>3 DEF Called
  <2>2. StepsTyped'
    BY <1>0, <1>3, <2>1, PassedTyped, FailedTyped
  <2> QED
    BY <1>0, <1>f, <1>3, <2>2 DEF Called
<1>4. ASSUME NEW p \in Publishers, CallFails(p) \/ Crash(p)
      PROVE  StepsTyped' /\ Rest
  <2>1. Calling(p) /\ (Over(p) \/ Failed(p)) /\ Fault /\ clock' = clock
    BY <1>4 DEF CallFails, Crash
  <2>2. CallOf(p) \in Calls
    BY <2>1, CallTyped DEF LoopInv
  <2>3. late' \in Calls \cup {NoCall}
    BY <1>0, <1>4, <2>2 DEF CallFails, Crash
  <2>4. StepsTyped'
    BY <1>0, <2>1, OverTyped, FailedTyped
  <2> QED
    BY <1>0, <1>f, <2>1, <2>3, <2>4
<1>5. ASSUME NEW now, NEW tol, ServeLate(now, tol)
      PROVE  StepsTyped' /\ Rest
  BY <1>0, <1>5 DEF ServeLate, StepsTyped, PlansHeld
<1>6. CASE Meanwhile
  BY <1>0, <1>6 DEF Meanwhile, loop, StepsTyped, PlansHeld
<1>7. CASE Tick
  <2>1. clock' \in 0 .. MaxClock
    BY <1>0, <1>7 DEF Tick
  <2> QED
    BY <1>0, <1>7, <2>1 DEF Tick, loop, StepsTyped, PlansHeld
<1> QED
  BY <1>1, <1>2, <1>3, <1>4, <1>5, <1>6, <1>7 DEF LoopNext

----------------------------------------------------------------------------
(***************************************************************************)
(* The session as publishers leave it.                                     *)
(***************************************************************************)

\* A commit is served on an issued slot, and keeps the name of every slot.
LEMMA CommitNames ==
  ASSUME LoopInv, NEW s \in slots, NEW max, NEW t, NEW tol,
         CommitUpload(s, max, t, tol)
  PROVE  /\ s.state = "issued"
         /\ SlotsNamed'
         /\ initCommits' = RecordedInits(s)
         /\ \A c \in RecordedMedia(s) \ commits' :
              /\ OnTrack(cursor'.media, c.at.track) # {}
              /\ \A d \in OnTrack(cursor'.media, c.at.track) :
                   c.at.seq < d.at.seq
<1>1. s.state = "issued" /\ slots' \subseteq MarkCommitted(s)
  BY DEF CommitUpload, CommitHeld, CommitAdvances, CommitAccepted, PrunedSlots
<1>2. SlotsNamed'
  <2>1. s \in Slots
    BY DEF LoopInv, WInv, IInv, TypeOK
  <2>2. LET r == [s EXCEPT !.state = "committed"]
        IN  r.id = s.id /\ r.at = s.at /\ r.state = "committed"
    BY <2>1 DEF Slots
  <2> QED
    BY <1>1, <2>2 DEF MarkCommitted, SlotsNamed, LoopInv
<1>3. CASE CommitHeld(s, max, t, tol)
  BY <1>1, <1>2, <1>3 DEF CommitHeld
<1>4. CASE CommitAdvances(s, max, t, tol)
  <2>1. /\ UniqueSlots(MarkCommitted(s))
        /\ Matched(MarkCommitted(s), RecordedMedia(s), RecordedInits(s))
    BY <1>1, MarkingMatches DEF LoopInv, WInv
  <2>2. commits' = PrunedCommits(RecordedMedia(s),
                     ObsoleteSlotIds(MarkCommitted(s), RecordedMedia(s),
                                     cursor', t, tol))
    BY <1>4 DEF CommitAdvances
  <2>3. \A c \in RecordedMedia(s) \ commits' :
          c \in RetiredCommits(RecordedMedia(s), cursor')
    BY <2>1, <2>2, ObsoleteCommits DEF PrunedCommits
  <2> QED
    BY <1>1, <1>2, <1>4, <2>3 DEF CommitAdvances, RetiredCommits
<1> QED
  BY <1>3, <1>4 DEF CommitUpload

\* Publishers name every slot and revoke none.
LEMMA LoopKeepsNames ==
  ASSUME LoopInv, [LoopNext]_loopvars
  PROVE  SlotsNamed' /\ initCommits \subseteq initCommits'
<1> DEFINE Goal == SlotsNamed' /\ initCommits \subseteq initCommits'
<1>0. SlotsNamed
  BY DEF LoopInv
<1>1. CASE UNCHANGED <<vars, leases, content>>
  BY <1>0, <1>1 DEF vars, SlotsNamed
<1>2. CASE Meanwhile
  <2>1. slots' \subseteq slots /\ initCommits' = initCommits
    BY <1>2 DEF Meanwhile, ApplyRetention, TransitionSession, PrunedSlots
  <2> QED
    BY <1>0, <2>1 DEF SlotsNamed
<1>3. ASSUME NEW c \in Calls, NEW now \in Nat, NEW tol \in LateTolerances,
             Effect(c, now, tol, Outcome(c, now, tol))
      PROVE  Goal
  <2>1. ASSUME NEW t \in Times, IssueSlot(SlotIdOf(c.at), c.at, t)
        PROVE  Goal
    BY <1>0, <2>1 DEF IssueSlot, SlotsNamed
  <2>2. ASSUME NEW s \in slots, NEW max \in WindowSizes, NEW t \in Times,
               CommitUpload(s, max, t, tol)
        PROVE  Goal
    BY <2>2, CommitNames DEF RecordedInits
  <2>3. CASE UNCHANGED vars
    BY <1>0, <2>3 DEF vars, SlotsNamed
  <2> QED
    BY <1>3, <2>1, <2>2, <2>3, EffectOf DEF LoopInv
<1> QED
  BY <1>1, <1>2, <1>3, LoopStep

\* So what leaves the record lies behind the window of its track.
LEMMA LoopLeavesBehind ==
  ASSUME LoopInv, [LoopNext]_loopvars, NEW c \in commits \ commits'
  PROVE  /\ OnTrack(cursor'.media, c.at.track) # {}
         /\ \A d \in OnTrack(cursor'.media, c.at.track) : c.at.seq < d.at.seq
<1>1. ASSUME NEW s \in slots, RevokeUpload(s) PROVE FALSE
  <2>1. s \in Slots
    BY DEF LoopInv, WInv, IInv, TypeOK
  <2>2. [s EXCEPT !.state = "revoked"] \in slots'
    BY <1>1 DEF RevokeUpload
  <2>3. [s EXCEPT !.state = "revoked"].state = "revoked"
    BY <2>1 DEF Slots
  <2> QED
    BY <2>2, <2>3, LoopKeepsNames DEF SlotsNamed
<1>2. CASE UNCHANGED vars
  BY <1>2 DEF vars
<1>3. CASE ~ UNCHANGED vars
  BY <1>1, <1>3, LoopNextRunsPipeline, StepLeavesBehind DEF LoopInv, WInv
<1> QED
  BY <1>2, <1>3

\* Content is known of commits only, and of publishers only.
LEMMA RecordedTyped ==
  ASSUME NEW f \in [SlotIds -> Publishers \cup {NoContent}],
         content' = Recorded(f)
  PROVE  /\ content' \in [SlotIds -> Publishers \cup {NoContent}]
         /\ ContentRecorded'
         /\ \A id \in SlotIds :
              (\E c \in commits' \cup initCommits' : c.slot = id) =>
                content'[id] = f[id]
BY DEF Recorded, ContentRecorded

LEMMA LoopKeepsContent ==
  ASSUME LoopInv, [LoopNext]_loopvars
  PROVE  /\ content' \in [SlotIds -> Publishers \cup {NoContent}]
         /\ ContentRecorded'
<1> DEFINE Contents == [SlotIds -> Publishers \cup {NoContent}]
           Goal == content' \in Contents /\ ContentRecorded'
<1>0. content \in Contents /\ ContentRecorded
  BY DEF LoopInv, LoopTypeOK
<1>1. CASE UNCHANGED <<vars, content>>
  BY <1>0, <1>1 DEF vars, ContentRecorded
<1>2. CASE Meanwhile
  BY <1>0, <1>2, RecordedTyped DEF Meanwhile
<1>3. ASSUME NEW c \in Calls, NEW now \in Nat, NEW tol \in LateTolerances,
             Effect(c, now, tol, Outcome(c, now, tol))
      PROVE  Goal
  <2>1. ASSUME NEW t \in Times, IssueSlot(SlotIdOf(c.at), c.at, t),
               UNCHANGED content
        PROVE  Goal
    BY <1>0, <2>1 DEF IssueSlot, ContentRecorded
  <2>2. ASSUME NEW s \in slots, content' = Recorded([content EXCEPT ![s.id] = c.from])
        PROVE  Goal
    <3>1. [content EXCEPT ![s.id] = c.from] \in Contents
      BY <1>0 DEF Calls
    <3> QED
      BY <2>2, <3>1, RecordedTyped
  <2> QED
    BY <1>1, <1>3, <2>1, <2>2, EffectOf DEF LoopInv
<1> QED
  BY <1>1, <1>2, <1>3, LoopStep

LEMMA LoopKeepsLeases ==
  ASSUME LoopInv, [LoopNext]_loopvars
  PROVE  leases' \in Seq(Leases) /\ LeasesSound'
<1>0. leases \in Seq(Leases) /\ LeasesSound
  BY DEF LoopInv, LoopTypeOK
<1>1. CASE UNCHANGED leases
  BY <1>0, <1>1 DEF LeasesSound, Timeline
<1>2. ASSUME NEW c \in Calls, NEW now \in Nat, NEW tol \in LateTolerances,
             Effect(c, now, tol, Outcome(c, now, tol))
      PROVE  leases' \in Seq(Leases) /\ LeasesSound'
  <2>1. CASE Heartbeat(c.from, now, session)
    BY <1>0, <2>1, HeartbeatKeepsLeases DEF Calls
  <2> QED
    BY <1>1, <1>2, <2>1, EffectOf DEF LoopInv
<1> QED
  BY <1>1, <1>2, LoopStep DEF Meanwhile

----------------------------------------------------------------------------
(***************************************************************************)
(* What publishers were told is published.                                 *)
(***************************************************************************)

Behindhand(a) ==
  \E c \in cursor.media : c.at.track = a.track /\ a.seq < c.at.seq

\* The object that p uploaded for position a is recorded, or was passed.
Published(a, p) == content[SlotIdOf(a)] = p \/ Behindhand(a)

\* A window that has moved past a position stays past it.
LEMMA BehindStays ==
  ASSUME LoopInv, [LoopNext]_loopvars, NEW a \in Positions, Behindhand(a)
  PROVE  Behindhand(a)'
<1>1. cursor'.media = cursor.media \/ Live!TrimmedAtFront
  BY LoopNextRunsPipeline, StepShowsLiveWindow
     DEF LoopInv, Live!Next, Live!Publish, Live!Close, Live!window
<1>2. PICK c \in cursor.media : c.at.track = a.track /\ a.seq < c.at.seq
  BY DEF Behindhand
<1>3. CASE c \in cursor'.media
  BY <1>2, <1>3 DEF Behindhand
<1>4. CASE c \notin cursor'.media
  <2>1. PICK d \in cursor'.media : d.at.track = a.track /\ c.at.seq < d.at.seq
    BY <1>1, <1>2, <1>4 DEF Live!TrimmedAtFront, Live!Track
  <2>2. a.seq \in Nat
    BY CoordinatorAssumption DEF CoordinatorAssumption, Positions
  <2>3. c \in Commits /\ d \in Commits
    BY LoopNextRunsPipeline, NextWInv
       DEF LoopInv, WInv, IInv, TypeOK, Cursors
  <2>4. a.seq < d.at.seq
    BY <1>2, <2>1, <2>2, <2>3, SequenceNumbers
  <2> QED
    BY <2>1, <2>4 DEF Behindhand
<1> QED
  BY <1>3, <1>4

\* A recorded object is the one its slot is named for, unless it is an init
\* object, which is never pruned.
LEMMA RecordedAt ==
  ASSUME LoopInv, NEW a \in Positions, NEW c \in commits \cup initCommits,
         c.slot = SlotIdOf(a)
  PROVE  c \in initCommits \/ c.at = a
<1>1. PICK s \in slots : c = CommitOf(s) /\ (s.at.kind = "init" => c \in initCommits)
  BY DEF LoopInv, WInv, IInv, CommitsMatchSlots
<1>2. CASE s.at.kind = "init"
  BY <1>1, <1>2
<1>3. CASE s.at.kind # "init"
  <2>1. SlotIdOf(a) = s.at /\ c.at = s.at
    BY <1>1, <1>3 DEF SlotsNamed, LoopInv, SlotIdOf, CommitOf
  <2>2. SlotIdOf(a).kind = a.kind
    BY DEF SlotIdOf, Positions
  <2> QED
    BY <1>3, <2>1, <2>2 DEF SlotIdOf
<1> QED
  BY <1>2, <1>3

\* A commit that publishers had recorded stays so or is passed.
LEMMA RecordedStays ==
  ASSUME LoopInv, [LoopNext]_loopvars, NEW a \in Positions,
         NEW c \in commits \cup initCommits, c.slot = SlotIdOf(a)
  PROVE  c \in commits' \cup initCommits' \/ Behindhand(a)'
<1>1. CASE c \in initCommits
  BY <1>1, LoopKeepsNames
<1>2. CASE c \notin initCommits /\ c \notin commits'
  <2>1. c.at = a /\ c \in commits
    BY <1>2, RecordedAt
  <2>2. \E d \in OnTrack(cursor'.media, a.track) : a.seq < d.at.seq
    BY <1>2, <2>1, LoopLeavesBehind
  <2> QED
    BY <2>2 DEF Behindhand, OnTrack
<1> QED
  BY <1>1, <1>2

\* A slot that can be committed has no commit yet.
LEMMA IssuedUnrecorded ==
  ASSUME LoopInv, NEW s \in slots, s.state = "issued"
  PROVE  \A c \in commits \cup initCommits : c.slot # s.id
BY DEF LoopInv, WInv, IInv, CommitsMatchSlots, OpenSlotsUnique, CommitOf

\* What is published stays published, whoever is served what.
LEMMA PublishedStays ==
  ASSUME LoopInv, [LoopNext]_loopvars,
         NEW a \in Positions, NEW p \in Publishers, Published(a, p)
  PROVE  Published(a, p)'
<1> DEFINE id == SlotIdOf(a)
<1>0. /\ id \in SlotIds /\ p # NoContent
      /\ content \in [SlotIds -> Publishers \cup {NoContent}]
  BY NamesAssumption, LoopAssumption
     DEF NamesAssumption, LoopAssumption, LoopInv, LoopTypeOK
<1> HIDE DEF id
<1>1. CASE Behindhand(a)
  BY <1>1, BehindStays DEF Published
<1>2. CASE ~Behindhand(a)
  <2>1. content[id] = p
    BY <1>2 DEF Published, id
  <2>2. PICK c \in commits \cup initCommits : c.slot = id
    BY <1>0, <2>1 DEF LoopInv, ContentRecorded
  <2>3. c \in commits' \cup initCommits' \/ Behindhand(a)'
    BY <2>2, RecordedStays DEF id
  <2>4. ASSUME content'[id] = p PROVE Published(a, p)'
    BY <2>4 DEF Published, id
  <2>5. CASE UNCHANGED content
    BY <2>1, <2>4, <2>5
  <2>6. ASSUME NEW f \in [SlotIds -> Publishers \cup {NoContent}],
               content' = Recorded(f), f[id] = p
        PROVE  Published(a, p)'
    <3>1. CASE Behindhand(a)'
      BY <3>1 DEF Published
    <3>2. CASE c \in commits' \cup initCommits'
      BY <1>0, <2>2, <2>4, <2>6, <3>2, RecordedTyped
    <3> QED
      BY <2>3, <3>1, <3>2
  <2>7. CASE Meanwhile
    BY <1>0, <2>1, <2>6, <2>7 DEF Meanwhile
  <2>8. ASSUME NEW k \in Calls, NEW s \in slots, NEW max, NEW t, NEW tol,
               CommitUpload(s, max, t, tol),
               content' = Recorded([content EXCEPT ![s.id] = k.from])
        PROVE  Published(a, p)'
    <3>1. s.id # id
      BY <2>2, <2>8, CommitNames, IssuedUnrecorded
    <3>2. /\ [content EXCEPT ![s.id] = k.from]
               \in [SlotIds -> Publishers \cup {NoContent}]
          /\ [content EXCEPT ![s.id] = k.from][id] = p
      BY <1>0, <2>1, <3>1 DEF Calls
    <3> QED
      BY <2>6, <2>8, <3>2
  <2> QED
    BY <2>5, <2>7, <2>8, LoopStep, EffectOf DEF LoopInv
<1> QED
  BY <1>1, <1>2

\* The answers to a commit that let a publisher go on.
LEMMA CommitAnswers ==
  \A outcome \in {"unknown_slot", "rejected", "idempotent", "conflict",
                  "committed"} :
    Ok(Status(outcome)) => outcome \in {"idempotent", "committed"}
BY DEF Ok, Status

\* What a publisher is told is published is published.
LEMMA ToldIsPublished ==
  ASSUME LoopInv, [LoopNext]_loopvars, NEW p \in Publishers, Calling(p),
         phase[p] = "commit", NEW a, a = plan[p],
         NEW now, NEW tol \in LateTolerances,
         Effect(CallOf(p), now, tol, Outcome(CallOf(p), now, tol)),
         Ok(Status(Outcome(CallOf(p), now, tol)))
  PROVE  a \in Positions /\ Published(a, p)'
<1> DEFINE c == CallOf(p)
           outcome == Outcome(c, now, tol)
           id == SlotIdOf(a)
<1>1. /\ c \in Calls /\ c.op = "commits" /\ c.from = p /\ c.at = a
      /\ a \in Positions
  BY CallTyped DEF LoopInv, PlansHeld, Calling
<1>2. outcome \in {"idempotent", "committed"}
  BY <1>1, OutcomesOf, CommitAnswers DEF LoopInv
<1>3. id \in SlotIds /\ content \in [SlotIds -> Publishers \cup {NoContent}]
  BY <1>1, NamesAssumption DEF NamesAssumption, LoopInv, LoopTypeOK
<1>4. CASE outcome = "idempotent"
  <2> DEFINE known == {s \in slots : s.id = SlotIdOf(c.at)}
             found == CHOOSE s \in known : TRUE
  <2>1. known # {} /\ outcome = CommitOutcome(c.from, found, c.time, tol)
    BY <1>1, <1>4 DEF Outcome
  <2>2. found \in known
    BY <2>1
  <2>3. found.id = id /\ found.state \in {"issued", "committed"}
    BY <1>1, <2>2 DEF LoopInv, SlotsNamed
  <2>4. SameContent(p, id)
    BY <1>1, <1>4, <2>1, <2>3 DEF CommitOutcome
  <2>5. content' = content
    BY <1>4, <1>1, EffectOf DEF LoopInv
  <2> QED
    BY <1>1, <2>4, <2>5 DEF SameContent, Published
<1>5. CASE outcome = "committed"
  <2>1. PICK s \in slots :
          /\ s.id = id
          /\ CommitUpload(s, MaxSegments[p], c.time, tol)
          /\ content' = Recorded([content EXCEPT ![s.id] = p])
    BY <1>1, <1>5, CommitCall
  <2>2. [content EXCEPT ![s.id] = p] \in [SlotIds -> Publishers \cup {NoContent}]
    BY <1>3
  <2>3. [content EXCEPT ![s.id] = p][id] = p
    BY <1>3, <2>1
  <2>4. CommitOf(s) \in RecordedMedia(s) \cup RecordedInits(s)
    BY DEF RecordedMedia, RecordedInits
  <2>5. CASE CommitOf(s) \in commits' \cup initCommits'
    <3>1. content'[id] = p
      BY <1>3, <2>1, <2>2, <2>3, <2>5, RecordedTyped DEF CommitOf
    <3> QED
      BY <1>1, <3>1 DEF Published
  <2>6. CASE CommitOf(s) \notin commits' \cup initCommits'
    <3>1. CommitOf(s) \in RecordedMedia(s) \ commits'
      BY <2>1, <2>4, <2>6, CommitNames
    <3>2. s.at.kind # "init" => s.at = a
      BY <1>1, <2>1 DEF LoopInv, SlotsNamed, SlotIdOf, Positions
    <3>3. s.at.kind # "init"
      <4>1. CommitOf(s) \notin initCommits'
        BY <2>6
      <4> QED
        BY <2>1, <4>1, CommitNames DEF RecordedInits
    <3>4. \E d \in OnTrack(cursor'.media, a.track) : a.seq < d.at.seq
      BY <2>1, <3>1, <3>2, <3>3, CommitNames DEF CommitOf
    <3> QED
      BY <1>1, <3>4 DEF Published, Behindhand, OnTrack
  <2> QED
    BY <2>5, <2>6
<1> QED
  BY <1>2, <1>4, <1>5

LEMMA LoopKeepsConfirmed ==
  ASSUME LoopInv, [LoopNext]_loopvars
  PROVE  confirmed' \subseteq Positions \X Publishers /\ ConfirmedStaysPublished'
<1>0. confirmed \subseteq Positions \X Publishers
  BY DEF LoopInv, LoopTypeOK
<1>1. \A ap \in confirmed : Published(ap[1], ap[2])'
  <2> SUFFICES ASSUME NEW ap \in confirmed PROVE Published(ap[1], ap[2])'
    OBVIOUS
  <2>1. ap[1] \in Positions /\ ap[2] \in Publishers
    BY <1>0
  <2>2. Published(ap[1], ap[2])
    BY DEF LoopInv, ConfirmedStaysPublished, Published, Behindhand
  <2> QED
    BY <2>1, <2>2, PublishedStays
<1>2. \A ap \in confirmed' :
        \/ ap \in confirmed
        \/ \E p \in Publishers, a \in Positions :
             ap = <<a, p>> /\ Published(a, p)'
  <2>1. CASE UNCHANGED confirmed
    BY <2>1
  <2>2. ASSUME NEW p \in Publishers, Calling(p),
               NEW now, NEW tol \in LateTolerances, Called(p, now, tol),
               confirmed' # confirmed
        PROVE  \E a \in Positions :
                 /\ confirmed' \subseteq confirmed \cup {<<a, p>>}
                 /\ Published(a, p)'
    <3>1. /\ Passed(p) /\ phase[p] = "commit"
          /\ Ok(Status(Outcome(CallOf(p), now, tol)))
          /\ Effect(CallOf(p), now, tol, Outcome(CallOf(p), now, tol))
      BY <2>2 DEF Called, Passed
    <3> QED
      BY <2>2, <3>1, ToldIsPublished DEF Passed
  <2>3. CASE UNCHANGED loopvars
    BY <2>1, <2>3 DEF loopvars
  <2> QED
    BY <2>1, <2>2, <2>3
       DEF LoopNext, Plan, CallFails, Crash, ServeLate, Meanwhile, Tick
<1>3. \A ap \in confirmed' :
        ap \in Positions \X Publishers /\ Published(ap[1], ap[2])'
  BY <1>0, <1>1, <1>2
<1> QED
  BY <1>3 DEF ConfirmedStaysPublished, Published, Behindhand

----------------------------------------------------------------------------
(***************************************************************************)
(* LoopInv is inductive.                                                   *)
(***************************************************************************)

\* Before anybody has done anything, nothing is planned, issued or told.
LEMMA InitLoopInv == LoopInit => LoopInv
<1> SUFFICES ASSUME LoopInit PROVE LoopInv
  OBVIOUS
<1>1. WInv
  BY InitWInv DEF LoopInit
<1>2. \A p \in Publishers : MaxAttempts[p] \in Nat \ {0}
  BY LoopAssumption DEF LoopAssumption
<1>3. /\ leases \in Seq(Leases) /\ LeasesSound
  BY DEF LoopInit, LeaseInit, LeasesSound
<1>4. LoopTypeOK /\ attempt \in [Publishers -> Nat]
  <2>1. TypeOK
    BY <1>1 DEF WInv, IInv
  <2>2. \A p \in Publishers : attempt[p] \in 0 .. MaxAttempts[p] - 1
    BY <1>2 DEF LoopInit
  <2>3. MaxClock \in Nat /\ MaxFaults \in Nat
    BY LoopAssumption DEF LoopAssumption
  <2> QED
    BY <1>3, <2>1, <2>2, <2>3 DEF LoopInit, LoopTypeOK
<1>5. SlotsNamed /\ ContentRecorded /\ PlansHeld /\ ConfirmedStaysPublished
  BY DEF LoopInit, Init, SlotsNamed, ContentRecorded, PlansHeld,
         ConfirmedStaysPublished
<1> QED
  BY <1>1, <1>3, <1>4, <1>5 DEF LoopInv

LEMMA LoopNextInv == LoopInv /\ [LoopNext]_loopvars => LoopInv'
<1> SUFFICES ASSUME LoopInv, [LoopNext]_loopvars PROVE LoopInv'
  OBVIOUS
<1>1. WInv'
  BY LoopNextRunsPipeline, NextWInv DEF LoopInv
<1>2. /\ StepsTyped' /\ clock' \in 0 .. MaxClock /\ faults' \in 0 .. MaxFaults
      /\ late' \in Calls \cup {NoCall}
  BY LoopKeepsSteps
<1>3. \A p \in Publishers : attempt'[p] \in 0 .. MaxAttempts[p] - 1
  <2> TAKE p \in Publishers
  <2>1. MaxAttempts[p] \in Nat \ {0}
    BY LoopAssumption DEF LoopAssumption
  <2>2. attempt'[p] \in Nat /\ attempt'[p] < MaxAttempts[p]
    BY <1>2 DEF StepsTyped
  <2> QED
    BY <2>1, <2>2
<1>4. /\ content' \in [SlotIds -> Publishers \cup {NoContent}]
      /\ ContentRecorded'
  BY LoopKeepsContent
<1>5. leases' \in Seq(Leases) /\ LeasesSound'
  BY LoopKeepsLeases
<1>6. confirmed' \subseteq Positions \X Publishers /\ ConfirmedStaysPublished'
  BY LoopKeepsConfirmed
<1>7. LoopTypeOK'
  BY <1>1, <1>2, <1>3, <1>4, <1>5, <1>6
     DEF LoopTypeOK, StepsTyped, WInv, IInv
<1>8. SlotsNamed' /\ PlansHeld' /\ attempt' \in [Publishers -> Nat]
  BY <1>2, LoopKeepsNames DEF StepsTyped
<1> QED
  BY <1>1, <1>4, <1>5, <1>6, <1>7, <1>8 DEF LoopInv

\* LoopInv holds in every state that publishers lead a session to.
THEOREM LoopInvariance == LoopSpec => []LoopInv
BY InitLoopInv, LoopNextInv, PTL DEF LoopSpec

\* Publishers that call, fail, retry, crash and are served late take the
\* session only through steps of its pipeline, so that everything proved of
\* Coordinator holds of it.
THEOREM LoopRunsPipeline == LoopSpec => Spec
<1>1. LoopInit => Init
  BY DEF LoopInit
<1>2. LoopInv /\ [LoopNext]_loopvars => [Next]_vars
  BY LoopNextRunsPipeline
<1> QED
  BY <1>1, <1>2, LoopInvariance, PTL DEF LoopSpec, Spec

\* Publishers, their plans and what is recorded of them keep their shapes; no
\* publisher ever runs more attempts than it was given.
THEOREM LoopTypeCorrect == LoopSpec => []LoopTypeOK
BY LoopInvariance, PTL DEF LoopInv

\* Heartbeats that are clocked by servers whose clocks disagree never leave a
\* lease that the next heartbeat, or health, would throw on.
THEOREM LeasesStaySound == LoopSpec => []LeasesSound
BY LoopInvariance, PTL DEF LoopInv

\* An object that its publisher was told is published is recorded as that
\* publisher's until the window has moved past it, whatever calls are lost,
\* repeated or served late.
THEOREM ConfirmedAlwaysPublished == LoopSpec => []ConfirmedStaysPublished
BY LoopInvariance, PTL DEF LoopInv

----------------------------------------------------------------------------
(***************************************************************************)
(* Windows of consecutive parts.                                           *)
(***************************************************************************)

LEMMA PartNumbered ==
  ASSUME NEW a \in Positions
  PROVE  /\ a.seq \in Nat /\ a.track \in Tracks
         /\ a.kind \in {"init", "segment", "part"}
         /\ a.kind = "part" => a.part \in Nat
BY CoordinatorAssumption DEF CoordinatorAssumption, Positions

\* With one track, everything is on it.
LEMMA OneTrack ==
  ASSUME NEW t, Tracks = {t}, NEW media \in SUBSET Commits
  PROVE  /\ \A c \in media : c.at.track = t
         /\ OnTrack(media, t) = media
BY PartNumbered DEF Commits, OnTrack

\* The edge of a window of parts.
LEMMA Edge ==
  ASSUME NEW media \in SUBSET Commits, Solid(media), media # {}
  PROVE  /\ LastSeq(media) \in Nat /\ LastPart(media) \in Nat
         /\ LastPart(media) < PartsPerSegment
         /\ \E c \in media :
              c.at.seq = LastSeq(media) /\ c.at.part = LastPart(media)
         /\ \A c \in media :
              /\ c.at.seq \in Nat /\ c.at.part \in Nat
              /\ c.at.seq <= LastSeq(media)
              /\ c.at.seq = LastSeq(media) => c.at.part <= LastPart(media)
<1>1. \A c \in media : c.at.seq \in Nat /\ c.at.part \in Nat
  BY PartNumbered DEF Solid, Commits
<1> QED
  BY <1>1, LastPosition DEF Solid

\* It is where its last object lies.
LEMMA EdgeIs ==
  ASSUME NEW media \in SUBSET Commits, Solid(media), NEW n \in media,
         \A c \in media : /\ c.at.seq <= n.at.seq
                          /\ c.at.seq = n.at.seq => c.at.part <= n.at.part
  PROVE  LastSeq(media) = n.at.seq /\ LastPart(media) = n.at.part
<1>1. PICK c \in media : c.at.seq = LastSeq(media) /\ c.at.part = LastPart(media)
  BY Edge
<1>2. /\ c.at.seq \in Nat /\ n.at.seq \in Nat
      /\ c.at.part \in Nat /\ n.at.part \in Nat
      /\ n.at.seq <= LastSeq(media)
      /\ n.at.seq = LastSeq(media) => n.at.part <= LastPart(media)
  BY Edge
<1>3. c.at.seq <= n.at.seq /\ (c.at.seq = n.at.seq => c.at.part <= n.at.part)
  OBVIOUS
<1> QED
  BY <1>1, <1>2, <1>3

\* Position a is the one after the edge.
Follows(media, a) ==
  /\ a.part < PartsPerSegment
  /\ IF media = {} THEN a.seq = StartSeq /\ a.part = 0
     ELSE \/ a.seq = LastSeq(media) /\ a.part = LastPart(media) + 1
          \/ /\ a.seq = LastSeq(media) + 1 /\ a.part = 0
             /\ LastPart(media) + 1 = PartsPerSegment

\* What is in reach and not late is the next part.
LEMMA NextInReach ==
  ASSUME NEW t, Tracks = {t}, NEW media \in SUBSET Commits, Solid(media),
         NEW a \in Positions, a.kind = "part", Reach(media, a),
         ~IsLateSlot(a, media)
  PROVE  Follows(media, a)
<1>1. /\ a.seq \in Nat /\ a.part \in Nat /\ a.track = t
      /\ PartsPerSegment \in Nat \ {0}
  BY PartNumbered, LoopAssumption DEF LoopAssumption
<1>2. CASE media = {}
  BY <1>1, <1>2 DEF Reach, Follows
<1>3. CASE media # {}
  <2>1. PICK c \in media : c.at.seq = LastSeq(media) /\ c.at.part = LastPart(media)
    BY <1>3, Edge
  <2>2. LastSeq(media) \in Nat /\ LastPart(media) \in Nat
    BY <1>3, Edge
  <2>3. /\ ~(a.seq < LastSeq(media))
        /\ ~(a.seq = LastSeq(media) /\ a.part <= LastPart(media))
    BY <1>1, <2>1, <2>2, OneTrack DEF IsLateSlot, NoPart
  <2> QED
    BY <1>1, <1>3, <2>2, <2>3 DEF Reach, Follows
<1> QED
  BY <1>2, <1>3

\* What a window of consecutive parts shows of them is consecutive.
LEMMA ShownIsSolid ==
  ASSUME NEW t, Tracks = {t}, NEW C \in SUBSET Commits, Solid(C),
         NEW N \in SUBSET C, N # {}, Shows(N, C)
  PROVE  /\ Solid(N)
         /\ LastSeq(N) = LastSeq(C) /\ LastPart(N) = LastPart(C)
<1>1. C = Contiguous(C)
  BY DEF Solid, Contiguous
<1>2. /\ \A c \in C : c.at.seq \in Nat /\ c.at.track = t
      /\ OnTrack(N, t) = N /\ OnTrack(C, t) = C
  BY PartNumbered, OneTrack DEF Commits
<1>3. \A e \in N, c \in C : e.at.seq <= c.at.seq => c \in N
  BY <1>1, <1>2 DEF Shows
<1>4. PICK n \in C : n.at.seq = LastSeq(C) /\ n.at.part = LastPart(C)
  BY Edge
<1>5. n \in N
  <2>1. PICK e \in N : TRUE
    OBVIOUS
  <2>2. e.at.seq <= n.at.seq
    BY <1>4, Edge
  <2> QED
    BY <1>3, <2>2
<1>6. IsFiniteSet(N)
  BY FS_Subset DEF Solid
<1>7. N \subseteq Contiguous(N)
  <2> SUFFICES ASSUME NEW c \in N, NEW p \in 0 .. c.at.part - 1
               PROVE  \E d \in N : /\ d.at.track = c.at.track
                                   /\ d.at.seq = c.at.seq /\ d.at.part = p
    BY DEF Contiguous
  <2>1. PICK d \in C : /\ d.at.track = c.at.track
                       /\ d.at.seq = c.at.seq /\ d.at.part = p
    BY <1>1 DEF Contiguous
  <2>2. d \in N
    BY <1>2, <1>3, <2>1
  <2> QED
    BY <2>1, <2>2
<1>8. \A c \in N : /\ c.at.seq <= n.at.seq
                   /\ c.at.seq = n.at.seq => c.at.part <= n.at.part
  BY <1>4, Edge
<1>9. \A c \in N : c.at.seq < n.at.seq =>
        /\ c.at.seq + 1 \in SeqsOf(N)
        /\ \A k \in 0 .. PartsPerSegment - 1 :
             \E d \in N : d.at.seq = c.at.seq /\ d.at.part = k
  <2> TAKE c \in N
  <2> HAVE c.at.seq < n.at.seq
  <2>1. /\ c.at.seq + 1 \in SeqsOf(C)
        /\ \A k \in 0 .. PartsPerSegment - 1 :
             \E d \in C : d.at.seq = c.at.seq /\ d.at.part = k
    BY <1>4 DEF Solid, Gapless
  <2>2. \A d \in C : d.at.seq = c.at.seq \/ d.at.seq = c.at.seq + 1 => d \in N
    BY <1>2, <1>3
  <2> QED
    BY <2>1, <2>2 DEF SeqsOf
<1>10. \A c \in N : c.at.kind = "part" /\ c.at.part < PartsPerSegment
  BY DEF Solid
<1>11. /\ \A c \in N : c.at.seq \in Nat /\ c.at.part \in Nat
       /\ N \in SUBSET Commits
  BY Edge
<1>12. LastSeq(N) = n.at.seq /\ LastPart(N) = n.at.part
  <2>1. PICK c \in N : c.at.seq = LastSeq(N) /\ c.at.part = LastPart(N)
    BY <1>6, <1>11, LastPosition
  <2>2. /\ n.at.seq <= LastSeq(N)
        /\ n.at.seq = LastSeq(N) => n.at.part <= LastPart(N)
    BY <1>5, <1>6, <1>11, LastPosition
  <2> QED
    BY <1>5, <1>8, <1>11, <2>1, <2>2
<1> QED
  BY <1>4, <1>6, <1>7, <1>9, <1>10, <1>12 DEF Solid, Gapless

\* A window that is extended by the next part is one of consecutive parts.
LEMMA ExtendedIsSolid ==
  ASSUME NEW t, Tracks = {t}, NEW media \in SUBSET Commits, Solid(media),
         NEW n \in Commits, n.at.kind = "part", Follows(media, n.at)
  PROVE  LET C == media \cup {n}
         IN  /\ Solid(C)
             /\ LastSeq(C) = n.at.seq /\ LastPart(C) = n.at.part
<1> DEFINE C == media \cup {n}
<1>0. /\ n.at.seq \in Nat /\ n.at.part \in Nat /\ n.at.track = t
      /\ n.at.part < PartsPerSegment /\ PartsPerSegment \in Nat \ {0}
      /\ C \in SUBSET Commits /\ IsFiniteSet(C)
  BY PartNumbered, LoopAssumption, FS_AddElement
     DEF LoopAssumption, Commits, Follows, Solid
<1>1. /\ \A c \in C : c.at.seq \in Nat /\ c.at.part \in Nat /\ c.at.track = t
      /\ \A c \in C : c.at.kind = "part" /\ c.at.part < PartsPerSegment
  BY <1>0, PartNumbered DEF Solid, Commits
<1>2. CASE media = {}
  <2>1. n.at.part = 0
    BY <1>2 DEF Follows
  <2>2. C \subseteq Contiguous(C)
    BY <1>2, <2>1 DEF Contiguous
  <2>3. LastSeq(C) = n.at.seq /\ LastPart(C) = n.at.part
    BY <1>0, <1>2, LastPosition
  <2> QED
    BY <1>0, <1>1, <1>2, <2>2, <2>3 DEF Solid, Gapless
<1>3. CASE media # {}
  <2> DEFINE S == LastSeq(media)
             P == LastPart(media)
  <2>1. PICK l \in media : l.at.seq = S /\ l.at.part = P
    BY <1>3, Edge
  <2>2. /\ S \in Nat /\ P \in Nat /\ P < PartsPerSegment
        /\ \A c \in media : /\ c.at.seq <= S
                            /\ c.at.seq = S => c.at.part <= P
    BY <1>3, Edge
  <2>3. \/ n.at.seq = S /\ n.at.part = P + 1
        \/ n.at.seq = S + 1 /\ n.at.part = 0 /\ P + 1 = PartsPerSegment
    BY <1>3 DEF Follows
  <2> HIDE DEF S, P
  <2>4. \A p \in 0 .. P : \E d \in media :
          d.at.track = t /\ d.at.seq = S /\ d.at.part = p
    <3> TAKE p \in 0 .. P
    <3>1. CASE p = P
      BY <1>1, <2>1, <3>1
    <3>2. CASE p # P
      <4>1. p \in 0 .. l.at.part - 1
        BY <2>1, <2>2, <3>2
      <4>2. l \in Contiguous(media)
        BY <2>1 DEF Solid
      <4> QED
        BY <1>1, <2>1, <4>1, <4>2 DEF Contiguous
    <3> QED
      BY <3>1, <3>2
  <2>5. C \subseteq Contiguous(C)
    <3>1. media \subseteq Contiguous(C)
      BY ContiguousGrows DEF Solid
    <3>2. \A p \in 0 .. n.at.part - 1 : \E d \in C :
            d.at.track = t /\ d.at.seq = n.at.seq /\ d.at.part = p
      <4> TAKE p \in 0 .. n.at.part - 1
      <4>1. n.at.seq = S /\ p \in 0 .. P
        BY <1>0, <2>2, <2>3
      <4> QED
        BY <2>4, <4>1
    <3> QED
      BY <1>0, <3>1, <3>2 DEF Contiguous
  <2>6. \A c \in C : /\ c.at.seq <= n.at.seq
                     /\ c.at.seq = n.at.seq => c.at.part <= n.at.part
    BY <1>0, <1>1, <2>2, <2>3
  <2>7. LastSeq(C) = n.at.seq /\ LastPart(C) = n.at.part
    <3>1. PICK c \in C : c.at.seq = LastSeq(C) /\ c.at.part = LastPart(C)
      BY <1>0, LastPosition
    <3>2. /\ n.at.seq <= LastSeq(C)
          /\ n.at.seq = LastSeq(C) => n.at.part <= LastPart(C)
      BY <1>0, LastPosition
    <3>3. c.at.seq <= n.at.seq /\ (c.at.seq = n.at.seq => c.at.part <= n.at.part)
      BY <2>6
    <3> QED
      BY <1>1, <3>1, <3>2, <3>3
  <2>8. \A c \in C : c.at.seq < n.at.seq =>
          /\ c.at.seq + 1 \in SeqsOf(C)
          /\ \A k \in 0 .. PartsPerSegment - 1 :
               \E d \in C : d.at.seq = c.at.seq /\ d.at.part = k
    <3> TAKE c \in C
    <3> HAVE c.at.seq < n.at.seq
    <3>1. c \in media
      BY <1>0
    <3>2. CASE c.at.seq < S
      BY <3>1, <3>2 DEF Solid, Gapless, SeqsOf, S
    <3>3. CASE c.at.seq = S
      <4>1. n.at.seq = S + 1 /\ P + 1 = PartsPerSegment
        BY <2>2, <2>3, <3>3
      <4>2. c.at.seq + 1 \in SeqsOf(C)
        BY <3>3, <4>1 DEF SeqsOf
      <4>3. \A k \in 0 .. PartsPerSegment - 1 : k \in 0 .. P
        BY <1>0, <2>2, <4>1
      <4> QED
        BY <2>4, <3>3, <4>2, <4>3
    <3> QED
      BY <1>1, <2>2, <3>1, <3>2, <3>3
  <2> QED
    BY <1>0, <1>1, <2>5, <2>7, <2>8 DEF Solid, Gapless
<1> QED
  BY <1>2, <1>3

\* What was in reach is still in reach of a window with a part more.
LEMMA ReachExtends ==
  ASSUME NEW media \in SUBSET Commits, Solid(media),
         NEW next \in SUBSET Commits, Solid(next), next # {},
         NEW a \in Positions, a.kind = "part", Follows(media, a),
         LastSeq(next) = a.seq, LastPart(next) = a.part,
         NEW b \in Positions, Reach(media, b)
  PROVE  Reach(next, b)
<1>1. /\ PartsPerSegment \in Nat \ {0}
      /\ a.seq \in Nat /\ b.seq \in Nat /\ a.part \in Nat
      /\ b.kind = "part" => b.part \in Nat
  BY PartNumbered, LoopAssumption DEF LoopAssumption
<1>2. CASE media = {}
  BY <1>1, <1>2 DEF Reach, Follows
<1>3. CASE media # {}
  <2>1. LastSeq(media) \in Nat /\ LastPart(media) \in Nat
    BY <1>3, Edge
  <2> QED
    BY <1>1, <1>3, <2>1 DEF Reach, Follows
<1> QED
  BY <1>2, <1>3

----------------------------------------------------------------------------
(***************************************************************************)
(* The timeline of a session with one track.                               *)
(***************************************************************************)

\* What is recorded is the window, as soon as all of it can be shown.
LEMMA RecordIsWindow ==
  ASSUME NEW t, Tracks = {t}, WInv',
         NEW C \in SUBSET Commits, C \subseteq Contiguous(C),
         Shows(cursor'.media, C), commits' \subseteq C, cursor'.media # {}
  PROVE  commits' = cursor'.media
<1>1. cursor'.media \subseteq commits' /\ cursor'.media \in SUBSET Commits
  BY DEF WInv, IInv, WindowBacked, TypeOK, Cursors
<1>2. ASSUME NEW c \in commits' PROVE c \in cursor'.media
  <2>1. c.at.track = t /\ OnTrack(cursor'.media, c.at.track) # {}
    BY <1>1, OneTrack DEF Shows
  <2>2. PICK e \in OnTrack(cursor'.media, c.at.track) : e.at.seq <= c.at.seq
    BY <2>1 DEF WInv, IInv, NothingBehindWindow
  <2> QED
    BY <2>2 DEF Shows
<1> QED
  BY <1>1, <1>2

\* An accepted commit leaves a window of consecutive parts with everything
\* in reach of it that was.
LEMMA CommitKeepsTimeline ==
  ASSUME NEW t, Tracks = {t}, TimelineInv, WInv', WindowSizes # {},
         NEW s \in slots, NEW max \in WindowSizes, NEW time \in Times,
         NEW tol \in LateTolerances, CommitUpload(s, max, time, tol)
  PROVE  /\ commits' = cursor'.media /\ Solid(cursor'.media)
         /\ \A b \in Positions :
              Reach(cursor.media, b) => Reach(cursor'.media, b)
<1> DEFINE M == cursor.media
           N == cursor'.media
           C == RecordedMedia(s)
           n == CommitOf(s)
<1>1. /\ WInv /\ M \in SUBSET Commits /\ N \in SUBSET Commits
      /\ commits = M /\ Solid(M)
      /\ s.at \in Positions /\ n \in Commits /\ n.at = s.at
  BY DEF TimelineInv, LoopInv, WInv, IInv, TypeOK, Cursors, Slots, Commits,
         CommitOf
<1>2. s.state = "issued" /\ ~IsLateSlot(s.at, M)
  BY DEF CommitUpload, CommitHeld, CommitAdvances, CommitAccepted
<1>3. /\ C \in SUBSET Commits /\ IsFiniteSet(C) /\ commits' \subseteq C
  BY <1>1, <1>2, RecordedFinite
     DEF CommitUpload, CommitHeld, CommitAdvances, PrunedCommits
<1>4. CASE s.at.kind = "init"
  <2>1. C = M
    BY <1>1, <1>4 DEF RecordedMedia
  <2>2. CASE CommitHeld(s, max, time, tol)
    BY <1>1, <2>1, <2>2 DEF CommitHeld
  <2>3. CASE CommitAdvances(s, max, time, tol)
    <3>1. N # {} /\ Shows(N, M) /\ N \subseteq M
      BY <1>1, <2>1, <2>3, AdvancesOnto, VisibleAreRecorded
    <3>2. /\ Solid(N)
          /\ LastSeq(N) = LastSeq(M) /\ LastPart(N) = LastPart(M)
      BY <1>1, <3>1, ShownIsSolid
    <3>3. commits' = N
      BY <1>1, <1>3, <2>1, <3>1, RecordIsWindow DEF Solid
    <3>4. \A b \in Positions : Reach(M, b) => Reach(N, b)
      BY <3>1, <3>2 DEF Reach
    <3> QED
      BY <3>2, <3>3, <3>4
  <2> QED
    BY <2>2, <2>3 DEF CommitUpload
<1>5. CASE s.at.kind # "init"
  <2>1. C = M \cup {n}
    BY <1>1, <1>5 DEF RecordedMedia
  <2>2. s.at.kind = "part"
    BY <1>1, <1>5, PartNumbered DEF TimelineInv, Reach
  <2>3. Follows(M, s.at)
    BY <1>1, <1>2, <2>2, NextInReach DEF TimelineInv
  <2>4. Solid(C) /\ LastSeq(C) = s.at.seq /\ LastPart(C) = s.at.part
    BY <1>1, <2>1, <2>2, <2>3, ExtendedIsSolid
  <2>5. CASE CommitHeld(s, max, time, tol)
    <3>1. commits' = C /\ VisibleMedia(C, max) = {}
      BY <2>5 DEF CommitHeld
    <3>2. n \in Contiguous(C)
      BY <2>1, <2>4 DEF Solid
    <3>3. OnTrack(VisibleMedia(C, max), n.at.track) # {}
      BY <1>3, <3>2, WindowShows, WindowSizesPositive DEF Shows
    <3> QED
      BY <3>1, <3>3 DEF OnTrack
  <2>6. CASE CommitAdvances(s, max, time, tol)
    <3>1. N # {} /\ Shows(N, C) /\ N \subseteq C
      BY <1>1, <2>6, AdvancesOnto, VisibleAreRecorded
    <3>2. /\ Solid(N)
          /\ LastSeq(N) = s.at.seq /\ LastPart(N) = s.at.part
      BY <1>3, <2>4, <3>1, ShownIsSolid
    <3>3. commits' = N
      BY <1>1, <1>3, <2>4, <3>1, RecordIsWindow DEF Solid
    <3>4. \A b \in Positions : Reach(M, b) => Reach(N, b)
      BY <1>1, <2>2, <2>3, <3>1, <3>2, ReachExtends
    <3> QED
      BY <3>2, <3>3, <3>4
  <2> QED
    BY <2>5, <2>6 DEF CommitUpload
<1> QED
  BY <1>4, <1>5

\* The slots of a session keep their positions.
LEMMA CommitKeepsPositions ==
  ASSUME LoopInv, NEW s \in slots, NEW max, NEW t, NEW tol,
         CommitUpload(s, max, t, tol)
  PROVE  \A r \in slots' : \E q \in slots : r.at = q.at
<1>1. slots' \subseteq MarkCommitted(s)
  BY DEF CommitUpload, CommitHeld, CommitAdvances, PrunedSlots
<1>2. [s EXCEPT !.state = "committed"].at = s.at
  BY DEF LoopInv, WInv, IInv, TypeOK, Slots
<1> QED
  BY <1>1, <1>2 DEF MarkCommitted

\* What is planned from a window is in its reach.
LEMMA PlansInReach ==
  ASSUME TimelineInv, NEW t, NEW b \in BOOLEAN, NextPosition(t, b) \in Positions
  PROVE  Reach(cursor.media, NextPosition(t, b))
<1> DEFINE M == cursor.media
<1>0. PartsPerSegment \in Nat \ {0} /\ M \in SUBSET Commits /\ Solid(M)
  BY LoopAssumption
     DEF LoopAssumption, TimelineInv, LoopInv, WInv, IInv, TypeOK, Cursors
<1>1. CASE ~b
  BY <1>1 DEF NextPosition, Reach
<1>2. CASE b /\ M = {}
  BY <1>2 DEF NextPosition, NextPart, Reach
<1>3. CASE b /\ M # {}
  <2>1. /\ LastSeq(M) \in Nat /\ LastPart(M) \in Nat
        /\ LastPart(M) < PartsPerSegment
    BY <1>0, <1>3, Edge
  <2>2. LastPart(M) # NoPart
    BY <2>1 DEF NoPart
  <2>3. CASE RollsOver(LastPart(M) + 1)
    <3>1. LastPart(M) + 1 = PartsPerSegment
      BY <1>0, <2>1, <2>3 DEF RollsOver
    <3>2. /\ NextPosition(t, b).kind = "part"
          /\ NextPosition(t, b).seq = LastSeq(M) + 1
          /\ NextPosition(t, b).part = 0
      BY <1>3, <2>3 DEF NextPosition, NextPart
    <3> QED
      BY <1>3, <3>1, <3>2 DEF Reach
  <2>4. CASE ~RollsOver(LastPart(M) + 1)
    <3>1. LastPart(M) + 1 < PartsPerSegment
      BY <1>0, <2>1, <2>4 DEF RollsOver
    <3>2. /\ NextPosition(t, b).kind = "part"
          /\ NextPosition(t, b).seq = LastSeq(M)
          /\ NextPosition(t, b).part = LastPart(M) + 1
      BY <1>3, <2>2, <2>4 DEF NextPosition, NextPart
    <3>3. LastPart(M) + 1 <= LastPart(M) + 1
      BY <2>1
    <3> QED
      BY <1>3, <3>1, <3>2, <3>3 DEF Reach
  <2> QED
    BY <2>3, <2>4
<1> QED
  BY <1>1, <1>2, <1>3

\* What publishers know of, from plans to slots, stays in reach when all that
\* was in reach does.
LEMMA KnownStaysInReach ==
  ASSUME TimelineInv, [LoopNext]_loopvars,
         \A b \in Positions :
           Reach(cursor.media, b) => Reach(cursor'.media, b)
  PROVE  /\ \A p \in Publishers :
              phase'[p] # "idle" => Reach(cursor'.media, plan'[p])
         /\ late' # NoCall => Reach(cursor'.media, late'.at)
<1> DEFINE In(b) == Reach(cursor'.media, b)
           Plans == \A p \in Publishers : phase'[p] # "idle" => In(plan'[p])
           Late == late' # NoCall => In(late'.at)
<1>0. /\ LoopInv
      /\ \A p \in Publishers : phase[p] # "idle" => In(plan[p])
      /\ late # NoCall => In(late.at)
      /\ phase \in [Publishers -> {"idle", "heartbeat", "issue", "commit"}]
      /\ plan \in [Publishers -> Positions \cup {NoPlan}]
  <2>1. \A p \in Publishers : phase[p] # "idle" => plan[p] \in Positions
    BY DEF TimelineInv, LoopInv, PlansHeld
  <2>2. late # NoCall => late.at \in Positions
    BY DEF TimelineInv, LoopInv, LoopTypeOK, Calls
  <2> QED
    BY <2>1, <2>2 DEF TimelineInv, LoopInv, LoopTypeOK
<1>1. ASSUME NEW p \in Publishers, Over(p) PROVE Plans
  BY <1>0, <1>1 DEF Over
<1>2. ASSUME NEW p \in Publishers, Calling(p), Failed(p) PROVE Plans
  BY <1>0, <1>1, <1>2 DEF Failed, Calling
<1>3. ASSUME NEW p \in Publishers, Calling(p), Passed(p) PROVE Plans
  BY <1>0, <1>1, <1>3 DEF Passed, Calling
<1>4. ASSUME UNCHANGED <<phase, plan>> PROVE Plans
  BY <1>0, <1>4
<1>5. ASSUME UNCHANGED late PROVE Late
  BY <1>0, <1>5
<1>6. ASSUME NEW p \in Publishers, Calling(p), late' = CallOf(p) PROVE Late
  BY <1>0, <1>6, CallTyped DEF Calling, LoopInv
<1>7. ASSUME NEW p \in Publishers, NEW t \in Tracks, NEW b \in BOOLEAN,
             Plan(p, t, b)
      PROVE  Plans /\ Late
  <2>1. NextPosition(t, b) \in Positions
    BY <1>7 DEF Plan
  <2>2. In(NextPosition(t, b))
    BY <2>1, PlansInReach
  <2> QED
    BY <1>0, <1>5, <1>7, <2>2 DEF Plan
<1>8. ASSUME NEW p \in Publishers, Calling(p), NEW now, NEW tol,
             Called(p, now, tol)
      PROVE  Plans /\ Late
  BY <1>2, <1>3, <1>5, <1>8 DEF Called
<1>9. ASSUME NEW p \in Publishers, CallFails(p) \/ Crash(p)
      PROVE  Plans /\ Late
  BY <1>1, <1>2, <1>5, <1>6, <1>9 DEF CallFails, Crash
<1>10. ASSUME NEW now, NEW tol, ServeLate(now, tol) PROVE Plans /\ Late
  BY <1>4, <1>10 DEF ServeLate
<1>11. CASE Meanwhile \/ Tick \/ UNCHANGED loopvars
  BY <1>4, <1>5, <1>11 DEF Meanwhile, Tick, loopvars, loop
<1> HIDE DEF Plans, Late
<1> QED
  BY <1>7, <1>8, <1>9, <1>10, <1>11 DEF LoopNext, Plans, Late

LEMMA TimelineNextInv ==
  ASSUME NEW t, Tracks = {t}, TimelineInv, [LoopNext]_loopvars
  PROVE  TimelineInv'
<1> DEFINE Stays == \A b \in Positions :
                      Reach(cursor.media, b) => Reach(cursor'.media, b)
           Goal == /\ commits' = cursor'.media /\ Solid(cursor'.media)
                   /\ Stays
                   /\ \A s \in slots' : Reach(cursor'.media, s.at)
<1>1. LoopInv /\ LoopInv' /\ WInv' /\ TypeOK
  BY LoopNextInv DEF TimelineInv, LoopInv, WInv, IInv
<1>2. \A s \in slots : s.at \in Positions
  BY <1>1 DEF TypeOK, Slots
<1>3. ASSUME UNCHANGED vars PROVE Goal
  BY <1>3 DEF TimelineInv, vars
<1>4. ASSUME Meanwhile PROVE Goal
  <2>1. slots' \subseteq slots /\ cursor'.media = cursor.media
    BY <1>1, <1>4 DEF Meanwhile, ApplyRetention, TransitionSession,
                      PrunedSlots, TransitionedCursor, TypeOK, Cursors
  <2>2. commits' \subseteq commits
    BY <1>4 DEF Meanwhile, ApplyRetention, TransitionSession, PrunedCommits
  <2>3. cursor'.media \subseteq commits'
    BY <1>1 DEF WInv, IInv, WindowBacked
  <2> QED
    BY <2>1, <2>2, <2>3 DEF TimelineInv
<1>5. ASSUME NEW c \in Calls, NEW now \in Nat, NEW tol \in LateTolerances,
             Effect(c, now, tol, Outcome(c, now, tol)),
             Reach(cursor.media, c.at)
      PROVE  Goal
  <2>1. ASSUME NEW time \in Times, IssueSlot(SlotIdOf(c.at), c.at, time)
        PROVE  Goal
    BY <1>5, <2>1 DEF IssueSlot, TimelineInv
  <2>2. ASSUME NEW s \in slots, NEW max \in WindowSizes, NEW time \in Times,
               CommitUpload(s, max, time, tol)
        PROVE  Goal
    <3>1. /\ commits' = cursor'.media /\ Solid(cursor'.media)
          /\ Stays
      BY <1>1, <2>2, CommitKeepsTimeline
    <3>2. \A r \in slots' : \E q \in slots : r.at = q.at
      BY <1>1, <2>2, CommitKeepsPositions
    <3> QED
      BY <1>2, <3>1, <3>2 DEF TimelineInv
  <2> QED
    BY <1>1, <1>3, <1>5, <2>1, <2>2, EffectOf DEF LoopInv
<1>6. ASSUME ~ UNCHANGED vars, ~ Meanwhile
      PROVE  \E c \in Calls, now \in Nat, tol \in LateTolerances :
               /\ Effect(c, now, tol, Outcome(c, now, tol))
               /\ Reach(cursor.media, c.at)
  <2>1. PICK c \in Calls, now \in Nat, tol \in LateTolerances :
          c \in Pending /\ Effect(c, now, tol, Outcome(c, now, tol))
    BY <1>1, <1>6, LoopStep
  <2>2. CASE late # NoCall /\ c = late
    BY <2>1, <2>2 DEF TimelineInv
  <2>3. ASSUME NEW p \in Publishers, Calling(p), c = CallOf(p)
        PROVE  Reach(cursor.media, c.at)
    BY <2>3, CallTyped DEF TimelineInv, LoopInv, Calling
  <2> QED
    BY <2>1, <2>2, <2>3 DEF Pending
<1>7. Goal
  BY <1>3, <1>4, <1>5, <1>6
<1> QED
  BY <1>1, <1>7, KnownStaysInReach DEF TimelineInv

LEMMA TimelineInit == LoopInit => TimelineInv
<1> SUFFICES ASSUME LoopInit PROVE TimelineInv
  OBVIOUS
<1>1. LoopInv
  BY InitLoopInv
<1>2. Solid({})
  BY FS_EmptySet DEF Solid, Gapless
<1> QED
  BY <1>1, <1>2 DEF TimelineInv, LoopInit, Init, NoCursor

\* On a session with one track, publishers that fail over to each other, lose
\* answers and are served late leave no hole in the timeline: no position is
\* ever planned, sent or issued that is further than the next part, and what
\* lies before the edge is refused.
THEOREM TimelineAlwaysGapless ==
  ASSUME NEW t, Tracks = {t}
  PROVE  LoopSpec => []TimelineGapless
<1>1. TimelineInv /\ [LoopNext]_loopvars => TimelineInv'
  BY TimelineNextInv
<1>2. TimelineInv => TimelineGapless
  BY DEF TimelineInv, Solid, Gapless, TimelineGapless
<1> QED
  BY <1>1, <1>2, TimelineInit, PTL DEF LoopSpec

=============================================================================
