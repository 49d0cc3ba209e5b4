--------------------------- MODULE PublisherLoop ---------------------------
(***************************************************************************)
(* Publishers of one session, each running the upload step again and again *)
(* against the HTTP surface: plan the next object from the cursor, send a  *)
(* heartbeat, issue the slot, upload, commit, and decide what comes next   *)
(* (src/olos/src/runtime/publisher*.ts).  A standby runs next to the       *)
(* primary, plans the same positions and derives the same ids.             *)
(*                                                                         *)
(* A call may fail before or after the server has served it, and may also  *)
(* be served when its publisher has long given it up.  An answer that      *)
(* arrives late is a publisher that is slow, so an answer arrives in the   *)
(* step that serves its call, or never.                                    *)
(***************************************************************************)
EXTENDS Coordinator, PublisherLease, HttpMessages

CONSTANTS
  SessionId,        \* the session's id
  PartsPerSegment,  \* partsPerSegment
  StartSeq,         \* startSequenceNumber
  Heartbeating,     \* the publishers that were given a heartbeat callback
  MaxSegments,      \* per publisher: maxSegments of its commits
  ObjectTtl,        \* what an expiry adds to the clock of the plan
  MaxAttempts,      \* per publisher: maxAttempts of its loop
  Skews,            \* how far the clock of a server may lag
  MaxClock,         \* bound: the last tick
  MaxFaults,        \* bound: calls and answers that are lost or late, crashes
  Closings,         \* session states that the session is moved to
  NoPlan, NoCall,   \* a publisher without a plan; no late call
  NoContent         \* a slot without a commit

ASSUME LoopAssumption ==
  /\ SessionId \in SafeIds
  /\ PartsPerSegment \in Nat \ {0}
  /\ StartSeq \in Nat
  /\ Heartbeating \subseteq Publishers
  /\ MaxSegments \in [Publishers -> WindowSizes]
  /\ ObjectTtl \in Nat \ {0}
  /\ MaxAttempts \in [Publishers -> Nat \ {0}]
  /\ Skews \subseteq Nat
  /\ MaxClock \in Nat
  /\ 0 .. MaxClock + ObjectTtl \subseteq Times
  /\ MaxFaults \in Nat
  /\ Closings \subseteq SessionStates
  /\ NoContent \notin Publishers

VARIABLES
  clock,      \* the time
  faults,     \* what has gone wrong so far
  phase,      \* per publisher: the phase of its step
  plan,       \* per publisher: the position it publishes next
  planned,    \* per publisher: the clock when it planned, its committedAt
  attempt,    \* per publisher: the attempts that have failed so far
  late,       \* a call that was given up and may still be served
  content,    \* per slot id: whose object its commit records
  confirmed   \* the objects a publisher was told are published, as long as
              \* the window has not moved past them

loop == <<phase, plan, planned, attempt, late>>
loopvars == <<vars, leases, clock, faults, loop, content, confirmed>>

\* createObjectId: the ids of slots and commits are derived from positions.
SlotIdOf(a) == IF a.kind = "init" THEN [a EXCEPT !.seq = 0] ELSE a

Calls ==
  [from : Publishers, op : {"heartbeat", "slots", "commits"},
   at : Positions, time : 0 .. MaxClock]

\* Every position has an id, and there being no plan or call is neither.
ASSUME NamesAssumption ==
  /\ \A a \in Positions : SlotIdOf(a) \in SlotIds
  /\ NoPlan \notin Positions
  /\ NoCall \notin Calls

LoopInit ==
  /\ Init
  /\ LeaseInit
  /\ clock = 0
  /\ faults = 0
  /\ phase = [p \in Publishers |-> "idle"]
  /\ plan = [p \in Publishers |-> NoPlan]
  /\ planned = [p \in Publishers |-> 0]
  /\ attempt = [p \in Publishers |-> 0]
  /\ late = NoCall
  /\ content = [id \in SlotIds |-> NoContent]
  /\ confirmed = {}

----------------------------------------------------------------------------
(***************************************************************************)
(* Planning.                                                               *)
(***************************************************************************)

\* A step begins with the heartbeat, where there is one.
FirstPhase(p) == IF p \in Heartbeating THEN "heartbeat" ELSE "issue"

\* Fault: the next segment starts one part early.
RollsOverEarly(part) == part + 1 >= PartsPerSegment

RollsOver(part) == part >= PartsPerSegment

\* nextPartPosition: after the cursor of the whole session, whatever the
\* track.  A window that ends in a full segment names no part.
NextPart(t) ==
  LET media == cursor.media
      Part(n, k) == [track |-> t, kind |-> "part", seq |-> n, part |-> k]
  IN  IF media = {} THEN Part(StartSeq, 0)
      ELSE IF LastPart(media) = NoPart \/ RollsOver(LastPart(media) + 1)
      THEN Part(LastSeq(media) + 1, 0)
      ELSE Part(LastSeq(media), LastPart(media) + 1)

\* resolveRuntimePublisherNextObjectPosition, in part mode.
NextPosition(t, initPublished) ==
  IF initPublished THEN NextPart(t)
  ELSE [track |-> t, kind |-> "init", seq |-> 0, part |-> NoPart]

\* Whether the init object is out already is for the publisher to know.  Nobody
\* starts a step in a session that was aborted, where no call saves anything.
Plan(p, t, initPublished) ==
  LET next == NextPosition(t, initPublished)
  IN  /\ phase[p] = "idle"
      /\ session # "aborted"
      /\ next \in Positions
      /\ plan' = [plan EXCEPT ![p] = next]
      /\ planned' = [planned EXCEPT ![p] = clock]
      /\ attempt' = [attempt EXCEPT ![p] = 0]
      /\ phase' = [phase EXCEPT ![p] = FirstPhase(p)]
      /\ UNCHANGED <<vars, leases, clock, faults, late, content, confirmed>>

\* The call that the phase of p makes.
CallOf(p) ==
  [from |-> p,
   op   |-> CASE phase[p] = "heartbeat" -> "heartbeat"
              [] phase[p] = "issue"     -> "slots"
              [] phase[p] = "commit"    -> "commits",
   at   |-> plan[p],
   time |-> planned[p]]

Calling(p) == phase[p] # "idle"

\* Only heartbeats take the server's clock; slots and commits carry the times
\* of their publisher.
ServerClocks(op) ==
  IF op = "heartbeat" THEN {clock - skew : skew \in Skews} \cap Nat ELSE {clock}

Fault == faults < MaxFaults /\ faults' = faults + 1

----------------------------------------------------------------------------
(***************************************************************************)
(* The server: what a call of p does, and what comes of it.                *)
(***************************************************************************)

\* Ids and positions must be free; whoever sent the call may well be the one
\* who holds them.
SlotRefused(a) ==
  \/ session # "live"
  \/ \E s \in slots : s.id = SlotIdOf(a)
  \/ PositionTaken(a)

\* Fault: any repetition of a commit is taken for a retry.
AnyContent(p, id) == TRUE

\* A repeated commit is the same when it names the same object.
SameContent(p, id) == content[id] = p

\* What the code would refuse or could not build a window of.
Uncommittable(s, now, tolerance) ==
  \/ ~CommitAccepted(s, now, tolerance)
  \/ /\ RecordedMedia(s) # {}
     /\ ~Distinct(RecordedMedia(s), RecordedInits(s))

CommitOutcome(p, s, committedAt, tolerance) ==
  CASE s.state = "revoked" -> "rejected"
    [] s.state = "committed" ->
         IF SameContent(p, s.id) THEN "idempotent" ELSE "conflict"
    [] s.state = "issued" ->
         IF Uncommittable(s, committedAt, tolerance)
         THEN "rejected" ELSE "committed"

\* How the handler of call c ends, by a server clocked now.
Outcome(c, now, tolerance) ==
  LET known == {s \in slots : s.id = SlotIdOf(c.at)}
  IN  CASE c.op = "heartbeat" ->
             IF HeartbeatTaken(c.from, now, session)
             THEN "refreshed" ELSE "rejected"
        [] c.op = "slots"   -> IF SlotRefused(c.at) THEN "invalid" ELSE "issued"
        [] c.op = "commits" ->
             IF known = {} THEN "unknown_slot"
             ELSE CommitOutcome(c.from, CHOOSE s \in known : TRUE,
                                c.time, tolerance)

\* What a commit records is gone with it.
Recorded(f) ==
  [id \in SlotIds |-> IF \E c \in commits' \cup initCommits' : c.slot = id
                      THEN f[id] ELSE NoContent]

\* What the handler does when it ends so.
Effect(c, now, tolerance, outcome) ==
  \/ /\ outcome = "refreshed"
     /\ Heartbeat(c.from, now, session)
     /\ UNCHANGED <<vars, content>>
  \/ /\ outcome = "issued"
     /\ IssueSlot(SlotIdOf(c.at), c.at, c.time + ObjectTtl)
     /\ UNCHANGED <<leases, content>>
  \/ /\ outcome = "committed"
     /\ \E s \in slots :
          /\ s.id = SlotIdOf(c.at)
          /\ CommitUpload(s, MaxSegments[c.from], c.time, tolerance)
     /\ content' = Recorded([content EXCEPT ![SlotIdOf(c.at)] = c.from])
     /\ UNCHANGED leases
  \/ /\ outcome \notin {"refreshed", "issued", "committed"}
     /\ UNCHANGED <<vars, leases, content>>

\* The options of a plan for an object of the given kind.
PlanOptions(kind) ==
  With([contentType |-> "text", expiresAt |-> "time", kind |-> kind,
        maxBytes |-> "positive", sequenceNumber |-> "zero", trackId |-> "id",
        objectKeyNonce |-> "id"],
       IF kind = "part" THEN [partNumber |-> "zero"] ELSE NoFields)

\* What is observed of an uploaded object.
Observed == [contentType |-> "text", objectKey |-> "path",
             observedAt |-> "time", providerId |-> "id", size |-> "positive"]

\* The handler can read what a call says.
Read(op, kind) ==
  CASE op = "heartbeat" -> Reads(HeartbeatReader, [publisherInstanceId |-> "id"])
    [] op = "slots"     -> ReadsSlot(PlannedSlot(PlanOptions(kind)))
    [] op = "commits"   -> ReadsCommit(PlannedCommit([committedAt |-> "time"]),
                                       Observed)

\* The calls that reach the handler of their operation and are read there.
Understood ==
  {ok \in {"heartbeat", "slots", "commits"} \X ObjectNames :
     /\ Route(ClientRequest(ok[1], SessionId, ok[2])) = ok[1]
     /\ Read(ok[1], ok[2])}

Reached(c) == <<c.op, c.at.kind>> \in Understood

----------------------------------------------------------------------------
(***************************************************************************)
(* The step and the loop.                                                  *)
(***************************************************************************)

\* The publisher has no step under way and no memory of the last one.
Over(p) ==
  /\ phase' = [phase EXCEPT ![p] = "idle"]
  /\ plan' = [plan EXCEPT ![p] = NoPlan]
  /\ planned' = [planned EXCEPT ![p] = 0]
  /\ attempt' = [attempt EXCEPT ![p] = 0]

\* resolveRuntimePublisherLoopDecision: a failed step is run again from its
\* start, with the same plan, while attempts are left.  A loop that stops is
\* started again by whoever runs it.
Failed(p) ==
  \/ /\ attempt[p] + 1 < MaxAttempts[p]
     /\ phase' = [phase EXCEPT ![p] = FirstPhase(p)]
     /\ attempt' = [attempt EXCEPT ![p] = @ + 1]
     /\ UNCHANGED <<plan, planned>>
  \/ /\ attempt[p] + 1 >= MaxAttempts[p]
     /\ Over(p)

\* The window of its track has moved past position a.
MovedPast(a) == \E c \in OnTrack(cursor'.media, a.track) : a.seq < c.at.seq

\* The publisher goes on only with an answer that the client lets pass.
Passed(p) ==
  \/ /\ phase[p] \in {"heartbeat", "issue"}
     /\ phase' = [phase EXCEPT ![p] =
          IF @ = "heartbeat" THEN "issue" ELSE "commit"]
     /\ UNCHANGED <<plan, planned, attempt, confirmed>>
  \/ /\ phase[p] = "commit"
     /\ Over(p)
     /\ confirmed' = {ap \in confirmed \cup {<<plan[p], p>>} : ~MovedPast(ap[1])}

\* The call is served, and its answer arrives or is lost.
Called(p, now, tolerance) ==
  LET outcome == Outcome(CallOf(p), now, tolerance)
  IN  /\ Reached(CallOf(p))
      /\ Effect(CallOf(p), now, tolerance, outcome)
      /\ \/ /\ Ok(Status(outcome))
            /\ Passed(p)
            /\ UNCHANGED faults
         \/ /\ ~Ok(Status(outcome))
            /\ Failed(p)
            /\ UNCHANGED <<faults, confirmed>>
         \/ /\ Fault
            /\ Failed(p)
            /\ UNCHANGED confirmed
      /\ UNCHANGED <<clock, late>>

\* The call fails and is never served, or only later: one of those is kept.
\* The upload to the object store is part of what can fail before a commit.
CallFails(p) ==
  /\ Calling(p)
  /\ Fault
  /\ Failed(p)
  /\ \/ UNCHANGED late
     \/ late = NoCall /\ late' = CallOf(p)
  /\ UNCHANGED <<vars, leases, clock, content, confirmed>>

\* A call that was given up is served after all.
ServeLate(now, tolerance) ==
  /\ Reached(late)
  /\ Effect(late, now, tolerance, Outcome(late, now, tolerance))
  /\ late' = NoCall
  /\ UNCHANGED <<clock, faults, phase, plan, planned, attempt, confirmed>>

\* A publisher dies at any point, a call of it still under way, and is
\* started again.
Crash(p) ==
  /\ Calling(p)
  /\ Fault
  /\ Over(p)
  /\ \/ UNCHANGED late
     \/ late = NoCall /\ late' = CallOf(p)
  /\ UNCHANGED <<vars, leases, clock, content, confirmed>>

\* What else happens to the session meanwhile.  An operator who revokes a
\* slot ends the use of its position for good, as slots are never unrevoked.
Meanwhile ==
  /\ \/ \E tol \in LateTolerances : ApplyRetention(clock, tol)
     \/ \E next \in Closings : TransitionSession(next)
  /\ content' = Recorded(content)
  /\ UNCHANGED <<leases, clock, faults, loop, confirmed>>

Tick ==
  /\ clock < MaxClock
  /\ clock' = clock + 1
  /\ UNCHANGED <<vars, leases, faults, loop, content, confirmed>>

LoopNext ==
  \/ \E p \in Publishers :
       \/ \E t \in Tracks, initPublished \in BOOLEAN : Plan(p, t, initPublished)
       \/ /\ Calling(p)
          /\ \E now \in ServerClocks(CallOf(p).op), tol \in LateTolerances :
               Called(p, now, tol)
       \/ CallFails(p)
       \/ Crash(p)
  \/ /\ late # NoCall
     /\ \E now \in ServerClocks(late.op), tol \in LateTolerances :
          ServeLate(now, tol)
  \/ Meanwhile
  \/ Tick

LoopSpec == LoopInit /\ [][LoopNext]_loopvars

----------------------------------------------------------------------------
(***************************************************************************)
(* Properties.                                                             *)
(***************************************************************************)

\* The types of what the publishers add to the pipeline.
LoopTypeOK ==
  /\ TypeOK
  /\ leases \in Seq(Leases)
  /\ clock \in 0 .. MaxClock
  /\ faults \in 0 .. MaxFaults
  /\ phase \in [Publishers ->
       {"idle", "heartbeat", "issue", "commit"}]
  /\ plan \in [Publishers -> Positions \cup {NoPlan}]
  /\ planned \in [Publishers -> 0 .. MaxClock]
  /\ \A p \in Publishers : attempt[p] \in 0 .. MaxAttempts[p] - 1
  /\ late \in Calls \cup {NoCall}
  /\ content \in [SlotIds -> Publishers \cup {NoContent}]
  /\ confirmed \subseteq Positions \X Publishers

\* Publishers that fail over to each other, lose answers and are served late
\* leave no hole in the timeline: the window shows consecutive segments, and
\* all but the last one with every part.
TimelineGapless ==
  \A c \in cursor.media : c.at.seq < LastSeq(cursor.media) =>
    /\ c.at.seq + 1 \in SeqsOf(cursor.media)
    /\ \A k \in 0 .. PartsPerSegment - 1 :
         \E d \in cursor.media : d.at.seq = c.at.seq /\ d.at.part = k

\* An object that its publisher was told is published is recorded as that
\* publisher uploaded it until the window has moved past it: a retry that
\* finds the slot committed by somebody else, and a late call under an id that
\* is in use again, are never taken for its own.
ConfirmedStaysPublished ==
  \A ap \in confirmed :
    LET a == ap[1]
    IN  \/ content[SlotIdOf(a)] = ap[2]
        \/ \E c \in cursor.media : c.at.track = a.track /\ a.seq < c.at.seq

=============================================================================
