-------------------------- MODULE ByterangeStream --------------------------
(***************************************************************************)
(* One response to a Range request against a virtual segment               *)
(* (src/olos/src/s3/byterange-*.ts).  The segment is the concatenation of  *)
(* part objects; the drain streams the parts the committed window shows    *)
(* and, past them, waits on the cursor for the next commit.  Three         *)
(* parties interleave with it at every await: the session, whose cursor    *)
(* moves on, most often for another segment or track than this one; S3,    *)
(* which answers short, long, late or not at all; and the viewer, who      *)
(* reads slowly, cancels the body or disconnects.                          *)
(*                                                                         *)
(* Cursors are numbered as the session publishes them.  Of the window of   *)
(* one only the parts of this segment matter, and of bytes their number.   *)
(***************************************************************************)
EXTENDS Integers, Sequences, FiniteSetsExt

CONSTANTS
  Layout,       \* the byteranges of the segment's parts, [offset, length]
  Starts,       \* first bytes requests ask for
  Ends,         \* last bytes requests ask for; Open when they name none
  Open,         \* no last byte, below every start
  VeryLarge,    \* OPEN_ENDED_LAST_BYTE_POS
  ChunkSizes,   \* lengths of the chunks a part body may arrive in
  StoreLag,     \* how many versions a load of the store may be behind
  MaxVersions   \* bound: cursors the session publishes

ASSUME ByterangeAssumption ==
  /\ Layout \in Seq([offset : Nat, length : Nat \ {0}])
  /\ Starts \subseteq Int
  /\ Open \in Int /\ Open < 0
  /\ Ends \subseteq Int
  /\ VeryLarge \in Nat
  /\ ChunkSizes \subseteq Nat \ {0}
  /\ StoreLag \in Nat
  /\ MaxVersions \in Nat

VARIABLES
  published,  \* the session's cursor version; 0 before the first commit
  windows,    \* the parts in the windows that a load may still return
  trimmed,    \* how many parts the window has moved past
  request,    \* the normalized range, and whether a cursorWait was given
  status,     \* the response's status; 0 before it
  pc,         \* where the drain is suspended
  position,   \* ByterangeStreamState.position
  cursor,     \* ByterangeStreamState.cursor, as its version
  parts,      \* ByterangeStreamState.parts, as indices of Layout
  advanced,   \* the cursor waitForNextPart resolved with
  part,       \* the part being streamed
  written,    \* bytes of it enqueued so far
  queued,     \* chunks in the stream's queue
  sent,       \* bytes enqueued so far
  pending,    \* DemandSignal: a wake nobody was parked for
  aborted,    \* the linked signal
  body        \* "open", "closed", "errored" or "cancelled"

vars == <<published, windows, trimmed, request, status, pc, position, cursor,
          parts, advanced, part, written, queued, sent, pending, aborted, body>>

session == <<published, windows, trimmed>>
fetch == <<part, written>>
stream == <<queued, sent, pending>>
place == <<position, cursor, parts, advanced>>

----------------------------------------------------------------------------
(***************************************************************************)
(* The window and the parts in it.                                         *)
(***************************************************************************)

\* What a load of the store may return: it can lag the notifier.
StoredVersions == {v \in 0 .. published : published - v <= StoreLag}

Covers(p, at) ==
  /\ Layout[p].offset <= at
  /\ at < Layout[p].offset + Layout[p].length

\* The first part, in offset order, that contains byte at.
NextPartCovering(at) ==
  {p \in parts : /\ Covers(p, at)
                 /\ \A q \in parts : Covers(q, at) =>
                      Layout[p].offset <= Layout[q].offset}

Bounded == request.end # Open

\* The length of the slice of part p that the response still wants.
LengthInPart(p) ==
  LET last == Layout[p].length - 1
      wanted == request.end - Layout[p].offset
      end == IF Bounded /\ wanted < last THEN wanted ELSE last
  IN  end - (position - Layout[p].offset) + 1

----------------------------------------------------------------------------
(***************************************************************************)
(* How a drain ends.                                                       *)
(***************************************************************************)

\* An error surfaces on the stream unless the viewer is gone; what is still
\* queued is lost with it.
Throw ==
  /\ pc' = "done"
  /\ IF aborted
     THEN UNCHANGED <<body, stream>>
     ELSE /\ body' = "errored"
          /\ queued' = 0
          /\ UNCHANGED <<sent, pending>>
  /\ UNCHANGED <<place, fetch>>

\* close() throws on a cancelled stream, and that error is swallowed.
Return ==
  /\ pc' = "done"
  /\ body' = IF body = "open" THEN "closed" ELSE body
  /\ UNCHANGED <<place, fetch, stream>>

\* Fault: running out of parts ends every response cleanly.
StopShort == Return

\* No new bytes will come.  A bounded response promised a length.
Stop ==
  IF Bounded /\ position <= request.end THEN Throw ELSE Return

----------------------------------------------------------------------------
(***************************************************************************)
(* The request.                                                            *)
(***************************************************************************)

Init ==
  /\ published = 0 /\ windows = [v \in {0} |-> {}] /\ trimmed = 0
  /\ request = [start |-> 0, end |-> Open, waits |-> FALSE]
  /\ status = 0
  /\ pc = "idle"
  /\ position = 0 /\ cursor = 0 /\ parts = {} /\ advanced = 0
  /\ part = 0 /\ written = 0
  /\ queued = 0 /\ sent = 0 /\ pending = FALSE
  /\ aborted = FALSE
  /\ body = "open"

NormalizedEnd(end) == IF end >= VeryLarge THEN Open ELSE end

Unsatisfiable(start, end) == start < 0 \/ (end # Open /\ end < start)

\* 416 for a range nothing satisfies, 404 for a session without a cursor.
Refuse(start, end) ==
  /\ pc = "idle"
  /\ status' = IF Unsatisfiable(start, end) THEN 416 ELSE 404
  /\ Unsatisfiable(start, end) \/ 0 \in StoredVersions
  /\ pc' = "done"
  /\ body' = "closed"
  /\ UNCHANGED <<session, request, place, fetch, stream, aborted>>

\* start() runs the drain and pull() leaves the first wake behind.  A
\* request without a Range header is answered 200 from the first byte.
Respond(start, end, waits) ==
  /\ pc = "idle"
  /\ ~Unsatisfiable(start, end)
  /\ request' = [start |-> start, end |-> NormalizedEnd(end), waits |-> waits]
  /\ status' \in IF start = 0 /\ end = Open THEN {200, 206} ELSE {206}
  /\ \E v \in StoredVersions \ {0} : cursor' = v /\ parts' = windows[v]
  /\ position' = start
  /\ pending' = TRUE
  /\ pc' = "loop"
  /\ UNCHANGED <<session, advanced, fetch, queued, sent, aborted, body>>

----------------------------------------------------------------------------
(***************************************************************************)
(* The drain.                                                              *)
(***************************************************************************)

\* The head of drainByterange's loop, up to its next await.
Loop ==
  /\ pc = "loop"
  /\ \/ /\ aborted \/ (Bounded /\ position > request.end)
        /\ Return
     \/ /\ ~aborted
        /\ ~Bounded \/ position <= request.end
        /\ \/ \E p \in NextPartCovering(position) :
                /\ part' = p
                /\ written' = 0
                /\ pc' = "opening"
                /\ UNCHANGED <<place, stream, body>>
           \/ /\ NextPartCovering(position) = {}
              /\ IF request.waits
                 THEN pc' = "waiting" /\ UNCHANGED <<place, fetch, stream, body>>
                 ELSE Stop
  /\ UNCHANGED <<session, request, status, aborted>>

\* openPartBody: the part's GetObject answers with a body.
Opened ==
  /\ pc = "opening"
  /\ pc' = "pump"
  /\ UNCHANGED <<session, request, status, place, fetch, stream, aborted, body>>

\* Fault: a short body counts as the whole slice.
EndPartWhole ==
  IF written = 0
  THEN Throw
  ELSE /\ position' = position + LengthInPart(part)
       /\ written' = 0
       /\ pc' = "loop"
       /\ UNCHANGED <<cursor, parts, advanced, part, stream, body>>

\* The pump returns what it wrote; a part that gave nothing is an error.
EndPart ==
  IF written = 0
  THEN Throw
  ELSE /\ position' = position + written
       /\ written' = 0
       /\ pc' = "loop"
       /\ UNCHANGED <<cursor, parts, advanced, part, stream, body>>

\* Fault: a remembered wake is taken for demand.
HasRoomOrWake == queued = 0 \/ pending

\* desiredSize > 0, under the default high-water mark of one chunk.
HasRoom == queued = 0

\* The head of enqueueClampedBytes' loop: done with the slice, parked on a
\* full queue (a remembered wake is used up first), or reading.
Pump ==
  /\ pc = "pump"
  /\ \/ /\ written >= LengthInPart(part) \/ aborted
        /\ EndPart
     \/ /\ written < LengthInPart(part) /\ ~aborted
        /\ pc' = IF HasRoom THEN "reading"
                 ELSE IF pending THEN "pump" ELSE "parked"
        /\ pending' = (pending /\ HasRoom)
        /\ UNCHANGED <<place, fetch, queued, sent, body>>
  /\ UNCHANGED <<session, request, status, aborted>>

\* What is enqueued of a chunk of n bytes: never more than was asked for.
Clamped(n) == Min({n, LengthInPart(part) - written})

\* A chunk arrives; enqueueing it on a cancelled body throws.
ReadChunk(n) ==
  /\ pc = "reading"
  /\ IF body = "cancelled"
     THEN Throw
     ELSE /\ written' = written + Clamped(n)
          /\ sent' = sent + Clamped(n)
          /\ queued' = queued + 1
          /\ pc' = "pump"
          /\ UNCHANGED <<place, part, pending, body>>
  /\ UNCHANGED <<session, request, status, aborted>>

\* The part body ends, short of its slice or because it was cancelled.
ReadDone ==
  /\ pc = "reading"
  /\ EndPart
  /\ UNCHANGED <<session, request, status, aborted>>

\* waitForNextPart resolves with any cursor ahead of the one it was given,
\* as cursorWait promises, whether or not it brings a part of this segment.
CursorAdvanced ==
  /\ pc = "waiting"
  /\ \E v \in cursor + 1 .. published : advanced' = v
  /\ pc' = "loading"
  /\ UNCHANGED <<session, request, status, position, cursor, parts,
                 fetch, stream, aborted, body>>

\* The wait's timer fires, or the abort ends it: no cursor.
WaitTimesOut ==
  /\ pc = "waiting"
  /\ Stop
  /\ UNCHANGED <<session, request, status, aborted>>

\* Fault: the cursor of the loaded state is taken for the one seen.
SeenCursorLoaded(v) == v

\* The notifier's cursor is kept: the store may hand back an older one.
SeenCursor(v) == advanced

Load ==
  /\ pc = "loading"
  /\ \E v \in StoredVersions :
       IF v = 0
       THEN Stop
       ELSE /\ cursor' = SeenCursor(v)
            /\ parts' = windows[v]
            /\ pc' = "loop"
            /\ UNCHANGED <<position, advanced, fetch, stream, body>>
  /\ UNCHANGED <<session, request, status, aborted>>

\* An awaited call rejects: S3 has no such object or no body for it, the
\* body breaks off, the store or the notifier fails.
CallFails ==
  /\ pc \in {"opening", "reading", "waiting", "loading"}
  /\ Throw
  /\ UNCHANGED <<session, request, status, aborted>>

----------------------------------------------------------------------------
(***************************************************************************)
(* The viewer and the session.                                             *)
(***************************************************************************)

\* DemandSignal.wake: a parked drain goes on, any other finds it later.
Wake ==
  IF pc = "parked"
  THEN pc' = "pump" /\ UNCHANGED pending
  ELSE pending' = TRUE /\ UNCHANGED pc

\* The viewer takes a chunk; the stream pulls once there is room again.
Take ==
  /\ queued > 0
  /\ queued' = queued - 1
  /\ IF body = "open" THEN Wake ELSE UNCHANGED <<pc, pending>>
  /\ UNCHANGED <<session, request, status, place, fetch, sent, aborted, body>>

\* Fault: an abort does not reach a parked drain.
AbortWakesNobody == UNCHANGED <<pc, pending>>

AbortWakes == Wake

Streaming == pc \notin {"idle", "done"}

\* The viewer cancels the body.
Cancel ==
  /\ Streaming
  /\ body = "open"
  /\ body' = "cancelled"
  /\ queued' = 0
  /\ aborted' = TRUE
  /\ IF aborted THEN UNCHANGED <<pc, pending>> ELSE AbortWakes
  /\ UNCHANGED <<session, request, status, place, fetch, sent>>

\* The request's own signal aborts: the viewer disconnected.
Disconnect ==
  /\ Streaming
  /\ ~aborted
  /\ aborted' = TRUE
  /\ AbortWakes
  /\ UNCHANGED <<session, request, status, place, fetch, queued, sent, body>>

\* A commit or a transition of the session publishes its next cursor.  A
\* part of this segment may join the window and the window may move past
\* some of its parts; most cursors do neither.  Its parts may be spread over
\* tracks and segments, so they join in any order.
PublishCursor(joining, gone) ==
  /\ published < MaxVersions
  /\ published' = published + 1
  /\ trimmed' = gone
  /\ windows' = [v \in StoredVersions' |->
                   IF v = published'
                   THEN {p \in windows[published] \cup joining : p > gone}
                   ELSE windows[v]]
  /\ UNCHANGED <<request, status, pc, place, fetch, stream, aborted, body>>

Next ==
  \/ \E start \in Starts, end \in Ends : Refuse(start, end)
  \/ \E start \in Starts, end \in Ends, waits \in BOOLEAN :
       Respond(start, end, waits)
  \/ Loop \/ Opened \/ Pump \/ ReadDone
  \/ \E n \in ChunkSizes : ReadChunk(n)
  \/ CursorAdvanced \/ WaitTimesOut \/ Load \/ CallFails
  \/ Take \/ Cancel \/ Disconnect
  \/ \E joining \in {{}} \cup {{p} : p \in DOMAIN Layout},
        gone \in trimmed .. Len(Layout) : PublishCursor(joining, gone)

\* What the drain's own progress rests on: its microtasks run, S3 and the
\* store answer or fail, the timer of a wait fires unless a cursor comes
\* first, and a viewer reads what is queued or goes away.
Fairness ==
  /\ WF_vars(Loop) /\ WF_vars(Pump)
  /\ WF_vars(Opened \/ CallFails)
  /\ WF_vars(ReadDone \/ \E n \in ChunkSizes : ReadChunk(n))
  /\ WF_vars(WaitTimesOut) /\ WF_vars(Load)
  /\ WF_vars(Take \/ Cancel)

Spec == Init /\ [][Next]_vars /\ Fairness

----------------------------------------------------------------------------
(***************************************************************************)
(* Properties.                                                             *)
(***************************************************************************)

SessionTypeOK ==
  /\ published \in 0 .. MaxVersions
  /\ windows \in [StoredVersions -> SUBSET DOMAIN Layout]
  /\ trimmed \in 0 .. Len(Layout)

\* The types, and the bound of the queue: however its viewer reads, a stream
\* never holds more than one chunk that nobody has asked for.
TypeOK ==
  /\ SessionTypeOK
  /\ request \in [start : Int, end : Int, waits : BOOLEAN]
  /\ status \in {0, 200, 206, 404, 416}
  /\ pc \in {"idle", "loop", "opening", "pump", "parked", "reading",
             "waiting", "loading", "done"}
  /\ position \in Int
  /\ {cursor, advanced} \subseteq 0 .. MaxVersions
  /\ parts \subseteq DOMAIN Layout
  /\ part \in 0 .. Len(Layout)
  /\ {written, sent} \subseteq Nat
  /\ queued \in 0 .. 1
  /\ pending \in BOOLEAN /\ aborted \in BOOLEAN
  /\ body \in {"open", "closed", "errored", "cancelled"}

\* The response carries the segment's bytes from the first one asked for,
\* none skipped and none twice, however S3 cuts the part bodies: the next
\* byte to be enqueued is always the one after the last.
BytesInOrder ==
  Streaming => position + written = request.start + sent

\* A bounded response never runs past its content-length, and unless the
\* viewer left, a finished drain closes it complete or errors it: it is
\* neither cut short silently nor left open.
PromiseKept ==
  /\ Bounded => sent <= request.end - request.start + 1
  /\ (pc = "done" /\ ~aborted /\ status \in {200, 206}) =>
       \/ body = "errored"
       \/ /\ body = "closed"
          /\ Bounded => sent = request.end - request.start + 1

\* Every load follows a cursor the drain had not seen, even when the store
\* lags: the wait cannot turn into a tight loop of immediate answers.
WaitsMoveOn ==
  [][(pc = "loading" /\ pc' = "loop") => cursor' > cursor]_vars

\* A drain whose viewer is gone ends, whatever it is suspended in and however
\* busy the session is.  Any other ends unless the session goes on publishing
\* cursors: each of them arms the wait's timer anew, so while they come a
\* drain may wait for bytes that never will.
DrainEnds ==
  /\ aborted ~> pc = "done"
  /\ \A v \in 0 .. MaxVersions :
       (Streaming /\ published = v) ~> (pc = "done" \/ published > v)

=============================================================================
