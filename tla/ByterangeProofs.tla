-------------------------- MODULE ByterangeProofs --------------------------
(***************************************************************************)
(* Proofs about ByterangeStream, for every layout of parts, chunk size, lag *)
(* of the store and number of cursors.                                     *)
(***************************************************************************)
EXTENDS ByterangeStream, SequenceTheorems, TLAPS

Fetching == {"opening", "pump", "parked", "reading"}

\* Nothing has been sent before the response, whose range is in order.
Fresh ==
  pc = "idle" =>
    /\ status = 0 /\ sent = 0 /\ written = 0 /\ queued = 0
    /\ body = "open" /\ ~aborted

\* A response runs until its drain is done, on an open stream unless its
\* viewer is gone.
Answered ==
  Streaming =>
    /\ status \in {200, 206}
    /\ aborted \/ body = "open"

\* The drain is inside the slice of the part that it fetches.
InsideSlice ==
  pc \in Fetching =>
    /\ part \in DOMAIN Layout
    /\ Covers(part, position)
    /\ Bounded => position <= request.end
    /\ written <= LengthInPart(part)

BetweenParts == pc \in {"loop", "waiting", "loading"} => written = 0

NothingQueuedWhileReading == pc = "reading" => queued = 0

WaitedFor == pc = "loading" => advanced > cursor

IInv ==
  /\ TypeOK /\ BytesInOrder /\ PromiseKept
  /\ Fresh /\ Answered /\ InsideSlice /\ BetweenParts
  /\ NothingQueuedWhileReading /\ WaitedFor

----------------------------------------------------------------------------

LEMMA MinOfTwo ==
  ASSUME NEW a \in Int, NEW b \in Int
  PROVE  Min({a, b}) = IF a <= b THEN a ELSE b
<1> DEFINE m == IF a <= b THEN a ELSE b
<1> DEFINE Least(x) == x \in {a, b} /\ \A y \in {a, b} : x <= y
<1>1. Least(m)
  OBVIOUS
<1>2. \A x : Least(x) => x = m
  OBVIOUS
<1>3. Min({a, b}) = CHOOSE x : Least(x)
  BY Zenon DEF Min
<1> HIDE DEF Least, m
<1>4. Least(CHOOSE x : Least(x))
  BY <1>1
<1>5. Min({a, b}) = m
  BY <1>2, <1>3, <1>4
<1> QED BY <1>5 DEF m

LEMMA LayoutTypes ==
  ASSUME NEW p \in DOMAIN Layout
  PROVE  Layout[p].offset \in Nat /\ Layout[p].length \in Nat \ {0}
<1>1. Layout \in Seq([offset : Nat, length : Nat \ {0}])
  BY ByterangeAssumption
<1>2. p \in 1 .. Len(Layout)
  BY <1>1
<1>3. Layout[p] \in [offset : Nat, length : Nat \ {0}]
  BY <1>1, <1>2, ElementOfSeq
<1> QED BY <1>3

\* The slice of a part that covers the position has a byte to give, and none
\* past the end of the range.
LEMMA SliceLength ==
  ASSUME NEW p \in DOMAIN Layout, IInv, Covers(p, position),
         Bounded => position <= request.end
  PROVE  /\ LengthInPart(p) \in Nat \ {0}
         /\ Bounded => position + LengthInPart(p) <= request.end + 1
<1>1. position \in Int /\ request.end \in Int
  BY DEF IInv, TypeOK
<1> QED BY <1>1, LayoutTypes DEF Covers, LengthInPart

LEMMA InitIInv == Init => IInv
<1> SUFFICES ASSUME Init PROVE IInv
  OBVIOUS
<1>0. Len(Layout) \in Nat
  BY ByterangeAssumption
<1>1. TypeOK
  <2>1. request \in [start : Int, end : Int, waits : BOOLEAN]
    BY ByterangeAssumption DEF Init
  <2>2. parts \subseteq DOMAIN Layout
    BY DEF Init
  <2>3. 0 \in 0 .. Len(Layout)
    BY <1>0
  <2>4. part \in 0 .. Len(Layout) /\ {cursor, advanced} \subseteq 0 .. MaxVersions
    BY <2>3, ByterangeAssumption DEF Init
  <2>5. {written, sent} \subseteq Nat /\ position \in Int /\ queued \in 0 .. 1
    BY DEF Init
  <2>6. SessionTypeOK
    <3>1. StoredVersions = {0} /\ 0 \in 0 .. MaxVersions
      BY ByterangeAssumption DEF StoredVersions, Init
    <3> QED BY <2>3, <3>1 DEF SessionTypeOK, Init
  <2> QED BY <2>1, <2>2, <2>4, <2>5, <2>6 DEF Init, TypeOK
<1>2. BytesInOrder /\ PromiseKept
  BY ByterangeAssumption DEF Init, BytesInOrder, PromiseKept, Streaming, Bounded
<1> QED BY <1>1, <1>2
  DEF Init, IInv, Fresh, Answered, InsideSlice, BetweenParts, Streaming,
      Fetching, NothingQueuedWhileReading, WaitedFor

LEMMA SessionKeeps ==
  ASSUME SessionTypeOK, UNCHANGED session
  PROVE  SessionTypeOK'
BY DEF SessionTypeOK, StoredVersions, session

\* How a drain ends keeps what it promised.
LEMMA ThrowKeeps ==
  ASSUME IInv, Streaming, Throw,
         UNCHANGED <<session, request, status, aborted>>
  PROVE  IInv'
<1>1. TypeOK'
  BY SessionKeeps DEF IInv, TypeOK, Throw, place, fetch, stream
<1>2. BytesInOrder'
  BY DEF Throw, BytesInOrder, Streaming
<1>3. PromiseKept'
  BY DEF IInv, PromiseKept, Throw, Bounded, stream, Answered
<1> QED BY <1>1, <1>2, <1>3
  DEF Throw, IInv, Fresh, Answered, InsideSlice, BetweenParts, Streaming,
      Fetching, NothingQueuedWhileReading, WaitedFor

LEMMA ReturnKeeps ==
  ASSUME IInv, Streaming, Return, written = 0,
         aborted \/ ~Bounded \/ position > request.end,
         UNCHANGED <<session, request, status, aborted>>
  PROVE  IInv'
<1>1. TypeOK'
  BY SessionKeeps DEF IInv, TypeOK, Return, place, fetch, stream
<1>2. BytesInOrder'
  BY DEF Return, BytesInOrder, Streaming
<1>3. Bounded => sent <= request.end - request.start + 1
  BY DEF IInv, PromiseKept
<1>4. ASSUME ~aborted, Bounded PROVE sent = request.end - request.start + 1
  <2>1. position = request.start + sent /\ position > request.end
    BY <1>4 DEF IInv, BytesInOrder, TypeOK
  <2> QED BY <1>3, <1>4, <2>1 DEF IInv, TypeOK
<1>5. PromiseKept'
  BY <1>3, <1>4 DEF IInv, PromiseKept, Return, Bounded, stream, Answered
<1> QED BY <1>1, <1>2, <1>5
  DEF Return, IInv, Fresh, Answered, InsideSlice, BetweenParts, Streaming,
      Fetching, NothingQueuedWhileReading, WaitedFor

LEMMA StopKeeps ==
  ASSUME IInv, Streaming, Stop, written = 0,
         UNCHANGED <<session, request, status, aborted>>
  PROVE  IInv'
<1>1. CASE Bounded /\ position <= request.end
  BY <1>1, ThrowKeeps DEF Stop
<1>2. CASE ~Bounded \/ position > request.end
  BY <1>2, ReturnKeeps DEF Stop, IInv, TypeOK
<1> QED BY <1>1, <1>2 DEF IInv, TypeOK

LEMMA EndPartKeeps ==
  ASSUME IInv, pc \in Fetching, EndPart,
         UNCHANGED <<session, request, status, aborted>>
  PROVE  IInv'
<1>0. Streaming
  BY DEF Streaming, Fetching
<1>1. CASE written = 0
  BY <1>0, <1>1, ThrowKeeps DEF EndPart
<1>2. CASE written # 0
  <2>1. /\ position' = position + written /\ written' = 0 /\ pc' = "loop"
        /\ UNCHANGED <<cursor, parts, advanced, part, stream, body>>
    BY <1>2 DEF EndPart
  <2>2. TypeOK'
    BY SessionKeeps, <2>1 DEF IInv, TypeOK, stream
  <2>3. BytesInOrder'
    BY <1>0, <2>1 DEF IInv, TypeOK, BytesInOrder, Streaming, stream
  <2>4. PromiseKept'
    BY <2>1 DEF IInv, PromiseKept, Bounded, stream
  <2> QED BY <1>0, <2>1, <2>2, <2>3, <2>4
    DEF IInv, Fresh, Answered, InsideSlice, BetweenParts, Streaming,
        Fetching, NothingQueuedWhileReading, WaitedFor
<1> QED BY <1>1, <1>2

LEMMA LoadTypes ==
  ASSUME TypeOK, NEW v \in StoredVersions
  PROVE  v \in 0 .. MaxVersions /\ windows[v] \subseteq DOMAIN Layout
<1>1. windows \in [StoredVersions -> SUBSET DOMAIN Layout]
  BY DEF TypeOK, SessionTypeOK
<1>2. windows[v] \in SUBSET DOMAIN Layout
  BY <1>1
<1>3. v \in 0 .. MaxVersions
  BY ByterangeAssumption DEF TypeOK, SessionTypeOK, StoredVersions
<1> QED BY <1>2, <1>3

\* The steps of the drain.
LEMMA DrainStep ==
  ASSUME IInv,
         \/ Loop \/ Opened \/ Pump \/ ReadDone
         \/ \E n \in ChunkSizes : ReadChunk(n)
         \/ CursorAdvanced \/ WaitTimesOut \/ Load \/ CallFails
  PROVE  IInv'
<1>1. CASE Loop
  <2>1. Streaming /\ written = 0 /\ UNCHANGED <<session, request, status, aborted>>
    BY <1>1 DEF Loop, Streaming, IInv, BetweenParts
  <2>2. CASE Return /\ (aborted \/ (Bounded /\ position > request.end))
    BY <2>1, <2>2, ReturnKeeps
  <2>3. CASE Stop
    BY <2>1, <2>3, StopKeeps
  <2>4. ASSUME NEW p \in NextPartCovering(position), part' = p, written' = 0,
               pc' = "opening", UNCHANGED <<place, stream, body>>,
               ~aborted, ~Bounded \/ position <= request.end
        PROVE  IInv'
    <3>1. p \in DOMAIN Layout /\ Covers(p, position)
      BY DEF NextPartCovering, IInv, TypeOK
    <3>2. LengthInPart(p) \in Nat \ {0}
      BY <2>4, <3>1, SliceLength
    <3>3. TypeOK'
      <4>1. part' \in 0 .. Len(Layout)
        BY <2>4, <3>1, ByterangeAssumption
      <4> QED BY SessionKeeps, <2>1, <2>4, <4>1 DEF IInv, TypeOK, place, stream
    <3>4. BytesInOrder' /\ PromiseKept'
      BY <2>1, <2>4
      DEF IInv, BytesInOrder, PromiseKept, Streaming, Bounded, place, stream
    <3>5. InsideSlice'
      <4>1. LengthInPart(p)' = LengthInPart(p) /\ Covers(p, position)'
        BY <2>1, <2>4, <3>1 DEF LengthInPart, Covers, Bounded, place
      <4> QED BY <2>1, <2>4, <3>1, <3>2, <4>1
        DEF InsideSlice, Bounded, place, LengthInPart, Covers
    <3> QED BY <1>1, <2>1, <2>4, <3>3, <3>4, <3>5
      DEF IInv, Fresh, Answered, BetweenParts, Streaming, place, stream,
          NothingQueuedWhileReading, WaitedFor
  <2>5. ASSUME pc' = "waiting", UNCHANGED <<place, fetch, stream, body>>
        PROVE  IInv'
    BY SessionKeeps, <2>1, <2>5
    DEF IInv, TypeOK, BytesInOrder, PromiseKept, Fresh, Answered, InsideSlice,
        BetweenParts, Streaming, Fetching, Bounded, place, fetch, stream,
        NothingQueuedWhileReading, WaitedFor
  <2> QED BY <1>1, <2>2, <2>3, <2>4, <2>5 DEF Loop
<1>2. CASE Opened
  BY SessionKeeps, <1>2
  DEF Opened, IInv, TypeOK, BytesInOrder, PromiseKept, Fresh, Answered,
      InsideSlice, BetweenParts, Streaming, Fetching, Bounded, place, fetch,
      stream, Covers, LengthInPart, NothingQueuedWhileReading, WaitedFor
<1>3. CASE Pump
  <2>1. CASE EndPart
    BY <1>3, <2>1, EndPartKeeps DEF Pump, Fetching
  <2>2. CASE /\ pc' = IF HasRoom THEN "reading"
                      ELSE IF pending THEN "pump" ELSE "parked"
             /\ pending' = (pending /\ HasRoom)
             /\ UNCHANGED <<place, fetch, queued, sent, body>>
    BY SessionKeeps, <1>3, <2>2
    DEF Pump, HasRoom, IInv, TypeOK, BytesInOrder, PromiseKept, Fresh, Answered,
        InsideSlice, BetweenParts, Streaming, Fetching, Bounded, place, fetch,
        Covers, LengthInPart, NothingQueuedWhileReading, WaitedFor
  <2> QED BY <1>3, <2>1, <2>2 DEF Pump
<1>4. CASE ReadDone
  BY <1>4, EndPartKeeps DEF ReadDone, Fetching
<1>5. ASSUME NEW n \in ChunkSizes, ReadChunk(n) PROVE IInv'
  <2>0. Streaming /\ UNCHANGED <<session, request, status, aborted>>
    BY <1>5 DEF ReadChunk, Streaming
  <2>1. CASE body = "cancelled"
    BY <1>5, <2>0, <2>1, ThrowKeeps DEF ReadChunk
  <2>2. CASE body # "cancelled"
    <3>1. /\ written' = written + Clamped(n) /\ sent' = sent + Clamped(n)
          /\ queued' = queued + 1 /\ pc' = "pump"
          /\ UNCHANGED <<place, part, pending, body>>
      BY <1>5, <2>2 DEF ReadChunk
    <3>2. /\ part \in DOMAIN Layout /\ Covers(part, position)
          /\ Bounded => position <= request.end
          /\ written <= LengthInPart(part) /\ queued = 0
      BY <1>5
      DEF ReadChunk, IInv, InsideSlice, Fetching, NothingQueuedWhileReading
    <3>3. /\ LengthInPart(part) \in Nat \ {0}
          /\ Bounded => position + LengthInPart(part) <= request.end + 1
      BY <3>2, SliceLength
    <3>4. /\ written \in Nat /\ sent \in Nat /\ position \in Int
          /\ request.start \in Int /\ request.end \in Int
      BY DEF IInv, TypeOK
    <3>5. Clamped(n) \in Nat /\ written + Clamped(n) <= LengthInPart(part)
      <4>1. n \in Nat \ {0} /\ LengthInPart(part) - written \in Nat
        BY <3>2, <3>3, <3>4, ByterangeAssumption
      <4>2. Clamped(n) = IF n <= LengthInPart(part) - written
                         THEN n ELSE LengthInPart(part) - written
        BY <4>1, MinOfTwo DEF Clamped
      <4> QED BY <3>3, <3>4, <4>1, <4>2
    <3> HIDE DEF Clamped
    <3>6. TypeOK'
      BY SessionKeeps, <2>0, <3>1, <3>2, <3>4, <3>5 DEF IInv, TypeOK, place
    <3>7. BytesInOrder'
      BY <2>0, <3>1, <3>4, <3>5
      DEF IInv, BytesInOrder, Streaming, place
    <3>8. PromiseKept'
      <4>1. position + written = request.start + sent
        BY <2>0 DEF IInv, BytesInOrder
      <4>2. Bounded => sent + Clamped(n) <= request.end - request.start + 1
        BY <3>3, <3>4, <3>5, <4>1
      <4> QED BY <2>0, <3>1, <4>2 DEF PromiseKept, Bounded
    <3>9. InsideSlice'
      BY <2>0, <3>1, <3>2, <3>5
      DEF InsideSlice, Bounded, place, LengthInPart, Covers
    <3> QED BY <2>0, <3>1, <3>6, <3>7, <3>8, <3>9
      DEF IInv, Fresh, Answered, BetweenParts, Streaming, place,
          NothingQueuedWhileReading, WaitedFor
  <2> QED BY <2>1, <2>2
<1>6. CASE CursorAdvanced
  <2>1. PICK v \in cursor + 1 .. published : advanced' = v
    BY <1>6 DEF CursorAdvanced
  <2>2. cursor \in 0 .. MaxVersions /\ published \in 0 .. MaxVersions
    BY DEF IInv, TypeOK, SessionTypeOK
  <2>3. advanced' \in 0 .. MaxVersions /\ advanced' > cursor
    BY <2>1, <2>2, ByterangeAssumption
  <2> QED BY SessionKeeps, <1>6, <2>3
    DEF CursorAdvanced, IInv, TypeOK, BytesInOrder, PromiseKept, Fresh,
        Answered, InsideSlice, BetweenParts, Streaming, Fetching, Bounded,
        fetch, stream, NothingQueuedWhileReading, WaitedFor
<1>7. CASE WaitTimesOut
  BY <1>7, StopKeeps DEF WaitTimesOut, Streaming, IInv, BetweenParts
<1>8. CASE Load
  <2>1. Streaming /\ written = 0 /\ UNCHANGED <<session, request, status, aborted>>
    BY <1>8 DEF Load, Streaming, IInv, BetweenParts
  <2>2. CASE Stop
    BY <2>1, <2>2, StopKeeps
  <2>3. ASSUME NEW v \in StoredVersions, cursor' = SeenCursor(v),
               parts' = windows[v], pc' = "loop",
               UNCHANGED <<position, advanced, fetch, stream, body>>
        PROVE  IInv'
    <3>1. parts' \subseteq DOMAIN Layout
      BY <2>3, LoadTypes DEF IInv
    <3>2. cursor' \in 0 .. MaxVersions
      BY <2>3 DEF SeenCursor, IInv, TypeOK
    <3>3. TypeOK'
      BY SessionKeeps, <2>1, <2>3, <3>1, <3>2 DEF IInv, TypeOK, fetch, stream
    <3> QED BY <2>1, <2>3, <3>3
      DEF IInv, BytesInOrder, PromiseKept, Fresh, Answered, InsideSlice,
          BetweenParts, Streaming, Fetching, Bounded, fetch, stream,
          NothingQueuedWhileReading, WaitedFor
  <2> QED BY <1>8, <2>2, <2>3 DEF Load
<1>9. CASE CallFails
  BY <1>9, ThrowKeeps DEF CallFails, Streaming
<1> QED BY <1>1, <1>2, <1>3, <1>4, <1>5, <1>6, <1>7, <1>8, <1>9

\* A step of the viewer, which may wake the drain and may abort it.
LEMMA WakeKeeps ==
  ASSUME IInv, pc # "idle",
         Wake \/ UNCHANGED <<pc, pending>>,
         UNCHANGED <<session, request, status, place, fetch, sent>>,
         queued' \in 0 .. 1, pc' = "reading" => queued' = 0,
         \/ UNCHANGED <<aborted, body>>
         \/ /\ aborted' = TRUE /\ pc # "done"
            /\ body' \in {"open", "closed", "errored", "cancelled"}
  PROVE  IInv'
<1>1. /\ pc' = pc \/ (pc = "parked" /\ pc' = "pump")
      /\ pending' \in BOOLEAN
  BY DEF Wake, IInv, TypeOK
<1>2. /\ (pc' = "done") = (pc = "done") /\ pc' # "idle"
      /\ (pc' \in Fetching) = (pc \in Fetching)
      /\ (pc' \in {"loop", "waiting", "loading"})
           = (pc \in {"loop", "waiting", "loading"})
      /\ pc' = "loading" => pc = "loading"
      /\ pc' \in {"loop", "opening", "pump", "parked", "reading", "waiting",
                  "loading", "done"}
  BY <1>1 DEF Fetching, IInv, TypeOK
<1>3. aborted' \in BOOLEAN /\ body' \in {"open", "closed", "errored", "cancelled"}
  BY DEF IInv, TypeOK
<1>4. TypeOK'
  BY SessionKeeps, <1>1, <1>2, <1>3 DEF IInv, TypeOK, place, fetch
<1>5. BytesInOrder'
  BY <1>2 DEF IInv, BytesInOrder, Streaming, place, fetch
<1>6. PromiseKept'
  BY <1>2 DEF IInv, PromiseKept, Bounded
<1>7. Answered'
  BY <1>2 DEF IInv, Answered, Streaming
<1>8. InsideSlice'
  <2>1. LengthInPart(part)' = LengthInPart(part)
        /\ Covers(part, position)' = Covers(part, position)
    BY DEF LengthInPart, Covers, Bounded, place, fetch
  <2> QED BY <1>2, <2>1 DEF IInv, InsideSlice, Bounded, place, fetch
<1> QED BY <1>2, <1>4, <1>5, <1>6, <1>7, <1>8
  DEF IInv, Fresh, BetweenParts, place, fetch, NothingQueuedWhileReading,
      WaitedFor

\* The steps of the request, its viewer and the session.
LEMMA OtherStep ==
  ASSUME IInv,
         \/ \E start \in Starts, end \in Ends : Refuse(start, end)
         \/ \E start \in Starts, end \in Ends, waits \in BOOLEAN :
              Respond(start, end, waits)
         \/ Take \/ Cancel \/ Disconnect
         \/ \E joining \in {{}} \cup {{p} : p \in DOMAIN Layout},
               gone \in trimmed .. Len(Layout) : PublishCursor(joining, gone)
  PROVE  IInv'
<1>1. ASSUME NEW start \in Starts, NEW end \in Ends, Refuse(start, end)
      PROVE  IInv'
  BY SessionKeeps, <1>1
  DEF Refuse, IInv, TypeOK, BytesInOrder, PromiseKept, Fresh, Answered,
      InsideSlice, BetweenParts, Streaming, Fetching, Bounded, place, fetch,
      stream, NothingQueuedWhileReading, WaitedFor
<1>2. ASSUME NEW start \in Starts, NEW end \in Ends, NEW waits \in BOOLEAN,
             Respond(start, end, waits)
      PROVE  IInv'
  <2>1. /\ start \in Int /\ start >= 0 /\ end \in Int
        /\ (end = Open \/ start <= end)
    BY <1>2, ByterangeAssumption DEF Respond, Unsatisfiable, NormalizedEnd
  <2>2. /\ request' = [start |-> start, end |-> NormalizedEnd(end), waits |-> waits]
        /\ position' = start /\ pc' = "loop" /\ status' \in {200, 206}
        /\ pending' = TRUE /\ pc = "idle"
        /\ UNCHANGED <<session, advanced, fetch, queued, sent, aborted, body>>
    BY <1>2 DEF Respond
  <2>3. /\ NormalizedEnd(end) \in Int
        /\ NormalizedEnd(end) # Open => start <= NormalizedEnd(end)
    BY <2>1, ByterangeAssumption DEF NormalizedEnd
  <2>4. cursor' \in 0 .. MaxVersions /\ parts' \subseteq DOMAIN Layout
    <3>1. PICK v \in StoredVersions \ {0} : cursor' = v /\ parts' = windows[v]
      BY <1>2 DEF Respond
    <3> QED BY <3>1, LoadTypes DEF IInv
  <2>5. TypeOK'
    BY SessionKeeps, <2>1, <2>2, <2>3, <2>4 DEF IInv, TypeOK, fetch
  <2>6. /\ sent = 0 /\ written = 0 /\ body = "open" /\ ~aborted
    BY <2>2 DEF IInv, Fresh
  <2>7. BytesInOrder'
    BY <2>1, <2>2, <2>6 DEF BytesInOrder, fetch
  <2>8. PromiseKept'
    BY <2>1, <2>2, <2>3, <2>6 DEF PromiseKept, Bounded
  <2> QED BY <2>2, <2>5, <2>6, <2>7, <2>8
    DEF IInv, Fresh, Answered, InsideSlice, BetweenParts, Streaming, Fetching,
        fetch, NothingQueuedWhileReading, WaitedFor
<1>3. CASE Take
  <2>1. /\ queued > 0 /\ queued' = queued - 1
        /\ UNCHANGED <<session, request, status, place, fetch, sent,
                       aborted, body>>
        /\ Wake \/ UNCHANGED <<pc, pending>>
    BY <1>3 DEF Take
  <2>2. queued' \in 0 .. 1 /\ body' = body
    BY <2>1 DEF IInv, TypeOK
  <2>3. pc = "reading" => queued = 0
    BY DEF IInv, NothingQueuedWhileReading
  <2>4. pc = "idle" => queued = 0
    BY DEF IInv, Fresh
  <2>5. (pc' = "reading" => queued' = 0) /\ pc # "idle"
    BY <2>1, <2>3, <2>4 DEF Wake
  <2> QED BY <2>1, <2>2, <2>5, WakeKeeps
<1>4. CASE Cancel
  <2>1. /\ queued' = 0 /\ aborted' = TRUE /\ body' = "cancelled"
        /\ UNCHANGED <<session, request, status, place, fetch, sent>>
        /\ Wake \/ UNCHANGED <<pc, pending>>
        /\ pc # "idle" /\ pc # "done"
    BY <1>4 DEF Cancel, AbortWakes, Streaming
  <2>2. queued' \in 0 .. 1
    BY <2>1
  <2> QED BY <2>1, <2>2, WakeKeeps
<1>5. CASE Disconnect
  <2>1. /\ aborted' = TRUE /\ Wake /\ pc # "idle" /\ pc # "done"
        /\ UNCHANGED <<session, request, status, place, fetch, queued, sent,
                       body>>
    BY <1>5 DEF Disconnect, AbortWakes, Streaming
  <2>2. queued' \in 0 .. 1 /\ (pc' = "reading" => queued' = 0)
        /\ body' \in {"open", "closed", "errored", "cancelled"}
    BY <2>1 DEF IInv, TypeOK, NothingQueuedWhileReading, Wake
  <2> QED BY <2>1, <2>2, WakeKeeps
<1>6. ASSUME NEW joining \in {{}} \cup {{p} : p \in DOMAIN Layout},
             NEW gone \in trimmed .. Len(Layout), PublishCursor(joining, gone)
      PROVE  IInv'
  <2>1. /\ published < MaxVersions /\ published' = published + 1
        /\ trimmed' = gone
        /\ windows' = [v \in StoredVersions' |->
                         IF v = published'
                         THEN {p \in windows[published] \cup joining : p > gone}
                         ELSE windows[v]]
    BY <1>6 DEF PublishCursor
  <2>2. published \in 0 .. MaxVersions /\ trimmed \in 0 .. Len(Layout)
    BY DEF IInv, TypeOK, SessionTypeOK
  <2>3. published \in StoredVersions
    BY <2>2, ByterangeAssumption DEF StoredVersions
  <2>4. joining \subseteq DOMAIN Layout
    OBVIOUS
  <2>5. {p \in windows[published] \cup joining : p > gone} \subseteq DOMAIN Layout
    BY <2>3, <2>4, LoadTypes DEF IInv
  <2>6. ASSUME NEW v \in StoredVersions', v # published'
        PROVE  windows[v] \subseteq DOMAIN Layout
    <3>1. v \in StoredVersions
      BY <2>1, <2>2, <2>6, ByterangeAssumption DEF StoredVersions
    <3> QED BY <3>1, LoadTypes DEF IInv
  <2>7. SessionTypeOK'
    <3>1. published' \in 0 .. MaxVersions
      BY <2>1, <2>2, ByterangeAssumption
    <3>2. trimmed' \in 0 .. Len(Layout)
      BY <2>1, <2>2, ByterangeAssumption
    <3> QED BY <2>1, <2>5, <2>6, <3>1, <3>2 DEF SessionTypeOK
  <2> QED BY <1>6, <2>7
    DEF PublishCursor, IInv, TypeOK, BytesInOrder, PromiseKept, Fresh, Answered,
        InsideSlice, BetweenParts, Streaming, Fetching, Bounded, place, fetch,
        stream, Covers, LengthInPart, NothingQueuedWhileReading, WaitedFor
<1> QED BY <1>1, <1>2, <1>3, <1>4, <1>5, <1>6

LEMMA StutterKeeps == IInv /\ UNCHANGED vars => IInv'
  BY SessionKeeps
     DEF session, vars, IInv, TypeOK, BytesInOrder, PromiseKept, Fresh,
         Answered, InsideSlice, BetweenParts, Streaming, Fetching, Bounded,
         Covers, LengthInPart, NothingQueuedWhileReading, WaitedFor

\* The invariant of a range response holds for every layout of parts.
THEOREM ByterangeInvariance == Spec => []IInv
<1>1. IInv /\ [Next]_vars => IInv'
  <2> SUFFICES ASSUME IInv, [Next]_vars PROVE IInv'
    OBVIOUS
  <2>1. CASE \/ Loop \/ Opened \/ Pump \/ ReadDone
             \/ \E n \in ChunkSizes : ReadChunk(n)
             \/ CursorAdvanced \/ WaitTimesOut \/ Load \/ CallFails
    BY <2>1, DrainStep
  <2>2. CASE \/ \E start \in Starts, end \in Ends : Refuse(start, end)
             \/ \E start \in Starts, end \in Ends, waits \in BOOLEAN :
                  Respond(start, end, waits)
             \/ Take \/ Cancel \/ Disconnect
         \/ \E joining \in {{}} \cup {{p} : p \in DOMAIN Layout},
               gone \in trimmed .. Len(Layout) : PublishCursor(joining, gone)
    BY <2>2, OtherStep
  <2>3. CASE UNCHANGED vars
    BY <2>3, StutterKeeps
  <2> QED BY <2>1, <2>2, <2>3 DEF Next
<1> QED BY InitIInv, <1>1, PTL DEF Spec

\* The types, and the bound of the stream's queue.
THEOREM ByterangeTypeCorrect == Spec => []TypeOK
<1>1. IInv => TypeOK
  BY DEF IInv
<1> QED BY ByterangeInvariance, <1>1, PTL

\* The bytes come in order and once, wherever the parts and the chunks of
\* their bodies are cut.
THEOREM BytesAlwaysInOrder == Spec => []BytesInOrder
<1>1. IInv => BytesInOrder
  BY DEF IInv
<1> QED BY ByterangeInvariance, <1>1, PTL

\* A bounded response is never longer than promised, and complete if it is
\* closed.
THEOREM PromiseAlwaysKept == Spec => []PromiseKept
<1>1. IInv => PromiseKept
  BY DEF IInv
<1> QED BY ByterangeInvariance, <1>1, PTL

\* Every load of the parts follows a cursor that the drain had not seen,
\* however far the store lags.
THEOREM WaitsAlwaysMoveOn == Spec => WaitsMoveOn
<1> DEFINE MovesOn == (pc = "loading" /\ pc' = "loop") => cursor' > cursor
<1>1. IInv /\ [Next]_vars => [MovesOn]_vars
  <2> SUFFICES ASSUME IInv, Next, pc = "loading", pc' = "loop"
               PROVE  cursor' > cursor
    OBVIOUS
  <2>1. Load
    <3>1. CASE Take
      BY <3>1 DEF Take, Wake
    <3>2. CASE Cancel
      BY <3>2 DEF Cancel, AbortWakes, Wake
    <3>3. CASE Disconnect
      BY <3>3 DEF Disconnect, AbortWakes, Wake
    <3>4. CASE CallFails
      BY <3>4 DEF CallFails, Throw
    <3> QED BY <3>1, <3>2, <3>3, <3>4
      DEF Next, Refuse, Respond, Loop, Opened, Pump, ReadDone, ReadChunk,
          CursorAdvanced, WaitTimesOut, PublishCursor
  <2>2. \/ Stop
        \/ \E v \in StoredVersions : cursor' = SeenCursor(v)
    BY <2>1 DEF Load
  <2>3. ~Stop
    BY DEF Stop, Throw, Return
  <2> QED BY <2>2, <2>3 DEF SeenCursor, IInv, WaitedFor
<1> QED BY ByterangeInvariance, <1>1, PTL DEF Spec, WaitsMoveOn

=============================================================================
