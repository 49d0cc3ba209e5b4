--------------------------- MODULE WindowDocument ---------------------------
(***************************************************************************)
(* The committed window as the code computes, stores and reloads it: an    *)
(* ordered document (src/olos/src/state/committed-window*.ts) that every   *)
(* load validates (src/olos/src/validation).  Coordinator states the same  *)
(* window as a set of commits; here it is sorted, grouped, cut and         *)
(* measured.                                                               *)
(***************************************************************************)
EXTENDS Coordinator, SequencesExt

----------------------------------------------------------------------------
(***************************************************************************)
(* Building the document.                                                  *)
(***************************************************************************)

\* The members of S in the order of their keys, no two of which are equal.
SortedBy(S, key) ==
  [i \in 1 .. Cardinality(S) |->
     CHOOSE x \in S : Cardinality({y \in S : key[y] < key[x]}) = i - 1]

\* Fault: whatever parts have landed are shown.
EveryPart(parts) == parts

\* The parts up to the first number that is missing.
ContiguousPartsPrefix(parts) ==
  LET gapless == {k \in 0 .. Len(parts) :
                    \A i \in 1 .. k : parts[i].at.part = i - 1}
  IN  SubSeq(parts, 1, Max(gapless))

\* Of the parts of one segment, in order (compareCommitPosition), those that
\* show.
VisibleParts(parts) ==
  ContiguousPartsPrefix(SortedBy(parts, [c \in parts |-> c.at.part]))

\* All that was committed at sequence number n of one track.
CommittedSegment(C, n) ==
  LET here  == {c \in C : c.at.seq = n}
      parts == {c \in here : c.at.part # NoPart}
  IN  [seq   |-> n,
       full  |-> here \ parts,
       parts |-> VisibleParts(parts)]

HasObjects(segment) == segment.full # {} \/ segment.parts # <<>>

\* The segments of one track's commits, in order, without those of which
\* nothing shows yet.
FinalizedSegments(C) ==
  LET built   == {CommittedSegment(C, n) : n \in SeqsOf(C)}
      visible == {x \in built : HasObjects(x)}
  IN  SortedBy(visible, [x \in visible |-> x.seq])

\* slice(-max)
LimitedSegments(segments, max) ==
  SubSeq(segments, Max({1, Len(segments) - max + 1}), Len(segments))

\* The track's segments in the window of size max.
TrackWindow(C, t, max) ==
  LimitedSegments(FinalizedSegments(OnTrack(C, t)), max)

\* A track of which nothing shows is left out of the window.
TracksIn(C) == {t \in Tracks : FinalizedSegments(OnTrack(C, t)) # <<>>}

Window(C, max) == [t \in TracksIn(C) |-> TrackWindow(C, t, max)]

\* The commits that a window refers to.
ObjectsOf(segments) ==
  UNION {x.full \cup ToSet(x.parts) : x \in ToSet(segments)}

----------------------------------------------------------------------------
(***************************************************************************)
(* Measuring it.                                                           *)
(***************************************************************************)

\* Fault: the bounds of the window are those of one of its tracks.
OneTracksSeqs(window) ==
  LET t == CHOOSE u \in DOMAIN window : TRUE
  IN  {x.seq : x \in ToSet(window[t])}

WindowSeqs(window) ==
  {x.seq : x \in UNION {ToSet(window[t]) : t \in DOMAIN window}}

\* lastVisiblePartNumber: the tracks whose last segment is the window's.
LastVisiblePart(window) ==
  LET lasts == {Last(window[t]) : t \in DOMAIN window}
      atEdge == {x \in lasts : x.seq = Max(WindowSeqs(window)) /\ x.parts # <<>>}
  IN  IF atEdge = {} THEN NoPart ELSE Max({Last(x.parts).at.part : x \in atEdge})

\* The cursor that is stored: the window, and its bounds beside it.
CursorDocument(window) ==
  [tracks |-> window,
   first  |-> Min(WindowSeqs(window)),
   last   |-> Max(WindowSeqs(window)),
   part   |-> LastVisiblePart(window)]

\* Where one track's window ends.
TrackBounds(segments) ==
  LET edge == Last(segments)
  IN  [seq  |-> edge.seq,
       part |-> IF edge.parts = <<>> THEN NoPart ELSE Last(edge.parts).at.part]

----------------------------------------------------------------------------
(***************************************************************************)
(* Validating it.                                                          *)
(***************************************************************************)

Increasing(numbers) ==
  \A i \in 1 .. Len(numbers) - 1 : numbers[i] < numbers[i + 1]

\* A segment refers to an object of its own or to parts, in order.
ValidSegment(segment) ==
  /\ segment.full # {} \/ segment.parts # <<>>
  /\ Cardinality(segment.full) <= 1
  /\ Increasing([i \in DOMAIN segment.parts |-> segment.parts[i].at.part])

\* Segments are there, in order, at distinct positions.
ValidTrackWindow(segments) ==
  /\ segments # <<>>
  /\ \A i \in DOMAIN segments : ValidSegment(segments[i])
  /\ Increasing([i \in DOMAIN segments |-> segments[i].seq])

ValidWindow(window) ==
  /\ DOMAIN window # {}
  /\ \A t \in DOMAIN window : ValidTrackWindow(window[t])

\* The stored bounds are those of the stored window.
ValidCursor(document) ==
  /\ ValidWindow(document.tracks)
  /\ document.first <= document.last
  /\ document.first = Min(WindowSeqs(document.tracks))
  /\ document.last = Max(WindowSeqs(document.tracks))
  /\ document.part \in {NoPart, LastVisiblePart(document.tracks)}

----------------------------------------------------------------------------
(***************************************************************************)
(* Properties.                                                             *)
(***************************************************************************)

\* Sorting, grouping and cutting the recorded commits makes the very window
\* that the pipeline's rules speak of, whatever the order they came in and
\* whatever the size asked for.
WindowsAgree ==
  \A max \in WindowSizes :
    LET window == Window(commits, max)
    IN  /\ UNION {ObjectsOf(window[t]) : t \in DOMAIN window}
             = VisibleMedia(commits, max)
        /\ window # <<>> => ValidWindow(window)

\* The position that decides whether a cursor is stale is the one that is
\* stored beside the window, and the store accepts the cursor on each load.
StoredCursorLoads ==
  cursor.media # {} =>
    LET media == cursor.media
        document ==
          CursorDocument(Window(media, Cardinality(SeqsOf(media))))
    IN  /\ ValidCursor(document)
        /\ document.last = LastSeq(media)
        /\ document.part = LastPart(media)

=============================================================================
