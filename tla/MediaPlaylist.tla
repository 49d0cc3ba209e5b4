---------------------------- MODULE MediaPlaylist ----------------------------
(***************************************************************************)
(* The HLS playlists of one session (src/olos/src/hls): the pipeline of    *)
(* Coordinator, the window profile that the media hook leaves in the       *)
(* cursor (src/olos/src/media/window.ts), and what is rendered of both.    *)
(* Lines of text are abstracted to records: of a segment its sequence      *)
(* number, whether a discontinuity precedes it, the parts that are listed  *)
(* and whether the segment itself is.                                      *)
(*                                                                         *)
(* What objects contain is the publisher's and fixed by position: their    *)
(* durations, and before which segments a discontinuity lies, which both   *)
(* the segment's object and its part 0 say.                                *)
(***************************************************************************)
EXTENDS WindowDocument

CONSTANTS
  Discontinuities,  \* sequence numbers before which the stream breaks
  SegmentTicks,     \* duration of a full segment
  PartTicks,        \* duration of a part
  RetainWithin      \* how far from the end a full segment keeps its parts:
                    \* three target durations

ASSUME PlaylistAssumption ==
  /\ Discontinuities \subseteq Seqs
  /\ SegmentTicks \in Nat \ {0}
  /\ PartTicks \in Nat \ {0}
  /\ RetainWithin \in Nat \ {0}

\* Per track, the discontinuities that its window profile counts; none where
\* the track has no profile and the session's baseline holds.
VARIABLE profile

hlsvars == <<vars, profile>>

PlaylistInit == Init /\ profile = [t \in Tracks |-> 0]

----------------------------------------------------------------------------
(***************************************************************************)
(* The window profile.                                                     *)
(***************************************************************************)

DiscontinuityBefore(segment) == segment.seq \in Discontinuities

\* The hook sees the segments that this build of the window has trimmed.
TrimmedDiscontinuities(C, t, max) ==
  LET all == FinalizedSegments(OnTrack(C, t))
      trimmed == SubSeq(all, 1, Len(all) - Len(LimitedSegments(all, max)))
  IN  Len(SelectSeq(trimmed, DiscontinuityBefore))

\* A commit that advances the cursor, which carries the new profiles.
Publish(s, max, committedAt, tolerance) ==
  LET window == VisibleMedia(RecordedMedia(s), max)
      stale == cursor.media # {} /\ Behind(window, cursor.media)
  IN  /\ CommitAdvances(s, max, committedAt, tolerance)
      /\ profile' = IF stale THEN profile
                    ELSE [t \in Tracks |->
                           TrimmedDiscontinuities(RecordedMedia(s), t, max)]

\* The other operations leave the window as it is.
Elsewhere ==
  \/ \E id \in SlotIds, a \in Positions, t \in Times : IssueSlot(id, a, t)
  \/ \E s \in slots, max \in WindowSizes, t \in Times, tol \in LateTolerances :
       CommitHeld(s, max, t, tol)
  \/ \E t \in Times, tol \in LateTolerances : ApplyRetention(t, tol)
  \/ \E s \in slots : RevokeUpload(s)
  \/ \E next \in SessionStates : TransitionSession(next)

PlaylistNext ==
  \/ \E s \in slots, max \in WindowSizes, t \in Times, tol \in LateTolerances :
       Publish(s, max, t, tol)
  \/ Elsewhere /\ UNCHANGED profile

PlaylistSpec == PlaylistInit /\ [][PlaylistNext]_hlsvars

----------------------------------------------------------------------------
(***************************************************************************)
(* Media playlists.                                                        *)
(***************************************************************************)

\* Every segment that a cursor shows of track t.
Shown(shown, t) == FinalizedSegments(OnTrack(shown.media, t))

\* mediaSegmentDuration: what the segment declares, or what its parts do.
Duration(segment) ==
  IF segment.full # {} THEN SegmentTicks ELSE Len(segment.parts) * PartTicks

DistanceFromEnd(segments, i) ==
  MapThenSumSet(LAMBDA j : Duration(segments[j]), i + 1 .. Len(segments))

PartNumbers(segment) == [i \in DOMAIN segment.parts |-> segment.parts[i].at.part]

\* A segment in progress lists its parts; a full one keeps its own for a while.
ListedParts(segments, i) ==
  IF segments[i].full = {} \/ DistanceFromEnd(segments, i) < RetainWithin
  THEN PartNumbers(segments[i])
  ELSE <<>>

Entry(segments, i) ==
  [seq           |-> segments[i].seq,
   discontinuity |-> DiscontinuityBefore(segments[i]),
   parts         |-> ListedParts(segments, i),
   full          |-> segments[i].full # {}]

IsEndOfStream(state) == state \in {"ended", "aborted"}

\* A track that the window shows, and whose init object is in it: rendering
\* throws on any other.
Renders(t) ==
  /\ OnTrack(cursor.media, t) # {}
  /\ OnTrack(cursor.inits, t) # {}

PlaylistOf(shown, discontinuities, t) ==
  LET segments == Shown(shown, t)
  IN  [mediaSequence         |-> Head(segments).seq,
       discontinuitySequence |-> discontinuities,
       entries               |-> [i \in DOMAIN segments |-> Entry(segments, i)],
       endlist               |-> IsEndOfStream(shown.state)]

MediaPlaylist(t) == PlaylistOf(cursor, profile[t], t)

----------------------------------------------------------------------------
(***************************************************************************)
(* The master playlist, for a session whose tracks are video, or audio in  *)
(* a group that may be chosen from, or muxed into the video.               *)
(***************************************************************************)

Available == {t \in Tracks : OnTrack(cursor.media, t) # {}}

\* There is no master playlist without a video track to list.
HasMaster(video) == video \cap Available # {}

\* The tracks whose playlists the master refers to: a variant for each video
\* track and an alternative for each track of the audio group.
Advertised(video, grouped) == (video \cup grouped) \cap Available

\* The audio codecs that every variant names: those of the group's tracks that
\* are there, or of all muxed audio.
VariantAudio(audio, grouped) == IF grouped = {} THEN audio ELSE grouped \cap Available

----------------------------------------------------------------------------
(***************************************************************************)
(* Blocking requests, answered at once.                                    *)
(***************************************************************************)

\* Fault: the edge of the window is taken for the track's.
WindowEdge(t) == [seq |-> LastSeq(cursor.media), part |-> LastPart(cursor.media)]

\* Fault: the edge is that of the recorded commits, whatever of them shows.
RecordedEdge(t) ==
  LET own == OnTrack(commits, t)
  IN  [seq |-> LastSeq(own), part |-> LastPart(own)]

TrackEdge(t) == TrackBounds(Shown(cursor, t))

\* A request for part p of segment n, or for segment n with p = NoPart, does
\* not block.  A tail without parts answers for any of them.
ReadyFor(t, n, p) ==
  LET edge == TrackEdge(t)
  IN  \/ n < edge.seq
      \/ n = edge.seq /\ (edge.part = NoPart \/ p <= edge.part)

----------------------------------------------------------------------------
(***************************************************************************)
(* Properties.                                                             *)
(***************************************************************************)

\* Whoever asked for a position and is not held finds it in the playlist that
\* is rendered of the same cursor, or finds that the playlist has gone past it:
\* the edge is measured on another structure than the one that is rendered.
ReadyMeansListed ==
  \A t \in Available :
    LET entries == ToSet(MediaPlaylist(t).entries)
    IN  \A n \in Seqs, p \in Parts \cup {NoPart} :
          ReadyFor(t, n, p) =>
            \E e \in entries :
              \/ e.seq > n
              \/ e.seq = n /\ (p = NoPart \/ e.full \/ p \in ToSet(e.parts))

\* "Every advertised URI resolves" (manifest-artifacts.ts), and goes on doing
\* so: however the tracks are divided into video and audio, a master playlist
\* never goes away, nothing it lists does, and no playlist that rendered once
\* is refused later for want of its init object.
AdvertisedStay ==
  [][\A video \in SUBSET Tracks : \A grouped \in SUBSET (Tracks \ video) :
       LET listed == Advertised(video, grouped)
       IN  HasMaster(video) =>
             /\ HasMaster(video)'
             /\ listed \subseteq Advertised(video, grouped)'
             /\ VariantAudio(grouped, grouped) \subseteq
                  VariantAudio(grouped, grouped)'
             /\ \A t \in listed : Renders(t) => Renders(t)']_hlsvars

\* What a player has of the old playlist it can go on with in the new one.  An
\* entry is listed until the window has moved past it, keeps what it listed
\* and becomes a full segment at most; only the last one may still gain
\* anything, and entries join only behind it.
Continues(old, new) ==
  LET before == ToSet(old.entries)
      after  == ToSet(new.entries)
      edge   == Last(old.entries)
      Keeps(e, f) == /\ e.full => f.full
                     /\ f.full \/ ToSet(e.parts) \subseteq ToSet(f.parts)
  IN  /\ old.mediaSequence <= new.mediaSequence
      /\ old.endlist => new.endlist
      /\ \A e \in before : e.seq >= new.mediaSequence =>
           \E f \in after : f.seq = e.seq /\ Keeps(e, f)
      /\ \A f \in after :
           \/ f.seq > edge.seq
           \/ \E e \in before :
                /\ e.seq = f.seq
                /\ \/ e = edge
                   \/ /\ f.full => e.full
                      /\ f.full \/ ToSet(f.parts) \subseteq ToSet(e.parts)

\* A player that polls a media playlist never finds that it missed something:
\* out-of-order and late commits, windows of changing sizes, retention and the
\* end of the session leave each playlist a continuation of the last, of a
\* track that still waits for its init object too.
PlaylistsGoOn ==
  [][cursor' # cursor =>
       \A next \in {cursor'}, t \in Available :
         /\ OnTrack(next.media, t) # {}
         /\ Continues(MediaPlaylist(t), PlaylistOf(next, profile'[t], t))]_hlsvars

\* "When a track trims a leading segment whose segment object carries
\* discontinuityBefore, that track's discontinuity sequence MUST count it"
\* (spec/08-hls-mapping.md): what has been counted stays counted.
DiscontinuitySequenceNeverFalls ==
  [][\A t \in Tracks :
       Renders(t) /\ Renders(t)' =>
         MediaPlaylist(t).discontinuitySequence
           <= MediaPlaylist(t)'.discontinuitySequence]_hlsvars

=============================================================================
