--------------------------- MODULE CursorNotifier ---------------------------
(***************************************************************************)
(* The in-process notifier of one session: it keeps the latest cursor it   *)
(* has been told of and the readers parked until there is a newer one      *)
(* (src/olos/src/runtime/cursor-notifier.ts).  Its calls are synchronous,  *)
(* so each is atomic; BlockingReload composes it with those who call it.   *)
(*                                                                         *)
(* Of a cursor's window only the live edge of every track matters here.    *)
(***************************************************************************)
EXTENDS Integers, FiniteSets

CONSTANTS
  Tracks,   \* track ids of the session
  Edges,    \* live edges tracks can reach, [seq, part]
  Readers   \* playlist requests in progress

\* The part of an edge whose segment has no parts (SEGMENT_ONLY_..._ORDER).
NoPart == -1

ASSUME NotifierAssumption ==
  /\ Edges \subseteq [seq : Nat, part : Nat \cup {NoPart}]
  /\ IsFiniteSet(Tracks)
  /\ Tracks # {}

VARIABLES
  latest,  \* the cursor in the notifier's map, NoCursor when there is none
  waiters  \* parked readers, each with the cursor it has seen

SessionStates == {"live", "ending", "ended", "aborted"}

\* The edge of a track that shows nothing yet; it lies behind every other.
NoEdge == [seq |-> -1, part |-> NoPart]

Cursors == [edge : [Tracks -> Edges \cup {NoEdge}], state : SessionStates]

NoCursor == [edge |-> [t \in Tracks |-> NoEdge], state |-> "live"]

\* A cursor exists once some track shows something.
Published(c) == \E t \in Tracks : c.edge[t] # NoEdge

IsEndOfStream(c) == c.state \in {"ended", "aborted"}

EdgeBehind(e, f) == e.seq < f.seq \/ (e.seq = f.seq /\ e.part < f.part)

\* Some track is ahead of all tracks of d.  That is the order of the
\* positions of the cursors, each the foremost edge of its tracks.
Ahead(c, d) == \E t \in Tracks : \A u \in Tracks : EdgeBehind(d.edge[u], c.edge[t])

\* Fault: any cursor but the one already seen is an update.
AnyOtherCursor(c, after) == c # after

\* At one position any difference is an update: a lagging track that catches
\* up does not move the position, nor does a closing session.
IsCursorUpdateAfter(c, after) ==
  \/ Ahead(c, after)
  \/ ~Ahead(after, c) /\ c # after

Woken(c) == {w \in waiters : IsCursorUpdateAfter(c, w.after)}

\* Fault: a session is not forgotten when it ends.
NeverForgotten(c) == c

\* A terminal cursor evicts its session.
Remembered(c) == IF IsEndOfStream(c) THEN NoCursor ELSE c

\* notify: the cursor becomes the latest one in whatever order the callers
\* come.
Notify(c) ==
  /\ latest' = Remembered(c)
  /\ waiters' = waiters \ Woken(c)

\* Fault: a reader that has to wait does not look at the latest cursor first.
LatestUnseen(c) == FALSE

\* waitForCursor returns the latest cursor at once if it is an update ...
LatestIsUpdate(c) == Published(latest) /\ IsCursorUpdateAfter(latest, c)

\* ... and registers the reader otherwise.
Park(r, c) ==
  /\ ~LatestIsUpdate(c)
  /\ waiters' = waiters \cup {[reader |-> r, after |-> c]}
  /\ UNCHANGED latest

\* Fault: the entry of a reader that gives up stays behind.
LeaveEntry(r) == UNCHANGED <<latest, waiters>>

\* The abort listener takes the reader's entry out again.
Abort(r) ==
  /\ waiters' = {w \in waiters : w.reader # r}
  /\ UNCHANGED latest

=============================================================================
