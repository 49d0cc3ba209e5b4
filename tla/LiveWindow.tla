---------------------------- MODULE LiveWindow -----------------------------
(***************************************************************************)
(* What the coordinator promises a player that polls the cursor, however   *)
(* the poll is served: between any two reads, of each track                *)
(*                                                                         *)
(*   - objects leave the window only from its front, and never all of them *)
(*   - objects join it only at the live edge, never behind it, where a     *)
(*     player has already read past                                        *)
(*   - the parts of a segment are always there from part 0 on              *)
(*   - an init object once announced stays the track's only one            *)
(*                                                                         *)
(* and the session state on the cursor follows the session lifecycle: an   *)
(* aborted session publishes nothing more.                                 *)
(*                                                                         *)
(* An object is a record with a field at = [track, kind, seq, part], where *)
(* part is -1 for an object that is a whole segment.                       *)
(***************************************************************************)
EXTENDS Integers

VARIABLES
  media,  \* the visible segment and part objects
  inits,  \* the init objects of the visible tracks
  state   \* the session state

window == <<media, inits>>

Track(objects, t) == {o \in objects : o.at.track = t}

\* What left the window lies wholly before what its track still shows.
TrimmedAtFront ==
  \A o \in media \ media' :
    /\ Track(media', o.at.track) # {}
    /\ \A p \in Track(media', o.at.track) : o.at.seq < p.at.seq

\* What joined the window lies at or past the edge its track had.  Joining
\* at the edge are later parts, or the full segment the parts belong to.
AppendedAtEdge ==
  \A o \in media' \ media : \A p \in Track(media, o.at.track) :
    \/ p.at.seq < o.at.seq
    \/ /\ p.at.seq = o.at.seq
       /\ p.at.part < o.at.part \/ o.at.part = -1

PartsFromZero ==
  \A o \in media' : \A n \in 0 .. o.at.part - 1 :
    \E p \in Track(media', o.at.track) :
      p.at.seq = o.at.seq /\ p.at.part = n

InitsStay ==
  /\ inits \subseteq inits'
  /\ \A c, d \in inits' : c.at.track = d.at.track => c = d
  /\ \A c \in inits' : Track(media', c.at.track) # {}

----------------------------------------------------------------------------

Init ==
  /\ media = {}
  /\ inits = {}
  /\ state = "live"

Publish ==
  /\ state # "aborted"
  /\ window' # window
  /\ media' # {}
  /\ TrimmedAtFront
  /\ AppendedAtEdge
  /\ PartsFromZero
  /\ InitsStay
  /\ UNCHANGED state

Close ==
  /\ \/ state = "live" /\ state' \in {"ending", "aborted"}
     \/ state = "ending" /\ state' = "ended"
  /\ UNCHANGED window

Next == Publish \/ Close

Spec == Init /\ [][Next]_<<media, inits, state>>

=============================================================================
