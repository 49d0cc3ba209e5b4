-------------------------- MODULE MCBlockingReload --------------------------
(***************************************************************************)
(* Instances of BlockingReload for TLC: two tracks that can each reach a   *)
(* part of a segment and then the next segment, which has no parts, and    *)
(* readers of one of them whose request is blocked at first, blocked to    *)
(* the end, answered by a segment without parts, or too far ahead.         *)
(***************************************************************************)
EXTENDS BlockingReload

CONSTANTS v, a

MCTracks == {v, a}

MCEdges == {[seq |-> 0, part |-> 0], [seq |-> 1, part |-> NoPart]}

MCRequests ==
  {[track |-> v, seq |-> 0, part |-> 1],
   [track |-> v, seq |-> 1, part |-> 1],
   [track |-> v, seq |-> 2, part |-> NoPart],
   [track |-> v, seq |-> 3, part |-> NoPart]}

=============================================================================
