------------------------- MODULE MCByterangeStream -------------------------
(***************************************************************************)
(* Three parts, and ranges that end in the first, in the last, and past    *)
(* them all.                                                               *)
(***************************************************************************)
EXTENDS ByterangeStream

MCLayout ==
  <<[offset |-> 0, length |-> 2], [offset |-> 2, length |-> 1],
    [offset |-> 3, length |-> 2]>>

MCStarts == {-1, 0, 1}

MCEnds == {Open, 0, 3, 6, VeryLarge}

MCOpen == -1

=============================================================================
