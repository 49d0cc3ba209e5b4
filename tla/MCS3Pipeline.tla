---------------------------- MODULE MCS3Pipeline ----------------------------
EXTENDS S3Pipeline

S3Symmetry == Permutations(Handlers) \cup Permutations(SlotIds)
=============================================================================
