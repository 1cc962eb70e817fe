--------------------------- MODULE MCArtifactStore --------------------------
(* Instance of ArtifactStore for TLC.  Invocations are interchangeable, and  *)
(* every property of the runs is a safety property.                          *)
EXTENDS ArtifactStore, TLC

Symmetry == Permutations(Invocations)
=============================================================================
