------------------------- MODULE MCReleasePipeline -------------------------
(* Small instances of ReleasePipeline for TLC.  The sets of sessions,      *)
(* evidence directories, images and platforms are sets of model values of  *)
(* which nothing singles out a member; images only when none is audited,   *)
(* or all are.                                                             *)
EXTENDS ReleasePipeline, TLC

CONSTANTS s1, s2, d1, d2, p1, p2, collector, beyla

Symmetry == Permutations(Sessions) \cup Permutations(Dirs)
            \cup Permutations(Platforms) \cup Permutations(Images)
=============================================================================
