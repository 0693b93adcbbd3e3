----------------------------- MODULE MCSdkPipeline -----------------------------
(* A small instance of SdkPipeline for TLC.  Its run checks a liveness      *)
(* property, so that no symmetry is declared.                               *)
EXTENDS SdkPipeline

CONSTANTS s1, s2, d1, p1, operator
=============================================================================
