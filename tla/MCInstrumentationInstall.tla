---------------------- MODULE MCInstrumentationInstall ----------------------
(* Instances of InstrumentationInstall for TLC.                            *)
EXTENDS InstrumentationInstall, TLC

CONSTANTS s1, s2, r1, r2, a, b, o1, o2, k1, k2

Select(ns, name) ==
  [enabled |-> TRUE, promoted |-> TRUE, namespaces |-> ns, client |-> name,
   serving |-> name, supplied |-> 0]

OwnHomes == r1 :> o1 @@ r2 :> o2

(* A scope and a larger one with the same Secrets, an overlapping one with *)
(* Secrets of its own, and a profile that is refused: a disabled one.      *)
Overlapping == {Select({a}, k1), Select({a, b}, k1), Select({b}, k2)}
Disabled == {[Select({a}, k1) EXCEPT !.enabled = FALSE]}
Mixed == Overlapping \cup Disabled

(* Terminals may be exchanged, and releases together with their operators' *)
(* namespaces.                                                             *)
SameReleases == r1 :> r1 @@ r2 :> r2 @@ o1 :> o1 @@ o2 :> o2
OtherReleases == r1 :> r2 @@ r2 :> r1 @@ o1 :> o2 @@ o2 :> o1
Symmetry ==
  {terminals @@ releases :
     terminals \in Permutations({s1, s2}), releases \in {SameReleases, OtherReleases}}
=============================================================================
