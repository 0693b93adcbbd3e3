--------------------------- MODULE MCSourceClaims ---------------------------
(* Instances of SourceClaims for TLC.                                      *)
EXTENDS SourceClaims, TLC

CONSTANTS s1, s2, r1, r2, a, b

Collect(modules, namespaces) ==
  [modules |-> modules, namespaces |-> namespaces, annotated |-> TRUE]
Older(agents) == [agents EXCEPT !.annotated = FALSE]

(* Profiles that are disjoint, that share a signal and not a namespace,    *)
(* a namespace and not a signal, or the kubelets only.                     *)
NodeProfiles ==
  {Collect({"logs"}, {a}), Collect({"logs"}, {b}),
   Collect({"ebpf"}, {a}), Collect({"kubeletMetrics", "logs"}, {b})}
OlderAgents == {Older(Collect({"logs"}, {a})), Older(Collect({"kubeletMetrics"}, {b}))}

ClusterProfiles == {Collect({"clusterMetrics"}, {}), Collect({"clusterMetrics", "logs"}, {a})}

Symmetry == Permutations(Sessions) \cup Permutations(Releases)
=============================================================================
