------------------------- MODULE MCStorageIdentity -------------------------
(* Small instances of StorageIdentity for TLC.                             *)
EXTENDS StorageIdentity, TLC

CONSTANTS s1, s2, c1, c2, k1, k2, t1, t2

(* One profile, and a second one of another cluster name and Secret.       *)
OneProfile == {[cluster |-> c1, secret |-> k1, persistent |-> TRUE]}
TwoProfiles == OneProfile \cup {[cluster |-> c2, secret |-> k2, persistent |-> TRUE]}
AllKinds == TwoProfiles \cup {[cluster |-> c1, secret |-> k1, persistent |-> FALSE]}

Symmetry == Permutations(Sessions) \cup Permutations(Tenants)
=============================================================================
