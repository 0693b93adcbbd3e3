----------------------------- MODULE ReleaseLine -----------------------------
(***************************************************************************)
(* What the release pipeline promises about one version: the tag of an     *)
(* image is set once and never moves, and a release is approved only when  *)
(* every image has its tag, for exactly the digests under the tags.  So    *)
(* all approvals of a version name the same images.                        *)
(***************************************************************************)
EXTENDS Naturals

CONSTANTS Images, Digests, None

VARIABLES
  tag,      (* digest published under the version's tag of each image      *)
  approved  (* the releases promoted so far: a digest for each image       *)

vars == <<tag, approved>>

Init == tag = [c \in Images |-> None] /\ approved = {}

Publish(c) ==
  /\ tag[c] = None /\ tag'[c] \in Digests
  /\ tag' = [tag EXCEPT ![c] = tag'[c]]
  /\ UNCHANGED approved

Approve ==
  /\ \A c \in Images : tag[c] # None
  /\ approved' = {tag}
  /\ UNCHANGED tag

Next == Approve \/ \E c \in Images : Publish(c)

Spec == Init /\ [][Next]_vars
=============================================================================
