--------------------------- MODULE ClaimLifecycle ---------------------------
(***************************************************************************)
(* What the command line tool promises about the claim of a gateway queue, *)
(* whatever runs concurrently: a claim is reserved once, when it comes     *)
(* into being, for one identity; only the invocation that learned from its *)
(* own create call that it made the claim may bind it, and only to that    *)
(* identity; a reservation nobody holds any more stays a reservation until *)
(* an administrator removes the claim; nothing is ever adopted.            *)
(***************************************************************************)
CONSTANTS
  Sessions, (* invocations of the tool              *)
  Owners,   (* identities a claim can be kept for   *)
  Names,    (* UIDs of claims                       *)
  None      (* no claim                             *)

VARIABLES
  life,     (* the claim under the fixed name, or None           *)
  holders   (* the invocations that know they made this claim    *)

Claims(state, owners) == [uid : Names, state : {state}, owner : owners]

TypeOK ==
  /\ life \in Claims("foreign", {None}) \cup Claims("reserved", Owners)
               \cup Claims("bound", Owners) \cup {None}
  /\ holders \subseteq Sessions

Init == life = None /\ holders = {}

(* A session creates the claim.  If the answer is lost, nobody holds it.   *)
Reserve ==
  /\ life = None
  /\ life' \in Claims("reserved", Owners)
  /\ holders' = {} \/ \E s \in Sessions : holders' = {s}

(* Something else creates it.                                              *)
Appear ==
  /\ life = None
  /\ life' \in Claims("foreign", {None})
  /\ holders' = {}

(* The holder binds the claim it reserved; it may end with that.           *)
Bind ==
  /\ life # None /\ life.state = "reserved"
  /\ \E s \in holders : holders' \in {holders, holders \ {s}}
  /\ life' = [life EXCEPT !.state = "bound"]

(* The holder ends.                                                        *)
Release == \E s \in holders : holders' = holders \ {s} /\ UNCHANGED life

(* An administrator removes the claim.                                     *)
Remove == life # None /\ life' = None /\ holders' = {}

Next == Reserve \/ Appear \/ Bind \/ Release \/ Remove

Spec == Init /\ [][Next]_<<life, holders>>
=============================================================================
