----------------------------- MODULE SecretGrants -----------------------------
(***************************************************************************)
(* What the installers of instrumentation releases promise each other,     *)
(* although they do not know of each other: a Secret is made once, where   *)
(* there is none, and is never replaced nor changes hands until an         *)
(* administrator empties its place; and a release puts into force only     *)
(* what uses Secrets of its own, all made for one gateway.  So no two      *)
(* releases ever use one Secret.  Places an administrator has emptied once *)
(* are out of the promise.                                                 *)
(***************************************************************************)
CONSTANTS
  Releases,
  Places,   (* where a Secret can be                                       *)
  Secrets,  (* records with the owner and the gateway's CA                 *)
  None      (* no Secret                                                   *)

VARIABLES
  holds,    (* the Secret in each place, or None                           *)
  uses,     (* the places what each release has in force relies on         *)
  emptied   (* places an administrator has emptied                         *)

vars == <<holds, uses, emptied>>

(* These places hold Secrets of r, of one gateway.                         *)
Provided(r, places) ==
  \A x \in places \ emptied :
    /\ holds[x] # None /\ holds[x].owner = r
    /\ \A y \in places \ emptied : holds[x].ca = holds[y].ca

Granted(r) == Provided(r, uses[r])

Init ==
  /\ holds = [x \in Places |-> None]
  /\ uses = [r \in Releases |-> {}]
  /\ emptied = {}

Make(x) ==
  /\ holds[x] = None /\ holds'[x] \in Secrets
  /\ holds' = [holds EXCEPT ![x] = holds'[x]]
  /\ UNCHANGED <<uses, emptied>>

Empty(x) ==
  /\ holds[x] # None
  /\ holds' = [holds EXCEPT ![x] = None] /\ emptied' = emptied \cup {x}
  /\ UNCHANGED uses

(* A release puts something else into force, or nothing any more.          *)
Enforce(r) ==
  /\ uses'[r] # uses[r] /\ uses'[r] \in SUBSET Places
  /\ uses' = [uses EXCEPT ![r] = uses'[r]]
  /\ Granted(r)'
  /\ UNCHANGED <<holds, emptied>>

Next == (\E x \in Places : Make(x) \/ Empty(x)) \/ \E r \in Releases : Enforce(r)

Spec == Init /\ [][Next]_vars

(* No two releases rely on one Secret.                                     *)
NotShared ==
  \A q, r \in Releases : q # r => uses[q] \cap uses[r] \subseteq emptied
===============================================================================
