------------------------ MODULE StorageIdentityProofs ------------------------
(***************************************************************************)
(* Proofs about StorageIdentity for every set of sessions, profiles,       *)
(* Secrets and tenants, and every bound.  The invariant IInv says what an  *)
(* invocation holds in hand at each of its steps.                          *)
(***************************************************************************)
EXTENDS StorageIdentity, TLAPS

(* What an invocation remembers when it is at a step.                      *)
InHand(me) ==
  /\ me.at \notin Ended \cup {"settings"} => me.profile # None
  /\ me.at \in {"sts", "installed", "secret", "patch"} =>
       me.seenClaim # None /\ me.seenClaim.receipt # None
  /\ me.at \in {"secret", "patch"} => me.seenSts # None
  /\ me.at \in {"create", "patch"} => me.seenSecret # None
  /\ me.at = "patch" =>
       /\ me.stage = "confirm"
       /\ me.seenClaim.receipt = Reserved(me.profile, me.seenSecret)
       /\ me.seenClaim.uid = me.reserved

SessionsOK ==
  /\ session \in [Sessions -> SessionState]
  /\ \A s \in Sessions : InHand(session[s]) /\ session[s].reserved <= lastUID

ClusterOK ==
  /\ namespace \in BOOLEAN
  /\ secrets \in [SecretNames -> Secret \cup {None}]
  /\ claim \in Claim \cup {None}
  /\ sts \in StatefulSet \cup {None}
  /\ installed \in Profile \cup {None}
  /\ history \in Seq(Profile)
  /\ pending \subseteq Sessions
  /\ lastUID \in Nat
  /\ runs \in Nat /\ admin \in Nat
  /\ queued \subseteq Tenants /\ disturbed \subseteq Sessions
  /\ claim # None => claim.uid <= lastUID
  /\ ReceiptNamesItsClaim

IInv == SessionsOK /\ ClusterOK

(* The inductive invariant contains the type invariant.                    *)
LEMMA IInvTypes == IInv => TypeOK /\ ReceiptNamesItsClaim
  BY DEF IInv, SessionsOK, ClusterOK, TypeOK

-----------------------------------------------------------------------------
(* An ended or fresh session is well formed.                               *)
LEMMA BlankOK ==
  ASSUME NEW loc \in Ended
  PROVE  LET b == [Blank EXCEPT !.at = loc]
         IN  b \in SessionState /\ InHand(b) /\ b.reserved = 0 /\ b.at = loc
  BY DEF Blank, SessionState, InHand, Ended, Locations, Stages, Commands, NoUID

(* Replacing the state of one session by a well-formed one.                *)
LEMMA SetOK ==
  ASSUME SessionsOK, NEW s \in Sessions, NEW st \in SessionState,
         InHand(st), st.reserved <= lastUID', Set(s, st),
         lastUID \in Nat, lastUID' \in Nat, lastUID <= lastUID'
  PROVE  SessionsOK'
<1>1. session' \in [Sessions -> SessionState]
  BY DEF SessionsOK, Set
<1>2. ASSUME NEW r \in Sessions PROVE InHand(session'[r]) /\ session'[r].reserved <= lastUID'
  <2>1. CASE r = s BY <2>1 DEF SessionsOK, Set
  <2>2. CASE r # s
    <3>1. session'[r] = session[r] /\ session[r] \in SessionState BY <2>2 DEF SessionsOK, Set
    <3>2. session[r].reserved \in Nat /\ session[r].reserved <= lastUID
      BY <3>1 DEF SessionsOK, SessionState
    <3>. QED BY <3>1, <3>2 DEF SessionsOK
  <2>. QED BY <2>1, <2>2
<1>. QED BY <1>1, <1>2 DEF SessionsOK, InHand, Reserved, IdentityOf, NoUID, Ended

LEMMA EndOK ==
  ASSUME SessionsOK, NEW s \in Sessions, Fail(s) \/ Succeed(s),
         lastUID \in Nat, lastUID' \in Nat, lastUID <= lastUID'
  PROVE  SessionsOK'
<1>1. ASSUME NEW loc \in Ended, Set(s, [Blank EXCEPT !.at = loc]) PROVE SessionsOK'
  <2> DEFINE b == [Blank EXCEPT !.at = loc]
  <2>1. b \in SessionState /\ InHand(b) /\ b.reserved = 0 BY BlankOK
  <2>2. b.reserved <= lastUID' BY <2>1
  <2>. HIDE DEF b
  <2>. QED BY <1>1, <2>1, <2>2, SetOK DEF b
<1>2. CASE Fail(s) BY <1>2, <1>1 DEF Fail, Ended
<1>3. CASE Succeed(s) BY <1>3, <1>1 DEF Succeed, Ended
<1>. QED BY <1>2, <1>3

(* Moving a session, keeping what it has in hand.                          *)
LEMMA GotoOK ==
  ASSUME SessionsOK, NEW s \in Sessions, NEW loc \in Locations, Goto(s, loc),
         InHand([session[s] EXCEPT !.at = loc]),
         lastUID \in Nat, lastUID' = lastUID
  PROVE  SessionsOK'
<1> DEFINE st == [session[s] EXCEPT !.at = loc]
<1>1. session[s] \in SessionState /\ session[s].reserved <= lastUID
  BY DEF SessionsOK
<1>2. st \in SessionState /\ st.reserved = session[s].reserved
  BY <1>1 DEF SessionState
<1>3. Set(s, st) BY DEF Goto
<1>4. st.reserved <= lastUID' BY <1>1, <1>2
<1>5. InHand(st) OBVIOUS
<1>. HIDE DEF st
<1>. QED BY <1>2, <1>3, <1>4, <1>5, SetOK

-----------------------------------------------------------------------------
(* Steps that only read.                                                   *)

LEMMA Typed ==
  ASSUME IInv, NEW s \in Sessions
  PROVE  /\ session[s] \in SessionState /\ InHand(session[s])
         /\ session[s].reserved \in Nat /\ session[s].reserved <= lastUID
         /\ lastUID \in Nat
BY DEF IInv, SessionsOK, ClusterOK, SessionState

LEMMA UnmovedOK == ASSUME IInv, Unmoved PROVE ClusterOK'
BY DEF IInv, ClusterOK, Unmoved, objects, release, ReceiptNamesItsClaim, HasReceipt

(* Steps that move on or fail without anything new in hand.                *)
LEMMA MovesOK ==
  ASSUME IInv, NEW s \in Sessions, Unmoved,
         \/ ReadNamespace(s) \/ ReadRelease(s) \/ ReadInstalled(s)
         \/ ReadTarget(s) \/ ReadIngest(s) \/ Interrupted(s) \/ HelmOverrun(s)
  PROVE  SessionsOK'
<1> DEFINE me == session[s]
<1>1. me \in SessionState /\ InHand(me) /\ lastUID \in Nat /\ lastUID' = lastUID
  BY Typed DEF Unmoved
<1>2. SessionsOK BY DEF IInv
<1>3. ASSUME Fail(s) PROVE SessionsOK' BY <1>1, <1>2, <1>3, EndOK
<1>4. ASSUME NEW loc \in {"release", "mkns", "ingest", "helm", "target", "mksecret", "reserve", "claim"},
             Goto(s, loc), me.at \notin Ended \cup {"settings"}
      PROVE  SessionsOK'
  <2>1. loc \in Locations BY DEF Locations
  <2>2. InHand([me EXCEPT !.at = loc]) BY <1>1, <1>4 DEF InHand, SessionState
  <2>. QED BY <1>1, <1>2, <1>4, <2>1, <2>2, GotoOK
<1>5. CASE ReadNamespace(s) BY <1>5, <1>3, <1>4 DEF ReadNamespace, Ended
<1>6. CASE ReadRelease(s) BY <1>6, <1>3, <1>4 DEF ReadRelease, Ended
<1>7. CASE ReadInstalled(s)
  <2>1. CASE Fail(s) BY <2>1, <1>3
  <2>2. CASE Goto(s, "secret") /\ me.at = "installed" /\ me.seenSts # None
    <3>1. InHand([me EXCEPT !.at = "secret"]) BY <1>1, <2>2 DEF InHand, SessionState, Ended
    <3>2. "secret" \in Locations BY DEF Locations
    <3>. QED BY <1>1, <1>2, <2>2, <3>1, <3>2, GotoOK
  <2>. QED BY <1>7, <2>1, <2>2 DEF ReadInstalled
<1>8. CASE ReadTarget(s) BY <1>8, <1>3, <1>4 DEF ReadTarget, Ended
<1>9. CASE ReadIngest(s) BY <1>9, <1>3, <1>4 DEF ReadIngest, Ended
<1>10. CASE Interrupted(s) \/ HelmOverrun(s) BY <1>10, <1>3 DEF Interrupted, HelmOverrun
<1>. QED BY <1>5, <1>6, <1>7, <1>8, <1>9, <1>10

(* Reads that put something in hand.                                       *)
LEMMA SeesOK ==
  ASSUME IInv, NEW s \in Sessions, Unmoved,
         \/ ReadSettings(s) \/ ReadClaim(s) \/ ReadStatefulSet(s)
         \/ ReadReservation(s) \/ ReadReservationSecret(s) \/ ReadSecret(s)
  PROVE  SessionsOK'
<1> DEFINE me == session[s]
<1>1. /\ me \in SessionState /\ InHand(me) /\ lastUID \in Nat /\ lastUID' = lastUID
      /\ lastUID' \in Nat /\ lastUID <= lastUID' /\ me.reserved <= lastUID'
  BY Typed DEF Unmoved, SessionState
<1>2. SessionsOK BY DEF IInv
<1>3. ASSUME Fail(s) \/ Succeed(s) PROVE SessionsOK' BY <1>1, <1>2, <1>3, EndOK
<1>4. ASSUME NEW st \in SessionState, InHand(st), st.reserved = me.reserved, Set(s, st)
      PROVE  SessionsOK'
  BY <1>1, <1>2, <1>4, SetOK
<1>5. ASSUME NEW loc \in {"helm", "target", "ingest", "reserveSecret"},
             Goto(s, loc), me.at \notin Ended \cup {"settings"}
      PROVE  SessionsOK'
  <2>1. loc \in Locations BY DEF Locations
  <2>2. InHand([me EXCEPT !.at = loc]) BY <1>1, <1>5 DEF InHand, SessionState
  <2>. QED BY <1>1, <1>2, <1>5, <2>1, <2>2, GotoOK
<1>6. AfterCheck(s) \in {"helm", "target", "ingest"} BY DEF AfterCheck
<1>7. CASE ReadSettings(s)
  <2>1. CASE Fail(s) BY <2>1, <1>3
  <2> DEFINE st == [me EXCEPT !.at = "namespace", !.profile = installed]
  <2>2. CASE me.at = "settings" /\ installed # None /\ Set(s, st)
    <3>1. installed \in Profile BY <2>2 DEF IInv, ClusterOK
    <3>2. st \in SessionState /\ InHand(st) /\ st.reserved = me.reserved
      BY <1>1, <2>2, <3>1 DEF SessionState, InHand, Locations, Ended
    <3>. QED BY <2>2, <3>2, <1>4
  <2>. QED BY <1>7, <2>1, <2>2 DEF ReadSettings
<1>8. CASE ReadClaim(s)
  <2> DEFINE st == [me EXCEPT !.at = "sts", !.seenClaim = claim]
  <2>1. CASE Fail(s) BY <2>1, <1>3
  <2>2. CASE me.at = "claim" /\ Goto(s, AfterCheck(s)) BY <2>2, <1>5, <1>6 DEF Ended
  <2>3. CASE me.at = "claim" /\ claim # None /\ claim.receipt # None /\ Set(s, st)
    <3>1. claim \in Claim BY <2>3 DEF IInv, ClusterOK
    <3>2. st \in SessionState /\ InHand(st) /\ st.reserved = me.reserved
      BY <1>1, <2>3, <3>1 DEF SessionState, InHand, Locations, Ended
    <3>. QED BY <2>3, <3>2, <1>4
  <2>. QED BY <1>8, <2>1, <2>2, <2>3 DEF ReadClaim
<1>9. CASE ReadStatefulSet(s)
  <2> DEFINE st == [me EXCEPT !.at = "installed", !.seenSts = sts]
  <2>1. sts \in StatefulSet \cup {None} /\ me.at = "sts" /\ Set(s, st)
    BY <1>9 DEF IInv, ClusterOK, ReadStatefulSet
  <2>2. st \in SessionState /\ InHand(st) /\ st.reserved = me.reserved
    BY <1>1, <2>1 DEF SessionState, InHand, Locations, Ended
  <2>. QED BY <2>1, <2>2, <1>4
<1>10. CASE ReadReservation(s)
  <2> DEFINE st == [me EXCEPT !.at = "claim", !.stage = "reserve"]
  <2>1. CASE me.at = "reserve" /\ (Goto(s, "helm") \/ Goto(s, "reserveSecret"))
    BY <2>1, <1>5 DEF Ended
  <2>2. CASE me.at = "reserve" /\ Set(s, st)
    <3>1. st \in SessionState /\ InHand(st) /\ st.reserved = me.reserved
      BY <1>1, <2>2 DEF SessionState, InHand, Locations, Ended, Stages
    <3>. QED BY <2>2, <3>1, <1>4
  <2>. QED BY <1>10, <2>1, <2>2 DEF ReadReservation
<1>11. CASE ReadReservationSecret(s)
  <2> DEFINE sec == secrets[me.profile.secret]
             st == [me EXCEPT !.at = "create", !.seenSecret = sec]
  <2>1. CASE Fail(s) BY <2>1, <1>3
  <2>2. CASE me.at = "reserveSecret" /\ sec # None /\ Set(s, st)
    <3>1. me.profile \in Profile BY <1>1, <2>2 DEF InHand, SessionState, Ended
    <3>2. sec \in Secret BY <2>2, <3>1 DEF IInv, ClusterOK, Profile
    <3>3. st \in SessionState /\ InHand(st) /\ st.reserved = me.reserved
      BY <1>1, <2>2, <3>2 DEF SessionState, InHand, Locations, Ended
    <3>. QED BY <2>2, <3>3, <1>4
  <2>. QED BY <1>11, <2>1, <2>2 DEF ReadReservationSecret
<1>12. CASE ReadSecret(s)
  <2> DEFINE sec == secrets[me.profile.secret]
             st == [me EXCEPT !.at = "patch", !.seenSecret = sec]
  <2>1. CASE Fail(s) \/ Succeed(s) BY <2>1, <1>3
  <2>2. CASE me.at = "secret" /\ Goto(s, AfterCheck(s)) BY <2>2, <1>5, <1>6 DEF Ended
  <2>3. CASE /\ me.at = "secret" /\ me.stage = "confirm" /\ sec # None /\ Set(s, st)
             /\ me.seenClaim.receipt = Reserved(me.profile, sec)
             /\ me.seenClaim.uid = me.reserved
    <3>1. me.profile \in Profile BY <1>1, <2>3 DEF InHand, SessionState, Ended
    <3>2. sec \in Secret BY <2>3, <3>1 DEF IInv, ClusterOK, Profile
    <3>3. st \in SessionState /\ InHand(st) /\ st.reserved = me.reserved
      BY <1>1, <2>3, <3>2 DEF SessionState, InHand, Locations, Ended
    <3>. QED BY <2>3, <3>3, <1>4
  <2>. QED BY <1>12, <2>1, <2>2, <2>3 DEF ReadSecret, Agrees, MyReservation
<1>. QED BY <1>7, <1>8, <1>9, <1>10, <1>11, <1>12

-----------------------------------------------------------------------------
(* Steps that write.                                                       *)

LEMMA CreateNamespaceOK ==
  ASSUME IInv, NEW s \in Sessions, CreateNamespace(s) PROVE IInv'
<1>1. lastUID' = lastUID /\ lastUID \in Nat BY Typed DEF CreateNamespace
<1>2. SessionsOK'
  <2>1. CASE Fail(s) BY <1>1, <2>1, EndOK DEF IInv
  <2>2. CASE Goto(s, "mksecret") /\ session[s].at = "mkns"
    <3>1. InHand([session[s] EXCEPT !.at = "mksecret"])
      BY <2>2, Typed DEF InHand, SessionState, Ended
    <3>2. "mksecret" \in Locations BY DEF Locations
    <3>. QED BY <1>1, <2>2, <3>1, <3>2, GotoOK DEF IInv
  <2>. QED BY <2>1, <2>2 DEF CreateNamespace
<1>3. ClusterOK'
  BY DEF CreateNamespace, release, IInv, ClusterOK, ReceiptNamesItsClaim, HasReceipt
<1>. QED BY <1>2, <1>3 DEF IInv

LEMMA CreateSecretOK ==
  ASSUME IInv, NEW s \in Sessions, CreateSecret(s) PROVE IInv'
<1>1. lastUID' \in {lastUID, Fresh} /\ lastUID \in Nat
  BY Typed DEF CreateSecret
<1>2. lastUID' \in Nat /\ lastUID <= lastUID' BY <1>1 DEF Fresh
<1>3. SessionsOK'
  <2>1. CASE Fail(s) BY <1>1, <1>2, <2>1, EndOK DEF IInv
  <2>2. CASE Goto(s, "reserve") /\ session[s].at = "mksecret"
    <3> DEFINE st == [session[s] EXCEPT !.at = "reserve"]
    <3>1. st \in SessionState /\ InHand(st) /\ st.reserved <= lastUID'
      BY <1>1, <1>2, <2>2, Typed DEF InHand, SessionState, Ended, Locations
    <3>2. Set(s, st) BY <2>2 DEF Goto
    <3>. HIDE DEF st
    <3>. QED BY <1>1, <1>2, <3>1, <3>2, SetOK DEF IInv
  <2>. QED BY <2>1, <2>2 DEF CreateSecret
<1>4. ClusterOK'
  <2>1. secrets' \in [SecretNames -> Secret \cup {None}]
    <3>1. secrets \in [SecretNames -> Secret \cup {None}] BY DEF IInv, ClusterOK
    <3>2. ASSUME NEW t \in Tenants PROVE [uid |-> Fresh, tenant |-> t] \in Secret
      BY <1>1 DEF Secret, UID, Fresh
    <3>. QED BY <3>1, <3>2 DEF CreateSecret
  <2>. QED BY <1>1, <1>2, <2>1
         DEF CreateSecret, release, IInv, ClusterOK, ReceiptNamesItsClaim, HasReceipt, Claim, UID
<1>. QED BY <1>3, <1>4 DEF IInv

LEMMA CreateClaimOK ==
  ASSUME IInv, NEW s \in Sessions, CreateClaim(s) PROVE IInv'
<1> DEFINE me == session[s]
           st == [me EXCEPT !.at = "helm", !.reserved = Fresh]
           r == Reserved(me.profile, me.seenSecret)
<1>1. lastUID' \in {lastUID, Fresh} /\ lastUID \in Nat /\ me.at = "create"
  BY Typed DEF CreateClaim
<1>2. lastUID' \in Nat /\ lastUID <= lastUID' BY <1>1 DEF Fresh
<1>3. me \in SessionState /\ me.profile \in Profile /\ me.seenSecret \in Secret
  BY <1>1, Typed DEF InHand, SessionState, Ended
<1>4. r \in Identity /\ r.phase = "reserved"
  BY <1>3 DEF Reserved, IdentityOf, Identity, Profile, Secret, NoUID, UID
<1>5. SessionsOK'
  <2>1. CASE Fail(s) BY <1>1, <1>2, <2>1, EndOK DEF IInv
  <2>2. CASE Set(s, st) /\ lastUID' = Fresh
    <3>1. Fresh \in Nat /\ lastUID' = Fresh BY <1>1, <2>2 DEF Fresh
    <3>2. InHand(me) BY Typed
    <3>3. st \in SessionState /\ st.reserved = Fresh
      BY <1>3, <3>1 DEF SessionState, Locations
    <3>4. InHand(st) BY <1>1, <1>3, <3>2 DEF InHand, SessionState, Ended
    <3>5. st.reserved <= lastUID' BY <3>1, <3>3
    <3>. HIDE DEF st
    <3>. QED BY <1>1, <1>2, <2>2, <3>3, <3>4, <3>5, SetOK DEF IInv
  <2>. QED BY <2>1, <2>2 DEF CreateClaim
<1>6. ClusterOK'
  <2>1. CASE UNCHANGED <<claim, lastUID, queued>>
    BY <2>1 DEF CreateClaim, release, IInv, ClusterOK, ReceiptNamesItsClaim, HasReceipt
  <2>2. CASE /\ lastUID' = Fresh /\ queued' = {}
             /\ claim' = [uid |-> Fresh, version |-> 0, receipt |-> r]
    <3>1. claim' \in Claim BY <1>1, <1>4, <2>2 DEF Claim, UID, Fresh
    <3>2. claim'.uid <= lastUID' BY <1>1, <2>2 DEF Fresh
    <3>3. ReceiptNamesItsClaim' BY <1>4, <2>2 DEF ReceiptNamesItsClaim, HasReceipt
    <3>. QED BY <1>2, <2>2, <3>1, <3>2, <3>3 DEF CreateClaim, release, IInv, ClusterOK
  <2>. QED BY <2>1, <2>2 DEF CreateClaim
<1>. QED BY <1>5, <1>6 DEF IInv

(* Writing a receipt keeps the claim's UID.                                *)
LEMMA RewrittenClaim ==
  ASSUME NEW c \in Claim, NEW q \in Identity
  PROVE  LET d == [c EXCEPT !.version = @ + 1, !.receipt = q]
         IN  d \in Claim /\ d.uid = c.uid /\ d.receipt = q
<1>1. ASSUME NEW v \in Nat
      PROVE  LET d == [c EXCEPT !.version = v, !.receipt = q]
             IN  d \in Claim /\ d.uid = c.uid /\ d.receipt = q
  BY DEF Claim
<1>2. c.version + 1 \in Nat BY DEF Claim
<1>. QED BY <1>1, <1>2

LEMMA PatchReceiptOK ==
  ASSUME IInv, NEW s \in Sessions, PatchReceipt(s) PROVE IInv'
<1> DEFINE me == session[s]
           r == Bound(me.profile, me.seenSecret, me.seenClaim, me.seenSts)
<1>1. lastUID' = lastUID /\ lastUID \in Nat /\ me.at = "patch"
  BY Typed DEF PatchReceipt
<1>2. /\ me \in SessionState /\ me.profile \in Profile /\ me.seenSecret \in Secret
      /\ me.seenClaim \in Claim /\ me.seenSts \in StatefulSet
  BY <1>1, Typed DEF InHand, SessionState, Ended
<1>3. r \in Identity /\ r.phase = "bound" /\ r.pvcUID = me.seenClaim.uid
  BY <1>2 DEF Bound, IdentityOf, Identity, Profile, Secret, UID, Claim, StatefulSet
<1>4. SessionsOK'
  <2>1. CASE Fail(s) \/ Succeed(s) BY <1>1, <2>1, EndOK DEF IInv
  <2>2. CASE MayRetry(s) /\ Reread(s, me.attempt + 1)
    <3> DEFINE st == [me EXCEPT !.at = "claim", !.attempt = me.attempt + 1,
                        !.seenClaim = None, !.seenSts = None, !.seenSecret = None]
    <3>1. me.attempt + 1 \in 0..2 BY <1>2, <2>2 DEF MayRetry, SessionState
    <3>2. st \in SessionState /\ InHand(st) /\ st.reserved <= lastUID'
      BY <1>1, <1>2, <3>1, Typed DEF InHand, SessionState, Ended, Locations
    <3>3. Set(s, st) BY <2>2 DEF Reread
    <3>. HIDE DEF st
    <3>. QED BY <1>1, <3>2, <3>3, SetOK DEF IInv
  <2>. QED BY <2>1, <2>2 DEF PatchReceipt, Retry
<1>5. ClusterOK'
  <2>1. CASE UNCHANGED claim
    BY <2>1 DEF PatchReceipt, release, IInv, ClusterOK, ReceiptNamesItsClaim, HasReceipt
  <2>2. CASE /\ PatchMatches(claim, me.seenClaim)
             /\ claim' = [claim EXCEPT !.version = @ + 1, !.receipt = r]
    <3>1. claim \in Claim /\ claim.uid = me.seenClaim.uid
      BY <2>2 DEF PatchMatches, IInv, ClusterOK
    <3>2. claim' \in Claim /\ claim'.uid = claim.uid /\ claim'.receipt = r
      BY <1>3, <2>2, <3>1, RewrittenClaim
    <3>3. ReceiptNamesItsClaim' BY <1>3, <3>1, <3>2 DEF ReceiptNamesItsClaim, HasReceipt
    <3>4. claim'.uid <= lastUID'
      BY <1>1, <2>2, <3>2 DEF PatchMatches, IInv, ClusterOK
    <3>5. UNCHANGED <<namespace, secrets, sts, installed, history, pending, lastUID,
                      runs, admin, queued, disturbed>>
      BY DEF PatchReceipt, release
    <3>6. (claim # None => claim.uid <= lastUID)' BY <3>4
    <3>. HIDE DEF r
    <3>. QED BY <3>2, <3>3, <3>5, <3>6 DEF IInv, ClusterOK
  <2>. QED BY <2>1, <2>2 DEF PatchReceipt
<1>. QED BY <1>4, <1>5 DEF IInv

-----------------------------------------------------------------------------
(* Helm and the surrounding cluster.                                       *)

(* Deploying a profile keeps Helm's objects well formed.                   *)
LEMMA DeployOK ==
  ASSUME ClusterOK, NEW p \in Profile, Deploy(p)
  PROVE  /\ history' \in Seq(Profile) /\ installed' = p
         /\ sts' \in StatefulSet \cup {None}
         /\ lastUID' \in Nat /\ lastUID <= lastUID'
<1>1. history' \in Seq(Profile) /\ installed' = p BY DEF Deploy, ClusterOK
<1>2. p.persistent \in BOOLEAN /\ lastUID \in Nat BY DEF Profile, ClusterOK
<1>3. CASE UNCHANGED <<sts, lastUID>> BY <1>1, <1>2, <1>3 DEF ClusterOK
<1>4. CASE lastUID' = Fresh /\ sts' = [uid |-> Fresh, persistent |-> p.persistent]
  <2>1. Fresh \in UID /\ lastUID <= Fresh BY <1>2 DEF Fresh, UID
  <2>. QED BY <1>1, <1>2, <1>4, <2>1 DEF StatefulSet, UID
<1>. QED BY <1>3, <1>4 DEF Deploy

(* The profile a started Helm operation installs.                          *)
LEMMA HelmTargetOK ==
  ASSUME IInv, NEW s \in Sessions, session[s].at = "helm",
         session[s].cmd = "rollback" => session[s].revision \in DOMAIN history
  PROVE  HelmTarget(s) \in Profile
<1>1. session[s].profile \in Profile BY Typed DEF InHand, SessionState, Ended
<1>2. history \in Seq(Profile) BY DEF IInv, ClusterOK
<1>. QED BY <1>1, <1>2 DEF HelmTarget

LEMMA StartHelmOK ==
  ASSUME IInv, NEW s \in Sessions, StartHelm(s) PROVE IInv'
<1> DEFINE me == session[s]
           p == HelmTarget(s)
           st == [me EXCEPT !.at = "wait"]
<1>1. me \in SessionState /\ InHand(me) /\ lastUID \in Nat /\ me.at = "helm" /\ me.reserved <= lastUID
  BY Typed DEF StartHelm
<1>2. CASE Fail(s) /\ UNCHANGED <<sts, release, lastUID, queued>>
  <2>1. SessionsOK' BY <1>1, <1>2, EndOK DEF IInv
  <2>2. ClusterOK'
    BY <1>2 DEF StartHelm, release, IInv, ClusterOK, ReceiptNamesItsClaim, HasReceipt
  <2>. QED BY <2>1, <2>2 DEF IInv
<1>3. CASE /\ me.cmd = "rollback" => me.revision \in DOMAIN history
           /\ Deploy(p) /\ pending' = {s} /\ Goto(s, "wait")
           /\ queued' = queued \cup (IF me.cmd = "install" /\ s \notin disturbed
                                     THEN Opens(p) ELSE {})
  <2>1. p \in Profile BY <1>1, <1>3, HelmTargetOK
  <2>2. ClusterOK BY DEF IInv
  <2>3. /\ history' \in Seq(Profile) /\ installed' \in Profile
        /\ sts' \in StatefulSet \cup {None}
        /\ lastUID' \in Nat /\ lastUID <= lastUID'
    <3>. HIDE DEF p
    <3>. QED BY <1>3, <2>1, <2>2, DeployOK
  <2>4. SessionsOK'
    <3>1. st \in SessionState /\ st.reserved = me.reserved BY <1>1 DEF SessionState, Locations
    <3>2. InHand(st) BY <1>1 DEF InHand, SessionState, Ended
    <3>3. st.reserved <= lastUID' BY <1>1, <2>3, <3>1 DEF SessionState
    <3>4. Set(s, st) BY <1>3 DEF Goto
    <3>. HIDE DEF st
    <3>. QED BY <1>1, <2>3, <3>1, <3>2, <3>3, <3>4, SetOK DEF IInv
  <2>5. queued' \subseteq Tenants
    <3>1. Opens(p) \subseteq Tenants BY <2>1, <2>2 DEF Opens, ClusterOK, Secret, Profile
    <3>. HIDE DEF p
    <3>. QED BY <1>3, <2>2, <3>1 DEF ClusterOK
  <2>6. ClusterOK'
    <3>1. UNCHANGED <<namespace, secrets, claim, runs, admin, disturbed>> /\ pending' = {s}
      BY <1>3 DEF StartHelm
    <3>2. (claim # None => claim.uid <= lastUID)'
      BY <2>2, <2>3, <3>1 DEF ClusterOK, Claim, UID
    <3>3. ReceiptNamesItsClaim' BY <2>2, <3>1 DEF ClusterOK, ReceiptNamesItsClaim, HasReceipt
    <3>. QED BY <2>2, <2>3, <2>5, <3>1, <3>2, <3>3 DEF ClusterOK
  <2>. QED BY <2>4, <2>6 DEF IInv
<1>. QED BY <1>2, <1>3 DEF StartHelm

LEMMA HelmSucceedsOK ==
  ASSUME IInv, NEW s \in Sessions, HelmSucceeds(s) PROVE IInv'
<1> DEFINE me == session[s]
           st == [me EXCEPT !.at = "claim", !.stage = "confirm",
                    !.seenClaim = None, !.seenSts = None, !.seenSecret = None]
<1>1. /\ me \in SessionState /\ InHand(me) /\ me.reserved <= lastUID
      /\ lastUID \in Nat /\ lastUID' = lastUID /\ me.at = "wait"
  BY Typed DEF HelmSucceeds
<1>2. SessionsOK'
  <2>1. CASE Succeed(s) BY <1>1, <2>1, EndOK DEF IInv
  <2>2. CASE Set(s, st)
    <3>1. st \in SessionState /\ InHand(st) /\ st.reserved <= lastUID'
      BY <1>1 DEF InHand, SessionState, Ended, Locations, Stages
    <3>. HIDE DEF st
    <3>. QED BY <1>1, <2>2, <3>1, SetOK DEF IInv
  <2>. QED BY <2>1, <2>2 DEF HelmSucceeds
<1>3. pending' \subseteq Sessions /\ UNCHANGED <<namespace, secrets, claim, sts, installed,
        history, lastUID, runs, admin, queued, disturbed>>
  BY DEF HelmSucceeds, objects
<1>4. ClusterOK' BY <1>3 DEF IInv, ClusterOK, ReceiptNamesItsClaim, HasReceipt
<1>. QED BY <1>2, <1>4 DEF IInv

LEMMA HelmFailsOK ==
  ASSUME IInv, NEW s \in Sessions, HelmFails(s) PROVE IInv'
<1>1. lastUID \in Nat /\ lastUID' = lastUID BY Typed DEF HelmFails
<1>2. SessionsOK' BY <1>1, EndOK DEF HelmFails, IInv
<1>3. UNCHANGED <<namespace, secrets, claim, lastUID, runs, admin, queued, disturbed>>
      /\ pending' \subseteq Sessions
  BY DEF HelmFails
<1>4. /\ sts' \in StatefulSet \cup {None} /\ installed' \in Profile \cup {None}
      /\ history' \in Seq(Profile)
  <2>1. /\ sts \in StatefulSet \cup {None} /\ installed \in Profile \cup {None}
        /\ history \in Seq(Profile)
    BY DEF IInv, ClusterOK
  <2>2. CASE UNCHANGED <<sts, installed, history>> BY <2>1, <2>2
  <2>3. CASE sts' = None /\ installed' = None /\ history' = <<>> BY <2>3
  <2>4. CASE /\ ~(Len(history) < 2) /\ history' = Append(history, history[Len(history) - 1])
             /\ installed' = history[Len(history) - 1] /\ UNCHANGED sts
    <3>1. history[Len(history) - 1] \in Profile BY <2>1, <2>4
    <3>. QED BY <2>1, <2>4, <3>1
  <2>. QED BY <2>2, <2>3, <2>4 DEF HelmFails
<1>5. ClusterOK' BY <1>3, <1>4 DEF IInv, ClusterOK, ReceiptNamesItsClaim, HasReceipt
<1>. QED BY <1>2, <1>5 DEF IInv

LEMMA UninstallOK ==
  ASSUME IInv, NEW s \in Sessions, Uninstall(s) PROVE IInv'
<1>1. lastUID \in Nat /\ lastUID' = lastUID BY Typed DEF Uninstall
<1>2. SessionsOK' BY <1>1, EndOK DEF Uninstall, IInv
<1>3. UNCHANGED <<namespace, secrets, claim, lastUID, runs, admin, queued, disturbed>>
  BY DEF Uninstall
<1>4. \/ UNCHANGED <<sts, installed, history, pending>>
      \/ sts' = None /\ installed' = None /\ history' = <<>> /\ pending' = {}
  BY DEF Uninstall, release
<1>5. /\ sts' \in StatefulSet \cup {None} /\ installed' \in Profile \cup {None}
      /\ history' \in Seq(Profile) /\ pending' \subseteq Sessions
  <2>1. <<>> \in Seq(Profile) OBVIOUS
  <2>2. CASE UNCHANGED <<sts, installed, history, pending>> BY <2>2 DEF IInv, ClusterOK
  <2>. QED BY <1>4, <2>1, <2>2
<1>6. ClusterOK' BY <1>3, <1>5 DEF IInv, ClusterOK, ReceiptNamesItsClaim, HasReceipt
<1>. QED BY <1>2, <1>6 DEF IInv

LEMMA StartOK ==
  ASSUME IInv, NEW s \in Sessions, Start(s) PROVE IInv'
<1>1. lastUID \in Nat /\ lastUID' = lastUID BY Typed DEF Start
<1>2. SessionsOK'
  <2>1. ASSUME NEW c \in Commands, NEW p \in Profile \cup {None}, NEW r \in Nat,
               c = "install" => p # None, Invoke(s, c, p, r)
        PROVE  SessionsOK'
    <3> DEFINE loc == IF c = "install" THEN "namespace" ELSE "settings"
               st == [Blank EXCEPT !.at = loc, !.cmd = c, !.profile = p, !.revision = r]
    <3>1. loc \in Locations /\ loc \in {"namespace", "settings"} BY DEF Locations
    <3>2. (loc = "namespace") => p # None BY <2>1
    <3>3. Blank \in SessionState /\ Blank.reserved = 0
      BY DEF Blank, SessionState, Ended, Locations, Stages, Commands, NoUID
    <3>4. Set(s, st) BY <2>1 DEF Invoke
    <3>. HIDE DEF loc
    <3>5. st \in SessionState /\ st.reserved = 0 /\ st.at = loc /\ st.profile = p
      BY <3>1, <3>3 DEF SessionState
    <3>. HIDE DEF st
    <3>6. InHand(st) /\ st.reserved <= lastUID'
      BY <1>1, <3>1, <3>2, <3>5 DEF InHand, Ended
    <3>. QED BY <1>1, <3>4, <3>5, <3>6, SetOK DEF IInv
  <2>2. ASSUME NEW p \in Profiles PROVE p \in Profile /\ p # None
    BY ConstantsAssumption
  <2>3. /\ "install" \in Commands /\ "rollback" \in Commands /\ "uninstall" \in Commands
        /\ \A r \in 1..(Len(history) + 1) : r \in Nat
    BY DEF Commands
  <2>. QED BY <2>1, <2>2, <2>3 DEF Start
<1>3. UNCHANGED <<namespace, secrets, claim, sts, installed, history, pending, lastUID, admin, queued>>
      /\ runs' = runs + 1 /\ disturbed' \subseteq disturbed
  BY DEF Start, objects, release
<1>4. ClusterOK' BY <1>3 DEF IInv, ClusterOK, ReceiptNamesItsClaim, HasReceipt
<1>. QED BY <1>2, <1>4 DEF IInv

-----------------------------------------------------------------------------
(* Changes around the tool.                                                *)

(* Larger UIDs do not disturb a session.                                   *)
LEMMA IdleOK ==
  ASSUME IInv, session' = session, lastUID' \in {lastUID, Fresh}
  PROVE  SessionsOK' /\ lastUID' \in Nat /\ lastUID <= lastUID'
<1>1. lastUID \in Nat BY DEF IInv, ClusterOK
<1>2. lastUID' \in Nat /\ lastUID <= lastUID' BY <1>1 DEF Fresh
<1>3. ASSUME NEW s \in Sessions PROVE session[s].reserved <= lastUID'
  BY <1>1, <1>2, Typed
<1>4. SessionsOK'
  BY <1>3 DEF IInv, SessionsOK, InHand, Reserved, IdentityOf, NoUID, Ended
<1>. QED BY <1>2, <1>4

LEMMA EnvironmentOK == ASSUME IInv, Environment PROVE IInv'
<1>1. ClusterOK /\ lastUID \in Nat BY DEF IInv, ClusterOK
<1>2. Fresh \in UID BY <1>1 DEF Fresh, UID
<1>3. ASSUME session' = session, lastUID' \in {lastUID, Fresh},
             namespace' = namespace, runs' = runs, admin' \in {admin, admin + 1},
             disturbed' \subseteq Sessions, pending' = pending,
             secrets' \in [SecretNames -> Secret \cup {None}],
             sts' \in StatefulSet \cup {None},
             installed' \in Profile \cup {None}, history' \in Seq(Profile),
             queued' \subseteq Tenants, claim' \in Claim \cup {None},
             claim' # None => claim'.uid <= lastUID',
             ReceiptNamesItsClaim'
      PROVE  IInv'
  <2>1. SessionsOK' /\ lastUID' \in Nat BY <1>3, IdleOK
  <2>2. ClusterOK' BY <1>1, <1>3, <2>1 DEF ClusterOK
  <2>. QED BY <2>1, <2>2 DEF IInv
<1>4. ASSUME claim' = claim, lastUID' \in {lastUID, Fresh}
      PROVE  /\ claim' \in Claim \cup {None} /\ ReceiptNamesItsClaim'
             /\ claim' # None => claim'.uid <= lastUID'
  <2>1. claim # None => claim.uid \in Nat BY <1>1 DEF ClusterOK, Claim, UID
  <2>. QED BY <1>1, <1>4, <2>1 DEF ClusterOK, ReceiptNamesItsClaim, HasReceipt, Fresh
<1>5. disturbed \subseteq Sessions /\ AdminStep => disturbed' \subseteq Sessions
  BY DEF AdminStep
<1>6. CASE TouchClaim
  <2>1. claim \in Claim /\ claim' = [claim EXCEPT !.version = @ + 1]
    BY <1>1, <1>6 DEF TouchClaim, ClusterOK
  <2>2. claim.version + 1 \in Nat BY <2>1 DEF Claim
  <2>3. ASSUME NEW v \in Nat
        PROVE  LET c == [claim EXCEPT !.version = v]
               IN  c \in Claim /\ c.uid = claim.uid /\ c.receipt = claim.receipt
    BY <2>1 DEF Claim
  <2>4. claim' \in Claim /\ claim'.uid = claim.uid /\ claim'.receipt = claim.receipt
    BY <2>1, <2>2, <2>3
  <2>5. UNCHANGED <<namespace, secrets, sts, installed, history, pending, lastUID,
                    session, runs, admin, queued, disturbed>>
    BY <1>6 DEF TouchClaim, release
  <2>6. ReceiptNamesItsClaim'
    BY <1>1, <1>6, <2>4 DEF TouchClaim, ClusterOK, ReceiptNamesItsClaim, HasReceipt
  <2>7. claim'.uid <= lastUID' BY <1>1, <1>6, <2>4, <2>5 DEF TouchClaim, ClusterOK
  <2>. QED BY <1>1, <1>3, <2>4, <2>5, <2>6, <2>7 DEF ClusterOK
<1>7. CASE ControllerClaim
  <2>1. claim' = [uid |-> Fresh, version |-> 0, receipt |-> None] /\ lastUID' = Fresh
        /\ UNCHANGED <<namespace, secrets, sts, installed, history, pending,
                       session, runs, admin, disturbed>> /\ queued' = {}
    BY <1>7 DEF ControllerClaim, release
  <2>2. claim' \in Claim /\ claim'.uid <= lastUID' BY <1>1, <1>2, <2>1 DEF Claim, UID
  <2>3. ReceiptNamesItsClaim' BY <2>1 DEF ReceiptNamesItsClaim, HasReceipt
  <2>. QED BY <1>1, <1>3, <2>1, <2>2, <2>3 DEF ClusterOK
<1>8. CASE DeleteClaim
  <2>1. ReceiptNamesItsClaim' BY <1>8 DEF DeleteClaim, ReceiptNamesItsClaim, HasReceipt
  <2>. QED BY <1>1, <1>3, <1>5, <1>8, <2>1 DEF DeleteClaim, AdminStep, ClusterOK, release
<1>9. CASE RecreateStatefulSet
  <2>1. sts' \in StatefulSet
    BY <1>1, <1>2, <1>9 DEF RecreateStatefulSet, StatefulSet, ClusterOK
  <2>. QED BY <1>1, <1>3, <1>4, <1>5, <1>9, <2>1
         DEF RecreateStatefulSet, AdminStep, ClusterOK, release
<1>10. ASSUME NEW k \in SecretNames, NEW t \in Tenants, ChangeTenant(k, t)
       PROVE  IInv'
  <2>1. secrets[k] \in Secret BY <1>1, <1>10 DEF ChangeTenant, ClusterOK
  <2>2. [secrets[k] EXCEPT !.tenant = t] \in Secret BY <2>1 DEF Secret
  <2>3. secrets' = [secrets EXCEPT ![k] = [secrets[k] EXCEPT !.tenant = t]]
    BY <1>1, <1>10 DEF ChangeTenant, ClusterOK
  <2>4. secrets' \in [SecretNames -> Secret \cup {None}]
    BY <1>1, <2>2, <2>3 DEF ClusterOK
  <2>. QED BY <1>1, <1>3, <1>4, <1>5, <1>10, <2>4 DEF ChangeTenant, AdminStep, ClusterOK, release
<1>11. ASSUME NEW k \in SecretNames, NEW t \in Tenants, RecreateSecret(k, t)
       PROVE  IInv'
  <2>1. [uid |-> Fresh, tenant |-> t] \in Secret BY <1>2 DEF Secret
  <2>2. secrets' \in [SecretNames -> Secret \cup {None}]
    BY <1>1, <1>11, <2>1 DEF RecreateSecret, ClusterOK
  <2>. QED BY <1>1, <1>3, <1>4, <1>5, <1>11, <2>2 DEF RecreateSecret, AdminStep, ClusterOK, release
<1>12. ASSUME NEW p \in Profiles, DirectHelm(p) PROVE IInv'
  <2>1. p \in Profile BY ConstantsAssumption
  <2>2. /\ history' \in Seq(Profile) /\ installed' \in Profile
        /\ sts' \in StatefulSet \cup {None}
    BY <1>1, <1>12, <2>1, DeployOK DEF DirectHelm
  <2>3. lastUID' \in {lastUID, Fresh} BY <1>12 DEF DirectHelm, Deploy
  <2>. QED BY <1>1, <1>3, <1>4, <1>5, <1>12, <2>2, <2>3 DEF DirectHelm, AdminStep, ClusterOK
<1>. QED BY <1>6, <1>7, <1>8, <1>9, <1>10, <1>11, <1>12 DEF Environment

-----------------------------------------------------------------------------
(* The invariant.                                                          *)

LEMMA InitOK == Init => IInv
<1>. SUFFICES ASSUME Init PROVE IInv OBVIOUS
<1>1. Blank \in SessionState /\ InHand(Blank) /\ Blank.reserved = 0
  BY DEF Blank, SessionState, InHand, Ended, Locations, Stages, Commands, NoUID
<1>2. session = [s \in Sessions |-> Blank] /\ lastUID = 0 BY DEF Init
<1>3. SessionsOK
  <2>. HIDE DEF Blank
  <2>. QED BY <1>1, <1>2 DEF SessionsOK
<1>4. <<>> \in Seq(Profile) OBVIOUS
<1>5. history \in Seq(Profile) /\ pending \subseteq Sessions /\ lastUID \in Nat
      /\ runs \in Nat /\ admin \in Nat
  BY <1>4 DEF Init
<1>6. claim = None /\ ReceiptNamesItsClaim BY DEF Init, ReceiptNamesItsClaim, HasReceipt
<1>7. ClusterOK
  <2>1. /\ namespace \in BOOLEAN
        /\ secrets \in [SecretNames -> Secret \cup {None}]
        /\ sts \in StatefulSet \cup {None}
        /\ installed \in Profile \cup {None}
        /\ queued \subseteq Tenants /\ disturbed \subseteq Sessions
    BY DEF Init
  <2>. QED BY <1>5, <1>6, <2>1 DEF ClusterOK
<1>. QED BY <1>3, <1>7 DEF IInv

LEMMA NextOK == ASSUME IInv, [Next]_vars PROVE IInv'
<1>1. ASSUME NEW s \in Sessions, Step(s) PROVE IInv'
  <2>1. CASE \/ ReadNamespace(s) \/ ReadRelease(s) \/ ReadInstalled(s)
             \/ ReadTarget(s) \/ ReadIngest(s) \/ Interrupted(s) \/ HelmOverrun(s)
    <3>1. Unmoved
      BY <2>1 DEF ReadNamespace, ReadRelease, ReadInstalled, ReadTarget, ReadIngest,
                  Interrupted, HelmOverrun, Unmoved
    <3>. QED BY <2>1, <3>1, MovesOK, UnmovedOK DEF IInv
  <2>2. CASE \/ ReadSettings(s) \/ ReadClaim(s) \/ ReadStatefulSet(s)
             \/ ReadReservation(s) \/ ReadReservationSecret(s) \/ ReadSecret(s)
    <3>1. Unmoved
      BY <2>2 DEF ReadSettings, ReadClaim, ReadStatefulSet, ReadReservation,
                  ReadReservationSecret, ReadSecret
    <3>. QED BY <2>2, <3>1, SeesOK, UnmovedOK DEF IInv
  <2>. QED BY <1>1, <2>1, <2>2, CreateNamespaceOK, CreateSecretOK, CreateClaimOK,
              PatchReceiptOK, StartHelmOK, HelmSucceedsOK, HelmFailsOK, UninstallOK
           DEF Step
<1>2. CASE UNCHANGED vars
  <2>1. Unmoved /\ session' = session BY <1>2 DEF vars, Unmoved, objects, release
  <2>2. lastUID' = lastUID BY <2>1 DEF Unmoved
  <2>. QED BY <2>1, <2>2, UnmovedOK, IdleOK DEF IInv
<1>. QED BY <1>1, <1>2, StartOK, EnvironmentOK DEF Next

(* Every behaviour keeps the inductive invariant.                          *)
THEOREM Invariance == Spec => []IInv
  BY InitOK, NextOK, PTL DEF Spec

(* Types: the state of the cluster and of every invocation of src/elven    *)
(* stays well formed.                                                      *)
THEOREM TypeCorrect == Spec => []TypeOK
  BY Invariance, IInvTypes, PTL

(* write_storage_identity never leaves a bound receipt that names another  *)
(* claim, whatever is deleted, created again or patched between its read   *)
(* of the claim and its patch.                                             *)
THEOREM ReceiptsNameTheirClaims == Spec => []ReceiptNamesItsClaim
  BY Invariance, IInvTypes, PTL

=============================================================================
