----------------------- MODULE StorageLifecycleProofs -----------------------
(***************************************************************************)
(* The storage guard implements the life cycle of ClaimLifecycle: every    *)
(* step of StorageIdentity is a step of it or leaves the claim's life and  *)
(* its holders alone.                                                      *)
(***************************************************************************)
EXTENDS StorageIdentityProofs

lvars == <<Life, Holders>>

LEMMA OwnerTyped == ASSUME NEW r \in Identity PROVE OwnerOf(r) \in Owner
  BY DEF Identity, OwnerOf, Owner

(* The life of an existing claim.                                          *)
LEMMA LifeOf ==
  ASSUME claim \in Claim
  PROVE  /\ claim.uid \in UID /\ claim.uid # 0 /\ claim # None /\ Life # None
         /\ claim.receipt = None =>
              Life = [uid |-> claim.uid, state |-> "foreign", owner |-> None]
         /\ claim.receipt # None =>
              /\ claim.receipt \in Identity
              /\ Life = [uid |-> claim.uid, state |-> claim.receipt.phase,
                         owner |-> OwnerOf(claim.receipt)]
<1>1. claim.uid \in UID /\ claim.uid # 0 /\ claim.receipt \in Identity \cup {None}
  BY DEF Claim, UID
<1>2. claim # None BY ConstantsAssumption
<1>3. CASE claim.receipt = None
  <2>1. Life = [uid |-> claim.uid, state |-> "foreign", owner |-> None]
    BY <1>2, <1>3 DEF Life
  <2>. QED BY <1>1, <1>2, <1>3, <2>1, NoneIsNoLife
<1>4. CASE claim.receipt # None
  <2>1. Life = [uid |-> claim.uid, state |-> claim.receipt.phase,
                owner |-> OwnerOf(claim.receipt)]
    BY <1>2, <1>4 DEF Life
  <2>2. claim.receipt.phase \in {"reserved", "bound"} /\ OwnerOf(claim.receipt) \in Owner
    BY <1>1, <1>4, OwnerTyped DEF Identity
  <2>. QED BY <1>1, <1>2, <1>4, <2>1, <2>2, NoneIsNoLife
<1>. QED BY <1>3, <1>4

(* A session that keeps or forgets its reservation, while the claim stays: *)
(* nothing happens, or the holder ends.                                    *)
LEMMA Forgets ==
  ASSUME IInv, claim' = claim, NEW s \in Sessions, NEW st, Set(s, st),
         st.reserved \in {session[s].reserved, 0}
  PROVE  /\ Life' = Life /\ Holders' \in {Holders, Holders \ {s}}
         /\ [Lifecycle!Next]_lvars
<1>1. Life' = Life BY DEF Life
<1>2. \A t \in Sessions : session'[t] = IF t = s THEN st ELSE session[t]
  BY DEF Set, IInv, SessionsOK
<1>3. claim # None => claim.uid # 0 BY DEF IInv, ClusterOK, Claim, UID
<1>4. Holders' \in {Holders, Holders \ {s}}
  <2>1. CASE st.reserved = session[s].reserved
    <3>1. Holders' = Holders BY <1>2, <2>1 DEF Holders
    <3>. QED BY <3>1
  <2>2. CASE st.reserved = 0
    <3>1. Holders' = Holders \ {s} BY <1>2, <1>3, <2>2 DEF Holders
    <3>. QED BY <3>1
  <2>. QED BY <2>1, <2>2
<1>5. [Lifecycle!Next]_lvars
  <2>1. CASE Holders' = Holders BY <1>1, <2>1 DEF lvars
  <2>2. CASE Holders' = Holders \ {s} /\ s \in Holders
    <3>1. Lifecycle!Release BY <1>1, <2>2 DEF Lifecycle!Release
    <3>. QED BY <3>1 DEF Lifecycle!Next
  <2>. QED BY <1>4, <2>1, <2>2
<1>. QED BY <1>1, <1>4, <1>5

LEMMA EndForgets ==
  ASSUME IInv, claim' = claim, NEW s \in Sessions, Fail(s) \/ Succeed(s)
  PROVE  /\ Life' = Life /\ Holders' \in {Holders, Holders \ {s}}
         /\ [Lifecycle!Next]_lvars
<1>1. /\ [Blank EXCEPT !.at = "failed"].reserved = 0
      /\ [Blank EXCEPT !.at = "ok"].reserved = 0
  BY DEF Blank, NoUID
<1>2. PICK st : Set(s, st) /\ st.reserved = 0 BY <1>1 DEF Fail, Succeed
<1>. QED BY <1>2, Forgets

(* Every step of an invocation that leaves the claim alone.                *)
LEMMA QuietStep ==
  ASSUME IInv, NEW s \in Sessions, claim' = claim,
         \/ Start(s) \/ Interrupted(s)
         \/ ReadSettings(s) \/ ReadNamespace(s) \/ ReadRelease(s)
         \/ ReadClaim(s) \/ ReadStatefulSet(s) \/ ReadInstalled(s) \/ ReadSecret(s)
         \/ ReadTarget(s) \/ ReadIngest(s) \/ ReadReservation(s) \/ ReadReservationSecret(s)
         \/ CreateNamespace(s) \/ CreateSecret(s)
         \/ StartHelm(s) \/ HelmSucceeds(s) \/ HelmFails(s) \/ HelmOverrun(s) \/ Uninstall(s)
  PROVE  [Lifecycle!Next]_lvars
<1> DEFINE me == session[s]
<1>1. me \in SessionState BY Typed
<1>2. ASSUME NEW loc, Goto(s, loc) PROVE [Lifecycle!Next]_lvars
  <2>1. [me EXCEPT !.at = loc].reserved = me.reserved BY <1>1 DEF SessionState
  <2>2. Set(s, [me EXCEPT !.at = loc]) BY <1>2 DEF Goto
  <2>. HIDE DEF me
  <2>. QED BY <2>1, <2>2, Forgets DEF me
<1>3. ASSUME Fail(s) \/ Succeed(s) PROVE [Lifecycle!Next]_lvars BY <1>3, EndForgets
<1>4. ASSUME NEW st, Set(s, st), st.reserved \in {me.reserved, 0} PROVE [Lifecycle!Next]_lvars
  BY <1>4, Forgets
<1>5. CASE Start(s)
  <2>1. ASSUME NEW c, NEW p, NEW r, Invoke(s, c, p, r) PROVE [Lifecycle!Next]_lvars
    <3> DEFINE st == [Blank EXCEPT !.at = IF c = "install" THEN "namespace" ELSE "settings",
                        !.cmd = c, !.profile = p, !.revision = r]
    <3>1. st.reserved = 0 BY DEF Blank, NoUID
    <3>2. Set(s, st) BY <2>1 DEF Invoke
    <3>. HIDE DEF st
    <3>. QED BY <3>1, <3>2, <1>4
  <2>. QED BY <1>5, <2>1 DEF Start
<1>6. ASSUME NEW p PROVE [me EXCEPT !.at = "namespace", !.profile = p].reserved = me.reserved
  BY <1>1 DEF SessionState
<1>7. ASSUME NEW c
      PROVE  /\ [me EXCEPT !.at = "sts", !.seenClaim = c].reserved = me.reserved
             /\ [me EXCEPT !.at = "installed", !.seenSts = c].reserved = me.reserved
             /\ [me EXCEPT !.at = "patch", !.seenSecret = c].reserved = me.reserved
             /\ [me EXCEPT !.at = "create", !.seenSecret = c].reserved = me.reserved
             /\ [me EXCEPT !.at = "claim", !.stage = c].reserved = me.reserved
  BY <1>1 DEF SessionState
<1>8. [me EXCEPT !.at = "claim", !.stage = "confirm", !.seenClaim = None, !.seenSts = None,
         !.seenSecret = None].reserved = me.reserved
  BY <1>1 DEF SessionState
<1>9. CASE ReadSettings(s) BY <1>9, <1>3, <1>4, <1>6 DEF ReadSettings
<1>10. CASE ReadClaim(s) \/ ReadStatefulSet(s) \/ ReadReservation(s)
  BY <1>10, <1>2, <1>3, <1>4, <1>7 DEF ReadClaim, ReadStatefulSet, ReadReservation
<1>11. CASE ReadSecret(s) \/ ReadReservationSecret(s)
  BY <1>11, <1>2, <1>3, <1>4, <1>7 DEF ReadSecret, ReadReservationSecret
<1>12. CASE ReadNamespace(s) \/ ReadRelease(s) \/ ReadInstalled(s) \/ ReadTarget(s) \/ ReadIngest(s)
  BY <1>12, <1>2, <1>3 DEF ReadNamespace, ReadRelease, ReadInstalled, ReadTarget, ReadIngest
<1>13. CASE CreateNamespace(s) \/ CreateSecret(s)
  BY <1>13, <1>2, <1>3 DEF CreateNamespace, CreateSecret
<1>14. CASE HelmSucceeds(s) BY <1>14, <1>3, <1>4, <1>8 DEF HelmSucceeds
<1>15. CASE StartHelm(s) BY <1>15, <1>2, <1>3 DEF StartHelm
<1>16. CASE HelmFails(s) \/ HelmOverrun(s) \/ Uninstall(s) \/ Interrupted(s)
  BY <1>16, <1>3 DEF HelmFails, HelmOverrun, Uninstall, Interrupted
<1>. QED BY <1>5, <1>9, <1>10, <1>11, <1>12, <1>13, <1>14, <1>15, <1>16

(* Creating the claim reserves it, or nothing happens to it.               *)
LEMMA CreateReserves ==
  ASSUME IInv, NEW s \in Sessions, CreateClaim(s) PROVE [Lifecycle!Next]_lvars
<1> DEFINE me == session[s]
           r == Reserved(me.profile, me.seenSecret)
           st == [me EXCEPT !.at = "helm", !.reserved = Fresh]
<1>1. CASE claim' = claim /\ Fail(s) BY <1>1, EndForgets
<1>2. CASE /\ claim = None /\ claim' = [uid |-> Fresh, version |-> 0, receipt |-> r]
           /\ Set(s, st) \/ Fail(s)
  <2>1. IInv' BY CreateClaimOK
  <2>2. /\ lastUID \in Nat /\ me \in SessionState /\ me.profile \in Profile
        /\ me.seenSecret \in Secret
    BY Typed DEF CreateClaim, InHand, SessionState, Ended
  <2>3. r \in Identity /\ r.phase = "reserved" /\ claim'.receipt = r /\ claim'.uid = Fresh
    BY <1>2, <2>2 DEF Reserved, IdentityOf, Identity, Profile, Secret, NoUID, UID
  <2>4. claim' \in Claim
    BY <1>2, <2>2, <2>3 DEF Claim, Fresh, UID
  <2>5. claim'.receipt # None BY <2>3, ConstantsAssumption
  <2>6. Life = None BY <1>2 DEF Life
  <2>7. Life' = [uid |-> Fresh, state |-> "reserved", owner |-> OwnerOf(r)]
    <3>1. claim' # None BY <2>4, ConstantsAssumption
    <3>. HIDE DEF r
    <3>. QED BY <2>3, <2>5, <3>1 DEF Life
  <2>8. Life' \in Lifecycle!Claims("reserved", Owner)
    <3>1. OwnerOf(r) \in Owner /\ Fresh \in UID BY <2>2, <2>3, OwnerTyped DEF Fresh, UID
    <3>. HIDE DEF r
    <3>. QED BY <2>7, <3>1 DEF Lifecycle!Claims
  <2>9. \A t \in Sessions : session[t].reserved # Fresh
    BY <2>2, Typed DEF Fresh
  <2>10. claim' # None BY <2>4, ConstantsAssumption
  <2>11. Holders' = {} \/ Holders' = {s}
    <3>1. ASSUME NEW x, Set(s, x), x.reserved = 0 PROVE Holders' = {}
      BY <2>2, <2>3, <2>9, <3>1 DEF Holders, Set, IInv, SessionsOK, Fresh
    <3>2. ASSUME NEW x, Set(s, x), x.reserved = Fresh PROVE Holders' = {s}
      BY <2>3, <2>9, <2>10, <3>2 DEF Holders, Set, IInv, SessionsOK
    <3>3. st.reserved = Fresh BY <2>2 DEF SessionState
    <3>4. [Blank EXCEPT !.at = "failed"].reserved = 0 BY DEF Blank, NoUID
    <3>. HIDE DEF st
    <3>. QED BY <1>2, <3>1, <3>2, <3>3, <3>4 DEF Fail
  <2>12. Lifecycle!Reserve BY <2>6, <2>8, <2>11 DEF Lifecycle!Reserve
  <2>. QED BY <2>12 DEF Lifecycle!Next
<1>. QED BY <1>1, <1>2 DEF CreateClaim

(* Patching the receipt binds a held reservation, or the session goes on.  *)
LEMMA PatchBinds ==
  ASSUME IInv, NEW s \in Sessions, PatchReceipt(s) PROVE [Lifecycle!Next]_lvars
<1> DEFINE me == session[s]
           r == Bound(me.profile, me.seenSecret, me.seenClaim, me.seenSts)
           st == [me EXCEPT !.at = "claim", !.attempt = me.attempt + 1,
                    !.seenClaim = None, !.seenSts = None, !.seenSecret = None]
<1>1. me.at = "patch" /\ me \in SessionState /\ InHand(me)
  BY Typed DEF PatchReceipt
<1>2. PICK x : Set(s, x) /\ x.reserved \in {me.reserved, 0}
  <2>1. st.reserved = me.reserved BY <1>1 DEF SessionState
  <2>2. [Blank EXCEPT !.at = "failed"].reserved = 0 /\ [Blank EXCEPT !.at = "ok"].reserved = 0
    BY DEF Blank, NoUID
  <2>3. Set(s, st) \/ Fail(s) \/ Succeed(s) BY DEF PatchReceipt, Retry, Reread
  <2>. HIDE DEF st
  <2>. QED BY <2>1, <2>2, <2>3 DEF Fail, Succeed
<1>3. CASE claim' = claim BY <1>2, <1>3, Forgets
<1>4. CASE /\ PatchMatches(claim, me.seenClaim)
           /\ claim' = [claim EXCEPT !.version = @ + 1, !.receipt = r]
  <2>1. /\ claim \in Claim /\ claim # None /\ claim.uid = me.reserved
        /\ claim.receipt = Reserved(me.profile, me.seenSecret) /\ claim.receipt # None
    BY <1>1, <1>4 DEF PatchMatches, InHand, IInv, ClusterOK
  <2>2. /\ me.profile \in Profile /\ me.seenSecret \in Secret
        /\ me.seenClaim \in Claim /\ me.seenSts \in StatefulSet
    BY <1>1 DEF InHand, SessionState, Ended
  <2>3. /\ r \in Identity /\ r.phase = "bound"
        /\ OwnerOf(r) = OwnerOf(claim.receipt) /\ claim.receipt.phase = "reserved"
    BY <2>1, <2>2 DEF Bound, Reserved, IdentityOf, Identity, Profile, Secret, UID, Claim,
                      StatefulSet, OwnerOf
  <2>4. claim' \in Claim /\ claim'.uid = claim.uid /\ claim'.receipt = r
    BY <1>4, <2>1, <2>3, RewrittenClaim
  <2>5. Life = [uid |-> claim.uid, state |-> "reserved", owner |-> OwnerOf(claim.receipt)]
        /\ Life # None
    BY <2>1, <2>3, LifeOf
  <2>6. claim' # None /\ claim'.receipt # None BY <2>3, <2>4, ConstantsAssumption
  <2>7. Life' = [uid |-> claim.uid, state |-> "bound", owner |-> OwnerOf(claim.receipt)]
    <3>. HIDE DEF r
    <3>. QED BY <2>3, <2>4, <2>6 DEF Life
  <2>8. s \in Holders BY <2>1 DEF Holders
  <2>9. Holders' \in {Holders, Holders \ {s}}
    <3>1. \A t \in Sessions : session'[t] = IF t = s THEN x ELSE session[t]
      BY <1>2 DEF Set, IInv, SessionsOK
    <3>2. claim'.uid = claim.uid /\ claim.uid # 0 BY <2>1, <2>4 DEF Claim, UID
    <3>3. CASE x.reserved = me.reserved
      <4>1. Holders' = Holders BY <2>1, <2>6, <3>1, <3>2, <3>3 DEF Holders
      <4>. QED BY <4>1
    <3>4. CASE x.reserved = 0
      <4>1. Holders' = Holders \ {s} BY <2>1, <2>6, <3>1, <3>2, <3>4 DEF Holders
      <4>. QED BY <4>1
    <3>. QED BY <1>2, <3>3, <3>4
  <2>10. Life' = [Life EXCEPT !.state = "bound"] BY <2>5, <2>7
  <2>11. Life.state = "reserved" BY <2>5
  <2>12. Lifecycle!Bind BY <2>5, <2>8, <2>9, <2>10, <2>11 DEF Lifecycle!Bind
  <2>. QED BY <2>12 DEF Lifecycle!Next
<1>. QED BY <1>3, <1>4 DEF PatchReceipt

(* Around the tool, claims appear and are removed.                         *)
LEMMA EnvironmentLives ==
  ASSUME IInv, Environment PROVE [Lifecycle!Next]_lvars
<1>1. ASSUME claim' = claim, session' = session PROVE [Lifecycle!Next]_lvars
  BY <1>1 DEF lvars, Life, Holders
<1>2. CASE TouchClaim
  <2>1. /\ claim \in Claim /\ claim # None /\ session' = session
        /\ claim' = [claim EXCEPT !.version = @ + 1]
    BY <1>2 DEF TouchClaim, IInv, ClusterOK
  <2>2. claim'.uid = claim.uid /\ claim'.receipt = claim.receipt BY <2>1 DEF Claim
  <2>3. claim' # None
    <3>1. claim.version + 1 \in Nat BY <2>1 DEF Claim
    <3>2. ASSUME NEW v \in Nat PROVE [claim EXCEPT !.version = v] \in Claim BY <2>1 DEF Claim
    <3>3. claim' \in Claim BY <2>1, <3>1, <3>2
    <3>. QED BY <3>3, ConstantsAssumption
  <2>4. Life' = Life BY <2>1, <2>2, <2>3 DEF Life
  <2>5. Holders' = Holders BY <2>1, <2>2, <2>3 DEF Holders
  <2>. QED BY <2>4, <2>5 DEF lvars
<1>3. CASE ControllerClaim
  <2>1. /\ claim = None /\ claim' = [uid |-> Fresh, version |-> 0, receipt |-> None]
        /\ session' = session
    BY <1>3 DEF ControllerClaim
  <2>2. lastUID \in Nat BY DEF IInv, ClusterOK
  <2>3. claim' \in Claim BY <2>1, <2>2 DEF Claim, UID, Fresh
  <2>4. claim' # None BY <2>3, ConstantsAssumption
  <2>5. Life = None /\ Life' = [uid |-> Fresh, state |-> "foreign", owner |-> None]
    BY <2>1, <2>4 DEF Life
  <2>6. Holders' = {}
    BY <2>1, <2>2, <2>4, Typed DEF Holders, Fresh
  <2>7. Lifecycle!Appear
    BY <2>2, <2>5, <2>6 DEF Lifecycle!Appear, Lifecycle!Claims, Fresh, UID
  <2>. QED BY <2>7 DEF Lifecycle!Next
<1>4. CASE DeleteClaim
  <2>1. claim # None /\ claim' = None /\ session' = session BY <1>4 DEF DeleteClaim, AdminStep
  <2>2. claim \in Claim BY <2>1 DEF IInv, ClusterOK
  <2>3. Life # None /\ Life' = None /\ Holders' = {} BY <2>1, <2>2, LifeOf DEF Life, Holders
  <2>4. Lifecycle!Remove BY <2>3 DEF Lifecycle!Remove
  <2>. QED BY <2>4 DEF Lifecycle!Next
<1>5. CASE RecreateStatefulSet BY <1>5, <1>1 DEF RecreateStatefulSet, AdminStep
<1>6. ASSUME NEW k \in SecretNames, NEW t \in Tenants, ChangeTenant(k, t) \/ RecreateSecret(k, t)
      PROVE  [Lifecycle!Next]_lvars
  BY <1>6, <1>1 DEF ChangeTenant, RecreateSecret, AdminStep
<1>7. ASSUME NEW p \in Profiles, DirectHelm(p) PROVE [Lifecycle!Next]_lvars
  BY <1>7, <1>1 DEF DirectHelm, AdminStep
<1>. QED BY <1>2, <1>3, <1>4, <1>5, <1>6, <1>7 DEF Environment

LEMMA StepLives == ASSUME IInv, [Next]_vars PROVE [Lifecycle!Next]_lvars
<1>1. ASSUME NEW s \in Sessions, Start(s) \/ Step(s) PROVE [Lifecycle!Next]_lvars
  <2>1. CASE CreateClaim(s) BY <2>1, CreateReserves
  <2>2. CASE PatchReceipt(s) BY <2>2, PatchBinds
  <2>3. CASE \/ Start(s) \/ Interrupted(s)
             \/ ReadSettings(s) \/ ReadNamespace(s) \/ ReadRelease(s)
             \/ ReadClaim(s) \/ ReadStatefulSet(s) \/ ReadInstalled(s) \/ ReadSecret(s)
             \/ ReadTarget(s) \/ ReadIngest(s) \/ ReadReservation(s)
             \/ ReadReservationSecret(s) \/ CreateNamespace(s) \/ CreateSecret(s)
             \/ StartHelm(s) \/ HelmSucceeds(s) \/ HelmFails(s) \/ HelmOverrun(s)
             \/ Uninstall(s)
    <3>1. claim' = claim
      BY <2>3 DEF Start, Interrupted, ReadSettings, ReadNamespace, ReadRelease, ReadClaim,
           ReadStatefulSet, ReadInstalled, ReadSecret, ReadTarget, ReadIngest, ReadReservation,
           ReadReservationSecret, CreateNamespace, CreateSecret, StartHelm, HelmSucceeds,
           HelmFails, HelmOverrun, Uninstall, Unmoved, objects
    <3>. QED BY <2>3, <3>1, QuietStep
  <2>. QED BY <1>1, <2>1, <2>2, <2>3 DEF Step
<1>2. CASE UNCHANGED vars BY <1>2 DEF vars, lvars, Life, Holders
<1>. QED BY <1>1, <1>2, EnvironmentLives DEF Next

(* The tool and everything around it follow the promised life cycle: a     *)
(* claim is reserved at its creation, bound only by the invocation that    *)
(* created it and only for the identity it was reserved for, never adopted.*)
THEOREM LifecycleImplemented == Spec => ImplementsLifecycle
<1>1. Init => Lifecycle!Init BY DEF Init, Lifecycle!Init, Life, Holders
<1>2. IInv /\ [Next]_vars => [Lifecycle!Next]_lvars BY StepLives
<1>. QED BY <1>1, <1>2, Invariance, PTL DEF Spec, ImplementsLifecycle, Lifecycle!Spec, lvars

=============================================================================
