------------------------- MODULE StorageGuardProofs -------------------------
(***************************************************************************)
(* The guard of the gateway queue: what an install has established when it *)
(* starts Helm still holds then, although every check it made was a        *)
(* separate call.  The reason is Kept: whatever other invocations and      *)
(* controllers do, an existing claim keeps its owner and an existing       *)
(* Secret its content; only an administrator changes them.                 *)
(*                                                                         *)
(* The second part is about invocations that do not overlap: what the      *)
(* active one has read is then what is there.  The last one bounds the     *)
(* calls of an invocation.                                                 *)
(***************************************************************************)
EXTENDS StorageIdentityProofs

(* The claim and the Secret are those of profile p.                        *)
Assured(p) ==
  /\ HasReceipt /\ secrets[p.secret] # None
  /\ Certifies(claim.receipt, p)

(* What an undisturbed install knows at its steps.                         *)
Knows(me) ==
  /\ me.at \notin Ended \cup {"settings", "release", "target"}
  /\ me.at = "namespace" => me.stage = "preflight"
  /\ me.at = "patch" => me.stage = "confirm"
  /\ me.profile.persistent =>
       /\ me.at = "create" => me.seenSecret = secrets[me.profile.secret]
       /\ me.stage = "reserve" /\ me.at \in {"claim", "sts", "installed", "secret"} =>
            claim # None
       /\ me.stage = "reserve" /\ me.at \in {"sts", "installed", "secret"} =>
            /\ claim.receipt # None
            /\ OwnerOf(claim.receipt) = OwnerOf(me.seenClaim.receipt)
       /\ me.at \in {"helm", "wait"} \/ me.stage = "confirm" => Assured(me.profile)
       /\ me.at = "helm" => claim.receipt.phase = "bound" \/ me.reserved = claim.uid
       /\ me.stage # "preflight" /\ me.at \in {"sts", "installed", "secret"} =>
            (me.seenClaim.receipt.phase = "bound" => claim.receipt.phase = "bound")

Guarded(s) == session[s].cmd = "install" /\ s \notin disturbed => Knows(session[s])

(* The queue holds only what the receipt's tenant queued.                  *)
QueueOK == queued # {} => HasReceipt /\ queued = {claim.receipt.tenant}

GuardInv == IInv /\ QueueOK /\ \A s \in Sessions : Guarded(s)

(* Claims keep their owner and stay bound, and Secrets keep their content. *)
Kept ==
  /\ claim # None =>
       /\ claim' # None /\ claim'.uid = claim.uid
       /\ claim.receipt # None =>
            /\ claim'.receipt # None /\ OwnerOf(claim'.receipt) = OwnerOf(claim.receipt)
            /\ claim.receipt.phase = "bound" => claim'.receipt.phase = "bound"
  /\ \A k \in SecretNames : secrets[k] # None => secrets'[k] = secrets[k]

LEMMA SameOwnerOf ==
  ASSUME NEW r, NEW q, OwnerOf(r) = OwnerOf(q)
  PROVE  /\ r.cluster = q.cluster /\ r.secret = q.secret
         /\ r.secretUID = q.secretUID /\ r.tenant = q.tenant
  BY DEF OwnerOf

LEMMA StaysAssured ==
  ASSUME Kept, NEW p, p.secret \in SecretNames, Assured(p)
  PROVE  /\ HasReceipt' /\ secrets'[p.secret] # None
         /\ SameOwner(claim'.receipt, p)
         /\ claim'.receipt.secretUID = secrets'[p.secret].uid
         /\ claim'.receipt.tenant = secrets'[p.secret].tenant
<1>1. /\ claim' # None /\ claim'.receipt # None
      /\ OwnerOf(claim'.receipt) = OwnerOf(claim.receipt)
      /\ secrets'[p.secret] = secrets[p.secret] /\ secrets[p.secret] # None
  BY DEF Assured, Kept, HasReceipt
<1>2. Certifies(claim.receipt, p) BY DEF Assured
<1>. QED BY <1>1, <1>2, SameOwnerOf DEF Certifies, SameOwner, HasReceipt

LEMMA TouchKeeps == ASSUME IInv, TouchClaim PROVE Kept
<1>1. claim \in Claim /\ claim' = [claim EXCEPT !.version = @ + 1] /\ secrets' = secrets
  BY DEF TouchClaim, IInv, ClusterOK
<1>2. claim.version + 1 \in Nat BY <1>1 DEF Claim
<1>3. ASSUME NEW v \in Nat
      PROVE  [claim EXCEPT !.version = v] \in Claim
             /\ [claim EXCEPT !.version = v].receipt = claim.receipt
             /\ [claim EXCEPT !.version = v].uid = claim.uid
  BY <1>1 DEF Claim
<1>4. claim' \in Claim /\ claim'.receipt = claim.receipt /\ claim'.uid = claim.uid
  BY <1>1, <1>2, <1>3
<1>. QED BY <1>1, <1>4, ConstantsAssumption DEF Kept

LEMMA PatchKeeps == ASSUME IInv, NEW s \in Sessions, PatchReceipt(s) PROVE Kept
<1> DEFINE me == session[s]
           r == Bound(me.profile, me.seenSecret, me.seenClaim, me.seenSts)
<1>1. secrets' = secrets BY DEF PatchReceipt
<1>2. CASE claim' = claim BY <1>1, <1>2 DEF Kept
<1>3. CASE /\ PatchMatches(claim, me.seenClaim)
           /\ claim' = [claim EXCEPT !.version = @ + 1, !.receipt = r]
  <2>1. me.at = "patch" /\ me \in SessionState /\ InHand(me)
    BY Typed DEF PatchReceipt
  <2>2. claim \in Claim /\ claim.receipt = Reserved(me.profile, me.seenSecret)
    BY <1>3, <2>1 DEF PatchMatches, InHand, IInv, ClusterOK
  <2>3. /\ me.profile \in Profile /\ me.seenSecret \in Secret
        /\ me.seenClaim \in Claim /\ me.seenSts \in StatefulSet
    BY <2>1 DEF InHand, SessionState, Ended
  <2>4. r \in Identity /\ OwnerOf(r) = OwnerOf(claim.receipt)
    BY <2>2, <2>3 DEF Bound, Reserved, IdentityOf, Identity, Profile, Secret, UID, Claim,
                      StatefulSet, OwnerOf
  <2>5. claim' \in Claim /\ claim'.receipt = r /\ claim'.uid = claim.uid
    BY <1>3, <2>2, <2>4, RewrittenClaim
  <2>6. claim.receipt.phase = "reserved" BY <2>2 DEF Reserved, IdentityOf
  <2>. QED BY <1>1, <2>4, <2>5, <2>6, ConstantsAssumption DEF Kept
<1>. QED BY <1>2, <1>3 DEF PatchReceipt

LEMMA StepKeeps == ASSUME IInv, NEW s \in Sessions, Start(s) \/ Step(s) PROVE Kept
<1>1. CASE PatchReceipt(s) BY <1>1, PatchKeeps
<1>2. CASE CreateClaim(s)
  <2>1. claim' = claim \/ claim = None BY <1>2 DEF CreateClaim
  <2>2. secrets' = secrets BY <1>2 DEF CreateClaim
  <2>. QED BY <2>1, <2>2 DEF Kept
<1>3. CASE CreateSecret(s)
  <2>1. claim' = claim BY <1>3 DEF CreateSecret
  <2>2. \A k \in SecretNames : secrets[k] # None => secrets'[k] = secrets[k]
    BY <1>3 DEF CreateSecret, IInv, ClusterOK
  <2>. QED BY <2>1, <2>2 DEF Kept
<1>4. CASE claim' = claim /\ secrets' = secrets BY <1>4 DEF Kept
<1>5. PatchReceipt(s) \/ CreateClaim(s) \/ CreateSecret(s) \/ (claim' = claim /\ secrets' = secrets)
  BY DEF Start, Step, Interrupted, ReadSettings, ReadNamespace, ReadRelease, ReadClaim,
     ReadStatefulSet, ReadInstalled, ReadSecret, ReadTarget, ReadIngest, ReadReservation,
     ReadReservationSecret, CreateNamespace, StartHelm, HelmSucceeds,
     HelmFails, HelmOverrun, Uninstall, Unmoved, objects
<1>. QED BY <1>1, <1>2, <1>3, <1>4, <1>5

(* A session that does not move keeps what it knows.                       *)
LEMMA StillKnows ==
  ASSUME IInv, NEW t \in Sessions, Guarded(t), Kept, session'[t] = session[t],
         t \notin disturbed' => t \notin disturbed
  PROVE  Guarded(t)'
<1> DEFINE me == session[t]
<1>. SUFFICES ASSUME me.cmd = "install", t \notin disturbed, Knows(me)
              PROVE  Knows(session[t])'
  BY DEF Guarded
<1>1. me \in SessionState /\ InHand(me) BY Typed
<1>2. me.at = "create" =>
        \/ me.profile.secret \in SecretNames /\ secrets[me.profile.secret] # None
        \/ ~me.profile.persistent
  BY <1>1 DEF Knows, InHand, SessionState, Ended, Profile
<1>3. me.profile.persistent /\ me.at = "create" =>
        secrets'[me.profile.secret] = secrets[me.profile.secret]
  BY <1>2 DEF Kept
<1>4. me.profile.persistent /\ (me.at \in {"helm", "wait"} \/ me.stage = "confirm") =>
        Assured(session[t].profile)'
  <2>. SUFFICES ASSUME me.profile.persistent, Assured(me.profile)
                PROVE  Assured(session[t].profile)'
    BY DEF Knows
  <2>1. me.profile.secret \in SecretNames BY <1>1 DEF Knows, InHand, SessionState, Profile
  <2>. QED BY <2>1, StaysAssured DEF Assured, Certifies, SameOwner
<1>5. me.profile.persistent /\ me.at = "helm" =>
        claim'.receipt.phase = "bound" \/ me.reserved = claim'.uid
  BY DEF Knows, Kept, Assured, HasReceipt
<1>6. /\ me.profile.persistent /\ me.stage # "preflight"
      /\ me.at \in {"sts", "installed", "secret"} /\ me.seenClaim.receipt.phase = "bound"
      => claim'.receipt.phase = "bound"
  <2>1. me.stage \in {"preflight", "reserve", "confirm"} BY <1>1 DEF SessionState, Stages
  <2>. QED BY <2>1 DEF Knows, Kept, Assured, HasReceipt
<1>. QED BY <1>2, <1>3, <1>4, <1>5, <1>6 DEF Knows, Kept, Assured, HasReceipt
-----------------------------------------------------------------------------
(* The session that moves.                                                 *)

LEMMA EndedKnows ==
  ASSUME IInv, NEW s \in Sessions, Fail(s) \/ Succeed(s) PROVE Guarded(s)'
<1>1. session'[s].cmd = "none"
  BY DEF Fail, Succeed, Set, Blank, IInv, SessionsOK
<1>. QED BY <1>1 DEF Guarded

(* Steps to a place where nothing need be known.                           *)
LEMMA FreeMove ==
  ASSUME IInv, NEW s \in Sessions, Guarded(s), NEW loc, Goto(s, loc), Kept,
         loc \in {"mkns", "mksecret", "reserve", "reserveSecret", "ingest", "wait"},
         loc = "wait" => session[s].at = "helm",
         disturbed' = disturbed
  PROVE  Guarded(s)'
<1> DEFINE me == session[s]
<1>1. me \in SessionState /\ InHand(me) BY Typed
<1>2. session'[s] = [me EXCEPT !.at = loc]
  BY DEF Goto, Set, IInv, SessionsOK
<1>3. /\ session'[s].at = loc /\ session'[s].stage = me.stage
      /\ session'[s].profile = me.profile /\ session'[s].cmd = me.cmd
  BY <1>1, <1>2 DEF SessionState
<1>. SUFFICES ASSUME me.cmd = "install", s \notin disturbed, Knows(me) PROVE Knows(session[s])'
  BY <1>3 DEF Guarded
<1>4. me.profile.secret \in SecretNames BY <1>1 DEF Knows, InHand, SessionState, Profile
<1>5. Assured(me.profile) => Assured(session[s].profile)'
  BY <1>3, <1>4, StaysAssured DEF Assured, Certifies, SameOwner
<1>. QED BY <1>3, <1>5 DEF Knows, Ended

LEMMA ReadKnows ==
  ASSUME IInv, NEW s \in Sessions, Guarded(s), Unmoved,
         \/ ReadSettings(s) \/ ReadNamespace(s) \/ ReadRelease(s)
         \/ ReadClaim(s) \/ ReadStatefulSet(s) \/ ReadInstalled(s) \/ ReadSecret(s)
         \/ ReadTarget(s) \/ ReadIngest(s) \/ ReadReservation(s) \/ ReadReservationSecret(s)
         \/ Interrupted(s) \/ HelmOverrun(s)
  PROVE  Guarded(s)'
<1> DEFINE me == session[s]
<1>1. me \in SessionState /\ InHand(me) /\ session \in [Sessions -> SessionState]
  BY Typed DEF IInv, SessionsOK
<1>2. UNCHANGED <<claim, secrets, disturbed>> /\ Kept BY DEF Unmoved, objects, Kept
<1>3. ASSUME Fail(s) \/ Succeed(s) PROVE Guarded(s)' BY <1>3, EndedKnows
<1>4. ASSUME NEW loc \in {"mkns", "mksecret", "reserve", "reserveSecret", "ingest"},
             Goto(s, loc)
      PROVE  Guarded(s)'
  BY <1>2, <1>4, FreeMove
<1>5. ASSUME session'[s].profile = me.profile, Assured(me.profile)
      PROVE  Assured(session[s].profile)'
  BY <1>2, <1>5 DEF Assured, HasReceipt, Certifies, SameOwner
<1>. SUFFICES ASSUME me.cmd = "install", s \notin disturbed, Knows(me) PROVE Guarded(s)'
  <2>1. CASE me.cmd # "install" \/ s \in disturbed
    <3>1. session'[s].cmd = me.cmd \/ session'[s].cmd = "none"
      <4>1. CASE Fail(s) \/ Succeed(s)
        BY <1>1, <4>1 DEF Fail, Succeed, Set, Blank
      <4>2. ASSUME NEW loc, Goto(s, loc) PROVE session'[s].cmd = me.cmd
        BY <1>1, <4>2 DEF Goto, Set, SessionState
      <4>3. ASSUME NEW p,
                   \/ Set(s, [me EXCEPT !.at = "namespace", !.profile = p])
                   \/ Set(s, [me EXCEPT !.at = "sts", !.seenClaim = p])
                   \/ Set(s, [me EXCEPT !.at = "installed", !.seenSts = p])
                   \/ Set(s, [me EXCEPT !.at = "patch", !.seenSecret = p])
                   \/ Set(s, [me EXCEPT !.at = "create", !.seenSecret = p])
                   \/ Set(s, [me EXCEPT !.at = "claim", !.stage = p])
            PROVE  session'[s].cmd = me.cmd
        BY <1>1, <4>3 DEF Set, SessionState
      <4>. QED BY <4>1, <4>2, <4>3
           DEF ReadSettings, ReadNamespace, ReadRelease, ReadClaim, ReadStatefulSet,
               ReadInstalled, ReadSecret, ReadTarget, ReadIngest, ReadReservation,
               ReadReservationSecret, Interrupted, HelmOverrun
    <3>. QED BY <1>2, <2>1, <3>1 DEF Guarded
  <2>. QED BY <2>1 DEF Guarded
<1>7. CASE ReadNamespace(s)
  <2>1. CASE Goto(s, "claim") /\ me.at = "namespace"
    <3>1. session'[s].at = "claim" /\ session'[s].stage = "preflight"
      BY <1>1, <2>1 DEF Knows, Goto, Set, SessionState
    <3>. QED BY <3>1 DEF Guarded, Knows, Ended
  <2>. QED BY <1>7, <1>4, <2>1 DEF ReadNamespace
<1>8. CASE ReadClaim(s)
  <2>1. CASE Goto(s, AfterCheck(s)) /\ claim = None /\ me.at = "claim"
    <3>1. CASE me.stage = "reserve"
      <4>1. ~me.profile.persistent BY <2>1, <3>1 DEF Knows
      <4>2. session'[s].at = "helm" /\ session'[s].profile = me.profile
        BY <1>1, <2>1, <3>1 DEF AfterCheck, Goto, Set, SessionState
      <4>. QED BY <4>1, <4>2 DEF Guarded, Knows, Ended
    <3>2. CASE me.stage # "reserve"
      <4>1. AfterCheck(s) = "ingest" BY <3>2 DEF AfterCheck
      <4>. QED BY <1>4, <2>1, <4>1
    <3>. QED BY <3>1, <3>2
  <2>2. CASE /\ claim # None /\ claim.receipt # None
             /\ Set(s, [me EXCEPT !.at = "sts", !.seenClaim = claim])
    <3>1. /\ session'[s].at = "sts" /\ session'[s].seenClaim = claim
          /\ session'[s].profile = me.profile /\ session'[s].stage = me.stage
      BY <1>1, <2>2 DEF Set, SessionState
    <3>. QED BY <1>2, <1>5, <2>2, <3>1 DEF Guarded, Knows, Ended
  <2>. QED BY <1>8, <1>3, <2>1, <2>2 DEF ReadClaim
<1>9. ASSUME session'[s].at \in {"installed", "secret"}, me.at \in {"sts", "installed"},
             session'[s].stage = me.stage, session'[s].profile = me.profile,
             session'[s].seenClaim = me.seenClaim
      PROVE  Guarded(s)'
  BY <1>2, <1>5, <1>9 DEF Guarded, Knows, Ended
<1>10. CASE ReadStatefulSet(s)
  <2>1. /\ session'[s].at = "installed" /\ me.at = "sts" /\ session'[s].stage = me.stage
        /\ session'[s].profile = me.profile /\ session'[s].seenClaim = me.seenClaim
    BY <1>1, <1>10 DEF ReadStatefulSet, Set, SessionState
  <2>. QED BY <1>9, <2>1
<1>11. CASE ReadInstalled(s)
  <2>1. CASE Goto(s, "secret") /\ me.at = "installed"
    <3>1. /\ session'[s].at = "secret" /\ session'[s].stage = me.stage
          /\ session'[s].profile = me.profile /\ session'[s].seenClaim = me.seenClaim
      BY <1>1, <2>1 DEF Goto, Set, SessionState
    <3>. QED BY <1>9, <2>1, <3>1
  <2>. QED BY <1>11, <1>3, <2>1 DEF ReadInstalled
<1>12. CASE ReadSecret(s)
  <2> DEFINE sec == secrets[me.profile.secret]
             b == Bound(me.profile, sec, me.seenClaim, me.seenSts)
  <2>1. CASE /\ Goto(s, AfterCheck(s)) /\ me.at = "secret" /\ me.stage # "confirm"
             /\ sec # None /\ me.seenClaim.receipt = b
    <3>1. CASE me.stage = "reserve"
      <4>1. session'[s].at = "helm" /\ session'[s].profile = me.profile
        BY <1>1, <2>1, <3>1 DEF AfterCheck, Goto, Set, SessionState
      <4>2. me.profile.persistent =>
              HasReceipt /\ OwnerOf(claim.receipt) = OwnerOf(b)
        BY <2>1, <3>1 DEF Knows, HasReceipt
      <4>3. me.profile.persistent => Assured(me.profile)
        <5>1. /\ b.cluster = me.profile.cluster /\ b.secret = me.profile.secret
              /\ b.secretUID = sec.uid /\ b.tenant = sec.tenant
          BY DEF Bound, IdentityOf
        <5>. HIDE DEF b
        <5>. QED BY <2>1, <4>2, <5>1, SameOwnerOf DEF Assured, Certifies, SameOwner
      <4>4. session'[s].stage = "reserve" BY <1>1, <2>1, <3>1 DEF Goto, Set, SessionState
      <4>5. me.profile.persistent => claim.receipt.phase = "bound"
        BY <2>1, <3>1 DEF Knows, Bound, IdentityOf
      <4>. HIDE DEF b
      <4>. QED BY <1>2, <1>5, <4>1, <4>3, <4>4, <4>5 DEF Guarded, Knows, Ended
    <3>2. CASE me.stage # "reserve"
      <4>1. AfterCheck(s) = "ingest" BY <3>2 DEF AfterCheck
      <4>. QED BY <1>4, <2>1, <4>1
    <3>. QED BY <3>1, <3>2
  <2>2. CASE me.stage = "confirm" /\ Set(s, [me EXCEPT !.at = "patch", !.seenSecret = sec])
    <3>1. /\ session'[s].at = "patch" /\ session'[s].stage = "confirm"
          /\ session'[s].profile = me.profile
      BY <1>1, <2>2 DEF Set, SessionState
    <3>. QED BY <1>5, <2>2, <3>1 DEF Guarded, Knows, Ended
  <2>. QED BY <1>12, <1>3, <2>1, <2>2 DEF ReadSecret, Agrees
<1>13. CASE ReadReservation(s)
  <2>1. CASE Goto(s, "helm") /\ ~me.profile.persistent
    <3>1. session'[s].at = "helm" /\ session'[s].profile = me.profile
      BY <1>1, <2>1 DEF Goto, Set, SessionState
    <3>. QED BY <1>5, <2>1, <3>1 DEF Guarded, Knows, Ended
  <2>2. CASE claim # None /\ Set(s, [me EXCEPT !.at = "claim", !.stage = "reserve"])
    <3>1. session'[s].at = "claim" /\ session'[s].stage = "reserve"
      BY <1>1, <2>2 DEF Set, SessionState
    <3>. QED BY <1>2, <2>2, <3>1 DEF Guarded, Knows, Ended
  <2>. QED BY <1>13, <1>4, <2>1, <2>2 DEF ReadReservation
<1>14. CASE ReadReservationSecret(s)
  <2> DEFINE sec == secrets[me.profile.secret]
  <2>1. CASE Set(s, [me EXCEPT !.at = "create", !.seenSecret = sec])
    <3>1. /\ session'[s].at = "create" /\ session'[s].seenSecret = sec
          /\ session'[s].profile = me.profile /\ session'[s].stage = me.stage
      BY <1>1, <2>1 DEF Set, SessionState
    <3>. QED BY <1>2, <1>5, <3>1 DEF Guarded, Knows, Ended
  <2>. QED BY <1>14, <1>3, <2>1 DEF ReadReservationSecret
<1>15. CASE ReadIngest(s) BY <1>15, <1>4 DEF ReadIngest
<1>16. CASE Interrupted(s) \/ HelmOverrun(s) BY <1>16, <1>3 DEF Interrupted, HelmOverrun
<1>17. ~(ReadSettings(s) \/ ReadRelease(s) \/ ReadTarget(s))
  BY DEF ReadSettings, ReadRelease, ReadTarget, Knows
<1>. QED BY <1>7, <1>8, <1>10, <1>11, <1>12, <1>13, <1>14, <1>15, <1>16, <1>17

LEMMA WriteKnows ==
  ASSUME IInv, NEW s \in Sessions, Guarded(s), Kept,
         \/ CreateNamespace(s) \/ CreateSecret(s) \/ CreateClaim(s) \/ PatchReceipt(s)
  PROVE  Guarded(s)'
<1> DEFINE me == session[s]
<1>1. me \in SessionState /\ InHand(me) /\ session \in [Sessions -> SessionState]
      /\ disturbed' = disturbed
  BY Typed DEF IInv, SessionsOK, CreateNamespace, CreateSecret, CreateClaim, PatchReceipt
<1>2. ASSUME Fail(s) \/ Succeed(s) PROVE Guarded(s)' BY <1>2, EndedKnows
<1>3. CASE CreateNamespace(s) BY <1>1, <1>2, <1>3, FreeMove DEF CreateNamespace
<1>4. CASE CreateSecret(s) BY <1>1, <1>2, <1>4, FreeMove DEF CreateSecret
<1>5. CASE CreateClaim(s)
  <2> DEFINE r == Reserved(me.profile, me.seenSecret)
  <2>1. CASE /\ Set(s, [me EXCEPT !.at = "helm", !.reserved = Fresh])
             /\ claim' = [uid |-> Fresh, version |-> 0, receipt |-> r]
    <3>1. /\ session'[s].at = "helm" /\ session'[s].profile = me.profile
          /\ session'[s].cmd = me.cmd /\ session'[s].stage = me.stage
          /\ session'[s].reserved = Fresh /\ claim'.uid = Fresh
      BY <1>1, <2>1 DEF Set, SessionState
    <3>2. me.at = "create" /\ secrets' = secrets /\ lastUID \in Nat
      BY <1>5 DEF CreateClaim, IInv, ClusterOK
    <3>3. me.profile \in Profile /\ me.seenSecret \in Secret /\ me.seenSecret # None
      BY <1>1, <3>2 DEF InHand, SessionState, Ended
    <3>4. r \in Identity /\ claim'.receipt = r
      BY <2>1, <3>3 DEF Reserved, IdentityOf, Identity, Profile, Secret, NoUID, UID
    <3>5. claim' \in Claim
      <4>. HIDE DEF r
      <4>. QED BY <2>1, <3>2, <3>4 DEF Claim, Fresh, UID
    <3>6. HasReceipt' BY <3>4, <3>5, ConstantsAssumption DEF HasReceipt
    <3>7. ASSUME me.seenSecret = secrets[me.profile.secret]
          PROVE  secrets'[me.profile.secret] # None /\ Certifies(claim.receipt, session[s].profile)'
      BY <3>1, <3>2, <3>3, <3>4, <3>7 DEF Certifies, SameOwner, Reserved, IdentityOf
    <3>8. ASSUME me.seenSecret = secrets[me.profile.secret]
          PROVE  Assured(session[s].profile)'
      BY <3>1, <3>6, <3>7, <3>8 DEF Assured
    <3>. QED BY <1>1, <3>1, <3>2, <3>8 DEF Guarded, Knows, Ended
  <2>. QED BY <1>5, <1>2, <2>1 DEF CreateClaim
<1>6. CASE PatchReceipt(s)
  <2>1. CASE Reread(s, me.attempt + 1)
    <3>1. /\ session'[s].at = "claim" /\ session'[s].stage = me.stage
          /\ session'[s].profile = me.profile /\ session'[s].cmd = me.cmd
      BY <1>1, <2>1 DEF Reread, Set, SessionState
    <3>2. me.at = "patch" BY <1>6 DEF PatchReceipt
    <3>3. ASSUME Assured(me.profile), Knows(me) PROVE Assured(session[s].profile)'
      <4>1. me.profile.secret \in SecretNames
        BY <1>1, <3>2 DEF InHand, SessionState, Ended, Profile
      <4>. QED BY <3>1, <3>3, <4>1, StaysAssured DEF Assured, Certifies, SameOwner
    <3>. QED BY <1>1, <3>1, <3>2, <3>3 DEF Guarded, Knows, Ended
  <2>. QED BY <1>6, <1>2, <2>1 DEF PatchReceipt, Retry
<1>. QED BY <1>3, <1>4, <1>5, <1>6

LEMMA HelmKnows ==
  ASSUME IInv, NEW s \in Sessions, Guarded(s), Kept,
         \/ StartHelm(s) \/ HelmSucceeds(s) \/ HelmFails(s) \/ Uninstall(s)
  PROVE  Guarded(s)'
<1> DEFINE me == session[s]
<1>1. me \in SessionState /\ session \in [Sessions -> SessionState] /\ disturbed' = disturbed
  BY Typed DEF IInv, SessionsOK, StartHelm, HelmSucceeds, HelmFails, Uninstall
<1>2. ASSUME Fail(s) \/ Succeed(s) PROVE Guarded(s)' BY <1>2, EndedKnows
<1>3. CASE StartHelm(s) BY <1>1, <1>2, <1>3, FreeMove DEF StartHelm
<1>4. CASE HelmSucceeds(s)
  <2>1. CASE Set(s, [me EXCEPT !.at = "claim", !.stage = "confirm",
                      !.seenClaim = None, !.seenSts = None, !.seenSecret = None])
    <3>1. /\ session'[s].at = "claim" /\ session'[s].stage = "confirm"
          /\ session'[s].profile = me.profile /\ session'[s].cmd = me.cmd
      BY <1>1, <2>1 DEF Set, SessionState
    <3>2. me.at = "wait" BY <1>4 DEF HelmSucceeds
    <3>3. ASSUME Assured(me.profile) PROVE Assured(session[s].profile)'
      <4>1. me.profile.secret \in SecretNames
        BY <1>1, <3>2, Typed DEF InHand, SessionState, Ended, Profile
      <4>. QED BY <3>1, <3>3, <4>1, StaysAssured DEF Assured, Certifies, SameOwner
    <3>. QED BY <1>1, <3>1, <3>2, <3>3 DEF Guarded, Knows, Ended
  <2>. QED BY <1>2, <1>4, <2>1 DEF HelmSucceeds
<1>. QED BY <1>2, <1>3, <1>4 DEF HelmFails, Uninstall

LEMMA StartKnows == ASSUME IInv, NEW s \in Sessions, Start(s) PROVE Guarded(s)'
<1>1. ASSUME NEW c, NEW p, NEW r, Invoke(s, c, p, r)
      PROVE  /\ session'[s].at = IF c = "install" THEN "namespace" ELSE "settings"
             /\ session'[s].cmd = c /\ session'[s].stage = "preflight"
  BY <1>1 DEF Invoke, Set, Blank, IInv, SessionsOK
<1>. QED BY <1>1 DEF Start, Guarded, Knows, Ended

-----------------------------------------------------------------------------
(* What the queue holds.                                                   *)

LEMMA QueueKept == ASSUME QueueOK, Kept, queued' = queued PROVE QueueOK'
<1>. SUFFICES ASSUME queued # {}
              PROVE  claim' # None /\ claim'.receipt # None /\ queued = {claim'.receipt.tenant}
  BY DEF QueueOK, HasReceipt
<1>1. HasReceipt /\ queued = {claim.receipt.tenant} BY DEF QueueOK
<1>. QED BY <1>1, SameOwnerOf DEF Kept, HasReceipt

LEMMA StepQueues ==
  ASSUME GuardInv, NEW s \in Sessions, Start(s) \/ Step(s) PROVE QueueOK'
<1>1. Kept /\ QueueOK BY StepKeeps DEF GuardInv
<1>2. CASE queued' = {} BY <1>2 DEF QueueOK
<1>3. CASE queued' = queued BY <1>1, <1>3, QueueKept
<1>4. CASE /\ StartHelm(s) /\ session[s].cmd = "install" /\ s \notin disturbed
           /\ queued' = queued \cup Opens(HelmTarget(s))
  <2> DEFINE p == session[s].profile
  <2>1. HelmTarget(s) = p /\ claim' = claim BY <1>4 DEF HelmTarget, StartHelm
  <2>2. p.persistent => HasReceipt /\ Certifies(claim.receipt, p)
    BY <1>4 DEF GuardInv, Guarded, Knows, Assured, StartHelm
  <2>3. Opens(p) # {} => HasReceipt /\ Opens(p) = {claim.receipt.tenant}
    BY <2>2 DEF Opens, Certifies
  <2>4. queued' # {} => HasReceipt /\ queued' = {claim.receipt.tenant}
    <3>. HIDE DEF p
    <3>. QED BY <1>1, <1>4, <2>1, <2>3 DEF QueueOK
  <2>. QED BY <2>1, <2>4 DEF QueueOK, HasReceipt
<1>5. queued' = queued \/ queued' = {} \/
      /\ StartHelm(s) /\ session[s].cmd = "install" /\ s \notin disturbed
      /\ queued' = queued \cup Opens(HelmTarget(s))
  BY DEF Start, Step, Interrupted, ReadSettings, ReadNamespace, ReadRelease, ReadClaim,
     ReadStatefulSet, ReadInstalled, ReadSecret, ReadTarget, ReadIngest, ReadReservation,
     ReadReservationSecret, CreateNamespace, CreateSecret, CreateClaim, PatchReceipt,
     StartHelm, HelmSucceeds, HelmFails, HelmOverrun, Uninstall, Unmoved
<1>. QED BY <1>2, <1>3, <1>4, <1>5

-----------------------------------------------------------------------------
(* The invariant and the theorems.                                         *)

LEMMA OthersRest ==
  ASSUME IInv, NEW s \in Sessions, Start(s) \/ Step(s), NEW t \in Sessions, t # s
  PROVE  session'[t] = session[t] /\ (t \notin disturbed' => t \notin disturbed)
<1>1. \E st : Set(s, st)
  BY DEF Start, Invoke, Step, Interrupted, ReadSettings, ReadNamespace, ReadRelease, ReadClaim,
     ReadStatefulSet, ReadInstalled, ReadSecret, ReadTarget, ReadIngest, ReadReservation,
     ReadReservationSecret, CreateNamespace, CreateSecret, CreateClaim, PatchReceipt, Retry,
     Reread, StartHelm, HelmSucceeds, HelmFails, HelmOverrun, Uninstall, Goto, Fail, Succeed
<1>2. session'[t] = session[t] BY <1>1 DEF Set, IInv, SessionsOK
<1>3. t \notin disturbed' => t \notin disturbed
  BY DEF Start, Step, Interrupted, ReadSettings, ReadNamespace, ReadRelease, ReadClaim,
     ReadStatefulSet, ReadInstalled, ReadSecret, ReadTarget, ReadIngest, ReadReservation,
     ReadReservationSecret, CreateNamespace, CreateSecret, CreateClaim, PatchReceipt,
     StartHelm, HelmSucceeds, HelmFails, HelmOverrun, Uninstall, Unmoved
<1>. QED BY <1>2, <1>3

(* Whoever's state changes has taken a step.                               *)
LEMMA MoverSteps ==
  ASSUME IInv, [Next]_vars, NEW s \in Sessions, session'[s] # session[s]
  PROVE  Start(s) \/ Step(s)
<1>1. PICK t \in Sessions : Start(t) \/ Step(t)
  BY DEF Next, vars, Environment, TouchClaim, ControllerClaim, DeleteClaim,
     RecreateStatefulSet, ChangeTenant, RecreateSecret, DirectHelm, AdminStep
<1>. QED BY <1>1, OthersRest

LEMMA StepGuards ==
  ASSUME GuardInv, NEW s \in Sessions, Start(s) \/ Step(s) PROVE GuardInv'
<1>1. IInv /\ IInv' BY NextOK DEF GuardInv, Next
<1>2. Kept BY <1>1, StepKeeps
<1>3. Guarded(s)'
  <2>1. Guarded(s) BY DEF GuardInv
  <2>2. CASE \/ ReadSettings(s) \/ ReadNamespace(s) \/ ReadRelease(s)
             \/ ReadClaim(s) \/ ReadStatefulSet(s) \/ ReadInstalled(s) \/ ReadSecret(s)
             \/ ReadTarget(s) \/ ReadIngest(s) \/ ReadReservation(s)
             \/ ReadReservationSecret(s) \/ Interrupted(s) \/ HelmOverrun(s)
    <3>1. Unmoved
      BY <2>2 DEF ReadSettings, ReadNamespace, ReadRelease, ReadClaim, ReadStatefulSet,
           ReadInstalled, ReadSecret, ReadTarget, ReadIngest, ReadReservation,
           ReadReservationSecret, Interrupted, HelmOverrun, Unmoved
    <3>. QED BY <1>1, <2>1, <2>2, <3>1, ReadKnows
  <2>. QED BY <1>1, <1>2, <2>1, <2>2, WriteKnows, HelmKnows, StartKnows DEF Step
<1>4. ASSUME NEW t \in Sessions, t # s PROVE Guarded(t)'
  BY <1>1, <1>2, <1>4, OthersRest, StillKnows DEF GuardInv
<1>. QED BY <1>1, <1>3, <1>4, StepQueues DEF GuardInv

LEMMA EnvironmentGuards == ASSUME GuardInv, Environment PROVE GuardInv'
<1>1. IInv /\ IInv' /\ QueueOK BY NextOK DEF GuardInv, Next
<1>2. ASSUME Kept, session' = session, disturbed' = disturbed, queued' = queued PROVE GuardInv'
  BY <1>1, <1>2, StillKnows, QueueKept DEF GuardInv
<1>3. ASSUME disturbed' = Sessions, QueueOK' PROVE GuardInv'
  BY <1>1, <1>3 DEF GuardInv, Guarded
<1>4. ASSUME claim' = claim, queued' = queued PROVE QueueOK'
  BY <1>1, <1>4 DEF QueueOK, HasReceipt
<1>5. CASE TouchClaim BY <1>1, <1>2, <1>5, TouchKeeps DEF TouchClaim
<1>6. CASE ControllerClaim
  <2>1. Kept /\ session' = session /\ disturbed' = disturbed /\ queued' = {}
    BY <1>6 DEF ControllerClaim, Kept
  <2>2. QueueOK' BY <2>1 DEF QueueOK
  <2>. QED BY <1>1, <2>1, <2>2, StillKnows DEF GuardInv
<1>7. CASE DeleteClaim
  <2>1. QueueOK' BY <1>7 DEF DeleteClaim, QueueOK
  <2>. QED BY <1>3, <1>7, <2>1 DEF DeleteClaim, AdminStep
<1>8. CASE RecreateStatefulSet BY <1>3, <1>4, <1>8 DEF RecreateStatefulSet, AdminStep
<1>9. ASSUME NEW k \in SecretNames, NEW t \in Tenants, ChangeTenant(k, t) \/ RecreateSecret(k, t)
      PROVE  GuardInv'
  BY <1>3, <1>4, <1>9 DEF ChangeTenant, RecreateSecret, AdminStep
<1>10. ASSUME NEW p \in Profiles, DirectHelm(p) PROVE GuardInv'
  BY <1>3, <1>4, <1>10 DEF DirectHelm, AdminStep
<1>. QED BY <1>5, <1>6, <1>7, <1>8, <1>9, <1>10 DEF Environment

LEMMA GuardInvariance == Spec => []GuardInv
<1>1. Init => GuardInv
  BY InitOK DEF Init, GuardInv, QueueOK, Guarded, Blank
<1>2. ASSUME GuardInv, [Next]_vars PROVE GuardInv'
  <2>1. CASE UNCHANGED vars
    <3>1. IInv' BY <1>2, NextOK DEF GuardInv
    <3>2. Kept /\ session' = session /\ disturbed' = disturbed /\ queued' = queued
      BY <2>1 DEF vars, objects, Kept
    <3>. QED BY <1>2, <3>1, <3>2, StillKnows, QueueKept DEF GuardInv
  <2>. QED BY <1>2, <2>1, StepGuards, EnvironmentGuards DEF Next
<1>. QED BY <1>1, <1>2, PTL DEF Spec

(* install starts Helm only over a claim whose receipt is the identity     *)
(* Helm is about to install, although reserve_storage checked the claim,   *)
(* the StatefulSet, the settings and the Secret in calls of their own.     *)
THEOREM HelmStartsOverItsReceipt == Spec => HelmMatchesReceipt
<1>1. GuardInv => \A s \in Sessions :
        /\ HelmStarts(s) /\ session[s].cmd = "install" /\ session[s].profile.persistent
        /\ s \notin disturbed
        => HasReceipt /\ Certifies(claim.receipt, session[s].profile)
  BY DEF GuardInv, Guarded, Knows, Assured, HelmStarts
<1>. QED BY <1>1, GuardInvariance, PTL DEF HelmMatchesReceipt

(* A reservation that an install left behind, killed or taken back by      *)
(* --atomic, is never adopted: install starts Helm over a bound claim or   *)
(* over the very claim it reserved, even when the leftover has its own     *)
(* identity and other terminals reserve and bind beside it.                *)
THEOREM ReservationsAreNotAdopted == Spec => ReservationIsNeverAdopted
<1>1. GuardInv => \A s \in Sessions :
        /\ HelmStarts(s) /\ session[s].cmd = "install" /\ session[s].profile.persistent
        /\ s \notin disturbed /\ HasReceipt /\ claim.receipt.phase = "reserved"
        => session[s].reserved = claim.uid
  BY DEF GuardInv, Guarded, Knows, HelmStarts
<1>. QED BY <1>1, GuardInvariance, PTL DEF ReservationIsNeverAdopted

(* No Collector that install starts opens a queue holding another tenant's *)
(* data: the queue holds only what the receipt's tenant queued, and the    *)
(* receipt is the one of the profile.                                      *)
THEOREM QueueNeverChangesTenant == Spec => QueueKeepsItsTenant
<1>1. ASSUME GuardInv, NEW s \in Sessions, HelmStarts(s), session[s].cmd = "install",
             s \notin disturbed, queued # {}
      PROVE  Opens(session[s].profile) \subseteq queued
  <2>1. HasReceipt /\ queued = {claim.receipt.tenant} BY <1>1 DEF GuardInv, QueueOK
  <2>2. session[s].profile.persistent => Certifies(claim.receipt, session[s].profile)
    BY <1>1 DEF GuardInv, Guarded, Knows, Assured, HelmStarts
  <2>. QED BY <2>1, <2>2 DEF Opens, Certifies
<1>2. GuardInv => \A s \in Sessions :
        /\ HelmStarts(s) /\ session[s].cmd = "install"
        /\ s \notin disturbed /\ queued # {}
        => Opens(session[s].profile) \subseteq queued
  BY <1>1
<1>. QED BY <1>2, GuardInvariance, PTL DEF QueueKeepsItsTenant


-----------------------------------------------------------------------------
(* When an install succeeds.                                               *)

LEMMA SetAt ==
  ASSUME IInv, NEW s \in Sessions, NEW st, Set(s, st) PROVE session'[s] = st
  BY DEF Set, IInv, SessionsOK

(* Reads report success only of a receipt that is bound.                   *)
LEMMA ReadSucceeds ==
  ASSUME IInv, NEW s \in Sessions, session'[s].at = "ok", session[s].at \notin Ended,
         \/ ReadSettings(s) \/ ReadNamespace(s) \/ ReadRelease(s)
         \/ ReadClaim(s) \/ ReadStatefulSet(s) \/ ReadInstalled(s) \/ ReadSecret(s)
         \/ ReadTarget(s) \/ ReadIngest(s) \/ ReadReservation(s) \/ ReadReservationSecret(s)
         \/ Interrupted(s) \/ HelmOverrun(s)
  PROVE  /\ UNCHANGED <<claim, secrets>>
         /\ session[s].at = "secret" /\ session[s].stage = "confirm"
         /\ session[s].seenClaim.receipt.phase = "bound"
<1> DEFINE me == session[s]
<1>1. me \in SessionState BY Typed
<1>2. ~Fail(s) BY SetAt DEF Fail, Blank
<1>3. ASSUME NEW loc, Goto(s, loc) PROVE session'[s].at = loc
  BY <1>1, <1>3, SetAt DEF Goto, SessionState
<1>4. ASSUME NEW p,
             \/ Set(s, [me EXCEPT !.at = "namespace", !.profile = p])
             \/ Set(s, [me EXCEPT !.at = "sts", !.seenClaim = p])
             \/ Set(s, [me EXCEPT !.at = "installed", !.seenSts = p])
             \/ Set(s, [me EXCEPT !.at = "patch", !.seenSecret = p])
             \/ Set(s, [me EXCEPT !.at = "create", !.seenSecret = p])
             \/ Set(s, [me EXCEPT !.at = "claim", !.stage = p])
      PROVE  FALSE
  <2>1. session'[s].at \in {"namespace", "sts", "installed", "patch", "create", "claim"}
    BY <1>1, <1>4, SetAt DEF SessionState
  <2>. QED BY <2>1
<1>5. AfterCheck(s) # "ok" BY DEF AfterCheck
<1>6. ReadSecret(s)
  BY <1>2, <1>3, <1>4, <1>5
     DEF ReadSettings, ReadNamespace, ReadRelease, ReadClaim, ReadStatefulSet, ReadInstalled,
         ReadTarget, ReadIngest, ReadReservation, ReadReservationSecret, Interrupted, HelmOverrun
<1> DEFINE sec == secrets[me.profile.secret]
<1>7. /\ me.at = "secret" /\ me.stage = "confirm"
      /\ me.seenClaim.receipt = Bound(me.profile, sec, me.seenClaim, me.seenSts)
  BY <1>2, <1>3, <1>4, <1>5, <1>6 DEF ReadSecret, Agrees
<1>. QED BY <1>6, <1>7 DEF ReadSecret, Unmoved, objects, Bound, IdentityOf

(* Writes report success only of a patch that took effect.                 *)
LEMMA WriteSucceeds ==
  ASSUME IInv, NEW s \in Sessions, session'[s].at = "ok",
         \/ CreateNamespace(s) \/ CreateSecret(s) \/ CreateClaim(s) \/ PatchReceipt(s)
  PROVE  /\ claim # None /\ PatchMatches(claim, session[s].seenClaim)
         /\ session[s].at = "patch"
         /\ claim' = [claim EXCEPT !.version = @ + 1,
                        !.receipt = Bound(session[s].profile, session[s].seenSecret,
                                          session[s].seenClaim, session[s].seenSts)]
<1> DEFINE me == session[s]
<1>1. me \in SessionState BY Typed
<1>2. ~Fail(s) BY SetAt DEF Fail, Blank
<1>3. ASSUME NEW loc, Goto(s, loc) PROVE session'[s].at = loc
  BY <1>1, <1>3, SetAt DEF Goto, SessionState
<1>4. ~Set(s, [me EXCEPT !.at = "helm", !.reserved = Fresh])
  BY <1>1, SetAt DEF SessionState
<1>5. \A n : ~Reread(s, n)
  BY <1>1, SetAt DEF Reread, SessionState
<1>6. ~Retry(s) BY <1>2, <1>5 DEF Retry
<1>7. PatchReceipt(s)
  BY <1>2, <1>3, <1>4 DEF CreateNamespace, CreateSecret, CreateClaim
<1>. QED BY <1>6, <1>7 DEF PatchReceipt, PatchMatches

LEMMA SuccessIsBound ==
  ASSUME GuardInv, [Next]_vars, NEW s \in Sessions,
         session[s].cmd = "install", session[s].profile.persistent, s \notin disturbed,
         session'[s].at = "ok"
  PROVE  /\ HasReceipt' /\ claim'.receipt.phase = "bound"
         /\ Certifies(claim'.receipt, session[s].profile)
<1> DEFINE me == session[s]
<1>1. /\ IInv /\ Knows(me) /\ me \in SessionState /\ InHand(me) /\ me.at \notin Ended
      /\ session \in [Sessions -> SessionState]
  BY Typed DEF GuardInv, Guarded, Knows, IInv, SessionsOK
<1>2. Start(s) \/ Step(s) BY <1>1, MoverSteps DEF Ended
<1>3. Kept BY <1>1, <1>2, StepKeeps
<1>4. ASSUME me.stage = "confirm"
      PROVE  HasReceipt' /\ Certifies(claim'.receipt, me.profile) /\ HasReceipt
  <2>1. Assured(me.profile) BY <1>1, <1>4 DEF Knows
  <2>2. /\ claim' # None /\ claim'.receipt # None
        /\ OwnerOf(claim'.receipt) = OwnerOf(claim.receipt)
    BY <1>3, <2>1 DEF Kept, Assured, HasReceipt
  <2>. QED BY <2>1, <2>2, SameOwnerOf DEF Assured, Certifies, SameOwner, HasReceipt
<1>5. CASE \/ ReadSettings(s) \/ ReadNamespace(s) \/ ReadRelease(s)
           \/ ReadClaim(s) \/ ReadStatefulSet(s) \/ ReadInstalled(s) \/ ReadSecret(s)
           \/ ReadTarget(s) \/ ReadIngest(s) \/ ReadReservation(s)
           \/ ReadReservationSecret(s) \/ Interrupted(s) \/ HelmOverrun(s)
  <2>1. /\ UNCHANGED claim /\ me.at = "secret" /\ me.stage = "confirm"
        /\ me.seenClaim.receipt.phase = "bound"
    BY <1>1, <1>5, ReadSucceeds
  <2>. QED BY <1>1, <1>4, <2>1 DEF Knows
<1>6. CASE CreateNamespace(s) \/ CreateSecret(s) \/ CreateClaim(s) \/ PatchReceipt(s)
  <2> DEFINE b == Bound(me.profile, me.seenSecret, me.seenClaim, me.seenSts)
  <2>1. /\ PatchMatches(claim, me.seenClaim) /\ me.at = "patch" /\ claim # None
        /\ claim' = [claim EXCEPT !.version = @ + 1, !.receipt = b]
    BY <1>1, <1>6, WriteSucceeds
  <2>2. me.stage = "confirm" BY <1>1, <2>1 DEF Knows
  <2>3. claim'.receipt = b
    <3>1. claim \in Claim BY <1>1, <2>1 DEF IInv, ClusterOK
    <3>. HIDE DEF b
    <3>. QED BY <2>1, <3>1 DEF Claim
  <2>4. b.phase = "bound" BY DEF Bound, IdentityOf
  <2>. QED BY <1>4, <2>2, <2>3, <2>4
<1>7. CASE Start(s) \/ StartHelm(s) \/ HelmSucceeds(s) \/ HelmFails(s) \/ Uninstall(s)
  <2>1. ~Fail(s) BY <1>1, SetAt DEF Fail, Blank
  <2>2. ~Start(s) BY <1>1 DEF Start, Active
  <2>3. ~Uninstall(s) BY <1>1 DEF Uninstall
  <2>4. ~StartHelm(s)
    <3>1. ~Goto(s, "wait") BY <1>1, SetAt DEF Goto, SessionState
    <3>. QED BY <2>1, <3>1 DEF StartHelm
  <2>5. ~HelmSucceeds(s)
    <3> DEFINE st == [me EXCEPT !.at = "claim", !.stage = "confirm",
                        !.seenClaim = None, !.seenSts = None, !.seenSecret = None]
    <3>1. HelmSucceeds(s) => Set(s, st)
      BY DEF HelmSucceeds
    <3>2. st.at = "claim"
      BY <1>1 DEF SessionState
    <3>3. Set(s, st) => session'[s] = st
      BY <1>1 DEF Set
    <3>. QED BY <3>1, <3>2, <3>3
  <2>. QED BY <2>1, <2>2, <2>3, <2>4, <2>5, <1>7 DEF HelmFails
<1>. QED BY <1>2, <1>5, <1>6, <1>7 DEF Step

(* An undisturbed install of a persistent gateway reports success only     *)
(* when the claim carries a bound receipt of its profile and of the Secret *)
(* as it is, whether it bound the receipt itself, found it bound by        *)
(* another terminal, or retried a patch that had taken effect already.     *)
THEOREM SuccessConfirmsBinding == Spec => InstallConfirmsBinding
<1>1. ASSUME GuardInv, [Next]_vars, NEW s \in Sessions,
             session[s].cmd = "install", session[s].profile # None,
             session[s].profile.persistent, session'[s].at = "ok", s \notin disturbed
      PROVE  /\ HasReceipt' /\ claim'.receipt.phase = "bound"
             /\ Certifies(claim'.receipt, session[s].profile)
  BY <1>1, SuccessIsBound
<1>2. GuardInv /\ [Next]_vars =>
        \A s \in Sessions :
          /\ session[s].cmd = "install" /\ session[s].profile # None
          /\ session[s].profile.persistent
          /\ session'[s].at = "ok" /\ s \notin disturbed
          => HasReceipt' /\ claim'.receipt.phase = "bound"
             /\ Certifies(claim'.receipt, session[s].profile)
  BY <1>1
<1>. QED BY <1>2, GuardInvariance, PTL DEF Spec, InstallConfirmsBinding

-----------------------------------------------------------------------------
(* One invocation after the other.  The checks of a rollback, and those on *)
(* the StatefulSet, are not protected by anything they leave in the        *)
(* cluster, so they hold only as long as no other invocation runs.         *)

OneAtATime == \A s, t \in Sessions : Active(s) /\ Active(t) => s = t

Seeing == {"sts", "installed", "secret"}
Rolling == {"settings", "namespace", "release", "claim", "target", "helm", "wait"} \cup Seeing

Informed == Seeing \cup Ended \cup {"helm"}

(* What an undisturbed invocation knows when no other runs beside it.      *)
Follows(me) ==
  /\ me.cmd = "none" <=> me.at \in Ended
  /\ me.cmd = "uninstall" => me.at \in {"settings", "namespace", "release", "helm"}
  /\ me.cmd = "rollback" => me.at \in Rolling /\ me.stage = "preflight"
  /\ me.at \in Seeing => HasReceipt /\ claim.receipt = me.seenClaim.receipt
  /\ me.at \in {"installed", "secret"} => sts = me.seenSts
  /\ me.cmd = "rollback" /\ me.at \in {"target", "helm"} /\ me.profile.persistent =>
       (HasReceipt => sts # None /\ Assured(me.profile))
  /\ me.cmd = "rollback" /\ me.at = "helm" =>
       /\ me.revision \in DOMAIN history
       /\ SameOwner(history[me.revision], me.profile)
       /\ history[me.revision].persistent = me.profile.persistent
  /\ me.cmd = "install" /\ me.at = "helm" /\ me.profile.persistent =>
       (claim.receipt.phase = "bound" => sts # None)

OneInv == GuardInv /\ \A s \in Sessions : s \notin disturbed => Follows(session[s])

(* A step that moves the session and leaves alone what it knows of.        *)
LEMMA MoveFollows ==
  ASSUME IInv, NEW s \in Sessions, NEW st, Set(s, st),
         UNCHANGED <<claim, secrets, sts, history>>, Follows(st)
  PROVE  Follows(session[s])'
<1>1. session'[s] = st BY SetAt
<1>. QED BY <1>1 DEF Follows, HasReceipt, Assured, Certifies, SameOwner

(* Places where nothing is known yet.                                      *)
LEMMA NewFollows ==
  ASSUME IInv, NEW s \in Sessions, NEW st, Set(s, st),
         \/ st.cmd = "none" /\ st.at \in Ended
         \/ st.cmd = "install" /\ st.at \notin Informed
         \/ st.cmd = "rollback" /\ st.stage = "preflight"
              /\ st.at \in {"settings", "namespace", "release", "claim", "wait"}
         \/ st.cmd = "uninstall" /\ st.at \in {"settings", "namespace", "release", "helm"}
  PROVE  Follows(session[s])'
<1>1. session'[s] = st BY SetAt
<1>2. /\ st.cmd = "none" => st.at \in Ended
      /\ st.cmd = "uninstall" => st.at \in {"settings", "namespace", "release", "helm"}
      /\ st.cmd = "rollback" => st.at \in Rolling /\ st.stage = "preflight"
      /\ st.at \notin Seeing
      /\ ~(st.cmd = "rollback" /\ st.at \in {"target", "helm"})
      /\ ~(st.cmd = "install" /\ st.at = "helm")
      /\ st.cmd # "none" => st.at \notin Ended
  BY DEF Informed, Seeing, Rolling, Ended
<1>. QED BY <1>1, <1>2 DEF Follows, Seeing

LEMMA EndFollows ==
  ASSUME IInv, NEW s \in Sessions, Fail(s) \/ Succeed(s) PROVE Follows(session[s])'
<1>1. ASSUME NEW loc \in Ended, Set(s, [Blank EXCEPT !.at = loc])
      PROVE  Follows(session[s])'
  <2> DEFINE st == [Blank EXCEPT !.at = loc]
  <2>1. st.cmd = "none" /\ st.at = loc BY DEF Blank
  <2>2. Set(s, st) BY <1>1
  <2>. HIDE DEF st
  <2>. QED BY <2>1, <2>2, NewFollows
<1>. QED BY <1>1 DEF Fail, Succeed, Ended

(* Reads.  Nothing of the cluster changes.                                 *)
LEMMA ReadFollows ==
  ASSUME GuardInv, NEW s \in Sessions, s \notin disturbed, Follows(session[s]), Unmoved,
         \/ ReadSettings(s) \/ ReadNamespace(s) \/ ReadRelease(s)
         \/ ReadClaim(s) \/ ReadStatefulSet(s) \/ ReadInstalled(s)
         \/ ReadTarget(s) \/ ReadIngest(s) \/ ReadReservation(s) \/ ReadReservationSecret(s)
         \/ Interrupted(s) \/ HelmOverrun(s)
  PROVE  Follows(session[s])'
<1> DEFINE me == session[s]
<1>1. /\ IInv /\ me \in SessionState /\ InHand(me) /\ QueueOK
      /\ me.cmd = "install" => Knows(me)
      /\ me.cmd \in {"none", "install", "rollback", "uninstall"}
  BY Typed DEF GuardInv, Guarded, SessionState, Commands
<1>2. UNCHANGED <<claim, secrets, sts, history>> BY DEF Unmoved, objects, release
<1>3. ASSUME Fail(s) \/ Succeed(s) PROVE Follows(session[s])' BY <1>1, <1>3, EndFollows
<1>4. ASSUME NEW loc, Goto(s, loc), Follows([me EXCEPT !.at = loc])
      PROVE  Follows(session[s])'
  BY <1>1, <1>2, <1>4, MoveFollows DEF Goto
<1>5. ASSUME NEW loc \in {"mkns", "mksecret", "ingest", "reserve", "reserveSecret"},
             Goto(s, loc), me.cmd = "install"
      PROVE  Follows(session[s])'
  <2> DEFINE st == [me EXCEPT !.at = loc]
  <2>1. st.cmd = "install" /\ st.at \notin Informed
    BY <1>1, <1>5 DEF SessionState, Informed, Seeing, Ended
  <2>. HIDE DEF st
  <2>. QED BY <1>1, <1>5, <2>1, NewFollows DEF Goto, st
<1>6. CASE ReadSettings(s)
  <2> DEFINE st == [me EXCEPT !.at = "namespace", !.profile = installed]
  <2>1. CASE me.at = "settings" /\ Set(s, st)
    <3>1. me.cmd \in {"rollback", "uninstall"} BY <1>1, <2>1 DEF Knows, Follows, Ended
    <3>2. st.cmd = me.cmd /\ st.at = "namespace" /\ st.stage = me.stage
      BY <1>1 DEF SessionState
    <3>3. me.cmd = "rollback" => me.stage = "preflight" BY DEF Follows
    <3>. HIDE DEF st
    <3>. QED BY <1>1, <2>1, <3>1, <3>2, <3>3, NewFollows
  <2>. QED BY <1>3, <1>6, <2>1 DEF ReadSettings
<1>7. CASE ReadNamespace(s)
  <2>1. me.cmd # "none" BY <1>7 DEF ReadNamespace, Follows, Ended
  <2>2. CASE me.cmd # "install" /\ Goto(s, "release")
    <3> DEFINE st == [me EXCEPT !.at = "release"]
    <3>1. st.cmd = me.cmd /\ st.at = "release" /\ st.stage = me.stage
      BY <1>1 DEF SessionState
    <3>2. me.cmd = "rollback" => me.stage = "preflight" BY DEF Follows
    <3>. HIDE DEF st
    <3>. QED BY <1>1, <2>1, <2>2, <3>1, <3>2, NewFollows DEF Goto, st
  <2>3. CASE me.cmd = "install" /\ Goto(s, "claim")
    <3> DEFINE st == [me EXCEPT !.at = "claim"]
    <3>1. st.cmd = me.cmd /\ st.at = "claim" BY <1>1 DEF SessionState
    <3>. HIDE DEF st
    <3>. QED BY <1>1, <2>3, <3>1, NewFollows DEF Goto, st, Informed, Seeing, Ended
  <2>4. CASE me.cmd # "install"
    <3>1. Goto(s, "release") BY <1>7, <2>4 DEF ReadNamespace
    <3>. QED BY <2>2, <2>4, <3>1
  <2>5. CASE me.cmd = "install"
    <3>1. Goto(s, "mkns") \/ Goto(s, "claim") \/ Goto(s, "ingest")
      BY <1>7, <2>5 DEF ReadNamespace
    <3>. QED BY <1>5, <2>3, <2>5, <3>1
  <2>. QED BY <2>4, <2>5
<1>8. CASE ReadRelease(s)
  <2>1. me.at = "release" BY <1>8 DEF ReadRelease
  <2>2. me.cmd \in {"rollback", "uninstall"} BY <1>1, <2>1 DEF Knows, Follows, Ended
  <2>3. CASE me.cmd = "uninstall" /\ Goto(s, "helm")
    <3> DEFINE st == [me EXCEPT !.at = "helm"]
    <3>1. st.cmd = me.cmd /\ st.at = "helm" BY <1>1 DEF SessionState
    <3>. HIDE DEF st
    <3>. QED BY <1>1, <2>3, <3>1, NewFollows DEF Goto, st
  <2>4. CASE me.cmd = "rollback" /\ Goto(s, "claim")
    <3> DEFINE st == [me EXCEPT !.at = "claim"]
    <3>1. st.cmd = me.cmd /\ st.at = "claim" /\ st.stage = "preflight"
      BY <1>1, <2>4 DEF SessionState, Follows
    <3>. HIDE DEF st
    <3>. QED BY <1>1, <2>4, <3>1, NewFollows DEF Goto, st
  <2>5. CASE me.cmd = "rollback" /\ ~me.profile.persistent /\ Goto(s, "target")
    <3> DEFINE st == [me EXCEPT !.at = "target"]
    <3>1. /\ st.cmd = me.cmd /\ st.at = "target" /\ st.stage = "preflight"
          /\ st.profile = me.profile
      BY <1>1, <2>5 DEF SessionState, Follows
    <3>2. Follows(st)
      <4>. HIDE DEF st
      <4>. QED BY <2>5, <3>1 DEF Follows, Rolling, Seeing, Ended
    <3>. QED BY <1>4, <2>5, <3>2
  <2>6. CASE Fail(s) BY <1>3, <2>6
  <2>7. CASE me.cmd = "uninstall"
    <3>1. Fail(s) \/ Goto(s, "helm") BY <1>8, <2>7 DEF ReadRelease
    <3>. QED BY <2>3, <2>6, <2>7, <3>1
  <2>8. CASE me.cmd = "rollback"
    <3>1. \/ Fail(s) \/ Goto(s, "claim")
          \/ ~me.profile.persistent /\ Goto(s, "target")
      BY <1>8, <2>8 DEF ReadRelease
    <3>. QED BY <2>4, <2>5, <2>6, <2>8, <3>1
  <2>. QED BY <2>2, <2>7, <2>8
<1>9. CASE ReadClaim(s)
  <2>0. me.at = "claim" /\ me.cmd \in {"install", "rollback"}
    BY <1>1, <1>9 DEF ReadClaim, Follows, Ended
  <2>1. CASE /\ claim # None /\ claim.receipt # None
             /\ Set(s, [me EXCEPT !.at = "sts", !.seenClaim = claim])
    <3> DEFINE st == [me EXCEPT !.at = "sts", !.seenClaim = claim]
    <3>1. /\ st.cmd = me.cmd /\ st.at = "sts" /\ st.stage = me.stage
          /\ st.seenClaim = claim
      BY <1>1 DEF SessionState
    <3>2. Follows(st)
      <4>. HIDE DEF st
      <4>. QED BY <2>0, <2>1, <3>1 DEF Follows, Rolling, Seeing, Ended, HasReceipt
    <3>. HIDE DEF st
    <3>. QED BY <1>1, <1>2, <2>1, <3>2, MoveFollows DEF st
  <2>2. CASE claim = None /\ Goto(s, AfterCheck(s)) /\ me.stage # "confirm"
    <3>1. CASE me.cmd = "rollback"
      <4> DEFINE st == [me EXCEPT !.at = "target"]
      <4>1. me.stage = "preflight" /\ AfterCheck(s) = "target"
        BY <3>1 DEF Follows, AfterCheck
      <4>2. /\ st.cmd = me.cmd /\ st.at = "target" /\ st.stage = "preflight"
            /\ st.profile = me.profile
        BY <1>1, <4>1 DEF SessionState
      <4>3. Follows(st)
        <5>. HIDE DEF st
        <5>. QED BY <2>2, <3>1, <4>2 DEF Follows, Rolling, Seeing, Ended, HasReceipt
      <4>. QED BY <1>4, <2>2, <4>1, <4>3
    <3>2. CASE me.cmd = "install" /\ me.stage # "reserve"
      <4>1. AfterCheck(s) = "ingest" BY <3>2 DEF AfterCheck
      <4>. QED BY <1>5, <2>2, <3>2, <4>1
    <3>3. CASE me.cmd = "install" /\ me.stage = "reserve"
      <4> DEFINE st == [me EXCEPT !.at = "helm"]
      <4>1. AfterCheck(s) = "helm" BY <3>3 DEF AfterCheck
      <4>2. ~me.profile.persistent BY <1>1, <2>0, <2>2, <3>3 DEF Knows
      <4>3. st.cmd = me.cmd /\ st.at = "helm" /\ st.profile = me.profile
        BY <1>1 DEF SessionState
      <4>4. Follows(st)
        <5>. HIDE DEF st
        <5>. QED BY <3>3, <4>2, <4>3 DEF Follows, Seeing, Ended
      <4>. QED BY <1>4, <2>2, <4>1, <4>4
    <3>. QED BY <2>0, <3>1, <3>2, <3>3
  <2>. QED BY <1>3, <1>9, <2>1, <2>2 DEF ReadClaim
<1>10. CASE ReadStatefulSet(s)
  <2> DEFINE st == [me EXCEPT !.at = "installed", !.seenSts = sts]
  <2>1. me.at = "sts" /\ Set(s, st) BY <1>10 DEF ReadStatefulSet
  <2>2. /\ st.cmd = me.cmd /\ st.at = "installed" /\ st.stage = me.stage
        /\ st.seenClaim = me.seenClaim /\ st.seenSts = sts
    BY <1>1 DEF SessionState
  <2>3. Follows(st)
    <3>. HIDE DEF st
    <3>. QED BY <2>1, <2>2 DEF Follows, Rolling, Seeing, Ended
  <2>. HIDE DEF st
  <2>. QED BY <1>1, <1>2, <2>1, <2>3, MoveFollows DEF st
<1>11. CASE ReadInstalled(s)
  <2> DEFINE st == [me EXCEPT !.at = "secret"]
  <2>1. CASE Goto(s, "secret") /\ me.at = "installed"
    <3>1. /\ st.cmd = me.cmd /\ st.at = "secret" /\ st.stage = me.stage
          /\ st.seenClaim = me.seenClaim /\ st.seenSts = me.seenSts
      BY <1>1 DEF SessionState
    <3>2. Follows(st)
      <4>. HIDE DEF st
      <4>. QED BY <2>1, <3>1 DEF Follows, Rolling, Seeing, Ended
    <3>. QED BY <1>4, <2>1, <3>2
  <2>. QED BY <1>3, <1>11, <2>1 DEF ReadInstalled
<1>12. CASE ReadTarget(s)
  <2> DEFINE st == [me EXCEPT !.at = "helm"]
  <2>1. CASE /\ Goto(s, "helm") /\ me.at = "target" /\ me.revision \in DOMAIN history
             /\ SameOwner(history[me.revision], me.profile)
             /\ history[me.revision].persistent = me.profile.persistent
    <3>1. /\ st.cmd = me.cmd /\ st.at = "helm" /\ st.stage = me.stage
          /\ st.profile = me.profile /\ st.revision = me.revision
      BY <1>1 DEF SessionState
    <3>2. me.cmd = "rollback" BY <1>1, <2>1 DEF Knows, Follows, Ended
    <3>3. Follows(st)
      <4>. HIDE DEF st
      <4>. QED BY <2>1, <3>1, <3>2 DEF Follows, Rolling, Seeing, Ended
    <3>. QED BY <1>4, <2>1, <3>3
  <2>. QED BY <1>3, <1>12, <2>1 DEF ReadTarget
<1>13. CASE ReadIngest(s)
  <2>1. me.cmd = "install"
    BY <1>1, <1>13 DEF ReadIngest, Follows, Ended, Rolling, Seeing
  <2>. QED BY <1>5, <1>13, <2>1 DEF ReadIngest
<1>14. CASE ReadReservation(s)
  <2>1. me.cmd = "install" /\ me.at = "reserve"
    BY <1>1, <1>14 DEF ReadReservation, Follows, Ended, Rolling, Seeing
  <2>2. CASE Goto(s, "helm") /\ ~me.profile.persistent
    <3> DEFINE st == [me EXCEPT !.at = "helm"]
    <3>1. st.cmd = me.cmd /\ st.at = "helm" /\ st.profile = me.profile
      BY <1>1 DEF SessionState
    <3>2. Follows(st)
      <4>. HIDE DEF st
      <4>. QED BY <2>1, <2>2, <3>1 DEF Follows, Seeing, Ended
    <3>. QED BY <1>4, <2>2, <3>2
  <2>3. CASE Set(s, [me EXCEPT !.at = "claim", !.stage = "reserve"])
    <3> DEFINE st == [me EXCEPT !.at = "claim", !.stage = "reserve"]
    <3>1. st.cmd = me.cmd /\ st.at = "claim" BY <1>1 DEF SessionState
    <3>. HIDE DEF st
    <3>. QED BY <1>1, <2>1, <2>3, <3>1, NewFollows DEF st, Informed, Seeing, Ended
  <2>. QED BY <1>5, <1>14, <2>1, <2>2, <2>3 DEF ReadReservation
<1>15. CASE ReadReservationSecret(s)
  <2> DEFINE sec == secrets[me.profile.secret]
             st == [me EXCEPT !.at = "create", !.seenSecret = sec]
  <2>1. me.cmd = "install"
    BY <1>1, <1>15 DEF ReadReservationSecret, Follows, Ended, Rolling, Seeing
  <2>2. st.cmd = me.cmd /\ st.at = "create" BY <1>1 DEF SessionState
  <2>3. Set(s, st) => Follows(session[s])'
    <3>. HIDE DEF st
    <3>. QED BY <1>1, <2>1, <2>2, NewFollows DEF Informed, Seeing, Ended
  <2>. QED BY <1>3, <1>15, <2>3 DEF ReadReservationSecret
<1>16. CASE Interrupted(s) \/ HelmOverrun(s) BY <1>16, <1>3 DEF Interrupted, HelmOverrun
<1>. QED BY <1>6, <1>7, <1>8, <1>9, <1>10, <1>11, <1>12, <1>13, <1>14, <1>15, <1>16

(* The comparison with the Secret: a rollback that passes it holds a       *)
(* receipt of its profile, and the StatefulSet is there.                   *)
LEMMA ReadSecretFollows ==
  ASSUME GuardInv, NEW s \in Sessions, s \notin disturbed, Follows(session[s]), ReadSecret(s)
  PROVE  Follows(session[s])'
<1> DEFINE me == session[s]
           sec == secrets[me.profile.secret]
           b == Bound(me.profile, sec, me.seenClaim, me.seenSts)
<1>1. /\ IInv /\ me \in SessionState /\ InHand(me) /\ me.at = "secret"
      /\ me.cmd = "install" => Knows(me)
  BY Typed DEF GuardInv, Guarded, ReadSecret
<1>2. UNCHANGED <<claim, secrets, sts, history>>
  BY DEF ReadSecret, Unmoved, objects, release
<1>3. CASE Fail(s) \/ Succeed(s) BY <1>1, <1>3, EndFollows
<1>4. /\ HasReceipt /\ claim.receipt = me.seenClaim.receipt
      /\ sts = me.seenSts /\ sts # None /\ me.cmd \in {"install", "rollback"}
  BY <1>1 DEF Follows, Seeing, InHand, Ended, SessionState, Commands
<1>5. CASE /\ Goto(s, AfterCheck(s)) /\ sec # None /\ me.seenClaim.receipt = b
  <2>1. Assured(me.profile)
    <3>1. /\ b.cluster = me.profile.cluster /\ b.secret = me.profile.secret
          /\ b.secretUID = sec.uid /\ b.tenant = sec.tenant
      BY DEF Bound, IdentityOf
    <3>. HIDE DEF b
    <3>. QED BY <1>4, <1>5, <3>1 DEF Assured, Certifies, SameOwner
  <2>2. CASE me.cmd = "rollback"
    <3> DEFINE st == [me EXCEPT !.at = "target"]
    <3>1. me.stage = "preflight" /\ AfterCheck(s) = "target"
      BY <2>2 DEF Follows, AfterCheck
    <3>2. /\ st.cmd = me.cmd /\ st.at = "target" /\ st.stage = "preflight"
          /\ st.profile = me.profile
      BY <1>1, <3>1 DEF SessionState
    <3>3. Follows(st)
      <4>. HIDE DEF st
      <4>. QED BY <1>4, <2>1, <2>2, <3>2 DEF Follows, Rolling, Seeing, Ended
    <3>4. Set(s, st) BY <1>5, <3>1 DEF Goto
    <3>. HIDE DEF st
    <3>. QED BY <1>1, <1>2, <3>3, <3>4, MoveFollows
  <2>3. CASE me.cmd = "install" /\ me.stage = "reserve"
    <3> DEFINE st == [me EXCEPT !.at = "helm"]
    <3>1. AfterCheck(s) = "helm" BY <2>3 DEF AfterCheck
    <3>2. st.cmd = me.cmd /\ st.at = "helm" BY <1>1 DEF SessionState
    <3>3. Follows(st)
      <4>. HIDE DEF st
      <4>. QED BY <1>4, <2>3, <3>2 DEF Follows, Seeing, Ended
    <3>4. Set(s, st) BY <1>5, <3>1 DEF Goto
    <3>. HIDE DEF st
    <3>. QED BY <1>1, <1>2, <3>3, <3>4, MoveFollows
  <2>4. CASE me.cmd = "install" /\ me.stage # "reserve"
    <3> DEFINE st == [me EXCEPT !.at = "ingest"]
    <3>1. AfterCheck(s) = "ingest" BY <2>4 DEF AfterCheck
    <3>2. st.cmd = "install" /\ st.at \notin Informed
      BY <1>1, <2>4 DEF SessionState, Informed, Seeing, Ended
    <3>3. Set(s, st) BY <1>5, <3>1 DEF Goto
    <3>. HIDE DEF st
    <3>. QED BY <1>1, <3>2, <3>3, NewFollows
  <2>. QED BY <1>4, <2>2, <2>3, <2>4
<1>6. CASE me.stage = "confirm" /\ Set(s, [me EXCEPT !.at = "patch", !.seenSecret = sec])
  <2> DEFINE st == [me EXCEPT !.at = "patch", !.seenSecret = sec]
  <2>1. me.cmd = "install" BY <1>4, <1>6 DEF Follows
  <2>2. st.cmd = "install" /\ st.at \notin Informed
    BY <1>1, <2>1 DEF SessionState, Informed, Seeing, Ended
  <2>3. Set(s, st) BY <1>6
  <2>. HIDE DEF st
  <2>. QED BY <1>1, <2>2, <2>3, NewFollows
<1>7. \/ Fail(s) \/ Succeed(s)
      \/ Goto(s, AfterCheck(s)) /\ sec # None /\ me.seenClaim.receipt = b
      \/ me.stage = "confirm" /\ Set(s, [me EXCEPT !.at = "patch", !.seenSecret = sec])
  BY DEF ReadSecret, Agrees
<1>. QED BY <1>3, <1>5, <1>6, <1>7

(* Writes and Helm.                                                        *)
LEMMA WriteFollows ==
  ASSUME GuardInv, IInv', NEW s \in Sessions, s \notin disturbed, Follows(session[s]),
         \/ CreateNamespace(s) \/ CreateSecret(s) \/ CreateClaim(s) \/ PatchReceipt(s)
  PROVE  Follows(session[s])'
<1> DEFINE me == session[s]
<1>1. /\ IInv /\ me \in SessionState /\ InHand(me) BY Typed DEF GuardInv
<1>2. CASE Fail(s) \/ Succeed(s) BY <1>1, <1>2, EndFollows
<1>3. me.cmd = "install" /\ me.at \in {"mkns", "mksecret", "create", "patch"}
  <2>1. me.at \in {"mkns", "mksecret", "create", "patch"}
    BY DEF CreateNamespace, CreateSecret, CreateClaim, PatchReceipt
  <2>2. me.cmd \in {"none", "install", "rollback", "uninstall"}
    BY <1>1 DEF SessionState, Commands
  <2>. QED BY <2>1, <2>2 DEF Follows, Ended, Rolling, Seeing
<1>4. ASSUME NEW loc \in {"mksecret", "reserve"}, Goto(s, loc) PROVE Follows(session[s])'
  <2> DEFINE st == [me EXCEPT !.at = loc]
  <2>1. st.cmd = "install" /\ st.at \notin Informed
    BY <1>1, <1>3 DEF SessionState, Informed, Seeing, Ended
  <2>2. Set(s, st) BY <1>4 DEF Goto
  <2>. HIDE DEF st
  <2>. QED BY <1>1, <2>1, <2>2, NewFollows
<1>5. ASSUME NEW n, Reread(s, n) PROVE Follows(session[s])'
  <2> DEFINE st == [me EXCEPT !.at = "claim", !.attempt = n,
                      !.seenClaim = None, !.seenSts = None, !.seenSecret = None]
  <2>1. st.cmd = "install" /\ st.at \notin Informed
    BY <1>1, <1>3 DEF SessionState, Informed, Seeing, Ended
  <2>2. Set(s, st) BY <1>5 DEF Reread
  <2>. HIDE DEF st
  <2>. QED BY <1>1, <2>1, <2>2, NewFollows
<1>6. CASE CreateClaim(s) /\ ~Fail(s)
  <2> DEFINE st == [me EXCEPT !.at = "helm", !.reserved = Fresh]
             r == Reserved(me.profile, me.seenSecret)
  <2>1. Set(s, st) /\ claim' = [uid |-> Fresh, version |-> 0, receipt |-> r]
    BY <1>6 DEF CreateClaim
  <2>2. st.cmd = "install" /\ st.at = "helm" BY <1>1, <1>3 DEF SessionState
  <2>3. claim'.receipt.phase = "reserved" BY <2>1 DEF Reserved, IdentityOf
  <2>4. session'[s] = st BY <1>1, <2>1, SetAt
  <2>. HIDE DEF st
  <2>. QED BY <2>2, <2>3, <2>4 DEF Follows, Seeing, Ended
<1>7. CASE PatchReceipt(s)
  <2>1. Succeed(s) \/ Fail(s) \/ Reread(s, me.attempt + 1)
    BY <1>7 DEF PatchReceipt, Retry
  <2>. QED BY <1>2, <1>5, <2>1
<1>8. CASE CreateNamespace(s)
  <2>1. Fail(s) \/ Goto(s, "mksecret") BY <1>8 DEF CreateNamespace
  <2>. QED BY <1>2, <1>4, <2>1
<1>9. CASE CreateSecret(s)
  <2>1. Fail(s) \/ Goto(s, "reserve") BY <1>9 DEF CreateSecret
  <2>. QED BY <1>2, <1>4, <2>1
<1>. QED BY <1>2, <1>6, <1>7, <1>8, <1>9

LEMMA HelmFollows ==
  ASSUME GuardInv, NEW s \in Sessions, Follows(session[s]),
         StartHelm(s) \/ HelmSucceeds(s) \/ HelmFails(s) \/ Uninstall(s)
  PROVE  Follows(session[s])'
<1> DEFINE me == session[s]
<1>1. /\ IInv /\ me \in SessionState /\ me.cmd \in {"none", "install", "rollback", "uninstall"}
  BY Typed DEF GuardInv, SessionState, Commands
<1>2. CASE Fail(s) \/ Succeed(s) BY <1>1, <1>2, EndFollows
<1>3. CASE StartHelm(s) /\ Goto(s, "wait")
  <2> DEFINE st == [me EXCEPT !.at = "wait"]
  <2>1. me.at = "helm" /\ me.cmd \in {"install", "rollback"}
    BY <1>1, <1>3 DEF StartHelm, Follows, Ended
  <2>2. st.cmd = me.cmd /\ st.at = "wait" /\ st.stage = me.stage BY <1>1 DEF SessionState
  <2>3. me.cmd = "rollback" => me.stage = "preflight" BY DEF Follows
  <2>4. Set(s, st) BY <1>3 DEF Goto
  <2>. HIDE DEF st
  <2>. QED BY <1>1, <2>1, <2>2, <2>3, <2>4, NewFollows DEF Informed, Seeing, Ended
<1>4. CASE HelmSucceeds(s) /\ me.cmd = "install" /\ ~Succeed(s)
  <2> DEFINE st == [me EXCEPT !.at = "claim", !.stage = "confirm",
                      !.seenClaim = None, !.seenSts = None, !.seenSecret = None]
  <2>1. st.cmd = "install" /\ st.at \notin Informed
    BY <1>1, <1>4 DEF SessionState, Informed, Seeing, Ended
  <2>2. Set(s, st) BY <1>4 DEF HelmSucceeds
  <2>. HIDE DEF st
  <2>. QED BY <1>1, <2>1, <2>2, NewFollows
<1>5. CASE StartHelm(s)
  <2>1. Fail(s) \/ Goto(s, "wait") BY <1>5 DEF StartHelm
  <2>. QED BY <1>2, <1>3, <1>5, <2>1
<1>6. CASE HelmSucceeds(s) BY <1>2, <1>4, <1>6 DEF HelmSucceeds
<1>7. CASE HelmFails(s) BY <1>2, <1>7 DEF HelmFails
<1>8. CASE Uninstall(s)
  <2>1. Fail(s) \/ Succeed(s) BY <1>8 DEF Uninstall
  <2>. QED BY <1>2, <2>1
<1>. QED BY <1>5, <1>6, <1>7, <1>8

LEMMA StartFollows == ASSUME IInv, NEW s \in Sessions, Start(s) PROVE Follows(session[s])'
<1>1. ASSUME NEW c \in {"install", "rollback", "uninstall"}, NEW p, NEW r, Invoke(s, c, p, r)
      PROVE  Follows(session[s])'
  <2> DEFINE st == [Blank EXCEPT !.at = IF c = "install" THEN "namespace" ELSE "settings",
                      !.cmd = c, !.profile = p, !.revision = r]
  <2>1. /\ st.cmd = c /\ st.stage = "preflight"
        /\ st.at = IF c = "install" THEN "namespace" ELSE "settings"
    BY DEF Blank
  <2>2. Set(s, st) BY <1>1 DEF Invoke
  <2>. HIDE DEF st
  <2>. QED BY <2>1, <2>2, NewFollows DEF Informed, Seeing, Ended
<1>2. \/ \E p : Invoke(s, "install", p, 0)
      \/ \E r : Invoke(s, "rollback", None, r)
      \/ Invoke(s, "uninstall", None, 0)
  BY DEF Start
<1>. QED BY <1>1, <1>2

(* The steps of others come before an invocation or after it.              *)
LEMMA StepFollows ==
  ASSUME OneAtATime, OneAtATime', OneInv, NEW s \in Sessions, Start(s) \/ Step(s)
  PROVE  OneInv'
<1>1. GuardInv /\ IInv /\ GuardInv' /\ IInv' BY StepGuards DEF OneInv, GuardInv
<1>2. ASSUME NEW t \in Sessions, t # s, t \notin disturbed' PROVE Follows(session[t])'
  <2>1. session'[t] = session[t] /\ Follows(session[t])
    BY <1>2, <1>1, OthersRest DEF OneInv
  <2>2. Active(s) \/ Active(s)'
    <3>1. CASE Step(s)
      BY <3>1 DEF Active, Ended, Step, Interrupted, ReadSettings, ReadNamespace, ReadRelease,
       ReadClaim, ReadStatefulSet, ReadInstalled, ReadSecret, ReadTarget, ReadIngest,
       ReadReservation, ReadReservationSecret, CreateNamespace, CreateSecret, CreateClaim,
       PatchReceipt, StartHelm, HelmSucceeds, HelmFails, HelmOverrun, Uninstall
    <3>2. CASE Start(s)
      <4>1. ASSUME NEW c, NEW p, NEW r, Invoke(s, c, p, r)
            PROVE  session'[s].at \in {"namespace", "settings"}
        BY <1>1, <4>1, SetAt DEF Invoke, Blank
      <4>. QED BY <3>2, <4>1 DEF Start, Active, Ended
    <3>. QED BY <3>1, <3>2
  <2>3. session[t].at \in Ended BY <1>2, <2>1, <2>2 DEF OneAtATime, Active
  <2>. QED BY <2>1, <2>3 DEF Follows, Ended, Seeing
<1>3. CASE Start(s)
  <2>1. Follows(session[s])' BY <1>1, <1>3, StartFollows
  <2>. QED BY <1>2, <1>1, <2>1 DEF OneInv
<1>4. CASE Step(s)
  <2>1. disturbed' = disturbed
    BY <1>4 DEF Step, Interrupted, ReadSettings, ReadNamespace, ReadRelease, ReadClaim,
     ReadStatefulSet, ReadInstalled, ReadSecret, ReadTarget, ReadIngest, ReadReservation,
     ReadReservationSecret, CreateNamespace, CreateSecret, CreateClaim, PatchReceipt,
     StartHelm, HelmSucceeds, HelmFails, HelmOverrun, Uninstall, Unmoved
  <2>2. ASSUME s \notin disturbed PROVE Follows(session[s])'
    <3>1. Follows(session[s]) BY <2>2 DEF OneInv
    <3>2. CASE \/ ReadSettings(s) \/ ReadNamespace(s) \/ ReadRelease(s)
               \/ ReadClaim(s) \/ ReadStatefulSet(s) \/ ReadInstalled(s)
               \/ ReadTarget(s) \/ ReadIngest(s) \/ ReadReservation(s)
               \/ ReadReservationSecret(s) \/ Interrupted(s) \/ HelmOverrun(s)
      <4>1. Unmoved
        BY <3>2 DEF ReadSettings, ReadNamespace, ReadRelease, ReadClaim, ReadStatefulSet,
             ReadInstalled, ReadTarget, ReadIngest, ReadReservation,
             ReadReservationSecret, Interrupted, HelmOverrun, Unmoved
      <4>. QED BY <1>1, <2>2, <3>1, <3>2, <4>1, ReadFollows
    <3>3. CASE ReadSecret(s) BY <1>1, <2>2, <3>1, <3>3, ReadSecretFollows
    <3>4. CASE CreateNamespace(s) \/ CreateSecret(s) \/ CreateClaim(s) \/ PatchReceipt(s)
      BY <1>1, <2>2, <3>1, <3>4, WriteFollows
    <3>5. CASE StartHelm(s) \/ HelmSucceeds(s) \/ HelmFails(s) \/ Uninstall(s)
      BY <1>1, <3>1, <3>5, HelmFollows
    <3>. QED BY <1>4, <3>2, <3>3, <3>4, <3>5 DEF Step
  <2>. QED BY <1>2, <1>1, <2>1, <2>2 DEF OneInv
<1>. QED BY <1>3, <1>4

(* A session that does not move.                                           *)
LEMMA StillFollows ==
  ASSUME GuardInv, NEW s \in Sessions, s \notin disturbed, Follows(session[s]),
         UNCHANGED <<session, secrets, sts, history>>,
         \/ claim' = claim
         \/ claim # None /\ claim' # None /\ claim'.receipt = claim.receipt
         \/ claim = None /\ claim' # None /\ claim'.receipt = None
  PROVE  Follows(session[s])'
<1> DEFINE me == session[s]
<1>1. CASE claim' = claim BY <1>1 DEF Follows, HasReceipt, Assured, Certifies, SameOwner
<1>2. CASE claim # None /\ claim' # None /\ claim'.receipt = claim.receipt
  BY <1>2 DEF Follows, HasReceipt, Assured, Certifies, SameOwner
<1>3. CASE claim = None /\ claim' # None /\ claim'.receipt = None
  <2>1. ~HasReceipt /\ ~HasReceipt' BY <1>3 DEF HasReceipt
  <2>2. ~(me.cmd = "install" /\ me.at = "helm" /\ me.profile.persistent)
    BY <2>1 DEF GuardInv, Guarded, Knows, Assured
  <2>. QED BY <2>1, <2>2 DEF Follows
<1>. QED BY <1>1, <1>2, <1>3

LEMMA EnvironmentFollows == ASSUME OneInv, Environment PROVE OneInv'
<1>1. GuardInv /\ GuardInv' /\ IInv BY EnvironmentGuards DEF OneInv, GuardInv
<1>2. CASE TouchClaim
  <2>1. claim \in Claim /\ claim # None /\ claim' = [claim EXCEPT !.version = @ + 1]
    BY <1>1, <1>2 DEF TouchClaim, IInv, ClusterOK
  <2>2. claim' # None /\ claim'.receipt = claim.receipt
    <3>1. claim.version + 1 \in Nat BY <2>1 DEF Claim
    <3>2. ASSUME NEW v \in Nat
          PROVE  [claim EXCEPT !.version = v] \in Claim
                 /\ [claim EXCEPT !.version = v].receipt = claim.receipt
      BY <2>1 DEF Claim
    <3>. QED BY <2>1, <3>1, <3>2, ConstantsAssumption
  <2>. QED BY <1>1, <1>2, <2>1, <2>2, StillFollows DEF TouchClaim, release, OneInv
<1>3. CASE ControllerClaim
  <2>1. claim = None /\ claim'.receipt = None BY <1>3 DEF ControllerClaim
  <2>2. claim' # None
    <3>1. Fresh \in UID BY <1>1 DEF IInv, ClusterOK, Fresh, UID
    <3>2. claim' \in Claim BY <1>3, <3>1 DEF ControllerClaim, Claim
    <3>. QED BY <3>2, ConstantsAssumption
  <2>. QED BY <1>1, <1>3, <2>1, <2>2, StillFollows DEF ControllerClaim, release, OneInv
<1>4. CASE disturbed' = Sessions BY <1>1, <1>4 DEF OneInv
<1>. QED BY <1>2, <1>3, <1>4
     DEF Environment, DeleteClaim, RecreateStatefulSet, ChangeTenant, RecreateSecret,
         DirectHelm, AdminStep

LEMMA OneInvariance == Spec /\ []OneAtATime => []OneInv
<1>1. Init => OneInv
  <2>1. ASSUME Init PROVE GuardInv
    BY <2>1, InitOK DEF Init, GuardInv, QueueOK, Guarded, Blank
  <2>2. ASSUME Init, NEW s \in Sessions PROVE Follows(session[s])
    BY <2>2 DEF Init, Blank, Follows, Seeing, Ended
  <2>. QED BY <2>1, <2>2 DEF OneInv
<1>2. OneInv /\ OneAtATime /\ OneAtATime' /\ [Next]_vars => OneInv'
  <2>1. ASSUME OneInv, UNCHANGED vars PROVE OneInv'
    <3>1. GuardInv /\ IInv /\ IInv' BY <2>1, NextOK DEF OneInv, GuardInv
    <3>2. Kept /\ UNCHANGED <<session, secrets, sts, history, claim, disturbed, queued>>
      BY <2>1 DEF vars, objects, release, Kept
    <3>3. GuardInv' BY <3>1, <3>2, StillKnows, QueueKept DEF GuardInv
    <3>. QED BY <2>1, <3>1, <3>2, <3>3, StillFollows DEF OneInv
  <2>. QED BY <2>1, StepFollows, EnvironmentFollows DEF Next
<1>. QED BY <1>1, <1>2, PTL DEF Spec

LEMMA HelmStartsByHelm ==
  ASSUME OneInv, [Next]_vars, NEW s \in Sessions, HelmStarts(s) PROVE StartHelm(s)
<1>1. IInv BY DEF OneInv, GuardInv
<1>2. session[s].at = "helm" /\ session'[s].at = "wait" BY DEF HelmStarts
<1>3. Start(s) \/ Step(s) BY <1>1, <1>2, MoverSteps
<1>4. ~Fail(s) /\ ~Succeed(s) BY <1>1, <1>2, SetAt DEF Fail, Succeed, Blank
<1>. QED BY <1>2, <1>3, <1>4
     DEF Start, Active, Ended, Step, Interrupted, ReadSettings, ReadNamespace, ReadRelease,
     ReadClaim, ReadStatefulSet, ReadInstalled, ReadSecret, ReadTarget, ReadIngest,
     ReadReservation, ReadReservationSecret, CreateNamespace, CreateSecret, CreateClaim,
     PatchReceipt, HelmSucceeds, HelmFails, HelmOverrun, Uninstall

(* Of invocations that do not overlap, from any number of terminals and    *)
(* with any controllers beside them, none makes Helm create a StatefulSet  *)
(* over a claim that was bound to an earlier one: verify_storage_objects   *)
(* refuses a retained claim.  An uninstall between that check and Helm     *)
(* breaks it (the run storage_uninstall_race), hence the hypothesis.       *)
THEOREM ReinstallKeepsRetainedQueue == Spec /\ []OneAtATime => ReinstallNeverReplays
<1>1. ASSUME OneInv, [Next]_vars, NEW s \in Sessions, HelmStarts(s),
             HelmTarget(s).persistent, sts = None, HasReceipt, s \notin disturbed
      PROVE  claim.receipt.phase = "reserved"
  <2>1. StartHelm(s) BY <1>1, HelmStartsByHelm
  <2>2. /\ session[s].at = "helm" /\ session[s].cmd # "uninstall" /\ Follows(session[s])
        /\ session[s] \in SessionState
    BY <1>1, <2>1, Typed DEF StartHelm, OneInv, GuardInv
  <2>3. claim.receipt.phase \in {"reserved", "bound"}
    <3>1. claim \in Claim BY <1>1 DEF OneInv, GuardInv, IInv, ClusterOK, HasReceipt
    <3>2. claim.receipt \in Identity BY <1>1, <3>1 DEF Claim, HasReceipt
    <3>. QED BY <3>2 DEF Identity
  <2>4. session[s].cmd # "rollback" BY <1>1, <2>2 DEF Follows, HelmTarget
  <2>5. session[s].cmd = "install" BY <2>2, <2>4 DEF Follows, Ended, SessionState, Commands
  <2>. QED BY <1>1, <2>2, <2>3, <2>5 DEF Follows, HelmTarget
<1>2. OneInv /\ [Next]_vars => \A s \in Sessions :
        /\ HelmStarts(s) /\ HelmTarget(s).persistent
        /\ sts = None /\ HasReceipt /\ s \notin disturbed
        => claim.receipt.phase = "reserved"
  BY <1>1
<1>. QED BY <1>2, OneInvariance, PTL DEF Spec, ReinstallNeverReplays

(* Of invocations that do not overlap, no rollback opens a queue for       *)
(* another tenant: the target revision has the owner of the live pair, and *)
(* the receipt is that owner's.  Another invocation may change what these  *)
(* checks saw (the run storage_rollback_race), hence the hypothesis.       *)
THEOREM RollbackOpensOwnQueue == Spec /\ []OneAtATime => RollbackKeepsQueueTenant
<1>1. ASSUME OneInv, NEW s \in Sessions, HelmStarts(s),
             session[s].cmd = "rollback", s \notin disturbed, queued # {}
      PROVE  Opens(HelmTarget(s)) \subseteq queued
  <2> DEFINE me == session[s]
             p == HelmTarget(s)
  <2>1. /\ me.at = "helm" /\ Follows(me) /\ QueueOK
    BY <1>1 DEF HelmStarts, OneInv, GuardInv
  <2>2. HasReceipt /\ queued = {claim.receipt.tenant} BY <1>1, <2>1 DEF QueueOK
  <2>3. p = history[me.revision] BY <1>1 DEF HelmTarget
  <2>4. SameOwner(p, me.profile) /\ p.persistent = me.profile.persistent
    BY <1>1, <2>1, <2>3 DEF Follows
  <2>5. p.persistent => claim.receipt.tenant = secrets[p.secret].tenant
    BY <1>1, <2>1, <2>2, <2>4 DEF Follows, Assured, Certifies, SameOwner
  <2>. HIDE DEF p
  <2>. QED BY <2>2, <2>5 DEF Opens, p
<1>2. OneInv => \A s \in Sessions :
        /\ HelmStarts(s) /\ session[s].cmd = "rollback"
        /\ s \notin disturbed /\ queued # {}
        => Opens(HelmTarget(s)) \subseteq queued
  BY <1>1
<1>. QED BY <1>2, OneInvariance, PTL DEF RollbackKeepsQueueTenant

-----------------------------------------------------------------------------
(* No invocation goes on for ever.                                         *)

LEMMA LeftIs ==
  ASSUME NEW me \in SessionState
  PROVE  /\ Left(me) \in 0..31
         /\ me.at \notin Ended => Left(me) > 0
         /\ me.at \in Ended => Left(me) = 0
         /\ me.at = "settings" => Left(me) = 31
         /\ me.at = "namespace" => Left(me) = 30
         /\ me.at = "release" => Left(me) = 29
         /\ me.at \in {"mkns", "ingest"} => Left(me) = 24
         /\ me.at = "mksecret" => Left(me) = 23
         /\ me.at = "reserve" => Left(me) = 22
         /\ me.at = "reserveSecret" => Left(me) = 19
         /\ me.at \in {"create", "target"} => Left(me) = 18
         /\ me.at = "helm" => Left(me) = 17
         /\ me.at = "wait" => Left(me) = 16
  BY DEF Left, SessionState, Ended, Locations, Stages

(* What is left during a check, by its stage.                              *)
LEMMA LeftInCheck ==
  ASSUME NEW me \in SessionState
  PROVE  LET after == IF me.stage = "preflight" THEN 24
                      ELSE IF me.stage = "reserve" THEN 17 ELSE 1 + 5 * (2 - me.attempt)
         IN  /\ me.at = "claim" => Left(me) = after + 4
             /\ me.at = "sts" => Left(me) = after + 3
             /\ me.at = "installed" => Left(me) = after + 2
             /\ me.at = "secret" => Left(me) = after + 1
             /\ me.at = "patch" => Left(me) = after
             /\ after \in Nat /\ me.attempt \in 0..2
             /\ me.stage = "confirm" => after \in 1..11
             /\ me.stage = "reserve" => after = 17
             /\ me.stage = "preflight" => after = 24
             /\ me.stage \in {"preflight", "reserve", "confirm"}
             /\ after \in 1..24
  BY DEF Left, SessionState, Ended, Locations, Stages

LEMMA CallsNearTheEnd ==
  ASSUME IInv, NEW s \in Sessions, Active(s), Step(s)
  PROVE  Left(session'[s]) < Left(session[s])
<1> DEFINE me == session[s]
           st == session'[s]
<1>0. session \in [Sessions -> SessionState] BY DEF IInv, SessionsOK
<1>1. /\ me \in SessionState /\ st \in SessionState /\ me.at \notin Ended /\ InHand(me)
      /\ Left(me) > 0
  BY NextOK, Typed, LeftIs DEF Next, IInv, SessionsOK, Active
<1>2. CASE Fail(s) \/ Succeed(s)
  <2>1. st.at \in Ended BY <1>2, SetAt DEF Fail, Succeed, Blank, Ended
  <2>. QED BY <1>1, <2>1, LeftIs
<1>3. ASSUME NEW loc, Goto(s, loc)
      PROVE  st.at = loc /\ st.stage = me.stage /\ st.attempt = me.attempt
  BY <1>1, <1>3, SetAt DEF Goto, SessionState
<1>4. ASSUME NEW loc, Goto(s, loc),
             \/ me.at = "namespace" /\ loc \in {"release", "mkns", "claim", "ingest"}
             \/ me.at = "release" /\ loc \in {"helm", "claim", "target"}
             \/ me.at = "installed" /\ loc = "secret"
             \/ me.at = "target" /\ loc = "helm"
             \/ me.at = "ingest" /\ loc \in {"mksecret", "reserve"}
             \/ me.at = "reserve" /\ loc \in {"helm", "reserveSecret"}
             \/ me.at = "mkns" /\ loc = "mksecret"
             \/ me.at = "mksecret" /\ loc = "reserve"
             \/ me.at = "helm" /\ loc = "wait"
             \/ me.at \in {"claim", "secret"} /\ me.stage # "confirm" /\ loc = AfterCheck(s)
      PROVE  Left(st) < Left(me)
  <2>1. st.at = loc /\ st.stage = me.stage /\ st.attempt = me.attempt BY <1>3, <1>4
  <2>2. CASE me.at \in {"claim", "secret"} /\ me.stage # "confirm" /\ loc = AfterCheck(s)
    <3>1. /\ loc \in {"helm", "target", "ingest"}
          /\ me.stage = "reserve" => loc = "helm"
      BY <2>2 DEF AfterCheck
    <3>. QED BY <1>1, <2>1, <2>2, <3>1, LeftIs, LeftInCheck
  <2>. QED BY <1>1, <1>4, <2>1, <2>2, LeftIs, LeftInCheck
<1>5. ASSUME NEW v,
             \/ me.at = "settings" /\ Set(s, [me EXCEPT !.at = "namespace", !.profile = v])
             \/ me.at = "claim" /\ Set(s, [me EXCEPT !.at = "sts", !.seenClaim = v])
             \/ me.at = "sts" /\ Set(s, [me EXCEPT !.at = "installed", !.seenSts = v])
             \/ me.at = "secret" /\ Set(s, [me EXCEPT !.at = "patch", !.seenSecret = v])
             \/ me.at = "reserveSecret" /\ Set(s, [me EXCEPT !.at = "create", !.seenSecret = v])
             \/ me.at = "create" /\ Set(s, [me EXCEPT !.at = "helm", !.reserved = v])
      PROVE  Left(st) < Left(me)
  <2>1. CASE me.at = "settings" /\ Set(s, [me EXCEPT !.at = "namespace", !.profile = v])
    <3>1. st.at = "namespace" /\ st.stage = me.stage /\ st.attempt = me.attempt
      BY <1>0, <1>1, <2>1 DEF Set, SessionState
    <3>. QED BY <1>1, <2>1, <3>1, LeftIs, LeftInCheck
  <2>2. CASE me.at = "claim" /\ Set(s, [me EXCEPT !.at = "sts", !.seenClaim = v])
    <3>1. st.at = "sts" /\ st.stage = me.stage /\ st.attempt = me.attempt
      BY <1>0, <1>1, <2>2 DEF Set, SessionState
    <3>. QED BY <1>1, <2>2, <3>1, LeftIs, LeftInCheck
  <2>3. CASE me.at = "sts" /\ Set(s, [me EXCEPT !.at = "installed", !.seenSts = v])
    <3>1. st.at = "installed" /\ st.stage = me.stage /\ st.attempt = me.attempt
      BY <1>0, <1>1, <2>3 DEF Set, SessionState
    <3>. QED BY <1>1, <2>3, <3>1, LeftIs, LeftInCheck
  <2>4. CASE me.at = "secret" /\ Set(s, [me EXCEPT !.at = "patch", !.seenSecret = v])
    <3>1. st.at = "patch" /\ st.stage = me.stage /\ st.attempt = me.attempt
      BY <1>0, <1>1, <2>4 DEF Set, SessionState
    <3>. QED BY <1>1, <2>4, <3>1, LeftIs, LeftInCheck
  <2>5. CASE me.at = "reserveSecret" /\ Set(s, [me EXCEPT !.at = "create", !.seenSecret = v])
    <3>1. st.at = "create" /\ st.stage = me.stage /\ st.attempt = me.attempt
      BY <1>0, <1>1, <2>5 DEF Set, SessionState
    <3>. QED BY <1>1, <2>5, <3>1, LeftIs, LeftInCheck
  <2>6. CASE me.at = "create" /\ Set(s, [me EXCEPT !.at = "helm", !.reserved = v])
    <3>1. st.at = "helm" /\ st.stage = me.stage /\ st.attempt = me.attempt
      BY <1>0, <1>1, <2>6 DEF Set, SessionState
    <3>. QED BY <1>1, <2>6, <3>1, LeftIs, LeftInCheck
  <2>. QED BY <1>5, <2>1, <2>2, <2>3, <2>4, <2>5, <2>6
<1>6. CASE me.at = "reserve" /\ Set(s, [me EXCEPT !.at = "claim", !.stage = "reserve"])
  <2>1. st.at = "claim" /\ st.stage = "reserve"
    BY <1>1, <1>6, SetAt DEF SessionState
  <2>. QED BY <1>1, <1>6, <2>1, LeftIs, LeftInCheck
<1>7. CASE HelmSucceeds(s) /\ ~Succeed(s)
  <2> DEFINE next == [me EXCEPT !.at = "claim", !.stage = "confirm",
                        !.seenClaim = None, !.seenSts = None, !.seenSecret = None]
  <2>1. Set(s, next) /\ me.at = "wait" BY <1>7 DEF HelmSucceeds
  <2>2. next.at = "claim" /\ next.stage = "confirm" BY <1>1 DEF SessionState
  <2>3. st = next BY <2>1, SetAt
  <2>4. st.at = "claim" /\ st.stage = "confirm" BY <2>2, <2>3
  <2>. QED BY <1>1, <2>1, <2>4, LeftIs, LeftInCheck
<1>8. CASE PatchReceipt(s) /\ ~Fail(s) /\ ~Succeed(s)
  <2> DEFINE next == [me EXCEPT !.at = "claim", !.attempt = me.attempt + 1,
                        !.seenClaim = None, !.seenSts = None, !.seenSecret = None]
  <2>1. Set(s, next) /\ me.at = "patch" /\ me.attempt < 2
    BY <1>8 DEF PatchReceipt, Retry, Reread, MayRetry
  <2>2. next.at = "claim" /\ next.stage = me.stage /\ next.attempt = me.attempt + 1
    BY <1>1 DEF SessionState
  <2>3. st = next BY <2>1, SetAt
  <2>4. st.at = "claim" /\ st.stage = "confirm" /\ st.attempt = me.attempt + 1
    BY <1>1, <2>1, <2>2, <2>3 DEF InHand
  <2>5. Left(me) = 1 + 5 * (2 - me.attempt) BY <1>1, <2>1, LeftInCheck DEF InHand
  <2>6. Left(st) = 1 + 5 * (2 - st.attempt) + 4 BY <1>1, <2>4, LeftInCheck
  <2>7. me.attempt \in 0..2 BY <1>1, LeftInCheck
  <2>. QED BY <2>1, <2>4, <2>5, <2>6, <2>7
<1>9. CASE ReadSettings(s) \/ ReadNamespace(s) \/ ReadRelease(s)
  BY <1>2, <1>4, <1>5, <1>9 DEF ReadSettings, ReadNamespace, ReadRelease
<1>10. CASE ReadClaim(s) \/ ReadStatefulSet(s) \/ ReadInstalled(s)
  BY <1>2, <1>4, <1>5, <1>10 DEF ReadClaim, ReadStatefulSet, ReadInstalled
<1>11. CASE ReadSecret(s)
  BY <1>2, <1>4, <1>5, <1>11 DEF ReadSecret
<1>12. CASE ReadTarget(s) \/ ReadIngest(s)
  BY <1>2, <1>4, <1>12 DEF ReadTarget, ReadIngest
<1>13. CASE ReadReservation(s) \/ ReadReservationSecret(s)
  BY <1>2, <1>4, <1>5, <1>6, <1>13 DEF ReadReservation, ReadReservationSecret
<1>14. CASE CreateNamespace(s) \/ CreateSecret(s) \/ CreateClaim(s)
  BY <1>2, <1>4, <1>5, <1>14 DEF CreateNamespace, CreateSecret, CreateClaim
<1>15. CASE StartHelm(s) \/ HelmFails(s) \/ HelmOverrun(s) \/ Uninstall(s) \/ Interrupted(s)
  BY <1>2, <1>4, <1>15 DEF StartHelm, HelmFails, HelmOverrun, Uninstall, Interrupted
<1>. QED BY <1>2, <1>7, <1>8, <1>9, <1>10, <1>11, <1>12, <1>13, <1>14, <1>15 DEF Step

(* An invocation makes at most 31 calls, whoever acts beside it: every     *)
(* call leaves it fewer, the three tries of the patch included.  This is   *)
(* the half of SessionsEnd that needs no fairness.                         *)
THEOREM InvocationsAreBounded == Spec => CallsRunOut
<1>1. ASSUME IInv, [Next]_vars, NEW s \in Sessions, Active(s), session'[s] # session[s]
      PROVE  Left(session'[s]) < Left(session[s])
  <2>1. Start(s) \/ Step(s) BY <1>1, MoverSteps
  <2>2. ~Start(s) BY <1>1 DEF Start
  <2>. QED BY <1>1, <2>1, <2>2, CallsNearTheEnd
<1>2. IInv /\ [Next]_vars =>
        \A s \in Sessions :
          Active(s) /\ session'[s] # session[s] => Left(session'[s]) < Left(session[s])
  BY <1>1
<1>3. GuardInv => IInv BY DEF GuardInv
<1>. QED BY <1>2, <1>3, GuardInvariance, PTL DEF Spec, CallsRunOut

=============================================================================
