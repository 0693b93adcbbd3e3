--------------------------- MODULE StorageIdentity ---------------------------
(***************************************************************************)
(* The gateway-queue guard of the command line tool (src/elven).           *)
(*                                                                         *)
(* A release keeps its unsent telemetry in one PersistentVolumeClaim.  The *)
(* tool must never start a Collector over a queue that was written for     *)
(* another tenant.  It therefore reserves the claim create-only before     *)
(* Helm runs, and after Helm reconciled it binds a receipt on the claim to *)
(* the UIDs it read, by compare-and-swap.  Every kubectl call is a step of *)
(* its own: between two of them other invocations of the tool, controllers *)
(* and administrators may act.                                             *)
(*                                                                         *)
(* One release in one namespace of one confirmed cluster is modelled, so   *)
(* release, namespace and cluster UID are left out of the identity.  A     *)
(* claim without receipt stands for a foreign, unlabelled or directly      *)
(* installed one.                                                          *)
(***************************************************************************)
EXTENDS Naturals, Sequences, FiniteSets

CONSTANTS
  Sessions,     (* terminals from which the tool is invoked                *)
  ClusterNames, (* values of cluster.name                                  *)
  SecretNames,  (* values of credentials.existingSecret                    *)
  Tenants,      (* contents of the tenant-id key                           *)
  Profiles,     (* the reviewed settings an operator may install           *)
  None,         (* absent object                                           *)
  MaxUID,       (* bound: UIDs the API server hands out                    *)
  MaxVersion,   (* bound: resourceVersion of one claim                     *)
  MaxRuns,      (* bound: invocations of the tool                          *)
  MaxAdmin      (* bound: administrative changes made outside the tool     *)

Profile == [cluster : ClusterNames, secret : SecretNames, persistent : BOOLEAN]
UID == Nat \ {0}
NoUID == 0
Secret == [uid : UID, tenant : Tenants]
Identity ==
  [phase : {"reserved", "bound"}, cluster : ClusterNames, secret : SecretNames,
   secretUID : UID, tenant : Tenants, pvcUID : Nat, stsUID : Nat]
Claim == [uid : UID, version : Nat, receipt : Identity \cup {None}]
StatefulSet == [uid : UID, persistent : BOOLEAN]

ASSUME ConstantsAssumption ==
  /\ Profiles \subseteq Profile
  /\ None \notin Profile \cup Secret \cup Identity \cup Claim \cup StatefulSet
  /\ MaxUID \in Nat /\ MaxVersion \in Nat /\ MaxRuns \in Nat /\ MaxAdmin \in Nat

VARIABLES
  namespace,  (* does the namespace exist                                  *)
  secrets,    (* ingest Secret of each name, or None                       *)
  claim,      (* PVC data-<release>-gateway-0, or None                     *)
  sts,        (* StatefulSet <release>-gateway, or None                    *)
  installed,  (* settings ConfigMap of the Helm release, or None           *)
  history,    (* Helm revisions of the release                             *)
  pending,    (* who holds the release's pending Helm revision             *)
  lastUID,    (* last UID the API server assigned                          *)
  session,    (* the invocations                                           *)
  runs,       (* invocations started so far                                *)
  admin,      (* administrative changes so far                             *)
  queued,     (* history variable: tenants whose data the Collectors that  *)
              (* undisturbed installs started queued on the current claim  *)
  disturbed   (* history variable: sessions during which an administrator  *)
              (* changed something                                         *)

objects == <<namespace, secrets, claim, sts>>
release == <<installed, history, pending>>
vars == <<namespace, secrets, claim, sts, installed, history, pending, lastUID,
          session, runs, admin, queued, disturbed>>

Stages == {"preflight", "reserve", "confirm"}
Commands == {"none", "install", "rollback", "uninstall"}
Ended == {"idle", "ok", "failed"}
Locations ==
  Ended \cup {"settings", "namespace", "release", "claim", "sts", "installed",
              "secret", "target", "ingest", "mkns", "mksecret", "reserve",
              "reserveSecret", "create", "helm", "wait", "patch"}

(* What one invocation remembers: where it is, the reads it has in hand,   *)
(* the UID its reservation returned and how often it retried the patch.    *)
SessionState ==
  [at : Locations, stage : Stages, cmd : Commands,
   profile : Profile \cup {None}, revision : Nat,
   seenClaim : Claim \cup {None}, seenSts : StatefulSet \cup {None},
   seenSecret : Secret \cup {None}, reserved : Nat, attempt : 0..2]

Blank ==
  [at |-> "idle", stage |-> "preflight", cmd |-> "none", profile |-> None,
   revision |-> 0, seenClaim |-> None, seenSts |-> None, seenSecret |-> None,
   reserved |-> NoUID, attempt |-> 0]

Active(s) == session[s].at \notin Ended

-----------------------------------------------------------------------------
(* Identities and the comparisons made with them.  Where an operator has a *)
(* faulty twin defined just before it, the twin is the mutant that         *)
(* PROJECT.json names for a property.                                      *)

IdentityOf(p, sec, phase, claimUID, stsUID) ==
  [phase |-> phase, cluster |-> p.cluster, secret |-> p.secret,
   secretUID |-> sec.uid, tenant |-> sec.tenant,
   pvcUID |-> claimUID, stsUID |-> stsUID]

Reserved(p, sec) == IdentityOf(p, sec, "reserved", NoUID, NoUID)
Bound(p, sec, c, w) == IdentityOf(p, sec, "bound", c.uid, w.uid)

SameOwner(p, q) == p.cluster = q.cluster /\ p.secret = q.secret

AgreesOnObjects(receipt, identity) ==
  /\ receipt.phase = identity.phase
  /\ receipt.pvcUID = identity.pvcUID /\ receipt.stsUID = identity.stsUID
AgreesOnOwner(receipt, identity) ==
  SameOwner(receipt, identity)
  /\ receipt.secretUID = identity.secretUID /\ receipt.tenant = identity.tenant
Agrees(receipt, identity) == receipt = identity

Fresh == lastUID + 1
CanAllocate == lastUID < MaxUID

(* Moves of one session; Fail and Succeed drop what it remembered.         *)
Set(s, st) == session' = [session EXCEPT ![s] = st]
Goto(s, loc) == Set(s, [session[s] EXCEPT !.at = loc])
Fail(s) == Set(s, [Blank EXCEPT !.at = "failed"])
Succeed(s) == Set(s, [Blank EXCEPT !.at = "ok"])

(* Which step follows a passed storage check.                              *)
AfterCheck(s) ==
  IF session[s].stage = "reserve" THEN "helm"
  ELSE IF session[s].cmd = "rollback" THEN "target" ELSE "ingest"

-----------------------------------------------------------------------------
Init ==
  /\ namespace = FALSE
  /\ secrets = [k \in SecretNames |-> None]
  /\ claim = None /\ sts = None
  /\ installed = None /\ history = <<>> /\ pending = {}
  /\ lastUID = 0
  /\ session = [s \in Sessions |-> Blank]
  /\ runs = 0 /\ admin = 0
  /\ queued = {} /\ disturbed = {}

Invoke(s, cmd, p, r) ==
  Set(s, [Blank EXCEPT !.at = IF cmd = "install" THEN "namespace" ELSE "settings",
            !.cmd = cmd, !.profile = p, !.revision = r])

(* An operator invokes the tool.  install and upgrade render the profile   *)
(* first; rollback and uninstall take the settings of the release.         *)
Start(s) ==
  /\ ~Active(s) /\ runs < MaxRuns
  /\ runs' = runs + 1
  /\ disturbed' = disturbed \ {s}
  /\ \/ \E p \in Profiles : Invoke(s, "install", p, 0)
     \/ \E r \in 1..(Len(history) + 1) : Invoke(s, "rollback", None, r)
     \/ Invoke(s, "uninstall", None, 0)
  /\ UNCHANGED <<objects, release, lastUID, admin, queued>>

(* A call fails or times out, or the process is killed.  Nothing is undone *)
(* and a pending Helm revision stays pending.                              *)
Interrupted(s) ==
  /\ Active(s) /\ Fail(s)
  /\ UNCHANGED <<objects, release, lastUID, runs, admin, queued, disturbed>>

-----------------------------------------------------------------------------
(* Reads.  They change nothing but what the session remembers.             *)
Unmoved == UNCHANGED <<objects, release, lastUID, runs, admin, queued, disturbed>>

ReadSettings(s) ==
  /\ session[s].at = "settings" /\ Unmoved
  /\ IF installed = None
     THEN Fail(s)
     ELSE Set(s, [session[s] EXCEPT !.at = "namespace", !.profile = installed])

ReadNamespace(s) ==
  /\ session[s].at = "namespace" /\ Unmoved
  /\ IF session[s].cmd # "install" THEN Goto(s, "release")
     ELSE IF ~namespace THEN Goto(s, "mkns")
     ELSE Goto(s, IF session[s].profile.persistent THEN "claim" ELSE "ingest")

ReadRelease(s) ==
  /\ session[s].at = "release" /\ Unmoved
  /\ IF history = <<>> THEN Fail(s)
     ELSE IF session[s].cmd = "uninstall" THEN Goto(s, "helm")
     ELSE Goto(s, IF session[s].profile.persistent THEN "claim" ELSE "target")

(* First read of a check.  An absent claim passes, except after Helm.      *)
ReadClaim(s) ==
  /\ session[s].at = "claim" /\ Unmoved
  /\ IF claim = None
     THEN IF session[s].stage = "confirm" THEN Fail(s) ELSE Goto(s, AfterCheck(s))
     ELSE IF claim.receipt = None
          THEN Fail(s)
          ELSE Set(s, [session[s] EXCEPT !.at = "sts", !.seenClaim = claim])

ReuseRetained(s) ==
  /\ session[s].at = "sts" /\ Unmoved
  /\ IF sts = None
     THEN Goto(s, AfterCheck(s))
     ELSE Set(s, [session[s] EXCEPT !.at = "installed", !.seenSts = sts])

ReadStatefulSet(s) ==
  /\ session[s].at = "sts" /\ Unmoved
  /\ Set(s, [session[s] EXCEPT !.at = "installed", !.seenSts = sts])

(* Ownership is proved by the live pair of StatefulSet and settings.       *)
ReadInstalled(s) ==
  /\ session[s].at = "installed" /\ Unmoved
  /\ IF /\ installed # None /\ session[s].seenSts # None
        /\ session[s].seenSts.persistent
        /\ SameOwner(installed, session[s].profile)
     THEN Goto(s, "secret")
     ELSE Fail(s)

AnyReservation(me) == TRUE
MyReservation(me) == me.seenClaim.uid = me.reserved

(* Last read of a check, and the comparison of the receipt.                *)
ReadSecret(s) ==
  LET me == session[s]
      sec == secrets[me.profile.secret]
  IN  /\ me.at = "secret" /\ Unmoved
      /\ IF sec = None THEN Fail(s)
         ELSE IF Agrees(me.seenClaim.receipt, Bound(me.profile, sec, me.seenClaim, me.seenSts))
              THEN IF me.stage = "confirm" THEN Succeed(s) ELSE Goto(s, AfterCheck(s))
              ELSE IF /\ me.stage = "confirm"
                      /\ Agrees(me.seenClaim.receipt, Reserved(me.profile, sec))
                      /\ MyReservation(me)
                   THEN Set(s, [me EXCEPT !.at = "patch", !.seenSecret = sec])
                   ELSE Fail(s)

(* The revision a rollback returns to must have the same identity.         *)
ReadTarget(s) ==
  LET me == session[s]
  IN  /\ me.at = "target" /\ Unmoved
      /\ IF /\ me.revision \in DOMAIN history
            /\ SameOwner(history[me.revision], me.profile)
            /\ history[me.revision].persistent = me.profile.persistent
         THEN Goto(s, "helm")
         ELSE Fail(s)

ReadIngest(s) ==
  /\ session[s].at = "ingest" /\ Unmoved
  /\ Goto(s, IF secrets[session[s].profile.secret] = None THEN "mksecret" ELSE "reserve")

(* Entry of reserve_storage.                                               *)
ReadReservation(s) ==
  /\ session[s].at = "reserve" /\ Unmoved
  /\ IF ~session[s].profile.persistent THEN Goto(s, "helm")
     ELSE IF claim = None THEN Goto(s, "reserveSecret")
     ELSE Set(s, [session[s] EXCEPT !.at = "claim", !.stage = "reserve"])

ReadReservationSecret(s) ==
  LET sec == secrets[session[s].profile.secret]
  IN  /\ session[s].at = "reserveSecret" /\ Unmoved
      /\ IF sec = None
         THEN Fail(s)
         ELSE Set(s, [session[s] EXCEPT !.at = "create", !.seenSecret = sec])

-----------------------------------------------------------------------------
(* Create-only writes.  Each may take effect and yet report a failure.     *)

CreateNamespace(s) ==
  /\ session[s].at = "mkns"
  /\ IF namespace
     THEN Fail(s) /\ UNCHANGED namespace
     ELSE namespace' = TRUE /\ (Goto(s, "mksecret") \/ Fail(s))
  /\ UNCHANGED <<secrets, claim, sts, release, lastUID, runs, admin, queued, disturbed>>

CreateSecret(s) ==
  LET k == session[s].profile.secret
  IN  /\ session[s].at = "mksecret"
      /\ IF secrets[k] # None
         THEN Fail(s) /\ UNCHANGED <<secrets, lastUID>>
         ELSE /\ CanAllocate /\ lastUID' = Fresh
              /\ \E t \in Tenants :
                   secrets' = [secrets EXCEPT ![k] = [uid |-> Fresh, tenant |-> t]]
              /\ Goto(s, "reserve") \/ Fail(s)
      /\ UNCHANGED <<namespace, claim, sts, release, runs, admin, queued, disturbed>>

AdoptClaim(s) ==
  LET me == session[s]
  IN  /\ me.at = "create"
      /\ IF claim # None
         THEN Goto(s, "helm") /\ UNCHANGED <<claim, lastUID, queued>>
         ELSE /\ CanAllocate /\ lastUID' = Fresh
              /\ claim' = [uid |-> Fresh, version |-> 0,
                           receipt |-> Reserved(me.profile, me.seenSecret)]
              /\ queued' = {}
              /\ Set(s, [me EXCEPT !.at = "helm", !.reserved = Fresh]) \/ Fail(s)
      /\ UNCHANGED <<namespace, secrets, sts, release, runs, admin, disturbed>>

CreateClaim(s) ==
  LET me == session[s]
  IN  /\ me.at = "create"
      /\ IF claim # None
         THEN Fail(s) /\ UNCHANGED <<claim, lastUID, queued>>
         ELSE /\ CanAllocate /\ lastUID' = Fresh
              /\ claim' = [uid |-> Fresh, version |-> 0,
                           receipt |-> Reserved(me.profile, me.seenSecret)]
              /\ queued' = {}
              /\ Set(s, [me EXCEPT !.at = "helm", !.reserved = Fresh]) \/ Fail(s)
      /\ UNCHANGED <<namespace, secrets, sts, release, runs, admin, disturbed>>

(* Binding the receipt: uid, resourceVersion and old receipt are tested    *)
(* and the receipt replaced in one patch.                                  *)
Reread(s, n) ==
  Set(s, [session[s] EXCEPT !.at = "claim", !.attempt = n,
            !.seenClaim = None, !.seenSts = None, !.seenSecret = None])

MayRetryAgain(s) == session[s].attempt <= 2
MayRetry(s) == session[s].attempt < 2

RetryForever(s) == Reread(s, session[s].attempt)
RetryOrSucceed(s) ==
  IF MayRetry(s) THEN Reread(s, session[s].attempt + 1) ELSE Succeed(s)
Retry(s) ==
  IF MayRetry(s) THEN Reread(s, session[s].attempt + 1) ELSE Fail(s)

PatchMatchesReceipt(c, seen) == c # None /\ c.receipt = seen.receipt
PatchMatches(c, seen) ==
  /\ c # None /\ c.uid = seen.uid
  /\ c.version = seen.version /\ c.receipt = seen.receipt

PatchReceipt(s) ==
  LET me == session[s]
  IN  /\ me.at = "patch"
      /\ \/ /\ PatchMatches(claim, me.seenClaim) /\ claim.version < MaxVersion
            /\ claim' = [claim EXCEPT !.version = @ + 1,
                           !.receipt = Bound(me.profile, me.seenSecret, me.seenClaim, me.seenSts)]
            /\ Succeed(s) \/ Retry(s)
         \/ UNCHANGED claim /\ Retry(s)
      /\ UNCHANGED <<namespace, secrets, sts, release, lastUID, runs, admin, queued, disturbed>>

-----------------------------------------------------------------------------
(* Helm, as the tool uses it.                                              *)

(* The tenant a Collector of profile p queues data for.                    *)
Opens(p) ==
  IF p.persistent /\ claim # None /\ secrets[p.secret] # None
  THEN {secrets[p.secret].tenant} ELSE {}

(* Helm records profile p as the next revision and creates or keeps the    *)
(* StatefulSet; its claim templates are immutable.                         *)
Templates(p) == sts # None => sts.persistent = p.persistent

Deploy(p) ==
  /\ history' = Append(history, p) /\ installed' = p
  /\ IF sts = None
     THEN /\ CanAllocate /\ lastUID' = Fresh
          /\ sts' = [uid |-> Fresh, persistent |-> p.persistent]
     ELSE UNCHANGED <<sts, lastUID>>

(* helm upgrade --install and helm rollback start to reconcile, or are     *)
(* refused because of another pending operation or of the templates.       *)
HelmTarget(s) ==
  IF session[s].cmd = "rollback" THEN history[session[s].revision] ELSE session[s].profile

StartHelm(s) ==
  LET me == session[s]
      p == HelmTarget(s)
      refused == \/ pending # {}
                 \/ me.cmd = "rollback" /\ me.revision \notin DOMAIN history
                 \/ ~Templates(p)
  IN  /\ me.at = "helm" /\ me.cmd # "uninstall"
      /\ IF refused
         THEN Fail(s) /\ UNCHANGED <<sts, release, lastUID, queued>>
         ELSE /\ Deploy(p) /\ pending' = {s}
              /\ queued' = queued \cup (IF me.cmd = "install" /\ s \notin disturbed
                                       THEN Opens(p) ELSE {})
              /\ Goto(s, "wait")
      /\ UNCHANGED <<namespace, secrets, claim, runs, admin, disturbed>>

HelmSucceeds(s) ==
  /\ session[s].at = "wait" /\ s \in pending
  /\ pending' = {}
  /\ IF session[s].cmd = "install" /\ session[s].profile.persistent
     THEN Set(s, [session[s] EXCEPT !.at = "claim", !.stage = "confirm",
                    !.seenClaim = None, !.seenSts = None, !.seenSecret = None])
     ELSE Succeed(s)
  /\ UNCHANGED <<objects, installed, history, lastUID, runs, admin, queued, disturbed>>

(* --atomic / --rollback-on-failure: a first installation is removed, a    *)
(* later one returns to the previous revision.  helm rollback stays as it  *)
(* is.  The claim is retained.                                             *)
HelmFails(s) ==
  /\ session[s].at = "wait" /\ s \in pending
  /\ pending' = {} /\ Fail(s)
  /\ IF session[s].cmd = "rollback"
     THEN UNCHANGED <<sts, installed, history>>
     ELSE IF Len(history) < 2
     THEN sts' = None /\ installed' = None /\ history' = <<>>
     ELSE LET p == history[Len(history) - 1]
          IN  history' = Append(history, p) /\ installed' = p /\ UNCHANGED sts
  /\ UNCHANGED <<namespace, secrets, claim, lastUID, runs, admin, queued, disturbed>>

(* The pending revision vanished (uninstalled meanwhile): Helm reports it. *)
HelmOverrun(s) ==
  /\ session[s].at = "wait" /\ s \notin pending
  /\ Fail(s) /\ Unmoved

(* helm uninstall keeps namespace, Secrets and claim.                      *)
Uninstall(s) ==
  /\ session[s].at = "helm" /\ session[s].cmd = "uninstall"
  /\ IF history = <<>>
     THEN Fail(s) /\ UNCHANGED <<sts, release>>
     ELSE /\ sts' = None /\ installed' = None /\ history' = <<>> /\ pending' = {}
          /\ Succeed(s) \/ Fail(s)
  /\ UNCHANGED <<namespace, secrets, claim, lastUID, runs, admin, queued, disturbed>>

-----------------------------------------------------------------------------
(* The cluster around the tool.                                            *)

(* Binder, kubelet and other controllers write the claim's metadata.       *)
TouchClaim ==
  /\ claim # None /\ claim.version < MaxVersion
  /\ claim' = [claim EXCEPT !.version = @ + 1]
  /\ UNCHANGED <<namespace, secrets, sts, release, lastUID, session, runs, admin, queued, disturbed>>

(* The StatefulSet controller creates a missing claim from the chart's     *)
(* template, which carries neither the tool's labels nor a receipt.        *)
ControllerClaim ==
  /\ sts # None /\ sts.persistent /\ claim = None
  /\ CanAllocate /\ lastUID' = Fresh
  /\ claim' = [uid |-> Fresh, version |-> 0, receipt |-> None]
  /\ queued' = {}
  /\ UNCHANGED <<namespace, secrets, sts, release, session, runs, admin, disturbed>>

(* Changes an administrator makes outside the tool.                        *)
AdminStep ==
  /\ admin < MaxAdmin /\ admin' = admin + 1
  /\ disturbed' = Sessions
  /\ UNCHANGED <<namespace, session, runs>>

ChangeTenant(k, t) ==
  /\ AdminStep
  /\ secrets[k] # None
  /\ secrets' = [secrets EXCEPT ![k].tenant = t]
  /\ UNCHANGED <<claim, sts, release, lastUID, queued>>

RecreateSecret(k, t) ==
  /\ AdminStep
  /\ secrets[k] # None /\ CanAllocate /\ lastUID' = Fresh
  /\ secrets' = [secrets EXCEPT ![k] = [uid |-> Fresh, tenant |-> t]]
  /\ UNCHANGED <<claim, sts, release, queued>>

DeleteClaim ==
  /\ AdminStep
  /\ claim # None /\ claim' = None /\ queued' = {}
  /\ UNCHANGED <<secrets, sts, release, lastUID>>

RecreateStatefulSet ==
  /\ AdminStep
  /\ sts # None /\ CanAllocate /\ lastUID' = Fresh
  /\ sts' = [sts EXCEPT !.uid = Fresh]
  /\ UNCHANGED <<secrets, claim, release, queued>>

DirectHelm(p) ==
  /\ AdminStep
  /\ namespace /\ pending = {} /\ Templates(p)
  /\ Deploy(p)
  /\ UNCHANGED <<secrets, claim, pending, queued>>

-----------------------------------------------------------------------------
Step(s) ==
  \/ Interrupted(s)
  \/ ReadSettings(s) \/ ReadNamespace(s) \/ ReadRelease(s)
  \/ ReadClaim(s) \/ ReadStatefulSet(s) \/ ReadInstalled(s) \/ ReadSecret(s)
  \/ ReadTarget(s) \/ ReadIngest(s) \/ ReadReservation(s) \/ ReadReservationSecret(s)
  \/ CreateNamespace(s) \/ CreateSecret(s) \/ CreateClaim(s) \/ PatchReceipt(s)
  \/ StartHelm(s) \/ HelmSucceeds(s) \/ HelmFails(s) \/ HelmOverrun(s) \/ Uninstall(s)

Environment ==
  \/ TouchClaim \/ ControllerClaim \/ DeleteClaim \/ RecreateStatefulSet
  \/ \E k \in SecretNames, t \in Tenants : ChangeTenant(k, t) \/ RecreateSecret(k, t)
  \/ \E p \in Profiles : DirectHelm(p)

Next == \/ \E s \in Sessions : Start(s) \/ Step(s)
        \/ Environment

Spec == Init /\ [][Next]_vars

(* Every external call the tool makes has a deadline, so an invocation     *)
(* that has begun keeps moving.  Nothing obliges an operator to start one. *)
FairSpec == Spec /\ \A s \in Sessions : WF_vars(Step(s))

-----------------------------------------------------------------------------
(* Properties.                                                             *)

(* Types of all variables.                                                 *)
TypeOK ==
  /\ namespace \in BOOLEAN
  /\ secrets \in [SecretNames -> Secret \cup {None}]
  /\ claim \in Claim \cup {None}
  /\ sts \in StatefulSet \cup {None}
  /\ installed \in Profile \cup {None}
  /\ history \in Seq(Profile)
  /\ pending \subseteq Sessions
  /\ lastUID \in Nat
  /\ session \in [Sessions -> SessionState]
  /\ runs \in Nat /\ admin \in Nat
  /\ queued \subseteq Tenants /\ disturbed \subseteq Sessions

HasReceipt == claim # None /\ claim.receipt # None

(* write_storage_identity: a bound receipt names the very claim it is      *)
(* written on, although the claim may be deleted and created again under   *)
(* the same name between the read and the patch.                           *)
ReceiptNamesItsClaim ==
  HasReceipt /\ claim.receipt.phase = "bound" => claim.receipt.pvcUID = claim.uid

HelmStarts(s) == session[s].at = "helm" /\ session'[s].at = "wait"

(* r is the identity of the profile and its Secret as they are now.        *)
Certifies(r, p) ==
  /\ SameOwner(r, p)
  /\ r.secretUID = secrets[p.secret].uid /\ r.tenant = secrets[p.secret].tenant

(* install: unless an administrator interferes during the invocation, Helm *)
(* is started only over a claim whose receipt is the identity Helm is      *)
(* about to install: the same cluster, Secret name, Secret UID and tenant. *)
HelmMatchesReceipt ==
  [][\A s \in Sessions :
       /\ HelmStarts(s) /\ session[s].cmd = "install" /\ session[s].profile.persistent
       /\ s \notin disturbed
       => HasReceipt /\ Certifies(claim.receipt, session[s].profile)]_vars

(* reserve_storage creates only, and its check accepts nothing but a bound *)
(* receipt: what an install left that died or that --atomic took back is   *)
(* never adopted.  Helm starts over a bound claim or over the very claim   *)
(* this invocation reserved, even if the leftover is of the same identity. *)
ReservationIsNeverAdopted ==
  [][\A s \in Sessions :
       /\ HelmStarts(s) /\ session[s].cmd = "install" /\ session[s].profile.persistent
       /\ s \notin disturbed /\ HasReceipt /\ claim.receipt.phase = "reserved"
       => session[s].reserved = claim.uid]_vars

(* The purpose of the guard: no Collector that install starts opens a      *)
(* queue holding data another installation queued for another tenant,      *)
(* unless an administrator interferes during that very invocation.         *)
QueueKeepsItsTenant ==
  [][\A s \in Sessions :
       /\ HelmStarts(s) /\ session[s].cmd = "install"
       /\ s \notin disturbed /\ queued # {}
       => Opens(session[s].profile) \subseteq queued]_vars

(* The same for rollback, which "must not bypass the tenant/PVC guard"     *)
(* (check_rollback_storage_identity).                                      *)
RollbackKeepsQueueTenant ==
  [][\A s \in Sessions :
       /\ HelmStarts(s) /\ session[s].cmd = "rollback"
       /\ s \notin disturbed /\ queued # {}
       => Opens(HelmTarget(s)) \subseteq queued]_vars

(* install of a persistent gateway reports success only when the claim     *)
(* carries a bound receipt of its profile and of the Secret as it is now,  *)
(* however many patches failed or took effect without an answer.           *)
InstallConfirmsBinding ==
  [][\A s \in Sessions :
       /\ session[s].cmd = "install" /\ session[s].profile # None
       /\ session[s].profile.persistent
       /\ session'[s].at = "ok" /\ s \notin disturbed
       => HasReceipt' /\ claim'.receipt.phase = "bound" /\ Certifies(claim'.receipt, session[s].profile)]_vars

(* verify_storage_objects says of a retained claim that "reinstall never   *)
(* replays a retained queue automatically": Helm run by the tool creates   *)
(* no StatefulSet over a claim that was bound to an earlier one.           *)
ReinstallNeverReplays ==
  [][\A s \in Sessions :
       /\ HelmStarts(s) /\ HelmTarget(s).persistent
       /\ sts = None /\ HasReceipt /\ s \notin disturbed
       => claim.receipt.phase = "reserved"]_vars

(* How many calls an invocation may still make: to the end of its path,    *)
(* with three tries of the patch, each after a check of four calls.        *)
Left(me) ==
  LET ahead == [settings |-> 31, namespace |-> 30, release |-> 29, mkns |-> 24, ingest |-> 24,
                mksecret |-> 23, reserve |-> 22, reserveSecret |-> 19, create |-> 18,
                target |-> 18, helm |-> 17, wait |-> 16]
      check == [claim |-> 4, sts |-> 3, installed |-> 2, secret |-> 1, patch |-> 0]
      after == [preflight |-> 24, reserve |-> 17, confirm |-> 1 + 5 * (2 - me.attempt)]
  IN  IF me.at \in Ended THEN 0
      ELSE IF me.at \in DOMAIN ahead THEN ahead[me.at]
      ELSE check[me.at] + after[me.stage]

(* No invocation goes round in circles: whatever the other terminals, the  *)
(* controllers and the administrators do, each call it makes leaves it     *)
(* fewer to make, the patch and its retries included.                      *)
CallsRunOut ==
  [][\A s \in Sessions :
       Active(s) /\ session'[s] # session[s] => Left(session'[s]) < Left(session[s])]_vars

(* Every invocation ends: the patch is retried a bounded number of times.  *)
SessionsEnd == \A s \in Sessions : Active(s) ~> ~Active(s)

-----------------------------------------------------------------------------
(* The tool implements the life cycle of ClaimLifecycle.  A claim is held  *)
(* by the sessions whose reservation returned its UID.                     *)
OwnerOf(r) ==
  [cluster |-> r.cluster, secret |-> r.secret, secretUID |-> r.secretUID, tenant |-> r.tenant]

Life ==
  CASE claim = None -> None
    [] claim # None /\ claim.receipt = None ->
         [uid |-> claim.uid, state |-> "foreign", owner |-> None]
    [] OTHER ->
         [uid |-> claim.uid, state |-> claim.receipt.phase, owner |-> OwnerOf(claim.receipt)]

Holders == {s \in Sessions : claim # None /\ session[s].reserved = claim.uid}

Owner == [cluster : ClusterNames, secret : SecretNames, secretUID : UID, tenant : Tenants]

ASSUME NoneIsNoLife ==
  None \notin [uid : UID, state : {"foreign", "reserved", "bound"}, owner : Owner \cup {None}]

Lifecycle == INSTANCE ClaimLifecycle WITH
  Owners <- Owner, Names <- UID, life <- Life, holders <- Holders

(* The claim's receipt follows the promised life cycle.                    *)
ImplementsLifecycle == Lifecycle!Spec

=============================================================================
