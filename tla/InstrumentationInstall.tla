------------------------ MODULE InstrumentationInstall ------------------------
(***************************************************************************)
(* The installer of the instrumentation operator                           *)
(* (scripts/instrumentation.py), run alone or as the second phase of       *)
(* `elven install --instrumentation-values`.                               *)
(*                                                                         *)
(* An installation reads the cluster call by call (preflight), writes      *)
(* locally generated certificates, and then creates the operator's         *)
(* namespace, its serving Secret, a client Secret in every application     *)
(* namespace, and at last runs Helm.  Each call is one step; a command may *)
(* stop between any two (a failed call, a lost answer, a deadline, a kill) *)
(* and be run again.  Several terminals work at once on several releases,  *)
(* and administrators change what the commands have read.                  *)
(*                                                                         *)
(* Helm and the Kubernetes API are modelled by what the installer relies   *)
(* on: create fails for an object that exists, Helm refuses a release with *)
(* an operation pending, and a failed upgrade returns to the last deployed *)
(* revision.  Nobody uninstalls a release while a Helm operation of        *)
(* another terminal works on it: Helm leaves that case undefined.          *)
(***************************************************************************)
EXTENDS Naturals, FiniteSets

CONSTANTS
  Sessions,    (* terminals                                                *)
  Releases,    (* instrumentation releases                                 *)
  Namespaces,  (* namespaces of the cluster                                *)
  Home,        (* ... the one each release's operator is installed in      *)
  Marked,      (* ... those another injector instruments as a whole        *)
  Names,       (* names of Secrets                                         *)
  Profiles,    (* contents of the values files                             *)
  None,        (* absent                                                   *)
  MaxEvents    (* bound: commands started, changes by administrators, and  *)
               (* expiries                                                 *)

Homes == {Home[r] : r \in Releases}
Places == Namespaces \X Names

(* What a profile selects; supplied is its webhook.caBundle, 0 when empty. *)
Profile ==
  [enabled : BOOLEAN, promoted : BOOLEAN, namespaces : SUBSET Namespaces,
   client : Names, serving : Names, supplied : Nat]

(* A TLS Secret: the release that owns it, its role, the CA of the gateway *)
(* it was made for, and the material in it: the client certificate, or the *)
(* serving certificate and its CA.                                         *)
Secret == [owner : Releases, role : {"client", "server"}, ca : Nat, key : Nat]

(* What Helm applies: the scope of the webhook and of the operator, and    *)
(* the CA the API server trusts.                                           *)
Scope == [namespaces : SUBSET Namespaces, client : Names, serving : Names, ca : Nat]

(* The source gateway: its TLS material and collection.namespaces.         *)
Gateway == [ca : Nat, key : Nat, namespaces : SUBSET Namespaces]

ASSUME ConstantsAssumption ==
  /\ Home \in [Releases -> Namespaces]
  /\ Profiles \subseteq Profile
  /\ None \notin Sessions \cup Releases \cup Profiles \cup Secret \cup Scope \cup Gateway
  /\ MaxEvents \in Nat

VARIABLES
  profile,     (* values file of each release                              *)
  existing,    (* namespaces that exist                                    *)
  secrets,     (* TLS Secrets                                              *)
  gateway,     (* the source gateway                                       *)
  helm,        (* Helm's status of each release                            *)
  webhook,     (* objects applied: webhook configuration, settings, ...    *)
  stable,      (* the last deployed revision                               *)
  serial,      (* certificates generated so far                            *)
  stale,       (* certificates with less than a day left                   *)
  session,     (* the commands                                             *)
  runs,        (* commands started                                         *)
  admin,       (* changes by administrators, and expiries                  *)
  rotated,     (* history variable: places administrators emptied          *)
  unreviewed   (* history variable: releases that a direct installation    *)
               (* took from a file that changed after its preflight        *)

cluster == <<existing, secrets, gateway, helm, webhook, stable>>
outside == <<profile, stale, admin, rotated>>
vars == <<profile, existing, secrets, gateway, helm, webhook, stable,
          serial, stale, session, runs, admin, rotated, unreviewed>>

Commands == {"none", "install", "combined", "uninstall"}
Locations ==
  {"idle", "core", "inventory", "claims", "targets", "source", "clients", "render",
   "namespace", "createServing", "createClients", "apply", "wait", "uninstall", "purge"}

(* The settings a command reviewed and what its preflight found: whether   *)
(* the namespace exists, the gateway's material, the client Secrets still  *)
(* to read or create, the serving CA and whether it is a new one.          *)
SessionState ==
  [at : Locations, cmd : Commands, release : Releases \cup {None},
   settings : Profiles \cup {None}, home : BOOLEAN, ca : Nat, key : Nat,
   left : SUBSET Namespaces, missing : SUBSET Namespaces, serving : Nat, fresh : BOOLEAN]

Blank ==
  [at |-> "idle", cmd |-> "none", release |-> None, settings |-> None, home |-> FALSE,
   ca |-> 0, key |-> 0, left |-> {}, missing |-> {}, serving |-> 0, fresh |-> FALSE]

Active(s) == session[s].at # "idle"
Set(s, st) == session' = [session EXCEPT ![s] = st]
Goto(s, loc) == Set(s, [session[s] EXCEPT !.at = loc])
End(s) == Set(s, Blank)
-----------------------------------------------------------------------------
(* The checks.  Where an operator has a faulty twin defined just before    *)
(* it, the twin is the mutant PROJECT.json names for a property.           *)

(* validate_settings: an enabled profile selects namespaces, and not the   *)
(* operator's own.                                                         *)
Selectable(r, p) ==
  p.enabled => p.namespaces # {} /\ Home[r] \notin p.namespaces

(* require_images: the lock holds the profile's digests as verified.       *)
ImagesPromoted(p) == p.promoted

Acceptable(r, p) == p.enabled /\ Selectable(r, p) /\ ImagesPromoted(p)

ServingPlace(r, p) == <<Home[r], p.serving>>
ClientPlace(n, p) == <<n, p.client>>

(* release_inventory and owned_settings: a listed release must have the    *)
(* settings it owns.                                                       *)
Listed(r) == Home[r] \in existing /\ helm[r] # "absent"
Recoverable(r) == Listed(r) /\ webhook[r] # None

(* check_injection_claims: no other release's webhook shares a namespace.  *)
ClaimsDisjoint(r, p) ==
  \A q \in Releases \ {r} :
    webhook[q] # None => webhook[q].namespaces \cap p.namespaces = {}

(* check_namespace_instrumentation, of a namespace that must exist.        *)
NotInjected(n) == n \in existing /\ n \notin Marked

(* validate_material: at least a day of validity.                          *)
Valid(key) == key \notin stale

(* require_secret_owner.                                                   *)
AnyOwner(r, x, role, ca) == x.role = role /\ x.ca = ca
Owned(r, x, role, ca) == x.owner = r /\ x.role = role /\ x.ca = ca

AnyMaterial(r, x, ca, key) == Owned(r, x, "client", ca)
ClientUsable(r, x, ca, key) == Owned(r, x, "client", ca) /\ x.key = key

(* The serving Secret, None when there is none to be found.                *)
Serving(r, p, exists) == IF exists THEN secrets[ServingPlace(r, p)] ELSE None
ServingUsable(r, x, p, ca) ==
  IF x = None THEN p.supplied = 0
  ELSE Owned(r, x, "server", ca) /\ Valid(x.key) /\ p.supplied \in {0, x.key}

(* The CA given to Helm: of the Secret read, or of a new certificate.      *)
PlannedOnly(x) == IF x = None THEN None ELSE x.key
ServingCA(x) == IF x = None THEN serial + 1 ELSE x.key

(* create_secret labels what it creates with its owner and source CA.      *)
WithOwnCA(r, role, ca, key) == [owner |-> r, role |-> role, ca |-> key, key |-> key]
NewSecret(r, role, ca, key) == [owner |-> r, role |-> role, ca |-> ca, key |-> key]

(* kubectl create: an object that exists is never overwritten.             *)
Overwrite(place) == TRUE
Absent(place) == secrets[place] = None

(* What a command renders: the frozen profile of a combined installation,  *)
(* or the values file as it is now.                                        *)
AlwaysTheFile(me) == profile[me.release]
Manifest(me) == IF me.cmd = "combined" THEN me.settings ELSE profile[me.release]
-----------------------------------------------------------------------------
Init ==
  /\ profile \in [Releases -> Profiles]
  /\ existing = Namespaces \ Homes
  /\ secrets = [x \in Places |-> None]
  /\ gateway \in {None, [ca |-> 1, key |-> 1, namespaces |-> Namespaces]}
  /\ helm = [r \in Releases |-> "absent"]
  /\ webhook = [r \in Releases |-> None]
  /\ stable = [r \in Releases |-> None]
  /\ serial = 1 /\ stale = {}
  /\ session = [s \in Sessions |-> Blank]
  /\ runs = 0 /\ admin = 0
  /\ rotated = {} /\ unreviewed = {}

(* main parses its arguments and renders the profile, or, to uninstall,    *)
(* uses none.  prepare_instrumentation freezes the profile it renders.     *)
Start(s) ==
  /\ ~Active(s) /\ runs + admin < MaxEvents /\ runs' = runs + 1
  /\ \E r \in Releases :
       LET start == [Blank EXCEPT !.release = r, !.settings = profile[r]]
       IN  \/ /\ Acceptable(r, profile[r])
              /\ \/ Set(s, [start EXCEPT !.cmd = "install", !.at = "inventory"])
                 \/ Set(s, [start EXCEPT !.cmd = "combined", !.at = "core"])
           \/ Set(s, [Blank EXCEPT !.release = r, !.cmd = "uninstall", !.at = "inventory"])
  /\ UNCHANGED <<cluster, outside, serial, unreviewed>>

(* The first phase of a combined installation, as far as the second sees   *)
(* it: a gateway that authorises at least the profile's namespaces, with   *)
(* the TLS material it had.                                                *)
ReconcileCore(s) ==
  LET me == session[s]
  IN  /\ me.at = "core"
      /\ \E authorised \in {me.settings.namespaces, Namespaces} :
           gateway' = IF gateway = None
                      THEN [ca |-> 1, key |-> 1, namespaces |-> authorised]
                      ELSE [gateway EXCEPT !.namespaces = authorised]
      /\ Goto(s, "inventory")
      /\ UNCHANGED <<existing, secrets, helm, webhook, stable, outside, serial, runs, unreviewed>>

(* A call fails or times out, an answer is lost, the process is killed.    *)
Interrupted(s) ==
  /\ Active(s) /\ End(s)
  /\ UNCHANGED <<cluster, outside, serial, runs, unreviewed>>

(* A check that goes on to the next one, or ends the command.              *)
Check(s, ok, st) ==
  /\ IF ok THEN Set(s, st) ELSE End(s)
  /\ UNCHANGED <<cluster, outside, serial, runs, unreviewed>>

ReadInventory(s) ==
  LET me == session[s]
      r == me.release
  IN  /\ me.at = "inventory"
      /\ IF me.cmd = "uninstall"
         THEN Check(s, Recoverable(r), [me EXCEPT !.at = "uninstall"])
         ELSE Check(s, Listed(r) => Recoverable(r),
                    [me EXCEPT !.at = "claims", !.home = Home[r] \in existing])

ReadClaims(s) ==
  LET me == session[s]
  IN  /\ me.at = "claims"
      /\ Check(s, ClaimsDisjoint(me.release, me.settings), [me EXCEPT !.at = "targets"])

ReadTargets(s) ==
  LET me == session[s]
  IN  /\ me.at = "targets"
      /\ Check(s, \A n \in me.settings.namespaces : NotInjected(n), [me EXCEPT !.at = "source"])

ReadSource(s) ==
  LET me == session[s]
  IN  /\ me.at = "source"
      /\ IF gateway = None
         THEN Check(s, FALSE, me)
         ELSE Check(s, me.settings.namespaces \subseteq gateway.namespaces /\ Valid(gateway.key),
                [me EXCEPT !.at = "clients", !.ca = gateway.ca, !.key = gateway.key,
                   !.left = me.settings.namespaces])

ReadClient(s) ==
  LET me == session[s]
  IN  /\ me.at = "clients" /\ me.left # {}
      /\ \E n \in me.left :
           LET x == secrets[ClientPlace(n, me.settings)]
               rest == [me EXCEPT !.left = @ \ {n}]
           IN  IF x = None
               THEN Check(s, TRUE, [rest EXCEPT !.missing = @ \cup {n}])
               ELSE Check(s, ClientUsable(me.release, x, me.ca, me.key), rest)

(* An existing serving Secret is used; otherwise install generates a new   *)
(* certificate before its first write.                                     *)
ReadServing(s) ==
  LET me == session[s]
      x == Serving(me.release, me.settings, me.home)
  IN  /\ me.at = "clients" /\ me.left = {}
      /\ IF ~ServingUsable(me.release, x, me.settings, me.ca)
         THEN End(s) /\ UNCHANGED serial
         ELSE /\ serial' = IF x = None THEN serial + 1 ELSE serial
              /\ Set(s, [me EXCEPT !.at = "render", !.left = me.missing, !.missing = {},
                           !.fresh = (x = None), !.serving = ServingCA(x)])
      /\ UNCHANGED <<cluster, outside, runs, unreviewed>>

(* install renders again, with the CA.                                     *)
Render(s) ==
  LET me == session[s]
  IN  /\ me.at = "render"
      /\ Check(s, Selectable(me.release, Manifest(me)), [me EXCEPT !.at = "namespace"])

CreateNamespace(s) ==
  LET me == session[s]
      home == Home[me.release]
  IN  /\ me.at = "namespace"
      /\ IF me.home \/ home \notin existing
         THEN Goto(s, "createServing") /\ existing' = existing \cup {home}
         ELSE End(s) /\ UNCHANGED existing
      /\ UNCHANGED <<secrets, gateway, helm, webhook, stable, outside, serial, runs, unreviewed>>

(* create, whose failure ends the command.                                 *)
Create(s, place, secret, st) ==
  /\ IF Absent(place)
     THEN secrets' = [secrets EXCEPT ![place] = secret] /\ Set(s, st)
     ELSE End(s) /\ UNCHANGED secrets
  /\ UNCHANGED <<existing, gateway, helm, webhook, stable, outside, serial, runs, unreviewed>>

CreateServing(s) ==
  LET me == session[s]
      created == [me EXCEPT !.at = "createClients"]
  IN  /\ me.at = "createServing"
      /\ IF me.fresh
         THEN Create(s, ServingPlace(me.release, me.settings),
                     NewSecret(me.release, "server", me.ca, me.serving), created)
         ELSE Check(s, TRUE, created)

CreateClient(s) ==
  LET me == session[s]
  IN  /\ me.at = "createClients" /\ me.left # {}
      /\ \E n \in me.left :
           Create(s, ClientPlace(n, me.settings),
                  NewSecret(me.release, "client", me.ca, me.key), [me EXCEPT !.left = @ \ {n}])

(* Helm records its operation; another one pending, or a chart that does   *)
(* not render, makes it fail.                                              *)
SecretsLeft(me) == TRUE
AllCreated(me) == me.left = {}

Changed(me) == me.cmd = "install" /\ profile[me.release] # me.settings

StartHelm(s) ==
  LET me == session[s]
      r == me.release
  IN  /\ me.at = "createClients" /\ AllCreated(me)
      /\ IF helm[r] = "pending" \/ ~Selectable(r, Manifest(me))
         THEN End(s) /\ UNCHANGED <<helm, unreviewed>>
         ELSE /\ helm' = [helm EXCEPT ![r] = "pending"]
              /\ unreviewed' = IF Changed(me) THEN unreviewed \cup {r} ELSE unreviewed
              /\ Set(s, [me EXCEPT !.at = "apply", !.settings = Manifest(me)])
      /\ UNCHANGED <<existing, secrets, gateway, webhook, stable, outside, serial, runs>>

(* A chart that is not enabled has settings and no webhook.                *)
ScopeOf(p, ca) ==
  [namespaces |-> IF p.enabled THEN p.namespaces ELSE {},
   client |-> p.client, serving |-> p.serving, ca |-> ca]

Apply(s) ==
  LET me == session[s]
  IN  /\ me.at = "apply"
      /\ webhook' = [webhook EXCEPT ![me.release] = ScopeOf(me.settings, me.serving)]
      /\ Goto(s, "wait")
      /\ UNCHANGED <<existing, secrets, gateway, helm, stable, outside, serial, runs, unreviewed>>

(* The rollout completes.                                                  *)
Deployed(s) ==
  LET r == session[s].release
  IN  /\ session[s].at = "wait"
      /\ helm' = [helm EXCEPT ![r] = "deployed"]
      /\ stable' = [stable EXCEPT ![r] = webhook[r]]
      /\ End(s)
      /\ UNCHANGED <<existing, secrets, gateway, webhook, outside, serial, runs, unreviewed>>

(* --rollback-on-failure: back to the last deployed revision, or to none.  *)
RolledBack(s) ==
  LET r == session[s].release
  IN  /\ session[s].at \in {"apply", "wait"}
      /\ webhook' = [webhook EXCEPT ![r] = stable[r]]
      /\ helm' = [helm EXCEPT ![r] = IF stable[r] = None THEN "absent" ELSE "deployed"]
      /\ End(s)
      /\ UNCHANGED <<existing, secrets, gateway, stable, outside, serial, runs, unreviewed>>

(* helm uninstall deletes the objects and then its record.  Namespaces and *)
(* TLS Secrets stay.                                                       *)
HelmFree(r) ==
  \A q \in Sessions : session[q].release = r => session[q].at \notin {"apply", "wait", "purge"}

DeleteObjects(s) ==
  LET r == session[s].release
  IN  /\ session[s].at = "uninstall" /\ HelmFree(r)
      /\ webhook' = [webhook EXCEPT ![r] = None]
      /\ helm' = [helm EXCEPT ![r] = "pending"]
      /\ Goto(s, "purge")
      /\ UNCHANGED <<existing, secrets, gateway, stable, outside, serial, runs, unreviewed>>

Purge(s) ==
  LET r == session[s].release
  IN  /\ session[s].at = "purge"
      /\ helm' = [helm EXCEPT ![r] = "absent"]
      /\ stable' = [stable EXCEPT ![r] = None]
      /\ unreviewed' = unreviewed \ {r}
      /\ End(s)
      /\ UNCHANGED <<existing, secrets, gateway, webhook, outside, serial, runs>>
-----------------------------------------------------------------------------
(* Administrators edit values files, rotate the gateway's TLS material     *)
(* with or without its CA, and empty a place for a reviewed rotation; and  *)
(* certificates grow old.                                                  *)
EditProfile ==
  /\ \E r \in Releases, p \in Profiles : profile' = [profile EXCEPT ![r] = p]
  /\ UNCHANGED <<gateway, secrets, rotated, stale>>

RotateGateway ==
  /\ gateway # None
  /\ \E ca \in {gateway.ca, gateway.ca + 1} :
       gateway' = [gateway EXCEPT !.ca = ca, !.key = @ + 1]
  /\ UNCHANGED <<profile, secrets, rotated, stale>>

RemoveSecret ==
  /\ \E x \in Places :
       /\ secrets[x] # None
       /\ secrets' = [secrets EXCEPT ![x] = None] /\ rotated' = rotated \cup {x}
  /\ UNCHANGED <<profile, gateway, stale>>

Age ==
  /\ \E key \in 1 .. serial : stale' = stale \cup {key}
  /\ UNCHANGED <<profile, gateway, secrets, rotated>>

Administer ==
  /\ runs + admin < MaxEvents /\ admin' = admin + 1
  /\ EditProfile \/ RotateGateway \/ RemoveSecret \/ Age
  /\ UNCHANGED <<existing, helm, webhook, stable, serial, session, runs, unreviewed>>
-----------------------------------------------------------------------------
Preflight(s) ==
  \/ ReadInventory(s) \/ ReadClaims(s) \/ ReadTargets(s) \/ ReadSource(s)
  \/ ReadClient(s) \/ ReadServing(s)

Install(s) ==
  \/ Render(s) \/ CreateNamespace(s) \/ CreateServing(s) \/ CreateClient(s) \/ StartHelm(s)

Helm(s) ==
  \/ Apply(s) \/ Deployed(s) \/ RolledBack(s) \/ DeleteObjects(s) \/ Purge(s)

Next ==
  \/ \E s \in Sessions :
       Start(s) \/ ReconcileCore(s) \/ Interrupted(s) \/ Preflight(s) \/ Install(s) \/ Helm(s)
  \/ Administer

Spec == Init /\ [][Next]_vars

-----------------------------------------------------------------------------
(* Properties.                                                             *)
TypeOK ==
  /\ profile \in [Releases -> Profiles]
  /\ existing \subseteq Namespaces
  /\ secrets \in [Places -> Secret \cup {None}]
  /\ gateway \in Gateway \cup {None}
  /\ helm \in [Releases -> {"absent", "pending", "deployed"}]
  /\ webhook \in [Releases -> Scope \cup {None}]
  /\ stable \in [Releases -> Scope \cup {None}]
  /\ serial \in Nat /\ stale \subseteq Nat
  /\ session \in [Sessions -> SessionState]
  /\ runs \in Nat /\ admin \in Nat
  /\ rotated \subseteq Places /\ unreviewed \subseteq Releases

(* The places of a scope's Secrets that no administrator has emptied.      *)
Clients(sc) == {<<n, sc.client>> : n \in sc.namespaces} \ rotated
Server(r, sc) == {<<Home[r], sc.serving>>} \ rotated

(* Releases whose scope is what a command reviewed.                        *)
Reviewed == {r \in Releases : webhook[r] # None /\ r \notin unreviewed}

(* The webhook sends Pods of a namespace to a release only when the client *)
(* Secret those Pods will mount is there and belongs to that release:      *)
(* through partial failures and retries, commands of other releases that   *)
(* want the same name, and Helm's return to an earlier scope.              *)
InjectedPodsCanMount ==
  \A r \in Reviewed : \A x \in Clients(webhook[r]) :
    secrets[x] # None /\ secrets[x].owner = r /\ secrets[x].role = "client"

(* The CA the API server trusts is that of the serving Secret the operator *)
(* mounts, although the one was read, or generated, several calls before   *)
(* the other was created and Helm ran.                                     *)
WebhookTrustsServing ==
  \A r \in Reviewed : \A x \in Server(r, webhook[r]) :
    secrets[x] # None /\ secrets[x].owner = r /\ secrets[x].key = webhook[r].ca

(* All Secrets of a release carry one gateway identity, even when the      *)
(* gateway's material is rotated between an interrupted installation and   *)
(* its retry.                                                              *)
OneIdentity ==
  \A r \in Reviewed :
    LET clients == Clients(webhook[r])
    IN  /\ \A x, y \in clients : secrets[x] = secrets[y]
        /\ \A x \in clients, y \in Server(r, webhook[r]) : secrets[x].ca = secrets[y].ca

(* What an interrupted installation, or an uninstallation, leaves never    *)
(* stops the release's own retry: when nobody else interferes, nothing is  *)
(* in the way but another release's objects or a pending Helm operation,   *)
(* every check of the preflight on the release's own objects passes.       *)
Idle(r) == helm[r] # "pending" /\ \A s \in Sessions : session[s].release # r
Owner(x) == IF secrets[x] = None THEN None ELSE secrets[x].owner

RetryPasses ==
  \A r \in Releases :
    LET p == profile[r]
    IN  admin = 0 /\ gateway # None /\ Idle(r) /\ Acceptable(r, p) =>
          /\ Listed(r) => Recoverable(r)
          /\ \A n \in p.namespaces :
               Owner(ClientPlace(n, p)) = r =>
                 ClientUsable(r, secrets[ClientPlace(n, p)], gateway.ca, gateway.key)
          /\ Owner(ServingPlace(r, p)) = r /\ p.supplied = 0 =>
               ServingUsable(r, secrets[ServingPlace(r, p)], p, gateway.ca)

(* Two releases whose client Secrets share a name never inject the same    *)
(* namespace: check_injection_claims only lists the webhooks that exist    *)
(* already, and when two installations pass it at once the Secret, which   *)
(* only one of them can create, decides.                                   *)
SharedNameOneAuthority ==
  \A q, r \in Reviewed :
    q # r /\ webhook[q].client = webhook[r].client =>
      \A n \in webhook[q].namespaces \cap webhook[r].namespaces :
        <<n, webhook[r].client>> \in rotated

-----------------------------------------------------------------------------
(* The installers implement SecretGrants.  What a release has in force     *)
(* relies on its client Secrets and on its serving Secret.                 *)
Uses(r) ==
  IF r \in Reviewed
  THEN {<<n, webhook[r].client>> : n \in webhook[r].namespaces}
         \cup {<<Home[r], webhook[r].serving>>}
  ELSE {}

Grants == INSTANCE SecretGrants WITH
  Secrets <- Secret, holds <- secrets, uses <- [r \in Releases |-> Uses(r)], emptied <- rotated

(* Every Secret stays with the release that created it, and every scope    *)
(* put into force relies on Secrets of its release and of one gateway,     *)
(* however installations, failed upgrades, retries and removals of several *)
(* releases interleave: create_secret creates and never replaces, and only *)
(* what preflight found or install created is given to Helm.               *)
ImplementsGrants == Grants!Spec

=============================================================================
