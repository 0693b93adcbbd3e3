# Elven observability distribution: TLA+ models, model checks and proofs

This directory holds the formal models of the code of this repository. `*.tla`
are the modules, `*.cfg` the TLC configurations, `PROJECT.json` the machine
readable index (components, runs, mutants of the code, source lines of every
definition, hazards, findings, theorems). All source lines below refer to the
repository's root.

## 1. The system: inventory

| Component | State it keeps | Operations | What makes it correct | Module |
|---|---|---|---|---|
| Gateway storage guard, `elven` 256-438, 720-848 | PVC with its receipt annotation, StatefulSet, settings ConfigMap, Helm release, Secrets (all in the cluster); UID of the reservation in the process | install/upgrade, rollback, uninstall | no queue is opened for another tenant; receipts are create-only, then compare-and-swap; nothing is adopted | `StorageIdentity`, `ClaimLifecycle` |
| Source claims, `elven` 221-253, chart annotations | annotations of Elven workloads | read once in preflight of install and upgrade; Helm deploys, reverts, removes | no two releases collect the same source | `SourceClaims` |
| Combined installation, `elven` 592-674 | frozen profile | install core, then instrumentation | a failing second phase leaves the first; the profile does not change in between | `InstrumentationInstall` |
| Instrumentation installer, `scripts/instrumentation.py` | webhook configuration, serving and client TLS Secrets, Helm release | preflight, install, uninstall | injected Pods find their Secret; the trusted CA is the serving CA; one gateway identity; a partial installation can be retried | `InstrumentationInstall`, `SecretGrants` |
| Admission webhook, `operator/handler.go`, `operator/main.go` | admission slots; configuration read at start | mutate a Pod, drain, be rolled out | no Pod injected twice or made to mount what is not there; no slot is lost; nothing waits for the operator | `WebhookAdmission` |
| Privacy processor, `processor/elvenprivacyprocessor` | none (pure, depth and size limits) | sanitise spans, logs, metrics | no finding of one detector is lost by another; output is stable under a second pass | not modelled |
| Release pipeline, `scripts/images-release.py`, `images-instrumentation.py`, `images-attestations.py` | evidence directory, registry tags, signatures, lock file | build, scan, audit, publish, promote | published = scanned = promoted digest; a tag never moves; a stopped publication can be resumed | `ReleasePipeline`, `ReleaseLine`, `SdkPipeline` |
| CI helpers, `scripts/images-ci-space.py`, `images-install-trivy.py`, `probe.py` | runner disk | free space, install the scanner, probe | deletion stays within the allow-list | not modelled |
| Charts, validators, kind tests, legacy stack | rendering, static checks, test drivers | | | not modelled |

How they interact: an operator runs `elven`, which calls `kubectl`, `helm` and
`openssl` as subprocesses with deadlines and keeps no state of its own between
calls. Everything shared is in the API server. With
`--instrumentation-values`, `elven` loads `scripts/instrumentation.py` as a
module and calls its `main` after the core installation. That installs the
webhook of `operator/`, whose patches make application Pods send telemetry to
the gateway, whose Collector contains the privacy processor. All images come
from the release pipeline through `versions.lock.json` and
`instrumentation.lock.json`.

Hard behaviours: every check is a separate API call from the write it protects
(check-then-act between terminals, controllers and administrators); a call that
times out may have taken effect (`elven` 34-37 says so); Helm reverts a failed
upgrade by itself; a publication may stop between two pushes.

## 2. Plan

1. `StorageIdentity` with the abstract `ClaimLifecycle` (done, proved).
2. `ReleasePipeline` with the abstract `ReleaseLine`, and `SdkPipeline`, which
   refines it (done, proved).
3. `InstrumentationInstall`: the two phases, the installer's Secrets and CA,
   injection scopes of concurrent releases (done, proved).
4. `WebhookAdmission`: slots, answers, rollouts and crashes (done, proved). It
   assumes of the installer what 3 proves.
5. `SourceClaims`: claims of concurrent core releases (done, proved).
6. `SecretGrants`, what installers promise each other, and every invariant, action
   property and refinement of a passing run as a theorem (done).
7. Left: Pods and installers in one module, so that TLC sees the two together;
   `GrantsLast` proves what one assumes of the other.

The modules share no variables. They compose by what one promises and the next
assumes: `StorageIdentity` and `SourceClaims` guard the first phase of a combined
installation, which `InstrumentationInstall` sees as `ReconcileCore`; its theorems
`ScopesAreProvisioned` and `GrantsLast` are the assumption `WebhookAdmission` makes of
the configurations a release has had;
`SdkPipeline` EXTENDS `ReleasePipeline` and its specification is proved to imply it.

## 3. StorageIdentity

### State and actions

One release in one namespace of one confirmed cluster. `namespace`, `secrets`,
`claim` and `sts` are the objects the tool reads; `installed` is the settings
ConfigMap, `history` and `pending` are Helm's revisions and its pending
operation. `session[s]` is one invocation: `at` is the call it makes next,
`stage` which of the three storage checks it is in (preflight, reserve_storage,
write_storage_identity), and the fields `seen*` and `reserved` the Python
variables `pvc`, `statefulset`, `secret` and `args.reserved_storage_uid`. UIDs
come from the counter `lastUID`, so a recreated object never has an old UID.

Every call of the tool is one action; between two calls anything may happen.
`Interrupted` stands for any failed or timed out call and for a kill. A write
that takes effect but reports failure is a disjunct of the write
(`CreateNamespace`, `CreateSecret`, `CreateClaim`, `PatchReceipt`,
`Uninstall`). A receipt is a record; release, namespace and cluster UID are
constant here and left out, and the SHA-256 of the tenant is the tenant. A
claim without the tool's labels and a claim without a receipt are one case,
since both are refused. The TLS Secret is handled like the ingest Secret
(create-only) and not part of the receipt; it is left out. Permission, version
and image checks change nothing and only fail: `Interrupted` covers them.

Helm and the cluster are external: `Deploy`, `HelmFails`, `Templates`,
`ControllerClaim` and the administrator's actions are modelled from what the
tool relies on. Helm creates a StatefulSet if there is none, refuses a changed
volume claim template, refuses to start while a revision is pending, and with
`--atomic` removes a failed first installation or returns to the previous
revision. `TouchClaim` is any controller updating the claim's metadata.

`queued` and `disturbed` are history variables. `queued` collects the tenants
whose data Collectors queued on the current claim when started by installs
during which no administrator interfered; `disturbed` is the set of invocations
during which one did. The properties make no promise to a disturbed invocation:
docs/operations.md 189 makes none either.

### Properties

* `ReceiptNamesItsClaim`: a bound receipt names the claim it is on.
* `HelmMatchesReceipt`: install starts Helm only over a claim whose receipt is
  the identity it installs (cluster, Secret, Secret UID, tenant), although the
  facts were read one by one.
* `QueueKeepsItsTenant`: no Collector started by install opens another
  tenant's queue. This is what the guard is for.
* `InstallConfirmsBinding`: success is reported only for a bound receipt,
  however many patches were lost or conflicted.
* `ReservationIsNeverAdopted`: a reservation that a killed install, or one that
  `--atomic` took back, left behind is bound by nobody else; install starts Helm over
  a bound claim or over the one it reserved itself.
* `ReinstallNeverReplays`, `RollbackKeepsQueueTenant`: hold for invocations that
  do not overlap, fail for two that do (findings below).
* `CallsRunOut`, `SessionsEnd`: every call leaves an invocation fewer to make, with
  the retries of the compare-and-swap counted in (`Left`), and every invocation ends.
* `ImplementsLifecycle`: refinement of `ClaimLifecycle`, in which a claim is
  reserved when created, bound only by the session that learned it created it,
  only for the identity it was reserved for, and never adopted.

### Runs and bounds

| Run | Instance | States |
|---|---|---|
| `storage_race` | 2 terminals, 3 invocations, 1 profile, 5 UIDs, claim versions to 2, 1 administrative change | 2.0 million |
| `storage_sequential` | 1 terminal, 3 invocations, 3 profiles (one ephemeral), fairness | 0.6 million |
| `storage_uninstall_race` | 2 terminals, violation | |
| `storage_rollback_race` | 2 terminals, 2 profiles, violation | |

Why they are enough: two invocations suffice for every check-then-act race;
the third is what leaves a release, a retained claim or a half-done
installation behind for two racing ones. Two claim versions allow one
concurrent metadata update and the patch; five UIDs allow Secret, claim,
StatefulSet and a recreation of one or two of them. One administrative change
is enough to replace each of the objects a receipt names. `QueueKeepsItsTenant`
was also run with three invocations of two profiles (2.5 million states); the
configuration kept is the smaller one. Terminals and tenants are symmetric; the
run with fairness uses no symmetry. Deadlock is not checked: invocations end and
nothing obliges an operator to start another.

Fairness: `WF_vars(Step(s))` for every invocation. Each external call has a
deadline (`run`, `elven` 30-42; Helm's timeout plus 90 s), so a process that is
waiting goes on. It is a disjunction with `Interrupted`, so no call is assumed
to succeed. Starting an invocation, controllers and administrators are not fair.

### Findings

* `storage_uninstall_race`. `reserve_storage` re-checks the claim (`elven`
  385-387) and Helm then runs `upgrade --install` (740). When an uninstall
  completes in between, Helm creates a new StatefulSet over the retained bound
  claim and its Collector replays the queue. The message at 320 says
  "reinstall never replays a retained queue automatically"; the failure of the
  receipt's confirmation comes after the replay has begun.
* `storage_rollback_race`. `check_storage_identity` passes when the claim is
  absent (351-352), and rollback reserves nothing. If another invocation
  installs another profile and reserves the claim meanwhile, Helm rolls back to
  a Collector of the old tenant over it. The comment at 362-363 says rollback
  "must not bypass the tenant/PVC guard", docs/operations.md 185 that it
  "também exige recibo atual válido". Since the release must exist and its
  claim be absent, this needs a release deployed or a claim deleted by hand
  before.

## 4. ReleasePipeline

### State and actions

One version of a distribution. Evidence directories hold `release.json`
(`manifest`), the OCI archive and BuildKit metadata of each image (`archive`:
the build they come from), vulnerability reports, SPDX documents and audits
(`reports`, `sboms`, `audits`: the scan they come from) and the promotion
candidate (`promoted`). The registry holds the version's `tag` per image, the
pushed and signed digests, and the set `attested` of digest and predicate. Two
checksums are equal exactly when the files come from the same build or scan;
that is all the checksums are used for, so a number per build and per scan
stands for file, checksum and digest. Builds never repeat a digest (BuildKit's
provenance carries times and identifiers) and scans never repeat an SPDX
document (Trivy writes a UUID and a time into it).

`tree` has the text committed at HEAD and the text of the working tree of the
build inputs, which git state, input hashes and builds read at different
moments. `session[s]` is one process: the stage it is in, the manifest it
loaded (`mem`), the images or pairs left, and the Python variables `input_hashes`,
`existing` and `digest`.

Every effect on a file or on the registry is a step, as is every read of one
that another process or writer can change; `Interrupted` is a failed check, a
failed call or a kill between two of them, and since the effect and the
continuation are separate steps it also stands for an effect whose answer was
lost. `write_json` truncates and then writes, so `WriteManifest` may leave a
`Torn` file; no command can load it and the directory is lost. The kernel drops
the file lock of a process that ends. `Validate` is publish up to the first
look at the registry: it reads files that only the holder of the lock changes.

Modelled as never reached: a build of some platforms only and `-dev` versions,
which publish refuses before anything else; the environment, reviewer, tool
version and permission checks, which only fail; the label check of promote
reads the revision the build was given (`origin`). A torn promotion candidate
is not modelled, since it is reviewed by hand. The checksum of the artifact
store through which the workflow hands the directory from job to job is
GitHub's.

`SdkPipeline` is `images-instrumentation.py`. It has the same stages as
`images-release.py` (93-330 and 209-604) and shares its helpers, so its actions are
those of `ReleasePipeline`, except that publish hashes the inputs of every image
again (`InputsUnchanged`), that there is no audit, and that stale evidence is
refused without advice. Assumptions on the surroundings: one publish at a time per
tag (`.github/workflows/images.yaml` 17-19 and the same lines of
`instrumentation.yaml`), and nobody edits *and* reverts within the one build whose
inputs are hashed before and after.

### Properties

* `ScansDescribeTheirBuild`: every scan in a manifest was made of the digest
  beside it, on that platform and with that outcome. The reason for the lock.
* `LoadedIsCurrent`: the manifest in a command's memory is the one on disk until the
  command writes its own, so no command loses the record of another, and a torn
  manifest is worked on by none. The only command without a manifest on disk is a
  build that has recorded nothing yet.
* `OnlyScannedIsSigned`: a signed digest passed a scan of every platform, and
  the audit where there is one, also when others push to the tag.
* `PromotedIsBacked`: a promoted lock names digests that are in the registry,
  signed, attested with exactly the SPDX documents it names, each of a passed
  scan of that digest.
* `SignedFromCleanSource`: what is signed has the text of the revision it is
  labelled with. Of the SDK script only; without the second hash it does not hold,
  see below.
* `ImplementsReleaseLine`: tags are set once, and every promotion of the version,
  from whatever directory, is of the images under the complete set of tags.
* `CommandsEnd`: no kill leaves a lock on which the others wait.
* `DirtyBuildsAreMarked`, `RerunAllowsPublication`: what the documents say and
  the code does not do (findings).

### Runs and bounds

| Run | Instance | States |
|---|---|---|
| `release_core` | 2 processes, 1 directory, 1 audited image, 6 commands, 1 edit of the source | 2.0 million |
| `release_sdk` | SDK script: 2 processes, 4 commands, 2 changes of the source, 1 expiry, 1 push by others, fairness | 0.4 million |
| `release_dirty`, `release_stale` | violations | |

A version needs build, scan, audit, publish and promote, so six commands allow one
of them to be killed and repeated, or another attempt to interfere at any step;
with four, the SDK script can publish what was built before an edit. Two
changes of the source are an edit and its revert or commit, which is what a check
made at two moments can miss. A second directory
does nothing within six commands, since it needs three of its own to be published;
that attempts from several directories never disagree is what the theorem about
`ImplementsReleaseLine` says for any number of them. With one image the run has no
set of images of which one is rebuilt or published without the other. An instance with
two images (`Images = {collector, beyla}`, one process, five commands, nothing audited,
no edits) passes the same properties in 3.1 million states; it is not a run of its own,
because the interleavings of a second process on top exceed what TLC does in
minutes, and the theorems hold for any set of images. Processes, directories, platforms
and images are symmetric. Deadlock is not checked: when the commands are used up
nothing is left to do.

Fairness (of `SdkPipeline`): a process that is not waiting for a lock goes on or ends. `run`
(`scripts/images-release.py` 59-74) gives verification calls a deadline of 180 s;
what has none ends with its job (`images.yaml` 24, 56, 156). A process waiting for
the lock has no deadline of its own and is only assumed to take a lock that stays
free: that the bound on commands makes it free for good is a limit of this check,
and a process overtaken again and again is not excluded in general.

### Findings

* `release_dirty`. docs/supply-chain.md 35: local builds with a dirty source
  are marked. `dirtySource` is recorded when `release.json` is created
  (223-224) from a state read once per command (216). An edit after that read,
  or a further build in the same directory and revision (218-221), puts an
  image built from a dirty tree into a manifest marked clean. `inputsSha256` is
  recorded and never compared by publish (499-542), where
  `images-instrumentation.py` compares it (246-248).
* `release_stale`. Line 521 tells the operator to run build or scan again when
  the evidence is too old. If an earlier publication already attested the old
  scans, the fresh SPDX document is attested beside them and `verify_predicates`
  (`images-attestations.py` 187-188), which demands exactly the approved set,
  refuses the image from then on; a new build is refused by the tag lookup. The
  version cannot be completed.

## 5. InstrumentationInstall and WebhookAdmission

### The installer

`InstrumentationInstall` has several releases and terminals. `profile` is the
values file of each release, `secrets` the TLS Secrets of every namespace,
`gateway` the TLS material and approved namespaces of the source gateway, `helm`,
`webhook` and `stable` Helm's status, what it applied and what it returns to.
`session[s]` is one command: every read of `preflight` (416-504), every write of
`install` (507-522) and the steps of Helm are actions, with the Python variables
(`settings`, `missing`, the source CA, the serving CA) as fields. A Secret is its
owner, role, source CA and material; that is all the code compares.
A combined installation freezes its profile before the first phase (`elven`
647-651); a direct one renders the file again with the CA (510-511, 519-521), which
is `Manifest`.

* `InjectedPodsCanMount`: a webhook in force sends Pods only to namespaces that hold
  its release's client Secret. `WebhookTrustsServing`: the CA it is configured with
  is that of the serving Secret. `OneIdentity`: all Secrets of a release carry one
  gateway identity, although the gateway is rotated between an interrupted
  installation and its retry.
* `RetryPasses`: what a partial installation or an uninstallation leaves passes the
  release's own checks.
* `SharedNameOneAuthority`: two releases whose client Secrets have the same name
  never inject one namespace. The check of scopes (370-389) is a list of
  configurations that exist; of two installations that pass it at once, the
  create-only Secret lets only one go on. With Secrets of different names nothing
  decides, and both are installed; this instance is in `injection`, the property is
  silent about it, and `WebhookAdmission` shows what then becomes of a Pod.
* `ImplementsGrants`: refinement of `SecretGrants`, which says what the releases may
  rely on without knowing of each other. A Secret is made where there is none and
  stays, with its owner and its material, until an administrator empties its place;
  and a release puts into force only what relies on Secrets of its own, of one
  gateway. Where the invariants look at webhooks in force, this is about every step: a
  leftover of an interrupted installation is not taken over either.

Two kinds of state are exempt, in history variables: places an administrator
emptied (`rotated`), and releases that a direct installation took from a file that
changed after its preflight (`unreviewed`). The code promises nothing there, and
only the combined installation protects itself. Assumed: nobody uninstalls a
release while another terminal's Helm works on it.

`injection`: 2 terminals, 2 releases, 4 namespaces, profiles that overlap with the
same and with different Secrets and one that is disabled, and 3 events (commands or
administrative changes) in 1.9 million states; terminals are symmetric, and releases
together with the namespaces of their operators. Three events are two racing commands
and what one of them finds, or an interrupted one, a rotation and a retry.

### The webhook

`WebhookAdmission` has releases (`Hooks`), replicas and Pods. `config` and `scope`
are the ConfigMap and the namespace selector, which a rollout replaces one after the
other; `replica[r]` is the configuration a process read when it started and keeps
until it exits; `used` the slots of `op.slots`; `call` the handler of each hook and
Pod (`Enter`, `Handle`, `Return` of handler.go 185-225); `pod` the API server's side:
webhooks in scope are called in any order, once (reinvocationPolicy Never), with the
Pod as patched so far, and a lost, late or failed call is skipped (failurePolicy
Ignore). `Decision` is `admit` (278-332) with the conditions on the Pod's own document
as one predicate, `Unsuitable`. Since main returns as soon as the listener is closed
(main.go 50-61), a drain and a crash are one action, `Exit`: handlers and their
answers are lost.

* `SlotsAreHeld`, `CapacityReturns`: a slot is held by a handler and nothing else, and
  a full replica is free again. `InjectedOnce`: no Pod is injected by two hooks.
  `InjectedCanMount`: a Pod is made to mount only a Secret its webhook's release named
  for its namespace, also when a replica of an older configuration decides.
* `RefusedForCause`, `AdmissionsEnd`: a Pod is refused for what it asks for only, and
  every admission ends, whatever becomes of the processes.

`webhook`: 2 releases with overlapping scopes, a replica each, 2 Pods, one slot, 3
rollouts, removals or exits; 0.2 million states, with liveness. One slot is
enough to be full while a second Pod calls. The invariants were also checked with 5
changes (3.2 million). Fairness: handlers go on (the server's read and write timeouts,
main.go 46-49) and the API server goes on with an admission (timeoutSeconds); it may
give up on any call, so no answer is assumed. Starts, exits and rollouts are not fair.

## 6. SourceClaims

`running[r]` is what collects for release r in the cluster: modules, namespaces and
whether the chart annotated it. `Workloads` is what the chart writes on its agents
(node-agent.yaml 205-215, cluster-metrics.yaml 78-88) and `ActiveSignals`, `Overlaps`
and `NoOverlap` what `check_source_claims` reads of it. `stable`, `past` and `pending`
are Helm's revisions. `CheckClaims` and the steps of Helm are separate actions of the
terminals, rollback has no check, and `Revert` is the automatic return of a failed
upgrade, which may fail itself (`Fails`). Releases initially run nothing or agents of
an older chart, which were installed before claims existed on sources apart.

A release's agents are *vouched for* unless its installer acknowledged the overlap,
it was rolled back, or another release changed between its check and its Helm
operation, or while a failed upgrade was under way that then returned (`exempt`,
`overtaken`). This makes the gaps of the guard explicit: outside them it works.

* `NodeSourcesHaveOneReader`: vouched releases never collect logs or traces of one
  namespace twice, nor the kubelets. The sources are stated from the modules
  (`Sources`), not from annotations.
* `ReconcilePasses`: what was installed under a check passes it again.
* `ClusterStateHasOneReader` (violated, `claims_cluster`, one terminal). The chart
  writes `clustermetrics` on the Deployment (cluster-metrics.yaml 85); the tool looks
  for `cluster-metrics` (`elven` 224) and falls back to the component label only if the
  annotation is empty (241-245). So a second collector of the state of the cluster is
  never refused, where docs/architecture.md 72 says that overlap must fail by default.

`claims`: 2 terminals, 2 releases, 4 profiles, 2 older agents, 3 commands: 0.7 million
states. Three commands are a release in force, its failing upgrade, and another
installation in between. Deadlock is not checked: nothing obliges anybody to start
another command.

## 7. Mutants

Where a module has an operator directly before the one it resembles (`AnyOwner` before
`Owned`), it is a plausible mistake in that line of the code. `PROJECT.json` names, for
every property of every passing run, one that the property detects.


## 8. Proofs

All for any sets of sessions, profiles, Secrets, releases, Pods, images and so on,
and any bounds, from each module's `ConstantsAssumption` (profiles are well
formed; `None`, `Torn` and `Foreign` are none of the other values), `NoneIsNoLife`
and, for the SDK script, `NoAudit`.

* `StorageIdentityProofs`: `IInv` is the type invariant plus what a session
  holds in hand at each step (`InHand`: at "patch" the claim it read carries
  exactly the reservation it is about to bind and has the UID its own create
  returned), and that reservations and claims have UIDs no larger than the last
  one assigned. `TypeOK` and `ReceiptNamesItsClaim` alone are not inductive:
  that the patch writes the right UID depends on what was read three calls
  earlier. Theorems `TypeCorrect` and `ReceiptsNameTheirClaims`.
* `StorageGuardProofs`: `GuardInv` says what an undisturbed install *knows* at
  each step. Every one of these facts is about shared state read earlier, so
  each must be stable under all other actions: lemma `StepKeeps` shows that no
  invocation and no controller changes the owner of an existing claim or the
  content of an existing Secret, or makes a bound receipt a reservation (`Kept`).
  From the moment reserve_storage is through, the claim carries a receipt of the
  profile and of the Secret as it is (`Assured`), and from the patch on a bound one.
  `QueueOK` adds that the queue holds only the receipt's tenant. Theorems
  `HelmStartsOverItsReceipt`, `ReservationsAreNotAdopted`, `SuccessConfirmsBinding`
  and `QueueNeverChangesTenant`.

  Two properties are false when invocations overlap, as `storage_uninstall_race` and
  `storage_rollback_race` show. Their theorems therefore have the hypothesis
  `[]OneAtATime`, that no two invocations are active together, and no other: any
  number of terminals take turns, are killed anywhere, and have controllers and
  administrators beside them. `OneInv` says of the one that is active what it may
  conclude from what it read (`Follows`): the receipt and the StatefulSet are still as it
  saw them, a bound claim under its install has a StatefulSet, and the revision its
  rollback goes to has the owner of the live pair. Theorems `ReinstallKeepsRetainedQueue` and
  `RollbackOpensOwnQueue`.

  `CallsRunOut` needs of the invariant that the patch is sent in the last stage only
  and that its tries are counted; the variant is `Left`, at most 31. Theorem
  `InvocationsAreBounded`, the half of `SessionsEnd` that needs no fairness.
* `StorageLifecycleProofs`: the refinement step by step; quiet steps keep or
  drop a reservation (stutter or Release), `CreateClaim` is Reserve,
  `PatchReceipt` is Bind, `ControllerClaim` Appear, `DeleteClaim` Remove.
  Theorem `LifecycleImplemented`.

* `ReleaseProofs`: `IInv` joins the types with six facts about two kinds of
  state. `InHand` says what a process may rely on at each step, above all that
  what it is about to record was found by looking at the very digest recorded
  in its manifest, and that from `Validate` on every image of its manifest has
  passed; `ManifestsOK` says the same of the manifests on disk. `LocksOK` is
  the mutual exclusion of the evidence lock. It matters in one place: between
  `Buildx` and `RecordBuild` no other process may replace the archive
  (`JustBuilt`, `ArchivesOK`), or the digest recorded would be of no build of
  that image. `ScansDescribeTheirBuild` alone is not inductive because
  `RecordScan` writes into the manifest it loaded, not the one on disk, and
  `OnlyScannedIsSigned` is not because `Sign` signs what the registry returned
  two steps earlier. Builds and scans only accumulate, so these facts survive
  the steps of others (`InHandGrows`, `OneMoves`); each action is then one
  lemma, a step that only moves its process being an instance of `QuietMoves`
  and one that saves a manifest of `Writes`. Theorems `TypeCorrect`,
  `ScansMatchBuilds` and `SignaturesAreEarned`.

  Promotions need more than signatures. `PInv` adds that the attestations recorded
  in a manifest are of passed scans (`PoliciesOK`, and `ApprovingOK` of those in
  hand), and that a promotion under way has found every image it has dealt with
  pushed, signed and attested (`Stands`). Nothing of this is ever taken back
  (`NothingLost`), so what was found image by image holds when the lock is written,
  although publication and rescans of other directories go on meanwhile. Theorem
  `PromotionsAreBacked`.

  `LInv` adds `SessionsInStep`, which is `LoadedIsCurrent` written for one process and
  its manifest. A step changes the manifest of its own directory only while it holds the
  lock (`KeepsInStep`), and any other process at work there would hold the same lock
  (`OthersInStep`). That what is written is whole, and so may be loaded again, comes
  from the types. Theorem `NothingIsOverwritten`.

  `TInv` adds the tags. The workflow's concurrency group lets one process publish
  (`OnePublisher`), so the tags its lookups found free stay free until it pushes
  (`FreeTagsOK`); hence every digest in the registry is the one its image's tag names
  (`PushedIsTagged`), and a promoted digest, which is in the registry, is too.
  Theorem `ReleaseLineImplemented`, under the assumption `MaxForeign = 0`: whoever
  else may push can move a tag, which no check of the script prevents. The theorem
  holds for any number of directories; the run has one.

* `SdkProofs`: every step of the SDK script is one of `ReleasePipeline`, so what
  `ReleaseProofs` shows carries over (`SdkIsARelease`, `SdkSignaturesAreEarned`,
  `SdkPromotionsAreBacked`, `SdkOverwritesNothing`). For
  `SignaturesAreOfCleanSources`, `CInv` says that texts never come back while an image
  is built (`TreeOK`, `HandsOK`: the text hashed before a build is no later than that
  built, which is no later than the tree's), so equal hashes before and after mean that
  this text was built; `FilesOK` says it of manifests and `LabelsOK` of what is signed.
* `InstrumentationProofs`: `IInv` adds to the types what each command has verified or
  created so far (`InHand`) and that an applied scope, and the one a failed upgrade
  returns to, is provisioned with Secrets of one identity (`Provisioned`). Creates
  never overwrite and only administrators delete, so what was found stays.
  Theorems `ScopesAreProvisioned`, `TrustMatchesServing`, `IdentityIsOne`,
  `LeftoversPass` and `SecretsDecideClaims`. For `GrantsImplemented`, a create is Make,
  an administrator's removal Empty, and a step of Helm, which concerns one release
  (`OneEnforces`), is Enforce because the invariant holds after it; all else stutters.
  `SecretsAreNotShared` then follows from `SecretGrants` alone (`GrantsSuffice`).
  `GrantsLast` says that what a scope ever relied on stays provided, which the webhook's
  processes of older configurations need.
* `WebhookProofs`: `IInv` says that calls are attached to replicas of their hook and
  that answers are grounded in a configuration the release has had (`CallsOK`), that
  hooks still to be called have not been and the call waited for carries the Pod as it
  is (`Serial`), and that counters equal the handlers (`SlotsAreHeld`, with the
  library's facts on cardinality). Theorems `NoSlotIsLost`, `OneInjection`,
  `MountsAreProvided` and `RefusalsHaveCause`.
* `SourceClaimsProofs`: `CheckIsSound` shows that a passed check means disjoint
  sources on the nodes, whether agents are annotated or not. `IInv` adds what a
  terminal may rely on until Helm ends as long as no other release changed: the agents
  in hand (`InHand`) and those a failed upgrade returns to (`Fallback`) are apart from
  the others; `Locked` keeps everybody else off the release. `Apart` is not only that
  the sources are disjoint: of two releases that are apart, each annotated one passes
  the check beside the other. The check
  is symmetric between annotated agents (`CheckIsSymmetric`), so the
  release that came first passes again as well. Theorems `OneReaderOnTheNodes` and
  `SameCommandPasses`.

Only model-checked, because liveness and ENABLED are outside the prover's reach:
`SessionsEnd`, `CommandsEnd`, `CapacityReturns` and `AdmissionsEnd`. Every other
property of a passing run is stated by a theorem.

One proof failed for a reason worth keeping: branches of a CASE that overlap leave the
choice of the value open, so that an action meant to follow the order of the code's
early returns could not be shown to. TLC takes the first branch and sees nothing of it.
The actions concerned in `StorageIdentity` are written with IF now.

## 9. Not modelled

* The privacy processor: pure functions of byte strings (regular expressions, quoting
  and comment scanners). A model would have to spell strings out, and the fuzz tests
  beside it meet the same cases on the code itself.
* CI helpers: single passes over a fresh runner. `images-ci-space.py` validates its
  complete plan of three literal directories before the first removal, and nothing runs
  beside it.
* Charts and rendering (but for what the modules above take from them), static
  validators, license bundling, the kind test drivers and `legacy/` contain no protocol:
  they are pure functions of files or drive other components. PKI generation is a chain
  of `openssl` calls on local files before the first write.
