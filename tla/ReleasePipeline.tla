--------------------------- MODULE ReleasePipeline ---------------------------
(***************************************************************************)
(* The image release pipeline (scripts/images-release.py).  SdkPipeline    *)
(* adapts it to scripts/images-instrumentation.py.                         *)
(*                                                                         *)
(* Images are built, scanned and audited into an evidence directory, then  *)
(* pushed, signed and attested, and at last promoted into a release lock.  *)
(* Each command is one process that holds the directory's file lock; it    *)
(* may be killed between any two of its steps and be run again later.      *)
(* Several evidence directories and one registry exist, so a version may   *)
(* be attempted more than once.                                            *)
(*                                                                         *)
(* One version is modelled.  A build is identified by a number that stands *)
(* for its digest, its archive and its BuildKit metadata, which carry time *)
(* stamps and so never repeat; a scan or audit is identified by a number   *)
(* that stands for its report and its SPDX document.                       *)
(***************************************************************************)
EXTENDS Naturals, Sequences, FiniteSets

CONSTANTS
  Sessions,      (* processes running a command                            *)
  Dirs,          (* evidence directories                                   *)
  Images,        (* components of the distribution                         *)
  Platforms,     (* architectures of every image                           *)
  Audited,       (* images that also need the Go and licence audit         *)
  None,          (* absent                                                 *)
  Torn,          (* a release.json cut short while it was written          *)
  Foreign,       (* digest of somebody else's image                        *)
  MaxRuns,       (* bound: commands started                                *)
  MaxChanges,    (* bound: edits, reverts and commits of the source        *)
  MaxExpiry,     (* bound: times that all evidence so far grows stale      *)
  MaxForeign     (* bound: pushes by other writers to the registry         *)

Source == [head : Nat, text : Nat]     (* the commit and the working tree  *)
Digest == Nat \ {0}
Finding == [scan : Nat, passed : BOOLEAN]
Policy == [digest : Digest, spdx : [Platforms -> Nat]]
Image ==
  [digest : Digest, inputs : Nat, scans : [Platforms -> Finding \cup {None}],
   audit : Finding \cup {None}, attestations : Policy \cup {None}]
Manifest ==
  [rev : Nat, dirty : BOOLEAN, verified : BOOLEAN, images : [Images -> Image \cup {None}]]

ASSUME ConstantsAssumption ==
  /\ Audited \subseteq Images
  /\ None \notin Finding \cup Policy \cup Image \cup Manifest \cup Digest \cup Platforms \cup Images \cup Dirs \cup Sessions
  /\ None \notin [Images -> Policy]
  /\ Torn \notin Manifest \cup {None}
  /\ Foreign \notin Digest \cup {None}
  /\ MaxRuns \in Nat /\ MaxChanges \in Nat /\ MaxExpiry \in Nat /\ MaxForeign \in Nat

VARIABLES
  tree,      (* the source tree: the text committed at HEAD, and the text  *)
             (* of the working tree; they differ when it is dirty          *)
  changes,   (* changes made to it so far                                  *)
  manifest,  (* release.json of each evidence directory                    *)
  archive,   (* build whose OCI archive and metadata are on disk           *)
  reports,   (* scan whose vulnerability report is on disk                 *)
  sboms,     (* scan whose SPDX document is on disk                        *)
  audits,    (* audit whose reports are on disk                            *)
  promoted,  (* versions.promoted.lock.json                                *)
  holder,    (* process holding the directory's lock                       *)
  tag,       (* registry: digest under the version's tag of an image       *)
  pushed,    (* registry: digests whose content is there                   *)
  signed,    (* registry: digests signed by the release workflow           *)
  attested,  (* registry: pairs of a digest and a predicate attested of it *)
  lastScan,  (* scans and audits so far                                    *)
  expired,   (* those up to this one are too old                           *)
  ages,      (* times that happened                                        *)
  session,   (* the commands                                               *)
  runs,      (* commands started                                           *)
  foreign,   (* pushes by other writers                                    *)
  origin,    (* history variable: commit, text and image of builds       *)
  scanned,   (* history variable: what each scan and audit looked at, found*)
  advised    (* history variable: publish told an operator to scan again   *)

source == <<tree, changes>>
files == <<archive, reports, sboms, audits>>
registry == <<tag, pushed, signed, attested>>
clock == <<lastScan, expired, ages>>
history == <<origin, scanned, advised>>
vars == <<tree, changes, manifest, archive, reports, sboms, audits, promoted,
          holder, tag, pushed, signed, attested, lastScan, expired, ages,
          session, runs, foreign, origin, scanned, advised>>

Commands == {"none", "build", "scan", "govulncheck", "publish", "promote"}
Locations ==
  {"idle", "lock", "open", "build", "buildx", "builtRecord",
   "scan", "sbom", "scanRecord", "audit", "auditRecord",
   "lookup", "publish", "push", "recheck", "sign", "attest", "verify",
   "publishRecord", "finish", "promote", "promoteWrite"}

(* What a process has in hand: the manifest it loaded, the images (and     *)
(* platforms) still to do, the image it works on and what it learned of it.*)
SessionState ==
  [at : Locations, cmd : Commands, dir : Dirs \cup {None},
   mem : Manifest \cup {None}, images : SUBSET Images,
   pairs : SUBSET (Images \X Platforms),
   image : Images \cup {None}, platform : Platforms \cup {None},
   inputs : Nat, finding : Finding,
   existing : SUBSET Images, digest : Digest \cup {None, Foreign},
   left : SUBSET (Platforms \cup {None})]

Blank ==
  [at |-> "idle", cmd |-> "none", dir |-> None, mem |-> None, images |-> {},
   pairs |-> {}, image |-> None, platform |-> None,
   inputs |-> 0, finding |-> [scan |-> 0, passed |-> FALSE],
   existing |-> {}, digest |-> None, left |-> {}]

Active(s) == session[s].at # "idle"
-----------------------------------------------------------------------------
(* Moves of one process.  Where an operator has a faulty twin defined just *)
(* before it, the twin is the mutant PROJECT.json names for a property.    *)

Set(s, st) == session' = [session EXCEPT ![s] = st]
Goto(s, loc) == Set(s, [session[s] EXCEPT !.at = loc])

(* A process that ends, for whatever reason, no longer holds its lock.     *)
ReleaseNothing(s) == holder
Release(s) == [d \in Dirs |-> IF holder[d] = s THEN None ELSE holder[d]]
End(s) == Set(s, Blank) /\ holder' = Release(s)

Dir(s) == session[s].dir
Loaded(m) == m # None /\ m # Torn

(* write_json truncates the file and then writes it.                       *)
WriteManifest(s, m, st) ==
  \/ /\ manifest' = [manifest EXCEPT ![Dir(s)] = m]
     /\ Set(s, [st EXCEPT !.mem = m]) /\ UNCHANGED holder
  \/ manifest' = [manifest EXCEPT ![Dir(s)] = Torn] /\ End(s)

(* Rebuilding an image discards its scans, audit and attestations.         *)
RebuiltImage(m, c, b, src) ==
  [digest |-> b, inputs |-> src,
   scans |-> IF m.images[c] = None THEN [p \in Platforms |-> None] ELSE m.images[c].scans,
   audit |-> None, attestations |-> None]
BuiltImage(m, c, b, src) ==
  [digest |-> b, inputs |-> src, scans |-> [p \in Platforms |-> None],
   audit |-> None, attestations |-> None]

(* The approved evidence of an image: evidence_policy.                     *)
EvidenceOnDisk(d, c, r) ==
  /\ archive[d][c] = r.digest
  /\ \A p \in Platforms : r.scans[p] # None /\ sboms[d][c][p] = r.scans[p].scan
ScanOf(r, p) == IF r.scans[p] = None THEN 0 ELSE r.scans[p].scan
PolicyOf(r) == [digest |-> r.digest, spdx |-> [p \in Platforms |-> ScanOf(r, p)]]

(* Predicates: 0 is the build metadata, a scan number its SPDX document.   *)
Predicates(policy) == {0} \cup {policy.spdx[p] : p \in Platforms}
Attestations(x) == {a[2] : a \in {b \in attested : b[1] = x}}

(* verify_image: a signature, and exactly the approved predicates.         *)
Verified(x, policy) == x \in signed /\ Attestations(x) = Predicates(policy)
-----------------------------------------------------------------------------
Init ==
  /\ tree = [head |-> 0, text |-> 0] /\ changes = 0
  /\ manifest = [d \in Dirs |-> None]
  /\ archive = [d \in Dirs |-> [c \in Images |-> 0]]
  /\ reports = [d \in Dirs |-> [c \in Images |-> [p \in Platforms |-> 0]]]
  /\ sboms = [d \in Dirs |-> [c \in Images |-> [p \in Platforms |-> 0]]]
  /\ audits = [d \in Dirs |-> [c \in Images |-> 0]]
  /\ promoted = [d \in Dirs |-> None]
  /\ holder = [d \in Dirs |-> None]
  /\ tag = [c \in Images |-> None]
  /\ pushed = {} /\ signed = {} /\ attested = {}
  /\ lastScan = 0 /\ expired = 0 /\ ages = 0
  /\ session = [s \in Sessions |-> Blank]
  /\ runs = 0 /\ foreign = 0
  /\ origin = <<>> /\ scanned = {} /\ advised = FALSE

(* The release workflow has one run per tag at a time, and publish runs    *)
(* only there.                                                             *)
PublisherFree == \A s \in Sessions : session[s].cmd # "publish"

(* --component: all images or one.                                         *)
Chosen == {Images} \cup {{c} : c \in Images}

Invoke(s, cmd, d, cs) ==
  Set(s, [Blank EXCEPT !.at = "lock", !.cmd = cmd, !.dir = d, !.images = cs])

Start(s) ==
  /\ ~Active(s) /\ runs < MaxRuns
  /\ runs' = runs + 1
  /\ \E d \in Dirs :
       \/ \E cs \in Chosen : Invoke(s, "build", d, cs) \/ Invoke(s, "scan", d, cs)
       \/ Audited # {} /\ Invoke(s, "govulncheck", d, Audited)
       \/ PublisherFree /\ Invoke(s, "publish", d, Images)
       \/ Invoke(s, "promote", d, Images)
  /\ UNCHANGED <<source, manifest, files, promoted, holder, registry, clock, foreign, history>>

(* A call fails, a check not modelled fails, or the process is killed.     *)
Interrupted(s) ==
  /\ Active(s) /\ End(s)
  /\ UNCHANGED <<source, manifest, files, promoted, registry, clock, runs, foreign, history>>

(* evidence_lock: wait for the directory's lock.                           *)
AnyLock(d) == TRUE
Unlocked(d) == holder[d] = None

Acquire(s) ==
  /\ session[s].at = "lock" /\ Unlocked(Dir(s))
  /\ holder' = [holder EXCEPT ![Dir(s)] = s]
  /\ Goto(s, "open")
  /\ UNCHANGED <<source, manifest, files, promoted, registry, clock, runs, foreign, history>>

(* A command that has done its last image.                                 *)
Done(s) ==
  /\ \/ session[s].at \in {"build", "audit"} /\ session[s].images = {}
     \/ session[s].at = "scan" /\ session[s].pairs = {}
  /\ End(s)
  /\ UNCHANGED <<source, manifest, files, promoted, registry, clock, runs, foreign, history>>

-----------------------------------------------------------------------------
(* build.  A new directory gets a manifest in memory; an old one is used   *)
(* again for the same revision.  dirtySource is recorded only once.        *)
NewManifest ==
  [rev |-> tree.head, dirty |-> tree.text # tree.head, verified |-> FALSE,
   images |-> [c \in Images |-> None]]

OpenBuild(s) ==
  LET m == manifest[Dir(s)]
  IN  /\ session[s].at = "open" /\ session[s].cmd = "build"
      /\ CASE m = None -> Set(s, [session[s] EXCEPT !.at = "build", !.mem = NewManifest]) /\ UNCHANGED holder
           [] Loaded(m) /\ m.rev = tree.head ->
                Set(s, [session[s] EXCEPT !.at = "build", !.mem = m]) /\ UNCHANGED holder
           [] OTHER -> End(s)
      /\ UNCHANGED <<source, manifest, files, promoted, registry, clock, runs, foreign, history>>

HashInputs(s) ==
  /\ session[s].at = "build"
  /\ \E c \in session[s].images :
       Set(s, [session[s] EXCEPT !.at = "buildx", !.image = c, !.inputs = tree.text,
                 !.images = @ \ {c}])
  /\ UNCHANGED <<source, manifest, files, promoted, holder, registry, clock, runs, foreign, history>>

(* docker buildx writes archive and metadata, or leaves them unusable.     *)
FailureIgnored(s) == Goto(s, "builtRecord") /\ UNCHANGED holder
BuildFailed(s) == End(s)

Buildx(s) ==
  LET me == session[s]
  IN  /\ me.at = "buildx"
      /\ \/ /\ origin' = Append(origin, [rev |-> me.mem.rev, text |-> tree.text, image |-> me.image])
            /\ archive' = [archive EXCEPT ![me.dir][me.image] = Len(origin) + 1]
            /\ Goto(s, "builtRecord") /\ UNCHANGED holder
         \/ /\ archive' = [archive EXCEPT ![me.dir][me.image] = 0]
            /\ BuildFailed(s) /\ UNCHANGED origin
      /\ UNCHANGED <<source, manifest, reports, sboms, audits, promoted, registry,
                     clock, runs, foreign, scanned, advised>>

RecordBuild(s) ==
  LET me == session[s]
      b == archive[me.dir][me.image]
  IN  /\ me.at = "builtRecord"
      /\ IF tree.text # me.inputs
         THEN End(s) /\ UNCHANGED manifest
         ELSE WriteManifest(s,
                [me.mem EXCEPT !.images[me.image] = BuiltImage(me.mem, me.image, b, me.inputs)],
                [me EXCEPT !.at = "build", !.image = None, !.inputs = Blank.inputs])
      /\ UNCHANGED <<source, files, promoted, registry, clock, runs, foreign, history>>

-----------------------------------------------------------------------------
(* scan and govulncheck.                                                   *)
OpenScan(s) ==
  LET me == session[s]
      m == manifest[me.dir]
  IN  /\ me.at = "open" /\ me.cmd \in {"scan", "govulncheck"}
      /\ IF Loaded(m)
         THEN /\ Set(s, [me EXCEPT !.at = IF me.cmd = "scan" THEN "scan" ELSE "audit", !.mem = m,
                           !.pairs = IF me.cmd = "scan" THEN me.images \X Platforms ELSE {}])
              /\ UNCHANGED holder
         ELSE End(s)
      /\ UNCHANGED <<source, manifest, files, promoted, registry, clock, runs, foreign, history>>

(* The archive must be the one that was built.                             *)
Unchanged(s, c) ==
  /\ session[s].mem.images[c] # None
  /\ archive[Dir(s)][c] = session[s].mem.images[c].digest

(* trivy writes the report, then the SPDX document, of one platform.       *)
Report(s) ==
  LET me == session[s]
  IN  /\ me.at = "scan"
      /\ \E c \in me.images, p \in Platforms :
           /\ <<c, p>> \in me.pairs
           /\ IF ~Unchanged(s, c)
              THEN End(s) /\ UNCHANGED <<reports, lastScan, scanned>>
              ELSE \E ok \in BOOLEAN :
                     /\ lastScan' = lastScan + 1
                     /\ reports' = [reports EXCEPT ![me.dir][c][p] = lastScan + 1]
                     /\ scanned' = scanned \cup
                          {[scan |-> lastScan + 1, digest |-> archive[me.dir][c], platform |-> p, passed |-> ok]}
                     /\ Set(s, [me EXCEPT !.at = "sbom", !.image = c, !.platform = p,
                                  !.finding = [scan |-> lastScan + 1, passed |-> ok],
                                  !.pairs = @ \ {<<c, p>>}])
                     /\ UNCHANGED holder
      /\ UNCHANGED <<source, manifest, archive, sboms, audits, promoted, registry,
                     expired, ages, runs, foreign, origin, advised>>

Sbom(s) ==
  LET me == session[s]
  IN  /\ me.at = "sbom"
      /\ sboms' = [sboms EXCEPT ![me.dir][me.image][me.platform] = me.finding.scan]
      /\ Goto(s, "scanRecord")
      /\ UNCHANGED <<source, manifest, archive, reports, audits, promoted, holder,
                     registry, clock, runs, foreign, history>>

RecordScan(s) ==
  LET me == session[s]
  IN  /\ me.at = "scanRecord"
      /\ IF Unchanged(s, me.image)
         THEN WriteManifest(s,
                [me.mem EXCEPT !.images[me.image].scans[me.platform] = me.finding],
                [me EXCEPT !.at = "scan", !.image = None, !.platform = None,
                           !.finding = Blank.finding])
         ELSE End(s) /\ UNCHANGED manifest
      /\ UNCHANGED <<source, files, promoted, registry, clock, runs, foreign, history>>

(* govulncheck writes licence and symbol reports, then records them.       *)
Audit(s) ==
  LET me == session[s]
  IN  /\ me.at = "audit"
      /\ \E c \in me.images :
           IF ~Unchanged(s, c)
           THEN End(s) /\ UNCHANGED <<audits, lastScan, scanned>>
           ELSE \E ok \in BOOLEAN :
                  /\ lastScan' = lastScan + 1
                  /\ audits' = [audits EXCEPT ![me.dir][c] = lastScan + 1]
                  /\ scanned' = scanned \cup
                       {[scan |-> lastScan + 1, digest |-> archive[me.dir][c], platform |-> None, passed |-> ok]}
                  /\ Set(s, [me EXCEPT !.at = "auditRecord", !.image = c, !.images = @ \ {c},
                               !.finding = [scan |-> lastScan + 1, passed |-> ok]])
                  /\ UNCHANGED holder
      /\ UNCHANGED <<source, manifest, archive, reports, sboms, promoted, registry,
                     expired, ages, runs, foreign, origin, advised>>

RecordAudit(s) ==
  LET me == session[s]
  IN  /\ me.at = "auditRecord"
      /\ WriteManifest(s, [me.mem EXCEPT !.images[me.image].audit = me.finding],
                       [me EXCEPT !.at = "audit", !.image = None, !.finding = Blank.finding])
      /\ UNCHANGED <<source, files, promoted, registry, clock, runs, foreign, history>>

-----------------------------------------------------------------------------
(* publish.  All evidence is validated before the registry is touched.     *)
GatesOnFindings(d, c, r) ==
  /\ \A p \in Platforms :
       r.scans[p] # None /\ r.scans[p].passed /\ reports[d][c][p] = r.scans[p].scan
  /\ c \in Audited =>
       r.audit # None /\ audits[d][c] = r.audit.scan

Gates(d, c, r) ==
  /\ \A p \in Platforms :
       r.scans[p] # None /\ r.scans[p].passed /\ reports[d][c][p] = r.scans[p].scan
  /\ c \in Audited =>
       r.audit # None /\ r.audit.passed /\ audits[d][c] = r.audit.scan

Publishable(d) ==
  LET m == manifest[d]
  IN  /\ Loaded(m)
      /\ ~m.dirty /\ tree.text = tree.head /\ m.rev = tree.head
      /\ \A c \in Images :
           /\ m.images[c] # None
           /\ EvidenceOnDisk(d, c, m.images[c])
           /\ Gates(d, c, m.images[c])

(* No scan or audit the gates rely on is too old.                          *)
Current(d) ==
  \A c \in Images :
    /\ \A p \in Platforms : manifest[d].images[c].scans[p].scan > expired
    /\ c \in Audited => manifest[d].images[c].audit.scan > expired

Validate(s) ==
  LET me == session[s]
  IN  /\ me.at = "open" /\ me.cmd = "publish"
      /\ CASE ~Publishable(me.dir) -> End(s) /\ UNCHANGED advised
           [] Publishable(me.dir) /\ ~Current(me.dir) -> End(s) /\ advised' = TRUE
           [] OTHER ->
                /\ Set(s, [me EXCEPT !.at = "lookup", !.mem = manifest[me.dir]])
                /\ UNCHANGED <<holder, advised>>
      /\ UNCHANGED <<source, manifest, files, promoted, registry, clock, runs, foreign, origin, scanned>>

(* preflight_remote_tags looks every tag up before anything is pushed.  A  *)
(* lookup that does not prove absence fails: Interrupted.                  *)
TagAbsent(c) == tag[c] = None

Lookup(s) ==
  LET me == session[s]
  IN  /\ me.at = "lookup" /\ me.images # {}
      /\ \E c \in me.images :
           LET rest == [me EXCEPT !.images = @ \ {c}]
           IN  CASE TagAbsent(c) -> Set(s, rest) /\ UNCHANGED holder
                 [] ~TagAbsent(c) /\ tag[c] = me.mem.images[c].digest ->
                      Set(s, [rest EXCEPT !.existing = @ \cup {c}]) /\ UNCHANGED holder
                 [] OTHER -> End(s)
      /\ UNCHANGED <<source, manifest, files, promoted, registry, clock, runs, foreign, history>>

LookedUp(s) ==
  /\ session[s].at = "lookup" /\ session[s].images = {}
  /\ Set(s, [session[s] EXCEPT !.at = "publish", !.images = Images])
  /\ UNCHANGED <<source, manifest, files, promoted, holder, registry, clock, runs, foreign, history>>

NextImage(s) ==
  LET me == session[s]
  IN  /\ me.at = "publish"
      /\ IF me.images = {}
         THEN Goto(s, "finish")
         ELSE \E c \in me.images :
                Set(s, [me EXCEPT !.at = IF c \in me.existing THEN "recheck" ELSE "push",
                          !.image = c, !.images = @ \ {c}])
      /\ UNCHANGED <<source, manifest, files, promoted, holder, registry, clock, runs, foreign, history>>

(* unpack_layout and crane push.                                           *)
Push(s) ==
  LET me == session[s]
      x == me.mem.images[me.image].digest
  IN  /\ me.at = "push"
      /\ IF archive[me.dir][me.image] = x
         THEN /\ tag' = [tag EXCEPT ![me.image] = x] /\ pushed' = pushed \cup {x}
              /\ Goto(s, "recheck") /\ UNCHANGED holder
         ELSE End(s) /\ UNCHANGED <<tag, pushed>>
      /\ UNCHANGED <<source, manifest, files, promoted, signed, attested, clock,
                     runs, foreign, history>>

(* What is signed is the digest the registry reports.                      *)
TrustRegistry(me) == TRUE
IsScannedArtifact(me) == tag[me.image] = me.mem.images[me.image].digest

Recheck(s) ==
  LET me == session[s]
  IN  /\ me.at = "recheck"
      /\ IF IsScannedArtifact(me)
         THEN Set(s, [me EXCEPT !.at = "sign", !.digest = tag[me.image]]) /\ UNCHANGED holder
         ELSE End(s)
      /\ UNCHANGED <<source, manifest, files, promoted, registry, clock, runs, foreign, history>>

Sign(s) ==
  LET me == session[s]
  IN  /\ me.at = "sign"
      /\ signed' = signed \cup {me.digest}
      /\ Set(s, [me EXCEPT !.at = "attest", !.left = Platforms \cup {None}])
      /\ UNCHANGED <<source, manifest, files, promoted, holder, tag, pushed, attested,
                     clock, runs, foreign, history>>

(* cosign attest reads the SPDX document, or the metadata, from disk.      *)
Attest(s) ==
  LET me == session[s]
      Document(p) == IF p = None THEN 0 ELSE sboms[me.dir][me.image][p]
  IN  /\ me.at = "attest"
      /\ \E p \in me.left :
           /\ attested' = attested \cup {<<me.digest, Document(p)>>}
           /\ Set(s, [me EXCEPT !.left = @ \ {p}, !.at = IF me.left = {p} THEN "verify" ELSE "attest"])
      /\ UNCHANGED <<source, manifest, files, promoted, holder, tag, pushed, signed,
                     clock, runs, foreign, history>>

VerifyPublished(s) ==
  LET me == session[s]
  IN  /\ me.at = "verify"
      /\ IF Verified(me.digest, PolicyOf(me.mem.images[me.image]))
         THEN Goto(s, "publishRecord") /\ UNCHANGED holder
         ELSE End(s)
      /\ UNCHANGED <<source, manifest, files, promoted, registry, clock, runs, foreign, history>>

RecordPublication(s) ==
  LET me == session[s]
      c == me.image
  IN  /\ me.at = "publishRecord"
      /\ WriteManifest(s,
           [me.mem EXCEPT !.images[c].attestations = PolicyOf(me.mem.images[c])],
           [me EXCEPT !.at = "publish", !.image = None, !.digest = None])
      /\ UNCHANGED <<source, files, promoted, registry, clock, runs, foreign, history>>

FinishPublication(s) ==
  LET me == session[s]
  IN  /\ me.at = "finish"
      /\ manifest' \in {[manifest EXCEPT ![me.dir] = m] :
                         m \in {Torn, [me.mem EXCEPT !.verified = TRUE]}}
      /\ End(s)
      /\ UNCHANGED <<source, files, promoted, registry, clock, runs, foreign, history>>

-----------------------------------------------------------------------------
(* promote.                                                                *)
OpenPromote(s) ==
  LET me == session[s]
      m == manifest[me.dir]
  IN  /\ me.at = "open" /\ me.cmd = "promote"
      /\ IF Loaded(m) /\ m.verified /\ \A c \in Images : m.images[c] # None
         THEN Set(s, [me EXCEPT !.at = "promote", !.mem = m]) /\ UNCHANGED holder
         ELSE End(s)
      /\ UNCHANGED <<source, manifest, files, promoted, registry, clock, runs, foreign, history>>

(* The registry must hold the approved digest with the approved evidence,  *)
(* built from the revision of the manifest.                                *)
TrustStatus(d, m, c) == m.verified
Backed(d, m, c) ==
  LET r == m.images[c]
  IN  /\ r.digest \in pushed
      /\ EvidenceOnDisk(d, c, r)
      /\ r.attestations = PolicyOf(r)
      /\ Verified(r.digest, PolicyOf(r))
      /\ origin[r.digest].rev = m.rev

CheckPromotion(s) ==
  LET me == session[s]
  IN  /\ me.at = "promote"
      /\ IF me.images = {}
         THEN Goto(s, "promoteWrite") /\ UNCHANGED holder
         ELSE \E c \in me.images :
                IF Backed(me.dir, me.mem, c)
                THEN Set(s, [me EXCEPT !.images = @ \ {c}]) /\ UNCHANGED holder
                ELSE End(s)
      /\ UNCHANGED <<source, manifest, files, promoted, registry, clock, runs, foreign, history>>

WritePromoted(s) ==
  LET me == session[s]
  IN  /\ me.at = "promoteWrite"
      /\ promoted' = [promoted EXCEPT ![me.dir] = [c \in Images |-> PolicyOf(me.mem.images[c])]]
      /\ End(s)
      /\ UNCHANGED <<source, manifest, files, registry, clock, runs, foreign, history>>

-----------------------------------------------------------------------------
(* The surroundings.  Developers change the source; nobody reverts an edit *)
(* while an image is being built.  Evidence ages.  Other writers may push. *)
ChangeSource ==
  /\ changes < MaxChanges /\ changes' = changes + 1
  /\ \/ tree' = [tree EXCEPT !.text = changes + 1]
     \/ tree.text # tree.head /\ tree' = [tree EXCEPT !.head = tree.text]
     \/ /\ \A s \in Sessions : session[s].at \notin {"buildx", "builtRecord"}
        /\ tree.text # tree.head /\ tree' = [tree EXCEPT !.text = tree.head]
  /\ UNCHANGED <<manifest, files, promoted, holder, registry, clock, session, runs, foreign, history>>

Expire ==
  /\ ages < MaxExpiry /\ ages' = ages + 1
  /\ expired < lastScan /\ expired' = lastScan
  /\ UNCHANGED <<source, manifest, files, promoted, holder, registry, lastScan,
                 session, runs, foreign, history>>

ForeignPush ==
  /\ foreign < MaxForeign /\ foreign' = foreign + 1
  /\ \E c \in Images : tag' = [tag EXCEPT ![c] = Foreign]
  /\ pushed' = pushed \cup {Foreign}
  /\ UNCHANGED <<source, manifest, files, promoted, holder, signed, attested, clock,
                 session, runs, history>>

-----------------------------------------------------------------------------
Work(s) ==
  \/ OpenBuild(s) \/ HashInputs(s) \/ Buildx(s) \/ RecordBuild(s)
  \/ OpenScan(s) \/ Report(s) \/ Sbom(s) \/ RecordScan(s) \/ Audit(s) \/ RecordAudit(s)
  \/ Validate(s) \/ Lookup(s) \/ LookedUp(s) \/ NextImage(s) \/ Push(s) \/ Recheck(s)
  \/ Sign(s) \/ Attest(s) \/ VerifyPublished(s) \/ RecordPublication(s) \/ FinishPublication(s)
  \/ OpenPromote(s) \/ CheckPromotion(s) \/ WritePromoted(s) \/ Done(s)

Next ==
  \/ \E s \in Sessions : Start(s) \/ Acquire(s) \/ Interrupted(s) \/ Work(s)
  \/ ChangeSource \/ Expire \/ ForeignPush

Spec == Init /\ [][Next]_vars

-----------------------------------------------------------------------------
(* Properties.                                                             *)
ImageFiles == [Dirs -> [Images -> Nat]]
ScanFiles == [Dirs -> [Images -> [Platforms -> Nat]]]

TypeOK ==
  /\ tree \in Source /\ changes \in Nat
  /\ manifest \in [Dirs -> Manifest \cup {None, Torn}]
  /\ archive \in ImageFiles /\ audits \in ImageFiles
  /\ reports \in ScanFiles /\ sboms \in ScanFiles
  /\ promoted \in [Dirs -> [Images -> Policy] \cup {None}]
  /\ holder \in [Dirs -> Sessions \cup {None}]
  /\ tag \in [Images -> Digest \cup {None, Foreign}]
  /\ pushed \subseteq Digest \cup {Foreign}
  /\ signed \subseteq Digest \cup {Foreign}
  /\ attested \subseteq (Digest \cup {Foreign}) \X Nat
  /\ lastScan \in Nat /\ expired \in Nat /\ ages \in Nat
  /\ session \in [Sessions -> SessionState]
  /\ runs \in Nat /\ foreign \in Nat
  /\ origin \in Seq([rev : Nat, text : Nat, image : Images])
  /\ scanned \subseteq [scan : Nat, digest : Nat, platform : Platforms \cup {None}, passed : BOOLEAN]
  /\ advised \in BOOLEAN

(* The evidence lock exists so that one build's scan is never associated   *)
(* with another build's archive (evidence_lock): every scan a manifest     *)
(* records was made of the very digest recorded next to it, on that        *)
(* platform and with that outcome, although image, archive and scan are    *)
(* written by different commands that may stop half-way.                   *)
ScansDescribeTheirBuild ==
  \A d \in Dirs, c \in Images, p \in Platforms :
    LET m == manifest[d]
    IN  Loaded(m) /\ m.images[c] # None /\ m.images[c].scans[p] # None =>
          [scan |-> m.images[c].scans[p].scan, digest |-> m.images[c].digest,
           platform |-> p, passed |-> m.images[c].scans[p].passed] \in scanned

(* A command loads release.json once, works for minutes and then writes    *)
(* the whole manifest back.  What it has in memory is always what is on    *)
(* disk, so the record of another command is never overwritten, and none   *)
(* works on a manifest that a kill cut short.  Only a first build, which   *)
(* has recorded nothing yet, finds no manifest.                            *)
LoadedIsCurrent ==
  \A s \in Sessions : session[s].at \notin {"idle", "lock", "open"} =>
    LET m == manifest[Dir(s)]
    IN  \/ Loaded(m) /\ session[s].mem = m
        \/ m = None /\ session[s].cmd = "build" /\ \A c \in Images : session[s].mem.images[c] = None

Passed(x) ==
  /\ x \in DOMAIN origin
  /\ \A p \in Platforms \cup (IF origin[x].image \in Audited THEN {None} ELSE {}) :
       \E e \in scanned : e.digest = x /\ e.platform = p /\ e.passed

(* publish signs only digests that passed a scan of every platform, and    *)
(* for the audited images an audit, even when other writers push to the    *)
(* same tag meanwhile.                                                     *)
OnlyScannedIsSigned == \A x \in signed : Passed(x)

(* A promoted lock is backed by the registry: each digest's content is     *)
(* there, signed, and attested with the build metadata and with the SPDX   *)
(* documents of passed scans of that digest on every platform.             *)
PromotedIsBacked ==
  \A d \in Dirs, c \in Images :
    promoted[d] # None =>
      LET policy == promoted[d][c]
      IN  /\ policy.digest \in pushed \cap signed
          /\ Predicates(policy) \subseteq Attestations(policy.digest)
          /\ \A p \in Platforms :
               [scan |-> policy.spdx[p], digest |-> policy.digest,
                platform |-> p, passed |-> TRUE] \in scanned

(* "Local builds with a dirty source are marked" (docs/supply-chain.md): a *)
(* manifest that is not marked dirty records only images built from the    *)
(* text of its revision.                                                   *)
DirtyBuildsAreMarked ==
  \A d \in Dirs, c \in Images :
    LET m == manifest[d]
    IN  Loaded(m) /\ ~m.dirty /\ m.images[c] # None => origin[m.images[c].digest].text = m.rev

(* publish: "rerun build/scan before publication" when the evidence has    *)
(* become too old.  After that advice, evidence that passes every gate can *)
(* still be published: the registry holds no predicate of these images     *)
(* that the new evidence does not have.                                    *)
RerunAllowsPublication ==
  advised =>
    \A d \in Dirs :
      Publishable(d) /\ Current(d) =>
        \A c \in Images :
          LET r == manifest[d].images[c]
          IN  tag[c] = r.digest => Attestations(r.digest) \subseteq Predicates(PolicyOf(r))

(* The pipeline implements ReleaseLine: a version's tags never move and    *)
(* all its promotions, from whatever evidence directory, are of the images *)
(* under the tags.                                                         *)
Approved == {[c \in Images |-> promoted[d][c].digest] : d \in {e \in Dirs : promoted[e] # None}}

Line == INSTANCE ReleaseLine WITH Digests <- Digest, approved <- Approved

ImplementsReleaseLine == Line!Spec

=============================================================================
