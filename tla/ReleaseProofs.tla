--------------------------- MODULE ReleaseProofs ---------------------------
(***************************************************************************)
(* Proofs about ReleasePipeline, for any processes, directories, images    *)
(* and platforms and without any bound on commands, changes or time.       *)
(***************************************************************************)
EXTENDS ReleasePipeline, TLAPS

(* What is known of builds and scans only grows: o stands for origin and   *)
(* sc for scanned.                                                         *)
PassedIn(x, o, sc) ==
  /\ x \in DOMAIN o
  /\ \A p \in Platforms \cup (IF o[x].image \in Audited THEN {None} ELSE {}) :
       \E e \in sc : e.digest = x /\ e.platform = p /\ e.passed

Looked(f, x, p) == [scan |-> f.scan, digest |-> x, platform |-> p, passed |-> f.passed]

(* An entry of a manifest describes a build of its image and its scans.    *)
GoodImage(c, r, o, sc) ==
  /\ r.digest \in DOMAIN o /\ o[r.digest].image = c
  /\ \A p \in Platforms : r.scans[p] # None => Looked(r.scans[p], r.digest, p) \in sc
  /\ r.audit # None => Looked(r.audit, r.digest, None) \in sc

GoodManifest(m, o, sc) ==
  \A c \in Images : m.images[c] # None => GoodImage(c, m.images[c], o, sc)

Complete(m) == \A c \in Images : m.images[c] # None

AtImage ==
  {"buildx", "builtRecord", "sbom", "scanRecord", "auditRecord",
   "push", "recheck", "sign", "attest", "verify", "publishRecord"}
Publishing ==
  {"lookup", "publish", "push", "recheck", "sign", "attest", "verify", "publishRecord", "finish"}

(* What a process has in hand at each place.                               *)
InHand(st, o, sc) ==
  /\ st.at # "idle" => st.dir \in Dirs
  /\ st.mem # None => GoodManifest(st.mem, o, sc)
  /\ st.at \notin {"idle", "lock", "open"} => st.mem # None
  /\ st.at \in AtImage => st.image \in Images
  /\ st.at \in {"sbom", "scanRecord"} =>
       /\ st.platform \in Platforms /\ st.mem.images[st.image] # None
       /\ Looked(st.finding, st.mem.images[st.image].digest, st.platform) \in sc
  /\ st.at = "auditRecord" =>
       /\ st.mem.images[st.image] # None
       /\ Looked(st.finding, st.mem.images[st.image].digest, None) \in sc
  /\ st.at \in Publishing =>
       Complete(st.mem) /\ \A c \in Images : PassedIn(st.mem.images[c].digest, o, sc)
  /\ st.at \in {"sign", "attest", "verify"} => st.digest = st.mem.images[st.image].digest
  /\ st.at \in {"promote", "promoteWrite"} => Complete(st.mem)

Holds(s) == session[s].at \notin {"idle", "lock"}

SessionsOK == \A s \in Sessions : InHand(session[s], origin, scanned)
ManifestsOK == \A d \in Dirs : Loaded(manifest[d]) => GoodManifest(manifest[d], origin, scanned)
LocksOK == \A s \in Sessions : Holds(s) => holder[session[s].dir] = s
JustBuilt ==
  \A s \in Sessions :
    session[s].at = "builtRecord" => archive[session[s].dir][session[s].image] # 0
ArchivesOK ==
  \A d \in Dirs, c \in Images :
    archive[d][c] # 0 => archive[d][c] \in DOMAIN origin /\ origin[archive[d][c]].image = c
SignedOK == \A x \in signed : PassedIn(x, origin, scanned)

IInv ==
  /\ TypeOK /\ SessionsOK /\ ManifestsOK /\ LocksOK /\ JustBuilt /\ ArchivesOK /\ SignedOK
Grows(o, op, sc, scp) ==
  /\ \A x \in DOMAIN o : x \in DOMAIN op /\ op[x] = o[x]
  /\ sc \subseteq scp

-----------------------------------------------------------------------------
(* More builds and scans take nothing away from what is known.             *)
LEMMA PassedGrows ==
  ASSUME NEW o, NEW op, NEW sc, NEW scp, Grows(o, op, sc, scp), NEW x, PassedIn(x, o, sc)
  PROVE  PassedIn(x, op, scp)
BY DEF Grows, PassedIn

LEMMA GoodGrows ==
  ASSUME NEW o, NEW op, NEW sc, NEW scp, Grows(o, op, sc, scp), NEW m, GoodManifest(m, o, sc)
  PROVE  GoodManifest(m, op, scp)
BY DEF Grows, GoodManifest, GoodImage

LEMMA InHandGrows ==
  ASSUME NEW o, NEW op, NEW sc, NEW scp, Grows(o, op, sc, scp), NEW st, InHand(st, o, sc)
  PROVE  InHand(st, op, scp)
<1>1. st.mem # None => GoodManifest(st.mem, op, scp)
  BY GoodGrows DEF InHand
<1>2. st.at \in Publishing => \A c \in Images : PassedIn(st.mem.images[c].digest, op, scp)
  BY PassedGrows DEF InHand
<1>3. sc \subseteq scp
  BY DEF Grows
<1>. QED
  BY <1>1, <1>2, <1>3 DEF InHand

(* Changing one entry of a manifest.                                       *)
LEMMA ManifestEntry ==
  ASSUME NEW m \in Manifest, NEW c \in Images, NEW r \in Image
  PROVE  /\ [m EXCEPT !.images[c] = r] \in Manifest
         /\ [m EXCEPT !.images[c] = r].images[c] = r
         /\ \A k \in Images : k # c => [m EXCEPT !.images[c] = r].images[k] = m.images[k]
BY DEF Manifest

LEMMA GoodEntry ==
  ASSUME NEW m \in Manifest, NEW c \in Images, NEW r \in Image, NEW o, NEW sc,
         GoodManifest(m, o, sc), GoodImage(c, r, o, sc)
  PROVE  GoodManifest([m EXCEPT !.images[c] = r], o, sc)
BY ManifestEntry DEF GoodManifest

(* The processes that a step of s leaves alone keep what they have: none   *)
(* of their locks is taken and none of their archives replaced.            *)
Apart(s) ==
  /\ \A d \in Dirs, q \in Sessions \ {s} : holder[d] = q => holder'[d] = q
  /\ \A d \in Dirs, c \in Images :
       holder[d] \in Sessions \ {s} => archive'[d][c] = archive[d][c]

LEMMA OneMoves ==
  ASSUME IInv, NEW s \in Sessions, NEW st \in SessionState, Set(s, st),
         InHand(st, origin', scanned'), Grows(origin, origin', scanned, scanned'), Apart(s),
         st.at \notin {"idle", "lock"} => holder'[st.dir] = s,
         st.at = "builtRecord" => archive'[st.dir][st.image] # 0
  PROVE  session' \in [Sessions -> SessionState] /\ SessionsOK' /\ LocksOK' /\ JustBuilt'
<1>1. /\ session \in [Sessions -> SessionState]
      /\ session' = [session EXCEPT ![s] = st]
  BY DEF IInv, TypeOK, Set
<1>2. /\ session' \in [Sessions -> SessionState] /\ session'[s] = st
      /\ \A q \in Sessions \ {s} : session'[q] = session[q]
  BY <1>1
<1>3. SessionsOK'
  <2>1. ASSUME NEW q \in Sessions PROVE InHand(session'[q], origin', scanned')
    BY <1>2, <2>1, InHandGrows DEF IInv, SessionsOK
  <2>. QED
    BY <2>1 DEF SessionsOK
<1>4. LocksOK'
  <2>1. ASSUME NEW q \in Sessions \ {s}, session[q].at \notin {"idle", "lock"}
        PROVE  holder'[session[q].dir] = q
    <3>1. session[q].dir \in Dirs /\ holder[session[q].dir] = q
      BY <2>1 DEF IInv, SessionsOK, InHand, LocksOK, Holds
    <3>. QED
      BY <3>1 DEF Apart
  <2>. QED
    BY <1>2, <2>1 DEF LocksOK, Holds
<1>5. JustBuilt'
  <2>1. ASSUME NEW q \in Sessions \ {s}, session[q].at = "builtRecord"
        PROVE  archive'[session[q].dir][session[q].image] # 0
    <3>1. /\ session[q].dir \in Dirs /\ session[q].image \in Images
          /\ holder[session[q].dir] = q
      BY <2>1 DEF IInv, SessionsOK, InHand, LocksOK, Holds, AtImage
    <3>2. archive[session[q].dir][session[q].image] # 0
      BY <2>1 DEF IInv, JustBuilt
    <3>. QED
      BY <3>1, <3>2 DEF Apart
  <2>. QED
    BY <1>2, <2>1 DEF JustBuilt
<1>. QED
  BY <1>2, <1>3, <1>4, <1>5

LEMMA BlankOK ==
  ASSUME NEW o, NEW sc
  PROVE  Blank \in SessionState /\ InHand(Blank, o, sc) /\ Blank.at = "idle"
<1>1. None \notin Digest
  BY ConstantsAssumption
<1>. QED
  BY <1>1 DEF Blank, SessionState, Locations, Commands, Finding, InHand, AtImage, Publishing

LEMMA ReleaseOK ==
  ASSUME IInv, NEW s \in Sessions
  PROVE  /\ Release(s) \in [Dirs -> Sessions \cup {None}]
         /\ \A d \in Dirs, q \in Sessions \ {s} : holder[d] = q => Release(s)[d] = q
BY DEF IInv, TypeOK, Release

LEMMA OneEnds ==
  ASSUME IInv, NEW s \in Sessions, End(s), Grows(origin, origin', scanned, scanned'),
         \A d \in Dirs, c \in Images :
           holder[d] \in Sessions \ {s} => archive'[d][c] = archive[d][c]
  PROVE  /\ session' \in [Sessions -> SessionState] /\ SessionsOK' /\ LocksOK' /\ JustBuilt'
         /\ holder' \in [Dirs -> Sessions \cup {None}]
<1>1. Set(s, Blank) /\ holder' = Release(s)
  BY DEF End
<1>2. Apart(s) /\ holder' \in [Dirs -> Sessions \cup {None}]
  BY <1>1, ReleaseOK DEF Apart
<1>3. Blank \in SessionState /\ InHand(Blank, origin', scanned') /\ Blank.at = "idle"
  BY BlankOK
<1>. QED
  BY <1>1, <1>2, <1>3, OneMoves

(* Steps that touch nothing but the processes and their locks.             *)
Quiet ==
  /\ UNCHANGED <<tree, changes, manifest, archive, reports, sboms, audits, promoted, tag,
                 pushed, signed, attested, lastScan, expired, ages, foreign, origin, scanned>>
  /\ runs' \in Nat /\ advised' \in BOOLEAN

LEMMA QuietStep ==
  ASSUME IInv, Quiet, session' \in [Sessions -> SessionState], SessionsOK', LocksOK', JustBuilt',
         holder' \in [Dirs -> Sessions \cup {None}]
  PROVE  IInv'
<1>1. TypeOK'
  BY DEF IInv, Quiet, TypeOK
<1>2. ManifestsOK' /\ ArchivesOK' /\ SignedOK'
  BY DEF IInv, Quiet, ManifestsOK, ArchivesOK, SignedOK
<1>. QED
  BY <1>1, <1>2 DEF IInv

LEMMA QuietEnds ==
  ASSUME IInv, NEW s \in Sessions, Quiet, End(s)
  PROVE  IInv'
<1>1. Grows(origin, origin', scanned, scanned') /\ archive' = archive
  BY DEF Quiet, Grows
<1>. QED
  BY <1>1, OneEnds, QuietStep

LEMMA QuietMoves ==
  ASSUME IInv, NEW s \in Sessions, Quiet, NEW st \in SessionState, Set(s, st), holder' = holder,
         InHand(st, origin, scanned),
         st.at \notin {"idle", "lock"} => Holds(s) /\ st.dir = session[s].dir,
         st.at # "builtRecord"
  PROVE  IInv'
<1>1. Grows(origin, origin', scanned, scanned') /\ origin' = origin /\ scanned' = scanned
  BY DEF Quiet, Grows
<1>2. Apart(s)
  BY DEF Quiet, Apart
<1>3. st.at \notin {"idle", "lock"} => holder'[st.dir] = s
  BY DEF IInv, LocksOK
<1>4. holder' \in [Dirs -> Sessions \cup {None}]
  BY DEF IInv, TypeOK
<1>5. InHand(st, origin', scanned')
  BY <1>1
<1>6. session' \in [Sessions -> SessionState] /\ SessionsOK' /\ LocksOK' /\ JustBuilt'
  BY <1>1, <1>2, <1>3, <1>5, OneMoves
<1>. QED
  BY <1>4, <1>6, QuietStep

(* Writing a manifest, whole or torn.                                      *)
LEMMA ManifestSaved ==
  ASSUME IInv, NEW s \in Sessions, Holds(s), NEW m \in Manifest, GoodManifest(m, origin, scanned),
         \/ manifest' = [manifest EXCEPT ![Dir(s)] = m]
         \/ manifest' = [manifest EXCEPT ![Dir(s)] = Torn]
  PROVE  /\ manifest' \in [Dirs -> Manifest \cup {None, Torn}]
         /\ \A d \in Dirs : Loaded(manifest'[d]) => GoodManifest(manifest'[d], origin, scanned)
<1>1. Dir(s) \in Dirs
  BY DEF IInv, SessionsOK, InHand, Holds, Dir
<1>2. /\ manifest \in [Dirs -> Manifest \cup {None, Torn}]
      /\ \A d \in Dirs : Loaded(manifest[d]) => GoodManifest(manifest[d], origin, scanned)
  BY DEF IInv, TypeOK, ManifestsOK
<1>3. ~Loaded(Torn)
  BY DEF Loaded
<1>4. CASE manifest' = [manifest EXCEPT ![Dir(s)] = m]
  <2>1. manifest' \in [Dirs -> Manifest \cup {None, Torn}]
    BY <1>1, <1>2, <1>4
  <2>2. ASSUME NEW d \in Dirs, Loaded(manifest'[d]) PROVE GoodManifest(manifest'[d], origin, scanned)
    <3>1. CASE d = Dir(s)
      BY <1>1, <1>2, <1>4, <3>1
    <3>2. CASE d # Dir(s)
      <4>1. manifest'[d] = manifest[d]
        BY <1>1, <1>2, <1>4, <3>2
      <4>. QED
        BY <4>1, <2>2, <1>2
    <3>. QED
      BY <3>1, <3>2
  <2>. QED
    BY <2>1, <2>2
<1>5. CASE manifest' = [manifest EXCEPT ![Dir(s)] = Torn]
  <2>1. manifest' \in [Dirs -> Manifest \cup {None, Torn}]
    BY <1>1, <1>2, <1>5
  <2>2. ASSUME NEW d \in Dirs, Loaded(manifest'[d]) PROVE GoodManifest(manifest'[d], origin, scanned)
    <3>1. d # Dir(s)
      BY <1>1, <1>2, <1>3, <1>5, <2>2
    <3>2. manifest'[d] = manifest[d]
      BY <1>1, <1>2, <1>5, <3>1
    <3>. QED
      BY <3>2, <2>2, <1>2
  <2>. QED
    BY <2>1, <2>2
<1>. QED
  BY <1>4, <1>5

(* Steps that write a manifest and touch nothing else but their process.   *)
Saving ==
  UNCHANGED <<tree, changes, archive, reports, sboms, audits, promoted, tag, pushed, signed,
              attested, lastScan, expired, ages, runs, foreign, origin, scanned, advised>>

LEMMA SavingStep ==
  ASSUME IInv, Saving, session' \in [Sessions -> SessionState], SessionsOK', LocksOK', JustBuilt',
         holder' \in [Dirs -> Sessions \cup {None}],
         manifest' \in [Dirs -> Manifest \cup {None, Torn}],
         \A d \in Dirs : Loaded(manifest'[d]) => GoodManifest(manifest'[d], origin, scanned)
  PROVE  IInv'
<1>1. TypeOK'
  BY DEF IInv, Saving, TypeOK
<1>2. ManifestsOK' /\ ArchivesOK' /\ SignedOK'
  BY DEF IInv, Saving, ManifestsOK, ArchivesOK, SignedOK
<1>. QED
  BY <1>1, <1>2 DEF IInv

LEMMA Writes ==
  ASSUME IInv, NEW s \in Sessions, Holds(s), Saving, NEW m \in Manifest, NEW st \in SessionState,
         WriteManifest(s, m, st), GoodManifest(m, origin, scanned),
         InHand([st EXCEPT !.mem = m], origin, scanned),
         st.dir = session[s].dir, st.at # "builtRecord"
  PROVE  IInv'
<1>1. /\ manifest' \in [Dirs -> Manifest \cup {None, Torn}]
      /\ \A d \in Dirs : Loaded(manifest'[d]) => GoodManifest(manifest'[d], origin, scanned)
  BY ManifestSaved DEF WriteManifest
<1>2. Grows(origin, origin', scanned, scanned') /\ origin' = origin /\ scanned' = scanned
      /\ archive' = archive
  BY DEF Saving, Grows
<1>3. CASE Set(s, [st EXCEPT !.mem = m]) /\ holder' = holder
  <2>. DEFINE new == [st EXCEPT !.mem = m]
  <2>1. new \in SessionState /\ new.dir = session[s].dir /\ new.at = st.at
    BY DEF SessionState
  <2>2. Apart(s)
    BY <1>2, <1>3 DEF Apart
  <2>3. holder'[new.dir] = s
    BY <1>3, <2>1 DEF IInv, LocksOK
  <2>4. holder' \in [Dirs -> Sessions \cup {None}]
    BY <1>3 DEF IInv, TypeOK
  <2>5. InHand(new, origin', scanned') /\ Set(s, new) /\ new.at # "builtRecord"
    BY <1>2, <1>3, <2>1
  <2>. HIDE DEF new
  <2>6. session' \in [Sessions -> SessionState] /\ SessionsOK' /\ LocksOK' /\ JustBuilt'
    BY <1>2, <2>1, <2>2, <2>3, <2>5, OneMoves
  <2>. QED
    BY <1>1, <2>4, <2>6, SavingStep
<1>4. CASE End(s)
  BY <1>1, <1>2, <1>4, OneEnds, SavingStep
<1>. QED
  BY <1>3, <1>4 DEF WriteManifest

-----------------------------------------------------------------------------
(* One lemma per action.                                                   *)
LEMMA Mine ==
  ASSUME IInv, NEW s \in Sessions
  PROVE  /\ session[s] \in SessionState /\ InHand(session[s], origin, scanned)
         /\ Holds(s) => Dir(s) \in Dirs /\ holder[Dir(s)] = s
         /\ Holds(s) /\ Loaded(manifest[Dir(s)]) =>
              manifest[Dir(s)] \in Manifest /\ GoodManifest(manifest[Dir(s)], origin, scanned)
<1>1. session[s] \in SessionState /\ InHand(session[s], origin, scanned)
  BY DEF IInv, TypeOK, SessionsOK
<1>2. Holds(s) => Dir(s) \in Dirs /\ holder[Dir(s)] = s
  BY <1>1 DEF IInv, LocksOK, Holds, Dir, InHand
<1>3. \A d \in Dirs : manifest[d] \in Manifest \cup {None, Torn}
  BY DEF IInv, TypeOK
<1>. QED
  BY <1>1, <1>2, <1>3 DEF IInv, ManifestsOK, Loaded

LEMMA StartKeeps ==
  ASSUME IInv, NEW s \in Sessions, Start(s)
  PROVE  IInv'
<1>1. Quiet /\ holder' = holder
  BY DEF Start, Quiet, IInv, TypeOK, source, files, registry, clock, history
<1>2. PICK d \in Dirs, cmd \in Commands, cs \in SUBSET Images : Invoke(s, cmd, d, cs)
  BY ConstantsAssumption DEF Start, Commands, Chosen
<1>. DEFINE st == [Blank EXCEPT !.at = "lock", !.cmd = cmd, !.dir = d, !.images = cs]
<1>3. st \in SessionState /\ st.at = "lock" /\ st.dir = d /\ st.mem = None
  BY BlankOK DEF SessionState, Locations, Blank
<1>4. Set(s, st)
  BY <1>2 DEF Invoke
<1>. HIDE DEF st
<1>5. InHand(st, origin, scanned)
  BY <1>3 DEF InHand, AtImage, Publishing
<1>. QED
  BY <1>1, <1>3, <1>4, <1>5, QuietMoves

LEMMA InterruptedKeeps ==
  ASSUME IInv, NEW s \in Sessions, Interrupted(s)
  PROVE  IInv'
<1>1. Quiet /\ End(s)
  BY DEF Interrupted, Quiet, IInv, TypeOK, source, files, registry, clock, history
<1>. QED
  BY <1>1, QuietEnds

LEMMA DoneKeeps ==
  ASSUME IInv, NEW s \in Sessions, Done(s)
  PROVE  IInv'
<1>1. Quiet /\ End(s)
  BY DEF Done, Quiet, IInv, TypeOK, source, files, registry, clock, history
<1>. QED
  BY <1>1, QuietEnds

(* The lock is taken only when no process holds it.                        *)
LEMMA AcquireKeeps ==
  ASSUME IInv, NEW s \in Sessions, Acquire(s)
  PROVE  IInv'
<1>1. Quiet
  BY DEF Acquire, Quiet, IInv, TypeOK, source, files, registry, clock, history
<1>. DEFINE st == [session[s] EXCEPT !.at = "open"]
<1>2. session[s].at = "lock" /\ Set(s, st)
  BY DEF Acquire, Goto
<1>3. session[s] \in SessionState /\ InHand(session[s], origin, scanned)
  BY Mine
<1>4. /\ st \in SessionState /\ st.at = "open" /\ st.dir = session[s].dir
      /\ st.mem = session[s].mem
  BY <1>3 DEF SessionState, Locations
<1>. HIDE DEF st
<1>5. InHand(st, origin, scanned) /\ session[s].dir \in Dirs
  BY <1>2, <1>3, <1>4 DEF InHand, AtImage, Publishing
<1>6. holder[session[s].dir] = None /\ holder' = [holder EXCEPT ![session[s].dir] = s]
  BY DEF Acquire, Unlocked, Dir
<1>7. /\ holder' \in [Dirs -> Sessions \cup {None}] /\ holder'[session[s].dir] = s
      /\ \A d \in Dirs : d # session[s].dir => holder'[d] = holder[d]
  BY <1>5, <1>6 DEF IInv, TypeOK
<1>8. None \notin Sessions
  BY ConstantsAssumption
<1>9. Apart(s)
  BY <1>1, <1>6, <1>7, <1>8 DEF Apart, Quiet
<1>10. Grows(origin, origin', scanned, scanned') /\ InHand(st, origin', scanned')
  BY <1>1, <1>5 DEF Quiet, Grows
<1>11. session' \in [Sessions -> SessionState] /\ SessionsOK' /\ LocksOK' /\ JustBuilt'
  BY <1>2, <1>4, <1>7, <1>9, <1>10, OneMoves
<1>. QED
  BY <1>1, <1>7, <1>11, QuietStep

(* build.                                                                  *)
LEMMA OpenBuildKeeps ==
  ASSUME IInv, NEW s \in Sessions, OpenBuild(s)
  PROVE  IInv'
<1>1. Quiet
  BY DEF OpenBuild, Quiet, IInv, TypeOK, source, files, registry, clock, history
<1>2. session[s].at = "open" /\ Holds(s)
  BY DEF OpenBuild, Holds
<1>3. /\ session[s] \in SessionState /\ InHand(session[s], origin, scanned)
      /\ Loaded(manifest[Dir(s)]) =>
              manifest[Dir(s)] \in Manifest /\ GoodManifest(manifest[Dir(s)], origin, scanned)
  BY <1>2, Mine
<1>4. ASSUME NEW m \in Manifest, GoodManifest(m, origin, scanned),
             Set(s, [session[s] EXCEPT !.at = "build", !.mem = m]), UNCHANGED holder
      PROVE  IInv'
  <2>. DEFINE st == [session[s] EXCEPT !.at = "build", !.mem = m]
  <2>1. st \in SessionState /\ st.at = "build" /\ st.dir = session[s].dir /\ st.mem = m
    BY <1>3 DEF SessionState, Locations
  <2>2. Set(s, st)
    BY <1>4
  <2>. HIDE DEF st
  <2>3. InHand(st, origin, scanned)
    BY <1>2, <1>3, <1>4, <2>1, ConstantsAssumption DEF InHand, AtImage, Publishing
  <2>. QED
    BY <1>1, <1>2, <1>4, <2>1, <2>2, <2>3, QuietMoves
<1>5. NewManifest \in Manifest /\ GoodManifest(NewManifest, origin, scanned)
  <2>1. tree \in Source
    BY DEF IInv, TypeOK
  <2>. QED
    BY <2>1 DEF NewManifest, Manifest, GoodManifest, Source
<1>6. \/ Set(s, [session[s] EXCEPT !.at = "build", !.mem = NewManifest]) /\ UNCHANGED holder
      \/ /\ Loaded(manifest[Dir(s)])
         /\ Set(s, [session[s] EXCEPT !.at = "build", !.mem = manifest[Dir(s)]]) /\ UNCHANGED holder
      \/ End(s)
  BY DEF OpenBuild
<1>. QED
  BY <1>1, <1>3, <1>4, <1>5, <1>6, QuietEnds

LEMMA HashInputsKeeps ==
  ASSUME IInv, NEW s \in Sessions, HashInputs(s)
  PROVE  IInv'
<1>1. Quiet /\ holder' = holder
  BY DEF HashInputs, Quiet, IInv, TypeOK, source, files, registry, clock, history
<1>2. session[s].at = "build" /\ Holds(s)
  BY DEF HashInputs, Holds
<1>3. session[s] \in SessionState /\ InHand(session[s], origin, scanned) /\ tree \in Source
  BY Mine DEF IInv, TypeOK
<1>4. PICK c \in session[s].images :
        Set(s, [session[s] EXCEPT !.at = "buildx", !.image = c, !.inputs = tree.text,
                                  !.images = @ \ {c}])
  BY DEF HashInputs
<1>. DEFINE st == [session[s] EXCEPT !.at = "buildx", !.image = c, !.inputs = tree.text,
                                     !.images = @ \ {c}]
<1>5. /\ st \in SessionState /\ st.at = "buildx" /\ st.image = c /\ c \in Images
      /\ st.dir = session[s].dir /\ st.mem = session[s].mem
  BY <1>3 DEF SessionState, Locations, Source
<1>6. Set(s, st)
  BY <1>4
<1>. HIDE DEF st
<1>7. InHand(st, origin, scanned)
  BY <1>2, <1>3, <1>5 DEF InHand, AtImage, Publishing
<1>. QED
  BY <1>1, <1>2, <1>5, <1>6, <1>7, QuietMoves

(* A new build is known from now on, and is that of the image in hand.     *)
LEMMA BuildxKeeps ==
  ASSUME IInv, NEW s \in Sessions, Buildx(s)
  PROVE  IInv'
<1>. DEFINE me == session[s]
            n == Len(origin) + 1
            e == [rev |-> me.mem.rev, text |-> tree.text, image |-> me.image]
<1>1. me.at = "buildx" /\ Holds(s)
  BY DEF Buildx, Holds
<1>2. /\ me \in SessionState /\ InHand(me, origin, scanned)
      /\ Dir(s) \in Dirs /\ holder[Dir(s)] = s /\ me.dir = Dir(s)
  BY <1>1, Mine DEF Dir
<1>3. me.image \in Images /\ me.mem \in Manifest
  BY <1>1, <1>2 DEF InHand, AtImage, SessionState
<1>4. /\ origin \in Seq([rev : Nat, text : Nat, image : Images]) /\ tree \in Source
      /\ archive \in ImageFiles /\ holder \in [Dirs -> Sessions \cup {None}]
  BY DEF IInv, TypeOK
<1>5. e \in [rev : Nat, text : Nat, image : Images]
  BY <1>3, <1>4 DEF Manifest, Source
<1>6. scanned' = scanned
  BY DEF Buildx
<1>7. CASE /\ origin' = Append(origin, e)
           /\ archive' = [archive EXCEPT ![me.dir][me.image] = n]
           /\ Goto(s, "builtRecord") /\ UNCHANGED holder
  <2>1. /\ origin' \in Seq([rev : Nat, text : Nat, image : Images])
        /\ DOMAIN origin' = DOMAIN origin \cup {n} /\ origin'[n] = e
        /\ \A x \in DOMAIN origin : origin'[x] = origin[x]
        /\ n \in Nat \ {0}
    BY <1>4, <1>5, <1>7
  <2>2. Grows(origin, origin', scanned, scanned')
    BY <1>6, <2>1 DEF Grows
  <2>3. /\ archive' \in ImageFiles /\ archive'[me.dir][me.image] = n
        /\ \A d \in Dirs, c \in Images : d # me.dir \/ c # me.image => archive'[d][c] = archive[d][c]
    BY <1>2, <1>3, <1>4, <1>7, <2>1 DEF ImageFiles
  <2>. DEFINE st == [session[s] EXCEPT !.at = "builtRecord"]
  <2>4. /\ st \in SessionState /\ st.at = "builtRecord" /\ st.dir = me.dir /\ st.image = me.image
        /\ st.mem = me.mem
    BY <1>2 DEF SessionState, Locations
  <2>5. Set(s, st)
    BY <1>7 DEF Goto
  <2>. HIDE DEF st
  <2>6. InHand(st, origin, scanned)
    BY <1>1, <1>2, <1>3, <2>4 DEF InHand, AtImage, Publishing
  <2>7. InHand(st, origin', scanned')
    BY <2>2, <2>6, InHandGrows
  <2>8. Apart(s)
    BY <1>2, <1>7, <2>3 DEF Apart
  <2>9. archive'[st.dir][st.image] # 0 /\ holder'[st.dir] = s
    BY <1>2, <1>7, <2>1, <2>3, <2>4
  <2>10. session' \in [Sessions -> SessionState] /\ SessionsOK' /\ LocksOK' /\ JustBuilt'
    BY <2>2, <2>4, <2>5, <2>7, <2>8, <2>9, OneMoves
  <2>11. ArchivesOK'
    <3>1. ASSUME NEW d \in Dirs, NEW c \in Images, archive'[d][c] # 0
          PROVE  archive'[d][c] \in DOMAIN origin' /\ origin'[archive'[d][c]].image = c
      <4>1. CASE d = me.dir /\ c = me.image
        BY <2>1, <2>3, <4>1
      <4>2. CASE d # me.dir \/ c # me.image
        BY <2>1, <2>3, <3>1, <4>2 DEF IInv, ArchivesOK
      <4>. QED
        BY <4>1, <4>2
    <3>. QED
      BY <3>1 DEF ArchivesOK
  <2>12. ManifestsOK'
    BY <2>2, GoodGrows DEF IInv, ManifestsOK, Buildx
  <2>13. SignedOK'
    BY <2>2, PassedGrows DEF IInv, SignedOK, Buildx, registry
  <2>14. TypeOK'
    BY <1>7, <2>1, <2>3, <2>10 DEF IInv, TypeOK, Buildx, source, registry, clock
  <2>. QED
    BY <2>10, <2>11, <2>12, <2>13, <2>14 DEF IInv
<1>8. CASE /\ archive' = [archive EXCEPT ![me.dir][me.image] = 0]
           /\ End(s) /\ UNCHANGED origin
  <2>1. /\ archive' \in ImageFiles /\ archive'[me.dir][me.image] = 0
        /\ \A d \in Dirs, c \in Images : d # me.dir \/ c # me.image => archive'[d][c] = archive[d][c]
    BY <1>2, <1>3, <1>4, <1>8 DEF ImageFiles
  <2>2. Grows(origin, origin', scanned, scanned')
    BY <1>6, <1>8 DEF Grows
  <2>3. \A d \in Dirs, c \in Images :
           holder[d] \in Sessions \ {s} => archive'[d][c] = archive[d][c]
    BY <1>2, <2>1
  <2>4. /\ session' \in [Sessions -> SessionState] /\ SessionsOK' /\ LocksOK' /\ JustBuilt'
        /\ holder' \in [Dirs -> Sessions \cup {None}]
    BY <1>8, <2>2, <2>3, OneEnds
  <2>5. ArchivesOK'
    BY <1>8, <2>1 DEF IInv, ArchivesOK
  <2>6. ManifestsOK' /\ SignedOK'
    BY <1>6, <1>8 DEF IInv, ManifestsOK, SignedOK, Buildx, registry
  <2>7. TypeOK'
    BY <1>8, <2>1, <2>4 DEF IInv, TypeOK, Buildx, source, registry, clock
  <2>. QED
    BY <2>4, <2>5, <2>6, <2>7 DEF IInv
<1>. QED
  BY <1>7, <1>8 DEF Buildx, BuildFailed

(* scan, govulncheck and the gates of publish.                             *)
LEMMA OpenScanKeeps ==
  ASSUME IInv, NEW s \in Sessions, OpenScan(s)
  PROVE  IInv'
<1>1. Quiet
  BY DEF OpenScan, Quiet, IInv, TypeOK, source, files, registry, clock, history
<1>2. session[s].at = "open" /\ Holds(s)
  BY DEF OpenScan, Holds
<1>. DEFINE m == manifest[Dir(s)]
            loc == IF session[s].cmd = "scan" THEN "scan" ELSE "audit"
            prs == IF session[s].cmd = "scan" THEN session[s].images \X Platforms ELSE {}
            st == [session[s] EXCEPT !.at = loc, !.mem = m, !.pairs = prs]
<1>3. /\ session[s] \in SessionState /\ InHand(session[s], origin, scanned)
      /\ Loaded(m) => m \in Manifest /\ GoodManifest(m, origin, scanned)
  BY <1>2, Mine
<1>4. CASE Loaded(m) /\ Set(s, st) /\ UNCHANGED holder
  <2>1. /\ st \in SessionState /\ st.at \in {"scan", "audit"} /\ st.dir = session[s].dir
        /\ st.mem = m
    <3>1. loc \in {"scan", "audit"} /\ prs \in SUBSET (Images \X Platforms)
      BY <1>3 DEF SessionState
    <3>. HIDE DEF loc, prs
    <3>. QED
      BY <1>3, <1>4, <3>1 DEF SessionState, Locations
  <2>2. Set(s, st)
    BY <1>4
  <2>. HIDE DEF st
  <2>3. InHand(st, origin, scanned)
    BY <1>2, <1>3, <1>4, <2>1 DEF InHand, AtImage, Publishing, Loaded
  <2>. QED
    BY <1>1, <1>2, <1>4, <2>1, <2>2, <2>3, QuietMoves
<1>5. CASE End(s)
  BY <1>1, <1>5, QuietEnds
<1>. QED
  BY <1>4, <1>5 DEF OpenScan, Dir

(* What passes the gates is complete and passed its scans and audit.       *)
LEMMA PublishablePassed ==
  ASSUME IInv, NEW d \in Dirs, Publishable(d)
  PROVE  /\ Complete(manifest[d])
         /\ \A c \in Images : PassedIn(manifest[d].images[c].digest, origin, scanned)
<1>. DEFINE m == manifest[d]
<1>1. Loaded(m) /\ Complete(m) /\ GoodManifest(m, origin, scanned)
  BY DEF Publishable, Complete, IInv, ManifestsOK
<1>2. ASSUME NEW c \in Images PROVE PassedIn(m.images[c].digest, origin, scanned)
  <2>. DEFINE r == m.images[c]
  <2>1. Gates(d, c, r) /\ GoodImage(c, r, origin, scanned)
    BY <1>1 DEF Publishable, GoodManifest, Complete
  <2>2. \A p \in Platforms : Looked(r.scans[p], r.digest, p) \in scanned /\ r.scans[p].passed
    BY <2>1 DEF Gates, GoodImage
  <2>3. c \in Audited => Looked(r.audit, r.digest, None) \in scanned /\ r.audit.passed
    BY <2>1 DEF Gates, GoodImage
  <2>4. r.digest \in DOMAIN origin /\ origin[r.digest].image = c
    BY <2>1 DEF GoodImage
  <2>. HIDE DEF r
  <2>5. \A p \in Platforms \cup (IF c \in Audited THEN {None} ELSE {}) :
          \E e \in scanned : e.digest = r.digest /\ e.platform = p /\ e.passed
    BY <2>2, <2>3 DEF Looked
  <2>. QED
    BY <2>4, <2>5 DEF PassedIn, r
<1>. QED
  BY <1>1, <1>2

LEMMA ValidateKeeps ==
  ASSUME IInv, NEW s \in Sessions, Validate(s)
  PROVE  IInv'
<1>1. Quiet
  <2>1. advised' \in BOOLEAN /\ UNCHANGED <<origin, scanned, runs>>
    BY DEF Validate, IInv, TypeOK
  <2>. QED
    BY <2>1 DEF Validate, Quiet, IInv, TypeOK, source, files, registry, clock
<1>2. session[s].at = "open" /\ Holds(s)
  BY DEF Validate, Holds
<1>. DEFINE m == manifest[Dir(s)]
            st == [session[s] EXCEPT !.at = "lookup", !.mem = m]
<1>3. /\ session[s] \in SessionState /\ InHand(session[s], origin, scanned) /\ Dir(s) \in Dirs
      /\ Loaded(m) => m \in Manifest /\ GoodManifest(m, origin, scanned)
  BY <1>2, Mine
<1>4. CASE Publishable(Dir(s)) /\ Set(s, st) /\ UNCHANGED holder
  <2>1. /\ Loaded(m) /\ Complete(m)
        /\ \A c \in Images : PassedIn(m.images[c].digest, origin, scanned)
    BY <1>3, <1>4, PublishablePassed DEF Publishable
  <2>2. st \in SessionState /\ st.at = "lookup" /\ st.dir = session[s].dir /\ st.mem = m
    BY <1>3, <2>1 DEF SessionState, Locations
  <2>3. Set(s, st)
    BY <1>4
  <2>. HIDE DEF st
  <2>4. InHand(st, origin, scanned)
    BY <1>2, <1>3, <2>1, <2>2 DEF InHand, AtImage, Publishing, Loaded
  <2>. QED
    BY <1>1, <1>2, <1>4, <2>2, <2>3, <2>4, QuietMoves
<1>5. CASE End(s)
  BY <1>1, <1>5, QuietEnds
<1>. QED
  BY <1>4, <1>5 DEF Validate, Dir

(* publish and promote while they only look things up.                     *)
LEMMA LookupKeeps ==
  ASSUME IInv, NEW s \in Sessions, Lookup(s)
  PROVE  IInv'
<1>1. Quiet
  BY DEF Lookup, Quiet, IInv, TypeOK, source, files, registry, clock, history
<1>2. session[s].at = "lookup" /\ Holds(s)
  BY DEF Lookup, Holds
<1>3. session[s] \in SessionState /\ InHand(session[s], origin, scanned)
  BY Mine
<1>4. ASSUME NEW I \in SUBSET Images, NEW E \in SUBSET Images, UNCHANGED holder,
             Set(s, [session[s] EXCEPT !.images = I, !.existing = E])
      PROVE  IInv'
  <2>. DEFINE st == [session[s] EXCEPT !.images = I, !.existing = E]
  <2>1. /\ st \in SessionState /\ st.at = "lookup" /\ st.dir = session[s].dir
        /\ st.mem = session[s].mem
    BY <1>2, <1>3 DEF SessionState
  <2>2. Set(s, st)
    BY <1>4
  <2>. HIDE DEF st
  <2>3. InHand(st, origin, scanned)
    BY <1>2, <1>3, <2>1 DEF InHand, AtImage, Publishing
  <2>. QED
    BY <1>1, <1>2, <1>4, <2>1, <2>2, <2>3, QuietMoves
<1>5. session[s].images \in SUBSET Images /\ session[s].existing \in SUBSET Images
  BY <1>3 DEF SessionState
<1>6. PICK c \in session[s].images :
        LET rest == [session[s] EXCEPT !.images = @ \ {c}]
        IN  \/ Set(s, rest) /\ UNCHANGED holder
            \/ Set(s, [rest EXCEPT !.existing = @ \cup {c}]) /\ UNCHANGED holder
            \/ End(s)
  BY DEF Lookup
<1>7. c \in Images
  BY <1>5
<1>8. CASE Set(s, [session[s] EXCEPT !.images = @ \ {c}]) /\ UNCHANGED holder
  <2>1. [session[s] EXCEPT !.images = @ \ {c}] =
          [session[s] EXCEPT !.images = session[s].images \ {c}, !.existing = session[s].existing]
    BY <1>3 DEF SessionState
  <2>. QED
    BY <1>4, <1>5, <1>8, <2>1
<1>9. CASE Set(s, [[session[s] EXCEPT !.images = @ \ {c}] EXCEPT !.existing = @ \cup {c}])
           /\ UNCHANGED holder
  <2>1. [[session[s] EXCEPT !.images = @ \ {c}] EXCEPT !.existing = @ \cup {c}] =
          [session[s] EXCEPT !.images = session[s].images \ {c},
                             !.existing = session[s].existing \cup {c}]
    BY <1>3 DEF SessionState
  <2>. DEFINE I == session[s].images \ {c}
              E == session[s].existing \cup {c}
  <2>2. I \in SUBSET Images /\ E \in SUBSET Images
    BY <1>5, <1>7
  <2>3. Set(s, [session[s] EXCEPT !.images = I, !.existing = E])
    BY <1>9, <2>1
  <2>. HIDE DEF I, E
  <2>. QED
    BY <1>4, <1>9, <2>2, <2>3
<1>10. CASE End(s)
  BY <1>1, <1>10, QuietEnds
<1>. QED
  BY <1>6, <1>8, <1>9, <1>10

LEMMA LookedUpKeeps ==
  ASSUME IInv, NEW s \in Sessions, LookedUp(s)
  PROVE  IInv'
<1>1. Quiet /\ holder' = holder
  BY DEF LookedUp, Quiet, IInv, TypeOK, source, files, registry, clock, history
<1>2. session[s].at = "lookup" /\ Holds(s)
  BY DEF LookedUp, Holds
<1>3. session[s] \in SessionState /\ InHand(session[s], origin, scanned)
  BY Mine
<1>. DEFINE st == [session[s] EXCEPT !.at = "publish", !.images = Images]
<1>4. /\ st \in SessionState /\ st.at = "publish" /\ st.dir = session[s].dir
      /\ st.mem = session[s].mem
  BY <1>3 DEF SessionState, Locations
<1>5. Set(s, st)
  BY DEF LookedUp
<1>. HIDE DEF st
<1>6. InHand(st, origin, scanned)
  BY <1>2, <1>3, <1>4 DEF InHand, AtImage, Publishing
<1>. QED
  BY <1>1, <1>2, <1>4, <1>5, <1>6, QuietMoves

LEMMA NextImageKeeps ==
  ASSUME IInv, NEW s \in Sessions, NextImage(s)
  PROVE  IInv'
<1>1. Quiet /\ holder' = holder
  BY DEF NextImage, Quiet, IInv, TypeOK, source, files, registry, clock, history
<1>2. session[s].at = "publish" /\ Holds(s)
  BY DEF NextImage, Holds
<1>3. session[s] \in SessionState /\ InHand(session[s], origin, scanned)
  BY Mine
<1>4. CASE Goto(s, "finish")
  <2>. DEFINE st == [session[s] EXCEPT !.at = "finish"]
  <2>1. /\ st \in SessionState /\ st.at = "finish" /\ st.dir = session[s].dir
        /\ st.mem = session[s].mem
    BY <1>3 DEF SessionState, Locations
  <2>2. Set(s, st)
    BY <1>4 DEF Goto
  <2>. HIDE DEF st
  <2>3. InHand(st, origin, scanned)
    BY <1>2, <1>3, <2>1 DEF InHand, AtImage, Publishing
  <2>. QED
    BY <1>1, <1>2, <2>1, <2>2, <2>3, QuietMoves
<1>5. CASE \E c \in session[s].images :
             Set(s, [session[s] EXCEPT !.at = IF c \in session[s].existing THEN "recheck" ELSE "push",
                       !.image = c, !.images = @ \ {c}])
  <2>1. PICK c \in session[s].images :
             Set(s, [session[s] EXCEPT !.at = IF c \in session[s].existing THEN "recheck" ELSE "push",
                       !.image = c, !.images = @ \ {c}])
    BY <1>5
  <2>. DEFINE loc == IF c \in session[s].existing THEN "recheck" ELSE "push"
              st == [session[s] EXCEPT !.at = loc, !.image = c, !.images = @ \ {c}]
  <2>2. loc \in {"recheck", "push"}
    OBVIOUS
  <2>3. Set(s, st)
    BY <2>1
  <2>. HIDE DEF loc
  <2>4. /\ st \in SessionState /\ st.at \in {"recheck", "push"} /\ st.dir = session[s].dir
        /\ st.mem = session[s].mem /\ st.image \in Images
    BY <1>3, <2>2 DEF SessionState, Locations
  <2>. HIDE DEF st
  <2>5. InHand(st, origin, scanned)
    BY <1>2, <1>3, <2>4 DEF InHand, AtImage, Publishing
  <2>. QED
    BY <1>1, <1>2, <2>3, <2>4, <2>5, QuietMoves
<1>. QED
  BY <1>4, <1>5 DEF NextImage

(* What the registry has under the tag is signed only when it is the digest*)
(* of the manifest.                                                        *)
LEMMA RecheckKeeps ==
  ASSUME IInv, NEW s \in Sessions, Recheck(s)
  PROVE  IInv'
<1>1. Quiet
  BY DEF Recheck, Quiet, IInv, TypeOK, source, files, registry, clock, history
<1>2. session[s].at = "recheck" /\ Holds(s)
  BY DEF Recheck, Holds
<1>3. session[s] \in SessionState /\ InHand(session[s], origin, scanned)
  BY Mine
<1>4. session[s].image \in Images
  BY <1>2, <1>3 DEF InHand, AtImage
<1>. DEFINE x == tag[session[s].image]
            st == [session[s] EXCEPT !.at = "sign", !.digest = x]
<1>5. CASE IsScannedArtifact(session[s]) /\ Set(s, st) /\ UNCHANGED holder
  <2>1. x \in Digest \cup {None, Foreign}
    BY <1>4 DEF IInv, TypeOK
  <2>2. /\ st \in SessionState /\ st.at = "sign" /\ st.dir = session[s].dir
        /\ st.mem = session[s].mem /\ st.image = session[s].image
        /\ st.digest = session[s].mem.images[session[s].image].digest
    BY <1>3, <1>5, <2>1 DEF SessionState, Locations, IsScannedArtifact
  <2>3. Set(s, st)
    BY <1>5
  <2>. HIDE DEF st
  <2>4. InHand(st, origin, scanned)
    BY <1>2, <1>3, <1>4, <2>2 DEF InHand, AtImage, Publishing
  <2>. QED
    BY <1>1, <1>2, <1>5, <2>2, <2>3, <2>4, QuietMoves
<1>6. CASE End(s)
  BY <1>1, <1>6, QuietEnds
<1>. QED
  BY <1>5, <1>6 DEF Recheck

LEMMA VerifyPublishedKeeps ==
  ASSUME IInv, NEW s \in Sessions, VerifyPublished(s)
  PROVE  IInv'
<1>1. Quiet
  BY DEF VerifyPublished, Quiet, IInv, TypeOK, source, files, registry, clock, history
<1>2. session[s].at = "verify" /\ Holds(s)
  BY DEF VerifyPublished, Holds
<1>3. session[s] \in SessionState /\ InHand(session[s], origin, scanned)
  BY Mine
<1>4. CASE Goto(s, "publishRecord") /\ UNCHANGED holder
  <2>. DEFINE st == [session[s] EXCEPT !.at = "publishRecord"]
  <2>1. /\ st \in SessionState /\ st.at = "publishRecord" /\ st.dir = session[s].dir
        /\ st.mem = session[s].mem /\ st.image = session[s].image
    BY <1>3 DEF SessionState, Locations
  <2>2. Set(s, st)
    BY <1>4 DEF Goto
  <2>. HIDE DEF st
  <2>3. InHand(st, origin, scanned)
    BY <1>2, <1>3, <2>1 DEF InHand, AtImage, Publishing
  <2>. QED
    BY <1>1, <1>2, <1>4, <2>1, <2>2, <2>3, QuietMoves
<1>5. CASE End(s)
  BY <1>1, <1>5, QuietEnds
<1>. QED
  BY <1>4, <1>5 DEF VerifyPublished

LEMMA OpenPromoteKeeps ==
  ASSUME IInv, NEW s \in Sessions, OpenPromote(s)
  PROVE  IInv'
<1>1. Quiet
  BY DEF OpenPromote, Quiet, IInv, TypeOK, source, files, registry, clock, history
<1>2. session[s].at = "open" /\ Holds(s)
  BY DEF OpenPromote, Holds
<1>. DEFINE m == manifest[Dir(s)]
            st == [session[s] EXCEPT !.at = "promote", !.mem = m]
<1>3. /\ session[s] \in SessionState /\ InHand(session[s], origin, scanned)
      /\ Loaded(m) => m \in Manifest /\ GoodManifest(m, origin, scanned)
  BY <1>2, Mine
<1>4. CASE Loaded(m) /\ Complete(m) /\ Set(s, st) /\ UNCHANGED holder
  <2>1. st \in SessionState /\ st.at = "promote" /\ st.dir = session[s].dir /\ st.mem = m
    BY <1>3, <1>4 DEF SessionState, Locations
  <2>2. Set(s, st)
    BY <1>4
  <2>. HIDE DEF st
  <2>3. InHand(st, origin, scanned)
    BY <1>2, <1>3, <1>4, <2>1 DEF InHand, AtImage, Publishing, Loaded
  <2>. QED
    BY <1>1, <1>2, <1>4, <2>1, <2>2, <2>3, QuietMoves
<1>5. CASE End(s)
  BY <1>1, <1>5, QuietEnds
<1>. QED
  BY <1>4, <1>5 DEF OpenPromote, Dir, Complete

LEMMA CheckPromotionKeeps ==
  ASSUME IInv, NEW s \in Sessions, CheckPromotion(s)
  PROVE  IInv'
<1>1. Quiet
  BY DEF CheckPromotion, Quiet, IInv, TypeOK, source, files, registry, clock, history
<1>2. session[s].at = "promote" /\ Holds(s)
  BY DEF CheckPromotion, Holds
<1>3. session[s] \in SessionState /\ InHand(session[s], origin, scanned)
  BY Mine
<1>4. ASSUME NEW loc \in {"promote", "promoteWrite"}, NEW I \in SUBSET Images, UNCHANGED holder,
             Set(s, [session[s] EXCEPT !.at = loc, !.images = I])
      PROVE  IInv'
  <2>. DEFINE st == [session[s] EXCEPT !.at = loc, !.images = I]
  <2>1. /\ st \in SessionState /\ st.at = loc /\ st.dir = session[s].dir
        /\ st.mem = session[s].mem
    BY <1>3 DEF SessionState, Locations
  <2>2. Set(s, st)
    BY <1>4
  <2>. HIDE DEF st
  <2>3. InHand(st, origin, scanned)
    BY <1>2, <1>3, <2>1 DEF InHand, AtImage, Publishing
  <2>. QED
    BY <1>1, <1>2, <1>4, <2>1, <2>2, <2>3, QuietMoves
<1>5. session[s].images \in SUBSET Images
  BY <1>3 DEF SessionState
<1>6. CASE Goto(s, "promoteWrite") /\ UNCHANGED holder
  <2>1. [session[s] EXCEPT !.at = "promoteWrite"] =
          [session[s] EXCEPT !.at = "promoteWrite", !.images = session[s].images]
    BY <1>3 DEF SessionState
  <2>. QED
    BY <1>4, <1>5, <1>6, <2>1 DEF Goto
<1>7. ASSUME NEW c \in session[s].images,
             Set(s, [session[s] EXCEPT !.images = @ \ {c}]), UNCHANGED holder
      PROVE  IInv'
  <2>1. [session[s] EXCEPT !.images = @ \ {c}] =
          [session[s] EXCEPT !.at = "promote", !.images = session[s].images \ {c}]
    BY <1>2, <1>3 DEF SessionState
  <2>. QED
    BY <1>4, <1>5, <1>7, <2>1
<1>8. CASE End(s)
  BY <1>1, <1>8, QuietEnds
<1>. QED
  BY <1>6, <1>7, <1>8 DEF CheckPromotion

(* The commands that record what they did in the manifest.                 *)
LEMMA RecordBuildKeeps ==
  ASSUME IInv, NEW s \in Sessions, RecordBuild(s)
  PROVE  IInv'
<1>. DEFINE me == session[s]
            c == me.image
            r == BuiltImage(me.mem, c, archive[me.dir][c], me.inputs)
            m == [me.mem EXCEPT !.images[c] = r]
            st == [me EXCEPT !.at = "build", !.image = None, !.inputs = Blank.inputs]
            new == [st EXCEPT !.mem = m]
<1>1. me.at = "builtRecord" /\ Holds(s)
  BY DEF RecordBuild, Holds
<1>2. /\ me \in SessionState /\ InHand(me, origin, scanned) /\ me.dir \in Dirs
      /\ me.mem \in Manifest /\ GoodManifest(me.mem, origin, scanned) /\ c \in Images
  BY <1>1, Mine DEF InHand, AtImage, Dir, SessionState
<1>3. CASE End(s) /\ UNCHANGED manifest
  <2>1. Quiet
    BY <1>3 DEF RecordBuild, Quiet, IInv, TypeOK, source, files, registry, clock, history
  <2>. QED
    BY <1>3, <2>1, QuietEnds
<1>4. CASE WriteManifest(s, m, st)
  <2>1. Saving
    BY DEF RecordBuild, Saving, source, files, registry, clock, history
  <2>2. /\ archive[me.dir][c] \in Digest /\ archive[me.dir][c] \in DOMAIN origin
        /\ origin[archive[me.dir][c]].image = c
    BY <1>1, <1>2 DEF IInv, TypeOK, JustBuilt, ArchivesOK, ImageFiles, Digest
  <2>3. r \in Image /\ GoodImage(c, r, origin, scanned)
    BY <1>2, <2>2 DEF BuiltImage, Image, GoodImage, SessionState
  <2>. HIDE DEF r
  <2>4. m \in Manifest /\ GoodManifest(m, origin, scanned)
    BY <1>2, <2>3, ManifestEntry, GoodEntry
  <2>. HIDE DEF m
  <2>5. st \in SessionState /\ st.dir = session[s].dir /\ st.at = "build"
    BY <1>2 DEF SessionState, Locations, Blank
  <2>6. new.at = "build" /\ new.dir = me.dir /\ new.mem = m
    BY <1>2 DEF SessionState
  <2>. HIDE DEF new
  <2>7. InHand(new, origin, scanned)
    BY <1>2, <2>4, <2>6, ConstantsAssumption DEF InHand, AtImage, Publishing
  <2>. HIDE DEF st
  <2>. QED
    BY <1>1, <1>4, <2>1, <2>4, <2>5, <2>7, Writes DEF new
<1>. QED
  BY <1>3, <1>4 DEF RecordBuild

LEMMA RecordScanKeeps ==
  ASSUME IInv, NEW s \in Sessions, RecordScan(s)
  PROVE  IInv'
<1>. DEFINE me == session[s]
            c == me.image
            p == me.platform
            old == me.mem.images[c]
            r == [old EXCEPT !.scans[p] = me.finding]
            m == [me.mem EXCEPT !.images[c] = r]
            st == [me EXCEPT !.at = "scan", !.image = None, !.platform = None,
                             !.finding = Blank.finding]
            new == [st EXCEPT !.mem = m]
<1>1. me.at = "scanRecord" /\ Holds(s)
  BY DEF RecordScan, Holds
<1>2. /\ me \in SessionState /\ InHand(me, origin, scanned) /\ me.dir \in Dirs
      /\ me.mem \in Manifest /\ GoodManifest(me.mem, origin, scanned) /\ c \in Images
      /\ p \in Platforms /\ old # None /\ Looked(me.finding, old.digest, p) \in scanned
  BY <1>1, Mine DEF InHand, AtImage, Dir, SessionState
<1>3. CASE End(s) /\ UNCHANGED manifest
  <2>1. Quiet
    BY <1>3 DEF RecordScan, Quiet, IInv, TypeOK, source, files, registry, clock, history
  <2>. QED
    BY <1>3, <2>1, QuietEnds
<1>4. CASE WriteManifest(s, [me.mem EXCEPT !.images[c].scans[p] = me.finding], st)
  <2>1. Saving
    BY DEF RecordScan, Saving, source, files, registry, clock, history
  <2>2. old \in Image /\ GoodImage(c, old, origin, scanned) /\ me.finding \in Finding
    BY <1>2 DEF Manifest, GoodManifest, SessionState
  <2>3. /\ r \in Image /\ r.digest = old.digest /\ r.audit = old.audit
        /\ r.scans[p] = me.finding /\ \A k \in Platforms : k # p => r.scans[k] = old.scans[k]
    BY <1>2, <2>2 DEF Image
  <2>4. [me.mem EXCEPT !.images[c].scans[p] = me.finding] = m
    BY <1>2 DEF Manifest
  <2>. HIDE DEF r
  <2>5. GoodImage(c, r, origin, scanned)
    BY <1>2, <2>2, <2>3 DEF GoodImage
  <2>6. m \in Manifest /\ GoodManifest(m, origin, scanned)
    BY <1>2, <2>3, <2>5, ManifestEntry, GoodEntry
  <2>7. WriteManifest(s, m, st)
    BY <1>4, <2>4
  <2>. HIDE DEF m
  <2>8. st \in SessionState /\ st.dir = session[s].dir /\ st.at = "scan"
    BY <1>2 DEF SessionState, Locations, Blank, Finding
  <2>9. new.at = "scan" /\ new.dir = me.dir /\ new.mem = m
    BY <1>2 DEF SessionState
  <2>. HIDE DEF new
  <2>10. InHand(new, origin, scanned)
    BY <1>2, <2>6, <2>9, ConstantsAssumption DEF InHand, AtImage, Publishing
  <2>. HIDE DEF st
  <2>. QED
    BY <1>1, <2>1, <2>6, <2>7, <2>8, <2>10, Writes DEF new
<1>. QED
  BY <1>3, <1>4 DEF RecordScan

LEMMA RecordAuditKeeps ==
  ASSUME IInv, NEW s \in Sessions, RecordAudit(s)
  PROVE  IInv'
<1>. DEFINE me == session[s]
            c == me.image
            old == me.mem.images[c]
            r == [old EXCEPT !.audit = me.finding]
            m == [me.mem EXCEPT !.images[c] = r]
            st == [me EXCEPT !.at = "audit", !.image = None, !.finding = Blank.finding]
            new == [st EXCEPT !.mem = m]
<1>1. me.at = "auditRecord" /\ Holds(s)
  BY DEF RecordAudit, Holds
<1>2. /\ me \in SessionState /\ InHand(me, origin, scanned) /\ me.dir \in Dirs
      /\ me.mem \in Manifest /\ GoodManifest(me.mem, origin, scanned) /\ c \in Images
      /\ old # None /\ Looked(me.finding, old.digest, None) \in scanned
  BY <1>1, Mine DEF InHand, AtImage, Dir, SessionState
<1>3. Saving
  BY DEF RecordAudit, Saving, source, files, registry, clock, history
<1>4. old \in Image /\ GoodImage(c, old, origin, scanned) /\ me.finding \in Finding
  BY <1>2 DEF Manifest, GoodManifest, SessionState
<1>5. r \in Image /\ r.digest = old.digest /\ r.audit = me.finding /\ r.scans = old.scans
  BY <1>4 DEF Image
<1>6. [me.mem EXCEPT !.images[c].audit = me.finding] = m
  BY <1>2 DEF Manifest
<1>. HIDE DEF r
<1>7. GoodImage(c, r, origin, scanned)
  BY <1>2, <1>4, <1>5 DEF GoodImage
<1>8. m \in Manifest /\ GoodManifest(m, origin, scanned)
  BY <1>2, <1>5, <1>7, ManifestEntry, GoodEntry
<1>9. WriteManifest(s, m, st)
  BY <1>6 DEF RecordAudit
<1>. HIDE DEF m
<1>10. st \in SessionState /\ st.dir = session[s].dir /\ st.at = "audit"
  BY <1>2 DEF SessionState, Locations, Blank, Finding
<1>11. new.at = "audit" /\ new.dir = me.dir /\ new.mem = m
  BY <1>2 DEF SessionState
<1>. HIDE DEF new
<1>12. InHand(new, origin, scanned)
  BY <1>2, <1>8, <1>11, ConstantsAssumption DEF InHand, AtImage, Publishing
<1>. HIDE DEF st
<1>. QED
  BY <1>1, <1>3, <1>8, <1>9, <1>10, <1>12, Writes DEF new

LEMMA PolicyType ==
  ASSUME NEW r \in Image
  PROVE  PolicyOf(r) \in Policy
<1>1. ASSUME NEW p \in Platforms PROVE ScanOf(r, p) \in Nat
  BY DEF ScanOf, Image, Finding
<1>. QED
  BY <1>1 DEF PolicyOf, Policy, Image

LEMMA RecordPublicationKeeps ==
  ASSUME IInv, NEW s \in Sessions, RecordPublication(s)
  PROVE  IInv'
<1>. DEFINE me == session[s]
            c == me.image
            old == me.mem.images[c]
            policy == PolicyOf(old)
            r == [old EXCEPT !.attestations = policy]
            m == [me.mem EXCEPT !.images[c] = r]
            st == [me EXCEPT !.at = "publish", !.image = None, !.digest = None]
            new == [st EXCEPT !.mem = m]
<1>1. me.at = "publishRecord" /\ Holds(s)
  BY DEF RecordPublication, Holds
<1>2. /\ me \in SessionState /\ InHand(me, origin, scanned) /\ me.dir \in Dirs
      /\ me.mem \in Manifest /\ GoodManifest(me.mem, origin, scanned) /\ c \in Images
  BY <1>1, Mine DEF InHand, AtImage, Dir, SessionState
<1>3. /\ Complete(me.mem) /\ old # None
      /\ \A k \in Images : PassedIn(me.mem.images[k].digest, origin, scanned)
  BY <1>1, <1>2 DEF InHand, Publishing, Complete
<1>4. Saving
  BY DEF RecordPublication, Saving, source, files, registry, clock, history
<1>5. old \in Image /\ GoodImage(c, old, origin, scanned)
  BY <1>2, <1>3 DEF Manifest, GoodManifest
<1>6. policy \in Policy
  BY <1>5, PolicyType
<1>7. [me.mem EXCEPT !.images[c].attestations = policy] = m
  BY <1>2 DEF Manifest
<1>8. WriteManifest(s, m, st)
  BY <1>7 DEF RecordPublication
<1>. HIDE DEF policy
<1>9. /\ r \in Image /\ r.digest = old.digest /\ r.audit = old.audit /\ r.scans = old.scans
      /\ r # None
  BY <1>5, <1>6, ConstantsAssumption DEF Image
<1>. HIDE DEF r
<1>10. GoodImage(c, r, origin, scanned)
  BY <1>5, <1>9 DEF GoodImage
<1>11. m \in Manifest /\ GoodManifest(m, origin, scanned)
  BY <1>2, <1>9, <1>10, ManifestEntry, GoodEntry
<1>12. m.images[c] = r /\ \A k \in Images : k # c => m.images[k] = me.mem.images[k]
  BY <1>2, <1>9, ManifestEntry
<1>. HIDE DEF m
<1>13. Complete(m) /\ \A k \in Images : PassedIn(m.images[k].digest, origin, scanned)
  BY <1>3, <1>9, <1>12 DEF Complete
<1>14. st \in SessionState /\ st.dir = session[s].dir /\ st.at = "publish"
  BY <1>2 DEF SessionState, Locations
<1>15. new.at = "publish" /\ new.dir = me.dir /\ new.mem = m
  BY <1>2 DEF SessionState
<1>. HIDE DEF new
<1>16. InHand(new, origin, scanned)
  BY <1>2, <1>11, <1>13, <1>15, ConstantsAssumption DEF InHand, AtImage, Publishing
<1>. HIDE DEF st
<1>. QED
  BY <1>1, <1>4, <1>8, <1>11, <1>14, <1>16, Writes DEF new

LEMMA FinishPublicationKeeps ==
  ASSUME IInv, NEW s \in Sessions, FinishPublication(s)
  PROVE  IInv'
<1>. DEFINE me == session[s]
            m == [me.mem EXCEPT !.verified = TRUE]
<1>1. me.at = "finish" /\ Holds(s) /\ End(s)
  BY DEF FinishPublication, Holds
<1>2. /\ me \in SessionState /\ InHand(me, origin, scanned)
      /\ me.mem \in Manifest /\ GoodManifest(me.mem, origin, scanned)
  BY <1>1, Mine DEF InHand, SessionState
<1>3. Saving
  BY DEF FinishPublication, Saving, source, files, registry, clock, history
<1>4. m \in Manifest /\ m.images = me.mem.images
  BY <1>2 DEF Manifest
<1>5. \/ manifest' = [manifest EXCEPT ![Dir(s)] = m]
      \/ manifest' = [manifest EXCEPT ![Dir(s)] = Torn]
  BY DEF FinishPublication, Dir
<1>. HIDE DEF m
<1>6. GoodManifest(m, origin, scanned)
  BY <1>2, <1>4 DEF GoodManifest
<1>7. /\ manifest' \in [Dirs -> Manifest \cup {None, Torn}]
      /\ \A d \in Dirs : Loaded(manifest'[d]) => GoodManifest(manifest'[d], origin, scanned)
  BY <1>1, <1>4, <1>5, <1>6, ManifestSaved
<1>8. Grows(origin, origin', scanned, scanned') /\ archive' = archive
  BY <1>3 DEF Saving, Grows
<1>. QED
  BY <1>1, <1>3, <1>7, <1>8, OneEnds, SavingStep

-----------------------------------------------------------------------------
(* The other steps write a file, the registry or a promoted lock.          *)
LEMMA WritePromotedKeeps ==
  ASSUME IInv, NEW s \in Sessions, WritePromoted(s)
  PROVE  IInv'
<1>. DEFINE me == session[s]
            lock == [c \in Images |-> PolicyOf(me.mem.images[c])]
<1>1. me.at = "promoteWrite" /\ End(s)
  BY DEF WritePromoted
<1>2. /\ me \in SessionState /\ InHand(me, origin, scanned) /\ me.mem \in Manifest
      /\ Complete(me.mem)
  BY <1>1, Mine DEF InHand, SessionState
<1>3. lock \in [Images -> Policy]
  BY <1>2, PolicyType DEF Manifest, Complete
<1>4. promoted' = [promoted EXCEPT ![me.dir] = lock]
  BY DEF WritePromoted
<1>. HIDE DEF lock
<1>5. promoted' \in [Dirs -> [Images -> Policy] \cup {None}]
  BY <1>3, <1>4 DEF IInv, TypeOK
<1>6. Grows(origin, origin', scanned, scanned') /\ archive' = archive
  BY DEF WritePromoted, Grows, files, history
<1>7. /\ session' \in [Sessions -> SessionState] /\ SessionsOK' /\ LocksOK' /\ JustBuilt'
      /\ holder' \in [Dirs -> Sessions \cup {None}]
  BY <1>1, <1>6, OneEnds
<1>8. TypeOK'
  BY <1>5, <1>7 DEF IInv, TypeOK, WritePromoted, source, files, registry, clock, history
<1>9. ManifestsOK' /\ ArchivesOK' /\ SignedOK'
  BY DEF IInv, ManifestsOK, ArchivesOK, SignedOK, WritePromoted, files, registry, history
<1>. QED
  BY <1>7, <1>8, <1>9 DEF IInv

LEMMA Acts ==
  ASSUME IInv, NEW s \in Sessions, Holds(s), NEW st \in SessionState, Set(s, st),
         UNCHANGED <<holder, manifest, archive, origin>>, scanned \subseteq scanned',
         InHand(st, origin, scanned'), st.dir = session[s].dir, st.at # "builtRecord"
  PROVE  /\ session' \in [Sessions -> SessionState] /\ holder' \in [Dirs -> Sessions \cup {None}]
         /\ SessionsOK' /\ LocksOK' /\ JustBuilt' /\ ManifestsOK' /\ ArchivesOK'
<1>1. Grows(origin, origin', scanned, scanned') /\ Apart(s) /\ InHand(st, origin', scanned')
  BY DEF Grows, Apart
<1>2. holder'[st.dir] = s /\ holder' \in [Dirs -> Sessions \cup {None}]
  BY DEF IInv, LocksOK, TypeOK
<1>3. session' \in [Sessions -> SessionState] /\ SessionsOK' /\ LocksOK' /\ JustBuilt'
  BY <1>1, <1>2, OneMoves
<1>4. ManifestsOK'
  BY <1>1, GoodGrows DEF IInv, ManifestsOK
<1>5. ArchivesOK'
  BY DEF IInv, ArchivesOK
<1>. QED
  BY <1>2, <1>3, <1>4, <1>5

(* A scan describes the archive, which is the build in the manifest.       *)
LEMMA ReportKeeps ==
  ASSUME IInv, NEW s \in Sessions, Report(s)
  PROVE  IInv'
<1>. DEFINE me == session[s]
            n == lastScan + 1
<1>1. me.at = "scan" /\ Holds(s)
  BY DEF Report, Holds
<1>2. /\ me \in SessionState /\ InHand(me, origin, scanned) /\ me.dir \in Dirs
      /\ me.mem \in Manifest
  BY <1>1, Mine DEF InHand, Dir, SessionState
<1>3. PICK c \in me.images, p \in Platforms :
        \/ End(s) /\ UNCHANGED <<reports, lastScan, scanned>>
        \/ \E ok \in BOOLEAN :
             /\ Unchanged(s, c)
             /\ lastScan' = n
             /\ reports' = [reports EXCEPT ![me.dir][c][p] = n]
             /\ scanned' = scanned \cup
                  {[scan |-> n, digest |-> archive[me.dir][c], platform |-> p, passed |-> ok]}
             /\ Set(s, [me EXCEPT !.at = "sbom", !.image = c, !.platform = p,
                          !.finding = [scan |-> n, passed |-> ok], !.pairs = @ \ {<<c, p>>}])
             /\ UNCHANGED holder
  BY DEF Report
<1>4. c \in Images
  BY <1>2 DEF SessionState
<1>5. CASE End(s) /\ UNCHANGED <<reports, lastScan, scanned>>
  <2>1. Quiet
    BY <1>5 DEF Report, Quiet, IInv, TypeOK, source, registry
  <2>. QED
    BY <1>5, <2>1, QuietEnds
<1>6. ASSUME NEW ok \in BOOLEAN, Unchanged(s, c), lastScan' = n,
             reports' = [reports EXCEPT ![me.dir][c][p] = n],
             scanned' = scanned \cup
               {[scan |-> n, digest |-> archive[me.dir][c], platform |-> p, passed |-> ok]},
             Set(s, [me EXCEPT !.at = "sbom", !.image = c, !.platform = p,
                       !.finding = [scan |-> n, passed |-> ok], !.pairs = @ \ {<<c, p>>}]),
             UNCHANGED holder
      PROVE  IInv'
  <2>. DEFINE f == [scan |-> n, passed |-> ok]
              e == [scan |-> n, digest |-> archive[me.dir][c], platform |-> p, passed |-> ok]
              st == [me EXCEPT !.at = "sbom", !.image = c, !.platform = p, !.finding = f,
                               !.pairs = @ \ {<<c, p>>}]
  <2>1. n \in Nat /\ reports \in ScanFiles /\ archive \in ImageFiles
    BY DEF IInv, TypeOK
  <2>2. reports' \in ScanFiles
    <3>1. [reports[me.dir][c] EXCEPT ![p] = n] \in [Platforms -> Nat]
      BY <1>2, <1>4, <2>1 DEF ScanFiles
    <3>2. [reports[me.dir] EXCEPT ![c] = [reports[me.dir][c] EXCEPT ![p] = n]]
            \in [Images -> [Platforms -> Nat]]
      BY <1>2, <1>4, <2>1, <3>1 DEF ScanFiles
    <3>. QED
      BY <1>2, <1>4, <1>6, <2>1, <3>2 DEF ScanFiles
  <2>3. f \in Finding /\ e = Looked(f, archive[me.dir][c], p) /\ f.scan = n
        /\ archive[me.dir][c] \in Nat
    BY <1>2, <1>4, <2>1 DEF Finding, Looked, ImageFiles
  <2>4. e \in [scan : Nat, digest : Nat, platform : Platforms \cup {None}, passed : BOOLEAN]
    BY <2>1, <2>3
  <2>5. Set(s, st) /\ scanned \subseteq scanned' /\ e \in scanned'
    BY <1>6
  <2>. HIDE DEF f, e
  <2>6. /\ st \in SessionState /\ st.at = "sbom" /\ st.dir = me.dir /\ st.mem = me.mem
        /\ st.image = c /\ st.platform = p /\ st.finding = f
    BY <1>2, <1>4, <2>3 DEF SessionState, Locations
  <2>. HIDE DEF st
  <2>7. st.mem.images[c] # None /\ st.mem.images[c].digest = archive[me.dir][c]
    BY <1>6, <2>6 DEF Unchanged, Dir
  <2>8. me.mem # None => GoodManifest(me.mem, origin, scanned')
    BY <1>2, <2>5, GoodGrows DEF InHand, Grows
  <2>9. me.mem # None
    BY <1>1, <1>2 DEF InHand
  <2>10. InHand(st, origin, scanned')
    BY <1>2, <1>4, <2>3, <2>5, <2>6, <2>7, <2>8, <2>9 DEF InHand, AtImage, Publishing
  <2>11. UNCHANGED <<holder, manifest, archive, origin>>
    BY <1>6 DEF Report
  <2>12. /\ session' \in [Sessions -> SessionState] /\ holder' \in [Dirs -> Sessions \cup {None}]
         /\ SessionsOK' /\ LocksOK' /\ JustBuilt' /\ ManifestsOK' /\ ArchivesOK'
    BY <1>1, <2>5, <2>6, <2>10, <2>11, Acts
  <2>13. scanned' \subseteq
           [scan : Nat, digest : Nat, platform : Platforms \cup {None}, passed : BOOLEAN]
    BY <1>6, <2>4 DEF IInv, TypeOK, e
  <2>14. TypeOK'
    BY <1>6, <2>1, <2>2, <2>12, <2>13 DEF IInv, TypeOK, Report, source, registry
  <2>15. Grows(origin, origin', scanned, scanned') /\ signed' = signed
    BY <2>5, <2>11 DEF Grows, Report, registry
  <2>16. SignedOK'
    BY <2>15, PassedGrows DEF IInv, SignedOK
  <2>. QED
    BY <2>12, <2>14, <2>16 DEF IInv
<1>. QED
  BY <1>3, <1>5, <1>6

LEMMA AuditKeeps ==
  ASSUME IInv, NEW s \in Sessions, Audit(s)
  PROVE  IInv'
<1>. DEFINE me == session[s]
            n == lastScan + 1
<1>1. me.at = "audit" /\ Holds(s)
  BY DEF Audit, Holds
<1>2. /\ me \in SessionState /\ InHand(me, origin, scanned) /\ me.dir \in Dirs
      /\ me.mem \in Manifest
  BY <1>1, Mine DEF InHand, Dir, SessionState
<1>3. PICK c \in me.images :
        \/ End(s) /\ UNCHANGED <<audits, lastScan, scanned>>
        \/ \E ok \in BOOLEAN :
             /\ Unchanged(s, c)
             /\ lastScan' = n
             /\ audits' = [audits EXCEPT ![me.dir][c] = n]
             /\ scanned' = scanned \cup
                  {[scan |-> n, digest |-> archive[me.dir][c], platform |-> None, passed |-> ok]}
             /\ Set(s, [me EXCEPT !.at = "auditRecord", !.image = c, !.images = @ \ {c},
                          !.finding = [scan |-> n, passed |-> ok]])
             /\ UNCHANGED holder
  BY DEF Audit
<1>4. c \in Images
  BY <1>2 DEF SessionState
<1>5. CASE End(s) /\ UNCHANGED <<audits, lastScan, scanned>>
  <2>1. Quiet
    BY <1>5 DEF Audit, Quiet, IInv, TypeOK, source, registry
  <2>. QED
    BY <1>5, <2>1, QuietEnds
<1>6. ASSUME NEW ok \in BOOLEAN, Unchanged(s, c), lastScan' = n,
             audits' = [audits EXCEPT ![me.dir][c] = n],
             scanned' = scanned \cup
               {[scan |-> n, digest |-> archive[me.dir][c], platform |-> None, passed |-> ok]},
             Set(s, [me EXCEPT !.at = "auditRecord", !.image = c, !.images = @ \ {c},
                       !.finding = [scan |-> n, passed |-> ok]]),
             UNCHANGED holder
      PROVE  IInv'
  <2>. DEFINE f == [scan |-> n, passed |-> ok]
              e == [scan |-> n, digest |-> archive[me.dir][c], platform |-> None, passed |-> ok]
              st == [me EXCEPT !.at = "auditRecord", !.image = c, !.images = @ \ {c},
                               !.finding = f]
  <2>1. n \in Nat /\ audits \in ImageFiles /\ archive \in ImageFiles
    BY DEF IInv, TypeOK
  <2>2. audits' \in ImageFiles
    BY <1>2, <1>4, <1>6, <2>1 DEF ImageFiles
  <2>3. f \in Finding /\ e = Looked(f, archive[me.dir][c], None) /\ f.scan = n
        /\ archive[me.dir][c] \in Nat
    BY <1>2, <1>4, <2>1 DEF Finding, Looked, ImageFiles
  <2>4. e \in [scan : Nat, digest : Nat, platform : Platforms \cup {None}, passed : BOOLEAN]
    BY <2>1, <2>3
  <2>5. Set(s, st) /\ scanned \subseteq scanned' /\ e \in scanned'
    BY <1>6
  <2>. HIDE DEF f, e
  <2>6. /\ st \in SessionState /\ st.at = "auditRecord" /\ st.dir = me.dir /\ st.mem = me.mem
        /\ st.image = c /\ st.finding = f
    BY <1>2, <1>4, <2>3 DEF SessionState, Locations
  <2>. HIDE DEF st
  <2>7. st.mem.images[c] # None /\ st.mem.images[c].digest = archive[me.dir][c]
    BY <1>6, <2>6 DEF Unchanged, Dir
  <2>8. me.mem # None => GoodManifest(me.mem, origin, scanned')
    BY <1>2, <2>5, GoodGrows DEF InHand, Grows
  <2>9. me.mem # None
    BY <1>1, <1>2 DEF InHand
  <2>10. InHand(st, origin, scanned')
    BY <1>2, <1>4, <2>3, <2>5, <2>6, <2>7, <2>8, <2>9 DEF InHand, AtImage, Publishing
  <2>11. UNCHANGED <<holder, manifest, archive, origin>>
    BY <1>6 DEF Audit
  <2>12. /\ session' \in [Sessions -> SessionState] /\ holder' \in [Dirs -> Sessions \cup {None}]
         /\ SessionsOK' /\ LocksOK' /\ JustBuilt' /\ ManifestsOK' /\ ArchivesOK'
    BY <1>1, <2>5, <2>6, <2>10, <2>11, Acts
  <2>13. scanned' \subseteq
           [scan : Nat, digest : Nat, platform : Platforms \cup {None}, passed : BOOLEAN]
    BY <1>6, <2>4 DEF IInv, TypeOK, e
  <2>14. TypeOK'
    BY <1>6, <2>1, <2>2, <2>12, <2>13 DEF IInv, TypeOK, Audit, source, registry
  <2>15. Grows(origin, origin', scanned, scanned') /\ signed' = signed
    BY <2>5, <2>11 DEF Grows, Audit, registry
  <2>16. SignedOK'
    BY <2>15, PassedGrows DEF IInv, SignedOK
  <2>. QED
    BY <2>12, <2>14, <2>16 DEF IInv
<1>. QED
  BY <1>3, <1>5, <1>6

LEMMA SbomKeeps ==
  ASSUME IInv, NEW s \in Sessions, Sbom(s)
  PROVE  IInv'
<1>. DEFINE me == session[s]
            n == me.finding.scan
            st == [me EXCEPT !.at = "scanRecord"]
<1>1. me.at = "sbom" /\ Holds(s)
  BY DEF Sbom, Holds
<1>2. /\ me \in SessionState /\ InHand(me, origin, scanned) /\ me.dir \in Dirs
      /\ me.image \in Images /\ me.platform \in Platforms /\ n \in Nat
  BY <1>1, Mine DEF InHand, Dir, SessionState, AtImage, Finding
<1>3. /\ st \in SessionState /\ st.at = "scanRecord" /\ st.dir = me.dir /\ st.mem = me.mem
      /\ st.image = me.image /\ st.platform = me.platform /\ st.finding = me.finding
  BY <1>2 DEF SessionState, Locations
<1>4. Set(s, st) /\ UNCHANGED <<holder, manifest, archive, origin, scanned>>
  BY DEF Sbom, Goto, history
<1>. HIDE DEF st
<1>5. InHand(st, origin, scanned')
  BY <1>1, <1>2, <1>3, <1>4 DEF InHand, AtImage, Publishing
<1>6. /\ session' \in [Sessions -> SessionState] /\ holder' \in [Dirs -> Sessions \cup {None}]
      /\ SessionsOK' /\ LocksOK' /\ JustBuilt' /\ ManifestsOK' /\ ArchivesOK'
  BY <1>1, <1>3, <1>4, <1>5, Acts
<1>7. sboms' \in ScanFiles
  <2>1. sboms \in ScanFiles /\ sboms' = [sboms EXCEPT ![me.dir][me.image][me.platform] = n]
    BY DEF IInv, TypeOK, Sbom
  <2>2. [sboms[me.dir][me.image] EXCEPT ![me.platform] = n] \in [Platforms -> Nat]
    BY <1>2, <2>1 DEF ScanFiles
  <2>3. [sboms[me.dir] EXCEPT ![me.image] = [sboms[me.dir][me.image] EXCEPT ![me.platform] = n]]
          \in [Images -> [Platforms -> Nat]]
    BY <1>2, <2>1, <2>2 DEF ScanFiles
  <2>. QED
    BY <1>2, <2>1, <2>3 DEF ScanFiles
<1>8. TypeOK'
  BY <1>6, <1>7 DEF IInv, TypeOK, Sbom, source, registry, clock, history
<1>9. SignedOK'
  BY DEF IInv, SignedOK, Sbom, registry, history
<1>. QED
  BY <1>6, <1>8, <1>9 DEF IInv

LEMMA PushKeeps ==
  ASSUME IInv, NEW s \in Sessions, Push(s)
  PROVE  IInv'
<1>. DEFINE me == session[s]
            x == me.mem.images[me.image].digest
            st == [me EXCEPT !.at = "recheck"]
<1>1. me.at = "push" /\ Holds(s)
  BY DEF Push, Holds
<1>2. /\ me \in SessionState /\ InHand(me, origin, scanned)
      /\ me.image \in Images /\ me.mem \in Manifest /\ Complete(me.mem)
  BY <1>1, Mine DEF InHand, SessionState, AtImage, Publishing
<1>3. x \in Digest
  BY <1>2 DEF Manifest, Complete, Image
<1>4. CASE /\ tag' = [tag EXCEPT ![me.image] = x] /\ pushed' = pushed \cup {x}
           /\ Goto(s, "recheck") /\ UNCHANGED holder
  <2>1. /\ st \in SessionState /\ st.at = "recheck" /\ st.dir = me.dir /\ st.mem = me.mem
        /\ st.image = me.image
    BY <1>2 DEF SessionState, Locations
  <2>2. Set(s, st) /\ UNCHANGED <<holder, manifest, archive, origin, scanned>>
    BY <1>4 DEF Push, Goto, files, history
  <2>. HIDE DEF st
  <2>3. InHand(st, origin, scanned')
    BY <1>1, <1>2, <2>1, <2>2 DEF InHand, AtImage, Publishing
  <2>4. /\ session' \in [Sessions -> SessionState] /\ holder' \in [Dirs -> Sessions \cup {None}]
        /\ SessionsOK' /\ LocksOK' /\ JustBuilt' /\ ManifestsOK' /\ ArchivesOK'
    BY <1>1, <2>1, <2>2, <2>3, Acts
  <2>. HIDE DEF x
  <2>5. /\ tag' \in [Images -> Digest \cup {None, Foreign}]
        /\ pushed' \subseteq Digest \cup {Foreign}
    BY <1>2, <1>3, <1>4 DEF IInv, TypeOK
  <2>6. TypeOK'
    BY <2>4, <2>5 DEF IInv, TypeOK, Push, source, files, clock, history
  <2>7. SignedOK'
    BY DEF IInv, SignedOK, Push, history
  <2>. QED
    BY <2>4, <2>6, <2>7 DEF IInv
<1>5. CASE End(s) /\ UNCHANGED <<tag, pushed>>
  <2>1. Quiet
    BY <1>5 DEF Push, Quiet, IInv, TypeOK, source, files, clock, history
  <2>. QED
    BY <1>5, <2>1, QuietEnds
<1>. QED
  BY <1>4, <1>5 DEF Push

(* The digest in hand is that of the manifest, which passed.               *)
LEMMA SignKeeps ==
  ASSUME IInv, NEW s \in Sessions, Sign(s)
  PROVE  IInv'
<1>. DEFINE me == session[s]
            st == [me EXCEPT !.at = "attest", !.left = Platforms \cup {None}]
<1>1. me.at = "sign" /\ Holds(s)
  BY DEF Sign, Holds
<1>2. /\ me \in SessionState /\ InHand(me, origin, scanned)
      /\ me.image \in Images /\ me.mem \in Manifest /\ Complete(me.mem)
      /\ me.digest = me.mem.images[me.image].digest /\ PassedIn(me.digest, origin, scanned)
  BY <1>1, Mine DEF InHand, SessionState, AtImage, Publishing
<1>3. me.digest \in Digest
  BY <1>2 DEF Manifest, Complete, Image
<1>4. /\ st \in SessionState /\ st.at = "attest" /\ st.dir = me.dir /\ st.mem = me.mem
      /\ st.image = me.image /\ st.digest = me.digest
  BY <1>2 DEF SessionState, Locations
<1>5. Set(s, st) /\ UNCHANGED <<holder, manifest, archive, origin, scanned>>
  BY DEF Sign, files, history
<1>. HIDE DEF st
<1>6. InHand(st, origin, scanned')
  BY <1>1, <1>2, <1>4, <1>5 DEF InHand, AtImage, Publishing
<1>7. /\ session' \in [Sessions -> SessionState] /\ holder' \in [Dirs -> Sessions \cup {None}]
      /\ SessionsOK' /\ LocksOK' /\ JustBuilt' /\ ManifestsOK' /\ ArchivesOK'
  BY <1>1, <1>4, <1>5, <1>6, Acts
<1>8. signed' = signed \cup {me.digest}
  BY DEF Sign
<1>9. TypeOK'
  BY <1>3, <1>7, <1>8 DEF IInv, TypeOK, Sign, source, files, clock, history
<1>10. SignedOK'
  BY <1>2, <1>5, <1>8 DEF IInv, SignedOK
<1>. QED
  BY <1>7, <1>9, <1>10 DEF IInv

LEMMA AttestKeeps ==
  ASSUME IInv, NEW s \in Sessions, Attest(s)
  PROVE  IInv'
<1>. DEFINE me == session[s]
            Document(p) == IF p = None THEN 0 ELSE sboms[me.dir][me.image][p]
<1>1. me.at = "attest" /\ Holds(s)
  BY DEF Attest, Holds
<1>2. /\ me \in SessionState /\ InHand(me, origin, scanned) /\ me.dir \in Dirs
      /\ me.image \in Images /\ me.mem \in Manifest /\ Complete(me.mem)
      /\ me.digest = me.mem.images[me.image].digest /\ me.left \subseteq Platforms \cup {None}
  BY <1>1, Mine DEF InHand, SessionState, AtImage, Publishing, Dir
<1>3. me.digest \in Digest
  BY <1>2 DEF Manifest, Complete, Image
<1>4. PICK p \in me.left :
        /\ attested' = attested \cup {<<me.digest, Document(p)>>}
        /\ Set(s, [me EXCEPT !.left = @ \ {p}, !.at = IF me.left = {p} THEN "verify" ELSE "attest"])
  BY DEF Attest
<1>5. Document(p) \in Nat
  <2>1. sboms \in ScanFiles
    BY DEF IInv, TypeOK
  <2>. QED
    BY <1>2, <2>1 DEF ScanFiles
<1>. DEFINE loc == IF me.left = {p} THEN "verify" ELSE "attest"
            st == [me EXCEPT !.left = @ \ {p}, !.at = loc]
<1>6. loc \in {"verify", "attest"} /\ Set(s, st)
  BY <1>4
<1>. HIDE DEF loc, Document
<1>7. /\ st \in SessionState /\ st.at \in {"verify", "attest"} /\ st.dir = me.dir
      /\ st.mem = me.mem /\ st.image = me.image /\ st.digest = me.digest
  BY <1>2, <1>6 DEF SessionState, Locations
<1>8. UNCHANGED <<holder, manifest, archive, origin, scanned>>
  BY DEF Attest, files, history
<1>. HIDE DEF st
<1>9. InHand(st, origin, scanned')
  BY <1>1, <1>2, <1>7, <1>8 DEF InHand, AtImage, Publishing
<1>10. /\ session' \in [Sessions -> SessionState] /\ holder' \in [Dirs -> Sessions \cup {None}]
       /\ SessionsOK' /\ LocksOK' /\ JustBuilt' /\ ManifestsOK' /\ ArchivesOK'
  BY <1>1, <1>6, <1>7, <1>8, <1>9, Acts
<1>11. attested' \subseteq (Digest \cup {Foreign}) \X Nat
  BY <1>3, <1>4, <1>5 DEF IInv, TypeOK
<1>12. TypeOK'
  BY <1>10, <1>11 DEF IInv, TypeOK, Attest, source, files, clock, history
<1>13. SignedOK'
  BY DEF IInv, SignedOK, Attest, history
<1>. QED
  BY <1>10, <1>12, <1>13 DEF IInv

(* The surroundings touch nothing the invariant relates.                   *)
LEMMA SurroundingsKeep ==
  ASSUME IInv, ChangeSource \/ Expire \/ ForeignPush
  PROVE  IInv'
<1>1. UNCHANGED <<manifest, archive, holder, session, signed, origin, scanned>>
  BY DEF ChangeSource, Expire, ForeignPush, files, registry, history
<1>2. /\ SessionsOK' /\ ManifestsOK' /\ LocksOK' /\ JustBuilt' /\ ArchivesOK' /\ SignedOK'
  BY <1>1 DEF IInv, SessionsOK, ManifestsOK, LocksOK, Holds, JustBuilt, ArchivesOK, SignedOK
<1>3. TypeOK'
  <2>1. CASE ChangeSource
    <3>1. tree \in Source /\ changes \in Nat
      BY DEF IInv, TypeOK
    <3>2. tree' \in Source /\ changes' \in Nat
      BY <2>1, <3>1 DEF ChangeSource, Source
    <3>. QED
      BY <2>1, <3>2 DEF IInv, TypeOK, ChangeSource, files, registry, clock, history
  <2>2. CASE Expire
    BY <2>2 DEF IInv, TypeOK, Expire, source, files, registry, history
  <2>3. CASE ForeignPush
    BY <2>3 DEF IInv, TypeOK, ForeignPush, source, files, clock, history
  <2>. QED
    BY <2>1, <2>2, <2>3
<1>. QED
  BY <1>2, <1>3 DEF IInv

-----------------------------------------------------------------------------
(* The invariant holds initially, is kept by every step, and implies the   *)
(* properties.                                                             *)
LEMMA InitHolds == Init => IInv
<1>. SUFFICES ASSUME Init PROVE IInv
  OBVIOUS
<1>1. Blank \in SessionState
  BY BlankOK
<1>2. session \in [Sessions -> SessionState] /\ \A s \in Sessions : session[s] = Blank
  BY <1>1 DEF Init
<1>3. <<>> \in Seq([rev : Nat, text : Nat, image : Images])
  OBVIOUS
<1>4. /\ tree \in Source /\ archive \in ImageFiles /\ audits \in ImageFiles
      /\ reports \in ScanFiles /\ sboms \in ScanFiles
  BY DEF Init, Source, ImageFiles, ScanFiles
<1>. HIDE DEF Blank
<1>5. TypeOK
  BY <1>2, <1>3, <1>4 DEF Init, TypeOK
<1>6. SessionsOK /\ LocksOK /\ JustBuilt
  BY <1>2, BlankOK DEF SessionsOK, LocksOK, Holds, JustBuilt
<1>7. ManifestsOK /\ ArchivesOK /\ SignedOK
  BY DEF Init, ManifestsOK, Loaded, ArchivesOK, SignedOK
<1>. QED
  BY <1>5, <1>6, <1>7 DEF IInv

LEMMA StepKeeps == IInv /\ [Next]_vars => IInv'
<1>. SUFFICES ASSUME IInv, [Next]_vars PROVE IInv'
  OBVIOUS
<1>1. ASSUME NEW s \in Sessions, Start(s) \/ Acquire(s) \/ Interrupted(s) PROVE IInv'
  BY <1>1, StartKeeps, AcquireKeeps, InterruptedKeeps
<1>2. ASSUME NEW s \in Sessions, Work(s) PROVE IInv'
  <2>1. CASE OpenBuild(s) \/ HashInputs(s) \/ Buildx(s) \/ RecordBuild(s) \/ Done(s)
    BY <2>1, OpenBuildKeeps, HashInputsKeeps, BuildxKeeps, RecordBuildKeeps, DoneKeeps
  <2>2. CASE \/ OpenScan(s) \/ Report(s) \/ Sbom(s) \/ RecordScan(s) \/ Audit(s)
             \/ RecordAudit(s)
    BY <2>2, OpenScanKeeps, ReportKeeps, SbomKeeps, RecordScanKeeps, AuditKeeps, RecordAuditKeeps
  <2>3. CASE Validate(s) \/ Lookup(s) \/ LookedUp(s) \/ NextImage(s) \/ Push(s) \/ Recheck(s)
    BY <2>3, ValidateKeeps, LookupKeeps, LookedUpKeeps, NextImageKeeps, PushKeeps, RecheckKeeps
  <2>4. CASE \/ Sign(s) \/ Attest(s) \/ VerifyPublished(s) \/ RecordPublication(s)
             \/ FinishPublication(s)
    BY <2>4, SignKeeps, AttestKeeps, VerifyPublishedKeeps, RecordPublicationKeeps,
       FinishPublicationKeeps
  <2>5. CASE OpenPromote(s) \/ CheckPromotion(s) \/ WritePromoted(s)
    BY <2>5, OpenPromoteKeeps, CheckPromotionKeeps, WritePromotedKeeps
  <2>. QED
    BY <1>2, <2>1, <2>2, <2>3, <2>4, <2>5 DEF Work
<1>3. CASE ChangeSource \/ Expire \/ ForeignPush
  BY <1>3, SurroundingsKeep
<1>4. CASE UNCHANGED vars
  BY <1>4 DEF vars, IInv, TypeOK, SessionsOK, ManifestsOK, LocksOK, Holds, JustBuilt, ArchivesOK,
              SignedOK
<1>. QED
  BY <1>1, <1>2, <1>3, <1>4 DEF Next

LEMMA Invariance == Spec => []IInv
BY InitHolds, StepKeeps, PTL DEF Spec

(* Every variable keeps to its type, whatever commands run and wherever    *)
(* they are killed.                                                        *)
THEOREM TypeCorrect == Spec => []TypeOK
<1>1. IInv => TypeOK
  BY DEF IInv
<1>. QED
  BY <1>1, Invariance, PTL

(* A scan that a manifest records was made of the digest recorded with it, *)
(* on that platform and with that outcome: the directory's lock and the    *)
(* comparison of archive and manifest before every scan see to that.       *)
THEOREM ScansMatchBuilds == Spec => []ScansDescribeTheirBuild
<1>1. IInv => ScansDescribeTheirBuild
  BY DEF IInv, ManifestsOK, GoodManifest, GoodImage, Looked, ScansDescribeTheirBuild
<1>. QED
  BY <1>1, Invariance, PTL

(* publish signs nothing but digests that passed every scan, and the audit *)
(* where there is one, although others push to the same tags.              *)
THEOREM SignaturesAreEarned == Spec => []OnlyScannedIsSigned
<1>1. IInv => OnlyScannedIsSigned
  BY DEF IInv, SignedOK, PassedIn, OnlyScannedIsSigned, Passed
<1>. QED
  BY <1>1, Invariance, PTL

-----------------------------------------------------------------------------
(* Promotion.  What a policy vouches for: sc stands for scanned, pu for    *)
(* pushed, si for signed and at for attested.                              *)
ScansPassed(q, sc) ==
  \A p \in Platforms :
    [scan |-> q.spdx[p], digest |-> q.digest, platform |-> p, passed |-> TRUE] \in sc

Stands(q, sc, pu, si, at) ==
  /\ q.digest \in pu \cap si
  /\ \A y \in Predicates(q) : <<q.digest, y>> \in at
  /\ ScansPassed(q, sc)

(* The attestations a manifest records are of passed scans.                *)
GoodPolicies(m, sc) ==
  \A c \in Images :
    m.images[c] # None /\ m.images[c].attestations # None =>
      ScansPassed(m.images[c].attestations, sc)

Cleared(m) ==
  \A c \in Images, p \in Platforms :
    m.images[c].scans[p] # None /\ m.images[c].scans[p].passed

(* What a process knows on its way to a promotion.                         *)
Approving(st, sc, pu, si, at) ==
  /\ st.mem # None => GoodPolicies(st.mem, sc)
  /\ st.at \in Publishing => Cleared(st.mem)
  /\ st.cmd \in {"publish", "promote"} /\ st.at \in {"lock", "open"} => st.images = Images
  /\ st.at = "promote" =>
       \A c \in Images \ st.images : Stands(PolicyOf(st.mem.images[c]), sc, pu, si, at)
  /\ st.at = "promoteWrite" =>
       \A c \in Images : Stands(PolicyOf(st.mem.images[c]), sc, pu, si, at)

ApprovingOK == \A s \in Sessions : Approving(session[s], scanned, pushed, signed, attested)
PoliciesOK == \A d \in Dirs : Loaded(manifest[d]) => GoodPolicies(manifest[d], scanned)
PromotedOK ==
  \A d \in Dirs, c \in Images :
    promoted[d] # None => Stands(promoted[d][c], scanned, pushed, signed, attested)

PInv == IInv /\ ApprovingOK /\ PoliciesOK /\ PromotedOK

(* The tags.  A publisher knows which are free: nobody else publishes, and *)
(* no other writer pushes.                                                 *)
FreeTags(st, tg) ==
  /\ st.at \in Publishing => st.cmd = "publish"
  /\ st.at = "lookup" => \A c \in Images \ (st.images \cup st.existing) : tg[c] = None
  /\ st.at \in Publishing \ {"lookup"} => \A c \in st.images \ st.existing : tg[c] = None
  /\ st.at = "push" => st.image \notin st.images /\ tg[st.image] = None

FreeTagsOK == \A s \in Sessions : FreeTags(session[s], tag)
OnePublisher ==
  \A s, q \in Sessions : session[s].cmd = "publish" /\ session[q].cmd = "publish" => s = q
PushedIsTagged ==
  \A x \in pushed : x \in DOMAIN origin /\ tag[origin[x].image] = x
PromotedIsOfImage ==
  \A d \in Dirs, c \in Images :
    promoted[d] # None =>
      promoted[d][c].digest \in DOMAIN origin /\ origin[promoted[d][c].digest].image = c

TInv == PInv /\ FreeTagsOK /\ OnePublisher /\ PushedIsTagged /\ PromotedIsOfImage

-----------------------------------------------------------------------------
(* What a step of one process does to the processes.                       *)
Moved(s) == \A q \in Sessions \ {s} : session'[q] = session[q]

SameCommand(s) == session'[s].cmd \in {session[s].cmd, "none"}

(* It ends, or goes on with the manifest it has and nothing to promote.    *)
Carried(s) ==
  \/ session'[s] = Blank
  \/ /\ session'[s].mem = session[s].mem /\ session'[s].dir = session[s].dir
     /\ session'[s].cmd = session[s].cmd
     /\ session'[s].at \notin {"lock", "open", "promote", "promoteWrite"}
     /\ session'[s].at \in Publishing => session[s].at \in Publishing

LEMMA Steps ==
  ASSUME IInv, NEW s \in Sessions
  PROVE  /\ End(s) => session'[s] = Blank /\ Moved(s)
         /\ \A st : Set(s, st) => session'[s] = st /\ Moved(s)
BY DEF IInv, TypeOK, End, Set, Moved

LEMMA BlankHas ==
  /\ Blank.mem = None /\ Blank.at = "idle" /\ Blank.cmd = "none"
BY DEF Blank

(* Nothing is taken out of the registry, nor forgotten of the scans.       *)
Accumulates ==
  /\ scanned \subseteq scanned' /\ pushed \subseteq pushed'
  /\ signed \subseteq signed' /\ attested \subseteq attested'

LEMMA NothingLost == ASSUME [Next]_vars PROVE Accumulates
<1>1. ASSUME NEW s \in Sessions, Work(s) PROVE Accumulates
  <2>1. CASE \/ OpenBuild(s) \/ HashInputs(s) \/ Buildx(s) \/ RecordBuild(s) \/ OpenScan(s)
             \/ Sbom(s) \/ RecordScan(s) \/ RecordAudit(s) \/ Validate(s) \/ Lookup(s)
             \/ LookedUp(s) \/ NextImage(s) \/ Recheck(s) \/ VerifyPublished(s)
             \/ RecordPublication(s) \/ FinishPublication(s) \/ OpenPromote(s)
             \/ CheckPromotion(s) \/ WritePromoted(s) \/ Done(s)
    <3>1. UNCHANGED <<scanned, pushed, signed, attested>>
      BY <2>1 DEF OpenBuild, HashInputs, Buildx, RecordBuild, OpenScan, Sbom, RecordScan,
                  RecordAudit, Validate, Lookup, LookedUp, NextImage, Recheck, VerifyPublished,
                  RecordPublication, FinishPublication, OpenPromote, CheckPromotion,
                  WritePromoted, Done, registry, history
    <3>. QED
      BY <3>1 DEF Accumulates
  <2>2. CASE Report(s)
    BY <2>2 DEF Report, Accumulates, registry
  <2>3. CASE Audit(s)
    BY <2>3 DEF Audit, Accumulates, registry
  <2>4. CASE Push(s)
    BY <2>4 DEF Push, Accumulates, history
  <2>5. CASE Sign(s) \/ Attest(s)
    BY <2>5 DEF Sign, Attest, Accumulates, history
  <2>. QED
    BY <1>1, <2>1, <2>2, <2>3, <2>4, <2>5 DEF Work
<1>2. ASSUME NEW s \in Sessions, Start(s) \/ Acquire(s) \/ Interrupted(s) PROVE Accumulates
  BY <1>2 DEF Start, Acquire, Interrupted, Accumulates, registry, history
<1>3. CASE ChangeSource \/ Expire \/ ForeignPush
  BY <1>3 DEF ChangeSource, Expire, ForeignPush, Accumulates, registry, history
<1>4. CASE UNCHANGED vars
  BY <1>4 DEF vars, Accumulates
<1>. QED
  BY <1>1, <1>2, <1>3, <1>4 DEF Next

LEMMA StandsStill ==
  ASSUME Accumulates, NEW q, Stands(q, scanned, pushed, signed, attested)
  PROVE  Stands(q, scanned', pushed', signed', attested')
BY DEF Accumulates, Stands, ScansPassed

LEMMA PoliciesStay ==
  ASSUME Accumulates, NEW m, GoodPolicies(m, scanned)
  PROVE  GoodPolicies(m, scanned')
BY DEF Accumulates, GoodPolicies, ScansPassed

LEMMA ApprovingStays ==
  ASSUME Accumulates, NEW st, Approving(st, scanned, pushed, signed, attested)
  PROVE  Approving(st, scanned', pushed', signed', attested')
<1>1. st.mem # None => GoodPolicies(st.mem, scanned')
  BY PoliciesStay DEF Approving
<1>2. st.at = "promote" =>
        \A c \in Images \ st.images :
          Stands(PolicyOf(st.mem.images[c]), scanned', pushed', signed', attested')
  BY StandsStill DEF Approving
<1>3. st.at = "promoteWrite" =>
        \A c \in Images :
          Stands(PolicyOf(st.mem.images[c]), scanned', pushed', signed', attested')
  BY StandsStill DEF Approving
<1>. QED
  BY <1>1, <1>2, <1>3 DEF Approving

LEMMA CarriedStays ==
  ASSUME PInv, Accumulates, NEW s \in Sessions, Carried(s)
  PROVE  Approving(session'[s], scanned', pushed', signed', attested')
<1>1. CASE session'[s] = Blank
  BY <1>1, BlankHas DEF Approving, Publishing
<1>2. CASE session'[s] # Blank
  <2>1. Approving(session[s], scanned, pushed, signed, attested)
    BY DEF PInv, ApprovingOK
  <2>2. session'[s].mem = session[s].mem
    BY <1>2 DEF Carried
  <2>3. session'[s].mem # None => GoodPolicies(session'[s].mem, scanned')
    BY <2>1, <2>2, PoliciesStay DEF Approving
  <2>. QED
    BY <1>2, <2>1, <2>2, <2>3 DEF Carried, Approving
<1>. QED
  BY <1>1, <1>2

LEMMA BuildsCarry ==
  ASSUME IInv, NEW s \in Sessions, HashInputs(s) \/ Buildx(s) \/ Done(s) \/ Interrupted(s)
  PROVE  Carried(s) /\ SameCommand(s) /\ Moved(s) /\ UNCHANGED <<manifest, promoted>>
<1>1. session \in [Sessions -> SessionState] /\ session[s] \in SessionState
  BY DEF IInv, TypeOK
<1>. USE DEF Carried, SameCommand
<1>2. CASE HashInputs(s)
  <2>1. PICK c \in session[s].images :
          Set(s, [session[s] EXCEPT !.at = "buildx", !.image = c, !.inputs = tree.text,
                    !.images = @ \ {c}])
    BY <1>2 DEF HashInputs
  <2>2. UNCHANGED <<manifest, promoted>>
    BY <1>2 DEF HashInputs
  <2>. QED
    BY <1>1, <2>1, <2>2 DEF SessionState, Set, Moved, Publishing
<1>3. CASE Buildx(s)
  BY <1>1, <1>3, Steps, BlankHas DEF Buildx, BuildFailed, Goto, SessionState, Publishing
<1>4. CASE Done(s) \/ Interrupted(s)
  BY <1>4, Steps, BlankHas DEF Done, Interrupted
<1>. QED
  BY <1>2, <1>3, <1>4

LEMMA ScansCarry ==
  ASSUME IInv, NEW s \in Sessions, Report(s) \/ Sbom(s) \/ Audit(s)
  PROVE  Carried(s) /\ SameCommand(s) /\ Moved(s) /\ UNCHANGED <<manifest, promoted>>
<1>1. session \in [Sessions -> SessionState] /\ session[s] \in SessionState
  BY DEF IInv, TypeOK
<1>. USE DEF Carried, SameCommand
<1>2. CASE Report(s)
  <2>1. UNCHANGED <<manifest, promoted>>
    BY <1>2 DEF Report
  <2>2. CASE End(s)
    BY <2>1, <2>2, Steps, BlankHas
  <2>3. CASE ~End(s)
    <3>1. PICK c \in Images, p \in Platforms, ok \in BOOLEAN :
            Set(s, [session[s] EXCEPT !.at = "sbom", !.image = c, !.platform = p,
                      !.finding = [scan |-> lastScan + 1, passed |-> ok],
                      !.pairs = @ \ {<<c, p>>}])
      BY <1>1, <1>2, <2>3 DEF Report, SessionState
    <3>. QED
      BY <1>1, <2>1, <3>1, Steps DEF SessionState, Set, Moved, Publishing
  <2>. QED
    BY <2>2, <2>3
<1>3. CASE Sbom(s)
  BY <1>1, <1>3, Steps DEF Sbom, Goto, SessionState, Set, Moved, Publishing
<1>4. CASE Audit(s)
  <2>1. UNCHANGED <<manifest, promoted>>
    BY <1>4 DEF Audit
  <2>2. CASE End(s)
    BY <2>1, <2>2, Steps, BlankHas
  <2>3. CASE ~End(s)
    <3>1. PICK c \in Images, ok \in BOOLEAN :
            Set(s, [session[s] EXCEPT !.at = "auditRecord", !.image = c, !.images = @ \ {c},
                      !.finding = [scan |-> lastScan + 1, passed |-> ok]])
      BY <1>1, <1>4, <2>3 DEF Audit, SessionState
    <3>. QED
      BY <1>1, <2>1, <3>1, Steps DEF SessionState, Set, Moved, Publishing
  <2>. QED
    BY <2>2, <2>3
<1>. QED
  BY <1>2, <1>3, <1>4

(* How publish goes on from one image to the next.                         *)
LEMMA LookupMoves ==
  ASSUME IInv, NEW s \in Sessions, Lookup(s)
  PROVE  /\ Moved(s) /\ session[s].at = "lookup"
         /\ \/ session'[s] = Blank
            \/ /\ session'[s].at = "lookup" /\ session'[s].cmd = session[s].cmd
               /\ session'[s].mem = session[s].mem /\ session'[s].dir = session[s].dir
               /\ \E c \in session[s].images :
                    /\ session'[s].images = session[s].images \ {c}
                    /\ \/ tag[c] = None /\ session'[s].existing = session[s].existing
                       \/ session'[s].existing = session[s].existing \cup {c}
<1>1. session \in [Sessions -> SessionState] /\ session[s] \in SessionState
  BY DEF IInv, TypeOK
<1>2. PICK c \in session[s].images :
        \/ tag[c] = None /\ Set(s, [session[s] EXCEPT !.images = @ \ {c}])
        \/ Set(s, [session[s] EXCEPT !.images = @ \ {c}, !.existing = @ \cup {c}])
        \/ End(s)
  BY DEF Lookup, TagAbsent
<1>3. session[s].at = "lookup"
  BY DEF Lookup
<1>4. CASE tag[c] = None /\ Set(s, [session[s] EXCEPT !.images = @ \ {c}])
  BY <1>1, <1>3, <1>4, Steps DEF SessionState, Set, Moved
<1>5. CASE Set(s, [session[s] EXCEPT !.images = @ \ {c}, !.existing = @ \cup {c}])
  BY <1>1, <1>3, <1>5, Steps DEF SessionState, Set, Moved
<1>6. CASE End(s)
  BY <1>3, <1>6, Steps
<1>. QED
  BY <1>2, <1>4, <1>5, <1>6

LEMMA LookedUpMoves ==
  ASSUME IInv, NEW s \in Sessions, LookedUp(s)
  PROVE  /\ Moved(s) /\ session[s].at = "lookup" /\ session[s].images = {}
         /\ session'[s].at = "publish" /\ session'[s].cmd = session[s].cmd
         /\ session'[s].mem = session[s].mem /\ session'[s].dir = session[s].dir
         /\ session'[s].images = Images /\ session'[s].existing = session[s].existing
<1>1. session \in [Sessions -> SessionState] /\ session[s] \in SessionState
  BY DEF IInv, TypeOK
<1>. QED
  BY <1>1, Steps DEF LookedUp, SessionState, Set, Moved

LEMMA NextImageMoves ==
  ASSUME IInv, NEW s \in Sessions, NextImage(s)
  PROVE  /\ Moved(s) /\ session[s].at = "publish"
         /\ session'[s].cmd = session[s].cmd /\ session'[s].mem = session[s].mem
         /\ session'[s].dir = session[s].dir
         /\ session'[s].existing = session[s].existing
         /\ \/ session'[s].at = "finish" /\ session'[s].images = session[s].images
            \/ /\ session'[s].at \in {"recheck", "push"}
               /\ \E c \in session[s].images :
                    /\ session'[s].image = c /\ session'[s].images = session[s].images \ {c}
                    /\ session'[s].at = "push" => c \notin session[s].existing
<1>1. /\ session \in [Sessions -> SessionState] /\ session[s] \in SessionState
      /\ session[s].at = "publish"
  BY DEF IInv, TypeOK, NextImage
<1>2. CASE Goto(s, "finish")
  BY <1>1, <1>2, Steps DEF Goto, SessionState, Set, Moved
<1>3. CASE ~Goto(s, "finish")
  <2>1. PICK c \in session[s].images :
          Set(s, [session[s] EXCEPT !.at = IF c \in session[s].existing THEN "recheck" ELSE "push",
                    !.image = c, !.images = @ \ {c}])
    BY <1>3 DEF NextImage
  <2>. DEFINE loc == IF c \in session[s].existing THEN "recheck" ELSE "push"
  <2>2. Set(s, [session[s] EXCEPT !.at = loc, !.image = c, !.images = @ \ {c}])
    BY <2>1
  <2>3. loc \in {"recheck", "push"} /\ (loc = "push" => c \notin session[s].existing)
    OBVIOUS
  <2>. HIDE DEF loc
  <2>. QED
    BY <1>1, <2>2, <2>3, Steps DEF SessionState, Set, Moved
<1>. QED
  BY <1>2, <1>3

(* The steps that work on one image, with the others still to come.        *)
PublishStays(s) ==
  \/ session'[s] = Blank
  \/ /\ session'[s].cmd = session[s].cmd
     /\ session'[s].images = session[s].images /\ session'[s].existing = session[s].existing
     /\ session[s].at \in Publishing \ {"lookup"}
     /\ session'[s].at \in Publishing \ {"lookup", "push"}

LEMMA PublishMoves ==
  ASSUME IInv, NEW s \in Sessions,
         Push(s) \/ Recheck(s) \/ Sign(s) \/ Attest(s) \/ VerifyPublished(s)
  PROVE  /\ Moved(s) /\ PublishStays(s)
         /\ \/ session'[s] = Blank
            \/ session'[s].mem = session[s].mem /\ session'[s].dir = session[s].dir
<1>1. session \in [Sessions -> SessionState] /\ session[s] \in SessionState
  BY DEF IInv, TypeOK
<1>. USE DEF PublishStays, Publishing
<1>2. CASE Push(s)
  BY <1>1, <1>2, Steps DEF Push, Goto, SessionState, Set, Moved
<1>3. CASE Recheck(s)
  <2>1. session[s].at = "recheck"
    BY <1>3 DEF Recheck
  <2>2. CASE End(s)
    BY <2>2, Steps
  <2>3. CASE Set(s, [session[s] EXCEPT !.at = "sign", !.digest = tag[session[s].image]])
    BY <1>1, <2>1, <2>3 DEF SessionState, Set, Moved
  <2>. QED
    BY <1>3, <2>2, <2>3 DEF Recheck
<1>4. CASE Sign(s)
  BY <1>1, <1>4, Steps DEF Sign, SessionState, Set, Moved
<1>5. CASE Attest(s)
  <2>1. PICK p \in session[s].left :
          Set(s, [session[s] EXCEPT !.left = @ \ {p},
                    !.at = IF session[s].left = {p} THEN "verify" ELSE "attest"])
    BY <1>5 DEF Attest
  <2>. DEFINE loc == IF session[s].left = {p} THEN "verify" ELSE "attest"
  <2>2. Set(s, [session[s] EXCEPT !.left = @ \ {p}, !.at = loc]) /\ loc \in {"verify", "attest"}
    BY <2>1
  <2>. HIDE DEF loc
  <2>3. session[s].at = "attest"
    BY <1>5 DEF Attest
  <2>. QED
    BY <1>1, <2>2, <2>3, Steps DEF SessionState, Set, Moved
<1>6. CASE VerifyPublished(s)
  BY <1>1, <1>6, Steps DEF VerifyPublished, Goto, SessionState, Set, Moved
<1>. QED
  BY <1>2, <1>3, <1>4, <1>5, <1>6

LEMMA PublisherCarries ==
  ASSUME IInv, NEW s \in Sessions,
         \/ Lookup(s) \/ LookedUp(s) \/ NextImage(s)
         \/ Push(s) \/ Recheck(s) \/ Sign(s) \/ Attest(s) \/ VerifyPublished(s)
  PROVE  Carried(s) /\ SameCommand(s) /\ Moved(s)
<1>1. CASE Lookup(s)
  BY <1>1, LookupMoves, BlankHas DEF Carried, SameCommand, Publishing
<1>2. CASE LookedUp(s)
  BY <1>2, LookedUpMoves DEF Carried, SameCommand, Publishing
<1>3. CASE NextImage(s)
  <2>1. session'[s].at \in {"finish", "recheck", "push"} /\ session[s].at = "publish"
    BY <1>3, NextImageMoves
  <2>2. /\ Moved(s) /\ session'[s].cmd = session[s].cmd
        /\ session'[s].mem = session[s].mem /\ session'[s].dir = session[s].dir
    BY <1>3, NextImageMoves
  <2>. QED
    BY <2>1, <2>2 DEF Carried, SameCommand, Publishing
<1>4. CASE Push(s) \/ Recheck(s) \/ Sign(s) \/ Attest(s) \/ VerifyPublished(s)
  <2>1. /\ Moved(s) /\ PublishStays(s)
        /\ \/ session'[s] = Blank
           \/ session'[s].mem = session[s].mem /\ session'[s].dir = session[s].dir
    BY <1>4, PublishMoves
  <2>. QED
    BY <2>1, BlankHas DEF PublishStays, Carried, SameCommand, Publishing
<1>. QED
  BY <1>1, <1>2, <1>3, <1>4

-----------------------------------------------------------------------------
(* Commands that record what they did.                                     *)
LEMMA EntryPolicies ==
  ASSUME NEW m \in Manifest, NEW c \in Images, NEW r \in Image, NEW sc, GoodPolicies(m, sc),
         r.attestations # None => ScansPassed(r.attestations, sc)
  PROVE  GoodPolicies([m EXCEPT !.images[c] = r], sc)
BY ManifestEntry DEF GoodPolicies

LEMMA SavedPolicies ==
  ASSUME PInv, NEW s \in Sessions, Holds(s), NEW m, GoodPolicies(m, scanned), scanned' = scanned,
         \/ manifest' = [manifest EXCEPT ![Dir(s)] = m]
         \/ manifest' = [manifest EXCEPT ![Dir(s)] = Torn]
  PROVE  PoliciesOK'
<1>1. manifest \in [Dirs -> Manifest \cup {None, Torn}] /\ Dir(s) \in Dirs
  BY Mine DEF PInv, IInv, TypeOK
<1>2. ASSUME NEW d \in Dirs, Loaded(manifest'[d]) PROVE GoodPolicies(manifest'[d], scanned)
  <2>1. CASE d = Dir(s)
    BY <1>1, <1>2, <2>1 DEF Loaded
  <2>2. CASE d # Dir(s)
    <3>1. manifest'[d] = manifest[d]
      BY <1>1, <2>2
    <3>. QED
      BY <1>2, <3>1 DEF PInv, PoliciesOK
  <2>. QED
    BY <2>1, <2>2
<1>. QED
  BY <1>2 DEF PoliciesOK

LEMMA RecordsApprove ==
  ASSUME PInv, NEW s \in Sessions, Holds(s), NEW m, NEW st \in SessionState,
         WriteManifest(s, m, st), GoodPolicies(m, scanned), scanned' = scanned,
         st.at \in {"build", "scan", "audit", "publish"}, st.at = "publish" => Cleared(m),
         st.cmd = session[s].cmd
  PROVE  /\ Moved(s) /\ SameCommand(s) /\ PoliciesOK'
         /\ Approving(session'[s], scanned', pushed', signed', attested')
         /\ \/ session'[s] = Blank
            \/ /\ session'[s].at = st.at /\ session'[s].cmd = st.cmd
               /\ session'[s].images = st.images /\ session'[s].existing = st.existing
<1>1. PoliciesOK'
  BY SavedPolicies DEF WriteManifest
<1>2. IInv /\ session \in [Sessions -> SessionState]
  BY DEF PInv, IInv, TypeOK
<1>3. CASE End(s)
  BY <1>1, <1>2, <1>3, Steps, BlankHas DEF Approving, Publishing, SameCommand
<1>4. CASE Set(s, [st EXCEPT !.mem = m])
  <2>. DEFINE new == [st EXCEPT !.mem = m]
  <2>1. /\ new.mem = m /\ new.at = st.at /\ new.cmd = st.cmd /\ new.images = st.images
        /\ new.existing = st.existing
    BY DEF SessionState
  <2>2. session'[s] = new /\ Moved(s)
    BY <1>2, <1>4 DEF Set, Moved
  <2>. HIDE DEF new
  <2>. QED
    BY <1>1, <2>1, <2>2 DEF Approving, Publishing, SameCommand
<1>. QED
  BY <1>3, <1>4 DEF WriteManifest

Recorded(s) ==
  /\ Moved(s) /\ SameCommand(s) /\ PoliciesOK' /\ promoted' = promoted
  /\ Approving(session'[s], scanned', pushed', signed', attested')

LEMMA CarriedRecords ==
  ASSUME PInv, NEW s \in Sessions, Accumulates, Carried(s), SameCommand(s), Moved(s),
         UNCHANGED <<manifest, promoted>>
  PROVE  Recorded(s)
BY CarriedStays, PoliciesStay DEF PInv, PoliciesOK, Recorded

LEMMA RecordBuildRecords ==
  ASSUME PInv, NEW s \in Sessions, Accumulates, RecordBuild(s)
  PROVE  Recorded(s) /\ session'[s].at \notin Publishing
<1>. DEFINE me == session[s]
            c == me.image
            r == BuiltImage(me.mem, c, archive[me.dir][c], me.inputs)
            m == [me.mem EXCEPT !.images[c] = r]
            st == [me EXCEPT !.at = "build", !.image = None, !.inputs = Blank.inputs]
<1>1. IInv /\ me.at = "builtRecord" /\ Holds(s) /\ UNCHANGED <<promoted, scanned>>
  BY DEF PInv, RecordBuild, Holds, history
<1>2. /\ me \in SessionState /\ InHand(me, origin, scanned) /\ me.dir \in Dirs
      /\ me.mem \in Manifest /\ me.mem # None /\ c \in Images
  BY <1>1, Mine DEF InHand, AtImage, Dir, SessionState
<1>3. CASE End(s) /\ UNCHANGED manifest
  <2>1. Carried(s) /\ SameCommand(s) /\ Moved(s)
    BY <1>1, <1>3, Steps, BlankHas DEF Carried, SameCommand
  <2>. QED
    BY <1>1, <1>3, <2>1, Steps, BlankHas, CarriedRecords DEF Publishing
<1>4. CASE WriteManifest(s, m, st)
  <2>1. archive[me.dir][c] \in Digest
    BY <1>1, <1>2 DEF IInv, TypeOK, JustBuilt, ImageFiles, Digest
  <2>2. r \in Image /\ r.attestations = None
    BY <1>2, <2>1 DEF BuiltImage, Image, SessionState
  <2>3. GoodPolicies(me.mem, scanned)
    BY <1>2 DEF PInv, ApprovingOK, Approving
  <2>. HIDE DEF r
  <2>4. GoodPolicies(m, scanned)
    BY <1>2, <2>2, <2>3, EntryPolicies
  <2>5. st \in SessionState /\ st.at = "build" /\ st.cmd = session[s].cmd
    BY <1>2 DEF SessionState, Locations, Blank
  <2>. HIDE DEF m, st
  <2>6. /\ Moved(s) /\ SameCommand(s) /\ PoliciesOK'
        /\ Approving(session'[s], scanned', pushed', signed', attested')
        /\ session'[s] = Blank \/ session'[s].at = "build"
    BY <1>1, <1>4, <2>4, <2>5, RecordsApprove
  <2>. QED
    BY <1>1, <2>6, BlankHas DEF Recorded, Publishing
<1>. QED
  BY <1>3, <1>4 DEF RecordBuild

LEMMA RecordScanRecords ==
  ASSUME PInv, NEW s \in Sessions, Accumulates, RecordScan(s)
  PROVE  Recorded(s) /\ session'[s].at \notin Publishing
<1>. DEFINE me == session[s]
            c == me.image
            p == me.platform
            old == me.mem.images[c]
            r == [old EXCEPT !.scans[p] = me.finding]
            m == [me.mem EXCEPT !.images[c] = r]
            st == [me EXCEPT !.at = "scan", !.image = None, !.platform = None,
                             !.finding = Blank.finding]
<1>1. IInv /\ me.at = "scanRecord" /\ Holds(s) /\ UNCHANGED <<promoted, scanned>>
  BY DEF PInv, RecordScan, Holds, history
<1>2. /\ me \in SessionState /\ InHand(me, origin, scanned)
      /\ me.mem \in Manifest /\ me.mem # None /\ c \in Images
      /\ p \in Platforms /\ old # None
  BY <1>1, Mine DEF InHand, AtImage, SessionState
<1>3. CASE End(s) /\ UNCHANGED manifest
  <2>1. Carried(s) /\ SameCommand(s) /\ Moved(s)
    BY <1>1, <1>3, Steps, BlankHas DEF Carried, SameCommand
  <2>. QED
    BY <1>1, <1>3, <2>1, Steps, BlankHas, CarriedRecords DEF Publishing
<1>4. CASE WriteManifest(s, [me.mem EXCEPT !.images[c].scans[p] = me.finding], st)
  <2>1. old \in Image /\ me.finding \in Finding
    BY <1>2 DEF Manifest, SessionState
  <2>2. r \in Image /\ r.attestations = old.attestations
    BY <1>2, <2>1 DEF Image
  <2>3. [me.mem EXCEPT !.images[c].scans[p] = me.finding] = m
    BY <1>2 DEF Manifest
  <2>4. WriteManifest(s, m, st)
    BY <1>4, <2>3
  <2>5. /\ GoodPolicies(me.mem, scanned)
        /\ old.attestations # None => ScansPassed(old.attestations, scanned)
    BY <1>2 DEF PInv, ApprovingOK, Approving, GoodPolicies
  <2>. HIDE DEF r
  <2>6. GoodPolicies(m, scanned)
    BY <1>2, <2>2, <2>5, EntryPolicies
  <2>7. st \in SessionState /\ st.at = "scan" /\ st.cmd = session[s].cmd
    BY <1>2 DEF SessionState, Locations, Blank, Finding
  <2>. HIDE DEF m, st
  <2>8. /\ Moved(s) /\ SameCommand(s) /\ PoliciesOK'
        /\ Approving(session'[s], scanned', pushed', signed', attested')
        /\ session'[s] = Blank \/ session'[s].at = "scan"
    BY <1>1, <2>4, <2>6, <2>7, RecordsApprove
  <2>. QED
    BY <1>1, <2>8, BlankHas DEF Recorded, Publishing
<1>. QED
  BY <1>3, <1>4 DEF RecordScan

LEMMA RecordAuditRecords ==
  ASSUME PInv, NEW s \in Sessions, Accumulates, RecordAudit(s)
  PROVE  Recorded(s) /\ session'[s].at \notin Publishing
<1>. DEFINE me == session[s]
            c == me.image
            old == me.mem.images[c]
            r == [old EXCEPT !.audit = me.finding]
            m == [me.mem EXCEPT !.images[c] = r]
            st == [me EXCEPT !.at = "audit", !.image = None, !.finding = Blank.finding]
<1>1. IInv /\ me.at = "auditRecord" /\ Holds(s) /\ UNCHANGED <<promoted, scanned>>
  BY DEF PInv, RecordAudit, Holds, history
<1>2. /\ me \in SessionState /\ InHand(me, origin, scanned)
      /\ me.mem \in Manifest /\ me.mem # None /\ c \in Images /\ old # None
  BY <1>1, Mine DEF InHand, AtImage, SessionState
<1>3. old \in Image /\ me.finding \in Finding
  BY <1>2 DEF Manifest, SessionState
<1>4. r \in Image /\ r.attestations = old.attestations
  BY <1>3 DEF Image
<1>5. [me.mem EXCEPT !.images[c].audit = me.finding] = m
  BY <1>2 DEF Manifest
<1>6. WriteManifest(s, m, st)
  BY <1>5 DEF RecordAudit
<1>7. /\ GoodPolicies(me.mem, scanned)
      /\ old.attestations # None => ScansPassed(old.attestations, scanned)
  BY <1>2 DEF PInv, ApprovingOK, Approving, GoodPolicies
<1>. HIDE DEF r
<1>8. GoodPolicies(m, scanned)
  BY <1>2, <1>4, <1>7, EntryPolicies
<1>9. st \in SessionState /\ st.at = "audit" /\ st.cmd = session[s].cmd
  BY <1>2 DEF SessionState, Locations, Blank, Finding
<1>. HIDE DEF m, st
<1>10. /\ Moved(s) /\ SameCommand(s) /\ PoliciesOK'
       /\ Approving(session'[s], scanned', pushed', signed', attested')
       /\ session'[s] = Blank \/ session'[s].at = "audit"
  BY <1>1, <1>6, <1>8, <1>9, RecordsApprove
<1>. QED
  BY <1>1, <1>10, BlankHas DEF Recorded, Publishing

(* The policy of an image that cleared its scans speaks of passed scans.   *)
LEMMA ClearedPolicy ==
  ASSUME NEW m \in Manifest, Complete(m), Cleared(m), NEW o, NEW sc, GoodManifest(m, o, sc),
         NEW c \in Images
  PROVE  ScansPassed(PolicyOf(m.images[c]), sc)
<1>. DEFINE r == m.images[c]
<1>1. r \in Image /\ GoodImage(c, r, o, sc)
  BY DEF Manifest, Complete, GoodManifest
<1>2. ASSUME NEW p \in Platforms
      PROVE  [scan |-> ScanOf(r, p), digest |-> r.digest, platform |-> p, passed |-> TRUE] \in sc
  <2>1. r.scans[p] # None /\ r.scans[p].passed /\ r.scans[p] \in Finding
    BY <1>1 DEF Cleared, Image
  <2>2. r.scans[p].passed = TRUE
    BY <2>1 DEF Finding
  <2>3. [scan |-> r.scans[p].scan, digest |-> r.digest, platform |-> p,
         passed |-> r.scans[p].passed] \in sc
    BY <1>1, <2>1 DEF GoodImage, Looked
  <2>4. ScanOf(r, p) = r.scans[p].scan
    BY <2>1 DEF ScanOf
  <2>. QED
    BY <2>2, <2>3, <2>4
<1>. QED
  BY <1>2 DEF ScansPassed, PolicyOf

LEMMA RecordPublicationRecords ==
  ASSUME PInv, NEW s \in Sessions, RecordPublication(s)
  PROVE  Recorded(s) /\ PublishStays(s)
<1>. DEFINE me == session[s]
            c == me.image
            old == me.mem.images[c]
            policy == PolicyOf(old)
            r == [old EXCEPT !.attestations = policy]
            m == [me.mem EXCEPT !.images[c] = r]
            st == [me EXCEPT !.at = "publish", !.image = None, !.digest = None]
<1>1. IInv /\ me.at = "publishRecord" /\ Holds(s) /\ UNCHANGED <<promoted, scanned>>
  BY DEF PInv, RecordPublication, Holds, history
<1>2. /\ me \in SessionState /\ InHand(me, origin, scanned)
      /\ me.mem \in Manifest /\ me.mem # None /\ c \in Images
      /\ Complete(me.mem) /\ GoodManifest(me.mem, origin, scanned)
  BY <1>1, Mine DEF InHand, AtImage, SessionState, Publishing
<1>3. GoodPolicies(me.mem, scanned) /\ Cleared(me.mem)
  BY <1>1, <1>2 DEF PInv, ApprovingOK, Approving, Publishing
<1>4. old \in Image /\ old # None
  BY <1>2 DEF Manifest, Complete
<1>5. policy \in Policy /\ ScansPassed(policy, scanned)
  BY <1>2, <1>3, <1>4, PolicyType, ClearedPolicy
<1>6. [me.mem EXCEPT !.images[c].attestations = policy] = m
  BY <1>2 DEF Manifest
<1>7. WriteManifest(s, m, st)
  BY <1>6 DEF RecordPublication
<1>. HIDE DEF policy
<1>8. r \in Image /\ r.attestations = policy /\ r.scans = old.scans
  BY <1>4, <1>5 DEF Image
<1>. HIDE DEF r
<1>9. GoodPolicies(m, scanned)
  BY <1>2, <1>3, <1>5, <1>8, EntryPolicies
<1>10. Cleared(m)
  BY <1>2, <1>3, <1>8, ManifestEntry DEF Cleared
<1>11. /\ st \in SessionState /\ st.at = "publish" /\ st.cmd = session[s].cmd
       /\ st.images = me.images /\ st.existing = me.existing
  BY <1>2, ConstantsAssumption DEF SessionState, Locations
<1>. HIDE DEF m, st
<1>12. /\ Moved(s) /\ SameCommand(s) /\ PoliciesOK'
       /\ Approving(session'[s], scanned', pushed', signed', attested')
       /\ \/ session'[s] = Blank
          \/ /\ session'[s].at = "publish" /\ session'[s].cmd = me.cmd
             /\ session'[s].images = me.images /\ session'[s].existing = me.existing
  BY <1>1, <1>7, <1>9, <1>10, <1>11, RecordsApprove
<1>. QED
  BY <1>1, <1>12 DEF Recorded, PublishStays, Publishing

LEMMA FinishRecords ==
  ASSUME PInv, NEW s \in Sessions, Accumulates, FinishPublication(s)
  PROVE  Recorded(s) /\ session'[s] = Blank
<1>. DEFINE me == session[s]
            m == [me.mem EXCEPT !.verified = TRUE]
<1>1. IInv /\ me.at = "finish" /\ Holds(s) /\ End(s) /\ UNCHANGED <<promoted, scanned>>
  BY DEF PInv, FinishPublication, Holds, history
<1>2. me \in SessionState /\ me.mem \in Manifest /\ me.mem # None
  BY <1>1, Mine DEF InHand, SessionState
<1>3. GoodPolicies(me.mem, scanned)
  BY <1>2 DEF PInv, ApprovingOK, Approving
<1>4. m.images = me.mem.images
  BY <1>2 DEF Manifest
<1>5. \/ manifest' = [manifest EXCEPT ![Dir(s)] = m]
      \/ manifest' = [manifest EXCEPT ![Dir(s)] = Torn]
  BY DEF FinishPublication, Dir
<1>. HIDE DEF m
<1>6. GoodPolicies(m, scanned)
  BY <1>3, <1>4 DEF GoodPolicies
<1>7. PoliciesOK'
  BY <1>1, <1>5, <1>6, SavedPolicies
<1>8. session'[s] = Blank /\ Moved(s) /\ Carried(s) /\ SameCommand(s)
  BY <1>1, Steps, BlankHas DEF Carried, SameCommand
<1>. QED
  BY <1>1, <1>7, <1>8, CarriedStays DEF Recorded

-----------------------------------------------------------------------------
(* Commands that load what others recorded.                                *)
LEMMA Opens ==
  ASSUME PInv, NEW s \in Sessions, Holds(s), Loaded(manifest[Dir(s)]) 
  PROVE  manifest[Dir(s)] \in Manifest /\ GoodPolicies(manifest[Dir(s)], scanned)
BY Mine DEF PInv, PoliciesOK

LEMMA OpenBuildRecords ==
  ASSUME PInv, NEW s \in Sessions, OpenBuild(s)
  PROVE  Recorded(s) /\ session'[s].at \notin Publishing
<1>1. /\ IInv /\ session[s].at = "open" /\ Holds(s)
      /\ UNCHANGED <<manifest, promoted, scanned>>
  BY DEF PInv, OpenBuild, Holds, history
<1>2. session \in [Sessions -> SessionState] /\ session[s] \in SessionState
  BY <1>1 DEF IInv, TypeOK
<1>3. PoliciesOK'
  BY <1>1 DEF PInv, PoliciesOK
<1>4. GoodPolicies(NewManifest, scanned)
  BY DEF NewManifest, GoodPolicies
<1>5. ASSUME NEW m, GoodPolicies(m, scanned),
             Set(s, [session[s] EXCEPT !.at = "build", !.mem = m])
      PROVE  Recorded(s) /\ session'[s].at \notin Publishing
  <2>1. /\ Moved(s) /\ session'[s].at = "build" /\ session'[s].mem = m
        /\ session'[s].cmd = session[s].cmd
    BY <1>2, <1>5 DEF Set, Moved, SessionState
  <2>. QED
    BY <1>1, <1>3, <1>5, <2>1 DEF Recorded, SameCommand, Approving, Publishing
<1>6. CASE End(s)
  BY <1>1, <1>3, <1>6, Steps, BlankHas DEF Recorded, SameCommand, Approving, Publishing
<1>7. \/ Set(s, [session[s] EXCEPT !.at = "build", !.mem = NewManifest])
      \/ /\ Loaded(manifest[Dir(s)])
         /\ Set(s, [session[s] EXCEPT !.at = "build", !.mem = manifest[Dir(s)]])
      \/ End(s)
  BY DEF OpenBuild
<1>. QED
  BY <1>1, <1>4, <1>5, <1>6, <1>7, Opens

LEMMA OpenScanRecords ==
  ASSUME PInv, NEW s \in Sessions, OpenScan(s)
  PROVE  Recorded(s) /\ session'[s].at \notin Publishing
<1>. DEFINE m == manifest[Dir(s)]
            loc == IF session[s].cmd = "scan" THEN "scan" ELSE "audit"
            prs == IF session[s].cmd = "scan" THEN session[s].images \X Platforms ELSE {}
<1>1. /\ IInv /\ session[s].at = "open" /\ Holds(s)
      /\ UNCHANGED <<manifest, promoted, scanned>>
  BY DEF PInv, OpenScan, Holds, history
<1>2. session \in [Sessions -> SessionState] /\ session[s] \in SessionState
  BY <1>1 DEF IInv, TypeOK
<1>3. PoliciesOK'
  BY <1>1 DEF PInv, PoliciesOK
<1>4. CASE Loaded(m) /\ Set(s, [session[s] EXCEPT !.at = loc, !.mem = m, !.pairs = prs])
  <2>1. loc \in {"scan", "audit"} /\ GoodPolicies(m, scanned)
    BY <1>1, <1>4, Opens
  <2>. HIDE DEF loc, prs
  <2>2. /\ Moved(s) /\ session'[s].at = loc /\ session'[s].mem = m
        /\ session'[s].cmd = session[s].cmd
    BY <1>2, <1>4 DEF Set, Moved, SessionState
  <2>. HIDE DEF m
  <2>. QED
    BY <1>1, <1>3, <2>1, <2>2 DEF Recorded, SameCommand, Approving, Publishing
<1>5. CASE End(s)
  BY <1>1, <1>3, <1>5, Steps, BlankHas DEF Recorded, SameCommand, Approving, Publishing
<1>. QED
  BY <1>4, <1>5 DEF OpenScan, Dir

LEMMA ValidateRecords ==
  ASSUME PInv, NEW s \in Sessions, Validate(s)
  PROVE  /\ Recorded(s) /\ session[s].cmd = "publish"
         /\ \/ session'[s] = Blank
            \/ /\ session'[s].at = "lookup" /\ session'[s].cmd = "publish"
               /\ session'[s].images = Images
<1>. DEFINE m == manifest[Dir(s)]
<1>1. /\ IInv /\ session[s].at = "open" /\ Holds(s) /\ session[s].cmd = "publish"
      /\ UNCHANGED <<manifest, promoted, scanned>>
  BY DEF PInv, Validate, Holds
<1>2. session \in [Sessions -> SessionState] /\ session[s] \in SessionState
  BY <1>1 DEF IInv, TypeOK
<1>3. PoliciesOK' /\ session[s].images = Images
  BY <1>1 DEF PInv, PoliciesOK, ApprovingOK, Approving
<1>4. CASE Publishable(Dir(s)) /\ Set(s, [session[s] EXCEPT !.at = "lookup", !.mem = m])
  <2>1. Cleared(m) /\ GoodPolicies(m, scanned)
    BY <1>1, <1>4, Opens DEF Publishable, Gates, Cleared
  <2>2. /\ Moved(s) /\ session'[s].at = "lookup" /\ session'[s].mem = m
        /\ session'[s].cmd = session[s].cmd /\ session'[s].images = session[s].images
    BY <1>2, <1>4 DEF Set, Moved, SessionState
  <2>. HIDE DEF m
  <2>. QED
    BY <1>1, <1>3, <2>1, <2>2 DEF Recorded, SameCommand, Approving, Publishing
<1>5. CASE End(s)
  <2>1. session'[s] = Blank /\ Moved(s)
    BY <1>1, <1>5, Steps
  <2>2. /\ SameCommand(s)
        /\ Approving(session'[s], scanned', pushed', signed', attested')
    BY <2>1, BlankHas DEF SameCommand, Approving, Publishing
  <2>. QED
    BY <1>1, <1>3, <2>1, <2>2 DEF Recorded
<1>. QED
  BY <1>4, <1>5 DEF Validate, Dir

LEMMA OpenPromoteRecords ==
  ASSUME PInv, NEW s \in Sessions, OpenPromote(s)
  PROVE  Recorded(s) /\ session'[s].at \notin Publishing
<1>. DEFINE m == manifest[Dir(s)]
<1>1. /\ IInv /\ session[s].at = "open" /\ Holds(s) /\ session[s].cmd = "promote"
      /\ UNCHANGED <<manifest, promoted, scanned>>
  BY DEF PInv, OpenPromote, Holds, history
<1>2. session \in [Sessions -> SessionState] /\ session[s] \in SessionState
  BY <1>1 DEF IInv, TypeOK
<1>3. PoliciesOK' /\ session[s].images = Images
  BY <1>1 DEF PInv, PoliciesOK, ApprovingOK, Approving
<1>4. CASE Loaded(m) /\ Set(s, [session[s] EXCEPT !.at = "promote", !.mem = m])
  <2>1. GoodPolicies(m, scanned)
    BY <1>1, <1>4, Opens
  <2>2. /\ Moved(s) /\ session'[s].at = "promote" /\ session'[s].mem = m
        /\ session'[s].cmd = session[s].cmd /\ session'[s].images = session[s].images
    BY <1>2, <1>4 DEF Set, Moved, SessionState
  <2>. HIDE DEF m
  <2>. QED
    BY <1>1, <1>3, <2>1, <2>2 DEF Recorded, SameCommand, Approving, Publishing
<1>5. CASE End(s)
  BY <1>1, <1>3, <1>5, Steps, BlankHas DEF Recorded, SameCommand, Approving, Publishing
<1>. QED
  BY <1>4, <1>5 DEF OpenPromote, Dir

(* What promote approves is what the registry shows.                       *)
LEMMA BackedStands ==
  ASSUME PInv, NEW d \in Dirs, NEW m \in Manifest, NEW c \in Images, Complete(m),
         GoodPolicies(m, scanned), Backed(d, m, c)
  PROVE  Stands(PolicyOf(m.images[c]), scanned, pushed, signed, attested)
<1>. DEFINE r == m.images[c]
            q == PolicyOf(r)
<1>1. r \in Image /\ r # None
  BY DEF Manifest, Complete
<1>2. q \in Policy /\ q # None /\ q.digest = r.digest
  BY <1>1, PolicyType, ConstantsAssumption DEF PolicyOf
<1>3. /\ r.digest \in pushed /\ r.attestations = q
      /\ r.digest \in signed /\ Attestations(r.digest) = Predicates(q)
  BY DEF Backed, Verified
<1>4. ScansPassed(q, scanned)
  BY <1>1, <1>2, <1>3 DEF GoodPolicies
<1>. HIDE DEF q
<1>5. ASSUME NEW y \in Predicates(q) PROVE <<q.digest, y>> \in attested
  <2>1. PICK a \in attested : a[1] = r.digest /\ a[2] = y
    BY <1>3, <1>5 DEF Attestations
  <2>2. attested \subseteq (Digest \cup {Foreign}) \X Nat
    BY DEF PInv, IInv, TypeOK
  <2>3. a = <<a[1], a[2]>>
    BY <2>2
  <2>. QED
    BY <1>2, <2>1, <2>3
<1>. QED
  BY <1>2, <1>3, <1>4, <1>5 DEF Stands, q

LEMMA CheckRecords ==
  ASSUME PInv, NEW s \in Sessions, CheckPromotion(s)
  PROVE  Recorded(s) /\ session'[s].at \notin Publishing
<1>. DEFINE me == session[s]
<1>1. /\ IInv /\ me.at = "promote" /\ Holds(s)
      /\ UNCHANGED <<manifest, promoted, scanned, pushed, signed, attested>>
  BY DEF PInv, CheckPromotion, Holds, registry, history
<1>2. session \in [Sessions -> SessionState] /\ me \in SessionState
  BY <1>1 DEF IInv, TypeOK
<1>3. /\ PoliciesOK' /\ me.dir \in Dirs /\ me.mem \in Manifest /\ me.mem # None
      /\ Complete(me.mem)
  BY <1>1, <1>2, Mine DEF PInv, PoliciesOK, InHand, SessionState
<1>4. Approving(me, scanned, pushed, signed, attested)
  BY DEF PInv, ApprovingOK
<1>5. GoodPolicies(me.mem, scanned)
  BY <1>3, <1>4 DEF Approving
<1>6. CASE me.images = {} /\ Goto(s, "promoteWrite")
  <2>1. /\ Moved(s) /\ session'[s].at = "promoteWrite" /\ session'[s].mem = me.mem
        /\ session'[s].cmd = me.cmd
    BY <1>2, <1>6 DEF Goto, Set, Moved, SessionState
  <2>2. \A c \in Images : Stands(PolicyOf(me.mem.images[c]), scanned, pushed, signed, attested)
    BY <1>1, <1>4, <1>6 DEF Approving
  <2>. QED
    BY <1>1, <1>3, <1>5, <2>1, <2>2 DEF Recorded, SameCommand, Approving, Publishing
<1>7. ASSUME NEW c \in me.images, Backed(me.dir, me.mem, c),
             Set(s, [me EXCEPT !.images = @ \ {c}])
      PROVE  Recorded(s) /\ session'[s].at \notin Publishing
  <2>1. /\ Moved(s) /\ session'[s].at = "promote" /\ session'[s].mem = me.mem
        /\ session'[s].cmd = me.cmd /\ session'[s].images = me.images \ {c}
    BY <1>1, <1>2, <1>7 DEF Set, Moved, SessionState
  <2>2. c \in Images
    BY <1>2, <1>7 DEF SessionState
  <2>3. Stands(PolicyOf(me.mem.images[c]), scanned, pushed, signed, attested)
    BY <1>3, <1>5, <1>7, <2>2, BackedStands
  <2>4. \A k \in Images \ session'[s].images :
          Stands(PolicyOf(me.mem.images[k]), scanned, pushed, signed, attested)
    BY <1>1, <1>4, <2>1, <2>3 DEF Approving
  <2>. QED
    BY <1>1, <1>3, <1>5, <2>1, <2>4 DEF Recorded, SameCommand, Approving, Publishing
<1>8. CASE End(s)
  <2>1. session'[s] = Blank /\ Moved(s)
    BY <1>1, <1>8, Steps
  <2>2. /\ SameCommand(s)
        /\ Approving(session'[s], scanned', pushed', signed', attested')
    BY <2>1, BlankHas DEF SameCommand, Approving, Publishing
  <2>. QED
    BY <1>1, <1>3, <2>1, <2>2, BlankHas DEF Recorded, Publishing
<1>. QED
  BY <1>6, <1>7, <1>8 DEF CheckPromotion

LEMMA WritePromotedRecords ==
  ASSUME PInv, NEW s \in Sessions, WritePromoted(s)
  PROVE  /\ Moved(s) /\ session'[s] = Blank
         /\ UNCHANGED <<manifest, scanned, pushed, signed, attested, tag, origin>>
         /\ session[s].dir \in Dirs
         /\ promoted'[session[s].dir] = [c \in Images |-> PolicyOf(session[s].mem.images[c])]
         /\ \A d \in Dirs : d # session[s].dir => promoted'[d] = promoted[d]
         /\ \A c \in Images : Stands(PolicyOf(session[s].mem.images[c]),
                                     scanned, pushed, signed, attested)
         /\ \A c \in Images : GoodImage(c, session[s].mem.images[c], origin, scanned)
<1>. DEFINE me == session[s]
            lock == [c \in Images |-> PolicyOf(me.mem.images[c])]
<1>1. /\ IInv /\ me.at = "promoteWrite" /\ End(s) /\ Holds(s)
      /\ UNCHANGED <<manifest, scanned, pushed, signed, attested, tag, origin>>
      /\ promoted' = [promoted EXCEPT ![me.dir] = lock]
  BY DEF PInv, WritePromoted, Holds, registry, history
<1>2. me.dir \in Dirs /\ promoted \in [Dirs -> [Images -> Policy] \cup {None}]
  BY <1>1, Mine DEF IInv, TypeOK, InHand
<1>3. \A c \in Images : Stands(PolicyOf(me.mem.images[c]), scanned, pushed, signed, attested)
  BY <1>1 DEF PInv, ApprovingOK, Approving
<1>4. \A c \in Images : GoodImage(c, me.mem.images[c], origin, scanned)
  BY <1>1, Mine DEF InHand, GoodManifest, Complete
<1>. HIDE DEF lock
<1>5. promoted'[me.dir] = lock /\ \A d \in Dirs : d # me.dir => promoted'[d] = promoted[d]
  BY <1>1, <1>2
<1>6. Moved(s) /\ session'[s] = Blank
  BY <1>1, Steps
<1>. QED
  BY <1>1, <1>2, <1>3, <1>4, <1>5, <1>6 DEF lock

-----------------------------------------------------------------------------
(* A command is started and waits for the lock.                            *)
LEMMA StartRecords ==
  ASSUME PInv, NEW s \in Sessions, Start(s)
  PROVE  /\ Moved(s) /\ session'[s].at = "lock" /\ UNCHANGED <<manifest, promoted, scanned>>
         /\ Approving(session'[s], scanned', pushed', signed', attested')
         /\ session'[s].cmd = "publish" => PublisherFree
<1>1. session \in [Sessions -> SessionState] /\ UNCHANGED <<manifest, promoted, scanned>>
  BY DEF PInv, IInv, TypeOK, Start, history
<1>2. PICK d \in Dirs, cmd \in Commands, cs \in SUBSET Images :
        /\ Invoke(s, cmd, d, cs)
        /\ cmd \in {"publish", "promote"} => cs = Images
        /\ cmd = "publish" => PublisherFree
  BY ConstantsAssumption DEF Start, Commands, Chosen
<1>3. Set(s, [Blank EXCEPT !.at = "lock", !.cmd = cmd, !.dir = d, !.images = cs])
  BY <1>2 DEF Invoke
<1>4. /\ Moved(s) /\ session'[s].at = "lock" /\ session'[s].cmd = cmd
      /\ session'[s].images = cs /\ session'[s].mem = None
  BY <1>1, <1>3 DEF Set, Moved, Blank
<1>. QED
  BY <1>1, <1>2, <1>4 DEF Approving, Publishing

LEMMA AcquireRecords ==
  ASSUME PInv, NEW s \in Sessions, Accumulates, Acquire(s)
  PROVE  Recorded(s) /\ session'[s].at = "open"
<1>1. /\ session \in [Sessions -> SessionState] /\ session[s] \in SessionState
      /\ UNCHANGED <<manifest, promoted, scanned>> /\ session[s].at = "lock"
  BY DEF PInv, IInv, TypeOK, Acquire, history
<1>2. /\ Moved(s) /\ session'[s].at = "open" /\ session'[s].mem = session[s].mem
      /\ session'[s].cmd = session[s].cmd /\ session'[s].images = session[s].images
  BY <1>1 DEF Acquire, Goto, Set, Moved, SessionState
<1>3. PoliciesOK' /\ Approving(session[s], scanned, pushed, signed, attested)
  BY <1>1 DEF PInv, PoliciesOK, ApprovingOK
<1>. QED
  BY <1>1, <1>2, <1>3 DEF Recorded, SameCommand, Approving, Publishing

-----------------------------------------------------------------------------
(* The invariant of promotions.                                            *)
LEMMA WorkRecords ==
  ASSUME PInv, NEW s \in Sessions, Accumulates, Work(s) \/ Interrupted(s) \/ Acquire(s),
         ~WritePromoted(s)
  PROVE  Recorded(s)
<1>1. IInv
  BY DEF PInv
<1>2. CASE HashInputs(s) \/ Buildx(s) \/ Done(s) \/ Interrupted(s)
  BY <1>1, <1>2, BuildsCarry, CarriedRecords
<1>3. CASE Report(s) \/ Sbom(s) \/ Audit(s)
  BY <1>1, <1>3, ScansCarry, CarriedRecords
<1>4. CASE \/ Lookup(s) \/ LookedUp(s) \/ NextImage(s)
           \/ Push(s) \/ Recheck(s) \/ Sign(s) \/ Attest(s) \/ VerifyPublished(s)
  <2>1. UNCHANGED <<manifest, promoted>>
    BY <1>4 DEF Lookup, LookedUp, NextImage, Push, Recheck, Sign, Attest, VerifyPublished
  <2>2. Carried(s) /\ SameCommand(s) /\ Moved(s)
    BY <1>1, <1>4, PublisherCarries
  <2>. QED
    BY <2>1, <2>2, CarriedRecords
<1>5. CASE RecordBuild(s) \/ RecordScan(s) \/ RecordAudit(s)
  BY <1>5, RecordBuildRecords, RecordScanRecords, RecordAuditRecords
<1>6. CASE RecordPublication(s) \/ FinishPublication(s)
  BY <1>6, RecordPublicationRecords, FinishRecords
<1>7. CASE OpenBuild(s) \/ OpenScan(s) \/ Validate(s) \/ OpenPromote(s) \/ CheckPromotion(s)
  BY <1>7, OpenBuildRecords, OpenScanRecords, ValidateRecords, OpenPromoteRecords, CheckRecords
<1>8. CASE Acquire(s)
  BY <1>8, AcquireRecords
<1>. QED
  BY <1>2, <1>3, <1>4, <1>5, <1>6, <1>7, <1>8 DEF Work

LEMMA PromotedStays ==
  ASSUME PInv, Accumulates, promoted' = promoted
  PROVE  PromotedOK'
BY StandsStill DEF PInv, PromotedOK

LEMMA OthersApprove ==
  ASSUME PInv, Accumulates, NEW s \in Sessions, Moved(s),
         Approving(session'[s], scanned', pushed', signed', attested')
  PROVE  ApprovingOK'
<1>1. ASSUME NEW q \in Sessions
      PROVE  Approving(session'[q], scanned', pushed', signed', attested')
  <2>1. CASE q = s
    BY <2>1
  <2>2. CASE q # s
    <3>1. session'[q] = session[q]
      BY <2>2 DEF Moved
    <3>2. Approving(session[q], scanned', pushed', signed', attested')
      BY ApprovingStays DEF PInv, ApprovingOK
    <3>. QED
      BY <3>1, <3>2
  <2>. QED
    BY <2>1, <2>2
<1>. QED
  BY <1>1 DEF ApprovingOK

LEMMA WritePromotedKeepsP ==
  ASSUME PInv, Accumulates, NEW s \in Sessions, WritePromoted(s)
  PROVE  ApprovingOK' /\ PoliciesOK' /\ PromotedOK'
<1>. DEFINE me == session[s]
<1>1. /\ Moved(s) /\ session'[s] = Blank
      /\ UNCHANGED <<manifest, scanned, pushed, signed, attested, tag, origin>>
      /\ me.dir \in Dirs
      /\ promoted'[me.dir] = [c \in Images |-> PolicyOf(me.mem.images[c])]
      /\ \A d \in Dirs : d # me.dir => promoted'[d] = promoted[d]
      /\ \A c \in Images : Stands(PolicyOf(me.mem.images[c]), scanned, pushed, signed, attested)
  BY WritePromotedRecords
<1>2. Approving(session'[s], scanned', pushed', signed', attested')
  BY <1>1, BlankHas DEF Approving, Publishing
<1>3. ApprovingOK'
  BY <1>1, <1>2, OthersApprove
<1>4. PoliciesOK'
  BY <1>1 DEF PInv, PoliciesOK
<1>5. ASSUME NEW d \in Dirs, NEW c \in Images, promoted'[d] # None
      PROVE  Stands(promoted'[d][c], scanned, pushed, signed, attested)
  BY <1>1, <1>5 DEF PInv, PromotedOK
<1>. QED
  BY <1>1, <1>3, <1>4, <1>5 DEF PromotedOK

LEMMA StepKeepsP == PInv /\ [Next]_vars => PInv'
<1>. SUFFICES ASSUME PInv, [Next]_vars PROVE PInv'
  OBVIOUS
<1>1. IInv' /\ Accumulates
  BY StepKeeps, NothingLost DEF PInv
<1>2. ASSUME NEW s \in Sessions, Work(s) \/ Acquire(s) \/ Interrupted(s) PROVE PInv'
  <2>1. CASE WritePromoted(s)
    BY <1>1, <2>1, WritePromotedKeepsP DEF PInv
  <2>2. CASE ~WritePromoted(s)
    <3>1. Recorded(s)
      BY <1>1, <1>2, <2>2, WorkRecords
    <3>2. ApprovingOK' /\ PoliciesOK' /\ PromotedOK'
      BY <1>1, <3>1, OthersApprove, PromotedStays DEF Recorded
    <3>. QED
      BY <1>1, <3>2 DEF PInv
  <2>. QED
    BY <2>1, <2>2
<1>3. ASSUME NEW s \in Sessions, Start(s) PROVE PInv'
  <2>1. /\ Moved(s) /\ UNCHANGED <<manifest, promoted, scanned>>
        /\ Approving(session'[s], scanned', pushed', signed', attested')
    BY <1>3, StartRecords
  <2>2. ApprovingOK' /\ PromotedOK'
    BY <1>1, <2>1, OthersApprove, PromotedStays
  <2>3. PoliciesOK'
    BY <2>1 DEF PInv, PoliciesOK
  <2>. QED
    BY <1>1, <2>2, <2>3 DEF PInv
<1>4. CASE ChangeSource \/ Expire \/ ForeignPush \/ UNCHANGED vars
  <2>1. UNCHANGED <<manifest, session, promoted, scanned>>
    BY <1>4 DEF ChangeSource, Expire, ForeignPush, history, vars
  <2>2. ApprovingOK'
    BY <1>1, <2>1, ApprovingStays DEF PInv, ApprovingOK
  <2>3. PoliciesOK' /\ PromotedOK'
    BY <1>1, <2>1, PromotedStays DEF PInv, PoliciesOK
  <2>. QED
    BY <1>1, <2>2, <2>3 DEF PInv
<1>. QED
  BY <1>2, <1>3, <1>4 DEF Next

LEMMA InitHoldsP == Init => PInv
<1>. SUFFICES ASSUME Init PROVE PInv
  OBVIOUS
<1>1. \A s \in Sessions : session[s] = Blank
  BY DEF Init
<1>2. ApprovingOK
  BY <1>1, BlankHas DEF ApprovingOK, Approving, Publishing
<1>3. PoliciesOK /\ PromotedOK
  BY DEF Init, PoliciesOK, Loaded, PromotedOK
<1>. QED
  BY <1>2, <1>3, InitHolds DEF PInv

LEMMA InvarianceP == Spec => []PInv
BY InitHoldsP, StepKeepsP, PTL DEF Spec

(* A promoted lock is backed by the registry, although publication,        *)
(* rescans and promotion run from several directories, stop anywhere, and  *)
(* others push: each digest is there, signed, and attested with the build  *)
(* metadata and the SPDX documents of its own passed scans.                *)
THEOREM PromotionsAreBacked == Spec => []PromotedIsBacked
<1>1. PInv => PromotedIsBacked
  <2>. SUFFICES ASSUME PInv, NEW d \in Dirs, NEW c \in Images, promoted[d] # None
                PROVE  /\ promoted[d][c].digest \in pushed \cap signed
                       /\ Predicates(promoted[d][c]) \subseteq Attestations(promoted[d][c].digest)
                       /\ ScansPassed(promoted[d][c], scanned)
    BY DEF PromotedIsBacked, ScansPassed
  <2>. DEFINE q == promoted[d][c]
  <2>1. Stands(q, scanned, pushed, signed, attested)
    BY DEF PInv, PromotedOK
  <2>. HIDE DEF q
  <2>2. ASSUME NEW y \in Predicates(q) PROVE y \in Attestations(q.digest)
    <3>1. <<q.digest, y>> \in attested
      BY <2>1, <2>2 DEF Stands
    <3>2. <<q.digest, y>>[1] = q.digest /\ <<q.digest, y>>[2] = y
      OBVIOUS
    <3>. HIDE DEF Predicates
    <3>. QED
      BY <3>1, <3>2 DEF Attestations
  <2>. QED
    BY <2>1, <2>2 DEF Stands, q
<1>. QED
  BY <1>1, InvarianceP, PTL

-----------------------------------------------------------------------------
(* The tags.                                                               *)
LEMMA TagsStay ==
  ASSUME NEW s \in Sessions, Work(s) \/ Start(s) \/ Acquire(s) \/ Interrupted(s), ~Push(s)
  PROVE  tag' = tag /\ pushed' = pushed
<1>1. CASE Start(s) \/ Acquire(s) \/ Interrupted(s)
  BY <1>1 DEF Start, Acquire, Interrupted, registry
<1>2. CASE Work(s)
  BY <1>2 DEF Work, OpenBuild, HashInputs, Buildx, RecordBuild, OpenScan, Report, Sbom, RecordScan,
              Audit, RecordAudit, Validate, Lookup, LookedUp, NextImage, Recheck, Sign, Attest,
              VerifyPublished, RecordPublication, FinishPublication, OpenPromote,
              CheckPromotion, WritePromoted, Done, registry
<1>. QED
  BY <1>1, <1>2

LEMMA MemberOfSeq ==
  ASSUME NEW S, NEW q \in Seq(S), NEW i \in DOMAIN q
  PROVE  q[i] \in S /\ i \in Nat \ {0}
OBVIOUS

LEMMA BuildsStay ==
  ASSUME IInv, NEW s \in Sessions, Work(s) \/ Start(s) \/ Acquire(s) \/ Interrupted(s)
  PROVE  \A x \in DOMAIN origin : x \in DOMAIN origin' /\ origin'[x] = origin[x]
<1>1. CASE Buildx(s)
  <2>1. origin \in Seq([rev : Nat, text : Nat, image : Images])
    BY DEF IInv, TypeOK
  <2>. DEFINE me == session[s]
              e == [rev |-> me.mem.rev, text |-> tree.text, image |-> me.image]
  <2>2. me.image \in Images /\ me.mem \in Manifest /\ tree \in Source
    BY <1>1, Mine DEF Buildx, Holds, InHand, AtImage, SessionState, IInv, TypeOK
  <2>3. e \in [rev : Nat, text : Nat, image : Images]
    BY <2>2 DEF Manifest, Source
  <2>4. origin' = origin \/ origin' = Append(origin, e)
    BY <1>1 DEF Buildx
  <2>. HIDE DEF e
  <2>5. CASE origin' = Append(origin, e)
    <3>1. /\ DOMAIN origin' = DOMAIN origin \cup {Len(origin) + 1}
          /\ \A x \in DOMAIN origin : origin'[x] = origin[x]
      BY <2>1, <2>3, <2>5
    <3>. QED
      BY <3>1
  <2>. QED
    BY <2>4, <2>5
<1>2. CASE ~Buildx(s)
  <2>1. CASE Start(s) \/ Acquire(s) \/ Interrupted(s)
    BY <2>1 DEF Start, Acquire, Interrupted, history
  <2>2. CASE Work(s)
    BY <1>2, <2>2 DEF Work, OpenBuild, HashInputs, RecordBuild, OpenScan, Report, Sbom,
                      RecordScan, Audit, RecordAudit, Validate, Lookup, LookedUp, NextImage,
                      Push, Recheck, Sign, Attest, VerifyPublished, RecordPublication,
                      FinishPublication, OpenPromote, CheckPromotion, WritePromoted, Done, history
  <2>. QED
    BY <2>1, <2>2
<1>. QED
  BY <1>1, <1>2

(* The step of the publisher that sets a tag.                              *)
LEMMA PushSets ==
  ASSUME TInv, NEW s \in Sessions, Push(s), UNCHANGED origin
  PROVE  \/ UNCHANGED <<tag, pushed>>
         \/ \E c \in Images, x \in DOMAIN origin :
              /\ x \in Digest /\ origin[x].image = c /\ tag[c] = None /\ c \notin session[s].images
              /\ tag' = [tag EXCEPT ![c] = x] /\ pushed' = pushed \cup {x}
<1>. DEFINE me == session[s]
            c == me.image
            x == me.mem.images[c].digest
<1>1. IInv /\ me.at = "push" /\ FreeTags(me, tag)
  BY DEF TInv, PInv, FreeTagsOK, Push
<1>2. /\ me \in SessionState /\ InHand(me, origin, scanned) /\ c \in Images
      /\ me.mem \in Manifest /\ me.mem # None /\ Complete(me.mem)
  BY <1>1, Mine DEF InHand, SessionState, AtImage, Publishing
<1>3. x \in Digest /\ x \in DOMAIN origin /\ origin[x].image = c
  BY <1>2 DEF InHand, GoodManifest, GoodImage, Complete, Manifest, Image
<1>4. c \notin me.images /\ tag[c] = None
  BY <1>1 DEF FreeTags
<1>5. \/ tag' = [tag EXCEPT ![c] = x] /\ pushed' = pushed \cup {x}
      \/ UNCHANGED <<tag, pushed>>
  BY DEF Push
<1>. HIDE DEF x, c
<1>. QED
  BY <1>2, <1>3, <1>4, <1>5

LEMMA PushKeepsTags ==
  ASSUME TInv, NEW s \in Sessions, Push(s), UNCHANGED origin
  PROVE  /\ PushedIsTagged'
         /\ \A c \in Images \cap session[s].images : tag[c] = None => tag'[c] = None
<1>1. CASE UNCHANGED <<tag, pushed>>
  BY <1>1 DEF TInv, PushedIsTagged
<1>2. ASSUME NEW c \in Images, NEW x \in DOMAIN origin, origin[x].image = c, tag[c] = None,
             c \notin session[s].images,
             tag' = [tag EXCEPT ![c] = x], pushed' = pushed \cup {x}
      PROVE  /\ PushedIsTagged'
             /\ \A k \in Images \cap session[s].images : tag[k] = None => tag'[k] = None
  <2>1. /\ tag \in [Images -> Digest \cup {None, Foreign}]
        /\ origin \in Seq([rev : Nat, text : Nat, image : Images])
    BY DEF TInv, PInv, IInv, TypeOK
  <2>2. tag'[c] = x /\ \A k \in Images : k # c => tag'[k] = tag[k]
    BY <1>2, <2>1
  <2>3. ASSUME NEW y \in pushed PROVE y \in DOMAIN origin /\ tag'[origin[y].image] = y
    <3>1. y \in DOMAIN origin /\ tag[origin[y].image] = y
      BY <2>3 DEF TInv, PushedIsTagged
    <3>2. origin[y].image \in Images /\ y \in Digest
      <4>1. origin[y] \in [rev : Nat, text : Nat, image : Images] /\ y \in Nat \ {0}
        BY <2>1, <3>1, MemberOfSeq
      <4>. QED
        BY <4>1 DEF Digest
    <3>3. y # None
      BY <3>2, ConstantsAssumption
    <3>4. origin[y].image # c
      BY <1>2, <3>1, <3>3
    <3>. QED
      BY <2>2, <3>1, <3>2, <3>4
  <2>4. PushedIsTagged'
    BY <1>2, <2>2, <2>3 DEF PushedIsTagged
  <2>. QED
    BY <1>2, <2>2, <2>4
<1>. QED
  BY <1>1, <1>2, PushSets

(* What the publisher still has to push stays free.                        *)
LEMMA FreeStays ==
  ASSUME TInv, NEW s \in Sessions, Work(s) \/ Start(s) \/ Acquire(s) \/ Interrupted(s)
  PROVE  FreeTags(session'[s], tag')
<1>. DEFINE me == session[s]
            new == session'[s]
<1>1. IInv /\ PInv /\ FreeTags(me, tag) /\ me \in SessionState
  BY DEF TInv, PInv, IInv, TypeOK, FreeTagsOK
<1>2. CASE new.at \notin Publishing
  BY <1>2 DEF FreeTags, Publishing
<1>3. CASE Validate(s)
  BY <1>1, <1>3, ValidateRecords, BlankHas DEF FreeTags, Publishing
<1>4. CASE Lookup(s)
  <2>1. tag' = tag
    BY <1>4 DEF Lookup, registry
  <2>2. CASE new = Blank
    BY <2>2, <1>2, BlankHas DEF Publishing
  <2>3. ASSUME NEW c \in me.images, new.at = "lookup", new.cmd = me.cmd, me.at = "lookup",
               new.images = me.images \ {c},
               \/ tag[c] = None /\ new.existing = me.existing
               \/ new.existing = me.existing \cup {c}
        PROVE  FreeTags(new, tag)
    <3>1. \A k \in Images \ (me.images \cup me.existing) : tag[k] = None
      BY <1>1, <2>3 DEF FreeTags
    <3>. HIDE DEF new
    <3>2. \A k \in Images \ (new.images \cup new.existing) : tag[k] = None
      BY <2>3, <3>1
    <3>. QED
      BY <1>1, <2>3, <3>2 DEF FreeTags, Publishing
  <2>. QED
    BY <1>1, <1>4, <2>1, <2>2, <2>3, LookupMoves
<1>5. CASE LookedUp(s)
  <2>1. /\ tag' = tag /\ me.at = "lookup" /\ me.images = {} /\ new.at = "publish"
        /\ new.cmd = me.cmd /\ new.images = Images /\ new.existing = me.existing
    BY <1>1, <1>5, LookedUpMoves DEF LookedUp, registry
  <2>2. me.cmd = "publish" /\ \A k \in Images \ me.existing : tag[k] = None
    BY <1>1, <2>1 DEF FreeTags, Publishing
  <2>. HIDE DEF new, me
  <2>3. FreeTags(new, tag')
    BY <2>1, <2>2 DEF FreeTags, Publishing
  <2>. QED
    BY <2>3 DEF new
<1>6. CASE NextImage(s)
  <2>1. /\ tag' = tag /\ me.at = "publish" /\ new.cmd = me.cmd /\ new.existing = me.existing
        /\ \/ new.at = "finish" /\ new.images = me.images
           \/ /\ new.at \in {"recheck", "push"}
              /\ \E c \in me.images :
                   /\ new.image = c /\ new.images = me.images \ {c}
                   /\ new.at = "push" => c \notin me.existing
    BY <1>1, <1>6, NextImageMoves DEF NextImage, registry
  <2>2. me.cmd = "publish" /\ \A k \in me.images \ me.existing : tag[k] = None
    BY <1>1, <2>1 DEF FreeTags, Publishing
  <2>. HIDE DEF new, me
  <2>3. new.images \subseteq me.images
    BY <2>1
  <2>4. new.at = "push" => new.image \notin new.images /\ tag[new.image] = None
    BY <2>1, <2>2
  <2>5. FreeTags(new, tag')
    BY <2>1, <2>2, <2>3, <2>4 DEF FreeTags, Publishing
  <2>. QED
    BY <2>5 DEF new
<1>7. CASE Push(s)
  <2>1. UNCHANGED origin
    BY <1>7 DEF Push, history
  <2>2. \A c \in Images \cap me.images : tag[c] = None => tag'[c] = None
    BY <1>7, <2>1, PushKeepsTags
  <2>3. PublishStays(s)
    BY <1>1, <1>7, PublishMoves
  <2>4. me.images \subseteq Images
    BY <1>1 DEF SessionState
  <2>. QED
    BY <1>1, <1>2, <2>2, <2>3, <2>4, BlankHas DEF PublishStays, FreeTags, Publishing
<1>8. CASE Recheck(s) \/ Sign(s) \/ Attest(s) \/ VerifyPublished(s) \/ RecordPublication(s)
  <2>1. PublishStays(s)
    BY <1>1, <1>8, PublishMoves, RecordPublicationRecords
  <2>2. tag' = tag
    BY <1>8 DEF Recheck, Sign, Attest, VerifyPublished, RecordPublication, registry
  <2>. QED
    BY <1>1, <1>2, <2>1, <2>2, BlankHas DEF PublishStays, FreeTags, Publishing
<1>9. CASE HashInputs(s) \/ Buildx(s) \/ Done(s) \/ Interrupted(s) \/ Report(s) \/ Sbom(s) \/ Audit(s)
  <2>1. Carried(s)
    BY <1>1, <1>9, BuildsCarry, ScansCarry
  <2>2. me.at \notin Publishing \/ new = Blank
    BY <1>1, <1>9, Steps DEF HashInputs, Buildx, Done, Interrupted, Report, Sbom, Audit, Publishing
  <2>. QED
    BY <1>2, <2>1, <2>2, BlankHas DEF Carried, Publishing
<1>10. CASE \/ RecordBuild(s) \/ RecordScan(s) \/ RecordAudit(s) \/ FinishPublication(s)
            \/ OpenBuild(s) \/ OpenScan(s) \/ OpenPromote(s) \/ CheckPromotion(s)
            \/ WritePromoted(s) \/ Acquire(s) \/ Start(s)
  <2>1. Accumulates
    BY NothingLost DEF Next
  <2>2. CASE RecordBuild(s) \/ RecordScan(s) \/ RecordAudit(s)
    BY <1>1, <1>2, <2>1, <2>2, RecordBuildRecords, RecordScanRecords, RecordAuditRecords
  <2>3. CASE FinishPublication(s) \/ WritePromoted(s)
    BY <1>1, <1>2, <2>1, <2>3, FinishRecords, WritePromotedRecords, BlankHas DEF Publishing
  <2>4. CASE OpenBuild(s) \/ OpenScan(s) \/ OpenPromote(s) \/ CheckPromotion(s)
    BY <1>1, <1>2, <2>4, OpenBuildRecords, OpenScanRecords, OpenPromoteRecords, CheckRecords
  <2>5. CASE Acquire(s) \/ Start(s)
    BY <1>1, <1>2, <2>1, <2>5, AcquireRecords, StartRecords DEF Publishing
  <2>. QED
    BY <1>10, <2>2, <2>3, <2>4, <2>5
<1>. QED
  BY <1>3, <1>4, <1>5, <1>6, <1>7, <1>8, <1>9, <1>10 DEF Work

-----------------------------------------------------------------------------
(* The invariant of the tags, when no other writer pushes.                 *)
LEMMA CommandsStay ==
  ASSUME TInv, NEW s \in Sessions, Work(s) \/ Start(s) \/ Acquire(s) \/ Interrupted(s)
  PROVE  Moved(s) /\ OnePublisher'
<1>1. PInv /\ Accumulates
  BY NothingLost DEF TInv, Next
<1>2. CASE Start(s)
  <2>1. Moved(s) /\ (session'[s].cmd = "publish" => PublisherFree)
    BY <1>1, <1>2, StartRecords
  <2>. QED
    BY <2>1 DEF TInv, OnePublisher, Moved, PublisherFree
<1>3. CASE WritePromoted(s)
  <2>1. Moved(s) /\ session'[s].cmd = "none"
    BY <1>1, <1>3, WritePromotedRecords, BlankHas
  <2>. QED
    BY <2>1 DEF TInv, OnePublisher, Moved
<1>4. CASE ~Start(s) /\ ~WritePromoted(s)
  <2>1. Moved(s) /\ SameCommand(s)
    BY <1>1, <1>4, WorkRecords DEF Recorded
  <2>. QED
    BY <2>1 DEF TInv, OnePublisher, Moved, SameCommand
<1>. QED
  BY <1>2, <1>3, <1>4

LEMMA OthersStayFree ==
  ASSUME TInv, NEW s \in Sessions, Work(s) \/ Start(s) \/ Acquire(s) \/ Interrupted(s)
  PROVE  FreeTagsOK'
<1>1. Moved(s) /\ OnePublisher'
  BY CommandsStay
<1>2. ASSUME NEW q \in Sessions PROVE FreeTags(session'[q], tag')
  <2>1. CASE q = s
    BY <2>1, FreeStays
  <2>2. CASE q # s
    <3>1. session'[q] = session[q] /\ FreeTags(session[q], tag)
      BY <1>1, <2>2 DEF Moved, TInv, FreeTagsOK
    <3>2. CASE ~Push(s)
      BY <3>1, <3>2, TagsStay
    <3>3. CASE Push(s)
      <4>1. FreeTags(session[s], tag) /\ session[s].at = "push"
        BY <3>3 DEF TInv, FreeTagsOK, Push
      <4>2. session[s].cmd = "publish"
        BY <4>1 DEF FreeTags, Publishing
      <4>3. session[q].cmd # "publish"
        BY <2>2, <4>2 DEF TInv, OnePublisher
      <4>4. session[q].at \notin Publishing
        BY <3>1, <4>3 DEF FreeTags
      <4>. QED
        BY <3>1, <4>4 DEF FreeTags, Publishing
    <3>. QED
      BY <3>2, <3>3
  <2>. QED
    BY <2>1, <2>2
<1>. QED
  BY <1>2 DEF FreeTagsOK

LEMMA TagsFollow ==
  ASSUME TInv, NEW s \in Sessions, Work(s) \/ Start(s) \/ Acquire(s) \/ Interrupted(s)
  PROVE  PushedIsTagged' /\ PromotedIsOfImage'
<1>1. \A x \in DOMAIN origin : x \in DOMAIN origin' /\ origin'[x] = origin[x]
  BY BuildsStay DEF TInv, PInv
<1>2. PushedIsTagged'
  <2>1. CASE Push(s)
    BY <2>1, PushKeepsTags DEF Push, history
  <2>2. CASE ~Push(s)
    <3>1. tag' = tag /\ pushed' = pushed
      BY <2>2, TagsStay
    <3>. QED
      BY <1>1, <3>1 DEF TInv, PushedIsTagged
  <2>. QED
    BY <2>1, <2>2
<1>3. CASE WritePromoted(s)
  <2>. DEFINE me == session[s]
  <2>1. /\ UNCHANGED origin /\ me.dir \in Dirs
        /\ promoted'[me.dir] = [c \in Images |-> PolicyOf(me.mem.images[c])]
        /\ \A d \in Dirs : d # me.dir => promoted'[d] = promoted[d]
        /\ \A c \in Images : GoodImage(c, me.mem.images[c], origin, scanned)
    BY <1>3, WritePromotedRecords DEF TInv
  <2>2. ASSUME NEW d \in Dirs, NEW c \in Images, promoted'[d] # None
        PROVE  /\ promoted'[d][c].digest \in DOMAIN origin
               /\ origin[promoted'[d][c].digest].image = c
    <3>1. CASE d = me.dir
      <4>1. promoted'[d][c].digest = me.mem.images[c].digest
        BY <2>1, <3>1 DEF PolicyOf
      <4>. QED
        BY <2>1, <4>1 DEF GoodImage
    <3>2. CASE d # me.dir
      BY <2>1, <2>2, <3>2 DEF TInv, PromotedIsOfImage
    <3>. QED
      BY <3>1, <3>2
  <2>. QED
    BY <1>2, <2>1, <2>2 DEF PromotedIsOfImage
<1>4. CASE ~WritePromoted(s)
  <2>1. promoted' = promoted
    <3>1. CASE Start(s)
      BY <3>1 DEF Start
    <3>2. CASE ~Start(s)
      BY <1>4, <3>2, WorkRecords, NothingLost DEF Recorded, TInv, Next
    <3>. QED
      BY <3>1, <3>2
  <2>. QED
    BY <1>1, <1>2, <2>1 DEF TInv, PromotedIsOfImage
<1>. QED
  BY <1>3, <1>4

LEMMA StepKeepsT == MaxForeign = 0 /\ TInv /\ [Next]_vars => TInv'
<1>. SUFFICES ASSUME MaxForeign = 0, TInv, [Next]_vars PROVE TInv'
  OBVIOUS
<1>1. PInv'
  BY StepKeepsP DEF TInv
<1>2. ASSUME NEW s \in Sessions, Work(s) \/ Start(s) \/ Acquire(s) \/ Interrupted(s) PROVE TInv'
  BY <1>1, <1>2, CommandsStay, OthersStayFree, TagsFollow DEF TInv
<1>3. ~ForeignPush
  BY DEF TInv, PInv, IInv, TypeOK, ForeignPush
<1>4. CASE ChangeSource \/ Expire \/ UNCHANGED vars
  <2>1. UNCHANGED <<session, tag, pushed, origin, promoted>>
    BY <1>4 DEF ChangeSource, Expire, registry, history, vars
  <2>. QED
    BY <1>1, <2>1 DEF TInv, FreeTagsOK, OnePublisher, PushedIsTagged, PromotedIsOfImage
<1>. QED
  BY <1>2, <1>3, <1>4 DEF Next

LEMMA InitHoldsT == Init => TInv
<1>. SUFFICES ASSUME Init PROVE TInv
  OBVIOUS
<1>1. \A s \in Sessions : session[s] = Blank
  BY DEF Init
<1>2. FreeTagsOK /\ OnePublisher
  BY <1>1, BlankHas DEF FreeTagsOK, FreeTags, Publishing, OnePublisher
<1>3. PushedIsTagged /\ PromotedIsOfImage
  BY DEF Init, PushedIsTagged, PromotedIsOfImage
<1>. QED
  BY <1>2, <1>3, InitHoldsP DEF TInv

-----------------------------------------------------------------------------
(* A promotion is an approval of exactly the images under the tags.        *)
PromotionsAreTagged ==
  \A d \in Dirs :
    promoted[d] # None =>
      /\ [c \in Images |-> promoted[d][c].digest] = tag
      /\ \A c \in Images : tag[c] # None

LEMMA ApprovedIsTagged == TInv => PromotionsAreTagged
<1>. SUFFICES ASSUME TInv, NEW d \in Dirs, promoted[d] # None
              PROVE  /\ [c \in Images |-> promoted[d][c].digest] = tag
                     /\ \A c \in Images : tag[c] # None
  BY DEF PromotionsAreTagged
<1>1. tag \in [Images -> Digest \cup {None, Foreign}]
  BY DEF TInv, PInv, IInv, TypeOK
<1>2. ASSUME NEW c \in Images PROVE promoted[d][c].digest = tag[c] /\ tag[c] # None
  <2>. DEFINE x == promoted[d][c].digest
  <2>1. x \in pushed
    BY DEF TInv, PInv, PromotedOK, Stands
  <2>2. x \in DOMAIN origin /\ origin[x].image = c
    BY DEF TInv, PromotedIsOfImage
  <2>3. tag[c] = x
    BY <2>1, <2>2 DEF TInv, PushedIsTagged
  <2>4. origin \in Seq([rev : Nat, text : Nat, image : Images])
    BY DEF TInv, PInv, IInv, TypeOK
  <2>5. x \in Digest
    BY <2>2, <2>4, MemberOfSeq DEF Digest
  <2>. QED
    BY <2>3, <2>5, ConstantsAssumption
<1>. QED
  BY <1>1, <1>2

LEMMA PushPublishes ==
  ASSUME TInv, NEW s \in Sessions, Push(s)
  PROVE  [Line!Next]_(Line!vars)
<1>1. UNCHANGED <<origin, promoted>>
  BY DEF Push, history
<1>2. UNCHANGED Approved
  BY <1>1 DEF Approved
<1>3. CASE UNCHANGED <<tag, pushed>>
  BY <1>2, <1>3 DEF Line!vars
<1>4. ASSUME NEW c \in Images, NEW x \in Digest, tag[c] = None, tag' = [tag EXCEPT ![c] = x]
      PROVE  Line!Publish(c)
  <2>1. tag'[c] = x
    BY <1>4 DEF TInv, PInv, IInv, TypeOK
  <2>. QED
    BY <1>2, <1>4, <2>1 DEF Line!Publish
<1>. QED
  BY <1>1, <1>3, <1>4, PushSets DEF Line!Next

LEMMA PromotionApproves ==
  ASSUME TInv, TInv', NEW s \in Sessions, WritePromoted(s)
  PROVE  [Line!Next]_(Line!vars)
<1>1. UNCHANGED tag
  BY DEF WritePromoted, registry
<1>2. session[s].dir \in Dirs /\ promoted'[session[s].dir] # None
  <2>. DEFINE lock == [c \in Images |-> PolicyOf(session[s].mem.images[c])]
  <2>1. promoted'[session[s].dir] = lock /\ session[s].dir \in Dirs
    BY WritePromotedRecords DEF TInv
  <2>2. session[s].mem \in Manifest /\ Complete(session[s].mem)
    BY Mine DEF WritePromoted, TInv, PInv, InHand, SessionState
  <2>3. lock \in [Images -> Policy]
    BY <2>2, PolicyType DEF Manifest, Complete
  <2>. QED
    BY <2>1, <2>3, ConstantsAssumption
<1>3. PromotionsAreTagged'
  BY ApprovedIsTagged, PTL
<1>4. ASSUME NEW d \in Dirs, promoted'[d] # None
      PROVE  [c \in Images |-> promoted'[d][c].digest] = tag /\ \A c \in Images : tag[c] # None
  BY <1>1, <1>3, <1>4 DEF PromotionsAreTagged
<1>5. Approved' = {tag}
  BY <1>2, <1>4 DEF Approved
<1>. QED
  BY <1>1, <1>2, <1>4, <1>5 DEF Line!Next, Line!Approve

LEMMA StepFollowsLine == MaxForeign = 0 /\ TInv /\ [Next]_vars => [Line!Next]_(Line!vars)
<1>. SUFFICES ASSUME MaxForeign = 0, TInv, [Next]_vars PROVE [Line!Next]_(Line!vars)
  OBVIOUS
<1>1. TInv'
  BY StepKeepsT
<1>2. ASSUME tag' = tag, promoted' = promoted PROVE [Line!Next]_(Line!vars)
  BY <1>2 DEF Line!vars, Approved
<1>3. ASSUME NEW s \in Sessions, Work(s) \/ Start(s) \/ Acquire(s) \/ Interrupted(s)
      PROVE  [Line!Next]_(Line!vars)
  <2>1. CASE Push(s)
    BY <2>1, PushPublishes
  <2>2. CASE WritePromoted(s)
    BY <1>1, <2>2, PromotionApproves
  <2>3. CASE Start(s)
    BY <1>2, <2>3 DEF Start, registry
  <2>4. CASE ~Push(s) /\ ~WritePromoted(s) /\ ~Start(s)
    <3>1. tag' = tag
      BY <1>3, <2>4, TagsStay
    <3>2. promoted' = promoted
      BY <1>3, <2>4, WorkRecords, NothingLost DEF Recorded, TInv, Next
    <3>. QED
      BY <1>2, <3>1, <3>2
  <2>. QED
    BY <2>1, <2>2, <2>3, <2>4
<1>4. ~ForeignPush
  BY DEF TInv, PInv, IInv, TypeOK, ForeignPush
<1>5. CASE ChangeSource \/ Expire \/ UNCHANGED vars
  <2>1. tag' = tag /\ promoted' = promoted
    BY <1>5 DEF ChangeSource, Expire, registry, vars
  <2>. QED
    BY <1>2, <2>1
<1>. QED
  BY <1>3, <1>4, <1>5 DEF Next

LEMMA InitFollowsLine == Init => Line!Init
BY DEF Init, Line!Init, Approved

(* When nobody else pushes, the pipeline implements ReleaseLine, from any  *)
(* number of evidence directories: a tag is set once and never moves, and  *)
(* every promotion of the version is of the images under its tags.         *)
THEOREM ReleaseLineImplemented == MaxForeign = 0 => (Spec => ImplementsReleaseLine)
<1>. SUFFICES ASSUME MaxForeign = 0 PROVE Spec => ImplementsReleaseLine
  OBVIOUS
<1>1. TInv /\ [Next]_vars => TInv'
  BY StepKeepsT
<1>2. TInv /\ [Next]_vars => [Line!Next]_(Line!vars)
  BY StepFollowsLine
<1>. QED
  BY <1>1, <1>2, InitHoldsT, InitFollowsLine, PTL DEF Spec, ImplementsReleaseLine, Line!Spec

-----------------------------------------------------------------------------
(* What a process has loaded is what its directory holds.                  *)
Working(st) == st.at \notin {"idle", "lock", "open"}

InStep(st, m) ==
  \/ Loaded(m) /\ st.mem = m
  \/ m = None /\ st.cmd = "build" /\ \A c \in Images : st.mem.images[c] = None

SessionsInStep ==
  \A s \in Sessions : Working(session[s]) => InStep(session[s], manifest[session[s].dir])

LInv == PInv /\ SessionsInStep

(* A step of s keeps to its own directory, and s in step with it.          *)
KeepsInStep(s) ==
  /\ Moved(s)
  /\ \A d \in Dirs : manifest'[d] = manifest[d] \/ (Holds(s) /\ d = Dir(s))
  /\ Working(session'[s]) => InStep(session'[s], manifest'[session'[s].dir])

LEMMA OthersInStep ==
  ASSUME LInv, NEW s \in Sessions, KeepsInStep(s)
  PROVE  SessionsInStep'
<1>1. ASSUME NEW q \in Sessions, Working(session'[q])
      PROVE  InStep(session'[q], manifest'[session'[q].dir])
  <2>1. CASE q = s
    BY <1>1, <2>1 DEF KeepsInStep
  <2>2. CASE q # s
    <3>1. session'[q] = session[q] /\ Holds(q)
      BY <1>1, <2>2 DEF KeepsInStep, Moved, Working, Holds
    <3>2. session[q].dir \in Dirs /\ holder[session[q].dir] = q
      BY <3>1, Mine DEF LInv, PInv, Dir
    <3>3. manifest'[session[q].dir] = manifest[session[q].dir]
      BY <2>2, <3>2, Mine DEF LInv, PInv, KeepsInStep
    <3>. QED
      BY <1>1, <3>1, <3>3 DEF LInv, SessionsInStep
  <2>. QED
    BY <2>1, <2>2
<1>. QED
  BY <1>1 DEF SessionsInStep

LEMMA CarriedInStep ==
  ASSUME LInv, NEW s \in Sessions, Moved(s), Carried(s), UNCHANGED manifest,
         session'[s] = Blank \/ Working(session[s])
  PROVE  KeepsInStep(s)
BY BlankHas DEF LInv, SessionsInStep, KeepsInStep, Carried, Working, InStep

(* Commands that load the manifest.                                        *)
LEMMA OpensInStep ==
  ASSUME LInv, NEW s \in Sessions, OpenBuild(s) \/ OpenScan(s) \/ Validate(s) \/ OpenPromote(s)
  PROVE  KeepsInStep(s)
<1>. DEFINE me == session[s]
            m == manifest[me.dir]
<1>1. /\ UNCHANGED manifest /\ session \in [Sessions -> SessionState] /\ me \in SessionState
      /\ me.at = "open" /\ IInv
  BY DEF OpenBuild, OpenScan, Validate, OpenPromote, LInv, PInv, IInv, TypeOK
<1>2. CASE End(s)
  BY <1>1, <1>2, Steps, BlankHas DEF KeepsInStep, Working
<1>3. ASSUME NEW loc, NEW prs, Loaded(m), Set(s, [me EXCEPT !.at = loc, !.mem = m, !.pairs = prs])
      PROVE  KeepsInStep(s)
  <2>1. Moved(s) /\ session'[s].mem = m /\ session'[s].dir = me.dir
    BY <1>1, <1>3 DEF Set, Moved, SessionState
  <2>. QED
    BY <1>1, <1>3, <2>1 DEF KeepsInStep, InStep
<1>4. ASSUME NEW loc, NEW x, Set(s, [me EXCEPT !.at = loc, !.mem = x]),
             \/ Loaded(m) /\ x = m
             \/ m = None /\ me.cmd = "build" /\ \A c \in Images : x.images[c] = None
      PROVE  KeepsInStep(s)
  <2>1. Moved(s) /\ session'[s].mem = x /\ session'[s].dir = me.dir /\ session'[s].cmd = me.cmd
    BY <1>1, <1>4 DEF Set, Moved, SessionState
  <2>. QED
    BY <1>1, <1>4, <2>1 DEF KeepsInStep, InStep
<1>5. CASE OpenBuild(s)
  <2>1. \A c \in Images : NewManifest.images[c] = None
    BY DEF NewManifest
  <2>2. \/ End(s)
        \/ Set(s, [me EXCEPT !.at = "build", !.mem = NewManifest]) /\ m = None /\ me.cmd = "build"
        \/ Set(s, [me EXCEPT !.at = "build", !.mem = m]) /\ Loaded(m)
    BY <1>5 DEF OpenBuild, Dir
  <2>. HIDE DEF m
  <2>. QED
    BY <1>2, <1>4, <2>1, <2>2
<1>6. CASE OpenScan(s)
  <2>1. \/ End(s)
        \/ /\ Loaded(m)
           /\ Set(s, [me EXCEPT !.at = IF me.cmd = "scan" THEN "scan" ELSE "audit", !.mem = m,
                        !.pairs = IF me.cmd = "scan" THEN me.images \X Platforms ELSE {}])
    BY <1>6 DEF OpenScan
  <2>. HIDE DEF m
  <2>. QED
    BY <1>2, <1>3, <2>1
<1>7. CASE Validate(s)
  <2>1. End(s) \/ (Loaded(m) /\ Set(s, [me EXCEPT !.at = "lookup", !.mem = m]))
    BY <1>7 DEF Validate, Publishable
  <2>. QED
    BY <1>2, <1>4, <2>1
<1>8. CASE OpenPromote(s)
  <2>1. End(s) \/ (Loaded(m) /\ Set(s, [me EXCEPT !.at = "promote", !.mem = m]))
    BY <1>8 DEF OpenPromote
  <2>. QED
    BY <1>2, <1>4, <2>1
<1>. QED
  BY <1>5, <1>6, <1>7, <1>8

(* Commands that write it.                                                 *)
LEMMA WritesInStep ==
  ASSUME LInv, IInv', NEW s \in Sessions, Holds(s), NEW m, NEW st, WriteManifest(s, m, st),
         [st EXCEPT !.mem = m].mem = m, [st EXCEPT !.mem = m].dir = session[s].dir
  PROVE  KeepsInStep(s)
<1>. DEFINE new == [st EXCEPT !.mem = m]
<1>1. /\ session \in [Sessions -> SessionState] /\ manifest \in [Dirs -> Manifest \cup {None, Torn}]
      /\ Dir(s) \in Dirs /\ IInv
  BY Mine DEF LInv, PInv, IInv, TypeOK
<1>2. CASE manifest' = [manifest EXCEPT ![Dir(s)] = m] /\ Set(s, new)
  <2>1. new.mem = m /\ new.dir = Dir(s)
    BY DEF Dir
  <2>. HIDE DEF new
  <2>2. Moved(s) /\ session'[s].mem = m /\ session'[s].dir = Dir(s)
    BY <1>1, <1>2, <2>1, Steps
  <2>3. manifest'[Dir(s)] = m /\ \A d \in Dirs \ {Dir(s)} : manifest'[d] = manifest[d]
    BY <1>1, <1>2
  <2>4. Working(session'[s]) => session'[s].mem \in Manifest
    BY DEF Working, IInv, TypeOK, SessionsOK, InHand, SessionState
  <2>5. Working(session'[s]) => Loaded(m)
    BY <2>2, <2>4, ConstantsAssumption DEF Loaded
  <2>. QED
    BY <2>2, <2>3, <2>5 DEF KeepsInStep, InStep
<1>3. CASE manifest' = [manifest EXCEPT ![Dir(s)] = Torn] /\ End(s)
  <2>1. Moved(s) /\ session'[s] = Blank
    BY <1>1, <1>3, Steps
  <2>2. \A d \in Dirs \ {Dir(s)} : manifest'[d] = manifest[d]
    BY <1>1, <1>3
  <2>. QED
    BY <2>1, <2>2, BlankHas DEF KeepsInStep, Working
<1>. QED
  BY <1>2, <1>3 DEF WriteManifest

LEMMA RecordsInStep ==
  ASSUME LInv, IInv', NEW s \in Sessions,
         RecordBuild(s) \/ RecordScan(s) \/ RecordAudit(s) \/ RecordPublication(s)
  PROVE  KeepsInStep(s)
<1>. DEFINE me == session[s]
            c == me.image
<1>1. me \in SessionState /\ IInv /\ Holds(s)
  BY DEF LInv, PInv, IInv, TypeOK, Holds, RecordBuild, RecordScan, RecordAudit, RecordPublication
<1>2. CASE UNCHANGED manifest /\ End(s)
  BY <1>1, <1>2, Steps, BlankHas DEF KeepsInStep, Working
<1>3. CASE RecordBuild(s)
  <2>. DEFINE m == [me.mem EXCEPT !.images[c] = BuiltImage(me.mem, c, archive[me.dir][c], me.inputs)]
              st == [me EXCEPT !.at = "build", !.image = None, !.inputs = Blank.inputs]
  <2>1. (UNCHANGED manifest /\ End(s)) \/ WriteManifest(s, m, st)
    BY <1>3 DEF RecordBuild
  <2>. HIDE DEF m
  <2>2. [st EXCEPT !.mem = m].mem = m /\ [st EXCEPT !.mem = m].dir = me.dir
    BY <1>1 DEF SessionState
  <2>. HIDE DEF st
  <2>. QED
    BY <1>1, <1>2, <2>1, <2>2, WritesInStep
<1>4. CASE RecordScan(s)
  <2>. DEFINE m == [me.mem EXCEPT !.images[c].scans[me.platform] = me.finding]
              st == [me EXCEPT !.at = "scan", !.image = None, !.platform = None,
                               !.finding = Blank.finding]
  <2>1. (UNCHANGED manifest /\ End(s)) \/ WriteManifest(s, m, st)
    BY <1>4 DEF RecordScan
  <2>. HIDE DEF m
  <2>2. [st EXCEPT !.mem = m].mem = m /\ [st EXCEPT !.mem = m].dir = me.dir
    BY <1>1 DEF SessionState
  <2>. HIDE DEF st
  <2>. QED
    BY <1>1, <1>2, <2>1, <2>2, WritesInStep
<1>5. CASE RecordAudit(s)
  <2>. DEFINE m == [me.mem EXCEPT !.images[c].audit = me.finding]
              st == [me EXCEPT !.at = "audit", !.image = None, !.finding = Blank.finding]
  <2>1. WriteManifest(s, m, st)
    BY <1>5 DEF RecordAudit
  <2>. HIDE DEF m
  <2>2. [st EXCEPT !.mem = m].mem = m /\ [st EXCEPT !.mem = m].dir = me.dir
    BY <1>1 DEF SessionState
  <2>. HIDE DEF st
  <2>. QED
    BY <1>1, <2>1, <2>2, WritesInStep
<1>6. CASE RecordPublication(s)
  <2>. DEFINE m == [me.mem EXCEPT !.images[c].attestations = PolicyOf(me.mem.images[c])]
              st == [me EXCEPT !.at = "publish", !.image = None, !.digest = None]
  <2>1. WriteManifest(s, m, st)
    BY <1>6 DEF RecordPublication
  <2>. HIDE DEF m
  <2>2. [st EXCEPT !.mem = m].mem = m /\ [st EXCEPT !.mem = m].dir = me.dir
    BY <1>1 DEF SessionState
  <2>. HIDE DEF st
  <2>. QED
    BY <1>1, <2>1, <2>2, WritesInStep
<1>. QED
  BY <1>3, <1>4, <1>5, <1>6

LEMMA FinishInStep ==
  ASSUME LInv, NEW s \in Sessions, FinishPublication(s)
  PROVE  KeepsInStep(s)
<1>1. /\ IInv /\ Holds(s) /\ End(s) /\ manifest \in [Dirs -> Manifest \cup {None, Torn}]
      /\ \E m : manifest' = [manifest EXCEPT ![Dir(s)] = m]
  BY DEF FinishPublication, LInv, PInv, IInv, TypeOK, Holds, Dir
<1>2. Moved(s) /\ session'[s] = Blank
  BY <1>1, Steps
<1>3. \A d \in Dirs \ {Dir(s)} : manifest'[d] = manifest[d]
  BY <1>1
<1>. QED
  BY <1>1, <1>2, <1>3, BlankHas DEF KeepsInStep, Working

(* Each step of a command.                                                 *)
LEMMA WorkInStep ==
  ASSUME LInv, IInv', NEW s \in Sessions, Work(s) \/ Start(s) \/ Acquire(s) \/ Interrupted(s)
  PROVE  KeepsInStep(s)
<1>1. PInv /\ IInv /\ Accumulates
  BY NothingLost DEF LInv, PInv, Next
<1>2. CASE HashInputs(s) \/ Buildx(s) \/ Done(s) \/ Interrupted(s)
  <2>1. Working(session[s]) \/ session'[s] = Blank
    BY <1>1, <1>2, Steps DEF HashInputs, Buildx, Done, Interrupted, Working
  <2>. QED
    BY <1>1, <1>2, <2>1, BuildsCarry, CarriedInStep
<1>3. CASE Report(s) \/ Sbom(s) \/ Audit(s)
  BY <1>1, <1>3, ScansCarry, CarriedInStep DEF Report, Sbom, Audit, Working
<1>4. CASE \/ Lookup(s) \/ LookedUp(s) \/ NextImage(s)
           \/ Push(s) \/ Recheck(s) \/ Sign(s) \/ Attest(s) \/ VerifyPublished(s)
  <2>1. UNCHANGED manifest /\ Working(session[s])
    BY <1>4 DEF Lookup, LookedUp, NextImage, Push, Recheck, Sign, Attest, VerifyPublished, Working
  <2>2. Carried(s) /\ Moved(s)
    BY <1>1, <1>4, PublisherCarries
  <2>. QED
    BY <2>1, <2>2, CarriedInStep
<1>5. CASE RecordBuild(s) \/ RecordScan(s) \/ RecordAudit(s) \/ RecordPublication(s)
  BY <1>5, RecordsInStep
<1>6. CASE OpenBuild(s) \/ OpenScan(s) \/ Validate(s) \/ OpenPromote(s)
  BY <1>6, OpensInStep
<1>7. CASE FinishPublication(s)
  BY <1>7, FinishInStep
<1>8. CASE CheckPromotion(s)
  <2>1. /\ session \in [Sessions -> SessionState] /\ session[s] \in SessionState
        /\ UNCHANGED manifest /\ Working(session[s])
    BY <1>1, <1>8 DEF IInv, TypeOK, CheckPromotion, Working
  <2>2. CASE End(s)
    BY <1>1, <2>1, <2>2, Steps, BlankHas DEF KeepsInStep, Working
  <2>3. CASE ~End(s)
    <3>1. \/ Goto(s, "promoteWrite")
          \/ \E c \in session[s].images : Set(s, [session[s] EXCEPT !.images = @ \ {c}])
      BY <1>8, <2>3 DEF CheckPromotion
    <3>2. /\ Moved(s) /\ session'[s].mem = session[s].mem
          /\ session'[s].dir = session[s].dir /\ session'[s].cmd = session[s].cmd
      BY <2>1, <3>1 DEF Goto, Set, Moved, SessionState
    <3>. QED
      BY <2>1, <3>2 DEF LInv, SessionsInStep, KeepsInStep, InStep
  <2>. QED
    BY <2>2, <2>3
<1>9. CASE WritePromoted(s)
  BY <1>1, <1>9, WritePromotedRecords, BlankHas DEF KeepsInStep, Working
<1>10. CASE Start(s)
  BY <1>1, <1>10, StartRecords DEF KeepsInStep, Working
<1>11. CASE Acquire(s)
  <2>1. UNCHANGED manifest
    BY <1>11 DEF Acquire
  <2>. QED
    BY <1>1, <1>11, <2>1, AcquireRecords DEF Recorded, KeepsInStep, Working
<1>. QED
  BY <1>2, <1>3, <1>4, <1>5, <1>6, <1>7, <1>8, <1>9, <1>10, <1>11 DEF Work

LEMMA StepKeepsL == LInv /\ [Next]_vars => LInv'
<1>. SUFFICES ASSUME LInv, [Next]_vars PROVE LInv'
  OBVIOUS
<1>1. PInv' /\ IInv'
  BY StepKeepsP DEF LInv, PInv
<1>2. ASSUME NEW s \in Sessions, Work(s) \/ Start(s) \/ Acquire(s) \/ Interrupted(s) PROVE LInv'
  BY <1>1, <1>2, WorkInStep, OthersInStep DEF LInv
<1>3. CASE ChangeSource \/ Expire \/ ForeignPush \/ UNCHANGED vars
  <2>1. UNCHANGED <<session, manifest>>
    BY <1>3 DEF ChangeSource, Expire, ForeignPush, vars
  <2>. QED
    BY <1>1, <2>1 DEF LInv, SessionsInStep
<1>. QED
  BY <1>2, <1>3 DEF Next

(* A command's manifest is the one on disk from its first step to its last *)
(* one, whatever others run or are killed meanwhile: no record is lost to  *)
(* a command that loaded the manifest before it was made, and no command   *)
(* works on a manifest that was cut short.                                 *)
THEOREM NothingIsOverwritten == Spec => []LoadedIsCurrent
<1>1. Init => LInv
  BY InitHoldsP DEF LInv, Init, SessionsInStep, Working, Blank
<1>2. LInv => LoadedIsCurrent
  BY DEF LInv, SessionsInStep, LoadedIsCurrent, Working, InStep, Dir
<1>. QED
  BY <1>1, <1>2, StepKeepsL, PTL DEF Spec

=============================================================================
