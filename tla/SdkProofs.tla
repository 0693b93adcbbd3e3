------------------------------- MODULE SdkProofs -------------------------------
(***************************************************************************)
(* Proofs about SdkPipeline, for any processes, directories, images and    *)
(* architectures and without any bound on commands, changes or time.       *)
(*                                                                         *)
(* Every behaviour of SdkPipeline is one of ReleasePipeline, so all that   *)
(* ReleaseProofs shows carries over.  What is signed was built from the    *)
(* text it is labelled with because texts never come back while an image   *)
(* is built, and because publish compares the recorded inputs with a tree  *)
(* that is clean at the manifest's revision.                               *)
(***************************************************************************)
EXTENDS SdkPipeline, ReleaseProofs

(* o stands for origin, a for archive and t for tree.                      *)
CleanImage(r, rev, o) == o[r.digest].rev = rev /\ o[r.digest].text = r.inputs
Clean(m, o) == \A c \in Images : m.images[c] # None => CleanImage(m.images[c], m.rev, o)

Building(st, o, a, t) ==
  LET b == o[a[st.dir][st.image]]
  IN  st.inputs <= b.text /\ b.text <= t.text /\ b.rev = st.mem.rev

HandClean(st, o, a, t) ==
  /\ st.mem # None => Clean(st.mem, o)
  /\ st.at = "buildx" => st.inputs <= t.text
  /\ st.at = "builtRecord" => Building(st, o, a, t)
  /\ st.at \in Publishing => \A c \in Images : st.mem.images[c].inputs = st.mem.rev

Unbuilt == {"buildx", "builtRecord"}

TreeOK == tree.text <= changes /\ tree.head <= changes
HandsOK == \A s \in Sessions : HandClean(session[s], origin, archive, tree)
FilesOK == \A d \in Dirs : Loaded(manifest[d]) => Clean(manifest[d], origin)
LabelsOK == \A x \in signed : origin[x].text = origin[x].rev

CInv == TreeOK /\ HandsOK /\ FilesOK /\ LabelsOK

-----------------------------------------------------------------------------
(* Every SDK command is a command of ReleasePipeline: a refusal of publish *)
(* is a command that stops.                                                *)
LEMMA SdkValidateSteps ==
  ASSUME NEW s \in Sessions, SdkValidate(s)
  PROVE  Validate(s) \/ Interrupted(s)
<1>1. CASE SdkPublishable(session[s].dir)
  BY <1>1 DEF SdkValidate, SdkPublishable, Validate, history
<1>2. CASE ~SdkPublishable(session[s].dir)
  BY <1>2 DEF SdkValidate, Interrupted, Active, history
<1>. QED
  BY <1>1, <1>2

LEMMA SdkWorks ==
  ASSUME NEW s \in Sessions, SdkWork(s)
  PROVE  Work(s) \/ Interrupted(s)
<1>1. CASE SdkBuild(s) \/ SdkScan(s) \/ SdkPromote(s) \/ Done(s)
  BY <1>1 DEF SdkBuild, SdkScan, SdkPromote, Work
<1>2. CASE SdkPublish(s)
  BY <1>2, SdkValidateSteps DEF SdkPublish, SdkVerify, Work
<1>. QED
  BY <1>1, <1>2 DEF SdkWork

LEMMA SdkStarts ==
  ASSUME NEW s \in Sessions, SdkStart(s)
  PROVE  Start(s)
BY DEF SdkStart, Start

LEMMA SdkSteps == [SdkNext]_vars => [Next]_vars
BY SdkWorks, SdkStarts DEF SdkNext, Next

(* The SDK pipeline implements the release pipeline, with all that is      *)
(* proved of it.                                                           *)
THEOREM SdkIsARelease == SdkSpec => Spec
BY SdkSteps, PTL DEF SdkSpec, Spec

LEMMA SdkInvariance == SdkSpec => []IInv
BY SdkIsARelease, Invariance

(* publish of the SDK script signs nothing but digests that passed a scan  *)
(* on every platform, although others push to the same tags.               *)
THEOREM SdkSignaturesAreEarned == SdkSpec => []OnlyScannedIsSigned
BY SdkIsARelease, SignaturesAreEarned

(* A lock that the SDK script promotes is backed by signed digests in the  *)
(* registry and by attestations of their passed scans.                     *)
THEOREM SdkPromotionsAreBacked == SdkSpec => []PromotedIsBacked
BY SdkIsARelease, PromotionsAreBacked

(* Its commands write back the manifest they loaded too, and overwrite no  *)
(* record of one another.                                                  *)
THEOREM SdkOverwritesNothing == SdkSpec => []LoadedIsCurrent
BY SdkIsARelease, NothingIsOverwritten

-----------------------------------------------------------------------------
(* More builds change nothing of what is known of the earlier ones.        *)
LEMMA CleanGrows ==
  ASSUME NEW m, NEW o, NEW op, NEW sc, Grows(o, op, sc, sc), GoodManifest(m, o, sc), Clean(m, o)
  PROVE  Clean(m, op)
BY DEF Grows, GoodManifest, GoodImage, Clean, CleanImage

LEMMA Elements ==
  ASSUME NEW S, NEW q \in Seq(S), NEW x \in DOMAIN q
  PROVE  q[x] \in S
OBVIOUS

LEMMA BuildsTyped ==
  ASSUME IInv, NEW x \in DOMAIN origin
  PROVE  origin[x].rev \in Nat /\ origin[x].text \in Nat
<1>1. origin \in Seq([rev : Nat, text : Nat, image : Images])
  BY DEF IInv, TypeOK
<1>2. origin[x] \in [rev : Nat, text : Nat, image : Images]
  BY <1>1, Elements
<1>. QED
  BY <1>2

LEMMA SetOne ==
  ASSUME IInv, NEW s \in Sessions, NEW st, Set(s, st)
  PROVE  session'[s] = st /\ \A q \in Sessions \ {s} : session'[q] = session[q]
BY DEF IInv, TypeOK, Set

(* A step of one process that builds nothing, and leaves alone or writes   *)
(* the manifest of its own directory.                                      *)
Unbuilding == UNCHANGED <<tree, changes, archive, origin, signed>>

Written(s) ==
  \/ manifest' = manifest
  \/ \E m : /\ manifest' = [manifest EXCEPT ![Dir(s)] = m]
            /\ Loaded(m) => Clean(m, origin)

LEMMA HandMoves ==
  ASSUME IInv, CInv, NEW s \in Sessions, NEW st, Set(s, st), Unbuilding, Written(s),
         HandClean(st, origin, archive, tree)
  PROVE  CInv'
<1>1. TreeOK' /\ LabelsOK'
  BY DEF CInv, TreeOK, LabelsOK, Unbuilding
<1>2. HandsOK'
  BY SetOne DEF CInv, HandsOK, Unbuilding
<1>3. FilesOK'
  <2>1. CASE manifest' = manifest
    BY <2>1 DEF CInv, FilesOK, Unbuilding
  <2>2. ASSUME NEW m, manifest' = [manifest EXCEPT ![Dir(s)] = m], Loaded(m) => Clean(m, origin)
        PROVE  FilesOK'
    <3>1. manifest \in [Dirs -> Manifest \cup {None, Torn}]
      BY DEF IInv, TypeOK
    <3>2. ASSUME NEW d \in Dirs PROVE manifest'[d] = m \/ manifest'[d] = manifest[d]
      BY <2>2, <3>1
    <3>. QED
      BY <2>2, <3>2 DEF CInv, FilesOK, Unbuilding
  <2>. QED
    BY <2>1, <2>2 DEF Written
<1>. QED
  BY <1>1, <1>2, <1>3 DEF CInv

(* What a process may have in hand after a step that builds nothing: what  *)
(* it had, nothing, or what it reads from its directory.                   *)
LEMMA HandKeeps ==
  ASSUME IInv, CInv, NEW s \in Sessions, NEW st, Holds(s), st.at \notin Unbuilt,
         st.mem \in {None, session[s].mem, manifest[Dir(s)]},
         st.mem = manifest[Dir(s)] /\ st.mem # None => Loaded(st.mem),
         st.at \in Publishing => session[s].at \in Publishing /\ st.mem = session[s].mem
  PROVE  HandClean(st, origin, archive, tree)
<1>1. HandClean(session[s], origin, archive, tree) /\ Dir(s) \in Dirs
  BY Mine DEF CInv, HandsOK
<1>2. st.mem # None => Clean(st.mem, origin)
  BY <1>1 DEF HandClean, CInv, FilesOK
<1>. QED
  BY <1>1, <1>2 DEF HandClean, Unbuilt

LEMMA BlankClean == HandClean(Blank, origin, archive, tree)
BY DEF HandClean, Blank, Publishing

LEMMA HandEnds ==
  ASSUME IInv, CInv, NEW s \in Sessions, End(s), Unbuilding, Written(s)
  PROVE  CInv'
BY BlankClean, HandMoves DEF End

-----------------------------------------------------------------------------
(* One lemma per action.                                                   *)
LEMMA StartClean ==
  ASSUME IInv, CInv, NEW s \in Sessions, Start(s)
  PROVE  CInv'
<1>1. Unbuilding /\ manifest' = manifest
  BY DEF Start, source, files, registry, history, Unbuilding
<1>2. PICK cmd \in {"build", "scan", "govulncheck", "publish", "promote"}, d \in Dirs,
            cs \in SUBSET Images :
        Invoke(s, cmd, d, cs)
  BY ConstantsAssumption DEF Start, Chosen
<1>. DEFINE st == [Blank EXCEPT !.at = "lock", !.cmd = cmd, !.dir = d, !.images = cs]
<1>3. st.at = "lock" /\ st.mem = None
  BY DEF Blank
<1>4. Set(s, st)
  BY <1>2 DEF Invoke
<1>. HIDE DEF st
<1>5. HandClean(st, origin, archive, tree)
  BY <1>3 DEF HandClean, Publishing
<1>. QED
  BY <1>1, <1>4, <1>5, HandMoves DEF Written

(* Steps that change nothing but the process, its lock, and what a history *)
(* variable or another file remembers.                                     *)
LEMMA StopsClean ==
  ASSUME IInv, CInv, NEW s \in Sessions, Interrupted(s) \/ Done(s)
  PROVE  CInv'
<1>1. Unbuilding /\ manifest' = manifest /\ End(s)
  BY DEF Interrupted, Done, source, files, registry, history, Unbuilding
<1>. QED
  BY <1>1, HandEnds DEF Written

LEMMA AcquireClean ==
  ASSUME IInv, CInv, NEW s \in Sessions, Acquire(s)
  PROVE  CInv'
<1>1. /\ Unbuilding /\ manifest' = manifest
      /\ Set(s, [session[s] EXCEPT !.at = "open"])
  BY DEF Acquire, Goto, source, files, registry, history, Unbuilding
<1>. DEFINE st == [session[s] EXCEPT !.at = "open"]
<1>2. st.at = "open" /\ st.mem = session[s].mem
  BY Mine DEF SessionState
<1>3. HandClean(session[s], origin, archive, tree)
  BY DEF CInv, HandsOK
<1>4. HandClean(st, origin, archive, tree)
  BY <1>2, <1>3 DEF HandClean, Publishing
<1>. HIDE DEF st
<1>. QED
  BY <1>1, <1>4, HandMoves DEF Written, st

LEMMA OpenBuildClean ==
  ASSUME IInv, CInv, NEW s \in Sessions, OpenBuild(s)
  PROVE  CInv'
<1>. DEFINE m == manifest[Dir(s)]
            new == [session[s] EXCEPT !.at = "build", !.mem = NewManifest]
            old == [session[s] EXCEPT !.at = "build", !.mem = m]
<1>1. Unbuilding /\ manifest' = manifest /\ Holds(s)
  BY DEF OpenBuild, source, files, registry, history, Unbuilding, Holds
<1>2. /\ new.at = "build" /\ new.mem = NewManifest
      /\ old.at = "build" /\ old.mem = m
  BY Mine DEF SessionState
<1>3. Set(s, new) \/ (Loaded(m) /\ Set(s, old)) \/ End(s)
  BY DEF OpenBuild, Dir
<1>. HIDE DEF new, old
<1>4. HandClean(new, origin, archive, tree)
  BY <1>2 DEF HandClean, Publishing, Clean, NewManifest
<1>5. Loaded(m) => HandClean(old, origin, archive, tree)
  BY <1>1, <1>2, HandKeeps DEF Publishing, Unbuilt
<1>. QED
  BY <1>1, <1>3, <1>4, <1>5, HandMoves, HandEnds DEF Written

LEMMA HashInputsClean ==
  ASSUME IInv, CInv, NEW s \in Sessions, HashInputs(s)
  PROVE  CInv'
<1>1. /\ Unbuilding /\ manifest' = manifest /\ Holds(s) /\ tree.text \in Nat
      /\ session[s].at = "build"
  BY DEF HashInputs, source, files, registry, history, Unbuilding, Holds, IInv, TypeOK, Source
<1>2. PICK c \in session[s].images :
        Set(s, [session[s] EXCEPT !.at = "buildx", !.image = c, !.inputs = tree.text,
                  !.images = @ \ {c}])
  BY DEF HashInputs
<1>. DEFINE st == [session[s] EXCEPT !.at = "buildx", !.image = c, !.inputs = tree.text,
                     !.images = @ \ {c}]
<1>3. st.at = "buildx" /\ st.inputs = tree.text /\ st.mem = session[s].mem
  BY Mine DEF SessionState
<1>4. HandClean(session[s], origin, archive, tree)
  BY DEF CInv, HandsOK
<1>. HIDE DEF st
<1>5. HandClean(st, origin, archive, tree)
  BY <1>1, <1>3, <1>4 DEF HandClean, Publishing
<1>. QED
  BY <1>1, <1>2, <1>5, HandMoves DEF Written, st

(* A build is of the text of its moment, and takes no archive from another *)
(* process's directory.                                                    *)
LEMMA BuildxClean ==
  ASSUME IInv, CInv, NEW s \in Sessions, Buildx(s)
  PROVE  CInv'
<1>. DEFINE me == session[s]
            n == Len(origin) + 1
            e == [rev |-> me.mem.rev, text |-> tree.text, image |-> me.image]
            st == [me EXCEPT !.at = "builtRecord"]
<1>1. me.at = "buildx" /\ Holds(s)
  BY DEF Buildx, Holds
<1>2. /\ me \in SessionState /\ InHand(me, origin, scanned)
      /\ me.dir \in Dirs /\ holder[me.dir] = s /\ me.image \in Images /\ me.mem \in Manifest
  BY <1>1, Mine DEF Dir, InHand, AtImage, SessionState
<1>3. /\ tree' = tree /\ changes' = changes /\ manifest' = manifest /\ signed' = signed
      /\ scanned' = scanned
  BY DEF Buildx, source, registry
<1>4. /\ origin \in Seq([rev : Nat, text : Nat, image : Images]) /\ archive \in ImageFiles
      /\ tree.text \in Nat
  BY DEF IInv, TypeOK, Source
<1>5. \A q \in Sessions \ {s} : Holds(q) => session[q].dir # me.dir
  BY <1>2 DEF IInv, LocksOK, Holds
<1>6. /\ Grows(origin, origin', scanned, scanned)
      /\ \A d \in Dirs, c \in Images : d # me.dir => archive'[d][c] = archive[d][c]
  <2>1. origin' = Append(origin, e) \/ origin' = origin
    BY DEF Buildx
  <2>2. e \in [rev : Nat, text : Nat, image : Images]
    BY <1>2, <1>4 DEF Manifest
  <2>. HIDE DEF e
  <2>3. Grows(origin, origin', scanned, scanned)
    BY <1>4, <2>1, <2>2 DEF Grows
  <2>4. PICK k : archive' = [archive EXCEPT ![me.dir][me.image] = k]
    BY DEF Buildx
  <2>5. \A d \in Dirs, c \in Images : d # me.dir => archive'[d][c] = archive[d][c]
    BY <1>2, <1>4, <2>4 DEF ImageFiles
  <2>. QED
    BY <2>3, <2>5
<1>7. TreeOK'
  BY <1>3 DEF CInv, TreeOK
<1>8. LabelsOK'
  <2>1. \A x \in signed : x \in DOMAIN origin /\ origin[x].text = origin[x].rev
    BY DEF CInv, LabelsOK, IInv, SignedOK, PassedIn
  <2>. QED
    BY <1>3, <1>6, <2>1 DEF LabelsOK, Grows
<1>9. FilesOK'
  BY <1>3, <1>6, CleanGrows DEF CInv, FilesOK, IInv, ManifestsOK
<1>10. ASSUME NEW q \in Sessions, HandClean(session[q], origin, archive, tree), q # s
       PROVE  HandClean(session[q], origin', archive', tree)
  <2>1. InHand(session[q], origin, scanned)
    BY Mine
  <2>2. session[q].mem # None => Clean(session[q].mem, origin')
    BY <1>6, <1>10, <2>1, CleanGrows DEF HandClean, InHand
  <2>3. ASSUME session[q].at = "builtRecord" PROVE Building(session[q], origin', archive', tree)
    <3>1. session[q].dir \in Dirs /\ session[q].image \in Images /\ session[q].dir # me.dir
      BY <1>5, <1>10, <2>1, <2>3 DEF InHand, AtImage, Holds
    <3>2. archive'[session[q].dir][session[q].image] = archive[session[q].dir][session[q].image]
      BY <1>6, <3>1
    <3>3. archive[session[q].dir][session[q].image] \in DOMAIN origin
      BY <2>3, <3>1 DEF IInv, JustBuilt, ArchivesOK
    <3>4. origin'[archive[session[q].dir][session[q].image]]
            = origin[archive[session[q].dir][session[q].image]]
      BY <1>6, <3>3 DEF Grows
    <3>5. Building(session[q], origin, archive, tree)
      BY <1>10, <2>3 DEF HandClean
    <3>. QED
      BY <3>2, <3>4, <3>5 DEF Building
  <2>. QED
    BY <1>10, <2>2, <2>3 DEF HandClean
<1>11. CASE /\ origin' = Append(origin, e) /\ archive' = [archive EXCEPT ![me.dir][me.image] = n]
            /\ Set(s, st)
  <2>1. /\ st.at = "builtRecord" /\ st.mem = me.mem /\ st.dir = me.dir /\ st.image = me.image
        /\ st.inputs = me.inputs
    BY <1>2 DEF SessionState
  <2>. HIDE DEF st
  <2>2. origin'[n] = e /\ archive'[me.dir][me.image] = n
    BY <1>2, <1>4, <1>11 DEF ImageFiles
  <2>3. HandClean(me, origin, archive, tree)
    BY DEF CInv, HandsOK
  <2>4. Building(st, origin', archive', tree)
    BY <1>1, <1>4, <2>1, <2>2, <2>3 DEF Building, HandClean
  <2>5. st.mem # None => Clean(st.mem, origin')
    BY <1>2, <1>6, <2>1, <2>3, CleanGrows DEF HandClean, InHand
  <2>6. HandClean(st, origin', archive', tree)
    BY <2>1, <2>4, <2>5 DEF HandClean, Publishing
  <2>7. HandsOK'
    BY <1>3, <1>10, <1>11, <2>6, SetOne DEF CInv, HandsOK
  <2>. QED
    BY <1>7, <1>8, <1>9, <2>7 DEF CInv
<1>12. CASE End(s)
  <2>1. HandClean(Blank, origin', archive', tree)
    BY DEF HandClean, Blank, Publishing
  <2>2. HandsOK'
    BY <1>3, <1>10, <1>12, <2>1, SetOne DEF CInv, HandsOK, End
  <2>. QED
    BY <1>7, <1>8, <1>9, <2>2 DEF CInv
<1>. QED
  BY <1>11, <1>12 DEF Buildx, Goto, BuildFailed

(* Steps that keep the manifest in hand and build nothing.                 *)
LEMMA Passes ==
  ASSUME IInv, CInv, NEW s \in Sessions, NEW st, Set(s, st), Holds(s),
         UNCHANGED <<tree, changes, archive, origin, signed, manifest>>,
         st.at \notin Unbuilt, st.mem = session[s].mem,
         st.at \in Publishing => session[s].at \in Publishing
  PROVE  CInv'
<1>1. st.mem = manifest[Dir(s)] /\ st.mem # None => Loaded(st.mem)
  <2>1. session[s].mem \in Manifest \cup {None} /\ Torn \notin Manifest
    BY Mine, ConstantsAssumption DEF SessionState
  <2>. QED
    BY <2>1 DEF Loaded
<1>. QED
  BY <1>1, HandKeeps, HandMoves DEF Written, Unbuilding

LEMMA RecordBuildClean ==
  ASSUME IInv, CInv, NEW s \in Sessions, RecordBuild(s)
  PROVE  CInv'
<1>. DEFINE me == session[s]
            b == archive[me.dir][me.image]
            r == BuiltImage(me.mem, me.image, b, me.inputs)
            m == [me.mem EXCEPT !.images[me.image] = r]
            rest == [me EXCEPT !.at = "build", !.image = None, !.inputs = Blank.inputs]
            st == [rest EXCEPT !.mem = m]
<1>1. me.at = "builtRecord" /\ Holds(s) /\ Unbuilding
  BY DEF RecordBuild, source, files, registry, history, Unbuilding, Holds
<1>2. /\ me \in SessionState /\ InHand(me, origin, scanned)
      /\ me.dir \in Dirs /\ me.image \in Images /\ me.mem \in Manifest
      /\ me.mem # None
  BY <1>1, Mine DEF Dir, InHand, AtImage, SessionState
<1>3. /\ b \in DOMAIN origin /\ tree.text \in Nat /\ me.inputs \in Nat
      /\ origin \in Seq([rev : Nat, text : Nat, image : Images])
  BY <1>1, <1>2 DEF IInv, JustBuilt, ArchivesOK, TypeOK, Source, SessionState
<1>4. CASE End(s) /\ UNCHANGED manifest
  BY <1>1, <1>4, HandEnds DEF Written
<1>5. CASE tree.text = me.inputs /\ WriteManifest(s, m, rest)
  <2>1. HandClean(me, origin, archive, tree)
    BY DEF CInv, HandsOK
  <2>2. origin[b].rev = me.mem.rev /\ origin[b].text = me.inputs
    <3>1. origin[b].text \in Nat
      BY <1>3, BuildsTyped
    <3>2. me.inputs <= origin[b].text /\ origin[b].text <= tree.text /\ origin[b].rev = me.mem.rev
      BY <1>1, <2>1 DEF HandClean, Building
    <3>. QED
      BY <1>3, <1>5, <3>1, <3>2
  <2>3. r.digest = b /\ r.inputs = me.inputs
    BY DEF BuiltImage
  <2>. HIDE DEF r
  <2>4. /\ m.rev = me.mem.rev /\ m.images[me.image] = r
        /\ \A c \in Images : c # me.image => m.images[c] = me.mem.images[c]
    BY <1>2 DEF Manifest
  <2>5. Clean(m, origin)
    <3>1. Clean(me.mem, origin)
      BY <1>2, <2>1 DEF HandClean
    <3>2. CleanImage(r, me.mem.rev, origin)
      BY <2>2, <2>3 DEF CleanImage
    <3>. HIDE DEF m
    <3>. QED
      BY <1>2, <2>4, <3>1, <3>2 DEF Clean
  <2>6. st.at = "build" /\ st.mem = m
    BY <1>2 DEF SessionState
  <2>7. Set(s, st) \/ End(s)
    BY <1>5 DEF WriteManifest
  <2>8. Written(s)
    BY <1>5, <2>5 DEF WriteManifest, Written, Loaded
  <2>. HIDE DEF st, m
  <2>9. HandClean(st, origin, archive, tree)
    BY <2>5, <2>6 DEF HandClean, Publishing
  <2>. QED
    BY <1>1, <2>7, <2>8, <2>9, HandMoves, HandEnds
<1>. QED
  BY <1>4, <1>5 DEF RecordBuild

LEMMA OpenScanClean ==
  ASSUME IInv, CInv, NEW s \in Sessions, OpenScan(s)
  PROVE  CInv'
<1>1. /\ Unbuilding /\ manifest' = manifest /\ Holds(s)
  BY DEF OpenScan, source, files, registry, history, Unbuilding, Holds
<1>2. CASE End(s)
  BY <1>1, <1>2, HandEnds DEF Written
<1>3. CASE ~End(s)
  <2>. DEFINE m == manifest[Dir(s)]
  <2>1. PICK at, pairs : at \in {"scan", "audit"} /\
          Loaded(m) /\ Set(s, [session[s] EXCEPT !.at = at, !.mem = m, !.pairs = pairs])
    BY <1>3 DEF OpenScan, Dir
  <2>. DEFINE st == [session[s] EXCEPT !.at = at, !.mem = m, !.pairs = pairs]
  <2>2. st.at = at /\ st.mem = m
    BY Mine DEF SessionState
  <2>. HIDE DEF st
  <2>3. HandClean(st, origin, archive, tree)
    BY <1>1, <2>1, <2>2, HandKeeps DEF Publishing, Unbuilt
  <2>. QED
    BY <1>1, <2>1, <2>3, HandMoves DEF Written, st
<1>. QED
  BY <1>2, <1>3

LEMMA ReportClean ==
  ASSUME IInv, CInv, NEW s \in Sessions, Report(s)
  PROVE  CInv'
<1>1. /\ Unbuilding /\ manifest' = manifest /\ Holds(s)
  BY DEF Report, source, registry, Unbuilding, Holds
<1>2. CASE End(s)
  BY <1>1, <1>2, HandEnds DEF Written
<1>3. CASE ~End(s)
  <2>1. PICK c, p, f, pairs :
          Set(s, [session[s] EXCEPT !.at = "sbom", !.image = c, !.platform = p,
                    !.finding = f, !.pairs = pairs])
    BY <1>3 DEF Report
  <2>. DEFINE st == [session[s] EXCEPT !.at = "sbom", !.image = c, !.platform = p,
                       !.finding = f, !.pairs = pairs]
  <2>2. st.at = "sbom" /\ st.mem = session[s].mem
    BY Mine DEF SessionState
  <2>. HIDE DEF st
  <2>. QED
    BY <1>1, <2>1, <2>2, Passes DEF Unbuilding, Unbuilt, Publishing, st
<1>. QED
  BY <1>2, <1>3

LEMMA SbomClean ==
  ASSUME IInv, CInv, NEW s \in Sessions, Sbom(s)
  PROVE  CInv'
<1>1. /\ Unbuilding /\ manifest' = manifest /\ Holds(s)
  BY DEF Sbom, source, registry, history, Unbuilding, Holds
<1>. DEFINE st == [session[s] EXCEPT !.at = "scanRecord"]
<1>2. st.at = "scanRecord" /\ st.mem = session[s].mem
  BY Mine DEF SessionState
<1>3. Set(s, st)
  BY DEF Sbom, Goto
<1>. HIDE DEF st
<1>. QED
  BY <1>1, <1>2, <1>3, Passes DEF Unbuilding, Unbuilt, Publishing

(* Recording a scan, or a publication, keeps what every entry was built    *)
(* from.                                                                   *)
LEMMA EntryClean ==
  ASSUME NEW m \in Manifest, NEW c \in Images, NEW r \in Image, NEW o, Clean(m, o),
         m.images[c] # None, r.digest = m.images[c].digest, r.inputs = m.images[c].inputs
  PROVE  /\ Clean([m EXCEPT !.images[c] = r], o)
         /\ [m EXCEPT !.images[c] = r].rev = m.rev
         /\ \A k \in Images : [m EXCEPT !.images[c] = r].images[k].inputs = m.images[k].inputs
<1>1. /\ [m EXCEPT !.images[c] = r].images[c] = r
      /\ \A k \in Images : k # c => [m EXCEPT !.images[c] = r].images[k] = m.images[k]
  BY ManifestEntry
<1>2. [m EXCEPT !.images[c] = r].rev = m.rev
  BY DEF Manifest
<1>. QED
  BY <1>1, <1>2 DEF Clean, CleanImage

LEMMA RecordScanClean ==
  ASSUME IInv, CInv, NEW s \in Sessions, RecordScan(s)
  PROVE  CInv'
<1>. DEFINE me == session[s]
            c == me.image
            old == me.mem.images[c]
            r == [old EXCEPT !.scans[me.platform] = me.finding]
            m == [me.mem EXCEPT !.images[c] = r]
            rest == [me EXCEPT !.at = "scan", !.image = None, !.platform = None,
                               !.finding = Blank.finding]
            st == [rest EXCEPT !.mem = m]
<1>1. me.at = "scanRecord" /\ Holds(s) /\ Unbuilding
  BY DEF RecordScan, source, files, registry, history, Unbuilding, Holds
<1>2. /\ me \in SessionState /\ InHand(me, origin, scanned) /\ me.mem # None
      /\ me.mem \in Manifest /\ c \in Images /\ me.platform \in Platforms /\ old # None
  BY <1>1, Mine DEF InHand, AtImage, SessionState
<1>3. CASE End(s) /\ UNCHANGED manifest
  BY <1>1, <1>3, HandEnds DEF Written
<1>4. CASE WriteManifest(s, [me.mem EXCEPT !.images[c].scans[me.platform] = me.finding], rest)
  <2>1. old \in Image /\ me.finding \in Finding
    BY <1>2 DEF Manifest, SessionState
  <2>2. r \in Image /\ r.digest = old.digest /\ r.inputs = old.inputs
    BY <1>2, <2>1 DEF Image
  <2>3. WriteManifest(s, m, rest)
    BY <1>2, <1>4 DEF Manifest
  <2>. HIDE DEF r
  <2>4. Clean(m, origin)
    BY <1>2, <2>2, EntryClean DEF CInv, HandsOK, HandClean
  <2>5. st.at = "scan" /\ st.mem = m
    BY <1>2 DEF SessionState
  <2>6. Set(s, st) \/ End(s)
    BY <2>3 DEF WriteManifest
  <2>7. Written(s)
    BY <2>3, <2>4 DEF WriteManifest, Written, Loaded
  <2>. HIDE DEF st, m
  <2>8. HandClean(st, origin, archive, tree)
    BY <2>4, <2>5 DEF HandClean, Publishing
  <2>. QED
    BY <1>1, <2>6, <2>7, <2>8, HandMoves, HandEnds
<1>. QED
  BY <1>3, <1>4 DEF RecordScan

-----------------------------------------------------------------------------
(* publish takes in hand only what was built from a clean tree at its      *)
(* revision.                                                               *)
LEMMA SdkValidateClean ==
  ASSUME IInv, CInv, NEW s \in Sessions, SdkValidate(s)
  PROVE  CInv'
<1>. DEFINE m == manifest[Dir(s)]
            st == [session[s] EXCEPT !.at = "lookup", !.mem = m]
<1>1. /\ Unbuilding /\ manifest' = manifest /\ Holds(s)
      /\ (SdkPublishable(Dir(s)) /\ Set(s, st)) \/ End(s)
  BY DEF SdkValidate, source, files, registry, history, Unbuilding, Holds, Dir
<1>2. st.at = "lookup" /\ st.mem = m
  BY Mine DEF SessionState
<1>3. Dir(s) \in Dirs
  BY <1>1, Mine
<1>4. ASSUME SdkPublishable(Dir(s))
      PROVE  Loaded(m) /\ \A c \in Images : m.images[c].inputs = m.rev
  BY <1>4 DEF SdkPublishable, Publishable, InputsUnchanged
<1>. HIDE DEF m, st
<1>5. ASSUME SdkPublishable(Dir(s)) PROVE HandClean(st, origin, archive, tree)
  BY <1>2, <1>3, <1>4, <1>5 DEF HandClean, CInv, FilesOK, m
<1>. QED
  BY <1>1, <1>5, HandMoves, HandEnds DEF Written

LEMMA LookupClean ==
  ASSUME IInv, CInv, NEW s \in Sessions, Lookup(s) \/ LookedUp(s) \/ NextImage(s)
  PROVE  CInv'
<1>. DEFINE me == session[s]
<1>1. /\ Unbuilding /\ manifest' = manifest /\ Holds(s)
      /\ me \in SessionState /\ me.at \in Publishing
  BY Mine DEF Lookup, LookedUp, NextImage, source, files, registry, history, Unbuilding, Holds,
              Publishing
<1>2. ASSUME NEW st, Set(s, st), st.at \in Publishing, st.mem = me.mem PROVE CInv'
  BY <1>1, <1>2, Passes DEF Unbuilding, Unbuilt, Publishing
<1>3. CASE Lookup(s)
  <2>1. CASE End(s)
    BY <1>1, <2>1, HandEnds DEF Written
  <2>2. CASE ~End(s)
    <3>1. PICK images, existing :
            Set(s, [[me EXCEPT !.images = images] EXCEPT !.existing = existing])
            \/ Set(s, [me EXCEPT !.images = images])
      BY <1>3, <2>2 DEF Lookup
    <3>2. me.at = "lookup"
      BY <1>3 DEF Lookup
    <3>. QED
      BY <1>1, <1>2, <3>1, <3>2 DEF SessionState, Publishing
  <2>. QED
    BY <2>1, <2>2
<1>4. CASE LookedUp(s)
  <2>. DEFINE st == [me EXCEPT !.at = "publish", !.images = Images]
  <2>1. Set(s, st) /\ st.at = "publish" /\ st.mem = me.mem
    BY <1>1, <1>4 DEF LookedUp, SessionState
  <2>. HIDE DEF st
  <2>. QED
    BY <1>2, <2>1 DEF Publishing
<1>5. CASE NextImage(s)
  <2>1. PICK at \in {"finish", "recheck", "push"} :
          \/ \E c, images : Set(s, [me EXCEPT !.at = at, !.image = c, !.images = images])
          \/ Set(s, [me EXCEPT !.at = at])
    BY <1>5 DEF NextImage, Goto
  <2>. QED
    BY <1>1, <1>2, <2>1 DEF SessionState, Publishing
<1>. QED
  BY <1>3, <1>4, <1>5

LEMMA PublishingClean ==
  ASSUME IInv, CInv, NEW s \in Sessions,
         Push(s) \/ Recheck(s) \/ Attest(s) \/ VerifyPublished(s)
  PROVE  CInv'
<1>. DEFINE me == session[s]
<1>1. /\ Unbuilding /\ manifest' = manifest /\ Holds(s)
      /\ me \in SessionState /\ me.at \in Publishing
  BY Mine DEF Push, Recheck, Attest, VerifyPublished, source, files, registry, history,
              Unbuilding, Holds, Publishing
<1>2. ASSUME NEW st, Set(s, st), st.at \in Publishing, st.mem = me.mem PROVE CInv'
  BY <1>1, <1>2, Passes DEF Unbuilding, Unbuilt, Publishing
<1>3. CASE End(s)
  BY <1>1, <1>3, HandEnds DEF Written
<1>4. CASE ~End(s)
  <2>1. PICK at \in {"recheck", "sign", "attest", "verify", "publishRecord"} :
          \/ Set(s, [me EXCEPT !.at = at])
          \/ \E digest : Set(s, [me EXCEPT !.at = at, !.digest = digest])
          \/ \E left : Set(s, [me EXCEPT !.left = left, !.at = at])
    BY <1>4 DEF Push, Recheck, Attest, VerifyPublished, Goto
  <2>. QED
    BY <1>1, <1>2, <2>1 DEF SessionState, Publishing
<1>. QED
  BY <1>3, <1>4

(* The digest signed is that of an image in hand, built from the text of   *)
(* the manifest's revision.                                                *)
LEMMA SignClean ==
  ASSUME IInv, CInv, NEW s \in Sessions, Sign(s)
  PROVE  CInv'
<1>. DEFINE me == session[s]
            st == [me EXCEPT !.at = "attest", !.left = Platforms \cup {None}]
            r == me.mem.images[me.image]
<1>1. /\ me.at = "sign" /\ Holds(s) /\ Set(s, st) /\ signed' = signed \cup {me.digest}
      /\ UNCHANGED <<tree, changes, archive, origin, manifest>>
  BY DEF Sign, Holds, source, files, history
<1>2. /\ me \in SessionState /\ InHand(me, origin, scanned) /\ HandClean(me, origin, archive, tree)
  BY Mine DEF CInv, HandsOK
<1>3. /\ me.mem # None /\ me.image \in Images /\ me.digest = r.digest /\ r # None
      /\ r.inputs = me.mem.rev
  BY <1>1, <1>2 DEF InHand, HandClean, AtImage, Publishing, Complete
<1>4. origin[me.digest].text = origin[me.digest].rev
  BY <1>2, <1>3 DEF HandClean, Clean, CleanImage
<1>5. st.at = "attest" /\ st.mem = me.mem
  BY <1>2 DEF SessionState
<1>. HIDE DEF st, r
<1>6. HandClean(st, origin, archive, tree)
  BY <1>1, <1>2, <1>5 DEF HandClean, Publishing
<1>7. HandsOK'
  BY <1>1, <1>6, SetOne DEF CInv, HandsOK
<1>8. LabelsOK'
  BY <1>1, <1>4 DEF CInv, LabelsOK
<1>9. TreeOK' /\ FilesOK'
  BY <1>1 DEF CInv, TreeOK, FilesOK
<1>. QED
  BY <1>7, <1>8, <1>9 DEF CInv

LEMMA RecordPublicationClean ==
  ASSUME IInv, CInv, NEW s \in Sessions, RecordPublication(s)
  PROVE  CInv'
<1>. DEFINE me == session[s]
            c == me.image
            old == me.mem.images[c]
            policy == PolicyOf(old)
            r == [old EXCEPT !.attestations = policy]
            m == [me.mem EXCEPT !.images[c] = r]
            rest == [me EXCEPT !.at = "publish", !.image = None, !.digest = None]
            st == [rest EXCEPT !.mem = m]
<1>1. me.at = "publishRecord" /\ Holds(s) /\ Unbuilding
  BY DEF RecordPublication, source, files, registry, history, Unbuilding, Holds
<1>2. /\ me \in SessionState /\ InHand(me, origin, scanned) /\ me.mem # None
      /\ me.mem \in Manifest /\ c \in Images /\ old # None
      /\ HandClean(me, origin, archive, tree)
  BY <1>1, Mine DEF InHand, AtImage, Publishing, Complete, SessionState, CInv, HandsOK
<1>3. old \in Image
  BY <1>2 DEF Manifest
<1>4. policy \in Policy
  BY <1>3, PolicyType
<1>5. WriteManifest(s, m, rest)
  BY <1>2 DEF RecordPublication, Manifest
<1>. HIDE DEF policy
<1>6. r \in Image /\ r.digest = old.digest /\ r.inputs = old.inputs
  BY <1>3, <1>4 DEF Image
<1>. HIDE DEF r
<1>7. Clean(m, origin) /\ m.rev = me.mem.rev
      /\ \A k \in Images : m.images[k].inputs = me.mem.images[k].inputs
  BY <1>2, <1>6, EntryClean DEF HandClean
<1>8. st.at = "publish" /\ st.mem = m
  BY <1>2 DEF SessionState
<1>9. Set(s, st) \/ End(s)
  BY <1>5 DEF WriteManifest
<1>10. Written(s)
  BY <1>5, <1>7 DEF WriteManifest, Written, Loaded
<1>. HIDE DEF st, m
<1>11. HandClean(st, origin, archive, tree)
  BY <1>1, <1>2, <1>7, <1>8 DEF HandClean, Publishing
<1>. QED
  BY <1>1, <1>9, <1>10, <1>11, HandMoves, HandEnds

LEMMA FinishPublicationClean ==
  ASSUME IInv, CInv, NEW s \in Sessions, FinishPublication(s)
  PROVE  CInv'
<1>. DEFINE me == session[s]
            m == [me.mem EXCEPT !.verified = TRUE]
<1>1. me.at = "finish" /\ Holds(s) /\ Unbuilding /\ End(s)
  BY DEF FinishPublication, source, files, registry, history, Unbuilding, Holds
<1>2. /\ me.mem \in Manifest /\ me.mem # None /\ Clean(me.mem, origin)
  BY <1>1, Mine DEF InHand, SessionState, CInv, HandsOK, HandClean
<1>3. m.images = me.mem.images /\ m.rev = me.mem.rev
  BY <1>2 DEF Manifest
<1>4. Clean(m, origin)
  BY <1>2, <1>3 DEF Clean
<1>5. \/ manifest' = [manifest EXCEPT ![Dir(s)] = m]
      \/ manifest' = [manifest EXCEPT ![Dir(s)] = Torn]
  BY DEF FinishPublication, Dir
<1>. HIDE DEF m
<1>6. Written(s)
  BY <1>4, <1>5 DEF Written, Loaded
<1>. QED
  BY <1>1, <1>6, HandEnds

LEMMA PromoteClean ==
  ASSUME IInv, CInv, NEW s \in Sessions, SdkPromote(s)
  PROVE  CInv'
<1>. DEFINE me == session[s]
<1>1. /\ Unbuilding /\ manifest' = manifest /\ Holds(s) /\ me \in SessionState
  BY Mine DEF SdkPromote, OpenPromote, CheckPromotion, WritePromoted, source, files, registry,
              history, Unbuilding, Holds
<1>2. CASE End(s)
  BY <1>1, <1>2, HandEnds DEF Written
<1>3. CASE ~End(s) /\ OpenPromote(s)
  <2>. DEFINE m == manifest[Dir(s)]
              st == [me EXCEPT !.at = "promote", !.mem = m]
  <2>1. Loaded(m) /\ Set(s, st) /\ st.at = "promote" /\ st.mem = m
    BY <1>1, <1>3 DEF OpenPromote, Dir, SessionState
  <2>. HIDE DEF st
  <2>2. HandClean(st, origin, archive, tree)
    BY <1>1, <2>1, HandKeeps DEF Publishing, Unbuilt
  <2>. QED
    BY <1>1, <2>1, <2>2, HandMoves DEF Written
<1>4. CASE ~End(s) /\ CheckPromotion(s)
  <2>1. PICK at \in {"promote", "promoteWrite"} :
          \/ Set(s, [me EXCEPT !.at = at])
          \/ \E images : Set(s, [me EXCEPT !.images = images])
    BY <1>4 DEF CheckPromotion, Goto
  <2>2. me.at = "promote"
    BY <1>4 DEF CheckPromotion
  <2>3. ASSUME NEW st, Set(s, st), st.at \in {"promote", "promoteWrite"}, st.mem = me.mem
        PROVE  CInv'
    BY <1>1, <2>3, Passes DEF Unbuilding, Unbuilt, Publishing
  <2>. QED
    BY <1>1, <2>1, <2>2, <2>3 DEF SessionState
<1>. QED
  BY <1>2, <1>3, <1>4 DEF SdkPromote, WritePromoted

-----------------------------------------------------------------------------
(* An edit is a new text, a commit keeps the text, and nobody reverts      *)
(* while an image is built: what a build sees never comes back.            *)
LEMMA ChangeSourceClean ==
  ASSUME IInv, CInv, ChangeSource
  PROVE  CInv'
<1>1. /\ changes' = changes + 1 /\ changes \in Nat /\ tree \in Source
      /\ UNCHANGED <<archive, origin, manifest, signed, session>>
  BY DEF ChangeSource, files, registry, history, IInv, TypeOK
<1>2. /\ tree.text \in Nat /\ tree.head \in Nat /\ tree.text <= changes /\ tree.head <= changes
  BY <1>1 DEF Source, CInv, TreeOK
<1>3. \/ tree'.text = changes + 1 /\ tree'.head = tree.head
      \/ tree'.text = tree.text /\ tree'.head = tree.text
      \/ /\ tree'.text = tree.head /\ tree'.head = tree.head
         /\ \A s \in Sessions : session[s].at \notin Unbuilt
  BY <1>1 DEF ChangeSource, Source, Unbuilt
<1>4. TreeOK'
  BY <1>1, <1>2, <1>3 DEF TreeOK
<1>5. LabelsOK' /\ FilesOK'
  BY <1>1 DEF CInv, LabelsOK, FilesOK
<1>6. ASSUME NEW s \in Sessions PROVE HandClean(session[s], origin, archive, tree')
  <2>1. HandClean(session[s], origin, archive, tree) /\ session[s] \in SessionState
    BY Mine DEF CInv, HandsOK
  <2>2. CASE session[s].at \notin Unbuilt
    BY <2>1, <2>2 DEF HandClean, Unbuilt
  <2>3. CASE session[s].at \in Unbuilt
    <3>1. tree.text <= tree'.text
      BY <1>2, <1>3, <2>3, <1>1
    <3>2. session[s].inputs \in Nat /\ tree'.text \in Nat
      BY <1>1, <1>2, <1>3, <2>1 DEF SessionState
    <3>3. session[s].at = "buildx" => session[s].inputs <= tree'.text
      BY <1>2, <2>1, <3>1, <3>2 DEF HandClean
    <3>4. ASSUME session[s].at = "builtRecord" PROVE Building(session[s], origin, archive, tree')
      <4>. DEFINE b == archive[session[s].dir][session[s].image]
      <4>1. session[s].dir \in Dirs /\ session[s].image \in Images
        BY <3>4, Mine DEF InHand, AtImage
      <4>2. b \in DOMAIN origin
        BY <3>4, <4>1 DEF IInv, JustBuilt, ArchivesOK
      <4>3. origin[b].text \in Nat
        BY <4>2, BuildsTyped
      <4>4. /\ session[s].inputs <= origin[b].text /\ origin[b].text <= tree.text
            /\ origin[b].rev = session[s].mem.rev
        BY <2>1, <3>4 DEF HandClean, Building
      <4>5. origin[b].text <= tree'.text
        BY <1>2, <3>1, <3>2, <4>3, <4>4
      <4>. QED
        BY <4>4, <4>5 DEF Building
    <3>. QED
      BY <2>1, <2>3, <3>3, <3>4 DEF HandClean
  <2>. QED
    BY <2>2, <2>3
<1>7. HandsOK'
  BY <1>1, <1>6 DEF HandsOK
<1>. QED
  BY <1>4, <1>5, <1>7 DEF CInv

LEMMA OthersClean ==
  ASSUME IInv, CInv, Expire \/ ForeignPush \/ UNCHANGED vars
  PROVE  CInv'
<1>1. UNCHANGED <<tree, changes, archive, origin, manifest, signed, session>>
  BY DEF Expire, ForeignPush, vars, source, files, registry, history
<1>. QED
  BY <1>1 DEF CInv, TreeOK, HandsOK, FilesOK, LabelsOK

LEMMA InitClean == Init => CInv
<1>. SUFFICES ASSUME Init PROVE CInv
  OBVIOUS
<1>1. TreeOK /\ FilesOK /\ LabelsOK
  BY DEF Init, TreeOK, FilesOK, LabelsOK, Loaded
<1>2. HandsOK
  BY BlankClean DEF Init, HandsOK
<1>. QED
  BY <1>1, <1>2 DEF CInv

LEMMA StepClean == IInv /\ CInv /\ [SdkNext]_vars => CInv'
<1>. SUFFICES ASSUME IInv, CInv, [SdkNext]_vars PROVE CInv'
  OBVIOUS
<1>1. ASSUME NEW s \in Sessions, SdkStart(s) \/ Acquire(s) \/ Interrupted(s) PROVE CInv'
  BY <1>1, SdkStarts, StartClean, AcquireClean, StopsClean
<1>2. ASSUME NEW s \in Sessions, SdkWork(s) PROVE CInv'
  <2>1. CASE SdkBuild(s)
    BY <2>1, OpenBuildClean, HashInputsClean, BuildxClean, RecordBuildClean DEF SdkBuild
  <2>2. CASE SdkScan(s)
    BY <2>2, OpenScanClean, ReportClean, SbomClean, RecordScanClean DEF SdkScan
  <2>3. CASE SdkPublish(s)
    BY <2>3, SdkValidateClean, LookupClean, PublishingClean, SignClean, RecordPublicationClean,
       FinishPublicationClean DEF SdkPublish, SdkVerify
  <2>4. CASE SdkPromote(s) \/ Done(s)
    BY <2>4, PromoteClean, StopsClean
  <2>. QED
    BY <1>2, <2>1, <2>2, <2>3, <2>4 DEF SdkWork
<1>3. CASE ChangeSource \/ Expire \/ ForeignPush \/ UNCHANGED vars
  BY <1>3, ChangeSourceClean, OthersClean
<1>. QED
  BY <1>1, <1>2, <1>3 DEF SdkNext

(* What publish signs was built from the text of the commit it is labelled *)
(* with, however the tree is edited, committed and reverted between the    *)
(* commands, as long as nobody reverts it during a build.                  *)
THEOREM SignaturesAreOfCleanSources == SdkSpec => []SignedFromCleanSource
<1>1. Init => IInv /\ CInv
  BY InitHolds, InitClean
<1>2. (IInv /\ CInv) /\ [SdkNext]_vars => (IInv /\ CInv)'
  BY SdkSteps, StepKeeps, StepClean
<1>3. IInv /\ CInv => SignedFromCleanSource
  BY DEF CInv, LabelsOK, SignedFromCleanSource
<1>. QED
  BY <1>1, <1>2, <1>3, PTL DEF SdkSpec

=============================================================================
