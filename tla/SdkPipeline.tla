------------------------------ MODULE SdkPipeline ------------------------------
(***************************************************************************)
(* The release pipeline of the operator and of the instrumentation SDK     *)
(* payloads (scripts/images-instrumentation.py).                           *)
(*                                                                         *)
(* It has a lock file, evidence directories, a manifest and commands of    *)
(* its own, which go through the steps that ReleasePipeline describes and  *)
(* call the same helpers.  What differs is stated here: no image needs an  *)
(* audit, publish compares the inputs of every build with the working tree *)
(* once more, and stale evidence is refused without any advice.            *)
(***************************************************************************)
EXTENDS ReleasePipeline

ASSUME NoAudit == Audited = {}

(* main parses the command and reads the lock before it waits for the      *)
(* evidence directory.                                                     *)
SdkStart(s) ==
  /\ ~Active(s) /\ runs < MaxRuns
  /\ runs' = runs + 1
  /\ \E d \in Dirs :
       \/ \E cs \in Chosen : Invoke(s, "build", d, cs) \/ Invoke(s, "scan", d, cs)
       \/ PublisherFree /\ Invoke(s, "publish", d, Images)
       \/ Invoke(s, "promote", d, Images)
  /\ UNCHANGED <<source, manifest, files, promoted, holder, registry, clock, foreign, history>>

(* build hashes the inputs of an image, builds it, hashes them again and   *)
(* records the image without any scan.                                     *)
SdkBuild(s) == OpenBuild(s) \/ HashInputs(s) \/ Buildx(s) \/ RecordBuild(s)

(* scan writes the report and then the SPDX document of each architecture, *)
(* and records the outcome, passed or not.                                 *)
SdkScan(s) == OpenScan(s) \/ Report(s) \/ Sbom(s) \/ RecordScan(s)

(* The hashes of an image's inputs, recorded at its build.                 *)
InputsNotRechecked(r) == TRUE
InputsUnchanged(r) == r.inputs = tree.text

SdkPublishable(d) ==
  /\ Publishable(d) /\ Current(d)
  /\ \A c \in Images : InputsUnchanged(manifest[d].images[c])

(* All evidence is validated before the registry is touched; a refusal is  *)
(* the end of the command and leaves no trace.                             *)
SdkValidate(s) ==
  LET me == session[s]
  IN  /\ me.at = "open" /\ me.cmd = "publish"
      /\ IF SdkPublishable(me.dir)
         THEN Set(s, [me EXCEPT !.at = "lookup", !.mem = manifest[me.dir]]) /\ UNCHANGED holder
         ELSE End(s)
      /\ UNCHANGED <<source, manifest, files, promoted, registry, clock, runs, foreign, history>>

(* verify_reference: signed, and attested with exactly the approved        *)
(* predicates.                                                             *)
SdkVerify(s) == VerifyPublished(s)

(* Tags are looked up; each image is pushed unless it is there, compared   *)
(* with what the registry has, signed, attested, verified and recorded.    *)
SdkPublish(s) ==
  \/ SdkValidate(s)
  \/ Lookup(s) \/ LookedUp(s) \/ NextImage(s) \/ Push(s) \/ Recheck(s)
  \/ Sign(s) \/ Attest(s) \/ SdkVerify(s) \/ RecordPublication(s) \/ FinishPublication(s)

SdkPromote(s) == OpenPromote(s) \/ CheckPromotion(s) \/ WritePromoted(s)

SdkWork(s) == SdkBuild(s) \/ SdkScan(s) \/ SdkPublish(s) \/ SdkPromote(s) \/ Done(s)

SdkNext ==
  \/ \E s \in Sessions : SdkStart(s) \/ Acquire(s) \/ Interrupted(s) \/ SdkWork(s)
  \/ ChangeSource \/ Expire \/ ForeignPush

SdkSpec == Init /\ [][SdkNext]_vars

(* A command that runs is not stopped for ever: the workflow's job time    *)
(* limits end what has no deadline of its own.  A process waiting for a    *)
(* lock has none: it goes on only when it gets the lock.                   *)
Fairness ==
  \A s \in Sessions :
    WF_vars(SdkWork(s) \/ Acquire(s) \/ (session[s].at # "lock" /\ Interrupted(s)))

FairSpec == SdkSpec /\ Fairness

-----------------------------------------------------------------------------
(* Properties.                                                             *)

(* "Builds from dirty local source are laboratory evidence, never an       *)
(* approved publication" (docs/instrumentation-supply-chain.md): what is   *)
(* signed was built from the text of the commit it is labelled with, even  *)
(* when the tree is edited, reverted and committed between commands.       *)
SignedFromCleanSource == \A x \in signed \ {Foreign} : origin[x].text = origin[x].rev

(* Every command ends: a lock whose owner was killed is not kept.          *)
CommandsEnd == \A s \in Sessions : Active(s) ~> ~Active(s)

=============================================================================
