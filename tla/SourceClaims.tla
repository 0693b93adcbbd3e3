---------------------------- MODULE SourceClaims ----------------------------
(***************************************************************************)
(* The claims on sources that keep two releases of the distribution from   *)
(* collecting the same thing twice (elven: check_source_claims).           *)
(*                                                                         *)
(* The chart annotates the agents it deploys with the signals and          *)
(* namespaces they collect.  install and upgrade read the agents of all    *)
(* other releases, refuse a profile that overlaps them unless the operator *)
(* acknowledges it, and a good while later run Helm.  rollback does not    *)
(* look.  A failed upgrade returns to the last deployed revision.          *)
(*                                                                         *)
(* Helm refuses a release with an operation pending.  A release stands for *)
(* its name and its namespace; its agents are replaced in one step.        *)
(* Nobody uninstalls a release another terminal's Helm is working on.      *)
(***************************************************************************)
EXTENDS Naturals, FiniteSets

CONSTANTS
  Sessions,     (* terminals running the tool                              *)
  Releases,     (* core releases                                           *)
  Namespaces,   (* application namespaces                                  *)
  Profiles,     (* profiles that operators install                         *)
  Legacy,       (* agents of older charts, deployed without annotations    *)
  None,         (* absent                                                  *)
  MaxCommands   (* bound: commands started                                 *)

Modules == {"logs", "ebpf", "kubeletMetrics", "clusterMetrics"}

(* What collects for a release: the modules enabled and the namespaces     *)
(* chosen, none of them meaning all.                                       *)
Agents == [modules : SUBSET Modules, namespaces : SUBSET Namespaces, annotated : BOOLEAN]

ASSUME ConstantsAssumption ==
  /\ Profiles \subseteq Agents /\ \A p \in Profiles : p.annotated
  /\ Legacy \subseteq Agents /\ \A p \in Legacy : ~p.annotated
  /\ None \notin Agents \cup Releases
  /\ MaxCommands \in Nat

VARIABLES
  running,   (* agents of each release in the cluster                      *)
  stable,    (* agents of its last deployed Helm revision                  *)
  past,      (* agents of its Helm revisions                               *)
  pending,   (* releases with a Helm operation pending                     *)
  session,   (* the invocations                                            *)
  commands,  (* commands started                                           *)
  exempt     (* history variable: releases whose agents no check vouches   *)
             (* for: acknowledged, rolled back, or changed after another   *)
             (* release changed since the check                            *)

helm == <<stable, past, pending>>
vars == <<running, stable, past, pending, session, commands, exempt>>

Locations == {"idle", "claims", "helm", "apply", "wait", "uninstall"}

(* unchecked: acknowledged or a rollback; overtaken: another release's     *)
(* agents changed since the check; was: what a failed upgrade returns to   *)
(* was exempt.                                                             *)
SessionState ==
  [at : Locations, cmd : {"none", "install", "rollback", "uninstall"},
   release : Releases \cup {None}, agents : Agents \cup {None},
   unchecked : BOOLEAN, overtaken : BOOLEAN, was : BOOLEAN]

Blank ==
  [at |-> "idle", cmd |-> "none", release |-> None, agents |-> None,
   unchecked |-> FALSE, overtaken |-> FALSE, was |-> FALSE]
-----------------------------------------------------------------------------
(* Claims.  Where an operator has a faulty twin defined just before it,    *)
(* the twin is the mutant PROJECT.json names for a property.               *)
NodeSignals == {"logs", "traces", "kubelet"}
SignalOf ==
  [logs |-> "logs", ebpf |-> "traces", kubeletMetrics |-> "kubelet",
   clusterMetrics |-> "cluster-metrics"]
Signals(a) == {SignalOf[x] : x \in a.modules}

(* The workloads the chart deploys and what it writes on them.             *)
NodeAgent(a) ==
  IF Signals(a) \cap NodeSignals = {} THEN {}
  ELSE {[component |-> "node", signals |-> Signals(a) \cap NodeSignals, namespaces |-> a.namespaces]}
ClusterAgent(a) ==
  IF "clusterMetrics" \notin a.modules THEN {}
  ELSE {[component |-> "cluster-metrics", signals |-> {"clustermetrics"}, namespaces |-> a.namespaces]}
Workloads(a) ==
  LET deployed == NodeAgent(a) \cup ClusterAgent(a)
  IN  IF a.annotated THEN deployed
      ELSE {[w EXCEPT !.signals = {}, !.namespaces = {}] : w \in deployed}

(* What a workload collects, as the tool reads it.                         *)
AnnotatedOnly(w) == w.signals
ActiveSignals(w) ==
  IF w.signals # {} THEN w.signals
  ELSE IF w.component = "node" THEN NodeSignals ELSE {"cluster-metrics"}

Overlaps(a, w) ==
  LET shared == Signals(a) \cap ActiveSignals(w)
  IN  \/ "kubelet" \in shared
      \/ /\ shared # {}
         /\ a.namespaces = {} \/ w.namespaces = {} \/ a.namespaces \cap w.namespaces # {}

EveryRelease(r) == Releases
Others(r) == Releases \ {r}

(* check_source_claims finds nothing against agents a for release r.       *)
NoOverlap(r, a) ==
  \A q \in Others(r) :
    running[q] # None => \A w \in Workloads(running[q]) : ~Overlaps(a, w)
-----------------------------------------------------------------------------
Set(s, st) == session' = [session EXCEPT ![s] = st]
Goto(s, loc) == Set(s, [session[s] EXCEPT !.at = loc])
End(s) == Set(s, Blank)

Checked(t) == session[t].at \in {"helm", "apply", "wait"}

(* History: the agents of s's release changed, so what other terminals     *)
(* read of it is out of date.                                              *)
Overtake(s, st) ==
  session' = [t \in Sessions |->
    IF t = s THEN st
    ELSE [session[t] EXCEPT
            !.overtaken = @ \/ (Checked(t) /\ session[t].release # session[s].release)]]

(* The sources that agents on the nodes read: of an application namespace, *)
(* or the kubelets, which belong to none.  Agents of older charts were     *)
(* installed on sources reviewed to be apart.                              *)
Sources(a) ==
  {<<x, n>> : x \in Signals(a) \cap {"logs", "traces"}, n \in a.namespaces}
    \cup {<<x, None>> : x \in Signals(a) \cap {"kubelet"}}

Init ==
  /\ running \in [Releases -> Legacy \cup {None}]
  /\ \A q, r \in Releases :
       q # r /\ running[q] # None /\ running[r] # None =>
         Sources(running[q]) \cap Sources(running[r]) = {}
  /\ stable = running
  /\ past = [r \in Releases |-> {running[r]} \ {None}]
  /\ pending = {}
  /\ session = [s \in Sessions |-> Blank]
  /\ commands = 0 /\ exempt = {}

(* main: install and upgrade render a profile; rollback and uninstall need *)
(* the settings of an installed release.                                   *)
Start(s) ==
  /\ session[s].at = "idle" /\ commands < MaxCommands
  /\ commands' = commands + 1
  /\ \E r \in Releases :
       \/ \E a \in Profiles, ack \in BOOLEAN :
            Set(s, [Blank EXCEPT !.at = "claims", !.cmd = "install", !.release = r,
                      !.agents = a, !.unchecked = ack])
       \/ /\ running[r] # None
          /\ \E a \in past[r] :
               Set(s, [Blank EXCEPT !.at = "helm", !.cmd = "rollback", !.release = r,
                         !.agents = a, !.unchecked = TRUE])
       \/ /\ running[r] # None
          /\ Set(s, [Blank EXCEPT !.at = "uninstall", !.cmd = "uninstall", !.release = r])
  /\ UNCHANGED <<running, helm, exempt>>

(* A call fails or times out, or the process is killed.                    *)
Interrupted(s) ==
  /\ session[s].at # "idle" /\ End(s)
  /\ UNCHANGED <<running, helm, commands, exempt>>

CheckClaims(s) ==
  LET me == session[s]
  IN  /\ me.at = "claims"
      /\ IF me.unchecked \/ Signals(me.agents) = {} \/ NoOverlap(me.release, me.agents)
         THEN Set(s, [me EXCEPT !.at = "helm", !.overtaken = FALSE])
         ELSE End(s)
      /\ UNCHANGED <<running, helm, commands, exempt>>

(* Helm records a pending revision; a rollback needs the one it returns to.*)
StartHelm(s) ==
  LET me == session[s]
      r == me.release
  IN  /\ me.at = "helm"
      /\ IF r \in pending \/ (me.cmd = "rollback" /\ me.agents \notin past[r])
         THEN End(s) /\ UNCHANGED <<past, pending>>
         ELSE /\ pending' = pending \cup {r}
              /\ past' = [past EXCEPT ![r] = @ \cup {me.agents}]
              /\ Goto(s, "apply")
      /\ UNCHANGED <<running, stable, commands, exempt>>

Marked(r, bad) == IF bad THEN exempt \cup {r} ELSE exempt \ {r}

Apply(s) ==
  LET me == session[s]
      r == me.release
  IN  /\ me.at = "apply"
      /\ running' = [running EXCEPT ![r] = me.agents]
      /\ exempt' = Marked(r, me.unchecked \/ me.overtaken)
      /\ Overtake(s, [me EXCEPT !.at = "wait", !.was = r \in exempt \/ running[r] # stable[r]])
      /\ UNCHANGED <<helm, commands>>

Succeed(s) ==
  LET r == session[s].release
  IN  /\ session[s].at = "wait"
      /\ stable' = [stable EXCEPT ![r] = session[s].agents]
      /\ pending' = pending \ {r}
      /\ End(s)
      /\ UNCHANGED <<running, past, commands, exempt>>

(* --atomic returns to the last deployed revision, or removes a release    *)
(* that has none; rollback has no such flag, and the return itself may     *)
(* fail.                                                                   *)
KeepRevisions(r) == past
Forget(r) == [past EXCEPT ![r] = {}]

Revert(s) ==
  LET me == session[s]
      r == me.release
  IN  /\ me.at = "wait" /\ me.cmd = "install"
      /\ running' = [running EXCEPT ![r] = stable[r]]
      /\ past' = IF stable[r] = None THEN Forget(r) ELSE past
      /\ pending' = pending \ {r}
      /\ exempt' = Marked(r, me.was \/ me.overtaken)
      /\ Overtake(s, Blank)
      /\ UNCHANGED <<stable, commands>>

Fails(s) ==
  LET r == session[s].release
  IN  /\ session[s].at = "wait" /\ (session[s].cmd = "rollback" \/ stable[r] # None)
      /\ pending' = pending \ {r} /\ End(s)
      /\ UNCHANGED <<running, stable, past, commands, exempt>>

Uninstall(s) ==
  LET r == session[s].release
  IN  /\ session[s].at = "uninstall"
      /\ \A t \in Sessions : session[t].at \in {"apply", "wait"} => session[t].release # r
      /\ running' = [running EXCEPT ![r] = None]
      /\ stable' = [stable EXCEPT ![r] = None]
      /\ past' = Forget(r)
      /\ pending' = pending \ {r} /\ exempt' = exempt \ {r}
      /\ End(s)
      /\ UNCHANGED commands

Work(s) ==
  \/ CheckClaims(s) \/ StartHelm(s) \/ Apply(s) \/ Succeed(s) \/ Revert(s) \/ Fails(s)
  \/ Uninstall(s)

Next == \E s \in Sessions : Start(s) \/ Interrupted(s) \/ Work(s)

Spec == Init /\ [][Next]_vars
-----------------------------------------------------------------------------
(* Properties.                                                             *)
TypeOK ==
  /\ running \in [Releases -> Agents \cup {None}]
  /\ stable \in [Releases -> Agents \cup {None}]
  /\ past \in [Releases -> SUBSET Agents]
  /\ \A r \in Releases : stable[r] # None => stable[r] \in past[r]
  /\ \A r \in Releases : past[r] # {} => running[r] # None \/ r \in pending
  /\ pending \subseteq Releases
  /\ session \in [Sessions -> SessionState]
  /\ commands \in Nat /\ exempt \subseteq Releases

Vouched == {r \in Releases : running[r] # None /\ r \notin exempt}

(* "Each source/signal in scope must have a single origin": releases whose *)
(* agents a check vouches for never collect logs or traces of the same     *)
(* namespace, and at most one of them reads the kubelets, whatever other   *)
(* installations, failed upgrades, rollbacks and removals happened, and    *)
(* although agents of older charts say nothing of what they collect.       *)
NodeSourcesHaveOneReader ==
  \A q, r \in Vouched : q # r => Sources(running[q]) \cap Sources(running[r]) = {}

(* The same command can be run again: what the current chart deployed      *)
(* under a check passes the check again next to the other such releases,   *)
(* in whatever order they came and were upgraded.                          *)
ReconcilePasses ==
  Vouched = {r \in Releases : running[r] # None} =>
    \A r \in Vouched : running[r].annotated => NoOverlap(r, running[r])

(* docs/architecture.md, of the inspection of claims: overlap must fail by *)
(* default.  For the state of the cluster: two releases that a check       *)
(* vouches for do not both collect that of one namespace.                  *)
ClusterSources(a) ==
  IF "clusterMetrics" \notin a.modules THEN {}
  ELSE IF a.namespaces = {} THEN Namespaces ELSE a.namespaces
ClusterStateHasOneReader ==
  \A q, r \in Vouched :
    q # r => ClusterSources(running[q]) \cap ClusterSources(running[r]) = {}
=============================================================================
