------------------------- MODULE SourceClaimsProofs -------------------------
(***************************************************************************)
(* Proofs about SourceClaims, for any number of terminals, releases and    *)
(* namespaces: no two releases a check vouches for read the same source on *)
(* the nodes.                                                              *)
(*                                                                         *)
(* The inductive invariant says what a terminal may still rely on between  *)
(* its check and the end of Helm's operation, as long as no other release  *)
(* changed: the agents it deploys are apart from all others (InHand), and  *)
(* so are those a failed upgrade returns to (Fallback).  Helm's pending    *)
(* revision keeps other terminals off the release meanwhile (Locked).      *)
(***************************************************************************)
EXTENDS SourceClaims, TLAPS

(* The check finds nothing against agents x in what y deploys.             *)
Clear(x, y) == \A w \in Workloads(y) : ~Overlaps(x, w)

Apart(x, y) ==
  x # None /\ y # None =>
    /\ Sources(x) \cap Sources(y) = {}
    /\ x.annotated => Clear(x, y)
    /\ y.annotated => Clear(y, x)

Operating(s) == session[s].at \in {"apply", "wait"}

SessionsOK ==
  \A s \in Sessions :
    /\ session[s].at # "idle" => session[s].release \in Releases
    /\ session[s].at \in {"claims", "helm", "apply", "wait"} => session[s].agents \in Agents
    /\ session[s].at = "claims" => session[s].agents.annotated

Locked ==
  /\ \A s \in Sessions : Operating(s) =>
       session[s].release \in pending /\ session[s].agents \in past[session[s].release]
  /\ \A s \in Sessions : session[s].at = "wait" => running[session[s].release] # None
  /\ \A s, t \in Sessions :
       s # t /\ Operating(s) /\ Operating(t) => session[s].release # session[t].release

OneReader ==
  \A q, r \in Releases \ exempt : q # r => Apart(running[q], running[r])

InHand ==
  \A s \in Sessions :
    Checked(s) /\ ~session[s].unchecked /\ ~session[s].overtaken =>
      \A q \in Others(session[s].release) : Apart(session[s].agents, running[q])

Fallback ==
  \A s \in Sessions :
    session[s].at = "wait" /\ ~session[s].was /\ ~session[s].overtaken =>
      \A q \in Others(session[s].release) \ exempt : Apart(stable[session[s].release], running[q])

IInv == TypeOK /\ SessionsOK /\ Locked /\ OneReader /\ InHand /\ Fallback
-----------------------------------------------------------------------------
(* Facts about claims.                                                     *)

LEMMA ApartSymmetric == \A x, y : Apart(x, y) => Apart(y, x)
BY DEF Apart

(* A source on the nodes is one of the signals a workload shows.           *)
LEMMA WorkloadOfSource ==
  ASSUME NEW x \in Agents, NEW e \in Sources(x)
  PROVE  /\ e[1] \in Signals(x) \cap NodeSignals
         /\ \E w \in Workloads(x) :
              /\ e[1] \in ActiveSignals(w)
              /\ w.namespaces = x.namespaces \/ w.namespaces = {}
         /\ e[1] # "kubelet" => e[2] \in x.namespaces
<1>1. /\ e[1] \in Signals(x) \cap NodeSignals
      /\ e[1] # "kubelet" => e[2] \in x.namespaces
  BY DEF Sources, NodeSignals
<1>2. PICK w \in NodeAgent(x) :
        w = [component |-> "node", signals |-> Signals(x) \cap NodeSignals,
             namespaces |-> x.namespaces]
  BY <1>1 DEF NodeAgent
<1>3. CASE x.annotated
  <2>1. w \in Workloads(x)
    BY <1>3 DEF Workloads
  <2>2. e[1] \in ActiveSignals(w)
    BY <1>1, <1>2 DEF ActiveSignals
  <2> QED BY <1>1, <1>2, <2>1, <2>2
<1>4. CASE ~x.annotated
  <2> DEFINE v == [w EXCEPT !.signals = {}, !.namespaces = {}]
  <2>1. v \in Workloads(x)
    BY <1>4 DEF Workloads
  <2>2. v.signals = {} /\ v.component = "node" /\ v.namespaces = {}
    BY <1>2
  <2>3. e[1] \in ActiveSignals(v)
    BY <1>1, <2>2 DEF ActiveSignals
  <2> QED BY <1>1, <2>1, <2>2, <2>3
<1> QED BY <1>3, <1>4

(* check_source_claims: agents that overlap no workload of other agents    *)
(* read none of their sources on the nodes.                                *)
LEMMA CheckIsSound ==
  ASSUME NEW x \in Agents, NEW y \in Agents,
         Clear(x, y)
  PROVE  Sources(x) \cap Sources(y) = {}
<1>1. SUFFICES ASSUME NEW e \in Sources(x) \cap Sources(y)
               PROVE  FALSE
  OBVIOUS
<1>2. /\ e[1] \in Signals(x)
      /\ e[1] # "kubelet" => e[2] \in x.namespaces
  BY WorkloadOfSource
<1>3. PICK w \in Workloads(y) :
        /\ e[1] \in ActiveSignals(w)
        /\ w.namespaces = y.namespaces \/ w.namespaces = {}
  BY WorkloadOfSource
<1>4. e[1] # "kubelet" => e[2] \in y.namespaces
  BY WorkloadOfSource
<1>5. e[1] \in Signals(x) \cap ActiveSignals(w)
  BY <1>2, <1>3
<1>6. Overlaps(x, w)
  BY <1>2, <1>3, <1>4, <1>5 DEF Overlaps
<1> QED BY <1>6 DEF Clear

LEMMA NothingToCheck ==
  ASSUME NEW x, Signals(x) = {} PROVE Sources(x) = {} /\ \A y : Clear(x, y)
<1>1. Sources(x) = {}
  BY DEF Sources
<1>2. \A w : ~Overlaps(x, w)
  BY DEF Overlaps
<1> QED BY <1>1, <1>2 DEF Clear

(* The check is symmetric between agents of the current chart: what passed *)
(* next to others would not have been in their way either.                 *)
LEMMA CheckIsSymmetric ==
  ASSUME NEW x \in Agents, NEW y \in Agents, x.annotated, y.annotated, Clear(x, y)
  PROVE  Clear(y, x)
<1>1. SUFFICES ASSUME NEW v \in Workloads(x), Overlaps(y, v) PROVE FALSE
  BY DEF Clear
<1>2. v \in NodeAgent(x) \cup ClusterAgent(x)
  BY DEF Workloads
<1>3. CASE v \in ClusterAgent(x)
  <2>1. ActiveSignals(v) = {"clustermetrics"}
    BY <1>3 DEF ClusterAgent, ActiveSignals
  <2>2. "clustermetrics" \notin Signals(y)
    BY DEF Signals, SignalOf, Agents, Modules
  <2> QED BY <1>1, <2>1, <2>2 DEF Overlaps
<1>4. CASE v \in NodeAgent(x)
  <2> DEFINE both == Signals(x) \cap Signals(y) \cap NodeSignals
             w == [component |-> "node", signals |-> Signals(y) \cap NodeSignals,
                   namespaces |-> y.namespaces]
  <2>1. /\ v.signals = Signals(x) \cap NodeSignals /\ v.namespaces = x.namespaces
        /\ ActiveSignals(v) = Signals(x) \cap NodeSignals
    BY <1>4 DEF NodeAgent, ActiveSignals
  <2>2. /\ both # {}
        /\ \/ "kubelet" \in both
           \/ x.namespaces = {} \/ y.namespaces = {} \/ x.namespaces \cap y.namespaces # {}
    BY <1>1, <2>1 DEF Overlaps
  <2>3. w \in Workloads(y)
    BY <2>2 DEF NodeAgent, Workloads
  <2>4. Signals(x) \cap ActiveSignals(w) = both
    BY <2>2 DEF ActiveSignals
  <2>5. w.namespaces = y.namespaces
    OBVIOUS
  <2>6. Overlaps(x, w)
    <3> HIDE DEF w, both
    <3> QED BY <2>2, <2>4, <2>5 DEF Overlaps
  <2> QED BY <2>3, <2>6 DEF Clear
<1> QED BY <1>2, <1>3, <1>4

(* A passed check keeps agents apart from those of all other releases.     *)
LEMMA PassedIsApart ==
  ASSUME TypeOK, NEW r \in Releases, NEW x \in Agents, x.annotated,
         Signals(x) = {} \/ NoOverlap(r, x)
  PROVE  \A q \in Others(r) : Apart(x, running[q])
<1>1. SUFFICES ASSUME NEW q \in Others(r), running[q] # None
               PROVE  Apart(x, running[q])
  BY DEF Apart
<1>2. running[q] \in Agents
  BY <1>1 DEF TypeOK, Others
<1>3. Clear(x, running[q])
  BY <1>1, NothingToCheck DEF NoOverlap, Clear
<1>4. Sources(x) \cap Sources(running[q]) = {}
  BY <1>2, <1>3, CheckIsSound
<1>5. running[q].annotated => Clear(running[q], x)
  BY <1>2, <1>3, CheckIsSymmetric
<1> QED BY <1>3, <1>4, <1>5 DEF Apart
-----------------------------------------------------------------------------
(* The initial states, and the steps of one terminal.                      *)
USE ConstantsAssumption

LEMMA InitOK == Init => IInv
<1> SUFFICES ASSUME Init PROVE IInv
  OBVIOUS
<1>1. TypeOK
  BY DEF Init, TypeOK, SessionState, Blank, Locations
<1>2. SessionsOK /\ Locked /\ InHand /\ Fallback
  BY DEF Init, Blank, SessionsOK, Locked, InHand, Fallback, Operating, Checked
<1>3. OneReader
  <2>1. \A r \in Releases : running[r] # None => ~running[r].annotated
    BY DEF Init
  <2> QED BY <2>1 DEF Init, OneReader, Apart
<1> QED BY <1>1, <1>2, <1>3 DEF IInv

(* A terminal that changes nothing but itself and lets go of a release, or *)
(* takes up a command that relies on no check.                             *)
LEMMA UnreliedKeeps ==
  ASSUME IInv, NEW s \in Sessions, NEW st \in SessionState, Set(s, st),
         UNCHANGED <<running, helm, exempt>>, commands' \in Nat,
         st.at \in {"idle", "claims", "helm", "uninstall"},
         st.at # "idle" => st.release \in Releases,
         st.at \in {"claims", "helm"} => st.agents \in Agents,
         st.at = "claims" => st.agents.annotated,
         st.at = "helm" /\ ~st.unchecked /\ ~st.overtaken =>
           \A q \in Others(st.release) : Apart(st.agents, running[q])
  PROVE  IInv'
<1>1. session \in [Sessions -> SessionState] /\ session' = [session EXCEPT ![s] = st]
  BY DEF IInv, TypeOK, Set
<1>2. session'[s] = st /\ \A t \in Sessions \ {s} : session'[t] = session[t]
  BY <1>1
<1>3. TypeOK'
  BY <1>1 DEF IInv, TypeOK, helm
<1>4. SessionsOK'
  BY <1>2 DEF IInv, SessionsOK
<1>5. Locked'
  BY <1>2 DEF IInv, Locked, Operating, helm
<1>6. OneReader'
  BY DEF IInv, OneReader, helm
<1>7. InHand'
  BY <1>2 DEF IInv, InHand, Checked, Others, helm
<1>8. Fallback'
  BY <1>2 DEF IInv, Fallback, Others, helm
<1> QED BY <1>3, <1>4, <1>5, <1>6, <1>7, <1>8 DEF IInv

LEMMA BlankOK == Blank \in SessionState
BY DEF Blank, SessionState, Locations

LEMMA StartKeeps == ASSUME IInv, NEW s \in Sessions, Start(s) PROVE IInv'
<1>1. commands' \in Nat /\ UNCHANGED <<running, helm, exempt>>
  <2>1. commands' = commands + 1 /\ UNCHANGED <<running, helm, exempt>>
    BY Zenon DEF Start
  <2> QED BY <2>1 DEF IInv, TypeOK
<1>2. PICK r \in Releases :
        \/ \E x \in Profiles, ack \in BOOLEAN :
             Set(s, [Blank EXCEPT !.at = "claims", !.cmd = "install", !.release = r,
                       !.agents = x, !.unchecked = ack])
        \/ \E x \in past[r] :
             Set(s, [Blank EXCEPT !.at = "helm", !.cmd = "rollback", !.release = r,
                       !.agents = x, !.unchecked = TRUE])
        \/ Set(s, [Blank EXCEPT !.at = "uninstall", !.cmd = "uninstall", !.release = r])
  BY Zenon DEF Start
<1>3. PICK st :
        /\ Set(s, st)
        /\ \/ \E x \in Profiles, ack \in BOOLEAN :
                st = [Blank EXCEPT !.at = "claims", !.cmd = "install", !.release = r,
                        !.agents = x, !.unchecked = ack]
           \/ \E x \in past[r] :
                st = [Blank EXCEPT !.at = "helm", !.cmd = "rollback", !.release = r,
                        !.agents = x, !.unchecked = TRUE]
           \/ st = [Blank EXCEPT !.at = "uninstall", !.cmd = "uninstall", !.release = r]
  BY <1>2, Zenon
<1>4. past[r] \subseteq Agents /\ Profiles \subseteq Agents
  BY DEF IInv, TypeOK
<1>5. /\ st \in SessionState /\ st.at \in {"claims", "helm", "uninstall"}
      /\ st.release = r /\ (st.at = "helm" => st.unchecked)
      /\ st.at \in {"claims", "helm"} => st.agents \in Agents
      /\ st.at = "claims" => st.agents.annotated
  BY <1>3, <1>4 DEF Blank, SessionState, Locations
<1> QED BY <1>1, <1>3, <1>5, UnreliedKeeps

LEMMA EndKeeps ==
  ASSUME IInv, NEW s \in Sessions, End(s), UNCHANGED <<running, helm, commands, exempt>>
  PROVE  IInv'
<1>1. Blank.at = "idle" /\ commands' \in Nat
  BY DEF Blank, IInv, TypeOK
<1> QED BY <1>1, BlankOK, UnreliedKeeps DEF End

LEMMA CheckClaimsKeeps == ASSUME IInv, NEW s \in Sessions, CheckClaims(s) PROVE IInv'
<1>1. UNCHANGED <<running, helm, commands, exempt>>
  BY DEF CheckClaims
<1>2. CASE End(s)
  BY <1>1, <1>2, EndKeeps
<1>3. CASE ~End(s)
  <2>1. PICK me \in SessionState : me = session[s]
    BY DEF IInv, TypeOK
  <2>2. PICK st : st = [me EXCEPT !.at = "helm", !.overtaken = FALSE]
    OBVIOUS
  <2>3. /\ me.at = "claims" /\ me.release \in Releases /\ me.agents \in Agents
        /\ me.agents.annotated
        /\ me.unchecked \/ Signals(me.agents) = {} \/ NoOverlap(me.release, me.agents)
        /\ Set(s, st)
    BY <1>3, <2>1, <2>2 DEF CheckClaims, IInv, SessionsOK
  <2>4. /\ st \in SessionState /\ st.at = "helm" /\ st.release = me.release
        /\ st.agents = me.agents /\ st.unchecked = me.unchecked
    BY <2>1, <2>2 DEF SessionState, Locations
  <2>5. ~st.unchecked => \A q \in Others(st.release) : Apart(st.agents, running[q])
    BY <2>3, <2>4, PassedIsApart DEF IInv
  <2>6. commands' \in Nat
    BY <1>1 DEF IInv, TypeOK
  <2> QED BY <1>1, <2>3, <2>4, <2>5, <2>6, UnreliedKeeps
<1> QED BY <1>2, <1>3

(* What a step that changes the agents of a release does to the others.    *)
Same(t) ==
  /\ session'[t].at = session[t].at /\ session'[t].cmd = session[t].cmd
  /\ session'[t].release = session[t].release /\ session'[t].agents = session[t].agents
  /\ session'[t].unchecked = session[t].unchecked /\ session'[t].was = session[t].was

LEMMA OvertakeOK ==
  ASSUME TypeOK, NEW s \in Sessions, NEW st \in SessionState, Overtake(s, st)
  PROVE  /\ session' \in [Sessions -> SessionState] /\ session'[s] = st
         /\ \A t \in Sessions \ {s} :
              /\ Same(t)
              /\ session'[t].overtaken =
                   (session[t].overtaken
                    \/ (Checked(t) /\ session[t].release # session[s].release))
<1> DEFINE New(t) == [session[t] EXCEPT
              !.overtaken = @ \/ (Checked(t) /\ session[t].release # session[s].release)]
<1>1. session' = [t \in Sessions |-> IF t = s THEN st ELSE New(t)]
  BY DEF Overtake
<1>2. ASSUME NEW t \in Sessions
      PROVE  /\ New(t) \in SessionState
             /\ New(t).at = session[t].at /\ New(t).cmd = session[t].cmd
             /\ New(t).release = session[t].release /\ New(t).agents = session[t].agents
             /\ New(t).unchecked = session[t].unchecked /\ New(t).was = session[t].was
             /\ New(t).overtaken =
                   (session[t].overtaken
                    \/ (Checked(t) /\ session[t].release # session[s].release))
  <2>1. PICK o \in BOOLEAN :
          o = (session[t].overtaken \/ (Checked(t) /\ session[t].release # session[s].release))
    OBVIOUS
  <2>2. New(t) = [session[t] EXCEPT !.overtaken = o]
    <3>1. session[t] \in SessionState
      BY DEF TypeOK
    <3>2. New(t) = [session[t] EXCEPT !.overtaken =
             session[t].overtaken \/ (Checked(t) /\ session[t].release # session[s].release)]
      BY Zenon
    <3> QED BY <2>1, <3>2, Zenon
  <2>3. session[t] \in SessionState
    BY DEF TypeOK
  <2> HIDE DEF New
  <2> QED BY <2>1, <2>2, <2>3 DEF SessionState
<1> HIDE DEF New
<1> QED BY <1>1, <1>2 DEF Same

LEMMA StartHelmKeeps == ASSUME IInv, NEW s \in Sessions, StartHelm(s) PROVE IInv'
<1>1. PICK me \in SessionState : me = session[s]
  BY DEF IInv, TypeOK
<1>2. PICK r \in Releases : r = me.release
  BY <1>1 DEF StartHelm, IInv, SessionsOK
<1>3. me.at = "helm" /\ me.agents \in Agents /\ UNCHANGED <<running, stable, commands, exempt>>
  BY <1>1 DEF StartHelm, IInv, SessionsOK
<1>4. CASE End(s) /\ UNCHANGED <<past, pending>>
  BY <1>3, <1>4, EndKeeps DEF helm
<1>5. CASE ~(End(s) /\ UNCHANGED <<past, pending>>)
  <2>1. PICK st : st = [me EXCEPT !.at = "apply"]
    OBVIOUS
  <2>2. /\ st \in SessionState /\ st.at = "apply" /\ st.release = r /\ st.agents = me.agents
        /\ st.unchecked = me.unchecked /\ st.overtaken = me.overtaken
    BY <1>2, <2>1 DEF SessionState, Locations
  <2>3. /\ r \notin pending /\ pending' = pending \cup {r}
        /\ past' = [past EXCEPT ![r] = @ \cup {me.agents}]
        /\ session' = [session EXCEPT ![s] = st]
    BY <1>1, <1>2, <1>5, <2>1 DEF StartHelm, Goto, Set
  <2>4. session'[s] = st /\ \A t \in Sessions \ {s} : session'[t] = session[t]
    BY <2>3 DEF IInv, TypeOK
  <2>5. past' \in [Releases -> SUBSET Agents] /\ \A q \in Releases : past[q] \subseteq past'[q]
    BY <1>3, <2>3 DEF IInv, TypeOK
  <2>6. me.agents \in past'[r] /\ \A q \in Releases \ {r} : past'[q] = past[q]
    BY <2>3 DEF IInv, TypeOK
  <2>7. TypeOK'
    BY <1>3, <2>2, <2>3, <2>5, <2>6 DEF IInv, TypeOK
  <2>8. SessionsOK'
    BY <1>3, <2>2, <2>4 DEF IInv, SessionsOK
  <2>9. Locked'
    <3>1. \A t \in Sessions \ {s} : Operating(t) => session[t].release \in Releases \ {r}
      BY <2>3 DEF IInv, Locked, SessionsOK, Operating
    <3>2. \A t \in Sessions :
            Operating(t)' => session'[t].release \in pending'
                             /\ session'[t].agents \in past'[session'[t].release]
      BY <2>2, <2>3, <2>4, <2>6, <3>1 DEF IInv, Locked, Operating
    <3>3. \A t \in Sessions : session'[t].at = "wait" => running'[session'[t].release] # None
      BY <1>3, <2>2, <2>4 DEF IInv, Locked
    <3>4. \A t, u \in Sessions :
            t # u /\ Operating(t)' /\ Operating(u)' => session'[t].release # session'[u].release
      BY <2>2, <2>4, <3>1 DEF IInv, Locked, Operating
    <3> QED BY <3>2, <3>3, <3>4 DEF Locked
  <2>10. OneReader'
    BY <1>3 DEF IInv, OneReader
  <2>11. InHand'
    BY <1>1, <1>2, <1>3, <2>2, <2>4 DEF IInv, InHand, Checked, Others
  <2>12. Fallback'
    BY <1>3, <2>2, <2>4 DEF IInv, Fallback, Others
  <2> QED BY <2>7, <2>8, <2>9, <2>10, <2>11, <2>12 DEF IInv
<1> QED BY <1>4, <1>5

LEMMA MarkedOK ==
  ASSUME NEW r, NEW bad \in BOOLEAN, exempt' = Marked(r, bad)
  PROVE  /\ r \in exempt' <=> bad
         /\ \A q : q # r => (q \in exempt' <=> q \in exempt)
         /\ exempt' \subseteq exempt \cup {r}
BY DEF Marked

LEMMA ApplyKeeps == ASSUME IInv, NEW s \in Sessions, Apply(s) PROVE IInv'
<1>1. PICK me \in SessionState : me = session[s]
  BY DEF IInv, TypeOK
<1>2. PICK r \in Releases : r = me.release
  BY <1>1 DEF Apply, IInv, SessionsOK
<1>3. PICK was \in BOOLEAN : was = (r \in exempt \/ running[r] # stable[r])
  OBVIOUS
<1>4. PICK st : st = [me EXCEPT !.at = "wait", !.was = was]
  OBVIOUS
<1>5. /\ st \in SessionState /\ st.at = "wait" /\ st.release = r /\ st.agents = me.agents
      /\ st.unchecked = me.unchecked /\ st.overtaken = me.overtaken /\ st.was = was
  BY <1>2, <1>4 DEF SessionState, Locations
<1>6. /\ me.at = "apply" /\ me.agents \in Agents /\ running' = [running EXCEPT ![r] = me.agents]
      /\ exempt' = Marked(r, me.unchecked \/ me.overtaken)
      /\ UNCHANGED <<stable, past, pending, commands>>
  BY <1>1, <1>2 DEF Apply, helm, IInv, SessionsOK
<1>7. Overtake(s, st)
  <2>1. [me EXCEPT !.at = "wait", !.was = r \in exempt \/ running[r] # stable[r]] = st
    BY <1>3, <1>4, Zenon
  <2> QED BY <1>1, <1>2, <2>1 DEF Apply
<1>8. /\ session' \in [Sessions -> SessionState] /\ session'[s] = st
      /\ \A t \in Sessions \ {s} :
           /\ Same(t)
           /\ session'[t].overtaken =
                (session[t].overtaken \/ (Checked(t) /\ session[t].release # r))
  BY <1>1, <1>2, <1>5, <1>7, OvertakeOK DEF IInv
<1>9. PICK bad \in BOOLEAN : bad = (me.unchecked \/ me.overtaken)
  OBVIOUS
<1>10. /\ r \in exempt' <=> bad
       /\ \A q : q # r => (q \in exempt' <=> q \in exempt)
       /\ exempt' \subseteq exempt \cup {r}
  BY <1>6, <1>9, MarkedOK
<1>11. running'[r] = me.agents /\ \A q \in Releases \ {r} : running'[q] = running[q]
  BY <1>6 DEF IInv, TypeOK
<1>12. Operating(s) /\ \A t \in Sessions \ {s} : Operating(t) => session[t].release # r
  BY <1>1, <1>2, <1>6 DEF IInv, Locked, Operating
<1>13. TypeOK'
  BY <1>6, <1>8, <1>10, <1>11 DEF IInv, TypeOK
<1>14. SessionsOK'
  BY <1>5, <1>6, <1>8 DEF IInv, SessionsOK, Same
<1>15. Locked'
  <2>1. \A t \in Sessions :
          Operating(t)' => session'[t].release \in pending'
                           /\ session'[t].agents \in past'[session'[t].release]
    BY <1>1, <1>2, <1>5, <1>6, <1>8, <1>12 DEF IInv, Locked, Operating, Same
  <2>2. \A t \in Sessions : session'[t].at = "wait" => running'[session'[t].release] # None
    BY <1>5, <1>6, <1>8, <1>11 DEF IInv, Locked, Same, SessionsOK
  <2>3. \A t, u \in Sessions :
          t # u /\ Operating(t)' /\ Operating(u)' => session'[t].release # session'[u].release
    BY <1>5, <1>8, <1>12 DEF IInv, Locked, Operating, Same
  <2> QED BY <2>1, <2>2, <2>3 DEF Locked
<1>16. ~bad => \A q \in Others(r) : Apart(me.agents, running[q])
  BY <1>1, <1>2, <1>6, <1>9 DEF IInv, InHand, Checked
<1>17. OneReader'
  <2>1. SUFFICES ASSUME NEW q \in Releases \ exempt', NEW p \in Releases \ exempt', q # p
                 PROVE  Apart(running'[q], running'[p])
    BY DEF OneReader
  <2>2. CASE q = r
    BY <1>10, <1>11, <1>16, <2>1, <2>2 DEF Others
  <2>3. CASE p = r
    BY <1>10, <1>11, <1>16, <2>1, <2>3, ApartSymmetric DEF Others
  <2>4. CASE q # r /\ p # r
    BY <1>10, <1>11, <2>1, <2>4 DEF IInv, OneReader
  <2> QED BY <2>2, <2>3, <2>4
<1>18. InHand'
  <2>1. SUFFICES ASSUME NEW t \in Sessions, Checked(t)', ~session'[t].unchecked,
                        ~session'[t].overtaken, NEW q \in Others(session'[t].release)
                 PROVE  Apart(session'[t].agents, running'[q])
    BY DEF InHand, Others
  <2>2. session'[t].release = r
    BY <1>5, <1>8, <2>1 DEF Checked, Same
  <2>3. running'[q] = running[q]
    BY <1>11, <2>1, <2>2 DEF Others
  <2>4. CASE t = s
    BY <1>5, <1>8, <1>9, <1>16, <2>1, <2>2, <2>3, <2>4
  <2>5. CASE t # s
    BY <1>8, <2>1, <2>2, <2>3, <2>5 DEF IInv, InHand, Checked, Same
  <2> QED BY <2>4, <2>5
<1>19. Fallback'
  <2>1. SUFFICES ASSUME NEW t \in Sessions, session'[t].at = "wait", ~session'[t].was,
                        ~session'[t].overtaken, NEW q \in Others(session'[t].release) \ exempt'
                 PROVE  Apart(stable'[session'[t].release], running'[q])
    BY DEF Fallback, Others
  <2>2. t = s
    <3>1. SUFFICES ASSUME t # s PROVE FALSE
      OBVIOUS
    <3>2. session[t].at = "wait" /\ Same(t)
      BY <1>8, <2>1, <3>1 DEF Same
    <3>3. Checked(t) /\ session[t].release # r
      BY <1>12, <3>1, <3>2 DEF Checked, Operating
    <3> QED BY <1>8, <2>1, <3>1, <3>3
  <2>3. r \notin exempt /\ running[r] = stable[r]
    BY <1>3, <1>5, <1>8, <2>1, <2>2
  <2>4. q \in Releases \ exempt /\ q # r /\ running'[q] = running[q]
    BY <1>5, <1>8, <1>10, <1>11, <2>1, <2>2 DEF Others
  <2>5. Apart(running[r], running[q])
    BY <2>3, <2>4 DEF IInv, OneReader
  <2> QED BY <1>5, <1>6, <1>8, <2>2, <2>3, <2>4, <2>5
<1> QED BY <1>13, <1>14, <1>15, <1>17, <1>18, <1>19 DEF IInv

(* Whoever operates on a release is alone there and may let go of it.      *)
LEMMA AloneOnRelease ==
  ASSUME IInv, NEW s \in Sessions, Operating(s)
  PROVE  \A t \in Sessions \ {s} : Operating(t) => session[t].release # session[s].release
BY DEF IInv, Locked

LEMMA LetGoLocked ==
  ASSUME IInv, NEW s \in Sessions, NEW r \in Releases,
         \A t \in Sessions \ {s} : Operating(t) => session[t].release # r,
         session'[s].at = "idle", \A t \in Sessions \ {s} : Same(t),
         pending' = pending \ {r},
         \A q \in Releases \ {r} : running'[q] = running[q] /\ past'[q] = past[q]
  PROVE  Locked'
<1>1. \A t \in Sessions : Operating(t)' => t # s /\ Operating(t) /\ Same(t)
                                           /\ session[t].release \in Releases \ {r}
  BY DEF IInv, SessionsOK, Operating, Same
<1>2. \A t \in Sessions :
        Operating(t)' => session'[t].release \in pending'
                         /\ session'[t].agents \in past'[session'[t].release]
  BY <1>1 DEF IInv, Locked, Same
<1>3. \A t \in Sessions : session'[t].at = "wait" => running'[session'[t].release] # None
  BY <1>1 DEF IInv, Locked, Operating, Same
<1>4. \A t, u \in Sessions :
        t # u /\ Operating(t)' /\ Operating(u)' => session'[t].release # session'[u].release
  BY <1>1 DEF IInv, Locked, Same
<1> QED BY <1>2, <1>3, <1>4 DEF Locked

LEMMA EndOK ==
  ASSUME TypeOK, NEW s \in Sessions, End(s)
  PROVE  /\ session' \in [Sessions -> SessionState] /\ session'[s].at = "idle"
         /\ \A t \in Sessions \ {s} : session'[t] = session[t] /\ Same(t)
<1>1. session' = [session EXCEPT ![s] = Blank]
  BY DEF End, Set
<1>2. session' \in [Sessions -> SessionState] /\ session'[s] = Blank
      /\ \A t \in Sessions \ {s} : session'[t] = session[t]
  BY <1>1, BlankOK DEF TypeOK
<1> QED BY <1>2 DEF Blank, Same

LEMMA RevertKeeps == ASSUME IInv, NEW s \in Sessions, Revert(s) PROVE IInv'
<1>1. PICK me \in SessionState : me = session[s]
  BY DEF IInv, TypeOK
<1>2. PICK r \in Releases : r = me.release
  BY <1>1 DEF Revert, IInv, SessionsOK
<1>3. /\ me.at = "wait" /\ running' = [running EXCEPT ![r] = stable[r]]
      /\ past' = (IF stable[r] = None THEN Forget(r) ELSE past)
      /\ pending' = pending \ {r} /\ exempt' = Marked(r, me.was \/ me.overtaken)
      /\ Overtake(s, Blank) /\ UNCHANGED <<stable, commands>>
  BY <1>1, <1>2 DEF Revert
<1>4. /\ session' \in [Sessions -> SessionState] /\ session'[s] = Blank
      /\ \A t \in Sessions \ {s} :
           /\ Same(t)
           /\ session'[t].overtaken =
                (session[t].overtaken \/ (Checked(t) /\ session[t].release # r))
  BY <1>1, <1>2, <1>3, BlankOK, OvertakeOK DEF IInv
<1>5. session'[s].at = "idle"
  BY <1>4 DEF Blank
<1>6. PICK bad \in BOOLEAN : bad = (me.was \/ me.overtaken)
  OBVIOUS
<1>7. /\ r \in exempt' <=> bad
      /\ \A q : q # r => (q \in exempt' <=> q \in exempt)
      /\ exempt' \subseteq exempt \cup {r}
  BY <1>3, <1>6, MarkedOK
<1>8. running'[r] = stable[r] /\ \A q \in Releases \ {r} : running'[q] = running[q]
  BY <1>3 DEF IInv, TypeOK
<1>9. /\ past' \in [Releases -> SUBSET Agents]
      /\ past'[r] = (IF stable[r] = None THEN {} ELSE past[r])
      /\ \A q \in Releases \ {r} : past'[q] = past[q]
  BY <1>3 DEF IInv, TypeOK, Forget
<1>10. \A t \in Sessions \ {s} : Operating(t) => session[t].release # r
  BY <1>1, <1>2, <1>3, AloneOnRelease DEF Operating
<1>11. TypeOK'
  <2>1. \A q \in Releases : stable'[q] # None => stable'[q] \in past'[q]
    BY <1>3, <1>9 DEF IInv, TypeOK
  <2>2. \A q \in Releases : past'[q] # {} => running'[q] # None \/ q \in pending'
    BY <1>3, <1>8, <1>9 DEF IInv, TypeOK
  <2>3. running' \in [Releases -> Agents \cup {None}]
    BY <1>3 DEF IInv, TypeOK
  <2> QED BY <1>3, <1>4, <1>7, <1>9, <2>1, <2>2, <2>3 DEF IInv, TypeOK
<1>12. SessionsOK'
  BY <1>4, <1>5 DEF IInv, SessionsOK, Same
<1>13. Locked'
  BY <1>3, <1>4, <1>5, <1>8, <1>9, <1>10, LetGoLocked
<1>14. ~bad => \A q \in Others(r) \ exempt : Apart(stable[r], running[q])
  BY <1>1, <1>2, <1>3, <1>6 DEF IInv, Fallback
<1>15. OneReader'
  <2>1. SUFFICES ASSUME NEW q \in Releases \ exempt', NEW p \in Releases \ exempt', q # p
                 PROVE  Apart(running'[q], running'[p])
    BY DEF OneReader
  <2>2. CASE q = r
    BY <1>7, <1>8, <1>14, <2>1, <2>2 DEF Others
  <2>3. CASE p = r
    BY <1>7, <1>8, <1>14, <2>1, <2>3, ApartSymmetric DEF Others
  <2>4. CASE q # r /\ p # r
    BY <1>7, <1>8, <2>1, <2>4 DEF IInv, OneReader
  <2> QED BY <2>2, <2>3, <2>4
<1>16. ASSUME NEW t \in Sessions, Checked(t)', ~session'[t].overtaken
       PROVE  t # s /\ Checked(t) /\ Same(t) /\ ~session[t].overtaken /\ session[t].release = r
  BY <1>4, <1>5, <1>16 DEF Checked, Same
<1>17. InHand'
  <2>1. SUFFICES ASSUME NEW t \in Sessions, Checked(t)', ~session'[t].unchecked,
                        ~session'[t].overtaken, NEW q \in Others(session'[t].release)
                 PROVE  Apart(session'[t].agents, running'[q])
    BY DEF InHand, Others
  <2>2. t # s /\ Checked(t) /\ Same(t) /\ ~session[t].overtaken /\ session[t].release = r
    BY <1>16, <2>1
  <2>3. running'[q] = running[q] /\ q \in Others(r)
    BY <1>8, <2>1, <2>2 DEF Others, Same
  <2> QED BY <2>1, <2>2, <2>3 DEF IInv, InHand, Same
<1>18. Fallback'
  <2>1. SUFFICES ASSUME NEW t \in Sessions, session'[t].at = "wait", ~session'[t].overtaken
                 PROVE  FALSE
    BY DEF Fallback
  <2>2. t # s /\ session[t].at = "wait" /\ session[t].release = r
    BY <1>16, <2>1 DEF Checked, Same
  <2> QED BY <1>10, <2>2 DEF Operating
<1> QED BY <1>11, <1>12, <1>13, <1>15, <1>17, <1>18 DEF IInv

(* Steps that end a command and may change what a release returns to or    *)
(* remove its agents.                                                      *)
LEMMA RestKeeps ==
  ASSUME IInv, NEW s \in Sessions, NEW r \in Releases, End(s),
         \A t \in Sessions \ {s} : Operating(t) => session[t].release # r,
         \A q \in Releases : running'[q] = running[q] \/ running'[q] = None,
         \A q \in Releases \ {r} : stable'[q] = stable[q],
         exempt' \subseteq exempt,
         \A q \in exempt \ exempt' : running'[q] = None
  PROVE  SessionsOK' /\ OneReader' /\ InHand' /\ Fallback'
<1>1. /\ session'[s].at = "idle"
      /\ \A t \in Sessions \ {s} : session'[t] = session[t]
  BY EndOK DEF IInv
<1>2. SessionsOK'
  BY <1>1 DEF IInv, SessionsOK
<1>3. OneReader'
  BY DEF IInv, OneReader, Apart
<1>4. InHand'
  BY <1>1 DEF IInv, InHand, Checked, Others, Apart
<1>5. Fallback'
  <2>1. SUFFICES ASSUME NEW t \in Sessions, session'[t].at = "wait", ~session'[t].was,
                        ~session'[t].overtaken, NEW q \in Others(session'[t].release) \ exempt'
                 PROVE  Apart(stable'[session'[t].release], running'[q])
    BY DEF Fallback, Others
  <2>2. t # s /\ session'[t] = session[t]
    BY <1>1, <2>1
  <2>3. session[t].release \in Releases \ {r}
    BY <2>1, <2>2 DEF Operating, IInv, SessionsOK
  <2>4. CASE q \in exempt
    BY <2>1, <2>4 DEF Apart
  <2>5. CASE q \notin exempt
    BY <2>1, <2>2, <2>3, <2>5 DEF IInv, Fallback, Others, Apart
  <2> QED BY <2>4, <2>5
<1> QED BY <1>2, <1>3, <1>4, <1>5

LEMMA SucceedKeeps == ASSUME IInv, NEW s \in Sessions, Succeed(s) PROVE IInv'
<1>1. PICK r \in Releases : r = session[s].release
  BY DEF Succeed, IInv, SessionsOK
<1>2. /\ session[s].at = "wait" /\ stable' = [stable EXCEPT ![r] = session[s].agents]
      /\ pending' = pending \ {r} /\ End(s) /\ UNCHANGED <<running, past, commands, exempt>>
  BY <1>1 DEF Succeed
<1>3. session[s].agents \in past[r] /\ running[r] # None
  BY <1>1, <1>2 DEF IInv, Locked, Operating
<1>4. \A t \in Sessions \ {s} : Operating(t) => session[t].release # r
  BY <1>1, <1>2, AloneOnRelease DEF Operating
<1>5. TypeOK'
  <2>1. stable' \in [Releases -> Agents \cup {None}]
        /\ \A q \in Releases : stable'[q] # None => stable'[q] \in past'[q]
    BY <1>2, <1>3 DEF IInv, TypeOK
  <2> QED BY <1>2, <1>3, <2>1, EndOK DEF IInv, TypeOK
<1>6. Locked'
  BY <1>2, <1>4, EndOK, LetGoLocked DEF IInv
<1>7. \A q \in Releases \ {r} : stable'[q] = stable[q]
  BY <1>2 DEF IInv, TypeOK
<1> QED BY <1>2, <1>4, <1>5, <1>6, <1>7, RestKeeps DEF IInv

LEMMA FailsKeeps == ASSUME IInv, NEW s \in Sessions, Fails(s) PROVE IInv'
<1>1. PICK r \in Releases : r = session[s].release
  BY DEF Fails, IInv, SessionsOK
<1>2. /\ session[s].at = "wait" /\ pending' = pending \ {r} /\ End(s)
      /\ UNCHANGED <<running, stable, past, commands, exempt>>
  BY <1>1 DEF Fails
<1>3. running[r] # None
  BY <1>1, <1>2 DEF IInv, Locked
<1>4. \A t \in Sessions \ {s} : Operating(t) => session[t].release # r
  BY <1>1, <1>2, AloneOnRelease DEF Operating
<1>5. TypeOK'
  BY <1>2, <1>3, EndOK DEF IInv, TypeOK
<1>6. Locked'
  BY <1>2, <1>4, EndOK, LetGoLocked DEF IInv
<1> QED BY <1>2, <1>4, <1>5, <1>6, RestKeeps DEF IInv

LEMMA UninstallKeeps == ASSUME IInv, NEW s \in Sessions, Uninstall(s) PROVE IInv'
<1>1. PICK r \in Releases : r = session[s].release
  BY DEF Uninstall, IInv, SessionsOK
<1>2. /\ \A t \in Sessions : Operating(t) => session[t].release # r
      /\ running' = [running EXCEPT ![r] = None] /\ stable' = [stable EXCEPT ![r] = None]
      /\ past' = Forget(r) /\ pending' = pending \ {r} /\ exempt' = exempt \ {r}
      /\ End(s) /\ UNCHANGED commands
  BY <1>1 DEF Uninstall, Operating
<1>3. /\ running'[r] = None /\ stable'[r] = None /\ past'[r] = {}
      /\ \A q \in Releases \ {r} :
           running'[q] = running[q] /\ stable'[q] = stable[q] /\ past'[q] = past[q]
  BY <1>2 DEF IInv, TypeOK, Forget
<1>4. TypeOK'
  <2>1. /\ running' \in [Releases -> Agents \cup {None}]
        /\ stable' \in [Releases -> Agents \cup {None}]
        /\ past' \in [Releases -> SUBSET Agents]
    BY <1>2 DEF IInv, TypeOK, Forget
  <2>2. \A q \in Releases : stable'[q] # None => stable'[q] \in past'[q]
    BY <1>3 DEF IInv, TypeOK
  <2>3. \A q \in Releases : past'[q] # {} => running'[q] # None \/ q \in pending'
    BY <1>2, <1>3 DEF IInv, TypeOK
  <2> QED BY <1>2, <2>1, <2>2, <2>3, EndOK DEF IInv, TypeOK
<1>5. Locked'
  BY <1>2, <1>3, EndOK, LetGoLocked DEF IInv
<1> QED BY <1>2, <1>3, <1>4, <1>5, RestKeeps DEF IInv

-----------------------------------------------------------------------------
(* The invariant holds, and with it the properties.                        *)
LEMMA StutterKeeps == IInv /\ UNCHANGED vars => IInv'
BY DEF IInv, TypeOK, SessionsOK, Locked, OneReader, InHand, Fallback, vars, helm, Apart,
       Operating, Checked

LEMMA Inductive == IInv /\ [Next]_vars => IInv'
<1>1. SUFFICES ASSUME IInv, NEW s \in Sessions, Start(s) \/ Interrupted(s) \/ Work(s)
               PROVE  IInv'
  BY StutterKeeps DEF Next
<1>2. CASE Start(s)         BY <1>1, <1>2, StartKeeps
<1>3. CASE Interrupted(s)   BY <1>1, <1>3, EndKeeps DEF Interrupted
<1>4. CASE CheckClaims(s)   BY <1>1, <1>4, CheckClaimsKeeps
<1>5. CASE StartHelm(s)     BY <1>1, <1>5, StartHelmKeeps
<1>6. CASE Apply(s)         BY <1>1, <1>6, ApplyKeeps
<1>7. CASE Succeed(s)       BY <1>1, <1>7, SucceedKeeps
<1>8. CASE Revert(s)        BY <1>1, <1>8, RevertKeeps
<1>9. CASE Fails(s)         BY <1>1, <1>9, FailsKeeps
<1>10. CASE Uninstall(s)    BY <1>1, <1>10, UninstallKeeps
<1> QED BY <1>1, <1>2, <1>3, <1>4, <1>5, <1>6, <1>7, <1>8, <1>9, <1>10 DEF Work

(* The inductive invariant holds in every reachable state: between its     *)
(* check and the end of Helm's operation a terminal may rely on what       *)
(* InHand and Fallback say, because Helm keeps others off the release.     *)
THEOREM Invariant == Spec => []IInv
BY InitOK, Inductive, PTL DEF Spec

(* The state is well formed, a failed upgrade always has its earlier       *)
(* revision recorded, and recorded revisions belong to a release with      *)
(* agents or with a Helm operation pending.                                *)
THEOREM TypeCorrect == Spec => []TypeOK
<1>1. IInv => TypeOK
  BY DEF IInv
<1> QED BY <1>1, Invariant, PTL

(* Releases whose agents a check vouches for never read the same source on *)
(* the nodes, for any number of terminals, releases, namespaces and        *)
(* agents of older charts.                                                 *)
THEOREM OneReaderOnTheNodes == Spec => []NodeSourcesHaveOneReader
<1>1. IInv => NodeSourcesHaveOneReader
  BY DEF IInv, OneReader, NodeSourcesHaveOneReader, Vouched, Apart
<1> QED BY <1>1, Invariant, PTL

(* The command that deployed agents can be run again: as long as every     *)
(* release is vouched for, those of the current chart pass the check next  *)
(* to all others, whichever of them came first.                            *)
THEOREM SameCommandPasses == Spec => []ReconcilePasses
<1>1. IInv => ReconcilePasses
  <2>1. SUFFICES ASSUME IInv, Vouched = {r \in Releases : running[r] # None},
                        NEW r \in Vouched, running[r].annotated,
                        NEW q \in Others(r), running[q] # None
                 PROVE  Clear(running[r], running[q])
    BY DEF ReconcilePasses, NoOverlap, Clear
  <2>2. q \in Vouched /\ q # r
    BY <2>1 DEF Others
  <2> QED BY <2>1, <2>2 DEF IInv, OneReader, Vouched, Apart
<1> QED BY <1>1, Invariant, PTL

=============================================================================
