----------------------------- MODULE WebhookProofs -----------------------------
(***************************************************************************)
(* Proofs about WebhookAdmission, for any webhooks, replicas, Pods,        *)
(* configurations and capacity, and any number of rollouts and crashes.    *)
(***************************************************************************)
EXTENDS WebhookAdmission, FiniteSetTheorems, TLAPS

Open == {"connected"} \cup Handling

(* What an answer to call c rests on; app stands for applied.              *)
Mounts(c, k, app) == \E o \in app[c[2]] : NamespaceOf[c[1]] \in o.namespaces /\ k = o.secret
Unserved(c, app) ==
  \E o \in app[c[2]] : NamespaceOf[c[1]] \in o.namespaces /\ RuntimeOf[c[1]] \notin o.runtimes
Cause(c, marked, app) == c[1] \in Unsuitable \/ marked \/ Unserved(c, app)

Attached(c, st, rep) ==
  /\ st.at \in Open => st.replica \in Replicas /\ rep[st.replica] # None /\ ServedBy[st.replica] = c[2]
  /\ st.at \notin Open => st.replica = None
Grounded(c, st, app) ==
  /\ st.answer \in Names => ~st.marked /\ c[1] \notin Unsuitable /\ Mounts(c, st.answer, app)
  /\ st.answer = "refuse" => Cause(c, st.marked, app)

(* A hook still to be called has not been; the call waited for carries the *)
(* Pod as it is.                                                           *)
Serial(p, st, calls) ==
  /\ \A h \in st.left : calls[<<p, h>>].at = "none"
  /\ st.at = "new" => \A h \in Hooks : calls[<<p, h>>].at = "none"
  /\ st.at = "waiting" =>
       st.hook \in Hooks /\ (calls[<<p, st.hook>>].marked <=> st.injected # {})
Admissible(p, st, app) ==
  /\ \A i, j \in st.injected : i = j
  /\ p \in Unsuitable => st.injected = {}
  /\ \A i \in st.injected : Mounts(<<p, i[1]>>, i[2], app)
  /\ st.at = "refused" =>
       p \in Unsuitable \/ st.injected # {} \/ \E h \in Hooks : Unserved(<<p, h>>, app)

ConfigsOK ==
  /\ \A h \in Hooks : config[h] # None => config[h] \in applied[h]
  /\ \A r \in Replicas : replica[r] # None => replica[r] \in applied[ServedBy[r]]
CallsOK == \A c \in Calls : Attached(c, call[c], replica) /\ Grounded(c, call[c], applied)
PodsOK == \A p \in Pods : Serial(p, pod[p], call) /\ Admissible(p, pod[p], applied)

(* The inductive invariant.                                                *)
IInv == TypeOK /\ ConfigsOK /\ CallsOK /\ PodsOK /\ SlotsAreHeld
-----------------------------------------------------------------------------
LEMMA Initially == Init => IInv
<1>. SUFFICES ASSUME Init PROVE IInv
  OBVIOUS
<1>. USE ConstantsAssumption
<1>1. TypeOK
  BY DEF Init, TypeOK, NoCall, Unseen, Call, Admission, Answers
<1>2. ConfigsOK
  BY DEF Init, ConfigsOK
<1>3. CallsOK
  BY DEF Init, CallsOK, Attached, Grounded, NoCall, Open, Handling
<1>4. PodsOK
  BY DEF Init, PodsOK, Serial, Admissible, NoCall, Unseen, Calls
<1>5. SlotsAreHeld
  <2>1. \A r \in Replicas : Handlers(r) = {}
    BY DEF Init, Handlers, NoCall, Handling
  <2>. QED
    BY <2>1, FS_EmptySet DEF Init, SlotsAreHeld
<1>. QED
  BY <1>1, <1>2, <1>3, <1>4, <1>5 DEF IInv

(* A step of a handler, as seen from outside.                              *)
Moves(c, st) ==
  /\ c \in Calls /\ SetCall(c, st) /\ st \in Call /\ st.marked = call[c].marked
  /\ call[c].at # "none" /\ st.at # "none"

LEMMA MoveKeepsPods ==
  ASSUME IInv, NEW c \in Calls, NEW st, Moves(c, st), pod' = pod, applied' = applied
  PROVE  PodsOK'
<1>. SUFFICES ASSUME NEW p \in Pods
     PROVE  Serial(p, pod[p], call') /\ Admissible(p, pod[p], applied)
  BY DEF PodsOK
<1>1. Serial(p, pod[p], call) /\ Admissible(p, pod[p], applied) /\ pod[p] \in Admission
  BY DEF IInv, PodsOK, TypeOK
<1>2. \A h \in Hooks : /\ call'[<<p, h>>].marked = call[<<p, h>>].marked
                       /\ call[<<p, h>>].at = "none" => call'[<<p, h>>].at = "none"
  BY DEF Moves, SetCall, IInv, TypeOK, Calls
<1>3. pod[p].left \subseteq Hooks
  BY <1>1 DEF Admission
<1>. QED
  BY <1>1, <1>2, <1>3 DEF Serial

LEMMA MoveKeepsCalls ==
  ASSUME IInv, NEW c \in Calls, NEW st, Moves(c, st), UNCHANGED <<releases, replica>>,
         Attached(c, st, replica), Grounded(c, st, applied)
  PROVE  CallsOK' /\ ConfigsOK' /\ call' \in [Calls -> Call]
<1>1. call' \in [Calls -> Call]
  BY DEF Moves, SetCall, IInv, TypeOK
<1>2. \A d \in Calls : call'[d] = IF d = c THEN st ELSE call[d]
  BY DEF Moves, SetCall, IInv, TypeOK
<1>3. CallsOK'
  BY <1>2 DEF CallsOK, IInv, releases
<1>. QED
  BY <1>1, <1>3 DEF ConfigsOK, IInv, releases

(* A handler that neither takes a slot nor gives one back.                 *)
LEMMA SameHandlers ==
  ASSUME IInv, NEW c \in Calls, NEW st, SetCall(c, st), used' = used,
         st.at \in Handling <=> call[c].at \in Handling,
         st.at \in Handling => st.replica = call[c].replica
  PROVE  SlotsAreHeld'
<1>1. \A d \in Calls : call'[d] = IF d = c THEN st ELSE call[d]
  BY DEF SetCall, IInv, TypeOK
<1>2. \A r \in Replicas : Handlers(r)' = Handlers(r)
  BY <1>1 DEF Handlers
<1>. QED
  BY <1>2 DEF SlotsAreHeld, IInv

LEMMA EnterKeeps ==
  ASSUME IInv, NEW c \in Calls, Enter(c)
  PROVE  IInv'
<1>. DEFINE me == call[c]
<1>1. /\ me \in Call /\ me.at = "connected" /\ Attached(c, me, replica)
      /\ Grounded(c, me, applied) /\ used \in [Replicas -> 0 .. Capacity]
  BY DEF Enter, IInv, TypeOK, CallsOK
<1>2. PICK r \in Replicas : r = me.replica /\ replica[r] # None /\ ServedBy[r] = c[2]
  BY <1>1 DEF Attached, Open
<1>3. UNCHANGED <<releases, replica, pod, changes>>
  BY DEF Enter
<1>4. CASE /\ used[r] < Capacity
           /\ used' = [used EXCEPT ![r] = @ + 1]
           /\ SetCall(c, [me EXCEPT !.at = "handle"])
  <2>. DEFINE st == [me EXCEPT !.at = "handle"]
  <2>1. /\ st \in Call /\ st.at = "handle" /\ st.replica = r /\ st.marked = me.marked
        /\ st.answer = me.answer
    BY <1>1, <1>2 DEF Call, Handling
  <2>2. SetCall(c, st)
    BY <1>4
  <2>. HIDE DEF st
  <2>3. Moves(c, st)
    BY <1>1, <2>1, <2>2 DEF Moves
  <2>4. Attached(c, st, replica) /\ Grounded(c, st, applied)
    <3>1. Attached(c, st, replica)
      BY <1>2, <2>1 DEF Attached, Open, Handling
    <3>2. Grounded(c, st, applied)
      BY <1>1, <2>1 DEF Grounded
    <3>. QED
      BY <3>1, <3>2
  <2>5. \A d \in Calls : call'[d] = IF d = c THEN st ELSE call[d]
    BY <2>2 DEF SetCall, IInv, TypeOK
  <2>6. c \notin Handlers(r) /\ Handlers(r)' = Handlers(r) \cup {c}
    BY <1>1, <1>2, <2>1, <2>5 DEF Handlers, Handling
  <2>7. \A q \in Replicas \ {r} : Handlers(q)' = Handlers(q)
    BY <1>1, <1>2, <2>1, <2>5 DEF Handlers
  <2>8. Handlers(r) \subseteq Calls /\ IsFiniteSet(Handlers(r))
    BY ConstantsAssumption, FS_Subset DEF Handlers, Calls
  <2>9. Cardinality(Handlers(r)') = Cardinality(Handlers(r)) + 1
    BY <2>6, <2>8, FS_AddElement
  <2>10. SlotsAreHeld'
    <3>1. \A q \in Replicas : used[q] = Cardinality(Handlers(q))
      BY DEF SlotsAreHeld, IInv
    <3>2. used'[r] = Cardinality(Handlers(r)')
      BY <1>1, <1>2, <1>4, <2>9, <3>1
    <3>3. \A q \in Replicas \ {r} : used'[q] = Cardinality(Handlers(q)')
      BY <1>1, <1>2, <1>4, <2>7, <3>1
    <3>. QED
      BY <3>2, <3>3 DEF SlotsAreHeld
  <2>11. used' \in [Replicas -> 0 .. Capacity]
    BY <1>1, <1>2, <1>4, ConstantsAssumption
  <2>12. CallsOK' /\ ConfigsOK' /\ PodsOK' /\ call' \in [Calls -> Call]
    BY <1>3, <2>3, <2>4, MoveKeepsCalls, MoveKeepsPods DEF releases
  <2>. QED
    BY <1>3, <2>10, <2>11, <2>12 DEF IInv, TypeOK, releases
<1>5. CASE SetCall(c, Ended(me, "unavailable")) /\ UNCHANGED used
  <2>. DEFINE st == Ended(me, "unavailable")
  <2>1. /\ st \in Call /\ st.at = "done" /\ st.replica = None /\ st.marked = me.marked
        /\ st.answer = "unavailable"
    BY <1>1 DEF Call, Ended, Answers
  <2>2. SetCall(c, st)
    BY <1>5
  <2>. HIDE DEF st
  <2>3. Moves(c, st)
    BY <1>1, <2>1, <2>2 DEF Moves
  <2>4. Attached(c, st, replica) /\ Grounded(c, st, applied)
    BY <2>1, ConstantsAssumption DEF Attached, Grounded, Open, Handling
  <2>5. SlotsAreHeld'
    BY <1>1, <1>5, <2>1, <2>2, SameHandlers DEF Handling
  <2>6. CallsOK' /\ ConfigsOK' /\ PodsOK' /\ call' \in [Calls -> Call]
    BY <1>3, <2>3, <2>4, MoveKeepsCalls, MoveKeepsPods DEF releases
  <2>. QED
    BY <1>3, <1>5, <2>5, <2>6 DEF IInv, TypeOK, releases
<1>. QED
  BY <1>2, <1>4, <1>5 DEF Enter

LEMMA HandleKeeps ==
  ASSUME IInv, NEW c \in Calls, Handle(c)
  PROVE  IInv'
<1>. DEFINE me == call[c]
            own == replica[me.replica]
            decided == Decision(c[1], me.marked, own)
<1>1. /\ me \in Call /\ me.at = "handle" /\ Attached(c, me, replica)
      /\ UNCHANGED <<releases, replica, used, pod, changes>>
  BY DEF Handle, IInv, TypeOK, CallsOK
<1>2. me.replica \in Replicas /\ own # None /\ ServedBy[me.replica] = c[2]
  BY <1>1 DEF Attached, Open, Handling
<1>3. own \in applied[c[2]] /\ own \in Config
  BY <1>2 DEF IInv, ConfigsOK, TypeOK
<1>4. PICK answer \in {decided, "unavailable"} :
        SetCall(c, [me EXCEPT !.at = "return", !.answer = answer])
  BY DEF Handle
<1>5. answer \in Answers
  BY <1>3, <1>4 DEF Decision, Answers, Config
<1>. DEFINE st == [me EXCEPT !.at = "return", !.answer = answer]
<1>6. /\ st \in Call /\ st.at = "return" /\ st.replica = me.replica
      /\ st.marked = me.marked /\ st.answer = answer
  BY <1>1, <1>5 DEF Call, Handling
<1>7. answer \in Names => ~me.marked /\ c[1] \notin Unsuitable /\ Mounts(c, answer, applied)
  BY <1>3, <1>4, ConstantsAssumption DEF Decision, Mounts
<1>8. answer = "refuse" => Cause(c, me.marked, applied)
  BY <1>3, <1>4, ConstantsAssumption DEF Decision, Cause, Unserved, Config
<1>9. SetCall(c, st)
  BY <1>4
<1>. HIDE DEF st, decided
<1>10. Moves(c, st)
  BY <1>1, <1>6, <1>9 DEF Moves
<1>11. Attached(c, st, replica) /\ Grounded(c, st, applied)
  BY <1>2, <1>6, <1>7, <1>8 DEF Attached, Grounded, Open, Handling
<1>12. SlotsAreHeld'
  BY <1>1, <1>6, <1>9, SameHandlers DEF Handling
<1>13. CallsOK' /\ ConfigsOK' /\ PodsOK' /\ call' \in [Calls -> Call]
  BY <1>1, <1>10, <1>11, MoveKeepsCalls, MoveKeepsPods DEF releases
<1>. QED
  BY <1>1, <1>12, <1>13 DEF IInv, TypeOK, releases

LEMMA ReturnKeeps ==
  ASSUME IInv, NEW c \in Calls, Return(c)
  PROVE  IInv'
<1>. DEFINE me == call[c]
            st == Ended(me, me.answer)
<1>1. /\ me \in Call /\ me.at = "return" /\ Attached(c, me, replica)
      /\ Grounded(c, me, applied) /\ used \in [Replicas -> 0 .. Capacity]
      /\ UNCHANGED <<releases, replica, pod, changes>>
      /\ SetCall(c, st) /\ used' = [used EXCEPT ![me.replica] = @ - 1]
  BY DEF Return, IInv, TypeOK, CallsOK
<1>2. PICK r \in Replicas : r = me.replica
  BY <1>1 DEF Attached, Open, Handling
<1>3. /\ st \in Call /\ st.at = "done" /\ st.replica = None /\ st.marked = me.marked
      /\ st.answer = me.answer
  BY <1>1 DEF Call, Ended
<1>. HIDE DEF st
<1>4. Moves(c, st)
  BY <1>1, <1>3 DEF Moves
<1>5. Attached(c, st, replica) /\ Grounded(c, st, applied)
  BY <1>1, <1>3 DEF Attached, Grounded, Open, Handling
<1>6. \A d \in Calls : call'[d] = IF d = c THEN st ELSE call[d]
  BY <1>1 DEF SetCall, IInv, TypeOK
<1>7. c \in Handlers(r) /\ Handlers(r)' = Handlers(r) \ {c}
  BY <1>1, <1>2, <1>3, <1>6 DEF Handlers, Handling
<1>8. \A q \in Replicas \ {r} : Handlers(q)' = Handlers(q)
  BY <1>1, <1>2, <1>3, <1>6 DEF Handlers, Handling
<1>9. Handlers(r) \subseteq Calls /\ IsFiniteSet(Handlers(r))
  BY ConstantsAssumption, FS_Subset DEF Handlers, Calls
<1>10. Cardinality(Handlers(r)') = Cardinality(Handlers(r)) - 1
  BY <1>7, <1>9, FS_RemoveElement
<1>11. IsFiniteSet(Handlers(r)') /\ Cardinality(Handlers(r)') \in Nat
  BY <1>7, <1>9, FS_RemoveElement, FS_CardinalityType
<1>12. SlotsAreHeld'
  <2>1. \A q \in Replicas : used[q] = Cardinality(Handlers(q))
    BY DEF SlotsAreHeld, IInv
  <2>2. used'[r] = Cardinality(Handlers(r)')
    BY <1>1, <1>2, <1>10, <2>1
  <2>3. \A q \in Replicas \ {r} : used'[q] = Cardinality(Handlers(q)')
    BY <1>1, <1>2, <1>8, <2>1
  <2>. QED
    BY <2>2, <2>3 DEF SlotsAreHeld
<1>13. used' \in [Replicas -> 0 .. Capacity]
  <2>1. used[r] = Cardinality(Handlers(r))
    BY <1>2 DEF IInv, SlotsAreHeld
  <2>2. used[r] \in 0 .. Capacity /\ used[r] - 1 \in Nat
    BY <1>1, <1>2, <1>10, <1>11, <2>1
  <2>3. used[r] - 1 \in 0 .. Capacity
    BY <2>2, ConstantsAssumption
  <2>. QED
    BY <1>1, <1>2, <2>3
<1>14. CallsOK' /\ ConfigsOK' /\ PodsOK' /\ call' \in [Calls -> Call]
  BY <1>1, <1>4, <1>5, MoveKeepsCalls, MoveKeepsPods DEF releases
<1>. QED
  BY <1>1, <1>12, <1>13, <1>14 DEF IInv, TypeOK, releases

-----------------------------------------------------------------------------
(* A call that ends with its process: it keeps what it carried.            *)
LEMMA ExitKeeps ==
  ASSUME IInv, NEW r \in Replicas, Exit(r)
  PROVE  IInv'
<1>1. /\ replica' = [replica EXCEPT ![r] = None] /\ used' = [used EXCEPT ![r] = 0]
      /\ UNCHANGED <<releases, pod>> /\ changes' \in 0 .. MaxChanges
      /\ TypeOK
  BY ConstantsAssumption DEF Exit, Disturb, IInv, TypeOK
<1>2. \A c \in Calls :
        call'[c] = IF call[c].replica = r THEN Ended(call[c], call[c].answer) ELSE call[c]
  BY DEF Exit
<1>3. \A c \in Calls :
        /\ call[c] \in Call /\ call'[c] \in Call
        /\ call'[c].marked = call[c].marked /\ call'[c].answer = call[c].answer
  BY <1>1, <1>2 DEF TypeOK, Call, Ended
<1>4. \A c \in Calls :
        IF call[c].replica = r THEN call'[c].at = "done" /\ call'[c].replica = None
        ELSE call'[c] = call[c]
  BY <1>2, <1>3 DEF Call, Ended
<1>5. TypeOK'
  <2>1. call' \in [Calls -> Call]
    BY <1>3 DEF Exit
  <2>2. 0 \in 0 .. Capacity
    BY ConstantsAssumption
  <2>. QED
    BY <1>1, <2>1, <2>2 DEF TypeOK, releases
<1>6. ConfigsOK'
  BY <1>1 DEF IInv, ConfigsOK, TypeOK, releases
<1>7. CallsOK'
  <2>. SUFFICES ASSUME NEW c \in Calls
       PROVE  Attached(c, call'[c], replica') /\ Grounded(c, call'[c], applied)
    BY <1>1 DEF CallsOK, releases
  <2>1. Attached(c, call[c], replica) /\ Grounded(c, call[c], applied)
    BY DEF IInv, CallsOK
  <2>2. Grounded(c, call'[c], applied)
    BY <1>3, <2>1 DEF Grounded
  <2>3. CASE call[c].replica = r
    BY <1>4, <2>2, <2>3 DEF Attached, Open, Handling
  <2>4. CASE call[c].replica # r
    BY <1>1, <1>4, <2>1, <2>2, <2>4 DEF Attached, TypeOK
  <2>. QED
    BY <2>3, <2>4
<1>8. PodsOK'
  <2>. SUFFICES ASSUME NEW p \in Pods
       PROVE  Serial(p, pod[p], call') /\ Admissible(p, pod[p], applied)
    BY <1>1 DEF PodsOK, releases
  <2>1. Serial(p, pod[p], call) /\ Admissible(p, pod[p], applied) /\ pod[p].left \subseteq Hooks
    BY DEF IInv, PodsOK, TypeOK, Admission
  <2>2. \A c \in Calls : call[c].at = "none" => call'[c].at = "none"
    BY <1>4, ConstantsAssumption DEF IInv, CallsOK, Attached, Open, Handling
  <2>3. \A h \in Hooks : <<p, h>> \in Calls
    BY DEF Calls
  <2>. QED
    BY <1>3, <2>1, <2>2, <2>3 DEF Serial
<1>9. SlotsAreHeld'
  <2>. SUFFICES ASSUME NEW q \in Replicas PROVE used'[q] = Cardinality(Handlers(q)')
    BY DEF SlotsAreHeld
  <2>1. CASE q = r
    <3>1. Handlers(q)' = {}
      BY <1>3, <1>4, <2>1, ConstantsAssumption DEF Handlers, Handling
    <3>. QED
      BY <1>1, <2>1, <3>1, FS_EmptySet DEF TypeOK
  <2>2. CASE q # r
    <3>1. Handlers(q)' = Handlers(q)
      BY <1>4, <2>2, ConstantsAssumption DEF Handlers, Handling
    <3>. QED
      BY <1>1, <2>2, <3>1 DEF TypeOK, IInv, SlotsAreHeld
  <2>. QED
    BY <2>1, <2>2
<1>. QED
  BY <1>5, <1>6, <1>7, <1>8, <1>9 DEF IInv

(* The processes, the releases and the calls left alone.                   *)
LEMMA ReleasesKeep ==
  ASSUME IInv, UNCHANGED <<used, call, pod>>, TypeOK', ConfigsOK',
         \A h \in Hooks : applied[h] \subseteq applied'[h],
         \A r \in Replicas : replica[r] # None => replica'[r] # None
  PROVE  IInv'
<1>1. \A c \in Calls : c[2] \in Hooks
  BY DEF Calls
<1>2. CallsOK'
  <2>. SUFFICES ASSUME NEW c \in Calls
       PROVE  Attached(c, call[c], replica') /\ Grounded(c, call[c], applied')
    BY DEF CallsOK
  <2>1. Attached(c, call[c], replica) /\ Grounded(c, call[c], applied)
    BY DEF IInv, CallsOK
  <2>2. Attached(c, call[c], replica')
    BY <2>1 DEF Attached
  <2>3. Grounded(c, call[c], applied')
    BY <1>1, <2>1 DEF Grounded, Mounts, Cause, Unserved
  <2>. QED
    BY <2>2, <2>3
<1>3. PodsOK'
  <2>. SUFFICES ASSUME NEW p \in Pods
       PROVE  Serial(p, pod[p], call) /\ Admissible(p, pod[p], applied')
    BY DEF PodsOK
  <2>1. /\ Serial(p, pod[p], call) /\ Admissible(p, pod[p], applied)
        /\ pod[p].injected \subseteq Hooks \X Names
    BY DEF IInv, PodsOK, TypeOK, Admission
  <2>2. \A i \in pod[p].injected : Mounts(<<p, i[1]>>, i[2], applied')
    BY <2>1 DEF Admissible, Mounts
  <2>3. \A h \in Hooks : Unserved(<<p, h>>, applied) => Unserved(<<p, h>>, applied')
    BY DEF Unserved
  <2>. QED
    BY <2>1, <2>2, <2>3 DEF Admissible
<1>4. SlotsAreHeld'
  BY DEF IInv, SlotsAreHeld, Handlers
<1>. QED
  BY <1>2, <1>3, <1>4 DEF IInv

LEMMA RolloutKeeps ==
  ASSUME IInv, NEW h \in Hooks, Upgrade(h) \/ Select(h) \/ Uninstall(h)
  PROVE  IInv'
<1>1. /\ UNCHANGED <<replica, used, call, pod>> /\ TypeOK /\ ConfigsOK
  BY DEF Upgrade, Select, Uninstall, IInv
<1>2. /\ TypeOK' /\ ConfigsOK'
      /\ \A k \in Hooks : applied[k] \subseteq applied'[k]
  <2>1. CASE Upgrade(h)
    <3>1. PICK new \in Config : /\ config' = [config EXCEPT ![h] = new]
                                /\ applied' = [applied EXCEPT ![h] = @ \cup {new}]
      BY <2>1, ConstantsAssumption DEF Upgrade
    <3>2. changes' \in 0 .. MaxChanges /\ scope' = scope
      BY <1>1, <2>1, ConstantsAssumption DEF Upgrade, Disturb, TypeOK
    <3>3. TypeOK'
      BY <1>1, <3>1, <3>2 DEF TypeOK
    <3>4. \A k \in Hooks : /\ applied[k] \subseteq applied'[k]
                           /\ config'[k] = IF k = h THEN new ELSE config[k]
                           /\ k = h => new \in applied'[k]
      BY <1>1, <3>1 DEF TypeOK
    <3>5. ConfigsOK'
      BY <1>1, <3>4, ConstantsAssumption DEF ConfigsOK
    <3>. QED
      BY <3>3, <3>4, <3>5
  <2>2. CASE Select(h)
    <3>1. config[h] \in Config
      BY <1>1, <2>2 DEF Select, TypeOK
    <3>2. config[h].namespaces \in SUBSET Namespaces
      BY <3>1 DEF Config
    <3>. QED
      BY <1>1, <2>2, <3>2 DEF Select, TypeOK, ConfigsOK
  <2>3. CASE Uninstall(h)
    BY <1>1, <2>3, ConstantsAssumption DEF Uninstall, Disturb, TypeOK, ConfigsOK
  <2>. QED
    BY <2>1, <2>2, <2>3
<1>. QED
  BY <1>1, <1>2, ReleasesKeep

LEMMA StartKeeps ==
  ASSUME IInv, NEW r \in Replicas, Start(r)
  PROVE  IInv'
<1>1. /\ UNCHANGED <<releases, used, call, pod, changes>> /\ TypeOK /\ ConfigsOK
      /\ config[ServedBy[r]] # None /\ ServedBy[r] \in Hooks
      /\ replica' = [replica EXCEPT ![r] = config[ServedBy[r]]]
  BY ConstantsAssumption DEF Start, IInv
<1>2. TypeOK' /\ ConfigsOK' /\ \A q \in Replicas : replica[q] # None => replica'[q] # None
  BY <1>1 DEF TypeOK, ConfigsOK, releases
<1>. QED
  BY <1>1, <1>2, ReleasesKeep DEF releases

-----------------------------------------------------------------------------
LEMMA PodMoves ==
  ASSUME IInv, NEW p \in Pods, NEW st \in Admission, SetPod(p, st),
         UNCHANGED <<releases, replica, used, call, changes>>,
         Serial(p, st, call), Admissible(p, st, applied)
  PROVE  IInv'
<1>1. \A q \in Pods : pod'[q] = IF q = p THEN st ELSE pod[q]
  BY DEF SetPod, IInv, TypeOK
<1>2. TypeOK'
  BY DEF SetPod, IInv, TypeOK, releases
<1>3. PodsOK'
  BY <1>1 DEF IInv, PodsOK, releases
<1>4. ConfigsOK' /\ CallsOK' /\ SlotsAreHeld'
  BY DEF IInv, ConfigsOK, CallsOK, SlotsAreHeld, Handlers, releases
<1>. QED
  BY <1>2, <1>3, <1>4 DEF IInv

LEMMA PodFacts ==
  ASSUME IInv, NEW p \in Pods
  PROVE  pod[p] \in Admission /\ Serial(p, pod[p], call) /\ Admissible(p, pod[p], applied)
BY DEF IInv, TypeOK, PodsOK

(* Steps of an admission that change neither the calls nor what is         *)
(* injected.                                                               *)
LEMMA AdmissionKeeps ==
  ASSUME IInv, NEW p \in Pods, Create(p) \/ GiveUp(p) \/ Admit(p)
  PROVE  IInv'
<1>. DEFINE me == pod[p]
<1>1. /\ me \in Admission /\ Serial(p, me, call) /\ Admissible(p, me, applied)
      /\ UNCHANGED <<releases, replica, used, call, changes>>
  BY PodFacts DEF Create, GiveUp, Admit
<1>2. ASSUME NEW st \in Admission, SetPod(p, st), st.at \in {"chain", "admitted"},
             st.injected = me.injected, \A h \in st.left : call[<<p, h>>].at = "none"
      PROVE  IInv'
  <2>1. Serial(p, st, call) /\ Admissible(p, st, applied)
    BY <1>1, <1>2 DEF Serial, Admissible
  <2>. QED
    BY <1>1, <1>2, <2>1, PodMoves
<1>3. CASE Create(p)
  <2>. DEFINE left == {h \in Hooks : NamespaceOf[p] \in scope[h]}
              st == [me EXCEPT !.at = "chain", !.left = left]
  <2>1. left \subseteq Hooks
    OBVIOUS
  <2>2. SetPod(p, st) /\ me.at = "new"
    BY <1>3 DEF Create
  <2>3. \A h \in left : call[<<p, h>>].at = "none"
    BY <1>1, <2>1, <2>2 DEF Serial
  <2>. HIDE DEF left
  <2>4. st \in Admission /\ st.at = "chain" /\ st.injected = me.injected /\ st.left = left
    BY <1>1, <2>1 DEF Admission
  <2>. HIDE DEF st
  <2>. QED
    BY <1>2, <2>2, <2>3, <2>4
<1>4. CASE GiveUp(p)
  <2>. DEFINE st == [me EXCEPT !.at = "chain", !.hook = None]
  <2>1. SetPod(p, st)
    BY <1>4 DEF GiveUp
  <2>2. st \in Admission /\ st.at = "chain" /\ st.injected = me.injected /\ st.left = me.left
    BY <1>1 DEF Admission
  <2>. HIDE DEF st
  <2>. QED
    BY <1>1, <1>2, <2>1, <2>2 DEF Serial
<1>5. CASE Admit(p)
  <2>. DEFINE st == [me EXCEPT !.at = "admitted"]
  <2>1. SetPod(p, st)
    BY <1>5 DEF Admit
  <2>2. st \in Admission /\ st.at = "admitted" /\ st.injected = me.injected /\ st.left = me.left
    BY <1>1 DEF Admission
  <2>. HIDE DEF st
  <2>. QED
    BY <1>1, <1>2, <2>1, <2>2 DEF Serial
<1>. QED
  BY <1>3, <1>4, <1>5

(* A patch is applied only to a Pod nobody has injected: the call that     *)
(* brought it was waited for, and carried the Pod unmarked.                *)
LEMMA ReceiveKeeps ==
  ASSUME IInv, NEW p \in Pods, Receive(p)
  PROVE  IInv'
<1>. DEFINE me == pod[p]
<1>1. /\ me \in Admission /\ Serial(p, me, call) /\ Admissible(p, me, applied)
      /\ UNCHANGED <<releases, replica, used, call, changes>> /\ me.at = "waiting"
  BY PodFacts DEF Receive
<1>2. PICK h \in Hooks : h = me.hook
  BY <1>1 DEF Serial
<1>. DEFINE c == <<p, h>>
            answer == call[c].answer
            on == [me EXCEPT !.at = "chain", !.hook = None]
<1>3. /\ c \in Calls /\ Grounded(c, call[c], applied) /\ answer \in Answers
      /\ c[1] = p /\ c[2] = h
      /\ call[c].marked <=> me.injected # {}
  BY <1>1, <1>2 DEF Calls, IInv, CallsOK, TypeOK, Call, Receive, Serial
<1>4. /\ on \in Admission /\ on.at = "chain" /\ on.left = me.left /\ on.injected = me.injected
  BY <1>1 DEF Admission
<1>5. CASE answer \in {"pass", "unavailable"}
  <2>1. SetPod(p, on)
    BY <1>2, <1>5 DEF Receive
  <2>. HIDE DEF on
  <2>2. Serial(p, on, call) /\ Admissible(p, on, applied)
    BY <1>1, <1>4 DEF Serial, Admissible
  <2>. QED
    BY <1>1, <1>4, <2>1, <2>2, PodMoves
<1>6. CASE answer = "refuse"
  <2>. DEFINE st == [on EXCEPT !.at = "refused"]
  <2>1. SetPod(p, st)
    BY <1>2, <1>6 DEF Receive
  <2>2. /\ st \in Admission /\ st.at = "refused" /\ st.left = me.left
        /\ st.injected = me.injected
    BY <1>1 DEF Admission
  <2>. HIDE DEF st, on
  <2>3. p \in Unsuitable \/ me.injected # {} \/ Unserved(<<p, h>>, applied)
    BY <1>3, <1>6 DEF Grounded, Cause
  <2>4. Serial(p, st, call) /\ Admissible(p, st, applied)
    BY <1>1, <2>2, <2>3 DEF Serial, Admissible
  <2>. QED
    BY <1>1, <2>1, <2>2, <2>4, PodMoves
<1>7. CASE answer \in Names
  <2>. DEFINE i == <<h, answer>>
              st == [on EXCEPT !.injected = @ \cup {i}]
  <2>1. SetPod(p, st)
    <3>1. answer \notin {"pass", "unavailable", "refuse"}
      BY <1>7, ConstantsAssumption
    <3>. QED
      BY <1>2, <3>1 DEF Receive
  <2>2. /\ me.injected = {} /\ p \notin Unsuitable /\ Mounts(<<p, h>>, answer, applied)
    BY <1>3, <1>7 DEF Grounded
  <2>3. i \in Hooks \X Names /\ i[1] = h /\ i[2] = answer
    BY <1>7
  <2>4. /\ st \in Admission /\ st.at = "chain" /\ st.left = me.left /\ st.injected = {i}
    BY <1>1, <2>2, <2>3 DEF Admission
  <2>. HIDE DEF st, on, i
  <2>5. Serial(p, st, call)
    BY <1>1, <2>4 DEF Serial
  <2>6. Admissible(p, st, applied)
    BY <2>2, <2>3, <2>4 DEF Admissible
  <2>. QED
    BY <1>1, <2>1, <2>4, <2>5, <2>6, PodMoves
<1>. QED
  BY <1>3, <1>5, <1>6, <1>7 DEF Answers

LEMMA DispatchKeeps ==
  ASSUME IInv, NEW p \in Pods, NEW h \in Hooks, Dispatch(p, h)
  PROVE  IInv'
<1>. DEFINE me == pod[p]
            c == <<p, h>>
<1>1. /\ me \in Admission /\ Serial(p, me, call) /\ Admissible(p, me, applied)
      /\ me.at = "chain" /\ h \in me.left /\ me.left \subseteq Hooks
      /\ UNCHANGED <<releases, replica, used, changes>>
  BY PodFacts DEF Dispatch, Admission
<1>2. c \in Calls /\ c[1] = p /\ c[2] = h /\ call[c].at = "none"
  BY <1>1 DEF Calls, Serial
<1>3. CASE SetPod(p, [me EXCEPT !.left = @ \ {h}]) /\ UNCHANGED call
  <2>. DEFINE st == [me EXCEPT !.left = @ \ {h}]
  <2>1. /\ st \in Admission /\ st.at = "chain" /\ st.left \subseteq me.left
        /\ st.injected = me.injected
    BY <1>1 DEF Admission
  <2>2. SetPod(p, st)
    BY <1>3
  <2>. HIDE DEF st
  <2>3. Serial(p, st, call) /\ Admissible(p, st, applied)
    BY <1>1, <2>1 DEF Serial, Admissible
  <2>. QED
    BY <1>1, <1>3, <2>1, <2>2, <2>3, PodMoves
<1>4. ASSUME NEW r \in Replicas, ServedBy[r] = h, Alive(r),
             SetCall(c, [at |-> "connected", replica |-> r, answer |-> None,
                         marked |-> me.injected # {}]),
             SetPod(p, [me EXCEPT !.at = "waiting", !.left = @ \ {h}, !.hook = h])
      PROVE  IInv'
  <2>. DEFINE cl == [at |-> "connected", replica |-> r, answer |-> None,
                     marked |-> me.injected # {}]
              st == [me EXCEPT !.at = "waiting", !.left = @ \ {h}, !.hook = h]
  <2>1. /\ cl \in Call /\ cl.at = "connected" /\ cl.replica = r /\ cl.answer = None
        /\ cl.marked <=> me.injected # {}
    BY DEF Call
  <2>2. /\ st \in Admission /\ st.at = "waiting" /\ st.left = me.left \ {h} /\ st.hook = h
        /\ st.injected = me.injected
    BY <1>1 DEF Admission
  <2>3. SetCall(c, cl) /\ SetPod(p, st)
    BY <1>4
  <2>. HIDE DEF cl, st
  <2>4. /\ \A d \in Calls : call'[d] = IF d = c THEN cl ELSE call[d]
        /\ \A q \in Pods : pod'[q] = IF q = p THEN st ELSE pod[q]
    BY <2>3 DEF SetCall, SetPod, IInv, TypeOK
  <2>5. TypeOK'
    BY <1>1, <2>1, <2>2, <2>3 DEF SetCall, SetPod, IInv, TypeOK, releases
  <2>6. CallsOK'
    <3>1. Attached(c, cl, replica)
      BY <1>2, <1>4, <2>1 DEF Attached, Open, Handling, Alive
    <3>2. Grounded(c, cl, applied)
      BY <2>1, ConstantsAssumption DEF Grounded
    <3>. QED
      BY <1>1, <2>4, <3>1, <3>2 DEF IInv, CallsOK, releases
  <2>7. PodsOK'
    <3>. SUFFICES ASSUME NEW q \in Pods
         PROVE  Serial(q, pod'[q], call') /\ Admissible(q, pod'[q], applied)
      BY <1>1 DEF PodsOK, releases
    <3>1. CASE q = p
      <4>1. \A k \in me.left \ {h} : call'[<<p, k>>].at = "none"
        BY <1>1, <2>4 DEF Serial, Calls
      <4>2. Serial(p, st, call')
        BY <1>2, <2>1, <2>2, <2>4, <4>1 DEF Serial
      <4>3. Admissible(p, st, applied)
        BY <1>1, <2>2 DEF Admissible
      <4>. QED
        BY <2>4, <3>1, <4>2, <4>3
    <3>2. CASE q # p
      <4>1. \A k \in Hooks : call'[<<q, k>>] = call[<<q, k>>]
        BY <2>4, <3>2 DEF Calls
      <4>2. /\ pod[q] \in Admission /\ Serial(q, pod[q], call)
            /\ Admissible(q, pod[q], applied) /\ pod'[q] = pod[q]
        BY <2>4, <3>2, PodFacts
      <4>3. pod[q].left \subseteq Hooks
        BY <4>2 DEF Admission
      <4>. QED
        BY <4>1, <4>2, <4>3 DEF Serial
    <3>. QED
      BY <3>1, <3>2
  <2>8. SlotsAreHeld'
    BY <1>1, <1>2, <2>1, <2>3, SameHandlers DEF Handling
  <2>. QED
    BY <1>1, <2>5, <2>6, <2>7, <2>8 DEF IInv, ConfigsOK, releases
<1>. QED
  BY <1>3, <1>4 DEF Dispatch
-----------------------------------------------------------------------------
(* The invariant holds of every behaviour.                                 *)
THEOREM Inductive == Spec => []IInv
<1>1. IInv /\ [Next]_vars => IInv'
  <2>. SUFFICES ASSUME IInv, [Next]_vars PROVE IInv'
    OBVIOUS
  <2>1. CASE \E p \in Pods : Server(p)
    BY <2>1, AdmissionKeeps, ReceiveKeeps, DispatchKeeps DEF Server, Progress
  <2>2. CASE \E c \in Calls : Handler(c)
    BY <2>2, EnterKeeps, HandleKeeps, ReturnKeeps DEF Handler
  <2>3. CASE Operations
    BY <2>3, StartKeeps, ExitKeeps, RolloutKeeps DEF Operations
  <2>4. CASE UNCHANGED vars
    <3>1. TypeOK' /\ ConfigsOK' /\ UNCHANGED <<used, call, pod, replica, applied>>
      BY <2>4 DEF vars, IInv, TypeOK, ConfigsOK
    <3>. QED
      BY <3>1, ReleasesKeep
  <2>. QED
    BY <2>1, <2>2, <2>3, <2>4 DEF Next
<1>. QED
  BY Initially, <1>1, PTL DEF Spec

(* Variables keep their types; in particular no replica gives out more     *)
(* slots than newOperator made.                                            *)
THEOREM TypeCorrect == Spec => []TypeOK
<1>1. IInv => TypeOK
  BY DEF IInv
<1>. QED
  BY Inductive, <1>1, PTL

(* Every slot is held by a running handler: none is lost on an error path  *)
(* or with a handler whose caller has given up.                            *)
THEOREM NoSlotIsLost == Spec => []SlotsAreHeld
<1>1. IInv => SlotsAreHeld
  BY DEF IInv
<1>. QED
  BY Inductive, <1>1, PTL

(* However many webhooks overlap, a Pod is injected once at most, and a    *)
(* conflicting Pod never.                                                  *)
THEOREM OneInjection == Spec => []InjectedOnce
<1>1. IInv => InjectedOnce
  BY DEF IInv, PodsOK, Admissible, InjectedOnce
<1>. QED
  BY Inductive, <1>1, PTL

(* Whichever configuration decided, the Secret a Pod mounts was provided   *)
(* in its namespace.                                                       *)
THEOREM MountsAreProvided == Spec => []InjectedCanMount
<1>1. IInv => InjectedCanMount
  <2>. SUFFICES ASSUME IInv, NEW p \in Pods, NEW i \in pod[p].injected
       PROVE  \E c \in applied[i[1]] : NamespaceOf[p] \in c.namespaces /\ i[2] = c.secret
    BY DEF InjectedCanMount
  <2>1. Mounts(<<p, i[1]>>, i[2], applied)
    BY PodFacts DEF Admissible
  <2>. QED
    BY <2>1 DEF Mounts
<1>. QED
  BY Inductive, <1>1, PTL

(* No process that is lost, full or out of date makes the webhook refuse a *)
(* Pod.                                                                    *)
THEOREM RefusalsHaveCause == Spec => []RefusedForCause
<1>1. IInv => RefusedForCause
  <2>. SUFFICES ASSUME IInv, NEW p \in Pods, pod[p].at = "refused"
       PROVE  \/ p \in Unsuitable \/ pod[p].injected # {}
              \/ \E h \in Hooks : \E c \in applied[h] :
                   NamespaceOf[p] \in c.namespaces /\ RuntimeOf[p] \notin c.runtimes
    BY DEF RefusedForCause
  <2>1. p \in Unsuitable \/ pod[p].injected # {} \/ \E h \in Hooks : Unserved(<<p, h>>, applied)
    BY PodFacts DEF Admissible
  <2>. QED
    BY <2>1 DEF Unserved
<1>. QED
  BY Inductive, <1>1, PTL
=============================================================================
