--------------------------- MODULE WebhookAdmission ---------------------------
(***************************************************************************)
(* The instrumentation webhook at work (operator/handler.go,               *)
(* operator/main.go and the objects of operator.yaml): the API server      *)
(* admits Pods that opt in, calling one after the other the webhooks whose *)
(* scope holds the Pod's namespace, while replicas start, stop and crash   *)
(* and Helm rolls configurations out.                                      *)
(*                                                                         *)
(* A hook is the webhook of one release.  There may be several, with       *)
(* overlapping scopes: only a check of the installer keeps them apart,     *)
(* which two installations with Secrets of different names may both pass.  *)
(* A configuration, once a replica has started with it, stays in the       *)
(* replica until it exits, so Pods that the new scope sends may meet an    *)
(* old replica.  The installer has created the client Secret in every      *)
(* namespace of a configuration before Helm applies it, and keeps it (the  *)
(* theorems ScopesAreProvisioned and GrantsLast of InstrumentationProofs). *)
(*                                                                         *)
(* Bodies, TLS and the Pod's own document are abstracted: a Pod is         *)
(* Unsuitable when its document makes the handler refuse it.               *)
(***************************************************************************)
EXTENDS Naturals, FiniteSets

CONSTANTS
  Hooks,       (* webhooks, each of a release of its own                   *)
  Replicas,    (* places for operator processes                            *)
  ServedBy,    (* ... the hook whose Service reaches each                  *)
  Pods,        (* Pods that opt in                                         *)
  NamespaceOf, (* ... the namespace of each                                *)
  RuntimeOf,   (* ... the runtime each asks for                            *)
  Unsuitable,  (* ... those whose document conflicts with an injection     *)
  Namespaces,
  Runtimes,
  Names,       (* names of client Secrets                                  *)
  Offers,      (* configurations each hook's release may be given          *)
  Capacity,    (* handlers a replica runs at once (16 in newOperator)      *)
  None,
  MaxChanges   (* bound: upgrades, uninstallations and ends of processes   *)

Config == [namespaces : SUBSET Namespaces, runtimes : SUBSET Runtimes, secret : Names]

ASSUME ConstantsAssumption ==
  /\ ServedBy \in [Replicas -> Hooks]
  /\ NamespaceOf \in [Pods -> Namespaces]
  /\ RuntimeOf \in [Pods -> Runtimes]
  /\ Unsuitable \subseteq Pods
  /\ Offers \in [Hooks -> SUBSET Config]
  /\ IsFiniteSet(Pods \X Hooks)
  /\ Capacity \in Nat \ {0} /\ MaxChanges \in Nat
  /\ None \notin Config \cup Replicas \cup Hooks \cup Names
  /\ (Names \cup {None}) \cap {"unavailable", "pass", "refuse"} = {}

VARIABLES
  config,   (* the ConfigMap of each hook's release                        *)
  scope,    (* the namespaceSelector of each webhook configuration         *)
  applied,  (* history variable: configurations each release has had       *)
  replica,  (* the operator processes: what each read at its start, None   *)
            (* while it is down                                            *)
  used,     (* ... the slots each has given out                            *)
  call,     (* the call of each hook for each Pod                          *)
  pod,      (* the Pods, as the API server sees them                       *)
  changes   (* upgrades, uninstallations and ends of processes so far      *)

releases == <<config, scope, applied>>
vars == <<config, scope, applied, replica, used, call, pod, changes>>

Calls == Pods \X Hooks
Handling == {"handle", "return"}
Answers == {"unavailable", "pass", "refuse"} \cup Names

(* A call, the replica it reached, whether the object it carries is        *)
(* injected already, and the answer on its way back.                       *)
Call ==
  [at : {"none", "connected", "done"} \cup Handling, replica : Replicas \cup {None},
   marked : BOOLEAN, answer : Answers \cup {None}]

(* A Pod in admission: the hooks still to call, the one being waited for,  *)
(* and the patches applied so far.                                         *)
Admission ==
  [at : {"new", "chain", "waiting", "admitted", "refused"}, left : SUBSET Hooks,
   hook : Hooks \cup {None}, injected : SUBSET (Hooks \X Names)]

NoCall == [at |-> "none", replica |-> None, marked |-> FALSE, answer |-> None]
Ended(st, answer) == [st EXCEPT !.at = "done", !.replica = None, !.answer = answer]
Unseen == [at |-> "new", left |-> {}, hook |-> None, injected |-> {}]

Alive(r) == replica[r] # None
SetCall(c, st) == call' = [call EXCEPT ![c] = st]
SetPod(p, st) == pod' = [pod EXCEPT ![p] = st]

(* The handlers of a replica between the slot they took and its return.    *)
Handlers(r) == {c \in Calls : call[c].at \in Handling /\ call[c].replica = r}
-----------------------------------------------------------------------------
(* The API server.                                                         *)

(* The webhooks a creation will call are those in scope when it begins.    *)
Create(p) ==
  /\ pod[p].at = "new"
  /\ SetPod(p, [pod[p] EXCEPT !.at = "chain",
                              !.left = {h \in Hooks : NamespaceOf[p] \in scope[h]}])
  /\ UNCHANGED <<releases, replica, used, call, changes>>

(* The next webhook is called, with the object as patched so far: once     *)
(* (reinvocationPolicy Never), at any replica that takes connections, or   *)
(* in vain.                                                                *)
Dispatch(p, h) ==
  /\ pod[p].at = "chain" /\ h \in pod[p].left
  /\ \/ /\ \E r \in Replicas :
             /\ ServedBy[r] = h /\ Alive(r)
             /\ SetCall(<<p, h>>, [at |-> "connected", replica |-> r, answer |-> None,
                                   marked |-> pod[p].injected # {}])
        /\ SetPod(p, [pod[p] EXCEPT !.at = "waiting", !.left = @ \ {h}, !.hook = h])
     \/ /\ SetPod(p, [pod[p] EXCEPT !.left = @ \ {h}])
        /\ UNCHANGED call
  /\ UNCHANGED <<releases, replica, used, changes>>

(* An answer is applied: a patch, a refusal, or, for a status that is not  *)
(* 200, nothing.                                                           *)
Receive(p) ==
  LET me == pod[p]
      answer == call[<<p, me.hook>>].answer
      on == [me EXCEPT !.at = "chain", !.hook = None]
  IN /\ me.at = "waiting" /\ answer # None
     /\ CASE answer \in {"pass", "unavailable"} -> SetPod(p, on)
          [] answer = "refuse" -> SetPod(p, [on EXCEPT !.at = "refused"])
          [] OTHER -> SetPod(p, [on EXCEPT !.injected = @ \cup {<<me.hook, answer>>}])
     /\ UNCHANGED <<releases, replica, used, call, changes>>

NoTimeout(p) == FALSE

FailClosed(p) ==
  /\ pod[p].at = "waiting"
  /\ SetPod(p, [pod[p] EXCEPT !.at = "refused", !.hook = None])
  /\ UNCHANGED <<releases, replica, used, call, changes>>

(* failurePolicy Ignore and timeoutSeconds: a call that is lost or late is *)
(* as if it had not been made.                                             *)
GiveUp(p) ==
  /\ pod[p].at = "waiting"
  /\ SetPod(p, [pod[p] EXCEPT !.at = "chain", !.hook = None])
  /\ UNCHANGED <<releases, replica, used, call, changes>>

Admit(p) ==
  /\ pod[p].at = "chain" /\ pod[p].left = {}
  /\ SetPod(p, [pod[p] EXCEPT !.at = "admitted"])
  /\ UNCHANGED <<releases, replica, used, call, changes>>
-----------------------------------------------------------------------------
(* The handler.                                                            *)

EnterOneMore(c) ==
  LET me == call[c]
      r == me.replica
  IN /\ me.at = "connected" /\ Alive(r)
     /\ \/ /\ used[r] <= Capacity
           /\ used' = [used EXCEPT ![r] = @ + 1]
           /\ SetCall(c, [me EXCEPT !.at = "handle"])
        \/ /\ used[r] > Capacity
           /\ SetCall(c, Ended(me, "unavailable"))
           /\ UNCHANGED used
     /\ UNCHANGED <<releases, replica, pod, changes>>

(* serveMutate: a slot, or 503 without one.                                *)
Enter(c) ==
  LET me == call[c]
      r == me.replica
  IN /\ me.at = "connected" /\ Alive(r)
     /\ \/ /\ used[r] < Capacity
           /\ used' = [used EXCEPT ![r] = @ + 1]
           /\ SetCall(c, [me EXCEPT !.at = "handle"])
        \/ /\ used[r] >= Capacity
           /\ SetCall(c, Ended(me, "unavailable"))
           /\ UNCHANGED used
     /\ UNCHANGED <<releases, replica, pod, changes>>

TrustSelector(p, marked, c) ==
  IF RuntimeOf[p] \notin c.runtimes \/ marked \/ p \in Unsuitable THEN "refuse" ELSE c.secret

TrustHooks(p, marked, c) ==
  IF NamespaceOf[p] \notin c.namespaces THEN "pass"
  ELSE IF RuntimeOf[p] \notin c.runtimes \/ p \in Unsuitable THEN "refuse" ELSE c.secret

(* admit: a namespace that is not this process's own passes; a runtime it  *)
(* has no image for, an injected Pod and a conflicting one are refused; the *)
(* rest get a patch that mounts its Secret.                                *)
Decision(p, marked, c) ==
  IF NamespaceOf[p] \notin c.namespaces THEN "pass"
  ELSE IF RuntimeOf[p] \notin c.runtimes \/ marked \/ p \in Unsuitable THEN "refuse"
       ELSE c.secret

ErrorKeepsSlot(c) ==
  LET me == call[c]
      decided == Decision(c[1], me.marked, replica[me.replica])
  IN /\ me.at = "handle"
     /\ \/ SetCall(c, [me EXCEPT !.at = "return", !.answer = decided])
        \/ SetCall(c, Ended(me, "unavailable"))
     /\ UNCHANGED <<releases, replica, used, pod, changes>>

(* The body is read and decided on; or reading it fails: too large,        *)
(* truncated, or slower than the server's ReadTimeout.                     *)
Handle(c) ==
  LET me == call[c]
      decided == Decision(c[1], me.marked, replica[me.replica])
  IN /\ me.at = "handle"
     /\ \E answer \in {decided, "unavailable"} :
          SetCall(c, [me EXCEPT !.at = "return", !.answer = answer])
     /\ UNCHANGED <<releases, replica, used, pod, changes>>

(* The deferred receive from op.slots.                                     *)
Return(c) ==
  /\ call[c].at = "return"
  /\ SetCall(c, Ended(call[c], call[c].answer))
  /\ used' = [used EXCEPT ![call[c].replica] = @ - 1]
  /\ UNCHANGED <<releases, replica, pod, changes>>
-----------------------------------------------------------------------------
(* Processes and rollouts.                                                 *)

Disturb == changes < MaxChanges /\ changes' = changes + 1

(* A process reads its configuration once, from the environment the        *)
(* ConfigMap gives it.                                                     *)
Start(r) ==
  /\ ~Alive(r) /\ config[ServedBy[r]] # None
  /\ replica' = [replica EXCEPT ![r] = config[ServedBy[r]]]
  /\ UNCHANGED <<releases, used, call, pod, changes>>

(* The process ends with its handlers: at a crash, or when main returns,   *)
(* which it does once Shutdown has closed the listener, without waiting    *)
(* for them.  (Between the two the process refuses connections, which      *)
(* Dispatch always allows for.)                                            *)
Exit(r) ==
  /\ Disturb
  /\ Alive(r)
  /\ replica' = [replica EXCEPT ![r] = None]
  /\ used' = [used EXCEPT ![r] = 0]
  /\ call' = [c \in Calls |->
                IF call[c].replica = r THEN Ended(call[c], call[c].answer) ELSE call[c]]
  /\ UNCHANGED <<releases, pod>>

(* Helm replaces the ConfigMap, and the webhook configuration later on.    *)
Upgrade(h) ==
  /\ Disturb
  /\ \E new \in Offers[h] \ {config[h]} :
       /\ config' = [config EXCEPT ![h] = new]
       /\ applied' = [applied EXCEPT ![h] = @ \cup {new}]
  /\ UNCHANGED <<scope, replica, used, call, pod>>

Select(h) ==
  /\ config[h] # None /\ scope[h] # config[h].namespaces
  /\ scope' = [scope EXCEPT ![h] = config[h].namespaces]
  /\ UNCHANGED <<config, applied, replica, used, call, pod, changes>>

(* helm uninstall; the processes follow at their own pace.                 *)
Uninstall(h) ==
  /\ Disturb
  /\ config[h] # None
  /\ config' = [config EXCEPT ![h] = None]
  /\ scope' = [scope EXCEPT ![h] = {}]
  /\ UNCHANGED <<applied, replica, used, call, pod>>
-----------------------------------------------------------------------------
Init ==
  /\ config = [h \in Hooks |-> None]
  /\ scope = [h \in Hooks |-> {}]
  /\ applied = [h \in Hooks |-> {}]
  /\ replica = [r \in Replicas |-> None]
  /\ used = [r \in Replicas |-> 0]
  /\ call = [c \in Calls |-> NoCall]
  /\ pod = [p \in Pods |-> Unseen]
  /\ changes = 0

Handler(c) == Enter(c) \/ Handle(c) \/ Return(c)

Progress(p) == GiveUp(p) \/ Admit(p) \/ \E h \in Hooks : Dispatch(p, h)
Server(p) == Create(p) \/ Receive(p) \/ Progress(p)

Operations ==
  \/ \E r \in Replicas : Start(r) \/ Exit(r)
  \/ \E h \in Hooks : Upgrade(h) \/ Select(h) \/ Uninstall(h)

Next ==
  \/ \E p \in Pods : Server(p)
  \/ \E c \in Calls : Handler(c)
  \/ Operations

Spec == Init /\ [][Next]_vars

(* A handler goes on, for the server's timeouts bound what it reads and    *)
(* writes; so does the API server with an admission it has begun, for      *)
(* timeoutSeconds bounds its wait.  Nothing is assumed of processes and    *)
(* rollouts, nor that a call is ever answered.                             *)
Fairness ==
  /\ \A c \in Calls : WF_vars(Handler(c))
  /\ \A p \in Pods : WF_vars(Progress(p))

FairSpec == Spec /\ Fairness
-----------------------------------------------------------------------------
TypeOK ==
  /\ config \in [Hooks -> Config \cup {None}]
  /\ scope \in [Hooks -> SUBSET Namespaces]
  /\ applied \in [Hooks -> SUBSET Config]
  /\ replica \in [Replicas -> Config \cup {None}]
  /\ used \in [Replicas -> 0 .. Capacity]
  /\ call \in [Calls -> Call]
  /\ pod \in [Pods -> Admission]
  /\ changes \in 0 .. MaxChanges

(* A slot is held by a handler, and by nothing else: every path out of     *)
(* serveMutate gives it back, and at most Capacity handlers hold one.      *)
SlotsAreHeld == \A r \in Replicas : used[r] = Cardinality(Handlers(r))

(* A Pod is injected by one hook at most, whatever the scopes, the answers *)
(* that came late and the replicas that crashed in between; and never when *)
(* its own document conflicts (operator/README.md: one instrumentation     *)
(* authority).                                                             *)
InjectedOnce ==
  \A p \in Pods :
    /\ \A i, j \in pod[p].injected : i = j
    /\ p \in Unsuitable => pod[p].injected = {}

(* The Secret a Pod was made to mount is one the installer put in its      *)
(* namespace, even if a process of an older configuration decided: a       *)
(* configuration that its release has had names both.                      *)
InjectedCanMount ==
  \A p \in Pods : \A i \in pod[p].injected :
    \E c \in applied[i[1]] : NamespaceOf[p] \in c.namespaces /\ i[2] = c.secret

(* The handler refuses a Pod for what the Pod is: its document conflicts,  *)
(* it is injected already, or a configuration has no image for its         *)
(* runtime.  A lost process, a full one and a rollout never refuse it      *)
(* (docs/security.md:7).                                                   *)
RefusedForCause ==
  \A p \in Pods : pod[p].at = "refused" =>
    \/ p \in Unsuitable \/ pod[p].injected # {}
    \/ \E h \in Hooks : \E c \in applied[h] :
         NamespaceOf[p] \in c.namespaces /\ RuntimeOf[p] \notin c.runtimes

(* 503 is passing: a full replica gets a free slot.                        *)
CapacityReturns == \A r \in Replicas : used[r] = Capacity ~> used[r] < Capacity

(* An admission ends, whether or not any process answers.                  *)
AdmissionsEnd ==
  \A p \in Pods : pod[p].at \in {"chain", "waiting"} ~> pod[p].at \in {"admitted", "refused"}
=============================================================================
