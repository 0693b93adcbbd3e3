------------------------ MODULE InstrumentationProofs ------------------------
(***************************************************************************)
(* Proofs about InstrumentationInstall, for any terminals, releases,       *)
(* namespaces, profiles and Secrets, and without any bound on commands or  *)
(* changes.                                                                *)
(***************************************************************************)
EXTENDS InstrumentationInstall, TLAPS

ClientOf(r, ca, key) == [owner |-> r, role |-> "client", ca |-> ca, key |-> key]
ServerOf(r, ca, key) == [owner |-> r, role |-> "server", ca |-> ca, key |-> key]

(* A place holds a Secret unless an administrator emptied it: sec stands   *)
(* for secrets, rot for rotated and unr for unreviewed.                    *)
Has(x, secret, sec, rot) == x \in rot \/ sec[x] = secret

Reading == {"core", "claims", "targets", "source"}
Later == {"clients", "render", "namespace", "createServing", "createClients", "apply", "wait"}
Installing == {"render", "namespace", "createServing", "createClients", "apply", "wait"}
OfHelm == {"apply", "wait", "purge"}

(* What a command has verified or created so far.                          *)
ClientsHeld(st, sec, rot) ==
  \A n \in st.settings.namespaces \ (st.left \cup st.missing) :
    Has(ClientPlace(n, st.settings), ClientOf(st.release, st.ca, st.key), sec, rot)
ServerHeld(st, sec, rot) ==
  Has(ServingPlace(st.release, st.settings), ServerOf(st.release, st.ca, st.serving), sec, rot)

HasServing(st, unr) ==
  \/ st.at \in {"render", "namespace", "createServing"} /\ ~st.fresh
  \/ st.at = "createClients"
  \/ st.at \in {"apply", "wait"} /\ st.release \notin unr

Chosen(st) ==
  \/ st.at = "inventory" /\ st.cmd # "uninstall"
  \/ st.at \in Reading \cup Later

InHand(st, sec, rot, unr) ==
  /\ st.at # "idle" => st.release \in Releases
  /\ Chosen(st) =>
       /\ st.cmd \in {"install", "combined"}
       /\ st.settings \in Profiles
       /\ st.at \notin {"apply", "wait"} => Home[st.release] \notin st.settings.namespaces
  /\ st.at \in Later /\ st.at \notin {"apply", "wait"} =>
       st.left \cup st.missing \subseteq st.settings.namespaces
  /\ st.at \in Later /\ (st.at \in {"apply", "wait"} => st.release \notin unr) =>
       ClientsHeld(st, sec, rot)
  /\ HasServing(st, unr) => ServerHeld(st, sec, rot)
  /\ st.at \in {"inventory"} \cup Reading \cup Installing => st.missing = {}
  /\ st.at \in {"apply", "wait"} => st.left = {}

(* A scope whose Secrets are all there, of one gateway identity.           *)
Provisioned(r, sc, sec, rot) ==
  \E ca, key \in Nat :
    /\ \A n \in sc.namespaces : Has(<<n, sc.client>>, ClientOf(r, ca, key), sec, rot)
    /\ Has(<<Home[r], sc.serving>>, ServerOf(r, ca, sc.ca), sec, rot)

SessionsOK == \A s \in Sessions : InHand(session[s], secrets, rotated, unreviewed)
ScopesOK ==
  \A r \in Releases \ unreviewed :
    /\ webhook[r] # None => Provisioned(r, webhook[r], secrets, rotated)
    /\ stable[r] # None => Provisioned(r, stable[r], secrets, rotated)

(* One Helm operation of a release at a time, and what it finds.           *)
HelmOK ==
  /\ \A s \in Sessions :
       /\ session[s].at \in OfHelm =>
            /\ helm[session[s].release] = "pending"
            /\ \A q \in Sessions \ {s} :
                 session[q].release = session[s].release => session[q].at \notin OfHelm
       /\ session[s].at = "wait" => webhook[session[s].release] # None
       /\ session[s].at = "purge" => webhook[session[s].release] = None
  /\ \A r \in Releases : helm[r] = "deployed" => webhook[r] # None

(* Client Secrets lie outside the namespace of their release's operator.   *)
RolesOK ==
  \A x \in Places :
    secrets[x] # None =>
      (secrets[x].role = "client" <=> x[1] # Home[secrets[x].owner])

(* Before anybody interferes, everything is made for the gateway.          *)
MadeFor(ca, key) == gateway # None /\ ca = gateway.ca /\ key = gateway.key
MaterialOK ==
  admin = 0 =>
    /\ stale = {}
    /\ \A s \in Sessions : session[s].at \in Later => MadeFor(session[s].ca, session[s].key)
    /\ \A x \in Places :
         secrets[x] # None =>
           /\ gateway # None /\ secrets[x].ca = gateway.ca
           /\ secrets[x].role = "client" => secrets[x].key = gateway.key

IInv == TypeOK /\ SessionsOK /\ ScopesOK /\ HelmOK /\ RolesOK /\ MaterialOK

-----------------------------------------------------------------------------
(* Secrets are created where there is none, and removed by administrators  *)
(* only: what a command or a scope has is kept.                            *)
Grows(sec, secp, rot, rotp) ==
  /\ rot \subseteq rotp
  /\ \A x \in Places : x \notin rotp /\ sec[x] # None => secp[x] = sec[x]

LEMMA HasGrows ==
  ASSUME NEW sec, NEW secp, NEW rot, NEW rotp, Grows(sec, secp, rot, rotp),
         NEW x \in Places, NEW y \in Secret, Has(x, y, sec, rot)
  PROVE  Has(x, y, secp, rotp)
BY ConstantsAssumption DEF Grows, Has

LEMMA SecretTypes ==
  ASSUME NEW r \in Releases, NEW ca \in Nat, NEW key \in Nat
  PROVE  ClientOf(r, ca, key) \in Secret /\ ServerOf(r, ca, key) \in Secret
BY DEF ClientOf, ServerOf, Secret

LEMMA PlaceTypes ==
  ASSUME NEW r \in Releases, NEW p \in Profiles
  PROVE  /\ ServingPlace(r, p) \in Places
         /\ \A n \in p.namespaces : ClientPlace(n, p) \in Places
BY ConstantsAssumption DEF ServingPlace, ClientPlace, Places, Profile

LEMMA InHandGrows ==
  ASSUME NEW sec, NEW secp, NEW rot, NEW rotp, Grows(sec, secp, rot, rotp),
         NEW unr, NEW unrp, NEW st \in SessionState, InHand(st, sec, rot, unr),
         st.at \in {"apply", "wait"} /\ st.release \notin unrp => st.release \notin unr
  PROVE  InHand(st, secp, rotp, unrp)
<1>1. st.at \in Later => st.release \in Releases /\ st.settings \in Profiles
  BY DEF InHand, Chosen, Later
<1>2. ASSUME st.at \in Later, ClientsHeld(st, sec, rot) PROVE ClientsHeld(st, secp, rotp)
  <2>1. ClientOf(st.release, st.ca, st.key) \in Secret
    BY <1>1, <1>2, SecretTypes DEF SessionState
  <2>. QED
    BY <1>1, <1>2, <2>1, PlaceTypes, HasGrows DEF ClientsHeld
<1>3. ASSUME st.at \in Later, ServerHeld(st, sec, rot) PROVE ServerHeld(st, secp, rotp)
  <2>1. ServerOf(st.release, st.ca, st.serving) \in Secret
    BY <1>1, <1>3, SecretTypes DEF SessionState
  <2>. QED
    BY <1>1, <1>3, <2>1, PlaceTypes, HasGrows DEF ServerHeld
<1>4. HasServing(st, unrp) => st.at \in Later /\ HasServing(st, unr)
  BY DEF HasServing, Later
<1>. QED
  BY <1>2, <1>3, <1>4 DEF InHand

LEMMA ProvisionedGrows ==
  ASSUME NEW sec, NEW secp, NEW rot, NEW rotp, Grows(sec, secp, rot, rotp),
         NEW r \in Releases, NEW sc \in Scope, Provisioned(r, sc, sec, rot)
  PROVE  Provisioned(r, sc, secp, rotp)
<1>1. PICK ca, key \in Nat :
        /\ \A n \in sc.namespaces : Has(<<n, sc.client>>, ClientOf(r, ca, key), sec, rot)
        /\ Has(<<Home[r], sc.serving>>, ServerOf(r, ca, sc.ca), sec, rot)
  BY DEF Provisioned
<1>2. /\ ClientOf(r, ca, key) \in Secret /\ ServerOf(r, ca, sc.ca) \in Secret
      /\ \A n \in sc.namespaces : <<n, sc.client>> \in Places
      /\ <<Home[r], sc.serving>> \in Places
  BY SecretTypes, ConstantsAssumption DEF Scope, Places
<1>. QED
  BY <1>1, <1>2, HasGrows DEF Provisioned

(* One command moves; the others keep what they have.                      *)
LEMMA OneMoves ==
  ASSUME IInv, NEW s \in Sessions, NEW st \in SessionState, Set(s, st),
         InHand(st, secrets', rotated', unreviewed'),
         Grows(secrets, secrets', rotated, rotated'),
         \A q \in Sessions \ {s} :
           session[q].at \in {"apply", "wait"} /\ session[q].release \notin unreviewed' =>
             session[q].release \notin unreviewed
  PROVE  /\ session' \in [Sessions -> SessionState] /\ session'[s] = st
         /\ \A q \in Sessions \ {s} : session'[q] = session[q]
         /\ SessionsOK'
<1>1. session \in [Sessions -> SessionState] /\ session' = [session EXCEPT ![s] = st]
  BY DEF IInv, TypeOK, Set
<1>2. /\ session' \in [Sessions -> SessionState] /\ session'[s] = st
      /\ \A q \in Sessions \ {s} : session'[q] = session[q]
  BY <1>1
<1>3. ASSUME NEW q \in Sessions PROVE InHand(session'[q], secrets', rotated', unreviewed')
  <2>1. CASE q = s
    BY <1>2, <2>1
  <2>2. CASE q # s
    <3>1. session[q] \in SessionState /\ InHand(session[q], secrets, rotated, unreviewed)
      BY <1>1 DEF IInv, SessionsOK
    <3>. QED
      BY <1>2, <2>2, <3>1, InHandGrows
  <2>. QED
    BY <2>1, <2>2
<1>. QED
  BY <1>2, <1>3 DEF SessionsOK

LEMMA NoGrowth == ASSUME NEW sec, NEW rot PROVE Grows(sec, sec, rot, rot)
BY DEF Grows

(* A step that only moves its command, outside Helm.                       *)
Quiet ==
  /\ UNCHANGED <<profile, secrets, gateway, helm, webhook, stable, stale, rotated, unreviewed, admin>>
  /\ existing' \subseteq Namespaces /\ serial' \in Nat /\ runs' \in Nat

Fresh(st) == st.at \in Later => (admin = 0 => MadeFor(st.ca, st.key))

LEMMA QuietStep ==
  ASSUME IInv, Quiet, NEW s \in Sessions, NEW st \in SessionState, Set(s, st),
         InHand(st, secrets, rotated, unreviewed), st.at \notin OfHelm, Fresh(st)
  PROVE  IInv'
<1>1. /\ session' \in [Sessions -> SessionState] /\ session'[s] = st
      /\ \A q \in Sessions \ {s} : session'[q] = session[q]
      /\ SessionsOK'
  BY OneMoves, NoGrowth DEF Quiet
<1>2. TypeOK'
  BY <1>1 DEF Quiet, IInv, TypeOK
<1>3. ScopesOK' /\ RolesOK'
  BY DEF Quiet, IInv, ScopesOK, RolesOK
<1>4. HelmOK'
  <2>1. HelmOK
    BY DEF IInv
  <2>2. ASSUME NEW q \in Sessions, session'[q].at \in OfHelm
        PROVE  q # s /\ session'[q] = session[q]
    BY <1>1, <2>2
  <2>3. OfHelm = {"apply", "wait", "purge"}
    BY DEF OfHelm
  <2>. QED
    BY <1>1, <2>1, <2>2, <2>3 DEF Quiet, HelmOK
<1>5. MaterialOK'
  BY <1>1 DEF Quiet, IInv, MaterialOK, Fresh, MadeFor
<1>. QED
  BY <1>1, <1>2, <1>3, <1>4, <1>5 DEF IInv

LEMMA Ends ==
  ASSUME IInv, Quiet, NEW s \in Sessions, End(s)
  PROVE  IInv'
<1>1. Blank \in SessionState
  BY DEF Blank, SessionState, Locations, Commands
<1>2. InHand(Blank, secrets, rotated, unreviewed) /\ Blank.at \notin OfHelm /\ Fresh(Blank)
  BY DEF InHand, Blank, Chosen, HasServing, Reading, Later, Installing, OfHelm, Fresh
<1>. QED
  BY <1>1, <1>2, QuietStep DEF End

LEMMA Checks ==
  ASSUME IInv, NEW s \in Sessions, NEW ok \in BOOLEAN, NEW st, Check(s, ok, st),
         ok => /\ st \in SessionState /\ st.at \notin OfHelm /\ Fresh(st)
               /\ InHand(st, secrets, rotated, unreviewed)
  PROVE  IInv'
<1>1. Quiet
  BY DEF Check, cluster, outside, Quiet, IInv, TypeOK
<1>. QED
  BY <1>1, Ends, QuietStep DEF Check

LEMMA Initially == Init => IInv
<1>. SUFFICES ASSUME Init PROVE IInv
  OBVIOUS
<1>1. Blank \in SessionState
  BY DEF Blank, SessionState, Locations, Commands
<1>2. TypeOK
  BY <1>1, ConstantsAssumption DEF Init, TypeOK, Gateway
<1>3. SessionsOK
  BY DEF Init, SessionsOK, InHand, Blank, Chosen, HasServing, Reading, Later, Installing
<1>4. ScopesOK /\ HelmOK /\ RolesOK /\ MaterialOK
  BY DEF Init, ScopesOK, HelmOK, RolesOK, MaterialOK, Blank, Later, OfHelm
<1>. QED
  BY <1>2, <1>3, <1>4 DEF IInv

-----------------------------------------------------------------------------
(* Every action preserves the invariant.                                   *)
Here(s) ==
  /\ session[s] \in SessionState
  /\ InHand(session[s], secrets, rotated, unreviewed)
  /\ Fresh(session[s])

LEMMA AtHand == ASSUME IInv, NEW s \in Sessions PROVE Here(s)
BY DEF IInv, TypeOK, SessionsOK, MaterialOK, Here, Fresh

LEMMA StartStep == ASSUME IInv, NEW s \in Sessions, Start(s) PROVE IInv'
<1>1. Quiet
  BY DEF Start, cluster, outside, Quiet, IInv, TypeOK
<1>2. PICK r \in Releases :
        LET start == [Blank EXCEPT !.release = r, !.settings = profile[r]]
        IN  \/ /\ Acceptable(r, profile[r])
               /\ \/ Set(s, [start EXCEPT !.cmd = "install", !.at = "inventory"])
                  \/ Set(s, [start EXCEPT !.cmd = "combined", !.at = "core"])
            \/ Set(s, [Blank EXCEPT !.release = r, !.cmd = "uninstall", !.at = "inventory"])
  BY DEF Start
<1>3. profile[r] \in Profiles
  BY DEF IInv, TypeOK
<1>. DEFINE Install1 == [[Blank EXCEPT !.release = r, !.settings = profile[r]] EXCEPT !.cmd = "install", !.at = "inventory"]
            Combined1 == [[Blank EXCEPT !.release = r, !.settings = profile[r]] EXCEPT !.cmd = "combined", !.at = "core"]
            Uninstall1 == [Blank EXCEPT !.release = r, !.cmd = "uninstall", !.at = "inventory"]
<1>4. /\ Install1 \in SessionState /\ Combined1 \in SessionState /\ Uninstall1 \in SessionState
  BY <1>3 DEF Blank, SessionState, Locations, Commands
<1>5. Acceptable(r, profile[r]) =>
        /\ InHand(Install1, secrets, rotated, unreviewed)
        /\ InHand(Combined1, secrets, rotated, unreviewed)
  BY <1>3 DEF InHand, Chosen, HasServing, Reading, Later, Installing, Blank, Acceptable, Selectable
<1>6. InHand(Uninstall1, secrets, rotated, unreviewed)
  BY DEF InHand, Chosen, HasServing, Reading, Later, Installing, Blank
<1>7. /\ Install1.at \notin OfHelm \cup Later /\ Combined1.at \notin OfHelm \cup Later
      /\ Uninstall1.at \notin OfHelm \cup Later
  BY DEF OfHelm, Later, Blank
<1>8. \/ Acceptable(r, profile[r]) /\ (Set(s, Install1) \/ Set(s, Combined1))
      \/ Set(s, Uninstall1)
  BY <1>2
<1>. HIDE DEF Install1, Combined1, Uninstall1
<1>. QED
  BY <1>1, <1>4, <1>5, <1>6, <1>7, <1>8, QuietStep DEF Fresh

LEMMA InterruptedStep == ASSUME IInv, NEW s \in Sessions, Interrupted(s) PROVE IInv'
<1>1. Quiet
  BY DEF Interrupted, cluster, outside, Quiet, IInv, TypeOK
<1>. QED
  BY <1>1, Ends DEF Interrupted

LEMMA ReadInventoryStep == ASSUME IInv, NEW s \in Sessions, ReadInventory(s) PROVE IInv'
<1>. DEFINE me == session[s]
            home == Home[me.release] \in existing
            removing == [me EXCEPT !.at = "uninstall"]
            reading == [me EXCEPT !.at = "claims", !.home = home]
<1>1. me.at = "inventory" /\ Here(s)
  BY AtHand DEF ReadInventory
<1>2. removing \in SessionState /\ reading \in SessionState
  <2>1. home \in BOOLEAN
    OBVIOUS
  <2>. HIDE DEF home
  <2>. QED
    BY <1>1, <2>1 DEF Here, SessionState, Locations
<1>3. /\ me.cmd = "uninstall" => InHand(removing, secrets, rotated, unreviewed)
      /\ me.cmd # "uninstall" => InHand(reading, secrets, rotated, unreviewed)
  BY <1>1 DEF Here, SessionState, InHand, Chosen, HasServing, Reading, Later, Installing
<1>4. removing.at \notin OfHelm \cup Later /\ reading.at \notin OfHelm \cup Later
  BY <1>1 DEF OfHelm, Later, Here, SessionState
<1>5. IF me.cmd = "uninstall" THEN Check(s, Recoverable(me.release), removing)
      ELSE Check(s, Listed(me.release) => Recoverable(me.release), reading)
  BY DEF ReadInventory
<1>6. Recoverable(me.release) \in BOOLEAN /\ (Listed(me.release) => Recoverable(me.release)) \in BOOLEAN
  BY DEF Recoverable, Listed
<1>. HIDE DEF me, removing, reading
<1>. QED
  BY <1>2, <1>3, <1>4, <1>5, <1>6, Checks DEF Fresh

LEMMA ReadClaimsStep == ASSUME IInv, NEW s \in Sessions, ReadClaims(s) PROVE IInv'
<1>. DEFINE me == session[s]
            reading == [me EXCEPT !.at = "targets"]
<1>1. me.at = "claims" /\ Here(s)
  BY AtHand DEF ReadClaims
<1>2. /\ reading \in SessionState /\ reading.at \notin OfHelm /\ Fresh(reading)
      /\ InHand(reading, secrets, rotated, unreviewed)
  BY <1>1 DEF Here, SessionState, Locations, OfHelm, Fresh, InHand, Chosen, HasServing, Reading, Later, Installing
<1>3. Check(s, ClaimsDisjoint(me.release, me.settings), reading)
  BY DEF ReadClaims
<1>4. ClaimsDisjoint(me.release, me.settings) \in BOOLEAN
  BY DEF ClaimsDisjoint
<1>. HIDE DEF me, reading
<1>. QED
  BY <1>2, <1>3, <1>4, Checks

LEMMA ReadTargetsStep == ASSUME IInv, NEW s \in Sessions, ReadTargets(s) PROVE IInv'
<1>. DEFINE me == session[s]
            reading == [me EXCEPT !.at = "source"]
            free == \A n \in me.settings.namespaces : NotInjected(n)
<1>1. me.at = "targets" /\ Here(s)
  BY AtHand DEF ReadTargets
<1>2. /\ reading \in SessionState /\ reading.at \notin OfHelm /\ Fresh(reading)
      /\ InHand(reading, secrets, rotated, unreviewed)
  BY <1>1 DEF Here, SessionState, Locations, OfHelm, Fresh, InHand, Chosen, HasServing, Reading, Later, Installing
<1>3. Check(s, free, reading) /\ free \in BOOLEAN
  BY DEF ReadTargets
<1>. HIDE DEF me, reading, free
<1>. QED
  BY <1>2, <1>3, Checks

LEMMA ReadSourceStep == ASSUME IInv, NEW s \in Sessions, ReadSource(s) PROVE IInv'
<1>. DEFINE me == session[s]
            reading == [me EXCEPT !.at = "clients", !.ca = gateway.ca, !.key = gateway.key,
                          !.left = me.settings.namespaces]
            ready == me.settings.namespaces \subseteq gateway.namespaces /\ Valid(gateway.key)
<1>1. me.at = "source" /\ Here(s)
  BY AtHand DEF ReadSource
<1>2. CASE gateway = None
  <2>1. Check(s, FALSE, me)
    BY <1>2 DEF ReadSource
  <2>. QED
    BY <2>1, Checks
<1>3. CASE gateway # None
  <2>1. gateway \in Gateway
    BY <1>3 DEF IInv, TypeOK
  <2>2. me.settings \in Profiles
    BY <1>1 DEF Here, InHand, Chosen, Reading
  <2>3. me.settings.namespaces \in SUBSET Namespaces
    BY <2>2, ConstantsAssumption DEF Profile
  <2>4. reading \in SessionState
    BY <1>1, <2>1, <2>3 DEF Here, SessionState, Locations, Gateway
  <2>5. /\ reading.at = "clients" /\ reading.left = me.settings.namespaces
        /\ reading.settings = me.settings /\ reading.cmd = me.cmd /\ reading.release = me.release
        /\ reading.ca = gateway.ca /\ reading.key = gateway.key /\ reading.missing = me.missing
    BY <1>1 DEF Here, SessionState
  <2>6. me.missing = {} /\ me.cmd \in {"install", "combined"} /\ me.release \in Releases
        /\ Home[me.release] \notin me.settings.namespaces
    BY <1>1 DEF Here, InHand, Chosen, Reading
  <2>7. InHand(reading, secrets, rotated, unreviewed)
    BY <2>2, <2>5, <2>6 DEF InHand, Chosen, HasServing, ClientsHeld, Reading, Later, Installing
  <2>8. reading.at \notin OfHelm /\ Fresh(reading)
    BY <1>3, <2>5 DEF OfHelm, Fresh, MadeFor
  <2>9. Check(s, ready, reading) /\ ready \in BOOLEAN
    BY <1>3 DEF ReadSource, Valid
  <2>. HIDE DEF me, reading, ready
  <2>. QED
    BY <2>4, <2>7, <2>8, <2>9, Checks
<1>. QED
  BY <1>2, <1>3

LEMMA ReadClientStep == ASSUME IInv, NEW s \in Sessions, ReadClient(s) PROVE IInv'
<1>. DEFINE me == session[s]
<1>1. me.at = "clients" /\ Here(s)
  BY AtHand DEF ReadClient
<1>2. PICK n \in me.left :
        LET x == secrets[ClientPlace(n, me.settings)]
            rest == [me EXCEPT !.left = @ \ {n}]
        IN  IF x = None
            THEN Check(s, TRUE, [rest EXCEPT !.missing = @ \cup {n}])
            ELSE Check(s, ClientUsable(me.release, x, me.ca, me.key), rest)
  BY DEF ReadClient
<1>. DEFINE x == secrets[ClientPlace(n, me.settings)]
            found == [me EXCEPT !.left = @ \ {n}]
            lacking == [[me EXCEPT !.left = @ \ {n}] EXCEPT !.missing = @ \cup {n}]
            usable == ClientUsable(me.release, x, me.ca, me.key)
<1>3. /\ me.settings \in Profiles /\ me.release \in Releases /\ me.ca \in Nat /\ me.key \in Nat
      /\ me.left \cup me.missing \subseteq me.settings.namespaces
      /\ me.left \subseteq Namespaces /\ me.missing \subseteq Namespaces
  BY <1>1 DEF Here, InHand, Chosen, Reading, Later, SessionState
<1>4. /\ found \in SessionState /\ lacking \in SessionState
      /\ found.left = me.left \ {n} /\ found.missing = me.missing
      /\ lacking.left = me.left \ {n} /\ lacking.missing = me.missing \cup {n}
      /\ \A st \in {found, lacking} :
           /\ st.at = "clients" /\ st.cmd = me.cmd /\ st.release = me.release
           /\ st.settings = me.settings /\ st.ca = me.ca /\ st.key = me.key
  BY <1>1, <1>3 DEF Here, SessionState
<1>5. x = None \/ x \in Secret
  BY <1>3, PlaceTypes DEF IInv, TypeOK
<1>6. x # None /\ usable => x = ClientOf(me.release, me.ca, me.key)
  BY <1>5 DEF ClientUsable, Owned, ClientOf, Secret
<1>7. InHand(lacking, secrets, rotated, unreviewed)
  BY <1>1, <1>3, <1>4 DEF Here, InHand, Chosen, HasServing, ClientsHeld, Reading, Later, Installing
<1>8. x # None /\ usable => InHand(found, secrets, rotated, unreviewed)
  <2>. SUFFICES ASSUME x # None, usable PROVE InHand(found, secrets, rotated, unreviewed)
    OBVIOUS
  <2>1. Has(ClientPlace(n, me.settings), ClientOf(me.release, me.ca, me.key), secrets, rotated)
    BY <1>6 DEF Has
  <2>2. ClientsHeld(me, secrets, rotated)
    BY <1>1 DEF Here, InHand, Later
  <2>3. ClientsHeld(found, secrets, rotated)
    BY <1>4, <2>1, <2>2 DEF ClientsHeld
  <2>. QED
    BY <1>1, <1>3, <1>4, <2>3 DEF Here, InHand, Chosen, HasServing, Reading, Later, Installing
<1>9. \A st \in {found, lacking} : st.at \notin OfHelm /\ Fresh(st)
  BY <1>1, <1>4 DEF Here, Fresh, OfHelm, Later
<1>10. IF x = None THEN Check(s, TRUE, lacking) ELSE Check(s, usable, found)
  BY <1>2
<1>11. usable \in BOOLEAN
  BY DEF ClientUsable, Owned
<1>. HIDE DEF me, x, found, lacking, usable
<1>. QED
  BY <1>4, <1>7, <1>8, <1>9, <1>10, <1>11, Checks

LEMMA ReadServingStep == ASSUME IInv, NEW s \in Sessions, ReadServing(s) PROVE IInv'
<1>. DEFINE me == session[s]
            x == Serving(me.release, me.settings, me.home)
            none == x = None
            found == [me EXCEPT !.at = "render", !.left = me.missing, !.missing = {},
                        !.fresh = none, !.serving = ServingCA(x)]
<1>1. me.at = "clients" /\ me.left = {} /\ Here(s)
  BY AtHand DEF ReadServing
<1>2. /\ me.settings \in Profiles /\ me.release \in Releases /\ me.ca \in Nat /\ me.key \in Nat
      /\ me.missing \subseteq me.settings.namespaces /\ me.missing \subseteq Namespaces
      /\ me.cmd \in {"install", "combined"} /\ Home[me.release] \notin me.settings.namespaces
  BY <1>1 DEF Here, InHand, Chosen, Reading, Later, SessionState
<1>3. x # None => x \in Secret /\ x = secrets[ServingPlace(me.release, me.settings)]
  BY <1>2, PlaceTypes DEF IInv, TypeOK, Serving
<1>4. ServingCA(x) \in Nat
  BY <1>3 DEF IInv, TypeOK, ServingCA, Secret
<1>5. /\ found \in SessionState
      /\ found.at = "render" /\ found.left = me.missing /\ found.missing = {}
      /\ found.fresh = none /\ found.serving = ServingCA(x) /\ found.cmd = me.cmd
      /\ found.release = me.release /\ found.settings = me.settings
      /\ found.ca = me.ca /\ found.key = me.key
  <2>1. none \in BOOLEAN
    OBVIOUS
  <2>. HIDE DEF none, x
  <2>. QED
    BY <1>1, <1>2, <1>4, <2>1 DEF Here, SessionState, Locations
<1>6. Quiet
  <2>1. serial' \in Nat
    BY DEF ReadServing, IInv, TypeOK
  <2>. QED
    BY <2>1 DEF ReadServing, cluster, outside, Quiet, IInv, TypeOK
<1>7. CASE ~ServingUsable(me.release, x, me.settings, me.ca)
  BY <1>6, <1>7, Ends DEF ReadServing
<1>8. CASE ServingUsable(me.release, x, me.settings, me.ca)
  <2>1. ClientsHeld(found, secrets, rotated)
    BY <1>1, <1>5 DEF Here, InHand, Later, ClientsHeld
  <2>2. ~none => x = ServerOf(me.release, me.ca, ServingCA(x))
    BY <1>3, <1>8 DEF ServingUsable, Owned, ServerOf, ServingCA, Secret
  <2>3. ~found.fresh => ServerHeld(found, secrets, rotated)
    BY <1>3, <1>5, <2>2 DEF ServerHeld, Has
  <2>4. InHand(found, secrets, rotated, unreviewed)
    BY <1>2, <1>5, <2>1, <2>3 DEF InHand, Chosen, HasServing, Reading, Later, Installing
  <2>5. found.at \notin OfHelm /\ Fresh(found)
    BY <1>1, <1>5 DEF Here, Fresh, OfHelm, Later
  <2>6. Set(s, found)
    BY <1>8 DEF ReadServing
  <2>. HIDE DEF found
  <2>. QED
    BY <1>5, <1>6, <2>4, <2>5, <2>6, QuietStep
<1>. QED
  BY <1>7, <1>8

LEMMA RenderStep == ASSUME IInv, NEW s \in Sessions, Render(s) PROVE IInv'
<1>. DEFINE me == session[s]
            rendered == [me EXCEPT !.at = "namespace"]
            ok == Selectable(me.release, Manifest(me))
<1>1. me.at = "render" /\ Here(s)
  BY AtHand DEF Render
<1>2. /\ rendered \in SessionState /\ rendered.at \notin OfHelm /\ Fresh(rendered)
      /\ InHand(rendered, secrets, rotated, unreviewed)
  BY <1>1 DEF Here, SessionState, Locations, OfHelm, Fresh, InHand, Chosen, HasServing,
              ClientsHeld, ServerHeld, Reading, Later, Installing
<1>3. Check(s, ok, rendered) /\ ok \in BOOLEAN
  BY DEF Render, Selectable
<1>. HIDE DEF me, rendered, ok
<1>. QED
  BY <1>2, <1>3, Checks

LEMMA CreateNamespaceStep == ASSUME IInv, NEW s \in Sessions, CreateNamespace(s) PROVE IInv'
<1>. DEFINE me == session[s]
            created == [me EXCEPT !.at = "createServing"]
<1>1. me.at = "namespace" /\ Here(s)
  BY AtHand DEF CreateNamespace
<1>2. me.release \in Releases
  BY <1>1 DEF Here, InHand
<1>3. Quiet
  BY <1>2, ConstantsAssumption DEF CreateNamespace, outside, Quiet, IInv, TypeOK
<1>4. /\ created \in SessionState /\ created.at \notin OfHelm /\ Fresh(created)
      /\ InHand(created, secrets, rotated, unreviewed)
  BY <1>1 DEF Here, SessionState, Locations, OfHelm, Fresh, InHand, Chosen, HasServing,
              ClientsHeld, ServerHeld, Reading, Later, Installing
<1>5. Set(s, created) \/ End(s)
  BY DEF CreateNamespace, Goto
<1>. HIDE DEF me, created
<1>. QED
  BY <1>3, <1>4, <1>5, QuietStep, Ends

(* A Secret of the command's release, made for the gateway it read.        *)
LEMMA CreateStep ==
  ASSUME IInv, NEW s \in Sessions, NEW place \in Places, NEW secret \in Secret,
         NEW st \in SessionState, Create(s, place, secret, st),
         st.at = "createClients", Fresh(st),
         Absent(place) =>
           InHand(st, [secrets EXCEPT ![place] = secret], rotated, unreviewed),
         secret.role = "client" <=> place[1] # Home[secret.owner],
         admin = 0 => /\ gateway # None /\ secret.ca = gateway.ca
                      /\ secret.role = "client" => secret.key = gateway.key
  PROVE  IInv'
<1>1. CASE ~Absent(place)
  <2>1. Quiet
    BY <1>1 DEF Create, outside, Quiet, IInv, TypeOK
  <2>. QED
    BY <1>1, <2>1, Ends DEF Create
<1>2. CASE Absent(place)
  <2>1. /\ secrets' = [secrets EXCEPT ![place] = secret] /\ Set(s, st)
        /\ UNCHANGED <<profile, existing, gateway, helm, webhook, stable, serial, stale, runs,
                       admin, rotated, unreviewed>>
        /\ secrets[place] = None
    BY <1>2 DEF Create, Absent, outside
  <2>2. /\ secrets' \in [Places -> Secret \cup {None}]
        /\ secrets'[place] = secret
        /\ \A x \in Places \ {place} : secrets'[x] = secrets[x]
    BY <2>1 DEF IInv, TypeOK
  <2>3. Grows(secrets, secrets', rotated, rotated')
    BY <2>1, <2>2 DEF Grows
  <2>4. /\ session' \in [Sessions -> SessionState] /\ session'[s] = st
        /\ \A q \in Sessions \ {s} : session'[q] = session[q]
        /\ SessionsOK'
    <3>1. InHand(st, secrets', rotated', unreviewed')
      BY <1>2, <2>1
    <3>. QED
      BY <2>1, <2>3, <3>1, OneMoves
  <2>5. TypeOK'
    BY <2>1, <2>2, <2>4 DEF IInv, TypeOK
  <2>6. ScopesOK'
    <3>1. ASSUME NEW r \in Releases \ unreviewed, webhook[r] # None
          PROVE  Provisioned(r, webhook[r], secrets', rotated')
      BY <2>3, <3>1, ProvisionedGrows DEF IInv, TypeOK, ScopesOK
    <3>2. ASSUME NEW r \in Releases \ unreviewed, stable[r] # None
          PROVE  Provisioned(r, stable[r], secrets', rotated')
      BY <2>3, <3>2, ProvisionedGrows DEF IInv, TypeOK, ScopesOK
    <3>. QED
      BY <2>1, <3>1, <3>2 DEF ScopesOK
  <2>7. HelmOK'
    BY <2>1, <2>4 DEF IInv, HelmOK, OfHelm
  <2>8. RolesOK'
    BY <2>2 DEF IInv, RolesOK
  <2>9. MaterialOK'
    BY <2>1, <2>2, <2>4 DEF IInv, MaterialOK, Fresh, MadeFor
  <2>. QED
    BY <2>4, <2>5, <2>6, <2>7, <2>8, <2>9 DEF IInv
<1>. QED
  BY <1>1, <1>2

LEMMA CreateServingStep == ASSUME IInv, NEW s \in Sessions, CreateServing(s) PROVE IInv'
<1>. DEFINE me == session[s]
            created == [me EXCEPT !.at = "createClients"]
            place == ServingPlace(me.release, me.settings)
            secret == NewSecret(me.release, "server", me.ca, me.serving)
            sec == [secrets EXCEPT ![place] = secret]
<1>1. me.at = "createServing" /\ Here(s)
  BY AtHand DEF CreateServing
<1>2. /\ me.settings \in Profiles /\ me.release \in Releases
      /\ me.ca \in Nat /\ me.key \in Nat /\ me.serving \in Nat
      /\ me.cmd \in {"install", "combined"} /\ Home[me.release] \notin me.settings.namespaces
      /\ me.left \cup me.missing \subseteq me.settings.namespaces /\ me.missing = {}
      /\ ClientsHeld(me, secrets, rotated)
      /\ ~me.fresh => ServerHeld(me, secrets, rotated)
  BY <1>1 DEF Here, InHand, Chosen, HasServing, Reading, Later, Installing, SessionState
<1>3. /\ created \in SessionState
      /\ created.at = "createClients" /\ created.left = me.left /\ created.missing = me.missing
      /\ created.serving = me.serving /\ created.cmd = me.cmd
      /\ created.release = me.release /\ created.settings = me.settings
      /\ created.ca = me.ca /\ created.key = me.key
  BY <1>1 DEF Here, SessionState, Locations
<1>4. Fresh(created) /\ created.at \notin OfHelm
  BY <1>1, <1>3 DEF Here, Fresh, Later, OfHelm
<1>5. /\ place \in Places /\ place[1] = Home[me.release]
      /\ secret \in Secret /\ secret.role = "server" /\ secret.owner = me.release
      /\ secret.ca = me.ca /\ secret = ServerOf(me.release, me.ca, me.serving)
  BY <1>2, PlaceTypes DEF ServingPlace, NewSecret, Secret, ServerOf
<1>6. ASSUME NEW sec1, Grows(secrets, sec1, rotated, rotated), ServerHeld(created, sec1, rotated)
      PROVE  InHand(created, sec1, rotated, unreviewed)
  <2>1. ASSUME NEW n \in me.settings.namespaces \ (me.left \cup me.missing)
        PROVE  Has(ClientPlace(n, me.settings), ClientOf(me.release, me.ca, me.key), sec1, rotated)
    BY <1>2, <1>6, PlaceTypes, SecretTypes, HasGrows DEF ClientsHeld
  <2>2. ClientsHeld(created, sec1, rotated)
    BY <1>3, <2>1 DEF ClientsHeld
  <2>. QED
    BY <1>2, <1>3, <1>6, <2>2 DEF InHand, Chosen, HasServing, Reading, Later, Installing
<1>7. CASE ~me.fresh
  <2>1. Check(s, TRUE, created)
    BY <1>7 DEF CreateServing
  <2>2. ServerHeld(created, secrets, rotated)
    BY <1>2, <1>3, <1>7 DEF ServerHeld
  <2>. HIDE DEF created, me
  <2>. QED
    BY <1>3, <1>4, <1>6, <2>1, <2>2, NoGrowth, Checks
<1>8. CASE me.fresh
  <2>1. Create(s, place, secret, created)
    BY <1>8 DEF CreateServing
  <2>2. Absent(place) => InHand(created, sec, rotated, unreviewed)
    <3>. SUFFICES ASSUME Absent(place) PROVE InHand(created, sec, rotated, unreviewed)
      OBVIOUS
    <3>1. sec[place] = secret /\ \A x \in Places \ {place} : sec[x] = secrets[x]
      BY <1>5 DEF IInv, TypeOK
    <3>2. Grows(secrets, sec, rotated, rotated)
      BY <3>1 DEF Grows, Absent
    <3>3. ServerHeld(created, sec, rotated)
      BY <1>3, <1>5, <3>1 DEF ServerHeld, Has
    <3>. HIDE DEF created, sec
    <3>. QED
      BY <1>6, <3>2, <3>3
  <2>3. admin = 0 => gateway # None /\ secret.ca = gateway.ca
    BY <1>1, <1>5 DEF Here, Fresh, MadeFor, Later
  <2>. HIDE DEF me, created, place, secret
  <2>. QED
    BY <1>3, <1>4, <1>5, <2>1, <2>2, <2>3, CreateStep
<1>. QED
  BY <1>7, <1>8

LEMMA CreateClientStep == ASSUME IInv, NEW s \in Sessions, CreateClient(s) PROVE IInv'
<1>. DEFINE me == session[s]
<1>1. me.at = "createClients" /\ Here(s)
  BY AtHand DEF CreateClient
<1>2. PICK n \in me.left :
        Create(s, ClientPlace(n, me.settings),
               NewSecret(me.release, "client", me.ca, me.key), [me EXCEPT !.left = @ \ {n}])
  BY DEF CreateClient
<1>. DEFINE created == [me EXCEPT !.left = @ \ {n}]
            place == ClientPlace(n, me.settings)
            secret == NewSecret(me.release, "client", me.ca, me.key)
            sec == [secrets EXCEPT ![place] = secret]
<1>3. /\ me.settings \in Profiles /\ me.release \in Releases
      /\ me.ca \in Nat /\ me.key \in Nat /\ me.serving \in Nat
      /\ me.cmd \in {"install", "combined"} /\ Home[me.release] \notin me.settings.namespaces
      /\ me.left \cup me.missing \subseteq me.settings.namespaces /\ me.missing = {}
      /\ ClientsHeld(me, secrets, rotated) /\ ServerHeld(me, secrets, rotated)
  BY <1>1 DEF Here, InHand, Chosen, HasServing, Reading, Later, Installing, SessionState
<1>4. /\ created \in SessionState
      /\ created.at = "createClients" /\ created.left = me.left \ {n} /\ created.missing = me.missing
      /\ created.serving = me.serving /\ created.cmd = me.cmd
      /\ created.release = me.release /\ created.settings = me.settings
      /\ created.ca = me.ca /\ created.key = me.key
  BY <1>1 DEF Here, SessionState
<1>5. Fresh(created)
  BY <1>1, <1>4 DEF Here, Fresh, Later
<1>6. /\ place \in Places /\ place[1] = n /\ n # Home[me.release]
      /\ secret \in Secret /\ secret.role = "client" /\ secret.owner = me.release
      /\ secret.ca = me.ca /\ secret.key = me.key
      /\ secret = ClientOf(me.release, me.ca, me.key)
  BY <1>3, PlaceTypes DEF ClientPlace, NewSecret, Secret, ClientOf
<1>7. Absent(place) => InHand(created, sec, rotated, unreviewed)
  <2>. SUFFICES ASSUME Absent(place) PROVE InHand(created, sec, rotated, unreviewed)
    OBVIOUS
  <2>1. sec[place] = secret /\ \A x \in Places \ {place} : sec[x] = secrets[x]
    BY <1>6 DEF IInv, TypeOK
  <2>2. Grows(secrets, sec, rotated, rotated)
    BY <2>1 DEF Grows, Absent
  <2>. HIDE DEF sec
  <2>3. ServerHeld(created, sec, rotated)
    BY <1>3, <1>4, <2>2, PlaceTypes, SecretTypes, HasGrows DEF ServerHeld
  <2>4. ASSUME NEW k \in me.settings.namespaces \ (me.left \cup me.missing)
        PROVE  Has(ClientPlace(k, me.settings), ClientOf(me.release, me.ca, me.key), sec, rotated)
    BY <1>3, <2>2, PlaceTypes, SecretTypes, HasGrows DEF ClientsHeld
  <2>5. Has(ClientPlace(n, me.settings), ClientOf(me.release, me.ca, me.key), sec, rotated)
    BY <1>6, <2>1 DEF Has
  <2>6. ClientsHeld(created, sec, rotated)
    BY <1>4, <2>4, <2>5 DEF ClientsHeld
  <2>. QED
    BY <1>3, <1>4, <2>3, <2>6 DEF InHand, Chosen, HasServing, Reading, Later, Installing
<1>8. admin = 0 => gateway # None /\ secret.ca = gateway.ca /\ secret.key = gateway.key
  BY <1>1, <1>6 DEF Here, Fresh, MadeFor, Later
<1>9. Create(s, place, secret, created)
  BY <1>2
<1>. HIDE DEF me, created, place, secret
<1>. QED
  BY <1>4, <1>5, <1>6, <1>7, <1>8, <1>9, CreateStep

LEMMA ReconcileCoreStep == ASSUME IInv, NEW s \in Sessions, ReconcileCore(s) PROVE IInv'
<1>. DEFINE me == session[s]
            reconciled == [me EXCEPT !.at = "inventory"]
<1>1. me.at = "core" /\ Here(s) /\ Set(s, reconciled)
  BY AtHand DEF ReconcileCore, Goto
<1>2. UNCHANGED <<profile, existing, secrets, helm, webhook, stable, serial, stale, runs, admin,
                  rotated, unreviewed>>
  BY DEF ReconcileCore, outside
<1>3. me.settings \in Profiles /\ me.settings.namespaces \subseteq Namespaces
  BY <1>1, ConstantsAssumption DEF Here, InHand, Chosen, Reading, Profile
<1>4. PICK authorised \in {me.settings.namespaces, Namespaces} :
        gateway' = IF gateway = None
                   THEN [ca |-> 1, key |-> 1, namespaces |-> authorised]
                   ELSE [gateway EXCEPT !.namespaces = authorised]
  BY DEF ReconcileCore
<1>5. gateway' \in Gateway /\ (gateway # None => gateway'.ca = gateway.ca /\ gateway'.key = gateway.key)
  BY <1>3, <1>4 DEF IInv, TypeOK, Gateway
<1>6. /\ reconciled \in SessionState /\ reconciled.at \notin OfHelm \cup Later
      /\ InHand(reconciled, secrets, rotated, unreviewed)
  BY <1>1 DEF Here, SessionState, Locations, OfHelm, InHand, Chosen, HasServing,
              Reading, Later, Installing
<1>7. /\ session' \in [Sessions -> SessionState] /\ session'[s] = reconciled
      /\ \A q \in Sessions \ {s} : session'[q] = session[q]
      /\ SessionsOK'
  <2>. HIDE DEF reconciled
  <2>. QED
    BY <1>1, <1>2, <1>6, NoGrowth, OneMoves
<1>. HIDE DEF me, reconciled
<1>8. TypeOK' /\ ScopesOK' /\ RolesOK'
  BY <1>2, <1>5, <1>7 DEF IInv, TypeOK, ScopesOK, RolesOK
<1>9. HelmOK'
  <2>1. "wait" \in OfHelm /\ "purge" \in OfHelm
    BY DEF OfHelm
  <2>. QED
    BY <1>2, <1>6, <1>7, <2>1 DEF IInv, HelmOK
<1>10. MaterialOK'
  <2>1. gateway' # None
    BY <1>5, ConstantsAssumption
  <2>. QED
    BY <1>2, <1>5, <1>6, <1>7, <2>1 DEF IInv, MaterialOK, MadeFor
<1>. QED
  BY <1>7, <1>8, <1>9, <1>10 DEF IInv

-----------------------------------------------------------------------------
(* Helm's steps.                                                           *)
LEMMA StartHelmStep == ASSUME IInv, NEW s \in Sessions, StartHelm(s) PROVE IInv'
<1>. DEFINE me == session[s]
            r == me.release
            refused == helm[r] = "pending" \/ ~Selectable(r, Manifest(me))
            started == [me EXCEPT !.at = "apply", !.settings = Manifest(me)]
<1>1. me.at = "createClients" /\ me.left = {} /\ Here(s)
  BY AtHand DEF StartHelm, AllCreated
<1>2. /\ me.settings \in Profiles /\ r \in Releases /\ me.missing = {}
      /\ me.cmd \in {"install", "combined"}
      /\ ClientsHeld(me, secrets, rotated) /\ ServerHeld(me, secrets, rotated)
  BY <1>1 DEF Here, InHand, Chosen, HasServing, Reading, Later, Installing
<1>3. UNCHANGED <<profile, existing, secrets, gateway, webhook, stable, serial, stale, runs,
                  admin, rotated>>
  BY DEF StartHelm, outside
<1>4. CASE refused
  <2>1. End(s) /\ UNCHANGED <<helm, unreviewed>>
    BY <1>4 DEF StartHelm
  <2>2. Quiet
    BY <1>3, <2>1 DEF Quiet, IInv, TypeOK
  <2>. QED
    BY <2>1, <2>2, Ends
<1>5. CASE ~refused
  <2>1. /\ helm' = [helm EXCEPT ![r] = "pending"] /\ helm[r] # "pending"
        /\ unreviewed' = IF Changed(me) THEN unreviewed \cup {r} ELSE unreviewed
        /\ Set(s, started)
    BY <1>5 DEF StartHelm
  <2>2. Manifest(me) \in Profiles /\ (~Changed(me) => Manifest(me) = me.settings)
    BY <1>2 DEF Manifest, Changed, IInv, TypeOK
  <2>3. /\ started \in SessionState
        /\ started.at = "apply" /\ started.settings = Manifest(me)
        /\ started.left = me.left /\ started.missing = me.missing
        /\ started.serving = me.serving /\ started.cmd = me.cmd /\ started.release = r
        /\ started.ca = me.ca /\ started.key = me.key
    BY <1>1, <2>2 DEF Here, SessionState, Locations
  <2>4. r \notin unreviewed' => ClientsHeld(started, secrets, rotated) /\ ServerHeld(started, secrets, rotated)
    BY <1>2, <2>1, <2>2, <2>3 DEF ClientsHeld, ServerHeld
  <2>5. InHand(started, secrets, rotated, unreviewed')
    BY <1>1, <1>2, <2>2, <2>3, <2>4 DEF InHand, Chosen, HasServing, Reading, Later, Installing
  <2>6. unreviewed \subseteq unreviewed' /\ unreviewed' \subseteq Releases
    BY <1>2, <2>1 DEF IInv, TypeOK
  <2>7. /\ session' \in [Sessions -> SessionState] /\ session'[s] = started
        /\ \A q \in Sessions \ {s} : session'[q] = session[q]
        /\ SessionsOK'
    <3>. HIDE DEF started
    <3>1. Grows(secrets, secrets', rotated, rotated')
      BY <1>3 DEF Grows
    <3>. QED
      BY <1>3, <2>1, <2>3, <2>5, <2>6, <3>1, OneMoves
  <2>8. Fresh(started)
    BY <1>1, <2>3 DEF Here, Fresh, Later
  <2>. HIDE DEF started
  <2>9. TypeOK'
    BY <1>3, <2>1, <2>6, <2>7 DEF IInv, TypeOK
  <2>10. ScopesOK' /\ RolesOK'
    BY <1>3, <2>6 DEF IInv, ScopesOK, RolesOK
  <2>11. HelmOK'
    <3>1. helm \in [Releases -> {"absent", "pending", "deployed"}]
      BY DEF IInv, TypeOK
    <3>2. ASSUME NEW q \in Sessions \ {s}, session[q].at \in OfHelm
          PROVE  session[q].release \in Releases \ {r}
      BY <2>1, <3>2 DEF IInv, HelmOK, SessionsOK, InHand, OfHelm
    <3>3. helm'[r] = "pending" /\ \A q \in Releases \ {r} : helm'[q] = helm[q]
      BY <1>2, <2>1, <3>1
    <3>4. "apply" \in OfHelm /\ "wait" \in OfHelm /\ "purge" \in OfHelm
      BY DEF OfHelm
    <3>5. \A q \in Sessions :
            /\ session'[q].at \in OfHelm =>
                 /\ helm'[session'[q].release] = "pending"
                 /\ \A k \in Sessions \ {q} :
                      session'[k].release = session'[q].release => session'[k].at \notin OfHelm
            /\ session'[q].at = "wait" => webhook'[session'[q].release] # None
            /\ session'[q].at = "purge" => webhook'[session'[q].release] = None
      BY <1>3, <2>3, <2>7, <3>2, <3>3, <3>4 DEF IInv, HelmOK
    <3>6. \A q \in Releases : helm'[q] = "deployed" => webhook'[q] # None
      BY <1>3, <3>3 DEF IInv, HelmOK
    <3>. HIDE DEF r, me
    <3>. QED
      BY <3>5, <3>6 DEF HelmOK
  <2>12. MaterialOK'
    BY <1>3, <2>7, <2>8 DEF IInv, MaterialOK, Fresh, MadeFor
  <2>. QED
    BY <2>7, <2>9, <2>10, <2>11, <2>12 DEF IInv
<1>. QED
  BY <1>4, <1>5

(* A step of a Helm operation on one release: its objects, its status and  *)
(* its last revision change, and nothing of another release.               *)
HelmStep(s, r, st) ==
  /\ UNCHANGED <<profile, existing, secrets, gateway, serial, stale, runs, admin, rotated>>
  /\ Set(s, st)
  /\ \A q \in Releases \ {r} :
       helm'[q] = helm[q] /\ webhook'[q] = webhook[q] /\ stable'[q] = stable[q]
  /\ unreviewed' \in {unreviewed, unreviewed \ {r}}

LEMMA HelmStepOK ==
  ASSUME IInv, NEW s \in Sessions, NEW r \in Releases, NEW st \in SessionState,
         HelmStep(s, r, st), Fresh(st),
         InHand(st, secrets, rotated, unreviewed'),
         \A q \in Sessions \ {s} :
           session[q].release = r => session[q].at \notin OfHelm,
         st.at \in OfHelm => st.release = r /\ helm'[r] = "pending",
         st.at = "wait" => webhook'[r] # None,
         st.at = "purge" => webhook'[r] = None,
         helm'[r] = "deployed" => webhook'[r] # None,
         helm' \in [Releases -> {"absent", "pending", "deployed"}],
         webhook' \in [Releases -> Scope \cup {None}],
         stable' \in [Releases -> Scope \cup {None}],
         r \notin unreviewed' =>
           /\ webhook'[r] # None => Provisioned(r, webhook'[r], secrets, rotated)
           /\ stable'[r] # None => Provisioned(r, stable'[r], secrets, rotated)
  PROVE  IInv'
<1>1. /\ session' \in [Sessions -> SessionState] /\ session'[s] = st
      /\ \A q \in Sessions \ {s} : session'[q] = session[q]
      /\ SessionsOK'
  <2>1. Grows(secrets, secrets', rotated, rotated')
    BY DEF HelmStep, Grows
  <2>2. \A q \in Sessions \ {s} :
          session[q].at \in {"apply", "wait"} /\ session[q].release \notin unreviewed' =>
            session[q].release \notin unreviewed
    BY DEF HelmStep, OfHelm
  <2>. QED
    BY <2>1, <2>2, OneMoves DEF HelmStep
<1>2. TypeOK'
  BY <1>1 DEF HelmStep, IInv, TypeOK
<1>3. ScopesOK'
  BY DEF HelmStep, IInv, ScopesOK
<1>4. RolesOK'
  BY DEF HelmStep, IInv, RolesOK
<1>5. HelmOK'
  <2>1. ASSUME NEW q \in Sessions \ {s}, session[q].at \in OfHelm
        PROVE  session[q].release \in Releases \ {r}
    BY <2>1 DEF IInv, SessionsOK, InHand, OfHelm
  <2>2. "wait" \in OfHelm /\ "purge" \in OfHelm
    BY DEF OfHelm
  <2>3. \A q \in Sessions :
          /\ session'[q].at \in OfHelm =>
               /\ helm'[session'[q].release] = "pending"
               /\ \A k \in Sessions \ {q} :
                    session'[k].release = session'[q].release => session'[k].at \notin OfHelm
          /\ session'[q].at = "wait" => webhook'[session'[q].release] # None
          /\ session'[q].at = "purge" => webhook'[session'[q].release] = None
    BY <1>1, <2>1, <2>2 DEF HelmStep, IInv, HelmOK
  <2>4. \A q \in Releases : helm'[q] = "deployed" => webhook'[q] # None
    BY DEF HelmStep, IInv, HelmOK
  <2>. QED
    BY <2>3, <2>4 DEF HelmOK
<1>6. MaterialOK'
  BY <1>1 DEF HelmStep, IInv, MaterialOK, Fresh, MadeFor
<1>. QED
  BY <1>1, <1>2, <1>3, <1>4, <1>5, <1>6 DEF IInv

(* The command that holds the release in Helm.                             *)
LEMMA InHelm ==
  ASSUME IInv, NEW s \in Sessions, session[s].at \in OfHelm
  PROVE  /\ session[s].release \in Releases /\ helm[session[s].release] = "pending"
         /\ \A q \in Sessions \ {s} :
              session[q].release = session[s].release => session[q].at \notin OfHelm
BY DEF IInv, HelmOK, SessionsOK, InHand, OfHelm

LEMMA BlankHand ==
  ASSUME NEW unr
  PROVE  /\ Blank \in SessionState /\ Fresh(Blank) /\ Blank.at = "idle"
         /\ InHand(Blank, secrets, rotated, unr)
BY DEF InHand, Blank, Chosen, HasServing, Reading, Later, Installing, Fresh,
       SessionState, Locations, Commands

LEMMA ApplyStep == ASSUME IInv, NEW s \in Sessions, Apply(s) PROVE IInv'
<1>. DEFINE me == session[s]
            r == me.release
            sc == ScopeOf(me.settings, me.serving)
            applied == [me EXCEPT !.at = "wait"]
<1>1. me.at = "apply" /\ me.at \in OfHelm /\ Here(s)
  BY AtHand DEF Apply, OfHelm
<1>2. /\ r \in Releases /\ helm[r] = "pending"
      /\ \A q \in Sessions \ {s} : session[q].release = r => session[q].at \notin OfHelm
  BY <1>1, InHelm
<1>3. /\ me.settings \in Profiles /\ me.ca \in Nat /\ me.key \in Nat /\ me.serving \in Nat
      /\ me.left = {} /\ me.missing = {}
      /\ r \notin unreviewed => ClientsHeld(me, secrets, rotated) /\ ServerHeld(me, secrets, rotated)
  BY <1>1 DEF Here, InHand, Chosen, HasServing, Reading, Later, Installing, SessionState
<1>4. sc \in Scope /\ sc.client = me.settings.client /\ sc.serving = me.settings.serving
      /\ sc.ca = me.serving /\ sc.namespaces \subseteq me.settings.namespaces
  BY <1>3, ConstantsAssumption DEF ScopeOf, Scope, Profile
<1>5. r \notin unreviewed => Provisioned(r, sc, secrets, rotated)
  <2>. SUFFICES ASSUME r \notin unreviewed PROVE Provisioned(r, sc, secrets, rotated)
    OBVIOUS
  <2>1. \A n \in sc.namespaces : Has(<<n, sc.client>>, ClientOf(r, me.ca, me.key), secrets, rotated)
    BY <1>3, <1>4 DEF ClientsHeld, ClientPlace
  <2>2. Has(<<Home[r], sc.serving>>, ServerOf(r, me.ca, sc.ca), secrets, rotated)
    BY <1>3, <1>4 DEF ServerHeld, ServingPlace
  <2>. QED
    BY <1>3, <2>1, <2>2 DEF Provisioned
<1>6. /\ applied \in SessionState /\ applied.at = "wait" /\ applied.release = r
      /\ InHand(applied, secrets, rotated, unreviewed) /\ Fresh(applied)
  BY <1>1 DEF Here, SessionState, Locations, InHand, Chosen, HasServing, ClientsHeld, ServerHeld,
              Reading, Later, Installing, Fresh
<1>7. webhook' = [webhook EXCEPT ![r] = sc] /\ Set(s, applied)
  BY DEF Apply, Goto
<1>8. UNCHANGED <<profile, existing, secrets, gateway, serial, stale, runs, admin, rotated,
                  helm, stable, unreviewed>>
  BY DEF Apply, outside
<1>9. /\ webhook \in [Releases -> Scope \cup {None}] /\ stable \in [Releases -> Scope \cup {None}]
      /\ helm \in [Releases -> {"absent", "pending", "deployed"}]
      /\ r \notin unreviewed => (stable[r] # None => Provisioned(r, stable[r], secrets, rotated))
  BY <1>2 DEF IInv, TypeOK, ScopesOK
<1>. HIDE DEF sc, applied, r
<1>10. webhook'[r] = sc /\ webhook' \in [Releases -> Scope \cup {None}] /\ sc # None
       /\ \A q \in Releases \ {r} : webhook'[q] = webhook[q]
  BY <1>2, <1>4, <1>7, <1>9, ConstantsAssumption
<1>11. HelmStep(s, r, applied)
  BY <1>7, <1>8, <1>10 DEF HelmStep
<1>. QED
  BY <1>2, <1>5, <1>6, <1>8, <1>9, <1>10, <1>11, HelmStepOK

LEMMA DeployedStep == ASSUME IInv, NEW s \in Sessions, Deployed(s) PROVE IInv'
<1>. DEFINE r == session[s].release
<1>1. session[s].at = "wait" /\ session[s].at \in OfHelm
  BY DEF Deployed, OfHelm
<1>2. /\ r \in Releases /\ webhook[r] # None
      /\ \A q \in Sessions \ {s} : session[q].release = r => session[q].at \notin OfHelm
  BY <1>1, InHelm DEF IInv, HelmOK
<1>3. /\ webhook \in [Releases -> Scope \cup {None}] /\ stable \in [Releases -> Scope \cup {None}]
      /\ helm \in [Releases -> {"absent", "pending", "deployed"}]
      /\ r \notin unreviewed => Provisioned(r, webhook[r], secrets, rotated)
  BY <1>2 DEF IInv, TypeOK, ScopesOK
<1>4. /\ helm' = [helm EXCEPT ![r] = "deployed"] /\ stable' = [stable EXCEPT ![r] = webhook[r]]
      /\ Set(s, Blank)
      /\ UNCHANGED <<profile, existing, secrets, gateway, serial, stale, runs, admin, rotated,
                     webhook, unreviewed>>
  BY DEF Deployed, outside, End
<1>. HIDE DEF r
<1>5. /\ stable'[r] = webhook[r] /\ stable' \in [Releases -> Scope \cup {None}]
      /\ helm' \in [Releases -> {"absent", "pending", "deployed"}]
      /\ \A q \in Releases \ {r} : stable'[q] = stable[q] /\ helm'[q] = helm[q]
  BY <1>2, <1>3, <1>4
<1>6. HelmStep(s, r, Blank)
  BY <1>4, <1>5 DEF HelmStep
<1>. QED
  BY <1>2, <1>3, <1>4, <1>5, <1>6, BlankHand, HelmStepOK DEF OfHelm

LEMMA RolledBackStep == ASSUME IInv, NEW s \in Sessions, RolledBack(s) PROVE IInv'
<1>. DEFINE r == session[s].release
<1>1. session[s].at \in OfHelm
  BY DEF RolledBack, OfHelm
<1>2. /\ r \in Releases
      /\ \A q \in Sessions \ {s} : session[q].release = r => session[q].at \notin OfHelm
  BY <1>1, InHelm
<1>3. /\ webhook \in [Releases -> Scope \cup {None}] /\ stable \in [Releases -> Scope \cup {None}]
      /\ helm \in [Releases -> {"absent", "pending", "deployed"}]
      /\ r \notin unreviewed => (stable[r] # None => Provisioned(r, stable[r], secrets, rotated))
  BY <1>2 DEF IInv, TypeOK, ScopesOK
<1>4. /\ webhook' = [webhook EXCEPT ![r] = stable[r]]
      /\ helm' = [helm EXCEPT ![r] = IF stable[r] = None THEN "absent" ELSE "deployed"]
      /\ Set(s, Blank)
      /\ UNCHANGED <<profile, existing, secrets, gateway, serial, stale, runs, admin, rotated,
                     stable, unreviewed>>
  BY DEF RolledBack, outside, End
<1>. HIDE DEF r
<1>5. /\ webhook'[r] = stable[r] /\ webhook' \in [Releases -> Scope \cup {None}]
      /\ helm' \in [Releases -> {"absent", "pending", "deployed"}]
      /\ helm'[r] = "deployed" => stable[r] # None
      /\ \A q \in Releases \ {r} : webhook'[q] = webhook[q] /\ helm'[q] = helm[q]
  BY <1>2, <1>3, <1>4
<1>6. HelmStep(s, r, Blank)
  BY <1>4, <1>5 DEF HelmStep
<1>. QED
  BY <1>2, <1>3, <1>4, <1>5, <1>6, BlankHand, HelmStepOK DEF OfHelm

LEMMA DeleteObjectsStep == ASSUME IInv, NEW s \in Sessions, DeleteObjects(s) PROVE IInv'
<1>. DEFINE me == session[s]
            r == me.release
            deleted == [me EXCEPT !.at = "purge"]
<1>1. me.at = "uninstall" /\ HelmFree(r) /\ Here(s)
  BY AtHand DEF DeleteObjects
<1>2. /\ r \in Releases
      /\ \A q \in Sessions \ {s} : session[q].release = r => session[q].at \notin OfHelm
  BY <1>1 DEF Here, InHand, HelmFree, OfHelm
<1>3. /\ webhook \in [Releases -> Scope \cup {None}] /\ stable \in [Releases -> Scope \cup {None}]
      /\ helm \in [Releases -> {"absent", "pending", "deployed"}]
      /\ r \notin unreviewed => (stable[r] # None => Provisioned(r, stable[r], secrets, rotated))
  BY <1>2 DEF IInv, TypeOK, ScopesOK
<1>4. /\ webhook' = [webhook EXCEPT ![r] = None] /\ helm' = [helm EXCEPT ![r] = "pending"]
      /\ Set(s, deleted)
      /\ UNCHANGED <<profile, existing, secrets, gateway, serial, stale, runs, admin, rotated,
                     stable, unreviewed>>
  BY DEF DeleteObjects, Goto, outside
<1>5. /\ deleted \in SessionState /\ deleted.at = "purge" /\ deleted.release = r
      /\ InHand(deleted, secrets, rotated, unreviewed) /\ Fresh(deleted)
  BY <1>1 DEF Here, SessionState, Locations, InHand, Chosen, HasServing, Reading, Later,
              Installing, Fresh
<1>. HIDE DEF r, deleted
<1>6. /\ webhook'[r] = None /\ webhook' \in [Releases -> Scope \cup {None}]
      /\ helm' \in [Releases -> {"absent", "pending", "deployed"}] /\ helm'[r] = "pending"
      /\ \A q \in Releases \ {r} : webhook'[q] = webhook[q] /\ helm'[q] = helm[q]
  BY <1>2, <1>3, <1>4
<1>7. HelmStep(s, r, deleted)
  BY <1>4, <1>6 DEF HelmStep
<1>. QED
  BY <1>2, <1>3, <1>4, <1>5, <1>6, <1>7, HelmStepOK DEF OfHelm

LEMMA PurgeStep == ASSUME IInv, NEW s \in Sessions, Purge(s) PROVE IInv'
<1>. DEFINE r == session[s].release
<1>1. session[s].at = "purge" /\ session[s].at \in OfHelm
  BY DEF Purge, OfHelm
<1>2. /\ r \in Releases /\ webhook[r] = None
      /\ \A q \in Sessions \ {s} : session[q].release = r => session[q].at \notin OfHelm
  BY <1>1, InHelm DEF IInv, HelmOK
<1>3. /\ webhook \in [Releases -> Scope \cup {None}] /\ stable \in [Releases -> Scope \cup {None}]
      /\ helm \in [Releases -> {"absent", "pending", "deployed"}]
  BY DEF IInv, TypeOK
<1>4. /\ helm' = [helm EXCEPT ![r] = "absent"] /\ stable' = [stable EXCEPT ![r] = None]
      /\ unreviewed' = unreviewed \ {r} /\ Set(s, Blank)
      /\ UNCHANGED <<profile, existing, secrets, gateway, serial, stale, runs, admin, rotated, webhook>>
  BY DEF Purge, outside, End
<1>. HIDE DEF r
<1>5. /\ stable'[r] = None /\ stable' \in [Releases -> Scope \cup {None}]
      /\ helm' \in [Releases -> {"absent", "pending", "deployed"}] /\ helm'[r] = "absent"
      /\ \A q \in Releases \ {r} : stable'[q] = stable[q] /\ helm'[q] = helm[q]
  BY <1>2, <1>3, <1>4
<1>6. HelmStep(s, r, Blank)
  BY <1>4, <1>5 DEF HelmStep
<1>. QED
  BY <1>2, <1>3, <1>4, <1>5, <1>6, BlankHand, HelmStepOK DEF OfHelm

-----------------------------------------------------------------------------
LEMMA AdministerStep == ASSUME IInv, Administer PROVE IInv'
<1>1. /\ UNCHANGED <<existing, helm, webhook, stable, serial, session, runs, unreviewed>>
      /\ admin' = admin + 1
  BY DEF Administer
<1>2. /\ profile' \in [Releases -> Profiles] /\ secrets' \in [Places -> Secret \cup {None}]
      /\ gateway' \in Gateway \cup {None} /\ stale' \subseteq Nat /\ rotated' \subseteq Places
      /\ Grows(secrets, secrets', rotated, rotated')
      /\ \A x \in Places : secrets'[x] # None => secrets'[x] = secrets[x]
  <2>1. CASE EditProfile
    BY <2>1 DEF EditProfile, IInv, TypeOK, Grows
  <2>2. CASE RotateGateway
    <3>1. gateway \in Gateway
      BY <2>2 DEF RotateGateway, IInv, TypeOK
    <3>2. PICK ca \in {gateway.ca, gateway.ca + 1} :
            gateway' = [gateway EXCEPT !.ca = ca, !.key = @ + 1]
      BY <2>2 DEF RotateGateway
    <3>3. ca \in Nat /\ gateway.key + 1 \in Nat /\ gateway.namespaces \in SUBSET Namespaces
      BY <3>1 DEF Gateway
    <3>4. gateway' = [ca |-> ca, key |-> gateway.key + 1, namespaces |-> gateway.namespaces]
      BY <3>1, <3>2 DEF Gateway
    <3>5. gateway' \in Gateway
      BY <3>3, <3>4 DEF Gateway
    <3>. QED
      BY <2>2, <3>5 DEF RotateGateway, IInv, TypeOK, Grows
  <2>3. CASE RemoveSecret
    <3>1. PICK x \in Places :
            secrets' = [secrets EXCEPT ![x] = None] /\ rotated' = rotated \cup {x}
      BY <2>3 DEF RemoveSecret
    <3>2. /\ secrets' \in [Places -> Secret \cup {None}] /\ secrets'[x] = None
          /\ \A y \in Places \ {x} : secrets'[y] = secrets[y]
      BY <3>1 DEF IInv, TypeOK
    <3>. QED
      BY <2>3, <3>1, <3>2 DEF RemoveSecret, IInv, TypeOK, Grows
  <2>4. CASE Age
    BY <2>4 DEF Age, IInv, TypeOK, Grows
  <2>. QED
    BY <2>1, <2>2, <2>3, <2>4 DEF Administer
<1>3. TypeOK'
  BY <1>1, <1>2 DEF IInv, TypeOK
<1>4. SessionsOK'
  <2>1. ASSUME NEW q \in Sessions PROVE InHand(session[q], secrets', rotated', unreviewed)
    <3>1. session[q] \in SessionState /\ InHand(session[q], secrets, rotated, unreviewed)
      BY DEF IInv, TypeOK, SessionsOK
    <3>. QED
      BY <1>2, <3>1, InHandGrows
  <2>. QED
    BY <1>1, <2>1 DEF SessionsOK
<1>5. ScopesOK'
  <2>1. ASSUME NEW r \in Releases \ unreviewed, webhook[r] # None
        PROVE  Provisioned(r, webhook[r], secrets', rotated')
    BY <1>2, <2>1, ProvisionedGrows DEF IInv, TypeOK, ScopesOK
  <2>2. ASSUME NEW r \in Releases \ unreviewed, stable[r] # None
        PROVE  Provisioned(r, stable[r], secrets', rotated')
    BY <1>2, <2>2, ProvisionedGrows DEF IInv, TypeOK, ScopesOK
  <2>. QED
    BY <1>1, <2>1, <2>2 DEF ScopesOK
<1>6. HelmOK'
  BY <1>1 DEF IInv, HelmOK
<1>7. RolesOK'
  BY <1>2 DEF IInv, RolesOK
<1>8. MaterialOK'
  BY <1>1 DEF IInv, TypeOK, MaterialOK
<1>. QED
  BY <1>3, <1>4, <1>5, <1>6, <1>7, <1>8 DEF IInv

LEMMA StutterStep == ASSUME IInv, UNCHANGED vars PROVE IInv'
<1>. USE DEF vars
<1>1. TypeOK' /\ SessionsOK' /\ ScopesOK'
  BY DEF IInv, TypeOK, SessionsOK, ScopesOK
<1>2. HelmOK' /\ RolesOK' /\ MaterialOK'
  BY DEF IInv, HelmOK, RolesOK, MaterialOK, MadeFor
<1>. QED
  BY <1>1, <1>2 DEF IInv

LEMMA NextStep == ASSUME IInv, Next PROVE IInv'
<1>1. ASSUME NEW s \in Sessions, Preflight(s) PROVE IInv'
  BY <1>1, ReadInventoryStep, ReadClaimsStep, ReadTargetsStep, ReadSourceStep, ReadClientStep,
     ReadServingStep DEF Preflight
<1>2. ASSUME NEW s \in Sessions, Install(s) PROVE IInv'
  BY <1>2, RenderStep, CreateNamespaceStep, CreateServingStep, CreateClientStep, StartHelmStep
     DEF Install
<1>3. ASSUME NEW s \in Sessions, Helm(s) PROVE IInv'
  BY <1>3, ApplyStep, DeployedStep, RolledBackStep, DeleteObjectsStep, PurgeStep DEF Helm
<1>. QED
  BY <1>1, <1>2, <1>3, StartStep, ReconcileCoreStep, InterruptedStep, AdministerStep DEF Next

THEOREM Inductive == Spec => []IInv
<1>1. IInv /\ [Next]_vars => IInv'
  BY NextStep, StutterStep
<1>. QED
  BY Initially, <1>1, PTL DEF Spec

-----------------------------------------------------------------------------
(* What follows from the invariant.                                        *)

(* Types hold for every number of terminals, releases and namespaces.      *)
THEOREM TypeCorrect == Spec => []TypeOK
<1>1. IInv => TypeOK
  BY DEF IInv
<1>. QED
  BY Inductive, <1>1, PTL

LEMMA ReviewedIsProvisioned ==
  ASSUME IInv, NEW r \in Reviewed
  PROVE  /\ webhook[r] \in Scope
         /\ \E ca, key \in Nat :
              /\ \A x \in Clients(webhook[r]) : secrets[x] = ClientOf(r, ca, key)
              /\ \A x \in Server(r, webhook[r]) : secrets[x] = ServerOf(r, ca, webhook[r].ca)
<1>1. webhook[r] \in Scope /\ Provisioned(r, webhook[r], secrets, rotated)
  BY DEF IInv, TypeOK, ScopesOK, Reviewed
<1>. QED
  BY <1>1 DEF Provisioned, Has, Clients, Server

(* The client Secrets of a webhook's scope are there and its own, however  *)
(* commands interleave, stop and are run again.                            *)
THEOREM ScopesAreProvisioned == Spec => []InjectedPodsCanMount
<1>1. IInv => InjectedPodsCanMount
  <2>. SUFFICES ASSUME IInv, NEW r \in Reviewed, NEW x \in Clients(webhook[r])
       PROVE  secrets[x] # None /\ secrets[x].owner = r /\ secrets[x].role = "client"
    BY DEF InjectedPodsCanMount
  <2>1. PICK ca, key \in Nat : secrets[x] = ClientOf(r, ca, key)
    BY ReviewedIsProvisioned
  <2>2. ClientOf(r, ca, key) # None
    BY SecretTypes, ConstantsAssumption DEF Reviewed
  <2>. QED
    BY <2>1, <2>2 DEF ClientOf
<1>. QED
  BY Inductive, <1>1, PTL

(* The CA the API server trusts is that of the operator's serving Secret.  *)
THEOREM TrustMatchesServing == Spec => []WebhookTrustsServing
<1>1. IInv => WebhookTrustsServing
  <2>. SUFFICES ASSUME IInv, NEW r \in Reviewed, NEW x \in Server(r, webhook[r])
       PROVE  secrets[x] # None /\ secrets[x].owner = r /\ secrets[x].key = webhook[r].ca
    BY DEF WebhookTrustsServing
  <2>1. webhook[r] \in Scope
    BY ReviewedIsProvisioned
  <2>2. PICK ca \in Nat : secrets[x] = ServerOf(r, ca, webhook[r].ca)
    BY ReviewedIsProvisioned
  <2>3. ServerOf(r, ca, webhook[r].ca) # None
    BY <2>1, SecretTypes, ConstantsAssumption DEF Reviewed, Scope
  <2>. QED
    BY <2>2, <2>3 DEF ServerOf
<1>. QED
  BY Inductive, <1>1, PTL

(* The Secrets of a release carry one identity of the gateway.             *)
THEOREM IdentityIsOne == Spec => []OneIdentity
<1>1. IInv => OneIdentity
  <2>. SUFFICES ASSUME IInv, NEW r \in Reviewed
       PROVE  LET clients == Clients(webhook[r])
              IN  /\ \A x, y \in clients : secrets[x] = secrets[y]
                  /\ \A x \in clients, y \in Server(r, webhook[r]) : secrets[x].ca = secrets[y].ca
    BY DEF OneIdentity
  <2>1. PICK ca, key \in Nat :
          /\ \A x \in Clients(webhook[r]) : secrets[x] = ClientOf(r, ca, key)
          /\ \A x \in Server(r, webhook[r]) : secrets[x] = ServerOf(r, ca, webhook[r].ca)
    BY ReviewedIsProvisioned
  <2>. QED
    BY <2>1 DEF ClientOf, ServerOf
<1>. QED
  BY Inductive, <1>1, PTL

(* Two releases that use one name for their client Secrets never share a   *)
(* namespace: where the reads of the claims race, the create-only Secrets  *)
(* decide.  (An administrator who empties a place may undo this.)          *)
THEOREM SecretsDecideClaims == Spec => []SharedNameOneAuthority
<1>1. InjectedPodsCanMount => SharedNameOneAuthority
  <2>. SUFFICES ASSUME InjectedPodsCanMount, NEW q \in Reviewed, NEW r \in Reviewed, q # r,
                       webhook[q].client = webhook[r].client,
                       NEW n \in webhook[q].namespaces \cap webhook[r].namespaces,
                       <<n, webhook[r].client>> \notin rotated
       PROVE  FALSE
    BY DEF SharedNameOneAuthority
  <2>1. <<n, webhook[r].client>> \in Clients(webhook[q]) \cap Clients(webhook[r])
    BY DEF Clients
  <2>. QED
    BY <2>1 DEF InjectedPodsCanMount
<1>. QED
  BY ScopesAreProvisioned, <1>1, PTL

(* A release's own leftovers never stop its retry.                         *)
THEOREM LeftoversPass == Spec => []RetryPasses
<1>1. IInv => RetryPasses
  <2>. SUFFICES ASSUME IInv, NEW r \in Releases, admin = 0, gateway # None, Idle(r),
                       Acceptable(r, profile[r])
       PROVE  LET p == profile[r]
              IN  /\ Listed(r) => Recoverable(r)
                  /\ \A n \in p.namespaces :
                       Owner(ClientPlace(n, p)) = r =>
                         ClientUsable(r, secrets[ClientPlace(n, p)], gateway.ca, gateway.key)
                  /\ Owner(ServingPlace(r, p)) = r /\ p.supplied = 0 =>
                       ServingUsable(r, secrets[ServingPlace(r, p)], p, gateway.ca)
    BY DEF RetryPasses
  <2>. DEFINE p == profile[r]
  <2>1. /\ p \in Profiles /\ stale = {} /\ r # None
        /\ secrets \in [Places -> Secret \cup {None}]
    BY ConstantsAssumption DEF IInv, TypeOK, MaterialOK
  <2>2. \A x \in Places :
          secrets[x] # None =>
            /\ secrets[x] \in Secret /\ secrets[x].ca = gateway.ca
            /\ secrets[x].role = "client" => secrets[x].key = gateway.key
            /\ secrets[x].role = "client" <=> x[1] # Home[secrets[x].owner]
    BY <2>1 DEF IInv, MaterialOK, RolesOK
  <2>3. Listed(r) => Recoverable(r)
    BY DEF IInv, TypeOK, HelmOK, Idle, Listed, Recoverable
  <2>4. ASSUME NEW n \in p.namespaces, Owner(ClientPlace(n, p)) = r
        PROVE  ClientUsable(r, secrets[ClientPlace(n, p)], gateway.ca, gateway.key)
    <3>1. ClientPlace(n, p) \in Places /\ ClientPlace(n, p)[1] = n /\ n # Home[r]
      BY <2>1, PlaceTypes DEF ClientPlace, Acceptable, Selectable
    <3>. HIDE DEF p
    <3>. QED
      BY <2>1, <2>2, <2>4, <3>1 DEF Owner, ClientUsable, Owned
  <2>5. ASSUME Owner(ServingPlace(r, p)) = r, p.supplied = 0
        PROVE  ServingUsable(r, secrets[ServingPlace(r, p)], p, gateway.ca)
    <3>1. ServingPlace(r, p) \in Places /\ ServingPlace(r, p)[1] = Home[r]
      BY <2>1, PlaceTypes DEF ServingPlace
    <3>. HIDE DEF p
    <3>. QED
      BY <2>1, <2>2, <2>5, <3>1 DEF Owner, ServingUsable, Owned, Valid, Secret
  <2>. QED
    BY <2>3, <2>4, <2>5
<1>. QED
  BY Inductive, <1>1, PTL

-----------------------------------------------------------------------------
(* The refinement of SecretGrants.                                         *)

UsesMap == [r \in Releases |-> Uses(r)]
gvars == <<secrets, UsesMap, rotated>>

(* What a release in force relies on, but for emptied places, is what the  *)
(* invariant says it is provisioned with.                                  *)
LEMMA UsesArePlaces ==
  ASSUME IInv, NEW r \in Releases
  PROVE  /\ Uses(r) \subseteq Places
         /\ r \in Reviewed => Uses(r) \ rotated = Clients(webhook[r]) \cup Server(r, webhook[r])
         /\ r \notin Reviewed => Uses(r) = {}
<1>1. CASE r \in Reviewed
  <2>1. webhook[r] \in Scope
    BY <1>1, ReviewedIsProvisioned
  <2>2. Home[r] \in Namespaces
    BY ConstantsAssumption
  <2>. QED
    BY <1>1, <2>1, <2>2 DEF Uses, Places, Scope, Clients, Server
<1>2. CASE r \notin Reviewed
  BY <1>2 DEF Uses
<1>. QED
  BY <1>1, <1>2

AllGranted == \A r \in Releases : UsesMap[r] \in SUBSET Places /\ Grants!Granted(r)

LEMMA InvariantGrants == IInv => AllGranted
<1>. SUFFICES ASSUME IInv, NEW r \in Releases
     PROVE  UsesMap[r] \in SUBSET Places /\ Grants!Granted(r)
  BY DEF AllGranted
<1>1. UsesMap[r] = Uses(r) /\ Uses(r) \in SUBSET Places
  BY UsesArePlaces DEF UsesMap
<1>2. ASSUME NEW x \in Uses(r) \ rotated
      PROVE  /\ secrets[x] # None /\ secrets[x].owner = r
             /\ \A y \in Uses(r) \ rotated : secrets[x].ca = secrets[y].ca
  <2>1. r \in Reviewed
    BY <1>2, UsesArePlaces
  <2>2. webhook[r] \in Scope
    BY <2>1, ReviewedIsProvisioned
  <2>3. PICK ca, key \in Nat :
          /\ \A y \in Clients(webhook[r]) : secrets[y] = ClientOf(r, ca, key)
          /\ \A y \in Server(r, webhook[r]) : secrets[y] = ServerOf(r, ca, webhook[r].ca)
    BY <2>1, ReviewedIsProvisioned
  <2>4. /\ ClientOf(r, ca, key) \in Secret /\ ServerOf(r, ca, webhook[r].ca) \in Secret
        /\ None \notin Secret
    BY <2>2, SecretTypes, ConstantsAssumption DEF Scope
  <2>5. \A y \in Uses(r) \ rotated :
          secrets[y] \in Secret /\ secrets[y].owner = r /\ secrets[y].ca = ca
    BY <2>1, <2>3, <2>4, UsesArePlaces DEF ClientOf, ServerOf
  <2>. QED
    BY <1>2, <2>4, <2>5
<1>. QED
  BY <1>1, <1>2 DEF Grants!Granted, Grants!Provided, UsesMap

LEMMA NextGrants == IInv' => AllGranted'
  BY InvariantGrants, PTL

(* Secrets stay as they are, and one release at most changes what it has   *)
(* in force.                                                               *)
LEMMA OneEnforces ==
  ASSUME IInv, IInv', NEW r \in Releases, UNCHANGED <<secrets, rotated>>,
         \A q \in Releases \ {r} :
           webhook'[q] = webhook[q] /\ (q \in unreviewed' <=> q \in unreviewed)
  PROVE  [Grants!Next]_gvars
<1>1. \A q \in Releases \ {r} : Uses(q)' = Uses(q)
  BY DEF Uses, Reviewed
<1>2. UsesMap' = [UsesMap EXCEPT ![r] = UsesMap'[r]]
  BY <1>1 DEF UsesMap
<1>3. UsesMap'[r] \in SUBSET Places /\ Grants!Granted(r)'
  BY NextGrants DEF AllGranted
<1>4. CASE UsesMap'[r] = UsesMap[r]
  BY <1>2, <1>4 DEF UsesMap, gvars
<1>5. CASE UsesMap'[r] # UsesMap[r]
  <2>1. Grants!Enforce(r)
    BY <1>2, <1>3, <1>5 DEF Grants!Enforce, UsesMap
  <2>. QED
    BY <2>1 DEF Grants!Next
<1>. QED
  BY <1>4, <1>5

(* Nothing changes in what releases have in force.                         *)
LEMMA SameUses ==
  ASSUME UNCHANGED <<webhook, unreviewed>>
  PROVE  UsesMap' = UsesMap
BY DEF UsesMap, Uses, Reviewed

LEMMA CreateGrants ==
  ASSUME IInv, NEW s \in Sessions, NEW x \in Places, NEW y \in Secret, NEW st, Create(s, x, y, st)
  PROVE  [Grants!Next]_gvars
<1>1. UsesMap' = UsesMap /\ rotated' = rotated
  BY SameUses DEF Create, outside
<1>2. CASE Absent(x)
  <2>1. /\ secrets[x] = None /\ secrets' = [secrets EXCEPT ![x] = y]
        /\ secrets \in [Places -> Secret \cup {None}]
    BY <1>2 DEF Create, Absent, IInv, TypeOK
  <2>2. Grants!Make(x)
    BY <1>1, <2>1 DEF Grants!Make, UsesMap
  <2>. QED
    BY <2>2 DEF Grants!Next
<1>3. CASE ~Absent(x)
  BY <1>1, <1>3 DEF Create, gvars
<1>. QED
  BY <1>2, <1>3

LEMMA AdministerGrants ==
  ASSUME IInv, Administer
  PROVE  [Grants!Next]_gvars
<1>1. UsesMap' = UsesMap
  BY SameUses DEF Administer
<1>2. CASE UNCHANGED <<secrets, rotated>>
  BY <1>1, <1>2 DEF gvars
<1>3. CASE RemoveSecret
  <2>1. PICK x \in Places :
          secrets[x] # None /\ secrets' = [secrets EXCEPT ![x] = None]
          /\ rotated' = rotated \cup {x}
    BY <1>3 DEF RemoveSecret
  <2>2. Grants!Empty(x)
    BY <1>1, <2>1 DEF Grants!Empty, UsesMap
  <2>. QED
    BY <2>2 DEF Grants!Next
<1>. QED
  BY <1>2, <1>3 DEF Administer, EditProfile, RotateGateway, Age

(* Create is called with Secrets of the release, in places of it.          *)
LEMMA InstallGrants ==
  ASSUME IInv, NEW s \in Sessions, CreateServing(s) \/ CreateClient(s)
  PROVE  [Grants!Next]_gvars
<1>. DEFINE me == session[s]
<1>1. me.at \in {"createServing", "createClients"} /\ Here(s)
  BY AtHand DEF CreateServing, CreateClient
<1>2. /\ me.settings \in Profiles /\ me.release \in Releases
      /\ me.ca \in Nat /\ me.key \in Nat /\ me.serving \in Nat
      /\ me.left \subseteq me.settings.namespaces
  BY <1>1 DEF Here, InHand, Chosen, Later, SessionState
<1>3. /\ NewSecret(me.release, "server", me.ca, me.serving) \in Secret
      /\ NewSecret(me.release, "client", me.ca, me.key) \in Secret
  BY <1>2 DEF NewSecret, Secret
<1>4. /\ ServingPlace(me.release, me.settings) \in Places
      /\ \A n \in me.left : ClientPlace(n, me.settings) \in Places
  BY <1>2, PlaceTypes
<1>5. CASE CreateServing(s)
  <2>1. CASE me.fresh
    BY <1>3, <1>4, <1>5, <2>1, CreateGrants DEF CreateServing
  <2>2. CASE ~me.fresh
    <3>1. UNCHANGED <<cluster, outside, unreviewed>>
      BY <1>5, <2>2 DEF CreateServing, Check
    <3>. QED
      BY <3>1, SameUses DEF cluster, outside, gvars
  <2>. QED
    BY <2>1, <2>2
<1>6. CASE CreateClient(s)
  BY <1>3, <1>4, <1>6, CreateGrants DEF CreateClient
<1>. QED
  BY <1>5, <1>6

(* The steps of Helm put one release's scope into force, or none.          *)
LEMMA HelmGrants ==
  ASSUME IInv, IInv', NEW s \in Sessions, StartHelm(s) \/ Helm(s)
  PROVE  [Grants!Next]_gvars
<1>. DEFINE r == session[s].release
<1>1. UNCHANGED <<secrets, rotated>>
  BY DEF StartHelm, Helm, Apply, Deployed, RolledBack, DeleteObjects, Purge, outside
<1>2. /\ session[s].at # "idle"
      /\ webhook \in [Releases -> Scope \cup {None}] /\ webhook' \in [Releases -> Scope \cup {None}]
  BY DEF StartHelm, Helm, Apply, Deployed, RolledBack, DeleteObjects, Purge, IInv, TypeOK
<1>3. r \in Releases
  BY <1>2, AtHand DEF Here, InHand
<1>4. \A q \in Releases \ {r} :
        webhook'[q] = webhook[q] /\ (q \in unreviewed' <=> q \in unreviewed)
  <2>1. CASE StartHelm(s)
    BY <2>1 DEF StartHelm
  <2>2. CASE Apply(s)
    BY <1>2, <1>3, <2>2 DEF Apply
  <2>3. CASE Deployed(s)
    BY <2>3 DEF Deployed
  <2>4. CASE RolledBack(s)
    BY <1>2, <1>3, <2>4 DEF RolledBack
  <2>5. CASE DeleteObjects(s)
    BY <1>2, <1>3, <2>5 DEF DeleteObjects
  <2>6. CASE Purge(s)
    BY <2>6 DEF Purge
  <2>. QED
    BY <2>1, <2>2, <2>3, <2>4, <2>5, <2>6 DEF Helm
<1>. QED
  BY <1>1, <1>3, <1>4, OneEnforces

LEMMA QuietGrants ==
  ASSUME NEW s \in Sessions,
         Start(s) \/ ReconcileCore(s) \/ Interrupted(s) \/ Preflight(s) \/ Render(s)
           \/ CreateNamespace(s)
  PROVE  UNCHANGED gvars
<1>1. UNCHANGED <<secrets, webhook, unreviewed, rotated>>
  <2>1. CASE Start(s)
    <3>1. UNCHANGED <<cluster, outside, unreviewed>>
      BY <2>1, ZenonT(30) DEF Start
    <3>. QED
      BY <3>1 DEF cluster, outside
  <2>. USE DEF cluster, outside
  <2>2. CASE ReconcileCore(s)    BY <2>2 DEF ReconcileCore
  <2>3. CASE Interrupted(s)      BY <2>3 DEF Interrupted
  <2>4. CASE ReadInventory(s)    BY <2>4 DEF ReadInventory, Check
  <2>5. CASE ReadClaims(s)       BY <2>5 DEF ReadClaims, Check
  <2>6. CASE ReadTargets(s)      BY <2>6 DEF ReadTargets, Check
  <2>7. CASE ReadSource(s)       BY <2>7 DEF ReadSource, Check
  <2>8. CASE ReadClient(s)       BY <2>8 DEF ReadClient, Check
  <2>9. CASE ReadServing(s)      BY <2>9 DEF ReadServing
  <2>10. CASE Render(s)          BY <2>10 DEF Render, Check
  <2>11. CASE CreateNamespace(s) BY <2>11 DEF CreateNamespace
  <2>. QED
    BY <2>1, <2>2, <2>3, <2>4, <2>5, <2>6, <2>7, <2>8, <2>9, <2>10, <2>11 DEF Preflight
<1>. QED
  BY <1>1, SameUses DEF gvars

(* Every Secret stays with the release that created it, and no scope is    *)
(* put into force that relies on another release's Secrets, or on those of *)
(* two gateways, for any number of terminals, releases and profiles.       *)
THEOREM GrantsImplemented == Spec => ImplementsGrants
<1>1. Init => Grants!Init
  BY ConstantsAssumption DEF Init, Grants!Init, Uses, Reviewed
<1>2. ASSUME IInv, IInv', [Next]_vars PROVE [Grants!Next]_gvars
  <2>1. CASE UNCHANGED vars
    BY <2>1, SameUses DEF vars, gvars
  <2>2. ASSUME NEW s \in Sessions,
               Start(s) \/ ReconcileCore(s) \/ Interrupted(s) \/ Preflight(s) \/ Install(s)
                 \/ Helm(s)
        PROVE  [Grants!Next]_gvars
    BY <1>2, <2>2, QuietGrants, InstallGrants, HelmGrants DEF Install
  <2>. QED
    BY <1>2, <2>1, <2>2, AdministerGrants DEF Next
<1>3. [Grants!Next]_gvars => [Grants!Next]_Grants!vars
  BY DEF gvars, UsesMap, Grants!vars
<1>. QED
  BY <1>1, <1>2, <1>3, Inductive, PTL DEF Spec, ImplementsGrants, Grants!Spec

(* So no two releases rely on one Secret, client or serving, unless an     *)
(* administrator emptied its place: SecretGrants itself promises this.     *)
LEMMA GrantsSuffice == Grants!Spec => []Grants!NotShared
<1>. DEFINE Own == /\ secrets \in [Places -> Secret \cup {None}]
                   /\ \A r \in Releases : UsesMap[r] \in SUBSET Places /\ Grants!Granted(r)
<1>1. Grants!Init => Own
  BY DEF Grants!Init, Grants!Granted, Grants!Provided, UsesMap
<1>2. Own /\ [Grants!Next]_Grants!vars => Own'
  <2>. SUFFICES ASSUME Own, [Grants!Next]_Grants!vars PROVE Own'
    OBVIOUS
  <2>1. ASSUME NEW x \in Places, Grants!Make(x) \/ Grants!Empty(x) PROVE Own'
    <3>1. /\ UsesMap' = UsesMap /\ rotated \subseteq rotated'
          /\ secrets' \in [Places -> Secret \cup {None}]
      BY <2>1 DEF Grants!Make, Grants!Empty, UsesMap
    <3>2. \A y \in Places : y \notin rotated' /\ secrets[y] # None => secrets'[y] = secrets[y]
      BY <2>1 DEF Grants!Make, Grants!Empty
    <3>3. ASSUME NEW r \in Releases PROVE Grants!Granted(r)'
      <4>1. UsesMap[r] \in SUBSET Places /\ UsesMap'[r] = UsesMap[r] /\ Grants!Granted(r)
        BY <3>1
      <4>. QED
        BY <3>1, <3>2, <4>1 DEF Grants!Granted, Grants!Provided, UsesMap
    <3>. QED
      BY <3>1, <3>3
  <2>2. ASSUME NEW r \in Releases, Grants!Enforce(r) PROVE Own'
    <3>1. /\ UsesMap' = [UsesMap EXCEPT ![r] = UsesMap'[r]] /\ UsesMap'[r] \in SUBSET Places
          /\ Grants!Granted(r)' /\ UNCHANGED <<secrets, rotated>>
      BY <2>2 DEF Grants!Enforce, UsesMap
    <3>2. ASSUME NEW q \in Releases, q # r PROVE UsesMap'[q] = UsesMap[q] /\ Grants!Granted(q)'
      <4>1. UsesMap'[q] = UsesMap[q]
        BY <3>1, <3>2 DEF UsesMap
      <4>. QED
        BY <3>1, <4>1 DEF Grants!Granted, Grants!Provided, UsesMap
    <3>. QED
      BY <3>1, <3>2
  <2>3. CASE UNCHANGED Grants!vars
    BY <2>3 DEF Grants!Granted, Grants!Provided, Grants!vars, UsesMap
  <2>. QED
    BY <2>1, <2>2, <2>3 DEF Grants!Next
<1>3. Own => Grants!NotShared
  BY DEF Grants!Granted, Grants!Provided, Grants!NotShared, UsesMap
<1>. QED
  BY <1>1, <1>2, <1>3, PTL DEF Grants!Spec

THEOREM SecretsAreNotShared == Spec => []Grants!NotShared
  BY GrantsImplemented, GrantsSuffice, PTL DEF ImplementsGrants

(* What a scope relied on when it was in force stays provided, also when   *)
(* the release has another scope since or is gone: the processes of an     *)
(* older configuration, and the Pods they inject, still find the Secrets   *)
(* of their release.  This is what WebhookAdmission assumes of the         *)
(* configurations a release has had.                                       *)
THEOREM GrantsLast ==
  ASSUME NEW r \in Releases, NEW places \in SUBSET Places
  PROVE  Spec => [](Uses(r) = places => []Grants!Provided(r, places))
<1>1. IInv => (Uses(r) = places => Grants!Provided(r, places))
  BY InvariantGrants DEF AllGranted, Grants!Granted, UsesMap
<1>2. IInv /\ [Grants!Next]_Grants!vars /\ Grants!Provided(r, places)
        => Grants!Provided(r, places)'
  <2>. SUFFICES ASSUME IInv, [Grants!Next]_Grants!vars, Grants!Provided(r, places)
       PROVE  Grants!Provided(r, places)'
    OBVIOUS
  <2>1. /\ rotated \subseteq rotated'
        /\ \A x \in Places : x \notin rotated' /\ secrets[x] # None => secrets'[x] = secrets[x]
    <3>1. secrets \in [Places -> Secret \cup {None}]
      BY DEF IInv, TypeOK
    <3>2. CASE UNCHANGED Grants!vars
      BY <3>2 DEF Grants!vars
    <3>3. ASSUME NEW x \in Places, Grants!Make(x) \/ Grants!Empty(x)
          PROVE  /\ rotated \subseteq rotated'
                 /\ \A y \in Places :
                      y \notin rotated' /\ secrets[y] # None => secrets'[y] = secrets[y]
      BY <3>1, <3>3 DEF Grants!Make, Grants!Empty
    <3>4. ASSUME NEW q \in Releases, Grants!Enforce(q) PROVE UNCHANGED <<secrets, rotated>>
      BY <3>4 DEF Grants!Enforce
    <3>. QED
      BY <3>2, <3>3, <3>4 DEF Grants!Next
  <2>. QED
    BY <2>1 DEF Grants!Provided
<1>. QED
  BY <1>1, <1>2, Inductive, GrantsImplemented, PTL DEF ImplementsGrants, Grants!Spec

=============================================================================
