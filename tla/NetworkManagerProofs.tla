------------------------ MODULE NetworkManagerProofs ------------------------
(***************************************************************************)
(* The two maps of active connections of the network manager agree, and a  *)
(* manager that says it is idle is idle, for any devices, connections and  *)
(* calls.  The invariant is the conjunction of the types and of the two:   *)
(* that an idle manager has no connection that is up needs to know that a  *)
(* handler which removes the connections of all devices removes all there  *)
(* are, and that is the pairing of the maps.                               *)
(***************************************************************************)
EXTENDS NetworkManager, TLAPS

\* The pairing of two maps.
Paired(act, dc) ==
    /\ \A d \in Device : dc[d] # None => act[dc[d]] # None /\ act[dc[d]].dev = d
    /\ \A p \in Ac : act[p] # None => dc[act[p].dev] = p

Maps(act, dc) ==
    /\ act \in [Ac -> ActiveConnection \cup {None}]
    /\ dc \in [Device -> Ac \cup {None}]

\* A device that is not in _device_map has no connection.
Inv == ManagerTypeOK /\ ConnectionsPaired /\ IdleIsIdle /\ \A d \in Device \ known : dac[d] = None

\* A name is a number and not the path "/".
LEMMA AcFact == Ac \subseteq Nat /\ None \notin Ac
BY ConnAssumption, Zenon DEF Ac

\* user::async_send adds to what is pending.
LEMMA WithTyped ==
    ASSUME NEW reqs \in [Req -> Nat], NEW new
    PROVE  With(reqs, new) \in [Req -> Nat]
BY DEF With

\* clear_connections keeps the maps paired, and removes the connections of the
\* devices it is called for and no other.
LEMMA ClearPairs ==
    ASSUME Maps(active, dac), ConnectionsPaired, NEW D \in SUBSET Device
    PROVE  /\ Maps(ClearedActive(D), ClearedDac(D))
           /\ Paired(ClearedActive(D), ClearedDac(D))
           /\ \A p \in Ac : ClearedActive(D)[p] # None => ClearedActive(D)[p] = active[p] /\ active[p].dev \notin D
<1> DEFINE act == ClearedActive(D)
           dc == ClearedDac(D)
<1>1. /\ \A d \in Device : dc[d] = IF d \in D THEN None ELSE dac[d]
      /\ dc \in [Device -> Ac \cup {None}]
  BY Zenon DEF ClearedDac, Put, Maps
<1>2. /\ \A p \in Ac : act[p] = IF \E d \in D : dac[d] = p THEN None ELSE active[p]
      /\ act \in [Ac -> ActiveConnection \cup {None}]
  BY Zenon DEF ClearedActive, Maps
<1>3. \A p \in Ac : active[p] # None => active[p].dev \in Device
  BY Zenon DEF Maps, ActiveConnection
<1>4. \A p \in Ac : act[p] # None => act[p] = active[p] /\ active[p].dev \notin D
  BY <1>2, <1>3, Zenon DEF ConnectionsPaired
<1>5. \A d \in Device : dc[d] # None => act[dc[d]] = active[dc[d]]
  <2>1. SUFFICES ASSUME NEW d \in Device, dc[d] # None
                 PROVE  ~ \E e \in D : dac[e] = dac[d]
    BY <1>1, <1>2, AcFact, ZenonT(40) DEF Maps
  <2>2. d \notin D /\ dc[d] = dac[d] /\ active[dac[d]].dev = d
    BY <2>1, <1>1, Zenon DEF ConnectionsPaired
  <2>3. \A e \in D : dac[e] = dac[d] => active[dac[d]].dev = e
    BY <2>1, <2>2, Zenon DEF ConnectionsPaired
  <2> QED
    BY <2>2, <2>3, Zenon
<1>6. Paired(act, dc)
  BY <1>1, <1>3, <1>4, <1>5 DEF ConnectionsPaired, Paired
<1> QED
  BY <1>1, <1>2, <1>4, <1>6, Zenon DEF Maps

\* The state of a connection changes, and the maps stay paired.
SetState(path, s) == [active EXCEPT ![path].state = s]

LEMMA StatePairs ==
    ASSUME Maps(active, dac), ConnectionsPaired, NEW path \in Ac, active[path] # None,
           NEW s \in {"activating", "activated", "unknown"}
    PROVE  /\ Maps(SetState(path, s), dac)
           /\ Paired(SetState(path, s), dac)
           /\ \A p \in Ac : SetState(path, s)[p] = IF p = path THEN [active[p] EXCEPT !.state = s] ELSE active[p]
<1> DEFINE act == [active EXCEPT ![path].state = s]
<1>1. active[path] \in ActiveConnection
  BY Zenon DEF Maps
<1>2. [active[path] EXCEPT !.state = s] \in ActiveConnection
  BY <1>1, Zenon DEF ActiveConnection
<1>3. \A p \in Ac : act[p] = IF p = path THEN [active[p] EXCEPT !.state = s] ELSE active[p]
  BY Zenon DEF Maps
<1>4. act \in [Ac -> ActiveConnection \cup {None}]
  BY <1>2, <1>3, Zenon DEF Maps
<1>5. [active[path] EXCEPT !.state = s].dev = active[path].dev /\ [active[path] EXCEPT !.state = s] # None
  BY <1>1, <1>2, ConnAssumption, Zenon DEF ActiveConnection
<1>6. Paired(act, dac)
  BY <1>3, <1>5, AcFact DEF Maps, ConnectionsPaired, Paired
<1> QED
  BY <1>3, <1>4, <1>6, Zenon DEF Maps, SetState

\* Removing the connection of d and giving d a new one keeps the maps paired, since
\* no other device has a connection of that name.
LEMMA ActivatePairs ==
    ASSUME Maps(active, dac), ConnectionsPaired, NEW d \in Device, NEW c \in Conn,
           PathFree(ClearedActive({d}), Uuid[c])
    PROVE  LET path == Uuid[c]
               act  == [ClearedActive({d}) EXCEPT ![path] = [conn |-> c, dev |-> d, state |-> "activating"]]
               dc   == [dac EXCEPT ![d] = path]
           IN  Maps(act, dc) /\ Paired(act, dc)
<1> DEFINE path == Uuid[c]
           old  == ClearedActive({d})
           odc  == ClearedDac({d})
           rec  == [conn |-> c, dev |-> d, state |-> "activating"]
           act  == [old EXCEPT ![path] = rec]
           dc   == [dac EXCEPT ![d] = path]
<1>1. path \in Ac /\ path # None
  BY AcFact, Zenon DEF Ac
<1>2. rec \in ActiveConnection /\ rec # None /\ rec.dev = d
  BY ConnAssumption DEF ActiveConnection
<1>3. Maps(old, odc) /\ Paired(old, odc) /\ old[path] = None
  BY ClearPairs, Zenon DEF PathFree
<1>4. /\ \A e \in Device : odc[e] = IF e = d THEN None ELSE dac[e]
      /\ \A e \in Device : dc[e] = IF e = d THEN path ELSE dac[e]
      /\ dc \in [Device -> Ac \cup {None}]
  BY <1>1, Zenon DEF ClearedDac, Put, Maps
<1>5. /\ \A p \in Ac : act[p] = IF p = path THEN rec ELSE old[p]
      /\ act \in [Ac -> ActiveConnection \cup {None}]
  BY <1>1, <1>2, <1>3, Zenon DEF Maps
<1> HIDE DEF old, odc, act, dc, rec, path
<1>6. \A e \in Device : dc[e] # None => act[dc[e]] # None /\ act[dc[e]].dev = e
  <2> SUFFICES ASSUME NEW e \in Device, dc[e] # None
               PROVE  act[dc[e]] # None /\ act[dc[e]].dev = e
    BY Zenon
  <2>1. CASE e = d
    BY <2>1, <1>1, <1>2, <1>4, <1>5, Zenon
  <2>2. CASE e # d
    <3>1. dc[e] = odc[e] /\ dc[e] \in Ac
      BY <2>2, <1>4, Zenon
    <3>2. old[dc[e]] # None /\ old[dc[e]].dev = e
      BY <3>1, <1>3, Zenon DEF Paired
    <3> QED
      BY <3>1, <3>2, <1>3, <1>5, Zenon
  <2> QED
    BY <2>1, <2>2, Zenon
<1>7. \A p \in Ac : act[p] # None => dc[act[p].dev] = p
  <2> SUFFICES ASSUME NEW p \in Ac, act[p] # None
               PROVE  dc[act[p].dev] = p
    BY Zenon
  <2>1. CASE p = path
    BY <2>1, <1>1, <1>2, <1>4, <1>5, Zenon
  <2>2. CASE p # path
    <3>1. act[p] = old[p] /\ old[p].dev \in Device
      BY <2>2, <1>3, <1>5, Zenon DEF Maps, ActiveConnection
    <3>2. odc[old[p].dev] = p
      BY <3>1, <1>3, Zenon DEF Paired
    <3> QED
      BY <3>1, <3>2, <1>4, AcFact, Zenon
  <2> QED
    BY <2>1, <2>2, Zenon
<1> QED
  BY <1>4, <1>5, <1>6, <1>7, Zenon DEF Maps, Paired, act, dc, old, rec, path

-----------------------------------------------------------------------------
\* The parts of the invariant that a step can disturb, for the values after it.
Idle(st, act) ==
    /\ st < CONNECTING => \A p \in Ac : act[p] # None => act[p].state = "unknown"
    /\ st \in {ASLEEP, DISCONNECTING} => \A p \in Ac : act[p] = None

States    == {ASLEEP, DISCONNECTED, DISCONNECTING, CONNECTING, CONNECTED_GLOBAL}
DevStates == {DEV_UNKNOWN, DEV_UNAVAILABLE, DEV_DISCONNECTED, DEV_CONFIG, DEV_IP_CONFIG, DEV_ACTIVATED}
ConnTypes == {"new", "usable", "unusable", "deleted"}

\* Core: everything but the bounds on the environment.
Core ==
    /\ state \in States /\ known \subseteq Device
    /\ networking \in BOOLEAN /\ wireless \in BOOLEAN /\ alive \in BOOLEAN
    /\ dstate \in [Device -> DevStates]
    /\ shown \in [Device -> Ac \cup {None}]
    /\ conns \in [Conn -> ConnTypes]
    /\ pending \in [Req -> Nat]
    /\ crossed \subseteq Ac
    /\ Maps(active, dac) /\ Paired(active, dac) /\ Idle(state, active)
    /\ \A d \in Device \ known : dac[d] = None

World == /\ scenario \in Scenarios /\ calls \in 0 .. scenario.max /\ drops \in 0 .. scenario.drops
         /\ mistaken \subseteq Ac

\* The invariant in these parts.
LEMMA InvParts == Inv <=> Core /\ World
BY Zenon DEF Inv, Core, World, ManagerTypeOK, ConnectionsPaired, IdleIsIdle, Maps, Paired, Idle, States, DevStates,
             ConnTypes

LEMMA StateValues == States \subseteq Nat /\ DevStates \subseteq Nat
BY DEF States, DevStates, ASLEEP, DISCONNECTED, DISCONNECTING, CONNECTING, CONNECTED_GLOBAL, DEV_UNKNOWN,
       DEV_UNAVAILABLE, DEV_DISCONNECTED, DEV_CONFIG, DEV_IP_CONFIG, DEV_ACTIVATED

\* DISCONNECTED among the states: what is not above it is below CONNECTING.
LEMMA StateOrder ==
    /\ DISCONNECTED \in States /\ DISCONNECTED \notin {ASLEEP, DISCONNECTING}
    /\ \A st \in States : ~(st > DISCONNECTED) => st < CONNECTING
BY DEF States, ASLEEP, DISCONNECTED, DISCONNECTING, CONNECTING, CONNECTED_GLOBAL

\* An activation raises the state to CONNECTING at least: then the manager does not
\* say that it is idle.
LEMMA StateRaised ==
    ASSUME NEW st \in States, NEW next, next = IF st < CONNECTING THEN CONNECTING ELSE st
    PROVE  next \in States /\ \A act : Idle(next, act)
<1>1. next \in States /\ ~(next < CONNECTING) /\ next \notin {ASLEEP, DISCONNECTING}
  BY DEF States, ASLEEP, DISCONNECTED, DISCONNECTING, CONNECTING, CONNECTED_GLOBAL
<1> QED
  BY <1>1, Zenon DEF Idle

\* clear_connections of some known devices keeps an idle manager idle; of all of
\* them it leaves no connection.
LEMMA ClearIdle ==
    ASSUME Core, NEW D \in SUBSET known
    PROVE  /\ Maps(ClearedActive(D), ClearedDac(D)) /\ Paired(ClearedActive(D), ClearedDac(D))
           /\ \A st : Idle(st, active) => Idle(st, ClearedActive(D))
           /\ \A d \in Device \ known : ClearedDac(D)[d] = None
           /\ D = known => \A st : Idle(st, ClearedActive(D))
           /\ \A reqs : Crossed(D, reqs) \subseteq Ac
<1>1. D \in SUBSET Device /\ ConnectionsPaired /\ Maps(active, dac)
  BY Zenon DEF Core, ConnectionsPaired, Paired
<1>2. /\ Maps(ClearedActive(D), ClearedDac(D)) /\ Paired(ClearedActive(D), ClearedDac(D))
      /\ \A p \in Ac : ClearedActive(D)[p] # None => ClearedActive(D)[p] = active[p] /\ active[p].dev \notin D
  BY <1>1, ClearPairs, Zenon
<1>3. \A st : Idle(st, active) => Idle(st, ClearedActive(D))
  BY <1>2, Zenon DEF Idle
<1>4. \A d \in Device \ known : ClearedDac(D)[d] = None
  BY Zenon DEF ClearedDac, Put, Core
<1>5. ASSUME D = known
      PROVE  \A st : Idle(st, ClearedActive(D))
  <2>1. \A p \in Ac : active[p] # None => active[p].dev \in Device /\ dac[active[p].dev] = p
    BY Zenon DEF Core, Maps, Paired, ActiveConnection
  <2>2. \A p \in Ac : active[p] # None => active[p].dev \in known
    BY <2>1, AcFact, Zenon DEF Core
  <2>3. \A p \in Ac : ClearedActive(D)[p] = None
    BY <2>2, <1>2, <1>5, Zenon
  <2> QED
    BY <2>3, Zenon DEF Idle
<1>6. \A reqs : Crossed(D, reqs) \subseteq Ac
  BY Zenon DEF Crossed, Core
<1> QED
  BY <1>2, <1>3, <1>4, <1>5, <1>6, Zenon

\* Core' from its parts: the types, and the connections.
Types ==
    /\ state \in States /\ known \subseteq Device
    /\ networking \in BOOLEAN /\ wireless \in BOOLEAN /\ alive \in BOOLEAN
    /\ dstate \in [Device -> DevStates]
    /\ shown \in [Device -> Ac \cup {None}]
    /\ conns \in [Conn -> ConnTypes]
    /\ pending \in [Req -> Nat]
    /\ crossed \subseteq Ac

Tables ==
    /\ Maps(active, dac) /\ Paired(active, dac) /\ Idle(state, active)
    /\ \A d \in Device \ known : dac[d] = None

LEMMA CoreParts == Core <=> Types /\ Tables
BY Zenon DEF Core, Types, Tables

\* Enable.
LEMMA EnableInv ==
    ASSUME Core, NEW on \in BOOLEAN, Enable(on)
    PROVE  Core'
<1>1. CASE on
  BY <1>1 DEF Enable, Call, Core, objects, settings, Maps, Paired, Idle
<1>2. CASE ~on
  <2>1. state' \in States /\ known' \subseteq Device
    BY <1>2, Zenon DEF Enable, Core, States
  <2>2. dstate' \in [Device -> DevStates]
    BY <1>2, Zenon DEF Put, Enable, Core, DevStates
  <2>3. shown' \in [Device -> Ac \cup {None}] /\ pending' \in [Req -> Nat]
    BY <1>2, WithTyped DEF Put, Enable, Core
  <2>4. networking' \in BOOLEAN /\ wireless' \in BOOLEAN /\ alive' \in BOOLEAN /\ conns' \in [Conn -> ConnTypes]
    BY Zenon DEF Enable, Core, settings
  <2>5. crossed' \subseteq Ac
    BY <1>2, ClearIdle, Zenon DEF Enable, Clear
  <2>6. Tables'
    BY <1>2, ClearIdle, Zenon DEF Enable, Clear, Tables
  <2> QED
    BY <2>1, <2>2, <2>3, <2>4, <2>5, <2>6, CoreParts, Zenon DEF Core, Tables
<1> QED
  BY <1>1, <1>2, Zenon

\* Sleep.
LEMMA SleepInv ==
    ASSUME Core, NEW on \in BOOLEAN, Sleep(on)
    PROVE  Core'
<1>1. CASE ~on
  BY <1>1 DEF Sleep, Call, Core, objects, settings, Maps, Paired, Idle
<1>2. CASE on
  <2>1. state' \in States /\ known' \subseteq Device
    BY <1>2, Zenon DEF Sleep, Core, States
  <2>2. dstate' \in [Device -> DevStates]
    BY <1>2, Zenon DEF Put, Sleep, Core, DevStates
  <2>3. shown' \in [Device -> Ac \cup {None}] /\ pending' \in [Req -> Nat]
    BY <1>2, WithTyped DEF Put, Sleep, Core
  <2>4. networking' \in BOOLEAN /\ wireless' \in BOOLEAN /\ alive' \in BOOLEAN /\ conns' \in [Conn -> ConnTypes]
    BY Zenon DEF Sleep, Core, settings
  <2>5. crossed' \subseteq Ac
    BY <1>2, ClearIdle, Zenon DEF Sleep, Clear
  <2>6. Tables'
    BY <1>2, ClearIdle, Zenon DEF Sleep, Clear, Tables
  <2> QED
    BY <2>1, <2>2, <2>3, <2>4, <2>5, <2>6, Zenon DEF Core, Tables
<1> QED
  BY <1>1, <1>2, Zenon

\* WirelessEnabled.
LEMMA WirelessInv ==
    ASSUME Core, NEW on \in BOOLEAN, SetWirelessEnabled(on)
    PROVE  Core'
<1> DEFINE devs == known \cap Wifi
<1>1. /\ state' \in States /\ known' \subseteq Device
      /\ networking' \in BOOLEAN /\ wireless' \in BOOLEAN /\ alive' \in BOOLEAN /\ conns' \in [Conn -> ConnTypes]
  BY Zenon DEF SetWirelessEnabled, Core
<1>2. dstate' \in [Device -> DevStates]
  BY Zenon DEF Put, SetWirelessEnabled, Core, DevStates
<1>3. pending' \in [Req -> Nat]
  BY WithTyped DEF SetWirelessEnabled, Core
<1>4. shown' \in [Device -> Ac \cup {None}]
  BY Zenon DEF Put, SetWirelessEnabled, Core
<1>5. crossed' \subseteq Ac /\ Tables'
  <2>1. CASE on
    BY <2>1 DEF SetWirelessEnabled, Core, Tables, Maps, Paired, Idle
  <2>2. CASE ~on
    BY <2>2, ClearIdle, Zenon DEF SetWirelessEnabled, Clear, Tables, Core
  <2> QED
    BY <2>1, <2>2, Zenon
<1> QED
  BY <1>1, <1>2, <1>3, <1>4, <1>5, Zenon DEF Core, Tables

\* The calls that change settings.
LEMMA SettingsInv ==
    ASSUME Core, NEW c \in Conn, AddConnection(c) \/ Update(c) \/ Delete(c)
    PROVE  Core'
<1>1. conns' \in [Conn -> ConnTypes]
  BY Zenon DEF AddConnection, Update, Delete, Added, Core, ConnTypes
<1> QED
  BY <1>1 DEF AddConnection, Update, Delete, Core, nm, objects, Maps, Paired, Idle

\* Disconnect.
LEMMA DisconnectInv ==
    ASSUME Core, NEW d \in Device, Disconnect(d)
    PROVE  Core'
<1>1. dstate' \in [Device -> DevStates] /\ shown' \in [Device -> Ac \cup {None}]
  BY Zenon DEF Disconnect, Core, DevStates
<1>2. pending' \in [Req -> Nat]
  BY WithTyped, Zenon DEF Disconnect, Core
<1> QED
  BY <1>1, <1>2, Zenon DEF Disconnect, Core, nm, settings, Maps, Paired, Idle

\* ActivateConnection, with any settings objects: the state is CONNECTING at least.
LEMMA ActivateInv ==
    ASSUME Core, NEW d \in known, NEW c \in Conn, NEW set \in [Conn -> ConnTypes], Activate(c, d, set)
    PROVE  Core'
<1>0. d \in Device /\ {d} \in SUBSET known /\ Uuid[c] \in Ac
  BY Zenon DEF Core, Ac
<1>1. state' = IF state < CONNECTING THEN CONNECTING ELSE state
  BY Zenon DEF Activate
<1>2. state' \in States /\ \A act : Idle(state', act)
  BY <1>1, StateRaised, Zenon DEF Core
<1>3. /\ known' \subseteq Device /\ conns' \in [Conn -> ConnTypes] /\ crossed' \subseteq Ac
      /\ networking' \in BOOLEAN /\ wireless' \in BOOLEAN /\ alive' \in BOOLEAN
  BY <1>0, ClearIdle, Zenon DEF Activate, Core
<1>4. dstate' \in [Device -> DevStates] /\ shown' \in [Device -> Ac \cup {None}]
  BY <1>0, Zenon DEF Activate, Core, DevStates
<1>5. pending' \in [Req -> Nat]
  BY WithTyped DEF Activate, Core
<1>6. Maps(active', dac') /\ Paired(active', dac') /\ \A e \in Device \ known : dac'[e] = None
  <2>1. CASE active' = ClearedActive({d}) /\ dac' = ClearedDac({d})
    BY <2>1, <1>0, ClearIdle, Zenon
  <2>2. CASE /\ PathFree(ClearedActive({d}), Uuid[c])
             /\ active' = [ClearedActive({d}) EXCEPT ![Uuid[c]] = [conn |-> c, dev |-> d, state |-> "activating"]]
             /\ dac' = [dac EXCEPT ![d] = Uuid[c]]
    <3>1. ConnectionsPaired /\ Maps(active, dac)
      BY Zenon DEF Core, ConnectionsPaired, Paired
    <3>2. Maps(active', dac') /\ Paired(active', dac')
      BY <3>1, <2>2, <1>0, ActivatePairs, Zenon
    <3>3. \A e \in Device \ known : dac'[e] = None
      BY <2>2, <1>0, Zenon DEF Core, Maps
    <3> QED
      BY <3>2, <3>3, Zenon
  <2> QED
    BY <2>1, <2>2, Zenon DEF Activate
<1>7. known' = known
  BY Zenon DEF Activate
<1> QED
  BY <1>2, <1>3, <1>4, <1>5, <1>6, <1>7, Zenon DEF Core

\* The two calls that activate a connection.
LEMMA ActivateConnectionInv ==
    ASSUME Core, NEW d \in Device, NEW c \in Conn, ActivateConnection(c, d)
    PROVE  Core'
<1>1. CASE d \in known /\ Activate(c, d, conns)
  BY <1>1, ActivateInv, Zenon DEF Core
<1>2. CASE d \notin known
  <2>1. state' = IF state < CONNECTING THEN CONNECTING ELSE state
    BY <1>2, Zenon DEF ActivateConnection
  <2>2. state' \in States /\ Idle(state', active)
    BY <2>1, StateRaised, Zenon DEF Core
  <2> QED
    BY <1>2, <2>2 DEF ActivateConnection, Core, objects, settings, Maps, Paired, Idle
<1> QED
  BY <1>1, <1>2, Zenon DEF ActivateConnection

LEMMA AddAndActivateInv ==
    ASSUME Core, NEW d \in Device, NEW c \in Conn, NEW p \in AP, AddAndActivateConnection(c, d, p)
    PROVE  Core'
<1>1. conns \in [Conn -> ConnTypes] /\ Added(c) \in [Conn -> ConnTypes]
  BY Zenon DEF Core, Added, ConnTypes
<1>2. CASE d \in known /\ Activate(c, d, Added(c))
  BY <1>1, <1>2, ActivateInv, Zenon
<1>3. CASE \E s \in Conn : d \in known /\ Activate(s, d, conns)
  BY <1>1, <1>3, ActivateInv, Zenon
<1>4. CASE UNCHANGED <<nm, objects, settings, pending, alive>>
  BY <1>4, Zenon DEF Core, nm, objects, settings, Maps, Paired, Idle
<1> QED
  BY <1>2, <1>3, <1>4, Zenon DEF AddAndActivateConnection

-----------------------------------------------------------------------------
\* The MIHF names its links.
LEMMA DiscoverInv ==
    ASSUME Core, World, Discover
    PROVE  Core'
<1>1. known' \subseteq Device
  BY ScenarioAssumption, Zenon DEF Discover, World
<1>2. dstate' \in [Device -> DevStates]
  BY Zenon DEF Discover, Put, Core, DevStates
<1>3. pending' \in [Req -> Nat]
  BY WithTyped, Zenon DEF Discover, Core
<1>4. \A d \in Device : dac[d] = None
  BY Zenon DEF Discover, Core
<1> QED
  BY <1>1, <1>2, <1>3, <1>4, Zenon DEF Discover, Core, settings, Maps, Paired, Idle

\* A failed attempt.
LEMMA GiveUpInv ==
    ASSUME Core, NEW d \in Device, NEW reqs \in [Req -> Nat], GiveUp(d, reqs), UNCHANGED <<nm, settings, alive>>
    PROVE  Core'
<1> DEFINE D == {d} \cap known
<1>1. ClearedActive({d}) = ClearedActive(D) /\ ClearedDac({d}) = ClearedDac(D) /\ Crossed({d}, reqs) = Crossed(D, reqs)
  <2>1. CASE d \in known
    <3>1. {d} = D
      BY <2>1, Zenon
    <3> QED
      BY <3>1, Zenon
  <2>2. CASE d \notin known
    <3>1. dac[d] = None /\ D = {} /\ dac \in [Device -> Ac \cup {None}]
      BY <2>2, Zenon DEF Core, Maps
    <3>2. \A p \in Ac : ~(\E e \in {d} : dac[e] = p) /\ ~(\E e \in D : dac[e] = p)
      BY <3>1, AcFact, Zenon
    <3>3. ClearedActive({d}) = ClearedActive(D) /\ Crossed({d}, reqs) = Crossed(D, reqs)
      BY <3>2, Zenon DEF ClearedActive, Crossed
    <3>4. ClearedDac({d}) = ClearedDac(D)
      BY <3>1, Zenon DEF ClearedDac, Put
    <3> QED
      BY <3>3, <3>4, Zenon
  <2> QED
    BY <2>1, <2>2, Zenon
<1>2. dstate' \in [Device -> DevStates] /\ shown' \in [Device -> Ac \cup {None}]
  BY Zenon DEF GiveUp, Core, DevStates
<1>3. pending' \in [Req -> Nat]
  BY WithTyped, Zenon DEF GiveUp
<1>4. /\ Maps(active', dac') /\ Paired(active', dac') /\ Idle(state, active') /\ crossed' \subseteq Ac
      /\ \A e \in Device \ known : dac'[e] = None
  BY <1>1, ClearIdle, Zenon DEF GiveUp, Clear, Core
<1> QED
  BY <1>2, <1>3, <1>4, Zenon DEF Core, nm, settings

\* A step that changes devices and requests only, or nothing of this.
LEMMA DevicesInv ==
    ASSUME Core, dstate' \in [Device -> DevStates], pending' \in [Req -> Nat], alive' \in BOOLEAN,
           UNCHANGED <<nm, shown, active, dac, crossed, settings>>
    PROVE  Core'
BY Zenon DEF Core, nm, settings, Maps, Paired, Idle

\* Asking for an IP configuration.
LEMMA L3ConfTyped ==
    ASSUME NEW d \in Device, NEW path, NEW ds \in [Device -> DevStates], NEW reqs \in [Req -> Nat],
           L3Conf(d, path, ds, reqs)
    PROVE  dstate' \in [Device -> DevStates] /\ pending' \in [Req -> Nat]
BY WithTyped, Zenon DEF L3Conf, DevStates

\* The end of the process.
LEMMA DiesInv ==
    ASSUME Core, Dies
    PROVE  Core'
BY Zenon DEF Dies, Core, nm, objects, settings, Maps, Paired, Idle

\* An answer of the MIHF.
LEMMA AnswerInv ==
    ASSUME Core, NEW r \in Req, NEW ok \in BOOLEAN, Answer(r, ok)
    PROVE  Core'
<1> DEFINE reqs == [pending EXCEPT ![r] = @ - 1]
<1>1. reqs \in [Req -> Nat]
  BY DEF Answer, Core
<1>2. r.dev \in Device /\ (r.ac # None => r.ac \in Ac)
      /\ (r.kind \in {"link_conf", "l3_conf"} => r.ac \in Ac)
  BY Zenon DEF Req
<1> HIDE DEF reqs
<1>3. CASE ActionConfirm(r, ok, reqs)
  <2>1. dstate' \in [Device -> DevStates] /\ pending' \in [Req -> Nat]
    BY <1>1, <1>2, <1>3, Zenon DEF ActionConfirm, Core, DevStates
  <2> QED
    BY <1>3, <2>1, Zenon DEF ActionConfirm, Core, nm, settings, Maps, Paired, Idle
<1>4. CASE LinkConfConfirm(r, ok, reqs)
  <2>1. CASE L3Conf(r.dev, r.ac, dstate, reqs) /\ UNCHANGED <<nm, shown, active, dac, crossed, settings, alive>>
    <3>1. dstate' \in [Device -> DevStates] /\ pending' \in [Req -> Nat] /\ alive' \in BOOLEAN
      BY <2>1, <1>1, <1>2, L3ConfTyped, Zenon DEF Core
    <3> QED
      BY <3>1, <2>1, DevicesInv, Zenon
  <2> QED
    BY <2>1, <1>1, <1>2, <1>4, DiesInv, GiveUpInv, Zenon DEF LinkConfConfirm
<1>5. CASE L3ConfConfirm(r, ok, reqs)
  <2>1. CASE ok /\ active[r.ac] # None
    <3>1. ConnectionsPaired /\ Maps(active, dac) /\ r.ac \in Ac
      BY <1>2, <1>5, Zenon DEF Core, ConnectionsPaired, Paired, L3ConfConfirm
    <3>2. Maps(active', dac) /\ Paired(active', dac)
      <4>1. active' = SetState(r.ac, "activated")
        BY <2>1, <1>5, Zenon DEF L3ConfConfirm, SetState
      <4> QED
        BY <4>1, <2>1, <3>1, StatePairs, Zenon
    <3>3. state' \in States /\ Idle(state', active')
      BY <2>1, <1>5 DEF L3ConfConfirm, Idle, States, CONNECTED_GLOBAL, CONNECTING, ASLEEP, DISCONNECTING
    <3>4. dstate' \in [Device -> DevStates] /\ pending' \in [Req -> Nat]
      BY <2>1, <1>1, <1>2, <1>5, Zenon DEF L3ConfConfirm, Core, DevStates
    <3> QED
      BY <2>1, <1>5, <3>2, <3>3, <3>4, Zenon DEF L3ConfConfirm, Core, settings
  <2> QED
    BY <2>1, <1>1, <1>2, <1>5, DiesInv, GiveUpInv, Zenon DEF L3ConfConfirm
<1> QED
  BY <1>3, <1>4, <1>5, Zenon DEF Answer, reqs

\* link_up and links_detected.
LEMMA LinkUpInv ==
    ASSUME Core, NEW d \in Device, LinkUp(d)
    PROVE  Core'
<1>1. CASE UNCHANGED <<nm, objects, settings, pending, alive>>
  BY <1>1, Zenon DEF Core, nm, objects, settings, Maps, Paired, Idle
<1>2. CASE L3Conf(d, dac[d], dstate, pending) /\ UNCHANGED <<nm, shown, active, dac, crossed, settings, alive>>
  <2>1. dstate' \in [Device -> DevStates] /\ pending' \in [Req -> Nat] /\ alive' \in BOOLEAN
    BY <1>2, L3ConfTyped, Zenon DEF Core
  <2> QED
    BY <2>1, <1>2, DevicesInv, Zenon
<1> QED
  BY <1>1, <1>2, DiesInv, Zenon DEF LinkUp

LEMMA DetectedInv ==
    ASSUME Core, NEW d \in Device, NEW p \in AP, LinkDetected(d, p)
    PROVE  Core'
BY Zenon DEF LinkDetected, Core, nm, objects, Maps, Paired, Idle

\* link_down: what is left of the connections, and that the manager is disconnected
\* only when none of them is up or being set up.
LEMMA LinkDownInv ==
    ASSUME Core, NEW d \in Device, LinkDown(d)
    PROVE  Core'
<1> DEFINE act == AfterDrop(d)
           dc == IF Deliberate(d) THEN ClearedDac({d}) ELSE dac
           ds == IF Dropped(d) THEN [dstate EXCEPT ![d] = DEV_DISCONNECTED] ELSE dstate
           keep == state > DISCONNECTED /\ Acting(act) # {}
           update == /\ active' = act
                     /\ dac' = dc
                     /\ crossed' = AlsoCrossed(d)
                     /\ UNCHANGED <<networking, wireless, known, shown, settings, alive>>
<1>1. {d} \in SUBSET known /\ ConnectionsPaired /\ Maps(active, dac)
  BY Zenon DEF LinkDown, Core, ConnectionsPaired, Paired
<1>2. /\ Maps(act, dc) /\ Paired(act, dc)
      /\ \A e \in Device \ known : dc[e] = None
      /\ \A st : Idle(st, active) => Idle(st, act)
      /\ Crossed({d}, pending) \subseteq Ac
  <2>1. Crossed({d}, pending) \subseteq Ac
    BY <1>1, ClearIdle, Zenon
  <2>2. CASE Deliberate(d)
    BY <2>1, <2>2, <1>1, ClearIdle, Zenon DEF AfterDrop
  <2>3. CASE ~Deliberate(d) /\ Dropped(d) /\ shown[d] # None /\ active[shown[d]] # None
    <3>1. shown[d] \in Ac /\ act = SetState(shown[d], "unknown") /\ dc = dac
      BY <2>3, Zenon DEF AfterDrop, Core, SetState
    <3>2. /\ Maps(act, dac) /\ Paired(act, dac)
          /\ \A p \in Ac : act[p] = IF p = shown[d] THEN [active[p] EXCEPT !.state = "unknown"] ELSE active[p]
      BY <2>3, <3>1, <1>1, StatePairs
    <3>3. active[shown[d]] \in ActiveConnection
      BY <2>3, <3>1, Zenon DEF Core, Maps
    <3>4. [active[shown[d]] EXCEPT !.state = "unknown"].state = "unknown"
      BY <3>3, Zenon DEF ActiveConnection
    <3>5. \A st : Idle(st, active) => Idle(st, act)
      BY <2>3, <3>1, <3>2, <3>4, Zenon DEF Idle
    <3> QED
      BY <2>1, <3>1, <3>2, <3>5, Zenon DEF Core
  <2>4. CASE act = active /\ dc = dac
    BY <2>1, <2>4, Zenon DEF Core
  <2> QED
    BY <2>2, <2>3, <2>4, Zenon DEF AfterDrop, Dropped
<1>3. ds \in [Device -> DevStates]
  BY Zenon DEF Core, DevStates
<1>4. ASSUME update, state' \in States, Idle(state', act), dstate' \in [Device -> DevStates], pending' \in [Req -> Nat]
      PROVE  Core'
  <2> HIDE DEF act, dc
  <2>1. crossed' \subseteq Ac
    BY <1>2, <1>4, Zenon DEF Core, AlsoCrossed
  <2> QED
    BY <1>2, <1>4, <2>1, Zenon DEF Core, settings
<1>5. Idle(state, act) /\ state \in States
  BY <1>2, Zenon DEF Core
<1>6. CASE ~keep /\ state' = DISCONNECTED /\ dstate' = ds /\ update /\ UNCHANGED pending
  <2> HIDE DEF act, dc, ds
  <2>1. \A p \in Ac : act[p] # None => act[p].state = "unknown"
    <3>1. CASE Acting(act) = {}
      BY <3>1, <1>2, Zenon DEF Acting, Maps, ActiveConnection
    <3>2. CASE ~(state > DISCONNECTED)
      <4>1. state < CONNECTING
        BY <3>2, <1>5, StateOrder, Zenon
      <4> QED
        BY <4>1, <1>5, Zenon DEF Idle
    <3> QED
      BY <3>1, <3>2, <1>6, Zenon
  <2>2. DISCONNECTED \in States /\ Idle(DISCONNECTED, act)
    BY <2>1, StateOrder, Zenon DEF Idle
  <2>3. dstate' \in [Device -> DevStates] /\ pending' \in [Req -> Nat] /\ state' \in States
        /\ Idle(state', act)
    BY <1>3, <1>6, <2>2, Zenon DEF Core
  <2> HIDE DEF update
  <2> QED
    BY <1>4, <1>6, <2>3, Zenon
<1>7. CASE dstate' = ds /\ update /\ UNCHANGED <<state, pending>>
  BY <1>3, <1>4, <1>5, <1>7, Zenon DEF Core
<1>8. CASE \E path \in Acting(act) : L3Conf(act[path].dev, path, ds, pending) /\ update /\ UNCHANGED state
  <2>1. PICK path \in Acting(act) : L3Conf(act[path].dev, path, ds, pending) /\ update /\ UNCHANGED state
    BY <1>8, Zenon
  <2>2. act[path].dev \in Device
    BY <1>2, Zenon DEF Acting, Maps, ActiveConnection
  <2>3. dstate' \in [Device -> DevStates] /\ pending' \in [Req -> Nat]
    BY <2>1, <2>2, <1>3, L3ConfTyped, Zenon DEF Core
  <2> QED
    BY <1>4, <1>5, <2>1, <2>3, Zenon
<1>9. CASE Dies
  BY <1>9, DiesInv, Zenon
<1> QED
  BY <1>6, <1>7, <1>8, <1>9, Zenon DEF LinkDown

-----------------------------------------------------------------------------
\* The bounds on calls and losses.
LEMMA WorldInv ==
    ASSUME World, [Next]_vars
    PROVE  World'
<1>1. scenario' = scenario
  BY Zenon DEF Next, vars, world, ClientCall, Discover, Answer, LinkUp, LinkDown, LinkDetected
<1>2. calls' = calls \/ (calls > 0 /\ calls' = calls - 1)
  <2>1. CASE ClientCall
    BY <2>1, ZenonT(40)
       DEF ClientCall, Call, Enable, Sleep, SetWirelessEnabled, Disconnect, AddConnection, Update, Delete,
           ActivateConnection, AddAndActivateConnection
  <2>2. CASE ~ClientCall
    BY <2>2, Zenon DEF Next, vars, world, Discover, Answer, LinkUp, LinkDown, LinkDetected
  <2> QED
    BY <2>1, <2>2, Zenon
<1>3. drops' = drops \/ (drops > 0 /\ drops' = drops - 1)
  BY Zenon DEF Next, vars, world, ClientCall, Discover, Answer, LinkUp, LinkDown, LinkDetected
<1>4. mistaken' \subseteq Ac
  BY Zenon DEF World, Next, vars, world, ClientCall, Discover, Answer, LinkUp, LinkDown, LinkDetected, Mistaken
<1> QED
  BY <1>1, <1>2, <1>3, <1>4, ScenarioAssumption DEF World

\* Every step preserves the invariant.
LEMMA StepInv == Inv /\ [Next]_vars => Inv'
<1>0. Inv' <=> Core' /\ World'
  BY InvParts, PTL
<1> SUFFICES ASSUME Core, World, [Next]_vars
             PROVE  Core'
  BY <1>0, InvParts, WorldInv, Zenon
<1>1. CASE ClientCall
  <2>1. CASE \E on \in BOOLEAN : Enable(on) \/ Sleep(on) \/ SetWirelessEnabled(on)
    BY <2>1, EnableInv, SleepInv, WirelessInv, Zenon
  <2>2. CASE \E d \in Device : Disconnect(d)
    BY <2>2, DisconnectInv, Zenon
  <2>3. CASE \E c \in Conn : AddConnection(c) \/ Update(c) \/ Delete(c)
    BY <2>3, SettingsInv, Zenon
  <2>4. CASE \E c \in Conn, d \in Device : ActivateConnection(c, d)
    BY <2>4, ActivateConnectionInv, Zenon
  <2>5. CASE \E c \in Conn, d \in Device, p \in AP : AddAndActivateConnection(c, d, p)
    BY <2>5, AddAndActivateInv, Zenon
  <2> QED
    BY <1>1, <2>1, <2>2, <2>3, <2>4, <2>5, Zenon DEF ClientCall
<1>2. CASE Discover
  BY <1>2, DiscoverInv, Zenon
<1>3. CASE \E r \in Req, ok \in BOOLEAN : Answer(r, ok)
  BY <1>3, AnswerInv, Zenon
<1>4. CASE \E d \in Device : LinkUp(d) \/ LinkDown(d)
  BY <1>4, LinkUpInv, LinkDownInv, Zenon
<1>5. CASE \E d \in Device, p \in AP : LinkDetected(d, p)
  BY <1>5, DetectedInv, Zenon
<1>6. CASE UNCHANGED vars
  BY <1>6, Zenon DEF vars, nm, objects, settings, Core, Maps, Paired, Idle
<1> QED
  BY <1>1, <1>2, <1>3, <1>4, <1>5, <1>6, Zenon DEF Next

\* The manager starts without devices and connections.
LEMMA InitInv == Init => Inv
<1> SUFFICES ASSUME Init
             PROVE  Inv
  BY Zenon
<1>1. World
  <2>1. scenario \in Scenarios /\ calls = scenario.max /\ drops = scenario.drops /\ mistaken \subseteq Ac
    BY Zenon DEF Init
  <2>2. scenario.max \in Nat /\ scenario.drops \in Nat
    BY <2>1, ScenarioAssumption, Zenon
  <2> QED
    BY <2>1, <2>2 DEF World
<1>2. /\ state \in States /\ dstate \in [Device -> DevStates] /\ conns \in [Conn -> ConnTypes]
      /\ pending \in [Req -> Nat] /\ shown \in [Device -> Ac \cup {None}] /\ crossed \subseteq Ac
  BY Zenon DEF Init, States, DevStates, ConnTypes
<1>3. Maps(active, dac) /\ Paired(active, dac) /\ Idle(state, active)
  BY Zenon DEF Init, Maps, Paired, Idle
<1>4. wireless \in BOOLEAN
  BY ScenarioAssumption, Zenon DEF Init
<1>5. Core
  BY <1>2, <1>3, <1>4, Zenon DEF Init, Core
<1> QED
  BY <1>1, <1>5, InvParts, Zenon

\* What DiesOnStaleAnswerOnly gives as the reasons for the end of the process.
Cause == \/ \E r \in Req : pending[r] > 0 /\ r.ac # None /\ active[r.ac] = None
         \/ \E p \in Ac : active[p] # None /\ conns[active[p].conn] # "usable"
         \/ \E c \in Conn : conns[c] = "deleted"

\* A handler that throws has one of the first two reasons.
LEMMA DiesCause ==
    ASSUME Core, alive, [Next]_vars, ~alive'
    PROVE  (Cause /\ Dies) \/ \E c \in Conn : Delete(c)
<1> USE DEF Configurable, Cause
<1>1. ASSUME NEW r \in Req, NEW ok \in BOOLEAN, Answer(r, ok)
      PROVE  Cause /\ Dies
  <2>1. Dies /\ pending[r] > 0 /\ r.kind \in {"link_conf", "l3_conf"}
        /\ (active[r.ac] = None \/ ~Configurable(active, r.ac))
    BY <1>1, Zenon DEF Answer, ActionConfirm, LinkConfConfirm, L3ConfConfirm
  <2>2. r.ac \in Ac /\ r.ac # None
    BY <2>1, AcFact, Zenon DEF Req
  <2> QED
    BY <2>1, <2>2, Zenon
<1>2. ASSUME NEW d \in Device, LinkUp(d)
      PROVE  Cause /\ Dies
  <2>1. Dies /\ Lost(d) /\ ~Configurable(active, dac[d])
    BY <1>2, Zenon DEF LinkUp
  <2>2. dac[d] \in Ac
    BY <2>1, Zenon DEF Lost, Core, Maps
  <2> QED
    BY <2>1, <2>2, Zenon DEF Lost
<1>3. ASSUME NEW d \in Device, LinkDown(d)
      PROVE  Cause /\ Dies
  <2> DEFINE act == AfterDrop(d)
  <2>1. Dies /\ \E path \in Acting(act) : ~Configurable(act, path)
    BY <1>3, Zenon DEF LinkDown
  <2>2. PICK path \in Ac : act[path] # None /\ ~Configurable(act, path)
    BY <2>1, Zenon DEF Acting
  <2>3. active[path] # None /\ active[path].conn = act[path].conn
    <3>1. CASE act = ClearedActive({d})
      BY <3>1, <2>2, Zenon DEF ClearedActive
    <3>2. CASE act = active
      BY <3>2, <2>2, Zenon
    <3>3. CASE shown[d] # None /\ active[shown[d]] # None /\ act = [active EXCEPT ![shown[d]].state = "unknown"]
      <4>1. shown[d] \in Ac /\ active[shown[d]] \in ActiveConnection
        BY <3>3, Zenon DEF Core, Maps
      <4>2. [active[shown[d]] EXCEPT !.state = "unknown"].conn = active[shown[d]].conn
        BY <4>1, Zenon DEF ActiveConnection
      <4>3. act[path] = IF path = shown[d] THEN [active[path] EXCEPT !.state = "unknown"] ELSE active[path]
        BY <3>3, Zenon DEF Core, Maps
      <4> QED
        BY <3>3, <4>2, <4>3, <2>2, Zenon
    <3> QED
      BY <3>1, <3>2, <3>3, Zenon DEF AfterDrop
  <2> QED
    BY <2>1, <2>2, <2>3, Zenon
<1>4. CASE ClientCall
  <2>1. \A on \in BOOLEAN : ~Enable(on) /\ ~Sleep(on) /\ ~SetWirelessEnabled(on)
    BY Zenon DEF Enable, Sleep, SetWirelessEnabled
  <2>2. /\ \A d \in Device : ~Disconnect(d)
        /\ \A c \in Conn : ~AddConnection(c) /\ ~Update(c)
    BY Zenon DEF Disconnect, AddConnection, Update
  <2>3. \A c \in Conn, d \in Device : \A set : ~Activate(c, d, set)
    BY ZenonT(40) DEF Activate
  <2>4. \A c \in Conn, d \in Device : ~ActivateConnection(c, d)
    BY <2>3, Zenon DEF ActivateConnection
  <2>5. \A c \in Conn, d \in Device, p \in AP : ~AddAndActivateConnection(c, d, p)
    BY <2>3, ZenonT(40) DEF AddAndActivateConnection
  <2> QED
    BY <1>4, <2>1, <2>2, <2>4, <2>5, Zenon DEF ClientCall
<1>5. ~Discover /\ ~(\E d \in Device, p \in AP : LinkDetected(d, p)) /\ ~UNCHANGED vars
  BY Zenon DEF vars, Discover, LinkDetected
<1> QED
  BY <1>1, <1>2, <1>3, <1>4, <1>5, Zenon DEF Next

\* No handler runs after the end of the process.
LEMMA DeadStays ==
    ASSUME ~alive, [Next]_vars
    PROVE  UNCHANGED vars
BY ZenonT(40)
   DEF Next, ClientCall, Call, Enable, Sleep, SetWirelessEnabled, Disconnect, AddConnection, Update, Delete,
       ActivateConnection, AddAndActivateConnection, Discover, Answer, LinkUp, LinkDown, LinkDetected

\* In every reachable state _active_connections and _device_active_connection
\* agree, so that clear_connections never erases what is not there, whatever the
\* order of calls, answers and events.
THEOREM ManagerPaired == Spec => []ConnectionsPaired
<1>1. Inv => ConnectionsPaired
  BY Zenon DEF Inv
<1> QED
  BY <1>1, InitInv, StepInv, PTL DEF Spec

\* In every reachable state a manager that is asleep, disconnecting or
\* disconnected has no connection that is up or being set up.
THEOREM ManagerIdle == Spec => []IdleIsIdle
<1>1. Inv => IdleIsIdle
  BY Zenon DEF Inv
<1> QED
  BY <1>1, InitInv, StepInv, PTL DEF Spec

\* The types of the variables.
THEOREM ManagerTypes == Spec => []ManagerTypeOK
<1>1. Inv => ManagerTypeOK
  BY Zenon DEF Inv
<1> QED
  BY <1>1, InitInv, StepInv, PTL DEF Spec

\* The process ends only at an answer about a connection that was removed before
\* it, at a connection whose settings are not supported, or after settings were
\* deleted.
THEOREM ManagerDies == Spec => []DiesOnStaleAnswerOnly
<1>1. DiesOnStaleAnswerOnly <=> alive \/ Cause
  BY Zenon DEF DiesOnStaleAnswerOnly, Cause
<1>2. Init => DiesOnStaleAnswerOnly
  BY Zenon DEF Init, DiesOnStaleAnswerOnly
<1>3. Inv /\ DiesOnStaleAnswerOnly /\ [Next]_vars => DiesOnStaleAnswerOnly'
  <2> SUFFICES ASSUME Core, alive \/ Cause, [Next]_vars, ~alive'
               PROVE  Cause'
    BY <1>1, InvParts, Zenon DEF DiesOnStaleAnswerOnly, Cause
  <2>1. CASE Cause /\ UNCHANGED <<pending, active, conns>>
    BY <2>1, Zenon DEF Cause
  <2>2. ASSUME NEW c \in Conn, Delete(c) PROVE Cause'
    <3>1. conns'[c] = "deleted"
      BY <2>2, Zenon DEF Delete, Core
    <3> QED
      BY <3>1, Zenon DEF Cause
  <2>3. CASE alive
    BY <2>1, <2>2, <2>3, DiesCause, Zenon DEF Dies, objects, settings
  <2>4. CASE ~alive
    BY <2>1, <2>4, DeadStays, Zenon DEF vars, objects, settings
  <2> QED
    BY <2>3, <2>4, Zenon
<1> QED
  BY <1>2, <1>3, InitInv, StepInv, PTL DEF Spec

-----------------------------------------------------------------------------
(***************************************************************************)
(* The requests about a connection that is not in crossed are those of its *)
(* present activation.                                                     *)
(***************************************************************************)
LinkConfOf(d, p) == Conf("link_conf", d, p)
L3ConfOf(d, p)   == Conf("l3_conf", d, p)

\* A connection that does not exist has no requests; one that does has them for its
\* device, and link_conf only while it is activating, once and before l3_conf.
FitsOne(a, reqs, p) ==
    /\ a = None => \A r \in Req : r.ac = p => reqs[r] = 0
    /\ a # None =>
           /\ \A r \in Req : r.ac = p /\ reqs[r] # 0 => r.dev = a.dev
           /\ \/ reqs[LinkConfOf(a.dev, p)] = 0
              \/ /\ a.state = "activating"
                 /\ reqs[LinkConfOf(a.dev, p)] = 1 /\ reqs[L3ConfOf(a.dev, p)] = 0

Fits(act, reqs, cr) == \A p \in Ac \ cr : FitsOne(act[p], reqs, p)

\* The two requests about a connection.
LEMMA ConfFacts ==
    ASSUME NEW d \in Device, NEW p \in Ac
    PROVE  /\ LinkConfOf(d, p) \in Req /\ L3ConfOf(d, p) \in Req
           /\ LinkConfOf(d, p).ac = p /\ L3ConfOf(d, p).ac = p
           /\ LinkConfOf(d, p).dev = d /\ L3ConfOf(d, p).dev = d
           /\ LinkConfOf(d, p) # L3ConfOf(d, p)
<1>1. LinkConfOf(d, p).kind = "link_conf" /\ L3ConfOf(d, p).kind = "l3_conf"
  BY Zenon DEF LinkConfOf, L3ConfOf, Conf
<1>2. LinkConfOf(d, p) # L3ConfOf(d, p)
  BY <1>1
<1>3. LinkConfOf(d, p) \in Req /\ L3ConfOf(d, p) \in Req
  BY Zenon DEF LinkConfOf, L3ConfOf, Conf, Req
<1> QED
  BY <1>2, <1>3, Zenon DEF LinkConfOf, L3ConfOf, Conf

LEMMA ConfOf ==
    ASSUME NEW r \in Req
    PROVE  /\ r.kind = "link_conf" => r.ac \in Ac /\ r.dev \in Device /\ r = LinkConfOf(r.dev, r.ac)
           /\ r.kind = "l3_conf" => r.ac \in Ac /\ r.dev \in Device /\ r = L3ConfOf(r.dev, r.ac)
<1>1. \/ r \in [kind : {"disconnect", "power_up", "power_down"}, dev : Device, ac : {None}]
      \/ r \in [kind : {"link_conf", "l3_conf"}, dev : Device, ac : Ac]
  BY Zenon DEF Req
<1> QED
  BY <1>1 DEF LinkConfOf, L3ConfOf, Conf

LEMMA Counts == \A n \in Nat : (n > 0 <=> n # 0) /\ n + 1 # 0 /\ (n = 0 => n + 1 = 1) /\ (n = 1 => n - 1 = 0)
OBVIOUS

\* Requests that are not about a connection change nothing.
LEMMA FitsActions ==
    ASSUME NEW act, NEW reqs, NEW cr, Fits(act, reqs, cr), \A p \in Ac : act[p] # None => act[p].dev \in Device,
           NEW new, \A r \in new : r.ac = None
    PROVE  Fits(act, With(reqs, new), cr)
<1> DEFINE more == With(reqs, new)
<1>1. \A r \in Req : r.ac \in Ac => more[r] = reqs[r]
  BY AcFact, Zenon DEF With
<1> HIDE DEF more
<1>2. ASSUME NEW p \in Ac \ cr
      PROVE  FitsOne(act[p], more, p)
  <2>1. FitsOne(act[p], reqs, p)
    BY Zenon DEF Fits
  <2>2. act[p] # None => /\ more[LinkConfOf(act[p].dev, p)] = reqs[LinkConfOf(act[p].dev, p)]
                         /\ more[L3ConfOf(act[p].dev, p)] = reqs[L3ConfOf(act[p].dev, p)]
    <3>1. act[p] # None => /\ LinkConfOf(act[p].dev, p) \in Req /\ LinkConfOf(act[p].dev, p).ac = p
                           /\ L3ConfOf(act[p].dev, p) \in Req /\ L3ConfOf(act[p].dev, p).ac = p
      BY ConfFacts
    <3> QED
      BY <1>1, <3>1, Zenon
  <2> QED
    BY <1>1, <2>1, <2>2, Zenon DEF FitsOne
<1> QED
  BY <1>2, Zenon DEF Fits, more

\* A connection with unanswered requests is crossed when it is removed.
LEMMA FitsClear ==
    ASSUME NEW reqs \in [Req -> Nat], Fits(active, reqs, crossed), NEW D
    PROVE  Fits(ClearedActive(D), reqs, Crossed(D, reqs))
<1>1. ASSUME NEW p \in Ac \ Crossed(D, reqs)
      PROVE  FitsOne(ClearedActive(D)[p], reqs, p)
  <2>1. ClearedActive(D)[p] = IF \E d \in D : dac[d] = p THEN None ELSE active[p]
    BY Zenon DEF ClearedActive
  <2>2. CASE \E d \in D : dac[d] = p
    <3>1. \A r \in Req : r.ac = p => ~(reqs[r] > 0)
      BY <2>2, Zenon DEF Crossed
    <3>2. \A r \in Req : r.ac = p => reqs[r] = 0
      BY <3>1, Counts, Zenon
    <3> QED
      BY <2>1, <2>2, <3>2, Zenon DEF FitsOne
  <2>3. CASE ~ \E d \in D : dac[d] = p
    BY <2>1, <2>3, Zenon DEF Fits, Crossed
  <2> QED
    BY <2>2, <2>3, Zenon
<1> QED
  BY <1>1, Zenon DEF Fits

\* An answer takes one request away.
LEMMA FitsLess ==
    ASSUME Maps(active, dac), pending \in [Req -> Nat], Fits(active, pending, crossed),
           NEW r \in Req, pending[r] > 0, NEW reqs, reqs = [pending EXCEPT ![r] = @ - 1]
    PROVE  /\ Fits(active, reqs, crossed)
           /\ r.ac \in Ac \ crossed =>
                  /\ active[r.ac] # None /\ active[r.ac].dev = r.dev
                  /\ r.kind \in {"link_conf", "l3_conf"} => reqs[LinkConfOf(r.dev, r.ac)] = 0
<1>1. /\ \A q \in Req : q # r => reqs[q] = pending[q]
      /\ reqs[r] = pending[r] - 1
      /\ pending[r] # 0 /\ (pending[r] = 1 => reqs[r] = 0)
  <2>1. pending[r] \in Nat
    BY Zenon
  <2> QED
    BY <2>1, Counts, Zenon
<1>2. \A p \in Ac : active[p] # None => active[p].dev \in Device
  BY Zenon DEF Maps, ActiveConnection
<1>3. ASSUME NEW p \in Ac \ crossed
      PROVE  FitsOne(active[p], reqs, p)
  <2>1. FitsOne(active[p], pending, p)
    BY Zenon DEF Fits
  <2>2. CASE active[p] = None
    BY <1>1, <2>1, <2>2, Zenon DEF FitsOne
  <2>3. CASE active[p] # None
    <3> DEFINE l == LinkConfOf(active[p].dev, p)
               m == L3ConfOf(active[p].dev, p)
    <3>1. l \in Req /\ m \in Req /\ l # m
      BY <1>2, <2>3, ConfFacts, Zenon
    <3>2. /\ \A q \in Req : q.ac = p /\ pending[q] # 0 => q.dev = active[p].dev
          /\ pending[l] = 0 \/ (active[p].state = "activating" /\ pending[l] = 1 /\ pending[m] = 0)
      BY <2>1, <2>3, Zenon DEF FitsOne
    <3> HIDE DEF l, m
    <3>3. reqs[l] = 0 \/ (active[p].state = "activating" /\ reqs[l] = 1 /\ reqs[m] = 0)
      BY <1>1, <3>1, <3>2, Zenon
    <3>4. \A q \in Req : q.ac = p /\ reqs[q] # 0 => q.dev = active[p].dev
      BY <1>1, <3>2, Zenon
    <3> QED
      BY <2>3, <3>3, <3>4, Zenon DEF FitsOne, l, m
  <2> QED
    BY <2>2, <2>3, Zenon
<1>4. ASSUME r.ac \in Ac \ crossed
      PROVE  /\ active[r.ac] # None /\ active[r.ac].dev = r.dev
             /\ r.kind \in {"link_conf", "l3_conf"} => reqs[LinkConfOf(r.dev, r.ac)] = 0
  <2>1. FitsOne(active[r.ac], pending, r.ac)
    BY <1>4, Zenon DEF Fits
  <2>2. active[r.ac] # None /\ active[r.ac].dev = r.dev
    BY <1>1, <2>1, Zenon DEF FitsOne
  <2>3. \/ pending[LinkConfOf(r.dev, r.ac)] = 0
        \/ pending[LinkConfOf(r.dev, r.ac)] = 1 /\ pending[L3ConfOf(r.dev, r.ac)] = 0
    BY <2>1, <2>2, Zenon DEF FitsOne
  <2>4. LinkConfOf(r.dev, r.ac) \in Req /\ L3ConfOf(r.dev, r.ac) \in Req
    BY <1>2, <1>4, <2>2, ConfFacts, Zenon
  <2>5. CASE r.kind = "link_conf"
    <3>1. r = LinkConfOf(r.dev, r.ac)
      BY <2>5, ConfOf, Zenon
    <3> QED
      BY <1>1, <2>2, <2>3, <3>1, Zenon
  <2>6. CASE r.kind = "l3_conf"
    <3>1. r.dev \in Device
      BY <2>6, ConfOf, Zenon
    <3>2. LinkConfOf(r.dev, r.ac) # L3ConfOf(r.dev, r.ac)
      BY <1>4, <3>1, ConfFacts, Zenon
    <3>3. r = L3ConfOf(r.dev, r.ac)
      BY <2>6, ConfOf, Zenon
    <3> QED
      BY <1>1, <2>2, <2>3, <2>4, <3>2, <3>3, Zenon
  <2> QED
    BY <2>2, <2>5, <2>6, Zenon
<1> QED
  BY <1>3, <1>4, Zenon DEF Fits

\* l3_conf is sent when the link is up.
LEMMA FitsL3 ==
    ASSUME NEW act, NEW reqs \in [Req -> Nat], NEW cr, Fits(act, reqs, cr),
           \A q \in Ac : act[q] # None => act[q].dev \in Device,
           NEW d \in Device, NEW p \in Ac,
           p \notin cr => act[p] # None /\ act[p].dev = d /\ reqs[LinkConfOf(d, p)] = 0
    PROVE  Fits(act, With(reqs, {Conf("l3_conf", d, p)}), cr)
<1> DEFINE more == With(reqs, {L3ConfOf(d, p)})
<1>1. \A r \in Req : r # L3ConfOf(d, p) => more[r] = reqs[r]
  BY Zenon DEF With
<1>2. L3ConfOf(d, p).ac = p /\ L3ConfOf(d, p).dev = d /\ LinkConfOf(d, p) \in Req /\ LinkConfOf(d, p) # L3ConfOf(d, p)
  BY ConfFacts, Zenon
<1> HIDE DEF more
<1>3. ASSUME NEW q \in Ac \ cr
      PROVE  FitsOne(act[q], more, q)
  <2>1. FitsOne(act[q], reqs, q)
    BY Zenon DEF Fits
  <2>2. CASE q = p
    <3>1. more[LinkConfOf(d, p)] = 0
      BY <1>1, <1>2, <1>3, <2>2, Zenon
    <3> QED
      BY <1>1, <1>2, <1>3, <2>1, <2>2, <3>1, Zenon DEF FitsOne
  <2>3. CASE q # p
    <3>1. \A r \in Req : r.ac = q => more[r] = reqs[r]
      BY <1>1, <1>2, <2>3, Zenon
    <3>2. act[q] # None => /\ more[LinkConfOf(act[q].dev, q)] = reqs[LinkConfOf(act[q].dev, q)]
                           /\ more[L3ConfOf(act[q].dev, q)] = reqs[L3ConfOf(act[q].dev, q)]
      <4>1. act[q] # None => /\ LinkConfOf(act[q].dev, q) \in Req /\ LinkConfOf(act[q].dev, q).ac = q
                             /\ L3ConfOf(act[q].dev, q) \in Req /\ L3ConfOf(act[q].dev, q).ac = q
        BY ConfFacts
      <4> QED
        BY <3>1, <4>1, Zenon
    <3> QED
      BY <2>1, <3>1, <3>2, Zenon DEF FitsOne
  <2> QED
    BY <2>2, <2>3, Zenon
<1> QED
  BY <1>3, Zenon DEF Fits, more, L3ConfOf

\* A new active connection, and its link_conf.
LEMMA FitsActivate ==
    ASSUME NEW act \in [Ac -> ActiveConnection \cup {None}], NEW reqs \in [Req -> Nat], NEW cr, Fits(act, reqs, cr),
           NEW d \in Device, NEW p \in Ac, act[p] = None, NEW c \in Conn
    PROVE  Fits([act EXCEPT ![p] = [conn |-> c, dev |-> d, state |-> "activating"]],
                With(reqs, {Conf("link_conf", d, p)}), cr)
<1> DEFINE a == [conn |-> c, dev |-> d, state |-> "activating"]
           new == [act EXCEPT ![p] = a]
           more == With(reqs, {LinkConfOf(d, p)})
<1>1. /\ \A r \in Req : r # LinkConfOf(d, p) => more[r] = reqs[r]
      /\ LinkConfOf(d, p) \in Req => more[LinkConfOf(d, p)] = reqs[LinkConfOf(d, p)] + 1
  BY Zenon DEF With
<1>2. /\ LinkConfOf(d, p).ac = p /\ LinkConfOf(d, p).dev = d /\ LinkConfOf(d, p) \in Req
      /\ L3ConfOf(d, p) \in Req /\ L3ConfOf(d, p).ac = p /\ LinkConfOf(d, p) # L3ConfOf(d, p)
  BY ConfFacts, Zenon
<1>3. a.dev = d /\ a.state = "activating" /\ a # None
  <2>1. a \in ActiveConnection
    BY Zenon DEF ActiveConnection
  <2> QED
    BY <2>1, ConnAssumption, Zenon
<1>4. new[p] = a /\ \A q \in Ac : q # p => new[q] = act[q]
  BY Zenon
<1>5. \A q \in Ac : act[q] # None => act[q].dev \in Device
  BY Zenon DEF ActiveConnection
<1> HIDE DEF more, a, new
<1>6. ASSUME NEW q \in Ac \ cr
      PROVE  FitsOne(new[q], more, q)
  <2>1. FitsOne(act[q], reqs, q)
    BY Zenon DEF Fits
  <2>2. CASE q = p
    <3>1. \A r \in Req : r.ac = p => reqs[r] = 0
      BY <2>1, <2>2, Zenon DEF FitsOne
    <3>2. reqs[LinkConfOf(d, p)] = 0 /\ reqs[L3ConfOf(d, p)] = 0 /\ 0 + 1 = 1
      BY <1>2, <3>1
    <3>3. more[LinkConfOf(d, p)] = 1 /\ more[L3ConfOf(d, p)] = 0
      BY <1>1, <1>2, <3>2, Zenon
    <3>4. \A r \in Req : r.ac = p /\ more[r] # 0 => r.dev = d
      BY <1>1, <1>2, <3>1, Zenon
    <3> QED
      BY <1>3, <1>4, <2>2, <3>3, <3>4, Zenon DEF FitsOne
  <2>3. CASE q # p
    <3>1. \A r \in Req : r.ac = q => more[r] = reqs[r]
      BY <1>1, <1>2, <2>3, Zenon
    <3>2. act[q] # None => /\ more[LinkConfOf(act[q].dev, q)] = reqs[LinkConfOf(act[q].dev, q)]
                           /\ more[L3ConfOf(act[q].dev, q)] = reqs[L3ConfOf(act[q].dev, q)]
      <4>1. act[q] # None => /\ LinkConfOf(act[q].dev, q) \in Req /\ LinkConfOf(act[q].dev, q).ac = q
                             /\ L3ConfOf(act[q].dev, q) \in Req /\ L3ConfOf(act[q].dev, q).ac = q
        BY <1>5, ConfFacts
      <4> QED
        BY <3>1, <4>1, Zenon
    <3>3. new[q] = act[q]
      BY <1>4, <2>3, Zenon
    <3> QED
      BY <2>1, <3>1, <3>2, <3>3, Zenon DEF FitsOne
  <2> QED
    BY <2>2, <2>3, Zenon
<1> QED
  BY <1>6, Zenon DEF Fits, more, new, a, LinkConfOf

\* A connection changes its state only when its link_conf is answered.
LEMMA FitsState ==
    ASSUME Maps(active, dac), NEW reqs, NEW cr, crossed \subseteq cr, Fits(active, reqs, crossed),
           NEW p \in Ac, active[p] # None, NEW s \in {"activating", "activated", "unknown"},
           p \in Ac \ cr => reqs[LinkConfOf(active[p].dev, p)] = 0
    PROVE  Fits(SetState(p, s), reqs, cr)
<1>1. /\ \A q \in Ac : q # p => SetState(p, s)[q] = active[q]
      /\ SetState(p, s)[p] = [active[p] EXCEPT !.state = s]
  BY Zenon DEF SetState, Maps
<1>2. active[p] \in ActiveConnection
  BY Zenon DEF Maps
<1>3. [active[p] EXCEPT !.state = s].dev = active[p].dev /\ [active[p] EXCEPT !.state = s] \in ActiveConnection
  BY <1>2, Zenon DEF ActiveConnection
<1>4. ASSUME NEW q \in Ac \ cr
      PROVE  FitsOne(SetState(p, s)[q], reqs, q)
  <2>1. FitsOne(active[q], reqs, q)
    BY Zenon DEF Fits
  <2>2. CASE q = p
    <3> DEFINE a == [active[p] EXCEPT !.state = s]
    <3>1. /\ \A r \in Req : r.ac = p /\ reqs[r] # 0 => r.dev = active[p].dev
          /\ reqs[LinkConfOf(active[p].dev, p)] = 0
      BY <2>1, <2>2, <1>4, Zenon DEF FitsOne
    <3>2. a # None /\ a.dev = active[p].dev
      BY <1>3, ConnAssumption, Zenon
    <3> HIDE DEF a
    <3>3. FitsOne(a, reqs, p)
      BY <3>1, <3>2, Zenon DEF FitsOne
    <3> QED
      BY <1>1, <2>2, <3>3, Zenon DEF a
  <2>3. CASE q # p
    BY <1>1, <2>1, <2>3, Zenon
  <2> QED
    BY <2>2, <2>3, Zenon
<1> QED
  BY <1>4, Zenon DEF Fits

\* The invariant, which with Inv is inductive.
Unmixed == Fits(active, pending, crossed)

\* clear_connections, and the requests sent with it.
LEMMA FitsCleared ==
    ASSUME Maps(active, dac), NEW reqs \in [Req -> Nat], Fits(active, reqs, crossed), NEW D,
           NEW new, \A r \in new : r.ac = None
    PROVE  Fits(ClearedActive(D), With(reqs, new), Crossed(D, reqs))
<1>1. \A p \in Ac : ClearedActive(D)[p] # None => ClearedActive(D)[p].dev \in Device
  BY Zenon DEF ClearedActive, Maps, ActiveConnection
<1>2. Fits(ClearedActive(D), reqs, Crossed(D, reqs))
  BY FitsClear, Zenon
<1> QED
  BY <1>1, <1>2, FitsActions, Zenon

\* A step that leaves the connections alone.
LEMMA UnmixedOther ==
    ASSUME Core, Unmixed, UNCHANGED <<active, crossed>>,
           \/ UNCHANGED pending
           \/ \E new : pending' = With(pending, new) /\ \A r \in new : r.ac = None
    PROVE  Unmixed'
<1>1. \A p \in Ac : active[p] # None => active[p].dev \in Device
  BY Zenon DEF Core, Maps, ActiveConnection
<1>2. CASE UNCHANGED pending
  BY <1>2, Zenon DEF Unmixed
<1>3. CASE \E new : pending' = With(pending, new) /\ \A r \in new : r.ac = None
  BY <1>1, <1>3, FitsActions, Zenon DEF Unmixed
<1> QED
  BY <1>2, <1>3, Zenon

LEMMA ActionFact == \A k, d : Action(k, d).ac = None
BY Zenon DEF Action

\* Enable, Sleep and WirelessEnabled.
LEMMA UnmixedSwitch ==
    ASSUME Core, Unmixed, NEW on \in BOOLEAN, Enable(on) \/ Sleep(on) \/ SetWirelessEnabled(on)
    PROVE  Unmixed'
<1>1. Maps(active, dac) /\ pending \in [Req -> Nat] /\ Fits(active, pending, crossed)
  BY Zenon DEF Core, Unmixed
<1>2. ASSUME NEW D, NEW k, Clear(D, pending), pending' = With(pending, {Action(k, d) : d \in D})
      PROVE  Unmixed'
  <2>1. \A r \in {Action(k, d) : d \in D} : r.ac = None
    BY ActionFact, Zenon
  <2> QED
    BY <1>1, <1>2, <2>1, FitsCleared, Zenon DEF Clear, Unmixed
<1>3. CASE Enable(on)
  BY <1>2, <1>3, UnmixedOther, Zenon DEF Enable, objects
<1>4. CASE Sleep(on)
  BY <1>2, <1>4, UnmixedOther, Zenon DEF Sleep, objects
<1>5. CASE SetWirelessEnabled(on)
  <2>1. CASE on
    <3>1. \A r \in {Action("power_up", d) : d \in known \cap Wifi} : r.ac = None
      BY ActionFact, Zenon
    <3> QED
      BY <1>5, <2>1, <3>1, UnmixedOther, Zenon DEF SetWirelessEnabled
  <2>2. CASE ~on
    BY <1>2, <1>5, <2>2, Zenon DEF SetWirelessEnabled
  <2> QED
    BY <2>1, <2>2, Zenon
<1> QED
  BY <1>3, <1>4, <1>5, Zenon

\* The calls that change settings, Disconnect, the discovery and links_detected.
LEMMA UnmixedIdle ==
    ASSUME Core, Unmixed,
           \/ \E d \in Device : Disconnect(d)
           \/ \E c \in Conn : AddConnection(c) \/ Update(c) \/ Delete(c)
           \/ Discover
           \/ \E d \in Device, p \in AP : LinkDetected(d, p)
           \/ UNCHANGED vars
    PROVE  Unmixed'
<1>1. ASSUME NEW d \in Device, Disconnect(d) PROVE Unmixed'
  <2> DEFINE new == {Action("disconnect", d)}
  <2>1. \A r \in new : r.ac = None
    BY ActionFact, Zenon
  <2>2. pending' = With(pending, new) /\ UNCHANGED <<active, crossed>>
    BY <1>1, Zenon DEF Disconnect
  <2> HIDE DEF new
  <2> QED
    BY <2>1, <2>2, UnmixedOther, Zenon
<1>2. CASE Discover
  <2>1. PICK on : pending' = With(pending, {Action("power_up", d) : d \in on}
                                           \cup {Action("power_down", d) : d \in scenario.devs \ on})
    BY <1>2, Zenon DEF Discover
  <2>2. \A r \in {Action("power_up", d) : d \in on} \cup {Action("power_down", d) : d \in scenario.devs \ on} :
            r.ac = None
    BY ActionFact, Zenon
  <2> QED
    BY <1>2, <2>1, <2>2, UnmixedOther, Zenon DEF Discover
<1>3. CASE \E c \in Conn : AddConnection(c) \/ Update(c) \/ Delete(c)
  BY <1>3, UnmixedOther, Zenon DEF AddConnection, Update, Delete, objects
<1>4. CASE \E d \in Device, p \in AP : LinkDetected(d, p)
  BY <1>4, UnmixedOther, Zenon DEF LinkDetected, objects
<1>5. CASE UNCHANGED vars
  BY <1>5, UnmixedOther, Zenon DEF vars, objects
<1> QED
  BY <1>1, <1>2, <1>3, <1>4, <1>5, Zenon

\* ActivateConnection.
LEMMA UnmixedActivate ==
    ASSUME Core, Unmixed, NEW c \in Conn, NEW d \in known, NEW set, Activate(c, d, set)
    PROVE  Unmixed'
<1> DEFINE act == ClearedActive({d})
           cr == Crossed({d}, pending)
<1>1. /\ Maps(active, dac) /\ pending \in [Req -> Nat] /\ Fits(active, pending, crossed)
      /\ d \in Device /\ Uuid[c] \in Ac
  BY Zenon DEF Core, Unmixed, Ac
<1>2. act \in [Ac -> ActiveConnection \cup {None}] /\ Fits(act, pending, cr)
  BY <1>1, FitsClear, Zenon DEF ClearedActive, Maps
<1>3. \/ active' = act /\ pending' = pending /\ crossed' = cr
      \/ /\ act[Uuid[c]] = None /\ crossed' = cr
         /\ active' = [act EXCEPT ![Uuid[c]] = [conn |-> c, dev |-> d, state |-> "activating"]]
         /\ pending' = With(pending, {Conf("link_conf", d, Uuid[c])})
  BY Zenon DEF Activate, PathFree
<1> HIDE DEF act, cr
<1>4. act[Uuid[c]] = None =>
          Fits([act EXCEPT ![Uuid[c]] = [conn |-> c, dev |-> d, state |-> "activating"]],
               With(pending, {Conf("link_conf", d, Uuid[c])}), cr)
  BY <1>1, <1>2, FitsActivate, Zenon
<1> QED
  BY <1>2, <1>3, <1>4, Zenon DEF Unmixed

LEMMA UnmixedActivation ==
    ASSUME Core, Unmixed, NEW c \in Conn, NEW d \in Device,
           ActivateConnection(c, d) \/ \E p \in AP : AddAndActivateConnection(c, d, p)
    PROVE  Unmixed'
<1>1. CASE \E s \in Conn : \E set : d \in known /\ Activate(s, d, set)
  BY <1>1, UnmixedActivate, Zenon
<1>2. CASE UNCHANGED <<objects, pending>>
  BY <1>2, UnmixedOther, Zenon DEF objects
<1> QED
  BY <1>1, <1>2, Zenon DEF ActivateConnection, AddAndActivateConnection

\* The answers of the MIHF.
LEMMA UnmixedAnswer ==
    ASSUME Core, Unmixed, NEW r \in Req, NEW ok \in BOOLEAN, Answer(r, ok)
    PROVE  Unmixed'
<1> DEFINE reqs == [pending EXCEPT ![r] = @ - 1]
<1>1. /\ Maps(active, dac) /\ pending \in [Req -> Nat] /\ Fits(active, pending, crossed) /\ pending[r] > 0
      /\ \A p \in Ac : active[p] # None => active[p].dev \in Device
  BY Zenon DEF Core, Unmixed, Answer, Maps, ActiveConnection
<1>2. reqs \in [Req -> Nat]
  BY <1>1
<1>3. /\ Fits(active, reqs, crossed)
      /\ r.ac \in Ac \ crossed =>
             /\ active[r.ac] # None /\ active[r.ac].dev = r.dev
             /\ r.kind \in {"link_conf", "l3_conf"} => reqs[LinkConfOf(r.dev, r.ac)] = 0
  BY <1>1, FitsLess, Zenon
<1>4. ActionConfirm(r, ok, reqs) \/ LinkConfConfirm(r, ok, reqs) \/ L3ConfConfirm(r, ok, reqs)
  BY Zenon DEF Answer
<1> HIDE DEF reqs
<1>5. r.kind \in {"link_conf", "l3_conf"} => r.ac \in Ac /\ r.dev \in Device
  BY ConfOf, Zenon
<1>6. CASE Dies
  BY <1>6, UnmixedOther, Zenon DEF Dies, objects
<1>7. CASE GiveUp(r.dev, reqs)
  <2>1. \A q \in {Action("disconnect", r.dev)} : q.ac = None
    BY ActionFact, Zenon
  <2> QED
    BY <1>1, <1>2, <1>3, <1>7, <2>1, FitsCleared, Zenon DEF GiveUp, Clear, Unmixed
<1>8. CASE ActionConfirm(r, ok, reqs)
  BY <1>3, <1>8, Zenon DEF ActionConfirm, Unmixed
<1>9. CASE LinkConfConfirm(r, ok, reqs)
  <2>1. CASE L3Conf(r.dev, r.ac, dstate, reqs) /\ UNCHANGED <<active, crossed>>
    <3>1. Fits(active, With(reqs, {Conf("l3_conf", r.dev, r.ac)}), crossed)
      BY <1>1, <1>2, <1>3, <1>5, <1>9, FitsL3, Zenon DEF LinkConfConfirm
    <3> QED
      BY <2>1, <3>1, Zenon DEF L3Conf, Unmixed
  <2> QED
    BY <1>6, <1>7, <1>9, <2>1, Zenon DEF LinkConfConfirm
<1>10. CASE L3ConfConfirm(r, ok, reqs)
  <2>1. CASE /\ active[r.ac] # None /\ active' = [active EXCEPT ![r.ac].state = "activated"]
             /\ pending' = reqs /\ crossed' = crossed
    <3>1. Fits(SetState(r.ac, "activated"), reqs, crossed)
      BY <1>1, <1>3, <1>5, <1>10, <2>1, FitsState, Zenon DEF L3ConfConfirm
    <3> QED
      BY <2>1, <3>1, Zenon DEF SetState, Unmixed
  <2> QED
    BY <1>6, <1>7, <1>10, <2>1, Zenon DEF L3ConfConfirm
<1> QED
  BY <1>4, <1>8, <1>9, <1>10, Zenon

\* link_up.
LEMMA UnmixedLinkUp ==
    ASSUME Core, Unmixed, NEW d \in Device, LinkUp(d)
    PROVE  Unmixed'
<1>1. CASE Lost(d) /\ L3Conf(d, dac[d], dstate, pending) /\ UNCHANGED <<active, crossed>>
  <2>a. \A q \in Ac : active[q] # None => active[q].dev \in Device
    BY Zenon DEF Core, Maps, ActiveConnection
  <2>b. dac[d] \in Ac /\ active[dac[d]] # None /\ active[dac[d]].state = "unknown"
    BY <1>1, Zenon DEF Lost, Core, Maps
  <2>c. active[dac[d]].dev = d
    BY <1>1, Zenon DEF Lost, Core, Paired
  <2>1. /\ dac[d] \in Ac /\ active[dac[d]] # None /\ active[dac[d]].dev = d
        /\ active[dac[d]].state = "unknown"
        /\ \A q \in Ac : active[q] # None => active[q].dev \in Device
    BY <2>a, <2>b, <2>c, Zenon
  <2>2. dac[d] \notin crossed => FitsOne(active[dac[d]], pending, dac[d])
    BY <2>1, Zenon DEF Unmixed, Fits
  <2>3. dac[d] \notin crossed => pending[LinkConfOf(d, dac[d])] = 0
    BY <2>1, <2>2, Zenon DEF FitsOne
  <2>4. Fits(active, With(pending, {Conf("l3_conf", d, dac[d])}), crossed)
    BY <2>1, <2>3, FitsL3, Zenon DEF Core, Unmixed
  <2> QED
    BY <1>1, <2>4, Zenon DEF L3Conf, Unmixed
<1>2. CASE UNCHANGED <<objects, pending>>
  BY <1>2, UnmixedOther, Zenon DEF objects
<1> QED
  BY <1>1, <1>2, Zenon DEF LinkUp, Dies

\* link_down.
LEMMA UnmixedLinkDown ==
    ASSUME Core, Core', Unmixed, NEW d \in Device, LinkDown(d)
    PROVE  Unmixed'
<1> DEFINE act == AfterDrop(d)
           cr == AlsoCrossed(d)
<1>1. Maps(active, dac) /\ pending \in [Req -> Nat] /\ Fits(active, pending, crossed)
  BY Zenon DEF Core, Unmixed
<1>2. Fits(act, pending, cr)
  <2>1. CASE Deliberate(d)
    BY <1>1, <2>1, FitsClear, Zenon DEF AfterDrop, AlsoCrossed
  <2>2. CASE ~Deliberate(d) /\ Dropped(d) /\ shown[d] # None /\ active[shown[d]] # None
    <3>1. /\ shown[d] \in Ac /\ act = SetState(shown[d], "unknown") /\ crossed \subseteq cr
          /\ shown[d] \notin cr => active[shown[d]].state # "activating" /\ shown[d] \notin crossed
      BY <2>2, Zenon DEF AfterDrop, AlsoCrossed, Core, SetState
    <3>2. shown[d] \notin cr => pending[LinkConfOf(active[shown[d]].dev, shown[d])] = 0
      BY <1>1, <2>2, <3>1, Zenon DEF Fits, FitsOne
    <3> HIDE DEF act, cr
    <3> QED
      BY <1>1, <2>2, <3>1, <3>2, FitsState, Zenon
  <2>3. CASE ~Deliberate(d) /\ act = active
    BY <1>1, <2>3, Zenon DEF AlsoCrossed, Fits
  <2> QED
    BY <2>1, <2>2, <2>3, Zenon DEF AfterDrop
<1>3. CASE active' = act /\ crossed' = cr /\ pending' = pending
  BY <1>2, <1>3, Zenon DEF Unmixed
<1>4. ASSUME NEW path \in Acting(act), act[path].state = "activated", active' = act, crossed' = cr,
             pending' = With(pending, {Conf("l3_conf", act[path].dev, path)})
      PROVE  Unmixed'
  <2>1. \A q \in Ac : act[q] # None => act[q].dev \in Device
    BY <1>4, Zenon DEF Core, Maps, ActiveConnection
  <2> HIDE DEF act, cr
  <2>2. path \in Ac /\ act[path] # None
    BY Zenon DEF Acting
  <2>3. path \notin cr => pending[LinkConfOf(act[path].dev, path)] = 0
    BY <1>2, <1>4, <2>2, Zenon DEF Fits, FitsOne
  <2> QED
    BY <1>1, <1>2, <1>4, <2>1, <2>2, <2>3, FitsL3, Zenon DEF Unmixed
<1>5. CASE Dies
  BY <1>5, UnmixedOther, Zenon DEF Dies, objects
<1> QED
  BY <1>3, <1>4, <1>5, Zenon DEF LinkDown, L3Conf

LEMMA UnmixedStep == Inv /\ Inv' /\ Unmixed /\ [Next]_vars => Unmixed'
<1> SUFFICES ASSUME Core, Core', Unmixed, [Next]_vars
             PROVE  Unmixed'
  <2>1. Inv' => Core'
    BY InvParts, PTL
  <2> QED
    BY <2>1, InvParts, Zenon
<1>1. CASE ClientCall
  BY <1>1, UnmixedSwitch, UnmixedIdle, UnmixedActivation, Zenon DEF ClientCall
<1>2. CASE \E d \in Device : LinkUp(d) \/ LinkDown(d)
  BY <1>2, UnmixedLinkUp, UnmixedLinkDown, Zenon
<1>3. CASE \E r \in Req, ok \in BOOLEAN : Answer(r, ok)
  BY <1>3, UnmixedAnswer, Zenon
<1>4. CASE Discover \/ (\E d \in Device, p \in AP : LinkDetected(d, p)) \/ UNCHANGED vars
  BY <1>4, UnmixedIdle, Zenon
<1> QED
  BY <1>1, <1>2, <1>3, <1>4, Zenon DEF Next

\* A connection is shown as activated only after the answer to its link_conf, unless
\* it was activated again before an answer to the earlier attempt, or taken for lost
\* while it was set up: for every order of calls, answers and link events.
THEOREM ManagerAssociated == Spec => []ActivatedIsAssociated
<1>1. Init => Unmixed
  BY ZenonT(40) DEF Init, Unmixed, Fits, FitsOne
<1>2. Unmixed => ActivatedIsAssociated
  BY Zenon DEF Unmixed, Fits, FitsOne, ActivatedIsAssociated, LinkConfOf
<1> QED
  BY <1>1, <1>2, InitInv, StepInv, UnmixedStep, PTL DEF Spec

=============================================================================
