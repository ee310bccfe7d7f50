--------------------------- MODULE NetworkManager ---------------------------
(***************************************************************************)
(* The network manager (app/networkmanager): a user of the MIHF that       *)
(* offers the D-Bus interface of NetworkManager.  Clients activate         *)
(* connections on devices; it asks the MIHF to associate the link          *)
(* (link_conf) and to configure IP (l3_conf), and follows the events of    *)
(* the links.  All of it runs on one thread, so that a call, an answer and *)
(* an event are each one step; what interleaves is the answers, which come *)
(* in any order and after any other call.                                  *)
(*                                                                         *)
(* An exception that is a D-Bus error ends a call with an error reply; any *)
(* exception in the handling of an answer or an event ends the process.    *)
(***************************************************************************)
EXTENDS Naturals

CONSTANTS
    Device,     \* the links of the local MIHF
    Wifi,       \* those of type 802.11; the others are Ethernet
    Conn,       \* the connections (settings objects)
    Uuid,       \* Uuid[c]: the uuid of c, which names its active connection
    Usable,     \* the connections whose IP methods l3_conf supports as they are added
    Saved,      \* the connections loaded from files
    AP,         \* the access points
    Ssid,       \* Ssid[x]: the network of an access point or a connection
    Scenarios,  \* links, access points and calls, how many calls, how often a link is lost,
                \* and the values WirelessEnabled may start with
    None        \* the path "/", and no object

\* The names of active connections, and the objects.
Ac == {Uuid[c] : c \in Conn}
ActiveConnection == [conn : Conn, dev : Device, state : {"activating", "activated", "unknown"}]

ASSUME ConnAssumption     == Uuid \in [Conn -> Nat] /\ None \notin Nat \cup ActiveConnection
ASSUME ScenarioAssumption ==
    \A s \in Scenarios : s.devs \subseteq Device /\ s.radio \subseteq BOOLEAN /\ s.max \in Nat /\ s.drops \in Nat

VARIABLES
    state,      \* NetworkManager.State
    networking, \* NetworkingEnabled
    wireless,   \* WirelessEnabled
    known,      \* the devices of _device_map
    dstate,     \* Device.State
    shown,      \* Device.ActiveConnection
    active,     \* _active_connections: its connection, device and State, or None
    dac,        \* _device_active_connection
    conns,      \* Settings._connections
    aps,        \* DeviceWireless._access_points_map
    pending,    \* how many requests of each kind the MIHF has not answered
    link,       \* whether a link is up
    scenario,   \* the links of the host, the access points in range and the calls of clients
    calls,      \* how many more calls there will be
    drops,      \* how often links will be lost
    alive,      \* the process runs
    crossed,    \* active connections that an answer to an earlier request is, or was,
                \* about, or that were taken for lost while they were set up
    mistaken    \* active connections taken for lost when the link of another device was

nm       == <<state, networking, wireless, known>>
objects  == <<dstate, shown, active, dac, crossed>>
settings == <<conns, aps>>
world    == <<link, scenario, drops, mistaken>>
vars     == <<nm, objects, settings, world, pending, calls, alive>>

-----------------------------------------------------------------------------
\* NM_STATE and NM_DEVICE_STATE, as far as the code uses them.
ASLEEP           == 10
DISCONNECTED     == 20
DISCONNECTING    == 30
CONNECTING       == 40
CONNECTED_GLOBAL == 70

DEV_UNKNOWN      == 0
DEV_UNAVAILABLE  == 20
DEV_DISCONNECTED == 30
DEV_PREPARE      == 40
DEV_CONFIG       == 50
DEV_IP_CONFIG    == 70
DEV_SECONDARIES  == 90
DEV_ACTIVATED    == 100

\* The requests to the MIHF with a handler that does something.
Action(kind, d)     == [kind |-> kind, dev |-> d, ac |-> None]
Conf(kind, d, path) == [kind |-> kind, dev |-> d, ac |-> path]
Req == [kind : {"disconnect", "power_up", "power_down"}, dev : Device, ac : {None}]
       \cup [kind : {"link_conf", "l3_conf"}, dev : Device, ac : Ac]

\* user::async_send: a handler for each request, in addition to those in reqs.
With(reqs, new) == [r \in Req |-> IF r \in new THEN reqs[r] + 1 ELSE reqs[r]]

\* f with v for the devices of D.
Put(f, D, v) == [d \in Device |-> IF d \in D THEN v ELSE f[d]]

-----------------------------------------------------------------------------
\* clear_connections for the devices of D, while reqs are unanswered.
ClearedActive(D) == [p \in Ac |-> IF \E d \in D : dac[d] = p THEN None ELSE active[p]]
ClearedDac(D)    == Put(dac, D, None)
Crossed(D, reqs) ==
    crossed \cup {p \in Ac : /\ \E d \in D : dac[d] = p
                             /\ \E r \in Req : r.ac = p /\ reqs[r] > 0}

Clear(D, reqs) ==
    /\ active' = ClearedActive(D)
    /\ dac' = ClearedDac(D)
    /\ crossed' = Crossed(D, reqs)

Dies ==
    /\ alive' = FALSE
    /\ UNCHANGED <<nm, objects, settings, pending>>

\* l3_conf(d, path), with the active connections act, the states of devices ds and
\* the unanswered requests reqs; it throws without the active connection and
\* without settings it supports.

\* Mutant of Configurable: only for a connection that was not lost.
ConfigurableOnce(act, path) == act[path] # None /\ act[path].state # "unknown" /\ conns[act[path].conn] = "usable"
Configurable(act, path) == act[path] # None /\ conns[act[path].conn] = "usable"

\* Mutant of L3Conf: the wrong state.
L3ConfSecondaries(d, path, ds, reqs) ==
    /\ dstate' = [ds EXCEPT ![d] = DEV_SECONDARIES]
    /\ pending' = With(reqs, {Conf("l3_conf", d, path)})

L3Conf(d, path, ds, reqs) ==
    /\ dstate' = [ds EXCEPT ![d] = DEV_IP_CONFIG]
    /\ pending' = With(reqs, {Conf("l3_conf", d, path)})

-----------------------------------------------------------------------------
\* A client makes a call.
Call(c) == alive /\ calls > 0 /\ c \in scenario.calls /\ calls' = calls - 1

\* NetworkManager::Enable, with Device::Disable.
Enable(on) ==
    /\ Call([op |-> "Enable", on |-> on])
    /\ networking' = on
    /\ \/ on /\ UNCHANGED <<state, objects, pending>>
       \/ /\ ~on
          /\ state' = DISCONNECTING
          /\ dstate' = Put(dstate, known, DEV_UNAVAILABLE)
          /\ shown' = Put(shown, known, None)
          /\ pending' = With(pending, {Action("power_down", d) : d \in known})
          /\ Clear(known, pending)
    /\ UNCHANGED <<wireless, known, settings, alive>>

\* NetworkManager::Sleep, with Device::Disconnect.
Sleep(sleep) ==
    /\ Call([op |-> "Sleep", on |-> sleep])
    /\ \/ ~sleep /\ UNCHANGED <<state, objects, pending>>
       \/ /\ sleep
          /\ state' = ASLEEP
          /\ dstate' = Put(dstate, known, DEV_DISCONNECTED)
          /\ shown' = Put(shown, known, None)
          /\ pending' = With(pending, {Action("disconnect", d) : d \in known})
          /\ Clear(known, pending)
    /\ UNCHANGED <<networking, wireless, known, settings, alive>>

\* on_set_property of WirelessEnabled, with DeviceWireless::Enable and Disable.
SetWirelessEnabled(on) ==
    LET devs == known \cap Wifi
    IN  /\ Call([op |-> "WirelessEnabled", on |-> on])
        /\ wireless' = on
        /\ \/ /\ on
              /\ dstate' = Put(dstate, devs, DEV_DISCONNECTED)
              /\ aps' = Put(aps, devs, {})
              /\ pending' = With(pending, {Action("power_up", d) : d \in devs})
              /\ UNCHANGED <<shown, active, dac, crossed>>
           \/ /\ ~on
              /\ dstate' = Put(dstate, devs, DEV_UNAVAILABLE)
              /\ shown' = Put(shown, devs, None)
              /\ pending' = With(pending, {Action("power_down", d) : d \in devs})
              /\ Clear(devs, pending)
              /\ UNCHANGED aps
        /\ UNCHANGED <<state, networking, known, conns, alive>>

\* Device::Disconnect called by a client.
Disconnect(d) ==
    /\ Call([op |-> "Disconnect", dev |-> d]) /\ d \in known
    /\ dstate' = [dstate EXCEPT ![d] = DEV_DISCONNECTED]
    /\ shown' = [shown EXCEPT ![d] = None]
    /\ pending' = With(pending, {Action("disconnect", d)})
    /\ UNCHANGED <<nm, active, dac, crossed, settings, alive>>

\* Settings::AddConnection: the path of a connection is never used again.
Added(c) == [conns EXCEPT ![c] = IF c \in Usable THEN "usable" ELSE "unusable"]
Stored(c) == conns[c] \in {"usable", "unusable"}

AddConnection(c) ==
    /\ Call([op |-> "Add", conn |-> c]) /\ conns[c] = "new"
    /\ conns' = Added(c)
    /\ UNCHANGED <<nm, objects, aps, pending, alive>>

\* Connection::Update: other IP methods.
Update(c) ==
    /\ Call([op |-> "Update", conn |-> c]) /\ Stored(c)
    /\ conns' = [conns EXCEPT ![c] = IF @ = "usable" THEN "unusable" ELSE "usable"]
    /\ UNCHANGED <<nm, objects, aps, pending, alive>>

\* Connection::Delete: the object destroys itself, and the reply is then sent
\* through it (ObjectAdaptor::handle_message), which may end the process.
Delete(c) ==
    /\ Call([op |-> "Delete", conn |-> c]) /\ Stored(c)
    /\ conns' = [conns EXCEPT ![c] = "deleted"]
    /\ alive' \in BOOLEAN
    /\ UNCHANGED <<nm, objects, aps, pending>>

\* Mutant of PathFree: the object is replaced.
PathFreeAlways(act, path) == TRUE

\* A path on the D-Bus that an object has cannot be given to another one.
PathFree(act, path) == act[path] = None

\* ActivateConnection(c, d), with the settings objects set: the active connection
\* of the device goes first, also when the call then fails for want of the settings
\* or because another device has an active connection of that name.
Activate(c, d, set) ==
    LET act == ClearedActive({d})
        path == Uuid[c]
        found == set[c] \in {"usable", "unusable"} /\ PathFree(act, path)
    IN  /\ state' = IF state < CONNECTING THEN CONNECTING ELSE state
        /\ conns' = set
        /\ crossed' = Crossed({d}, pending)
        /\ \/ /\ ~found
              /\ active' = act
              /\ dac' = ClearedDac({d})
              /\ UNCHANGED <<dstate, shown, pending>>
           \/ /\ found
              /\ active' = [act EXCEPT ![path] = [conn |-> c, dev |-> d, state |-> "activating"]]
              /\ dac' = [dac EXCEPT ![d] = path]
              /\ dstate' = [dstate EXCEPT ![d] = DEV_CONFIG]
              /\ shown' = [shown EXCEPT ![d] = path]
              /\ pending' = With(pending, {Conf("link_conf", d, path)})
        /\ UNCHANGED <<networking, wireless, known, aps, alive>>

\* A client may name a connection that does not exist, or a device.
ActivateConnection(c, d) ==
    /\ Call([op |-> "Activate", conn |-> c, dev |-> d])
    /\ \/ d \in known /\ Activate(c, d, conns)
       \/ /\ d \notin known
          /\ state' = IF state < CONNECTING THEN CONNECTING ELSE state
          /\ UNCHANGED <<networking, wireless, known, objects, settings, pending, alive>>

\* AddAndActivateConnection(c, d, p): on 802.11 a stored connection for the network
\* of the access point is used instead of the new one; errors are swallowed.
AddAndActivateConnection(c, d, p) ==
    /\ Call([op |-> "AddAndActivate", conn |-> c, dev |-> d, ap |-> p]) /\ conns[c] = "new"
    /\ \/ d \in known \ Wifi /\ Activate(c, d, Added(c))
       \/ /\ d \in known \cap Wifi /\ p \in aps[d]
          /\ \/ \E s \in Conn : Stored(s) /\ Ssid[s] = Ssid[p] /\ Activate(s, d, conns)
             \/ /\ \A s \in Conn : Stored(s) => Ssid[s] # Ssid[p]
                /\ Activate(c, d, Added(c))
       \/ /\ d \notin known \/ (d \in Wifi /\ p \notin aps[d])
          /\ UNCHANGED <<nm, objects, settings, pending, alive>>

-----------------------------------------------------------------------------
\* capability_discover_confirm and new_device: the MIHF names its links, which are
\* switched on or off.
Discover ==
    LET devs == scenario.devs
        on == {d \in devs : networking /\ (d \in Wifi => wireless)}
    IN  /\ alive /\ known = {}
        /\ known' = devs
        /\ dstate' = Put(Put(dstate, devs, DEV_UNAVAILABLE), on, DEV_DISCONNECTED)
        /\ pending' = With(pending, {Action("power_up", d) : d \in on}
                                    \cup {Action("power_down", d) : d \in devs \ on})
        /\ UNCHANGED <<state, networking, wireless, shown, active, dac, crossed, settings, world, calls, alive>>

\* Mutant of GiveUp: without clear_connections.
GiveUpKeeps(d, reqs) ==
    /\ dstate' = [dstate EXCEPT ![d] = DEV_DISCONNECTED]
    /\ shown' = [shown EXCEPT ![d] = None]
    /\ pending' = With(reqs, {Action("disconnect", d)})
    /\ UNCHANGED <<active, dac, crossed>>

\* Device::Disconnect and clear_connections after a failed attempt on d.
GiveUp(d, reqs) ==
    /\ dstate' = [dstate EXCEPT ![d] = DEV_DISCONNECTED]
    /\ shown' = [shown EXCEPT ![d] = None]
    /\ pending' = With(reqs, {Action("disconnect", d)})
    /\ Clear({d}, reqs)

\* The confirmation of a link_action r: a failure changes the state of the device.
ActionConfirm(r, ok, reqs) ==
    /\ r.ac = None
    /\ dstate' = IF ok THEN dstate
                 ELSE [dstate EXCEPT ![r.dev] = IF r.kind = "disconnect" THEN DEV_ACTIVATED ELSE DEV_UNKNOWN]
    /\ pending' = reqs
    /\ UNCHANGED <<nm, shown, active, dac, crossed, settings, alive>>

\* The handler of link_conf's answer.
LinkConfConfirm(r, ok, reqs) ==
    /\ r.kind = "link_conf"
    /\ \/ /\ ok /\ Configurable(active, r.ac)
          /\ L3Conf(r.dev, r.ac, dstate, reqs)
          /\ UNCHANGED <<nm, shown, active, dac, crossed, settings, alive>>
       \/ ok /\ ~Configurable(active, r.ac) /\ Dies
       \/ ~ok /\ GiveUp(r.dev, reqs) /\ UNCHANGED <<nm, settings, alive>>

\* The handler of l3_conf's answer.
L3ConfConfirm(r, ok, reqs) ==
    /\ r.kind = "l3_conf"
    /\ \/ /\ ok /\ active[r.ac] # None
          /\ dstate' = [dstate EXCEPT ![r.dev] = DEV_ACTIVATED]
          /\ active' = [active EXCEPT ![r.ac].state = "activated"]
          /\ state' = CONNECTED_GLOBAL
          /\ pending' = reqs
          /\ UNCHANGED <<networking, wireless, known, shown, dac, crossed, settings, alive>>
       \/ ok /\ active[r.ac] = None /\ Dies
       \/ ~ok /\ GiveUp(r.dev, reqs) /\ UNCHANGED <<nm, settings, alive>>

\* The MIHF answers the request r (user::recv_handler).  The socket takes every
\* request: send_handler, which hands an error to the handler, is left out.
Answer(r, ok) ==
    LET reqs == [pending EXCEPT ![r] = @ - 1]
    IN  /\ alive /\ pending[r] > 0
        /\ ActionConfirm(r, ok, reqs) \/ LinkConfConfirm(r, ok, reqs) \/ L3ConfConfirm(r, ok, reqs)
        /\ UNCHANGED <<world, calls>>

-----------------------------------------------------------------------------
\* Mutants of Lost: every connection that is not up, and only on a device that is up.
LostOrSetUp(d) == dac[d] # None /\ active[dac[d]] # None /\ active[dac[d]].state # "activated"
LostUp(d) == /\ dac[d] # None /\ active[dac[d]] # None /\ active[dac[d]].state = "unknown"
             /\ dstate[d] = DEV_ACTIVATED

Lost(d) == dac[d] # None /\ active[dac[d]] # None /\ active[dac[d]].state = "unknown"

\* link_up: a connection that was lost is configured again.
LinkUp(d) ==
    /\ alive /\ d \in known /\ ~link[d]
    /\ link' = [link EXCEPT ![d] = TRUE]
    /\ \/ ~Lost(d) /\ UNCHANGED <<nm, objects, settings, pending, alive>>
       \/ /\ Lost(d) /\ Configurable(active, dac[d])
          /\ L3Conf(d, dac[d], dstate, pending)
          /\ UNCHANGED <<nm, shown, active, dac, crossed, settings, alive>>
       \/ Lost(d) /\ ~Configurable(active, dac[d]) /\ Dies
    /\ UNCHANGED <<scenario, drops, mistaken, calls>>

\* link_down on d: the connections, their removal and the states of devices after
\* the first half of the handler.
Deliberate(d) == dstate[d] < DEV_PREPARE \/ ~networking \/ (~wireless /\ d \in Wifi)
Dropped(d)    == ~Deliberate(d) /\ dstate[d] > DEV_SECONDARIES
AfterDrop(d) ==
    IF Deliberate(d) THEN ClearedActive({d})
    ELSE IF Dropped(d) /\ shown[d] # None /\ active[shown[d]] # None
    THEN [active EXCEPT ![shown[d]].state = "unknown"]
    ELSE active
AlsoCrossed(d) ==
    IF Deliberate(d) THEN Crossed({d}, pending)
    ELSE crossed \cup {p \in Ac : Dropped(d) /\ p = shown[d] /\ active[p] # None /\ active[p].state = "activating"}

\* The connection that Device.ActiveConnection names need not be the device's: a
\* failed activation leaves it as it was.  What link_down then marks is up.
Mistaken(d) ==
    (mistaken \ {dac[d]})
    \cup {p \in Ac : /\ Dropped(d) /\ p = shown[d] /\ dac[d] # p
                     /\ active[p] # None /\ active[p].state = "activated" /\ link[active[p].dev]}

\* Mutant of Acting: only the connections that are up.
ActingUp(act) == {p \in Ac : act[p] # None /\ act[p].state = "activated"}

\* The connections in act that keep the manager's state, and whether p is the first
\* of them, in the order of their paths.
Acting(act) == {p \in Ac : act[p] # None /\ act[p].state \in {"activating", "activated"}}
First(p, act) == \A q \in Acting(act) : p <= q

LinkDown(d) ==
    LET act == AfterDrop(d)
        ds == IF Dropped(d) THEN [dstate EXCEPT ![d] = DEV_DISCONNECTED] ELSE dstate
        keep == state > DISCONNECTED /\ Acting(act) # {}
        update == /\ active' = act
                  /\ dac' = IF Deliberate(d) THEN ClearedDac({d}) ELSE dac
                  /\ crossed' = AlsoCrossed(d)
                  /\ UNCHANGED <<networking, wireless, known, shown, settings, alive>>
    IN  /\ alive /\ d \in known /\ link[d] /\ drops > 0
        /\ link' = [link EXCEPT ![d] = FALSE]
        /\ drops' = drops - 1
        /\ mistaken' = Mistaken(d)
        /\ \/ ~keep /\ state' = DISCONNECTED /\ dstate' = ds /\ update /\ UNCHANGED pending
           \/ /\ keep
              /\ \E path \in Acting(act) :
                    /\ First(path, act)
                    /\ \/ /\ act[path].state = "activating"
                          /\ dstate' = ds /\ update /\ UNCHANGED <<state, pending>>
                       \/ /\ act[path].state = "activated" /\ Configurable(act, path)
                          /\ L3Conf(act[path].dev, path, ds, pending)
                          /\ update /\ UNCHANGED state
                       \/ act[path].state = "activated" /\ ~Configurable(act, path) /\ Dies
        /\ UNCHANGED <<scenario, calls>>

\* links_detected: an access point is heard of, and others are not any more.
LinkDetected(d, p) ==
    /\ alive /\ d \in known \cap Wifi /\ p \in scenario.aps
    /\ \E heard \in SUBSET aps[d] : aps' = [aps EXCEPT ![d] = heard \cup {p}]
    /\ UNCHANGED <<nm, objects, conns, world, pending, calls, alive>>

-----------------------------------------------------------------------------
Init ==
    /\ state = DISCONNECTED /\ networking = TRUE /\ known = {}
    /\ dstate = [d \in Device |-> DEV_UNKNOWN]
    /\ shown = [d \in Device |-> None]
    /\ active = [p \in Ac |-> None]
    /\ dac = [d \in Device |-> None]
    /\ conns = [c \in Conn |-> IF c \notin Saved THEN "new" ELSE IF c \in Usable THEN "usable" ELSE "unusable"]
    /\ aps = [d \in Device |-> {}]
    /\ pending = [r \in Req |-> 0]
    /\ link = [d \in Device |-> FALSE]
    /\ scenario \in Scenarios /\ wireless \in scenario.radio
    /\ calls = scenario.max /\ drops = scenario.drops
    /\ alive = TRUE
    /\ crossed = {} /\ mistaken = {}

ClientCall ==
    /\ \/ \E on \in BOOLEAN : Enable(on) \/ Sleep(on) \/ SetWirelessEnabled(on)
       \/ \E d \in Device : Disconnect(d)
       \/ \E c \in Conn : AddConnection(c) \/ Update(c) \/ Delete(c)
       \/ \E c \in Conn, d \in Device : ActivateConnection(c, d)
       \/ \E c \in Conn, d \in Device, p \in AP : AddAndActivateConnection(c, d, p)
    /\ UNCHANGED world

Next ==
    \/ ClientCall
    \/ Discover
    \/ \E r \in Req, ok \in BOOLEAN : Answer(r, ok)
    \/ \E d \in Device : LinkUp(d) \/ LinkDown(d)
    \/ \E d \in Device, p \in AP : LinkDetected(d, p)

\* The MIHF answers every request, with a failure if the link does not.
Spec == Init /\ [][Next]_vars /\ WF_vars(\E r \in Req, ok \in BOOLEAN : Answer(r, ok))

-----------------------------------------------------------------------------
\* The types of the variables, and the states that the code can give to the
\* manager and a device.
ManagerTypeOK ==
    /\ state \in {ASLEEP, DISCONNECTED, DISCONNECTING, CONNECTING, CONNECTED_GLOBAL}
    /\ networking \in BOOLEAN /\ wireless \in BOOLEAN /\ alive \in BOOLEAN /\ known \subseteq Device
    /\ dstate \in [Device -> {DEV_UNKNOWN, DEV_UNAVAILABLE, DEV_DISCONNECTED, DEV_CONFIG, DEV_IP_CONFIG,
                              DEV_ACTIVATED}]
    /\ shown \in [Device -> Ac \cup {None}]
    /\ active \in [Ac -> ActiveConnection \cup {None}]
    /\ dac \in [Device -> Ac \cup {None}]
    /\ conns \in [Conn -> {"new", "usable", "unusable", "deleted"}]
    /\ pending \in [Req -> Nat]
    /\ scenario \in Scenarios /\ calls \in 0 .. scenario.max /\ drops \in 0 .. scenario.drops
    /\ crossed \subseteq Ac /\ mistaken \subseteq Ac

\* The two maps agree: a device has an active connection exactly when an active
\* connection has the device, and one each (clear_connections erases what find
\* returns without a test).
ConnectionsPaired ==
    /\ \A d \in Device : dac[d] # None => active[dac[d]] # None /\ active[dac[d]].dev = d
    /\ \A p \in Ac : active[p] # None => dac[active[p].dev] = p

\* A manager that is disconnected, disconnecting or asleep has no connection that
\* is up or being set up; asleep or disconnecting, it has none at all, although
\* answers and events of earlier connections still come in (Sleep, Enable,
\* link_down).
IdleIsIdle ==
    /\ state < CONNECTING => \A p \in Ac : active[p] # None => active[p].state = "unknown"
    /\ state \in {ASLEEP, DISCONNECTING} => \A p \in Ac : active[p] = None

\* The process ends only at an answer about a connection that was removed, at a
\* connection whose settings are gone or not supported (l3_conf throws), or after
\* settings were deleted.
DiesOnStaleAnswerOnly ==
    alive \/ (\E r \in Req : pending[r] > 0 /\ r.ac # None /\ active[r.ac] = None)
          \/ (\E p \in Ac : active[p] # None /\ conns[active[p].conn] # "usable")
          \/ (\E c \in Conn : conns[c] = "deleted")

\* A connection is not shown as activated while its device still associates,
\* unless it was activated again before an answer to the earlier attempt, or taken
\* for lost while it was set up: link_down goes by the state of the device, which
\* the answer to an earlier request may have set, and by ActiveConnection, which a
\* failed activation leaves as it was.
ActivatedIsAssociated ==
    \A p \in Ac : active[p] # None /\ active[p].state = "activated" /\ p \notin crossed
        => pending[Conf("link_conf", active[p].dev, p)] = 0

\* Every activation ends: the connection is up, removed or lost, or the process
\* ends (the handlers of link_conf and l3_conf).
ActivationEnds ==
    \A p \in Ac : active[p] # None /\ active[p].state = "activating"
                  ~> ~alive \/ active[p] = None \/ active[p].state # "activating"

\* A connection whose link was lost and is up again is configured anew or given up,
\* unless the link is lost once more or the process ends (link_up).  Left out is a
\* connection that is up and that link_down took for lost with the link of another
\* device, whose ActiveConnection still names it: nothing recovers it, as its own
\* link does not come up again.
Recovered ==
    \A d \in Device :
        link[d] /\ dac[d] # None /\ active[dac[d]].state = "unknown" /\ dac[d] \notin mistaken
        ~> ~alive \/ ~link[d] \/ dac[d] = None \/ active[dac[d]].state # "unknown"
=============================================================================
