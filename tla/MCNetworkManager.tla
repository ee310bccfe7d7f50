-------------------------- MODULE MCNetworkManager --------------------------
(***************************************************************************)
(* An instance of NetworkManager for TLC: an 802.11 and an Ethernet        *)
(* device, three connections, and scenarios of calls that touch the same   *)
(* objects.                                                                *)
(***************************************************************************)
EXTENDS NetworkManager, TLC

CONSTANTS wlan, eth, home, cable, other, ap

\* other is a copy of home: the same uuid and the network of the access point.
MCUuid == home :> 2 @@ cable :> 1 @@ other :> 2
MCSsid == home :> "net" @@ cable :> "none" @@ other :> "net" @@ ap :> "net"

\* The calls of clients.
On(op)    == [op |-> op, on |-> TRUE]
Off(op)   == [op |-> op, on |-> FALSE]
Act(c, d) == [op |-> "Activate", conn |-> c, dev |-> d]
New(c, d) == [op |-> "AddAndActivate", conn |-> c, dev |-> d, ap |-> ap]
Edit(op, c) == [op |-> op, conn |-> c]
Leave(d)  == [op |-> "Disconnect", dev |-> d]

\* The devices, the access points in range, WirelessEnabled at first, the calls, how
\* many of them are made and how many links are lost.
Case(links, poas, on, cs, n, lost) ==
    [devs |-> links, aps |-> poas, radio |-> on, calls |-> cs, max |-> n, drops |-> lost]

MCScenarios == {
    \* two connections at once; two on one device
    Case({wlan, eth}, {}, {TRUE}, {Act(home, wlan), Act(cable, eth)}, 2, 2),
    Case({wlan}, {}, {TRUE}, {Act(home, wlan), Act(cable, wlan)}, 3, 1),
    \* a connection that moves after a failed call, so that two devices show it
    Case({wlan, eth}, {}, {TRUE}, {Act(home, wlan), Act(other, wlan), New(other, eth)}, 3, 1),
    \* a connection and what switches it off
    Case({wlan}, {}, BOOLEAN, {Act(home, wlan), On("Sleep"), Off("Sleep"), Leave(wlan)}, 3, 1),
    Case({wlan}, {}, BOOLEAN, {Act(home, wlan), On("Enable"), Off("Enable")}, 3, 1),
    Case({wlan}, {}, BOOLEAN, {Act(home, wlan), On("WirelessEnabled"), Off("WirelessEnabled")}, 3, 1),
    \* settings that change meanwhile
    Case({wlan}, {ap}, BOOLEAN, {New(other, wlan), Edit("Delete", home), Edit("Update", home), Edit("Add", other)},
         3, 1) }
=============================================================================
