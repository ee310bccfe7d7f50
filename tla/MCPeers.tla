------------------------------- MODULE MCPeers -------------------------------
(***************************************************************************)
(* Instances of MihfPeers for TLC: two MIHFs, short lists of messages, and *)
(* the identifiers their transactions start with.                          *)
(***************************************************************************)
EXTENDS MihfExchange, TLC

CONSTANTS a, b

Send(from, to, opcode, body) == [from |-> from, to |-> to, opcode |-> opcode, body |-> body]

OneRequest        == {Send(a, b, "request", 1)}
RequestIndication == {Send(a, b, "request", 1), Send(a, b, "indication", 2)}

\* A request to the group, which its sender receives too, while a member
\* sends an indication the other way.
GroupOpposite == {Send(a, Multicast, "request", 3), Send(b, a, "indication", 4)}

PairOrGroup == RequestIndication \cup GroupOpposite

\* The counters of a and b are far apart, or run over the same identifiers.
FarTids  == a :> MaxTid @@ b :> 4
SameTids == a :> 1 @@ b :> 1

From(tids, messages, used) == [tid |-> tids, unsent |-> messages, faults |-> used]

\* All messages are there to be sent, and the counters are far apart.
Apart == {From(FarTids, Traffic, 0)}

\* The request and the indication on a network that loses nothing, or the
\* group on one that may lose or copy a packet, with counters that clash.
ApartOrClose == {From(FarTids, RequestIndication, MaxFaults), From(SameTids, GroupOpposite, 0)}
=============================================================================
