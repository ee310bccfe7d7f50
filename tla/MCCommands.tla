----------------------------- MODULE MCCommands -----------------------------
(***************************************************************************)
(* Instances of LocalCommands for TLC: two users, a peer, two links.       *)
(***************************************************************************)
EXTENDS LocalCommands

CONSTANTS u1, u2, p, l1, l2

Req(from, to, i, kind, links) ==
    [from |-> from, to |-> to, tid |-> i, kind |-> kind, links |-> links]

MobileUsers == <<u2, u1>>

\* Every kind of request, two of them under the same identifier.
Mixed ==
    {Req(u1, Mihf, 1, "get", {l1, l2}), Req(u2, Mihf, 2, "configure", {l1}),
     Req(p, Mihf, 1, "action", {l1}), Req(u2, Mihf, 3, "action", {l1}),
     Req(u1, p, 4, "handover", {}), Req(p, Mihf, 5, "handover", {}), Req(u2, Mihf, 6, "conf", {l1}),
     Req(u1, Mihf, 7, "handover", {})}
=============================================================================
