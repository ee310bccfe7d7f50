---------------------------- MODULE MCManagement -----------------------------
(***************************************************************************)
(* Instances of Management for TLC.                                        *)
(***************************************************************************)
EXTENDS Management, TLC

CONSTANTS a, b, c, u, v, w, dns, dhcp, la, lb, up, det, get, ho, rdf, none, all

MCHome == u :> a @@ dns :> a @@ dhcp :> a @@ v :> b @@ w :> b @@ la :> a @@ lb :> a
MCTid  == a :> 100 @@ b :> 200 @@ c :> 300
MCSupported ==
    la :> [events |-> {up, det}, cmds |-> {get}] @@ lb :> [events |-> {up}, cmds |-> {get}]
Serving(C, Q) == [cmds |-> C, queries |-> Q]
MCServes == u :> Serving({}, {}) @@ v :> Serving({ho}, {rdf}) @@ w :> Serving({}, {rdf})
            @@ dns :> Serving({}, {}) @@ dhcp :> Serving({}, {})
MCOrder  == a :> <<dhcp, dns>> @@ b :> <<>> @@ c :> <<>>
MCStatic == {u, dns, dhcp, v, la}
MCPeers  == a :> {b} @@ b :> {} @@ c :> {}

MCValid  == u :> 0 @@ v :> 2 @@ w :> 1 @@ dns :> 0 @@ dhcp :> 0

Found(ok, pos, every) == [ok |-> ok, found |-> pos, all |-> every]
MCResults == {Found(FALSE, <<>>, FALSE), Found(TRUE, <<b, c, b>>, TRUE), Found(TRUE, <<c>>, FALSE)}

Req(k, x, n, t) == [kind |-> k, from |-> x, to |-> n, tid |-> t]

Register   == Req("register", u, b, 1)
Deregister == Req("deregister", u, b, 2)
Caps1      == Req("caps", u, b, 3)
Discover   == Req("caps", u, all, 4)
Info       == Req("info", u, b, 5)
LocalInfo  == Req("info", v, b, 6)
LocalReg   == Req("register", v, b, 7)
LocalCaps  == Req("caps", v, b, 8)
Push       == Req("push", u, b, 9)
LocalPush  == Req("push", v, b, 10)
BackCaps   == Req("caps", v, all, 11)

StartW     == Req("start", w, b, 12)
Report     == Req("report", dhcp, a, 13)
StartLb    == Req("linkstart", lb, a, 14)
RestartLa  == Req("linkstart", la, a, 15)
UseLa(i)   == Req("used", la, a, 15 + i)
HeardLa    == Req("heard", la, a, 18)

MCBatches ==
    {{Register, Deregister}, {Register, StartW}, {Register, Caps1}, {Discover}, {Report},
     {Info, StartW}, {LocalInfo, StartW}, {LocalReg, LocalCaps}, {Push, LocalPush}, {BackCaps},
     {StartLb, RestartLa, UseLa(1), UseLa(2)}, {StartLb, UseLa(1), UseLa(2), HeardLa},
     {UseLa(1), UseLa(2), HeardLa, Caps1}}

RequestSet == UNION MCBatches
=============================================================================
