------------------------------ MODULE MCEvents -------------------------------
(***************************************************************************)
(* Instances of Events for TLC.                                            *)
(***************************************************************************)
EXTENDS Events, TLC

CONSTANTS a, b, u1, u2, v, w, la, lb, up, det, none

MCHome == u1 :> a @@ u2 :> a @@ v :> b @@ w :> b @@ la :> a @@ lb :> b
MCTid  == a :> 100 @@ b :> 200
All    == [l \in Link |-> Event]

Req(u, n, t, k, l, E) ==
    [from |-> u, to |-> n, tid |-> t, kind |-> k, link |-> l, events |-> E]

\* A user of each MIHF subscribes to events of lb and unsubscribes, one of them
\* also subscribes to events of la.  Users choose identifiers at random: another
\* has that of a user of the same MIHF, or the one that the other MIHF gives next.
Requests ==
    [ sub   |-> Req(u1, b, 1, "subscribe", lb, {up, det}),
      unsub |-> Req(u1, b, 2, "unsubscribe", lb, {up}),
      other |-> Req(u2, b, 3, "subscribe", lb, {up}),
      local |-> Req(v, b, 4, "subscribe", lb, {up}),
      end   |-> Req(v, b, 5, "unsubscribe", lb, {up}),
      back  |-> Req(v, a, 6, "subscribe", la, {up, det}),
      same  |-> Req(w, b, 4, "subscribe", lb, {det}),
      near  |-> Req(w, b, 101, "subscribe", lb, {up}) ]

RequestSet == {Requests[i] : i \in DOMAIN Requests}

\* Two subscribers of lb, one of which leaves; the two MIHFs subscribed to each
\* other; one user alone; a user that unsubscribes without a subscription; two
\* users, and a user and a MIHF, that choose the same identifier.
Together ==
    {{Requests.sub, Requests.unsub, Requests.local}, {Requests.sub, Requests.back},
     {Requests.local, Requests.end}, {Requests.sub, Requests.end},
     {Requests.local, Requests.same}, {Requests.sub, Requests.near}}

\* Two users of one MIHF subscribe to the same event of the other, and one leaves.
Leaving == {{Requests.sub, Requests.other, Requests.unsub}}
=============================================================================
