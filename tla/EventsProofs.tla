---------------------------- MODULE EventsProofs -----------------------------
(***************************************************************************)
(* The tables of subscriptions of Events agree, for any MIHFs, users,      *)
(* links, events and requests: the table of a MIHF with the list of a link *)
(* (LinkCovers), and the tables of two MIHFs with each other (PeerCovers). *)
(* At the end: what a MIHF that ended was asked (DiesOnGivenUpLinkOnly).   *)
(***************************************************************************)
EXTENDS Events, WellFoundedInduction, TLAPS

-----------------------------------------------------------------------------
(***************************************************************************)
(* The list of requests                                                    *)
(***************************************************************************)

Less == {ss \in Nat \X Nat : ss[1] < ss[2]}

\* A set of numbers has a least one.
LEMMA LeastNumber ==
    ASSUME NEW S \in SUBSET Nat, S # {}
    PROVE  \E m \in S : \A k \in S : m <= k
<1>1. IsWellFoundedOn(Less, Nat)
  BY NatLessThanWellFounded, Zenon DEF OpToRel, Less
<1>2. \E m \in S : \A k \in S : ~(<<k, m>> \in Less)
  BY <1>1, WFMin, Zenon
<1>3. PICK m \in S : \A k \in S : ~(<<k, m>> \in Less)
  BY <1>2
<1>4. ASSUME NEW k \in S PROVE m <= k
  <2>1. ~(<<k, m>> \in Less)
    BY <1>3
  <2>2. ~(k < m)
    BY <2>1 DEF Less
  <2> QED
    BY <2>2
<1> QED
  BY <1>4

\* What find returns is an entry with the destination and the identifier.
LEMMA FindEntry ==
    ASSUME NEW S, NEW pool \in Seq(S), NEW id, NEW t, Find(pool, id, t) # 0
    PROVE  /\ Find(pool, id, t) \in 1 .. Len(pool)
           /\ pool[Find(pool, id, t)] \in S
           /\ pool[Find(pool, id, t)].destination = id
           /\ pool[Find(pool, id, t)].rtid = t
<1> DEFINE I == {i \in DOMAIN pool : pool[i].destination = id /\ pool[i].rtid = t}
<1>1. Find(pool, id, t) = First(I)
  BY DEF Find
<1>2. I # {}
  BY <1>1 DEF First
<1>3. I \in SUBSET Nat
  OBVIOUS
<1>4. \E m \in I : \A k \in I : m <= k
  <2> HIDE DEF I
  <2> QED
    BY <1>2, <1>3, LeastNumber
<1>5. First(I) \in I
  BY <1>2, <1>4, Zenon DEF First
<1> QED
  BY <1>1, <1>5

\* Taking out an entry leaves the others, in their order.
LEMMA RemoveEntry ==
    ASSUME NEW S, NEW pool \in Seq(S), NEW i \in 1 .. Len(pool)
    PROVE  /\ Without(pool, i) \in Seq(S)
           /\ Len(Without(pool, i)) = Len(pool) - 1
           /\ \A j \in 1 .. Len(pool) - 1 :
                  Without(pool, i)[j] = pool[IF j < i THEN j ELSE j + 1]
<1>1. Without(pool, i) \in Seq(S)
  BY DEF Without
<1>2. Len(Without(pool, i)) = Len(pool) - 1
  BY DEF Without
<1>3. \A j \in 1 .. Len(pool) - 1 : Without(pool, i)[j] = pool[IF j < i THEN j ELSE j + 1]
  BY DEF Without
<1> QED
  BY <1>1, <1>2, <1>3

-----------------------------------------------------------------------------
(***************************************************************************)
(* The inductive invariant                                                 *)
(***************************************************************************)

\* What a link confirms is on its list.
ConfirmedListed ==
    \A m \in fromLink : m.kind = "subscribe" =>
        \A e \in m.events : e \in listed[m.link] \/ <<m.link, e>> \in overlap

\* Nobody is subscribed to, or about to subscribe to, an event whose
\* unsubscription is on its way to the link.
RetiredUnwanted ==
    \A m \in toLink : m.kind = "unsubscribe" =>
        \A e \in m.events :
            \/ <<m.link, e>> \in overlap
            \/ /\ \A s \in subs[home[m.link]] : ~(s.link = m.link /\ s.event = e)
               /\ \A k \in toLink \cup fromLink :
                      ~(k.kind = "subscribe" /\ k.link = m.link /\ e \in k.events)

\* A request between MIHFs is the request of a user.
RequestsSent ==
    \A m \in net : m.type = "request" =>
        /\ m.src \in Node /\ m.dst \in Node /\ m.src # m.dst /\ m.tid \in Nat
        /\ m.req \in sent /\ home[m.req.from] = m.src /\ m.req.to = m.dst
        /\ m.req.kind = m.kind /\ m.req.link = m.link /\ m.req.events = m.events

\* A subscription granted to a peer is in the table of the MIHF of the link.
GrantedInTable ==
    \A m \in net : m.type = "response" /\ m.kind = "subscribe" /\ m.ok =>
        /\ m.link \in Link /\ m.src = home[m.link] /\ m.dst \in Node /\ m.dst # m.src
        /\ m.events \subseteq Event
        /\ \A e \in m.events :
               \/ [user |-> m.dst, link |-> m.link, event |-> e] \in subs[m.src]
               \/ GaveUp(m.dst, m.link, e)

\* The answers of peers come from MIHFs.
ResponsesFromNodes ==
    \A m \in net : m.type = "response" => m.src \in Node /\ m.dst \in Node /\ m.src # m.dst

EventsInv ==
    /\ Types /\ RequestsSent /\ ResponsesFromNodes
    /\ LinkCovers /\ ConfirmedListed /\ RetiredUnwanted
    /\ PeerCovers /\ GrantedInTable

-----------------------------------------------------------------------------
(***************************************************************************)
(* What a step may do to the tables and messages                           *)
(***************************************************************************)

\* Users keep asking: what was given up stays given up.
LEMMA GaveUpStays ==
    ASSUME NEW n, NEW l, NEW e, GaveUp(n, l, e), sent \subseteq sent'
    PROVE  GaveUp(n, l, e)'
BY Zenon DEF GaveUp

\* When nothing new is sent to links, the table of a MIHF may gain only what it has
\* for another subscriber, or what the link has confirmed.
LEMMA LinkTables ==
    ASSUME Types, LinkCovers, ConfirmedListed, RetiredUnwanted,
           listed' = listed, toLink' = toLink, fromLink' \subseteq fromLink, overlap' = overlap,
           \A l \in Link : \A s \in subs'[home[l]] : s.link = l =>
               \/ \E x \in subs[home[l]] : x.link = l /\ x.event = s.event
               \/ \E k \in fromLink : k.kind = "subscribe" /\ k.link = l /\ s.event \in k.events
    PROVE  LinkCovers' /\ ConfirmedListed' /\ RetiredUnwanted'
<1>1. LinkCovers'
  <2> SUFFICES ASSUME NEW l \in Link, NEW s \in subs'[home[l]], s.link = l
               PROVE  s.event \in listed[l] \/ <<l, s.event>> \in overlap
    BY Zenon DEF LinkCovers
  <2>1. CASE \E x \in subs[home[l]] : x.link = l /\ x.event = s.event
    BY <2>1, Zenon DEF LinkCovers
  <2>2. CASE \E k \in fromLink : k.kind = "subscribe" /\ k.link = l /\ s.event \in k.events
    BY <2>2, Zenon DEF ConfirmedListed
  <2> QED
    BY <2>1, <2>2, Zenon
<1>2. ConfirmedListed'
  BY Zenon DEF ConfirmedListed
<1>3. RetiredUnwanted'
  <2> SUFFICES ASSUME NEW m \in toLink, m.kind = "unsubscribe", NEW e \in m.events,
                      <<m.link, e>> \notin overlap
               PROVE  /\ \A s \in subs'[home[m.link]] : ~(s.link = m.link /\ s.event = e)
                      /\ \A k \in toLink \cup fromLink :
                             ~(k.kind = "subscribe" /\ k.link = m.link /\ e \in k.events)
    BY DEF RetiredUnwanted
  <2>1. /\ \A s \in subs[home[m.link]] : ~(s.link = m.link /\ s.event = e)
        /\ \A k \in toLink \cup fromLink : ~(k.kind = "subscribe" /\ k.link = m.link /\ e \in k.events)
    BY Zenon DEF RetiredUnwanted
  <2>2. m.link \in Link
    BY Zenon DEF Types
  <2> QED
    BY <2>1, <2>2, SMTT(30)
<1> QED
  BY <1>1, <1>2, <1>3, Zenon

\* The tables of two MIHFs: the MIHF of the link keeps a peer unless a user gave
\* up; a table gains a user of a peer's link only when the peer has the MIHF.
LEMMA PeerTables ==
    ASSUME PeerCovers, GrantedInTable, sent \subseteq sent',
           \A l \in Link : \A k \in Node : \A e \in Event :
               LET x == [user |-> k, link |-> l, event |-> e]
               IN  x \in subs[home[l]] => x \in subs'[home[l]] \/ GaveUp(k, l, e)',
           \A n \in Node : \A s \in subs'[n] :
               /\ s.link \in Link /\ s.event \in Event
               /\ home[s.link] # n =>
                      \/ s \in subs[n]
                      \/ [user |-> n, link |-> s.link, event |-> s.event] \in subs'[home[s.link]]
                      \/ GaveUp(n, s.link, s.event)',
           \A m \in net' \ net : m.type = "response" /\ m.kind = "subscribe" /\ m.ok =>
               /\ m.link \in Link /\ m.src = home[m.link] /\ m.dst \in Node /\ m.dst # m.src
               /\ m.events \subseteq Event
               /\ \A e \in m.events : [user |-> m.dst, link |-> m.link, event |-> e] \in subs'[m.src]
    PROVE  PeerCovers' /\ GrantedInTable'
<1>1. PeerCovers'
  <2> SUFFICES ASSUME NEW n \in Node, NEW s \in subs'[n], home[s.link] # n,
                      ~GaveUp(n, s.link, s.event)'
               PROVE  [user |-> n, link |-> s.link, event |-> s.event] \in subs'[home[s.link]]
    BY Zenon DEF PeerCovers
  <2>1. CASE s \in subs[n]
    <3>1. ~GaveUp(n, s.link, s.event)
      BY GaveUpStays, Zenon
    <3>2. [user |-> n, link |-> s.link, event |-> s.event] \in subs[home[s.link]]
      BY <2>1, <3>1, Zenon DEF PeerCovers
    <3> QED
      BY <3>2, Zenon
  <2> QED
    BY <2>1, Zenon
<1>2. GrantedInTable'
  <2> SUFFICES ASSUME NEW m \in net', m.type = "response", m.kind = "subscribe", m.ok
               PROVE  /\ m.link \in Link /\ m.src = home[m.link] /\ m.dst \in Node /\ m.dst # m.src
                      /\ m.events \subseteq Event
                      /\ \A e \in m.events :
                             \/ [user |-> m.dst, link |-> m.link, event |-> e] \in subs'[m.src]
                             \/ GaveUp(m.dst, m.link, e)'
    BY Zenon DEF GrantedInTable
  <2>1. CASE m \in net
    <3>1. /\ m.link \in Link /\ m.src = home[m.link] /\ m.dst \in Node /\ m.dst # m.src
          /\ m.events \subseteq Event
          /\ \A e \in m.events : \/ [user |-> m.dst, link |-> m.link, event |-> e] \in subs[m.src]
                                 \/ GaveUp(m.dst, m.link, e)
      BY <2>1, Zenon DEF GrantedInTable
    <3> QED
      BY <3>1, GaveUpStays, Zenon
  <2>2. CASE m \notin net
    BY <2>2, Zenon
  <2> QED
    BY <2>1, <2>2, Zenon
<1> QED
  BY <1>1, <1>2, Zenon

\* Responses between MIHFs may be added, and messages taken.
LEMMA NetKept ==
    ASSUME RequestsSent, ResponsesFromNodes, sent \subseteq sent',
           \A m \in net' \ net : \/ m.type = "indication"
                                 \/ m.type = "response" /\ m.src \in Node /\ m.dst \in Node /\ m.src # m.dst
    PROVE  RequestsSent' /\ ResponsesFromNodes'
BY Zenon DEF RequestsSent, ResponsesFromNodes

\* m is the answer of n to the peer that sent in.
Answers(m, n, in, E) ==
    /\ m.type = "response" /\ m.kind = in.kind /\ m.src = n
    /\ m.dst = in.from /\ m.dst \in Node /\ m.dst # n
    /\ m.link = in.link /\ m.events = E

\* transmit of a success adds at most the answer to a peer.
LEMMA GrantSends ==
    ASSUME NEW n, NEW in, NEW E, NEW by, NEW rest, rest \subseteq net,
           Reply(n, in, TRUE, E, by, rest), NEW m \in net' \ net
    PROVE  Answers(m, n, in, E) /\ m.ok
<1> DEFINE r == NetMsg("response", in.kind, n, n, in.from, in.tid, in.link, TRUE, E, in.req)
<1>1. /\ r.type = "response" /\ r.kind = in.kind /\ r.src = n /\ r.dst = in.from
      /\ r.link = in.link /\ r.events = E /\ r.ok
  BY Zenon DEF NetMsg
<1>2. net' = IF in.from \in Node \ {n} THEN rest \cup {r} ELSE rest
  BY Zenon DEF Reply
<1> HIDE DEF r
<1> QED
  BY <1>1, <1>2, Zenon DEF Answers

\* transmit of a failure adds at most the answer to a peer.
LEMMA RefusalSends ==
    ASSUME NEW n, NEW in, NEW E, NEW by, NEW rest, rest \subseteq net,
           Reply(n, in, FALSE, E, by, rest), NEW m \in net' \ net
    PROVE  Answers(m, n, in, E) /\ ~m.ok
<1> DEFINE r == NetMsg("response", in.kind, n, n, in.from, in.tid, in.link, FALSE, E, in.req)
<1>1. /\ r.type = "response" /\ r.kind = in.kind /\ r.src = n /\ r.dst = in.from
      /\ r.link = in.link /\ r.events = E /\ ~r.ok
  BY Zenon DEF NetMsg
<1>2. net' = IF in.from \in Node \ {n} THEN rest \cup {r} ELSE rest
  BY Zenon DEF Reply
<1> HIDE DEF r
<1> QED
  BY <1>1, <1>2, Zenon DEF Answers

-----------------------------------------------------------------------------
(***************************************************************************)
(* Requests to the MIHF of the link                                        *)
(***************************************************************************)

\* A request that the MIHF n handles itself.
Handled(n, in) ==
    /\ in.from \in (User \cup Node) \ {n} /\ in.link \in Link /\ in.events \subseteq Event
    /\ in.tid \in Nat

\* The step takes one message at most, and remembers what is sent.
Takes(rest) == rest \subseteq net /\ sent \subseteq sent' /\ sent' \subseteq Request

\* A subscription that is refused, granted at once, or sent to the link.
LEMMA SubscribeStep ==
    ASSUME NEW n \in Node, NEW in, NEW rest, EventsInv, Handled(n, in), Takes(rest),
           in.kind = "subscribe", LocalSubscribe(n, in, rest), UNCHANGED <<tid, listed, fromLink>>
    PROVE  EventsInv'
<1> USE SetsAssumption DEF Handled, Takes
<1>1. CASE ~Known(n, in.link) /\ Reply(n, in, FALSE, {}, "mihf", rest)
           /\ UNCHANGED <<subs, book, lpool, timer, toLink, overlap, alive>>
  <2>1. Types'
    BY <1>1, Zenon DEF EventsInv, Types
  <2>2. ASSUME NEW m \in net' \ net PROVE Answers(m, n, in, {}) /\ ~m.ok
    BY <1>1, RefusalSends, Zenon
  <2>3. RequestsSent' /\ ResponsesFromNodes'
    BY <2>2, NetKept, Zenon DEF EventsInv, Answers
  <2>4. LinkCovers' /\ ConfirmedListed' /\ RetiredUnwanted'
    BY <1>1, LinkTables, Zenon DEF EventsInv
  <2>5. PeerCovers' /\ GrantedInTable'
    BY <1>1, <2>2, PeerTables, SMTT(30) DEF EventsInv, Types
  <2> QED
    BY <2>1, <2>3, <2>4, <2>5, Zenon DEF EventsInv
<1>2. CASE Known(n, in.link) /\ in.events = Wanted(n, in.link, {})
           /\ subs' = Subscribed(n, in.from, in.link, in.events)
           /\ Reply(n, in, TRUE, in.events, "mihf", rest)
           /\ UNCHANGED <<book, lpool, timer, toLink, overlap, alive>>
  <2>1. home[in.link] = n
    BY <1>2, Zenon DEF Known
  <2>2. \A k \in Node : subs'[k] = IF k = n THEN subs[n] \cup Subscription(in.from, in.link, in.events)
                                   ELSE subs[k]
    BY <1>2, Zenon DEF Subscribed, EventsInv, Types
  <2>3. subs' \in [Node -> SUBSET [user : User \cup Node, link : Link, event : Event]]
    BY <1>2, SMTT(30) DEF Subscribed, Subscription, EventsInv, Types
  <2>4. Types'
    BY <1>2, <2>3, Zenon DEF EventsInv, Types
  <2>5. ASSUME NEW m \in net' \ net PROVE Answers(m, n, in, in.events)
    BY <1>2, GrantSends, Zenon
  <2>6. RequestsSent' /\ ResponsesFromNodes'
    BY <2>5, NetKept, Zenon DEF EventsInv, Answers
  <2>7. \A s \in Subscription(in.from, in.link, in.events) :
            s.link = in.link /\ \E x \in subs[n] : x.link = in.link /\ x.event = s.event
    BY <1>2, SMTT(30) DEF Subscription, Wanted
  <2>8. LinkCovers' /\ ConfirmedListed' /\ RetiredUnwanted'
    BY <1>2, <2>1, <2>2, <2>7, LinkTables, SMTT(30) DEF EventsInv
  <2>9. \A e \in in.events : [user |-> in.from, link |-> in.link, event |-> e] \in subs'[n]
    <3>1. \A e \in in.events : [user |-> in.from, link |-> in.link, event |-> e]
                                  \in Subscription(in.from, in.link, in.events)
      BY Zenon DEF Subscription
    <3> QED
      BY <2>2, <3>1, Zenon
  <2>10. \A l \in Link : \A k \in Node : \A e \in Event :
             LET x == [user |-> k, link |-> l, event |-> e]
             IN  x \in subs[home[l]] => x \in subs'[home[l]]
    BY <2>2, SMTT(30)
  <2>11. \A k \in Node : \A s \in subs'[k] :
             s.link \in Link /\ s.event \in Event /\ (home[s.link] # k => s \in subs[k])
    BY <2>1, <2>2, <2>3, <2>7, SMTT(30)
  <2>12. PeerCovers' /\ GrantedInTable'
    BY <2>1, <2>5, <2>9, <2>10, <2>11, PeerTables, SMTT(30) DEF EventsInv, Answers
  <2> QED
    BY <2>4, <2>6, <2>8, <2>12, Zenon DEF EventsInv
<1>3. CASE Known(n, in.link) /\ NoReply(rest) /\ UNCHANGED <<subs, lpool, timer, toLink, overlap>>
  <2>1. Types'
    BY <1>3, Zenon DEF EventsInv, Types
  <2>2. net' \subseteq net
    BY <1>3, Zenon DEF NoReply
  <2>3. RequestsSent' /\ ResponsesFromNodes'
    BY <2>2, NetKept, Zenon DEF EventsInv
  <2>4. LinkCovers' /\ ConfirmedListed' /\ RetiredUnwanted'
    BY <1>3, LinkTables, Zenon DEF EventsInv
  <2>5. PeerCovers' /\ GrantedInTable'
    BY <1>3, <2>2, PeerTables, SMTT(30) DEF EventsInv, Types
  <2> QED
    BY <2>1, <2>3, <2>4, <2>5, Zenon DEF EventsInv
<1>4. CASE Known(n, in.link) /\ SendSubscribe(n, in) /\ NoReply(rest) /\ UNCHANGED subs
  <2> DEFINE new == LinkMsg("subscribe", in.link, in.tid, in.events, in.req)
  <2>1. toLink' = toLink \cup {new} /\ fromLink' = fromLink /\ listed' = listed
    BY <1>4, Zenon DEF SendSubscribe
  <2>2. new.kind = "subscribe" /\ new.link = in.link /\ new.events = in.events /\ new.tid = in.tid
    BY Zenon DEF LinkMsg
  <2> HIDE DEF new
  <2>3. Entry(in.from, in.link, in.tid) \in Waiting
    BY Zenon DEF Entry, Waiting
  <2>4. lpool' \in [Node -> Seq(Waiting)]
    BY <1>4, <2>3, SMTT(30) DEF SendSubscribe, EventsInv, Types
  <2>5. Types'
    BY <1>4, <2>1, <2>2, <2>4, Zenon DEF EventsInv, Types
  <2>6. net' \subseteq net
    BY <1>4, Zenon DEF NoReply
  <2>7. RequestsSent' /\ ResponsesFromNodes'
    BY <2>6, NetKept, Zenon DEF EventsInv
  <2>8. overlap \subseteq overlap'
    BY <1>4, Zenon DEF SendSubscribe
  <2>9. \A m \in toLink : m.kind = "unsubscribe" /\ m.link = in.link =>
            \A e \in m.events \cap in.events : <<in.link, e>> \in overlap'
    BY <1>4, Zenon DEF SendSubscribe, OnTheWay
  <2>10. LinkCovers' /\ ConfirmedListed'
    BY <1>4, <2>1, <2>8, Zenon DEF EventsInv, LinkCovers, ConfirmedListed
  <2>11. RetiredUnwanted'
    <3> SUFFICES ASSUME NEW m \in toLink', m.kind = "unsubscribe", NEW e \in m.events,
                        <<m.link, e>> \notin overlap'
                 PROVE  /\ \A s \in subs[home[m.link]] : ~(s.link = m.link /\ s.event = e)
                        /\ \A k \in toLink' \cup fromLink :
                               ~(k.kind = "subscribe" /\ k.link = m.link /\ e \in k.events)
      BY <1>4, <2>1, SMTT(30) DEF RetiredUnwanted
    <3>1. m \in toLink /\ <<m.link, e>> \notin overlap
      BY <2>1, <2>2, <2>8, Zenon
    <3>2. /\ \A s \in subs[home[m.link]] : ~(s.link = m.link /\ s.event = e)
          /\ \A k \in toLink \cup fromLink : ~(k.kind = "subscribe" /\ k.link = m.link /\ e \in k.events)
      BY <3>1, Zenon DEF EventsInv, RetiredUnwanted
    <3>3. ~(new.link = m.link /\ e \in new.events)
      BY <2>2, <2>9, <3>1, Zenon
    <3> QED
      BY <2>1, <3>2, <3>3, Zenon
  <2>12. PeerCovers' /\ GrantedInTable'
    BY <1>4, <2>6, PeerTables, SMTT(30) DEF EventsInv, Types
  <2> QED
    BY <2>5, <2>7, <2>10, <2>11, <2>12, Zenon DEF EventsInv
<1> QED
  BY <1>1, <1>2, <1>3, <1>4, ZenonT(30) DEF LocalSubscribe

\* An unsubscription takes one subscriber out of the table, and goes to the link
\* when nobody else wants the events.
LEMMA UnsubscribeStep ==
    ASSUME NEW n \in Node, NEW in, NEW rest, EventsInv, Handled(n, in), Takes(rest),
           in.kind = "unsubscribe", LocalUnsubscribe(n, in, rest),
           UNCHANGED <<tid, listed, fromLink>>,
           in.from \in Node /\ home[in.link] = n => \A e \in in.events : GaveUp(in.from, in.link, e)'
    PROVE  EventsInv'
<1> USE SetsAssumption DEF Handled, Takes
<1> DEFINE E == Unneeded(n, in)
           new == LinkMsg("unsubscribe", in.link, in.tid, E, in.req)
<1>1. \A k \in Node : subs'[k] = IF k = n THEN subs[n] \ Subscription(in.from, in.link, in.events)
                                 ELSE subs[k]
  <2>1. subs' = Unsubscribed(n, in.from, in.link, in.events)
    BY Zenon DEF LocalUnsubscribe
  <2>2. subs \in [Node -> SUBSET [user : User \cup Node, link : Link, event : Event]]
    BY Zenon DEF EventsInv, Types
  <2> QED
    BY <2>1, <2>2, Zenon DEF Unsubscribed
<1>2. subs' \in [Node -> SUBSET [user : User \cup Node, link : Link, event : Event]]
  BY Zenon DEF LocalUnsubscribe, Unsubscribed, EventsInv, Types
<1>3. ASSUME NEW m \in net' \ net PROVE Answers(m, n, in, in.events)
  <2>1. Reply(n, in, TRUE, in.events, "mihf", rest) \/ net' = rest
    BY Zenon DEF LocalUnsubscribe, NoReply
  <2>2. CASE Reply(n, in, TRUE, in.events, "mihf", rest)
    BY <2>2, GrantSends, ZenonT(30)
  <2> QED
    BY <2>1, <2>2, Zenon
<1>4. RequestsSent' /\ ResponsesFromNodes'
  BY <1>3, NetKept, Zenon DEF EventsInv, Answers
<1>5. PeerCovers' /\ GrantedInTable'
  <2>1. ASSUME NEW l \in Link, NEW k \in Node, NEW e \in Event,
               [user |-> k, link |-> l, event |-> e] \in subs[home[l]]
        PROVE  [user |-> k, link |-> l, event |-> e] \in subs'[home[l]] \/ GaveUp(k, l, e)'
    <3>1. CASE [user |-> k, link |-> l, event |-> e] \in Subscription(in.from, in.link, in.events)
      <4>1. k = in.from /\ l = in.link /\ e \in in.events
        BY <3>1, ZenonT(30) DEF Subscription
      <4>2. CASE home[l] = n
        BY <4>1, <4>2, Zenon
      <4>3. CASE home[l] # n
        BY <1>1, <2>1, <4>3, Zenon
      <4> QED
        BY <4>2, <4>3, Zenon
    <3> QED
      BY <1>1, <2>1, <3>1, Zenon
  <2>2. \A k \in Node : \A s \in subs'[k] : s.link \in Link /\ s.event \in Event /\ s \in subs[k]
    BY <1>1, <1>2, SMTT(30)
  <2>3. \A m \in net' \ net : m.kind # "subscribe"
    BY <1>3, Zenon DEF Answers
  <2> QED
    BY <2>1, <2>2, <2>3, PeerTables, Zenon DEF EventsInv
<1>6. CASE UNCHANGED <<lpool, toLink, overlap>>
  <2>1. Types'
    BY <1>2, <1>6, Zenon DEF EventsInv, Types
  <2>2. \A l \in Link : \A s \in subs'[home[l]] : s \in subs[home[l]]
    BY <1>1, Zenon
  <2>3. LinkCovers' /\ ConfirmedListed' /\ RetiredUnwanted'
    BY <1>6, <2>2, LinkTables, Zenon DEF EventsInv
  <2> QED
    BY <1>4, <1>5, <2>1, <2>3, Zenon DEF EventsInv
<1>7. CASE Known(n, in.link) /\ SendUnsubscribe(n, in, E)
  <2>1. toLink' = toLink \cup {new} /\ fromLink' = fromLink /\ listed' = listed
    BY <1>7, Zenon DEF SendUnsubscribe
  <2>2. new.kind = "unsubscribe" /\ new.link = in.link /\ new.events = E /\ new.tid = in.tid
    BY Zenon DEF LinkMsg
  <2>3. E \subseteq in.events /\ home[in.link] = n
    BY <1>7, Zenon DEF Unneeded, Known
  <2>4. \A s \in subs'[n] : ~(s.link = in.link /\ s.event \in E)
    <3> SUFFICES ASSUME NEW s \in subs'[n], s.link = in.link, s.event \in E PROVE FALSE
      BY Zenon
    <3>1. s \in subs[n] /\ s \notin Subscription(in.from, in.link, in.events)
      BY <1>1, Zenon
    <3>2. s \in [user : User \cup Node, link : Link, event : Event]
      BY <1>2, Zenon
    <3>3. CASE s.user = in.from
      <4>1. s = [user |-> in.from, link |-> in.link, event |-> s.event]
        BY <3>2, <3>3, Zenon
      <4> QED
        BY <2>3, <3>1, <4>1, Zenon DEF Subscription
    <3>4. CASE s.user # in.from
      BY <3>1, <3>4, Zenon DEF Unneeded, Wanted
    <3> QED
      BY <3>3, <3>4, Zenon
  <2>5. overlap \subseteq overlap'
    BY <1>7, Zenon DEF SendUnsubscribe
  <2>6. \A k \in toLink \cup fromLink : k.kind = "subscribe" /\ k.link = in.link =>
            \A e \in k.events \cap E : <<in.link, e>> \in overlap'
    BY <1>7, Zenon DEF SendUnsubscribe, OnTheWay
  <2>7. Entry(n, in.link, in.tid) \in Waiting
    BY Zenon DEF Entry, Waiting
  <2>8. lpool' \in [Node -> Seq(Waiting)]
    BY <1>7, <2>7, SMTT(30) DEF SendUnsubscribe, EventsInv, Types
  <2> HIDE DEF E, new
  <2>9. Types'
    BY <1>2, <2>1, <2>2, <2>3, <2>8, Zenon DEF EventsInv, Types
  <2>10. LinkCovers' /\ ConfirmedListed'
    BY <1>1, <2>1, <2>5, SMTT(30) DEF EventsInv, LinkCovers, ConfirmedListed
  <2>11. RetiredUnwanted'
    <3> SUFFICES ASSUME NEW m \in toLink', m.kind = "unsubscribe", NEW e \in m.events,
                        <<m.link, e>> \notin overlap'
                 PROVE  /\ \A s \in subs'[home[m.link]] : ~(s.link = m.link /\ s.event = e)
                        /\ \A k \in toLink' \cup fromLink :
                               ~(k.kind = "subscribe" /\ k.link = m.link /\ e \in k.events)
      BY <2>1, SMTT(30) DEF RetiredUnwanted
    <3>1. CASE m \in toLink
      <4>1. <<m.link, e>> \notin overlap /\ m.link \in Link
        BY <2>5, <3>1, Zenon DEF EventsInv, Types
      <4>2. /\ \A s \in subs[home[m.link]] : ~(s.link = m.link /\ s.event = e)
            /\ \A k \in toLink \cup fromLink : ~(k.kind = "subscribe" /\ k.link = m.link /\ e \in k.events)
        BY <3>1, <4>1, Zenon DEF EventsInv, RetiredUnwanted
      <4> QED
        BY <1>1, <2>1, <2>2, <4>1, <4>2, Zenon
    <3>2. CASE m = new
      BY <2>1, <2>2, <2>3, <2>4, <2>6, <3>2, SMTT(30)
    <3> QED
      BY <2>1, <3>1, <3>2, Zenon
  <2> QED
    BY <1>4, <1>5, <2>9, <2>10, <2>11, Zenon DEF EventsInv
<1> QED
  BY <1>6, <1>7, ZenonT(30) DEF LocalUnsubscribe

-----------------------------------------------------------------------------
(***************************************************************************)
(* The other steps                                                         *)
(***************************************************************************)

\* A request of a user to its own MIHF
LEMMA SubmitStep ==
    ASSUME NEW r \in Request, EventsInv, Submit(r)
    PROVE  EventsInv'
<1> DEFINE in == [kind |-> r.kind, from |-> r.from, tid |-> r.tid, link |-> r.link,
                  events |-> r.events, req |-> r]
<1>1. r.from \in User /\ r.to \in Node /\ r.link \in Link /\ r.events \subseteq Event /\ r.tid \in Nat
  BY RequestAssumption, Zenon
<1>2. /\ in.kind = r.kind /\ in.from = r.from /\ in.tid = r.tid /\ in.link = r.link
      /\ in.events = r.events
  BY Zenon
<1>3. LocalRequest(r.to, in, net) /\ Takes(net)
  BY Zenon DEF Submit, Accept, Takes, EventsInv, Types
<1> HIDE DEF in
<1>4. Handled(r.to, in) /\ in.from \notin Node
  BY <1>1, <1>2, SetsAssumption, Zenon DEF Handled
<1>5. UNCHANGED <<tid, listed, fromLink>>
  BY <1>3, Zenon DEF LocalRequest
<1>6. CASE in.kind = "subscribe" /\ LocalSubscribe(r.to, in, net)
  BY <1>1, <1>3, <1>4, <1>5, <1>6, SubscribeStep, Zenon
<1>7. CASE in.kind = "unsubscribe" /\ LocalUnsubscribe(r.to, in, net)
  BY <1>1, <1>3, <1>4, <1>5, <1>7, UnsubscribeStep, Zenon
<1> QED
  BY <1>3, <1>6, <1>7, Zenon DEF LocalRequest

\* The request of a peer
LEMMA PeerRequestStep ==
    ASSUME NEW m \in net, EventsInv, PeerRequest(m)
    PROVE  EventsInv'
<1> DEFINE in == Incoming(m.src, m.tid, m)
<1>1. /\ m.src \in Node /\ m.dst \in Node /\ m.src # m.dst /\ m.tid \in Nat
      /\ m.req \in sent /\ home[m.req.from] = m.src /\ m.req.to = m.dst
      /\ m.req.kind = m.kind /\ m.req.link = m.link /\ m.req.events = m.events
  BY Zenon DEF PeerRequest, EventsInv, RequestsSent
<1>2. m.req \in Request /\ m.link \in Link /\ m.events \subseteq Event
  BY <1>1, RequestAssumption, Zenon DEF EventsInv, Types
<1>3. /\ in.kind = m.kind /\ in.from = m.src /\ in.tid = m.tid /\ in.link = m.link
      /\ in.events = m.events
  BY Zenon DEF Incoming
<1>4. LocalRequest(m.dst, in, net \ {m}) /\ Takes(net \ {m})
  BY Zenon DEF PeerRequest, Takes, EventsInv, Types
<1> HIDE DEF in
<1>5. Handled(m.dst, in)
  BY <1>1, <1>2, <1>3, Zenon DEF Handled
<1>6. UNCHANGED <<tid, listed, fromLink>>
  BY <1>4, Zenon DEF LocalRequest
<1>7. CASE in.kind = "subscribe" /\ LocalSubscribe(m.dst, in, net \ {m})
  BY <1>1, <1>4, <1>5, <1>6, <1>7, SubscribeStep, Zenon
<1>8. CASE in.kind = "unsubscribe" /\ LocalUnsubscribe(m.dst, in, net \ {m})
  <2>1. home[in.link] = m.dst => \A e \in in.events : GaveUp(in.from, in.link, e)'
    BY <1>1, <1>3, <1>8, ZenonT(30) DEF GaveUp, PeerRequest
  <2> QED
    BY <1>1, <1>4, <1>5, <1>6, <1>8, <2>1, UnsubscribeStep, ZenonT(30)
<1> QED
  BY <1>4, <1>7, <1>8, Zenon DEF LocalRequest

-----------------------------------------------------------------------------
\* Steps that leave the tables, the links and the requests alone, and send at most
\* failures and indications.
LEMMA OtherStep ==
    ASSUME EventsInv, UNCHANGED <<subs, tid, listed, toLink, fromLink, sent, overlap>>,
           lpool' = lpool,
           \A m \in net' \ net :
               \/ m.type = "indication"
               \/ m.type = "response" /\ m.src \in Node /\ m.dst \in Node /\ m.src # m.dst /\ ~m.ok
    PROVE  EventsInv'
<1>1. Types'
  BY Zenon DEF EventsInv, Types
<1>2. RequestsSent' /\ ResponsesFromNodes'
  BY NetKept, Zenon DEF EventsInv
<1>3. LinkCovers' /\ ConfirmedListed' /\ RetiredUnwanted'
  BY LinkTables, Zenon DEF EventsInv
<1>4. PeerCovers' /\ GrantedInTable'
  BY PeerTables, SMTT(30) DEF EventsInv, Types
<1> QED
  BY <1>1, <1>2, <1>3, <1>4, Zenon DEF EventsInv

\* A request sent to a peer: only the pool and the messages change.
LEMMA ForwardStep ==
    ASSUME NEW r \in Request, EventsInv, Forward(r)
    PROVE  EventsInv'
<1> DEFINE n == home[r.from]
           q == NetMsg("request", r.kind, n, n, r.to, tid[n] + 1, r.link, TRUE, r.events, r)
           pool == Append(lpool[n], Entry(r.from, r.to, r.tid))
<1>1. /\ r.from \in User /\ r.to \in Node /\ r.link \in Link /\ r.events \subseteq Event
      /\ r.tid \in Nat /\ n \in Node /\ r.to # n /\ tid[n] \in Nat
  BY RequestAssumption, SetsAssumption, ZenonT(30) DEF Forward, EventsInv, Types
<1>2. /\ q.type = "request" /\ q.kind = r.kind /\ q.src = n /\ q.dst = r.to /\ q.tid = tid[n] + 1
      /\ q.link = r.link /\ q.events = r.events /\ q.req = r
  BY Zenon DEF NetMsg
<1>3. net' = net \cup {q} /\ sent' = sent \cup {r}
  BY Zenon DEF Forward, Accept
<1>4. lpool' \in [Node -> Seq(Waiting)]
  <2>1. pool \in Seq(Waiting)
    BY <1>1, SetsAssumption, SMTT(30) DEF Entry, Waiting, EventsInv, Types
  <2>2. SetRemoteTid(pool, r.to, r.tid, tid[n] + 1) \in Seq(Waiting)
    <3> DEFINE i == Find(pool, r.to, r.tid)
    <3>1. CASE i = 0
      BY <2>1, <3>1, Zenon DEF SetRemoteTid
    <3>2. CASE i # 0
      <4> HIDE DEF pool
      <4>1. i \in 1 .. Len(pool) /\ pool[i] \in Waiting
        BY <2>1, <3>2, FindEntry, Zenon
      <4> HIDE DEF i
      <4>2. [pool[i] EXCEPT !.rtid = tid[n] + 1] \in Waiting
        <5> DEFINE t == tid[n] + 1
                   x == [pool[i] EXCEPT !.rtid = t]
        <5>1. t \in Nat
          BY <1>1, SMTT(30)
        <5>2. /\ pool[i] \in [user : User \cup Node, destination : Link \cup Node, ltid : Nat, rtid : Nat]
              /\ pool[i].destination \in Node => pool[i].user \in User
          BY <4>1, Zenon DEF Waiting
        <5> HIDE DEF t
        <5>3. /\ x \in [user : User \cup Node, destination : Link \cup Node, ltid : Nat, rtid : Nat]
              /\ x.destination = pool[i].destination /\ x.user = pool[i].user
          BY <5>1, <5>2, Zenon
        <5> QED
          BY <5>2, <5>3, Zenon DEF Waiting, t
      <4>3. [pool EXCEPT ![i] = [pool[i] EXCEPT !.rtid = tid[n] + 1]] \in Seq(Waiting)
        BY <2>1, <4>1, <4>2, SMTT(30)
      <4> QED
        BY <3>2, <4>3, Zenon DEF SetRemoteTid, i
    <3> QED
      BY <3>1, <3>2, ZenonT(30)
  <2> QED
    BY <1>1, <2>2, ZenonT(30) DEF Forward, EventsInv, Types
<1> HIDE DEF q, pool
<1>5. Types'
  <2>1. tid[n] + 1 \in Nat
    BY <1>1, SMTT(30)
  <2> DEFINE t == tid[n] + 1
  <2>2. tid' = [tid EXCEPT ![n] = t] /\ tid \in [Node -> Nat]
    BY Zenon DEF Forward, EventsInv, Types
  <2> HIDE DEF t
  <2>3. tid' \in [Node -> Nat]
    BY <2>1, <2>2, Zenon DEF t
  <2>4. UNCHANGED <<subs, listed, toLink, fromLink>> /\ sent' \subseteq Request
    BY <1>3, Zenon DEF Forward, EventsInv, Types
  <2> QED
    BY <1>4, <2>3, <2>4, Zenon DEF EventsInv, Types
<1>6. RequestsSent' /\ ResponsesFromNodes'
  BY <1>1, <1>2, <1>3 DEF EventsInv, RequestsSent, ResponsesFromNodes
<1>7. LinkCovers' /\ ConfirmedListed' /\ RetiredUnwanted'
  BY LinkTables, Zenon DEF Forward, EventsInv
<1>8. PeerCovers' /\ GrantedInTable'
  <2>1. sent \subseteq sent' /\ subs' = subs
    BY <1>3, Zenon DEF Forward
  <2>2. \A m \in net' \ net : m.type # "response"
    BY <1>2, <1>3, Zenon
  <2>3. \A k \in Node : \A s \in subs[k] : s.link \in Link /\ s.event \in Event
    BY DEF EventsInv, Types
  <2> QED
    BY <2>1, <2>2, <2>3, PeerTables, Zenon DEF EventsInv
<1> QED
  BY <1>5, <1>6, <1>7, <1>8, Zenon DEF EventsInv

\* The answer of a peer changes the table for a user, of a link of the peer.
LEMMA PeerResponseStep ==
    ASSUME NEW m \in net, EventsInv, PeerResponse(m)
    PROVE  EventsInv'
<1> DEFINE n == m.dst
           i == Find(lpool[n], m.src, m.tid)
           u == lpool[n][i].user
<1>1. n \in Node /\ m.src \in Node /\ m.src # n
  BY Zenon DEF PeerResponse, EventsInv, ResponsesFromNodes
<1>2. lpool[n] \in Seq(Waiting)
  BY <1>1, Zenon DEF EventsInv, Types
<1>3. CASE i = 0
  BY <1>3, OtherStep, ZenonT(30) DEF PeerResponse, NoReply
<1>4. CASE i # 0
  <2>1. i \in 1 .. Len(lpool[n]) /\ lpool[n][i] \in Waiting /\ lpool[n][i].destination = m.src
    BY <1>2, <1>4, FindEntry, SMTT(30)
  <2>2. u \in User /\ u \notin Node
    BY <1>1, <2>1, SetsAssumption, ZenonT(30) DEF Waiting
  <2>3. Without(lpool[n], i) \in Seq(Waiting)
    BY <1>2, <2>1, RemoveEntry, Zenon
  <2>4. lpool' \in [Node -> Seq(Waiting)]
    BY <1>1, <1>4, <2>3, ZenonT(30) DEF PeerResponse, EventsInv, Types
  <2>5. net' = net \ {m}
    BY <1>4, <2>2, ZenonT(30) DEF PeerResponse, Reply
  <2>6. \/ subs' = subs
        \/ m.ok /\ m.kind = "subscribe" /\ subs' = Subscribed(n, u, m.link, m.events)
        \/ subs' = Unsubscribed(n, u, m.link, m.events)
    BY <1>4, Zenon DEF PeerResponse
  <2>7. UNCHANGED <<tid, listed, toLink, fromLink, sent, overlap>>
    BY ZenonT(30) DEF PeerResponse
  <2>8. RequestsSent' /\ ResponsesFromNodes'
    BY <2>5, <2>7, NetKept, Zenon DEF EventsInv
  <2> HIDE DEF i, n, u
  <2>9. CASE m.ok /\ m.kind = "subscribe" /\ subs' = Subscribed(n, u, m.link, m.events)
    <3>1. /\ m.link \in Link /\ m.src = home[m.link] /\ m.events \subseteq Event
          /\ \A e \in m.events : \/ [user |-> n, link |-> m.link, event |-> e] \in subs[m.src]
                                 \/ GaveUp(n, m.link, e)
      BY <2>9, ZenonT(30) DEF EventsInv, GrantedInTable, PeerResponse, n
    <3>2. \A k \in Node : subs'[k] = IF k = n THEN subs[n] \cup Subscription(u, m.link, m.events)
                                     ELSE subs[k]
      BY <2>9, Zenon DEF Subscribed, EventsInv, Types
    <3>3. \A s \in Subscription(u, m.link, m.events) : s.link = m.link /\ s.event \in m.events
      BY SMTT(30) DEF Subscription
    <3>4. subs' \in [Node -> SUBSET [user : User \cup Node, link : Link, event : Event]]
      BY <1>1, <2>2, <2>9, <3>1, SMTT(30) DEF Subscribed, Subscription, EventsInv, Types
    <3>5. Types'
      BY <2>4, <2>7, <3>4, Zenon DEF EventsInv, Types
    <3>6. \A l \in Link : \A s \in subs'[home[l]] : s.link = l => s \in subs[home[l]]
      BY <1>1, <3>1, <3>2, <3>3, SetsAssumption, Zenon
    <3>7. LinkCovers' /\ ConfirmedListed' /\ RetiredUnwanted'
      BY <2>7, <3>6, LinkTables, Zenon DEF EventsInv
    <3>8. \A l \in Link : \A k \in Node : \A e \in Event :
              LET x == [user |-> k, link |-> l, event |-> e]
              IN  x \in subs[home[l]] => x \in subs'[home[l]]
      BY <3>2, SetsAssumption, Zenon
    <3>9. ASSUME NEW k \in Node, NEW s \in subs'[k]
          PROVE  /\ s.link \in Link /\ s.event \in Event
                 /\ home[s.link] # k =>
                        \/ s \in subs[k]
                        \/ [user |-> k, link |-> s.link, event |-> s.event] \in subs'[home[s.link]]
                        \/ GaveUp(k, s.link, s.event)'
      <4>1. s.link \in Link /\ s.event \in Event
        BY <3>4, SMTT(30)
      <4>2. CASE s \in Subscription(u, m.link, m.events) /\ k = n
        <5>1. s.link = m.link /\ s.event \in m.events
          BY <3>3, <4>2, Zenon
        <5>2. \/ [user |-> n, link |-> s.link, event |-> s.event] \in subs[m.src]
              \/ GaveUp(n, s.link, s.event)
          BY <3>1, <5>1, Zenon
        <5>3. subs'[m.src] = subs[m.src]
          BY <1>1, <3>2, Zenon DEF n
        <5>4. GaveUp(n, s.link, s.event) => GaveUp(n, s.link, s.event)'
          BY <2>7, Zenon DEF GaveUp
        <5> QED
          BY <3>1, <4>1, <4>2, <5>1, <5>2, <5>3, <5>4, Zenon
      <4> QED
        BY <3>2, <4>1, <4>2, Zenon
    <3>10. PeerCovers' /\ GrantedInTable'
      BY <2>5, <2>7, <3>8, <3>9, PeerTables, ZenonT(30) DEF EventsInv
    <3> QED
      BY <2>8, <3>5, <3>7, <3>10, Zenon DEF EventsInv
  <2>10. CASE subs' = subs \/ subs' = Unsubscribed(n, u, m.link, m.events)
    <3>1. \A k \in Node : subs'[k] = subs[k] \/ subs'[k] = subs[k] \ Subscription(u, m.link, m.events)
      BY <1>1, <2>10, Zenon DEF Unsubscribed, EventsInv, Types
    <3>2. subs' \in [Node -> SUBSET [user : User \cup Node, link : Link, event : Event]]
      BY <1>1, <2>10, ZenonT(30) DEF Unsubscribed, EventsInv, Types
    <3>3. Types'
      BY <2>4, <2>7, <3>2, Zenon DEF EventsInv, Types
    <3>4. \A k \in Node : \A s \in subs'[k] : s \in subs[k] /\ s.link \in Link /\ s.event \in Event
      BY <3>1, <3>2, SMTT(30)
    <3>5. LinkCovers' /\ ConfirmedListed' /\ RetiredUnwanted'
      BY <2>7, <3>4, LinkTables, SetsAssumption, Zenon DEF EventsInv
    <3>6. ASSUME NEW l \in Link, NEW k \in Node, NEW e \in Event,
                 [user |-> k, link |-> l, event |-> e] \in subs[home[l]]
          PROVE  [user |-> k, link |-> l, event |-> e] \in subs'[home[l]]
      <4>1. [user |-> k, link |-> l, event |-> e] \notin Subscription(u, m.link, m.events)
        BY <2>2, ZenonT(30) DEF Subscription
      <4> QED
        BY <3>1, <3>6, <4>1, SetsAssumption, Zenon
    <3>7. PeerCovers' /\ GrantedInTable'
      BY <2>5, <2>7, <3>4, <3>6, PeerTables, Zenon DEF EventsInv
    <3> QED
      BY <2>8, <3>3, <3>5, <3>7, Zenon DEF EventsInv
  <2> QED
    BY <2>6, <2>9, <2>10, Zenon
<1> QED
  BY <1>3, <1>4, Zenon

\* The confirmation of a link: the user of the entry joins the table with events
\* that the link has on its list.
LEMMA ConfirmStep ==
    ASSUME NEW m \in fromLink, EventsInv, Confirm(m)
    PROVE  EventsInv'
<1> DEFINE n == home[m.link]
           i == Find(lpool[n], m.link, m.tid)
           u == lpool[n][i].user
<1>1. m.link \in Link /\ m.events \subseteq Event /\ n \in Node
  BY SetsAssumption, Zenon DEF EventsInv, Types
<1>2. lpool[n] \in Seq(Waiting)
  BY <1>1, Zenon DEF EventsInv, Types
<1>3. /\ fromLink' = fromLink \ {m} /\ UNCHANGED <<tid, listed, toLink, sent, overlap>>
      /\ \/ m.kind = "subscribe" /\ SubscribeConfirm(n, m)
         \/ m.kind # "subscribe" /\ OtherConfirm(n, m)
  BY Zenon DEF Confirm
<1>4. lpool' \in [Node -> Seq(Waiting)]
  <2>1. lpool' = lpool \/ (i # 0 /\ lpool' = [lpool EXCEPT ![n] = Without(@, i)])
    BY <1>3, ZenonT(30) DEF SubscribeConfirm, OtherConfirm
  <2>2. CASE i # 0
    <3>1. i \in 1 .. Len(lpool[n])
      BY <1>2, <2>2, FindEntry, Zenon
    <3> HIDE DEF i
    <3>2. Without(lpool[n], i) \in Seq(Waiting)
      BY <1>2, <3>1, RemoveEntry, Zenon
    <3>3. lpool \in [Node -> Seq(Waiting)]
      BY Zenon DEF EventsInv, Types
    <3> HIDE DEF n
    <3> QED
      BY <1>1, <2>1, <3>2, <3>3, Zenon
  <2> QED
    BY <2>1, <2>2, Zenon DEF EventsInv, Types
<1>5. CASE subs' = subs /\ net' = net
  <2>1. Types'
    BY <1>3, <1>4, <1>5, Zenon DEF EventsInv, Types
  <2>2. RequestsSent' /\ ResponsesFromNodes'
    BY <1>3, <1>5, NetKept, Zenon DEF EventsInv
  <2>3. LinkCovers' /\ ConfirmedListed' /\ RetiredUnwanted'
    BY <1>3, <1>5, LinkTables, Zenon DEF EventsInv
  <2>4. PeerCovers' /\ GrantedInTable'
    BY <1>3, <1>5, PeerTables, SMTT(30) DEF EventsInv, Types
  <2> QED
    BY <2>1, <2>2, <2>3, <2>4, Zenon DEF EventsInv
<1>6. CASE m.kind = "subscribe" /\ i # 0 /\ SubscribeConfirm(n, m)
  <2> DEFINE told == [kind |-> "subscribe", from |-> u, tid |-> lpool[n][i].ltid,
                      link |-> m.link, req |-> m.req]
  <2>1. subs' = Subscribed(n, u, m.link, m.events) /\ Reply(n, told, TRUE, m.events, "link", net)
    BY <1>6, ZenonT(30) DEF SubscribeConfirm
  <2>2. lpool[n][i] \in Waiting
    BY <1>2, <1>6, FindEntry, Zenon
  <2>3. u \in User \cup Node
    BY <2>2, Zenon DEF Waiting
  <2>4. told.kind = "subscribe" /\ told.from = u /\ told.link = m.link
    BY Zenon
  <2> HIDE DEF told, i, u
  <2>5. ASSUME NEW k \in net' \ net PROVE Answers(k, n, told, m.events)
    BY <2>1, GrantSends, Zenon
  <2> HIDE DEF n
  <2>6. \A k \in Node : subs'[k] = IF k = n THEN subs[n] \cup Subscription(u, m.link, m.events)
                                   ELSE subs[k]
    BY <2>1, ZenonT(30) DEF Subscribed, EventsInv, Types
  <2>7. subs' \in [Node -> SUBSET [user : User \cup Node, link : Link, event : Event]]
    BY <1>1, <2>1, <2>3, SMTT(30) DEF Subscribed, Subscription, EventsInv, Types
  <2>8. Types'
    BY <1>3, <1>4, <2>7, ZenonT(30) DEF EventsInv, Types
  <2>9. RequestsSent' /\ ResponsesFromNodes'
    BY <1>1, <1>3, <2>5, NetKept, Zenon DEF EventsInv, Answers
  <2>10. \A s \in Subscription(u, m.link, m.events) : s.link = m.link /\ s.event \in m.events
    BY SMTT(30) DEF Subscription
  <2>11. LinkCovers' /\ ConfirmedListed' /\ RetiredUnwanted'
    <3>1. ASSUME NEW l \in Link, NEW s \in subs'[home[l]], s.link = l
          PROVE  \/ \E x \in subs[home[l]] : x.link = l /\ x.event = s.event
                 \/ \E k \in fromLink : k.kind = "subscribe" /\ k.link = l /\ s.event \in k.events
      BY <1>6, <2>6, <2>10, <3>1, SetsAssumption, ZenonT(30)
    <3> QED
      BY <1>3, <3>1, LinkTables, ZenonT(30) DEF EventsInv
  <2>12. \A e \in m.events : [user |-> u, link |-> m.link, event |-> e] \in subs'[n]
    <3>1. \A e \in m.events : [user |-> u, link |-> m.link, event |-> e]
                                  \in Subscription(u, m.link, m.events)
      BY Zenon DEF Subscription
    <3> QED
      BY <1>1, <2>6, <3>1, Zenon
  <2>13. \A l \in Link : \A k \in Node : \A e \in Event :
             LET x == [user |-> k, link |-> l, event |-> e]
             IN  x \in subs[home[l]] => x \in subs'[home[l]]
    BY <2>6, SetsAssumption, Zenon
  <2>14. \A k \in Node : \A s \in subs'[k] :
             s.link \in Link /\ s.event \in Event /\ (home[s.link] # k => s \in subs[k])
    BY <2>6, <2>7, <2>10, SMTT(30) DEF n
  <2>15. ASSUME NEW k \in net' \ net
         PROVE  /\ k.link \in Link /\ k.src = home[k.link] /\ k.dst \in Node /\ k.dst # k.src
                /\ k.events \subseteq Event
                /\ \A e \in k.events : [user |-> k.dst, link |-> k.link, event |-> e] \in subs'[k.src]
    BY <1>1, <2>4, <2>5, <2>12, ZenonT(30) DEF Answers, n
  <2>16. PeerCovers' /\ GrantedInTable'
    BY <1>3, <2>13, <2>14, <2>15, PeerTables, ZenonT(30) DEF EventsInv
  <2> QED
    BY <2>8, <2>9, <2>11, <2>16, Zenon DEF EventsInv
<1> QED
  BY <1>3, <1>5, <1>6, ZenonT(30) DEF SubscribeConfirm, OtherConfirm, NoReply

\* The link handles a request: what it confirms is on its list then, and what it
\* drops nobody wants.
LEMMA LinkHandleStep ==
    ASSUME NEW m \in toLink, EventsInv, LinkHandle(m)
    PROVE  EventsInv'
<1> DEFINE E == m.events \cap Supported[m.link]
           c == LinkMsg(m.kind, m.link, m.tid, E, m.req)
<1>1. m.link \in Link /\ m.tid \in Nat /\ m.events \subseteq Event /\ E \subseteq m.events
  BY Zenon DEF EventsInv, Types
<1>2. /\ toLink' = toLink \ {m} /\ fromLink' = fromLink \cup {c}
      /\ UNCHANGED <<subs, lpool, tid, net, sent, overlap>>
  BY Zenon DEF LinkHandle, mihf, hist
<1>3. c.kind = m.kind /\ c.link = m.link /\ c.tid = m.tid /\ c.events = E
  BY Zenon DEF LinkMsg
<1>4. listed' = IF m.kind = "subscribe" THEN [listed EXCEPT ![m.link] = @ \cup E]
                ELSE IF m.kind = "unsubscribe" THEN [listed EXCEPT ![m.link] = @ \ E] ELSE listed
  BY Zenon DEF LinkHandle
<1> HIDE DEF E, c
<1>5. listed' \in [Link -> SUBSET Event]
  BY <1>1, <1>4, Zenon DEF EventsInv, Types
<1>6. Types'
  BY <1>1, <1>2, <1>3, <1>5, Zenon DEF EventsInv, Types
<1>7. RequestsSent' /\ ResponsesFromNodes'
  BY <1>2, NetKept, Zenon DEF EventsInv
<1>8. PeerCovers' /\ GrantedInTable'
  BY <1>2, PeerTables, SMTT(30) DEF EventsInv, Types
<1>9. ASSUME NEW l \in Link, NEW e, e \in listed[l], e \notin listed'[l]
      PROVE  /\ m.kind = "unsubscribe" /\ l = m.link /\ e \in m.events
             /\ \/ <<l, e>> \in overlap
                \/ /\ \A s \in subs[home[l]] : ~(s.link = l /\ s.event = e)
                   /\ \A k \in toLink \cup fromLink : ~(k.kind = "subscribe" /\ k.link = l /\ e \in k.events)
  <2>1. m.kind = "unsubscribe" /\ l = m.link /\ e \in m.events
    BY <1>1, <1>4, <1>9, Zenon DEF EventsInv, Types
  <2> QED
    BY <2>1, Zenon DEF EventsInv, RetiredUnwanted
<1>10. LinkCovers'
  <2> SUFFICES ASSUME NEW l \in Link, NEW s \in subs[home[l]], s.link = l
               PROVE  s.event \in listed'[l] \/ <<l, s.event>> \in overlap
    BY <1>2, Zenon DEF LinkCovers
  <2>1. s.event \in listed[l] \/ <<l, s.event>> \in overlap
    BY Zenon DEF EventsInv, LinkCovers
  <2> QED
    BY <1>9, <2>1, Zenon
<1>11. ConfirmedListed'
  <2> SUFFICES ASSUME NEW k \in fromLink', k.kind = "subscribe", NEW e \in k.events
               PROVE  e \in listed'[k.link] \/ <<k.link, e>> \in overlap
    BY <1>2, Zenon DEF ConfirmedListed
  <2>1. CASE k \in fromLink
    <3>1. k.link \in Link /\ (e \in listed[k.link] \/ <<k.link, e>> \in overlap)
      BY <2>1, Zenon DEF EventsInv, Types, ConfirmedListed
    <3> QED
      BY <1>9, <2>1, <3>1, Zenon
  <2>2. CASE k = c
    BY <1>1, <1>3, <1>4, <2>2, Zenon DEF EventsInv, Types
  <2> QED
    BY <1>2, <2>1, <2>2, Zenon
<1>12. RetiredUnwanted'
  <2> SUFFICES ASSUME NEW x \in toLink', x.kind = "unsubscribe", NEW e \in x.events,
                      <<x.link, e>> \notin overlap
               PROVE  /\ \A s \in subs[home[x.link]] : ~(s.link = x.link /\ s.event = e)
                      /\ \A k \in toLink' \cup fromLink' :
                             ~(k.kind = "subscribe" /\ k.link = x.link /\ e \in k.events)
    BY <1>2, Zenon DEF RetiredUnwanted
  <2>1. /\ \A s \in subs[home[x.link]] : ~(s.link = x.link /\ s.event = e)
        /\ \A k \in toLink \cup fromLink : ~(k.kind = "subscribe" /\ k.link = x.link /\ e \in k.events)
    BY <1>2, Zenon DEF EventsInv, RetiredUnwanted
  <2> QED
    BY <1>1, <1>2, <1>3, <2>1, Zenon
<1> QED
  BY <1>6, <1>7, <1>8, <1>10, <1>11, <1>12, Zenon DEF EventsInv

\* A link that restarts excuses all of its events.
LEMMA RestartStep ==
    ASSUME NEW l \in Link, EventsInv, Restart(l)
    PROVE  EventsInv'
<1> DEFINE n == home[l]
           c == LinkMsg("capability", l, 0, {}, NoReq)
<1>1. n \in Node
  BY SetsAssumption, Zenon
<1>2. /\ listed' = [listed EXCEPT ![l] = {}] /\ overlap' = overlap \cup ({l} \X Event)
      /\ UNCHANGED <<subs, tid, fromLink, net, sent>>
      /\ \/ toLink' = toLink \cup {c} /\ lpool' = [lpool EXCEPT ![n] = Append(@, Entry(n, l, 0))]
         \/ toLink' = toLink /\ lpool' = lpool
  BY Zenon DEF Restart
<1>3. c.kind = "capability" /\ c.link = l /\ c.tid = 0 /\ c.events = {}
  BY Zenon DEF LinkMsg
<1>4. Entry(n, l, 0) \in Waiting
  BY <1>1, SetsAssumption, Zenon DEF Entry, Waiting
<1> HIDE DEF n, c
<1>5. lpool' \in [Node -> Seq(Waiting)]
  <2>1. lpool \in [Node -> Seq(Waiting)]
    BY Zenon DEF EventsInv, Types
  <2>2. Append(lpool[n], Entry(n, l, 0)) \in Seq(Waiting)
    BY <1>1, <1>4, <2>1, SMTT(30)
  <2> QED
    BY <1>1, <1>2, <2>1, <2>2, ZenonT(30)
<1>6. Types'
  BY <1>2, <1>3, <1>5, SMTT(30) DEF EventsInv, Types
<1>7. RequestsSent' /\ ResponsesFromNodes'
  BY <1>2, NetKept, Zenon DEF EventsInv
<1>8. PeerCovers' /\ GrantedInTable'
  BY <1>2, PeerTables, SMTT(30) DEF EventsInv, Types
<1>9. ASSUME NEW k \in Link, NEW e \in Event, e \in listed[k] \/ <<k, e>> \in overlap
      PROVE  e \in listed'[k] \/ <<k, e>> \in overlap'
  BY <1>2, <1>9, Zenon DEF EventsInv, Types
<1>10. LinkCovers'
  BY <1>2, <1>9, SetsAssumption, Zenon DEF EventsInv, LinkCovers, Types
<1>11. ConfirmedListed'
  BY <1>2, <1>9, Zenon DEF EventsInv, ConfirmedListed, Types
<1>12. RetiredUnwanted'
  BY <1>2, <1>3, Zenon DEF EventsInv, RetiredUnwanted
<1> QED
  BY <1>6, <1>7, <1>8, <1>10, <1>11, <1>12, Zenon DEF EventsInv

-----------------------------------------------------------------------------
\* Every step keeps the invariant.
LEMMA EventsStep == EventsInv /\ [Next]_vars => EventsInv'
<1> SUFFICES ASSUME EventsInv, [Next]_vars PROVE EventsInv'
  BY Zenon
<1>1. CASE UNCHANGED vars
  BY <1>1, OtherStep, Zenon DEF vars, mihf, wires, hist
<1>2. ASSUME NEW r \in Request, Submit(r) \/ Forward(r) PROVE EventsInv'
  BY <1>2, SubmitStep, ForwardStep, Zenon
<1>3. ASSUME NEW m \in net, PeerRequest(m) \/ PeerResponse(m) PROVE EventsInv'
  BY <1>3, PeerRequestStep, PeerResponseStep, Zenon
<1>4. ASSUME NEW m \in net, PeerIndication(m) PROVE EventsInv'
  <2>1. \A k \in net' \ net : k.type = "indication"
    BY <1>4, SMTT(30) DEF PeerIndication, PassOn, NetMsg
  <2> QED
    BY <1>4, <2>1, OtherStep, Zenon DEF PeerIndication, mihf
<1>5. ASSUME NEW m \in fromLink, Confirm(m) PROVE EventsInv'
  BY <1>5, ConfirmStep, Zenon
<1>6. ASSUME NEW m \in toLink, LinkHandle(m) PROVE EventsInv'
  BY <1>6, LinkHandleStep, Zenon
<1>7. ASSUME NEW l \in Link, Restart(l) PROVE EventsInv'
  BY <1>7, RestartStep, Zenon
<1>8. ASSUME NEW l \in Link, Indicate(l) PROVE EventsInv'
  <2>1. \A k \in net' \ net : k.type = "indication"
    BY <1>8, SMTT(30) DEF Indicate, PassOn, NetMsg
  <2> QED
    BY <1>8, <2>1, OtherStep, Zenon DEF Indicate
<1>9. ASSUME NEW n \in Node, Expire(n) PROVE EventsInv'
  BY <1>9, OtherStep, Zenon DEF Expire, wires, hist
<1>10. ASSUME NEW n \in Node, Fire(n) PROVE EventsInv'
  <2>1. ASSUME NEW k \in net' \ net PROVE Answers(k, n, Head(due[n]), {}) /\ ~k.ok
    BY <1>10, RefusalSends, Zenon DEF Fire
  <2>2. \A k \in net' \ net : /\ k.type = "response" /\ k.src \in Node /\ k.dst \in Node
                              /\ k.src # k.dst /\ ~k.ok
    BY <2>1, Zenon DEF Answers
  <2> QED
    BY <1>10, <2>2, OtherStep, Zenon DEF Fire
<1> QED
  BY <1>1, <1>2, <1>3, <1>4, <1>5, <1>6, <1>7, <1>8, <1>9, <1>10, Zenon DEF Next

LEMMA EventsInit == Init => EventsInv
BY BoundAssumption, SetsAssumption, SMTT(30)
   DEF Init, EventsInv, Types, RequestsSent, ResponsesFromNodes, LinkCovers, ConfirmedListed,
       RetiredUnwanted, PeerCovers, GrantedInTable

\* For all MIHFs, links, events and requests: what somebody is subscribed to at the
\* MIHF of a link is on the list of the link, except where a subscription and an
\* unsubscription crossed or the link restarted.
THEOREM LinksCover == Spec => []LinkCovers
<1>1. EventsInv => LinkCovers
  BY Zenon DEF EventsInv
<1> QED
  BY <1>1, EventsInit, EventsStep, PTL DEF Spec

\* For all MIHFs, links, events and requests: a subscription to a peer's link is in
\* the table of the peer, unless some user of the MIHF ended it.
THEOREM PeersCover == Spec => []PeerCovers
<1>1. EventsInv => PeerCovers
  BY Zenon DEF EventsInv
<1> QED
  BY <1>1, EventsInit, EventsStep, PTL DEF Spec
-----------------------------------------------------------------------------
(***************************************************************************)
(* Which MIHFs end, and what their books of links say.                     *)
(***************************************************************************)
DiesInv ==
    /\ DOMAIN book = Link /\ alive \in [Node -> BOOLEAN]
    /\ DiesOnGivenUpLinkOnly

\* Only a MIHF that runs changes its entries.
LEMMA BookKept ==
    ASSUME EventsInv, DiesInv, sent \subseteq sent', alive' = alive, DOMAIN book' = Link,
           \A l \in Link : book'[l] = book[l] \/ alive[home[l]]
    PROVE  DiesInv'
<1>1. ASSUME NEW n \in Node, ~alive[n]
      PROVE  \E r \in sent' : /\ r.kind = "unsubscribe" /\ r.to = n /\ home[r.from] # n
                              /\ home[r.link] = n => ~book'[r.link].status
  <2>1. PICK r \in sent : /\ r.kind = "unsubscribe" /\ r.to = n /\ home[r.from] # n
                          /\ home[r.link] = n => ~book[r.link].status
    BY <1>1, Zenon DEF DiesInv, DiesOnGivenUpLinkOnly
  <2>2. r.link \in Link
    BY RequestAssumption, Zenon DEF EventsInv, Types
  <2>3. home[r.link] = n => ~book'[r.link].status
    BY <1>1, <2>1, <2>2, Zenon
  <2> QED
    BY <2>1, <2>3, Zenon
<1> QED
  BY <1>1, Zenon DEF DiesInv, DiesOnGivenUpLinkOnly

\* One entry of the book is set anew.
LEMMA BookEntry ==
    ASSUME EventsInv, DiesInv, sent \subseteq sent', alive' = alive,
           NEW l \in Link, alive[home[l]], NEW x, book' = [book EXCEPT ![l] = x]
    PROVE  DiesInv'
<1>1. DOMAIN book' = Link /\ \A k \in Link : book'[k] = book[k] \/ alive[home[k]]
  BY Zenon DEF DiesInv
<1> QED
  BY <1>1, BookKept, Zenon

\* A request of a user or of a peer at the MIHF of the link.
LEMMA DiesLocal ==
    ASSUME EventsInv, DiesInv, NEW n \in Node, alive[n], NEW in, in.link \in Link, NEW rest,
           sent \subseteq sent', LocalRequest(n, in, rest),
           \/ in.from \in User
           \/ \E r \in sent' : /\ r.kind = in.kind /\ r.to = n /\ home[r.from] # n
                               /\ r.link = in.link
    PROVE  DiesInv'
<1>1. \/ book' = book /\ alive' = alive
      \/ Known(n, in.link) /\ book' = Failed(in.link) /\ alive' = alive
      \/ /\ in.kind = "unsubscribe" /\ ~Known(n, in.link) /\ book' = book
         /\ alive' = [alive EXCEPT ![n] = in.from \in User]
  BY Zenon DEF LocalRequest, LocalSubscribe, LocalUnsubscribe
<1>2. CASE book' = book /\ alive' = alive
  BY <1>2, BookKept, Zenon DEF DiesInv
<1>3. CASE Known(n, in.link) /\ book' = Failed(in.link) /\ alive' = alive
  <2>1. \E x : book' = [book EXCEPT ![in.link] = x]
    BY <1>3, Zenon DEF Failed
  <2> QED
    BY <1>3, <2>1, BookEntry, Zenon DEF Known
<1>4. CASE /\ in.kind = "unsubscribe" /\ ~Known(n, in.link) /\ book' = book
           /\ alive' = [alive EXCEPT ![n] = in.from \in User]
  <2> DEFINE b == in.from \in User
  <2>1. alive' \in [Node -> BOOLEAN] /\ alive'[n] = b
        /\ \A k \in Node : k # n => alive'[k] = alive[k]
    <3>1. alive \in [Node -> BOOLEAN]
      BY Zenon DEF DiesInv
    <3>2. b \in BOOLEAN
      OBVIOUS
    <3>3. alive' = [alive EXCEPT ![n] = b]
      BY <1>4, Zenon
    <3> HIDE DEF b
    <3> QED
      BY <3>1, <3>2, <3>3, Zenon
  <2>2. ASSUME NEW k \in Node, ~alive'[k]
        PROVE  \E r \in sent' : /\ r.kind = "unsubscribe" /\ r.to = k /\ home[r.from] # k
                                /\ home[r.link] = k => ~book'[r.link].status
    <3>1. CASE k = n
      <4>1. PICK r \in sent' : /\ r.kind = in.kind /\ r.to = n /\ home[r.from] # n
                              /\ r.link = in.link
        BY <2>1, <2>2, <3>1, Zenon
      <4>2. home[r.link] = n => ~book'[r.link].status
        BY <1>4, <4>1, Zenon DEF Known
      <4> QED
        BY <1>4, <3>1, <4>1, <4>2, Zenon
    <3>2. CASE k # n
      <4>1. ~alive[k]
        BY <2>1, <2>2, <3>2, Zenon
      <4> QED
        BY <1>4, <4>1 DEF DiesInv, DiesOnGivenUpLinkOnly
    <3> QED
      BY <3>1, <3>2, Zenon
  <2> QED
    BY <1>4, <2>1, <2>2, Zenon DEF DiesInv, DiesOnGivenUpLinkOnly
<1> QED
  BY <1>1, <1>2, <1>3, <1>4, Zenon

LEMMA DiesStep == EventsInv /\ DiesInv /\ [Next]_vars => DiesInv'
<1> SUFFICES ASSUME EventsInv, DiesInv, [Next]_vars PROVE DiesInv'
  BY Zenon
<1>1. ASSUME book' = book, alive' = alive, sent \subseteq sent' PROVE DiesInv'
  BY <1>1, BookKept, Zenon DEF DiesInv
<1>2. CASE UNCHANGED vars
  BY <1>1, <1>2, Zenon DEF vars, mihf, hist
<1>3. ASSUME NEW r \in Request, Submit(r) PROVE DiesInv'
  <2> DEFINE in == [kind |-> r.kind, from |-> r.from, tid |-> r.tid, link |-> r.link,
                    events |-> r.events, req |-> r]
  <2>1. LocalRequest(r.to, in, net) /\ alive[r.to] /\ sent \subseteq sent'
    BY <1>3, Zenon DEF Submit, Accept
  <2>2. in.link \in Link /\ in.from \in User /\ r.to \in Node
    BY RequestAssumption, Zenon
  <2> HIDE DEF in
  <2> QED
    BY <2>1, <2>2, DiesLocal, Zenon
<1>4. ASSUME NEW r \in Request, Forward(r) PROVE DiesInv'
  BY <1>1, <1>4, Zenon DEF Forward, Accept
<1>5. ASSUME NEW m \in net, PeerRequest(m) PROVE DiesInv'
  <2> DEFINE in == Incoming(m.src, m.tid, m)
  <2>1. m.type = "request" /\ LocalRequest(m.dst, in, net \ {m}) /\ alive[m.dst] /\ sent' = sent
    BY <1>5, Zenon DEF PeerRequest
  <2>2. /\ m.dst \in Node /\ m.src # m.dst /\ m.req \in sent /\ home[m.req.from] = m.src
        /\ m.req.to = m.dst /\ m.req.kind = m.kind /\ m.req.link = m.link
    BY <2>1, Zenon DEF EventsInv, RequestsSent
  <2>3. in.kind = m.kind /\ in.link = m.link
    BY Zenon DEF Incoming
  <2>4. in.link \in Link
    BY <2>2, <2>3, RequestAssumption, Zenon DEF EventsInv, Types
  <2>5. \E r \in sent' : r.kind = in.kind /\ r.to = m.dst /\ home[r.from] # m.dst /\ r.link = in.link
    BY <2>1, <2>2, <2>3, Zenon
  <2> HIDE DEF in
  <2> QED
    BY <2>1, <2>2, <2>4, <2>5, DiesLocal, Zenon
<1>6. ASSUME NEW m \in net, PeerResponse(m) \/ PeerIndication(m) PROVE DiesInv'
  BY <1>1, <1>6, Zenon DEF PeerResponse, PeerIndication, mihf
<1>7. ASSUME NEW m \in fromLink, Confirm(m) PROVE DiesInv'
  <2>1. /\ alive[home[m.link]] /\ alive' = alive /\ sent' = sent
        /\ book' = [book EXCEPT ![m.link] = [fail |-> 0, status |-> TRUE]]
    BY <1>7, Zenon DEF Confirm, Reset
  <2>2. m.link \in Link
    BY Zenon DEF EventsInv, Types
  <2> QED
    BY <2>1, <2>2, BookEntry, Zenon
<1>8. ASSUME NEW m \in toLink, LinkHandle(m) PROVE DiesInv'
  BY <1>1, <1>8, Zenon DEF LinkHandle, mihf, hist
<1>9. ASSUME NEW l \in Link, Restart(l) \/ Indicate(l) PROVE DiesInv'
  <2>1. alive[home[l]] /\ alive' = alive /\ sent' = sent /\ \E x : book' = [book EXCEPT ![l] = x]
    BY <1>9, Zenon DEF Restart, Indicate, Reset
  <2> QED
    BY <2>1, BookEntry, Zenon
<1>10. ASSUME NEW n \in Node, Expire(n) \/ Fire(n) PROVE DiesInv'
  BY <1>1, <1>10, Zenon DEF Expire, Fire, hist
<1> QED
  BY <1>2, <1>3, <1>4, <1>5, <1>6, <1>7, <1>8, <1>9, <1>10, Zenon DEF Next

\* For all MIHFs, links, events and requests: a MIHF ends only when a peer unsubscribes
\* from a link that it has given up, or that is not one of its own.
THEOREM DiesOnGivenUpLink == Spec => []DiesOnGivenUpLinkOnly
<1>1. Init => DiesInv
  BY Zenon DEF Init, DiesInv, DiesOnGivenUpLinkOnly
<1>2. DiesInv => DiesOnGivenUpLinkOnly
  BY Zenon DEF DiesInv
<1> QED
  BY <1>1, <1>2, EventsInit, EventsStep, DiesStep, PTL DEF Spec
=============================================================================
