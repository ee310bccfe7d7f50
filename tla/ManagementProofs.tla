-------------------------- MODULE ManagementProofs ---------------------------
(***************************************************************************)
(* Proofs about module Management, for any MIHFs, links, users, requests   *)
(* and results of discovery.  Neither invariant depends on the local       *)
(* transaction pools: whoever an answer is taken for, the books stay       *)
(* right.                                                                  *)
(***************************************************************************)
EXTENDS Management, TLAPS

-----------------------------------------------------------------------------
(***************************************************************************)
(* The inductive invariant                                                 *)
(***************************************************************************)
CapsSet == [links : SUBSET Link, events : SUBSET Event, cmds : SUBSET Cmd, queries : SUBSET Query]

LinkEntry == [known : BOOLEAN, status : BOOLEAN, fail : Nat, events : SUBSET Event, cmds : SUBSET Cmd]
LinkBook  == [Link -> LinkEntry]

PeerEntry   == [known : BOOLEAN, reg : BOOLEAN, interval : SUBSET Int, caps : CapsSet]
AddressBook == [Node -> [Node -> PeerEntry]]

\* A link has said nothing of its events yet, or all.
EventsKnown(bk) == \A l \in Link : bk[l].events = {} \/ bk[l].events = Supported[l].events

\* The capabilities caps of n agree with the link book bk.
CapsHonest(n, caps, bk) ==
    \A l \in caps.links :
        /\ home[l] = n /\ bk[l].status
        /\ bk[l].events # {} => caps.events \subseteq Supported[l].events

Honest(ab, bk) == \A n \in Node : CapsHonest(n, ab[n][n].caps, bk)

\* The interval of the entry old of m at n may become that of new, g being the grants.
Follows(old, new, n, m, g) ==
    \/ new.interval \in {old.interval, {}, Less(old.interval)}
    \/ new.interval = {0} /\ new.reg
    \/ \E v \in new.interval : new.interval = {v} /\ (<<n, m, v>> \in g \/ <<m, n, v>> \in g)

\* The intervals of the address books ab may become those of new.
Leased(ab, new, g) == \A n, m \in Node : Follows(ab[n][m], new[n][m], n, m, g)

Answering(type, kind, src, dst, t, ok, caps, v, r) ==
    [type |-> type, kind |-> kind, src |-> src, dst |-> dst, tid |-> t, ok |-> ok, caps |-> caps,
     valid |-> v, req |-> r]

Shaped(m) == m = Answering(m.type, m.kind, m.src, m.dst, m.tid, m.ok, m.caps, m.valid, m.req)

\* No MIHF sends its capabilities to itself, and the answer that accepts a
\* registration follows a grant.
GoodMsg(m, g) ==
    /\ Shaped(m) /\ m.src \in Node /\ m.caps \in CapsSet /\ m.valid \in Int
    /\ m.kind = "caps" => m.dst \in Node /\ m.dst # m.src
    /\ m.type = "response" /\ m.kind = "register" /\ m.ok => <<m.dst, m.src, m.valid>> \in g

GoodNet(N, g) == \A m \in N : GoodMsg(m, g)

GoodInds(I) == \A i \in I : i.user \in User /\ i.kind # "caps"

GoodLinks(M) == \A m \in M : m.link \in Link

BooksInv(us, bk, ab) ==
    us \subseteq User /\ bk \in LinkBook /\ EventsKnown(bk) /\ ab \in AddressBook /\ Honest(ab, bk)

ManagementInv ==
    /\ BooksInv(users, book, abook)
    /\ GoodLinks(toLink) /\ GoodLinks(fromLink) /\ GoodInds(toUser)
    /\ GoodNet(net, granted)

\* What every step keeps, and what it does to the intervals.
Kept == ManagementInv' /\ Leased(abook, abook', granted')

-----------------------------------------------------------------------------
(***************************************************************************)
(* The operators                                                           *)
(***************************************************************************)

LEMMA NoCapsType == NoCaps \in CapsSet
  BY DEF NoCaps, CapsSet

\* What update_local_capabilities writes agrees with the books.
LEMMA CapabilitiesRight ==
    ASSUME NEW n \in Node, NEW bk \in LinkBook, EventsKnown(bk), NEW us \in SUBSET User
    PROVE  /\ Capabilities(n, bk, us) \in CapsSet
           /\ CapsHonest(n, Capabilities(n, bk, us), bk)
<1> DEFINE L == Active(n, bk)
           U == {u \in us : home[u] = n}
           served == UNION {Serves[u].cmds : u \in U}
           E == IF L = {} THEN {} ELSE {e \in Event : \A l \in L : e \in bk[l].events}
           C == IF served = {} THEN {} ELSE served \cup {x \in Cmd : \A l \in L : x \in bk[l].cmds}
           Q == UNION {Serves[u].queries : u \in U}
<1>1. Capabilities(n, bk, us) = [links |-> L, events |-> E, cmds |-> C, queries |-> Q]
  BY Zenon DEF Capabilities
<1>2. L \in SUBSET Link /\ E \in SUBSET Event
  BY Zenon DEF Active
<1>3. \A u \in U : Serves[u].cmds \subseteq Cmd /\ Serves[u].queries \subseteq Query
  BY ServiceAssumption
<1>4. C \in SUBSET Cmd /\ Q \in SUBSET Query
  BY <1>3, Zenon
<1>5. ASSUME NEW l \in L
      PROVE  home[l] = n /\ bk[l].status /\ (bk[l].events # {} => E \subseteq Supported[l].events)
  <2>1. l \in Link /\ home[l] = n /\ bk[l].status
    BY Zenon DEF Active
  <2>2. E \subseteq bk[l].events
    BY Zenon
  <2> QED
    BY <2>1, <2>2, Zenon DEF EventsKnown
<1> HIDE DEF L, E, C, Q
<1>6. Capabilities(n, bk, us) \in CapsSet
  BY <1>1, <1>2, <1>4 DEF CapsSet
<1>7. Capabilities(n, bk, us).links = L /\ Capabilities(n, bk, us).events = E
  BY <1>1
<1> QED
  BY <1>5, <1>6, <1>7, Zenon DEF CapsHonest

\* What a change of the address book from ab to new may do to capabilities and
\* intervals: the capabilities of a MIHF itself stay, and the only interval set is
\* that of m at n, to v.
Mild(ab, new, n, m, v) ==
    /\ new \in AddressBook
    /\ \A k \in Node : new[k][k].caps = ab[k][k].caps
    /\ \A k, p \in Node : new[k][p].interval = ab[k][p].interval \/ (k = n /\ p = m /\ new[k][p].interval = {v})

\* The same, where no interval is granted.
Unasked(old, new) == new.interval \in {old.interval, {}} \/ (new.interval = {0} /\ new.reg)

Milder(ab, new) ==
    /\ new \in AddressBook
    /\ \A k \in Node : new[k][k].caps = ab[k][k].caps
    /\ \A k, p \in Node : Unasked(ab[k][p], new[k][p])

Put(ab, n, m, e) == [ab EXCEPT ![n][m] = e]

\* new is ab with the entry e of m at n.
IsPut(ab, new, n, m, e) ==
    /\ new \in AddressBook
    /\ \A k, p \in Node : new[k][p] = IF k = n /\ p = m THEN e ELSE ab[k][p]

LEMMA EntryChange ==
    ASSUME NEW ab \in AddressBook, NEW n, NEW m, NEW e \in PeerEntry
    PROVE  IsPut(ab, Put(ab, n, m, e), n, m, e)
  BY Zenon DEF AddressBook, Put, IsPut

\* An assignment to an entry that is not there changes nothing.
LEMMA NoEntryChange ==
    ASSUME NEW ab \in AddressBook, NEW n, NEW m, NEW e, n \notin Node \/ m \notin Node
    PROVE  Put(ab, n, m, e) = ab
<1>1. CASE n \notin Node
  BY <1>1 DEF AddressBook, Put
<1>2. CASE n \in Node /\ m \notin Node
  <2>1. [ab[n] EXCEPT ![m] = e] = ab[n]
    BY <1>2 DEF AddressBook
  <2> QED
    BY <1>2, <2>1 DEF AddressBook, Put
<1> QED
  BY <1>1, <1>2

\* update_local_capabilities writes the entry of the MIHF itself only.
LEMMA UpdatedRight ==
    ASSUME NEW n \in Node, NEW bk \in LinkBook, EventsKnown(bk), NEW us \in SUBSET User,
           abook \in AddressBook
    PROVE  /\ Updated(n, bk, us) \in AddressBook
           /\ CapsHonest(n, Updated(n, bk, us)[n][n].caps, bk)
           /\ \A k \in Node \ {n} : Updated(n, bk, us)[k][k].caps = abook[k][k].caps
           /\ \A k, p \in Node : Updated(n, bk, us)[k][p].interval = abook[k][p].interval
<1> DEFINE c == Capabilities(n, bk, us)
           e == [abook[n][n] EXCEPT !.caps = c]
<1>1. c \in CapsSet /\ CapsHonest(n, c, bk)
  BY CapabilitiesRight, Zenon
<1> HIDE DEF c
<1>2. abook[n][n] \in PeerEntry
  BY Zenon DEF AddressBook
<1>3. e \in PeerEntry /\ e.caps = c /\ e.interval = abook[n][n].interval
  BY <1>1, <1>2 DEF PeerEntry
<1>4. Updated(n, bk, us) = Put(abook, n, n, e)
  BY Zenon DEF Updated, Put, c
<1> HIDE DEF e
<1>5. IsPut(abook, Updated(n, bk, us), n, n, e)
  BY <1>3, <1>4, EntryChange, Zenon
<1> QED
  BY <1>1, <1>3, <1>5, Zenon DEF IsPut

\* address_book::add of get_capabilities, for another MIHF.
LEMMA LearntMilder ==
    ASSUME abook \in AddressBook, NEW n \in Node, NEW m \in Node, n # m, NEW c \in CapsSet
    PROVE  Milder(abook, Learnt(n, m, c))
<1> DEFINE e == [known |-> TRUE, caps |-> c, reg |-> FALSE, interval |-> {}]
<1>1. e \in PeerEntry /\ e.interval = {}
  BY DEF PeerEntry
<1>2. Learnt(n, m, c) = Put(abook, n, m, e)
  BY Zenon DEF Learnt, Put
<1> HIDE DEF e
<1>3. IsPut(abook, Learnt(n, m, c), n, m, e)
  BY <1>1, <1>2, EntryChange, Zenon
<1> QED
  BY <1>1, <1>3, Zenon DEF Milder, IsPut, Unasked

\* An assignment to the registration of m at n: the capabilities stay.
LEMMA PutMilder ==
    ASSUME abook \in AddressBook, NEW n, NEW m, NEW e, NEW new, new = Put(abook, n, m, e),
           n \in Node /\ m \in Node =>
               e \in PeerEntry /\ e.caps = abook[n][m].caps /\ Unasked(abook[n][m], e)
    PROVE  Milder(abook, new)
<1>1. CASE n \in Node /\ m \in Node
  <2>1. IsPut(abook, new, n, m, e)
    BY <1>1, EntryChange, Zenon
  <2>2. \A k, p \in Node : Unasked(abook[k][p], abook[k][p])
    BY Zenon DEF Unasked
  <2> QED
    BY <1>1, <2>1, <2>2, Zenon DEF IsPut, Milder
<1>2. CASE ~(n \in Node /\ m \in Node)
  <2>1. new = abook
    BY <1>2, NoEntryChange, Zenon
  <2> QED
    BY <2>1, Zenon DEF Milder, Unasked
<1> QED
  BY <1>1, <1>2, Zenon

\* set_registration of the list.
LEMMA ListSetMilder ==
    ASSUME abook \in AddressBook, NEW n, NEW m
    PROVE  Milder(abook, ListSet(n, m))
<1> DEFINE z == {0}
           e == IF abook[n][m].known THEN [abook[n][m] EXCEPT !.reg = TRUE, !.interval = z] ELSE abook[n][m]
<1>1. ListSet(n, m) = Put(abook, n, m, e)
  BY Zenon DEF ListSet, Put
<1>2. ASSUME n \in Node, m \in Node
      PROVE  e \in PeerEntry /\ e.caps = abook[n][m].caps /\ Unasked(abook[n][m], e)
  <2>1. abook[n][m] \in PeerEntry
    BY <1>2, Zenon DEF AddressBook
  <2>2. z \in SUBSET Int /\ z = {0}
    OBVIOUS
  <2> HIDE DEF z
  <2>3. e \in PeerEntry /\ e.caps = abook[n][m].caps
        /\ (e.interval = abook[n][m].interval \/ (e.interval = z /\ e.reg))
    BY <2>1, <2>2, Zenon DEF PeerEntry
  <2> HIDE DEF e
  <2> QED
    BY <2>2, <2>3, Zenon DEF Unasked
<1> HIDE DEF e
<1> QED
  BY <1>1, <1>2, PutMilder, Zenon

\* Both, after a deregistration.
LEMMA DeregisteredMilder ==
    ASSUME abook \in AddressBook, NEW n, NEW m
    PROVE  Milder(abook, Deregistered(n, m))
<1> DEFINE e == IF abook[n][m].known THEN [abook[n][m] EXCEPT !.reg = FALSE, !.interval = {}] ELSE abook[n][m]
<1>1. Deregistered(n, m) = Put(abook, n, m, e)
  BY Zenon DEF Deregistered, Put
<1>2. ASSUME n \in Node, m \in Node
      PROVE  e \in PeerEntry /\ e.caps = abook[n][m].caps /\ Unasked(abook[n][m], e)
  <2>1. abook[n][m] \in PeerEntry
    BY <1>2, Zenon DEF AddressBook
  <2>2. e \in PeerEntry /\ e.caps = abook[n][m].caps /\ e.interval \in {abook[n][m].interval, {}}
    BY <2>1, Zenon DEF PeerEntry
  <2> HIDE DEF e
  <2> QED
    BY <2>2, Zenon DEF Unasked
<1> HIDE DEF e
<1> QED
  BY <1>1, <1>2, PutMilder, Zenon

\* set_registration of the interval.
LEMMA IntervalSetMild ==
    ASSUME abook \in AddressBook, NEW n, NEW m, NEW v \in Int
    PROVE  Mild(abook, IntervalSet(n, m, v), n, m, v)
<1> DEFINE z == {v}
           e == IF abook[n][m].known THEN [abook[n][m] EXCEPT !.interval = z] ELSE abook[n][m]
<1>1. IntervalSet(n, m, v) = Put(abook, n, m, e)
  BY Zenon DEF IntervalSet, Put
<1>2. CASE n \in Node /\ m \in Node
  <2>1. abook[n][m] \in PeerEntry
    BY <1>2, Zenon DEF AddressBook
  <2>2. z \in SUBSET Int /\ z = {v}
    BY Zenon
  <2> HIDE DEF z
  <2>3. /\ e \in PeerEntry /\ e.caps = abook[n][m].caps
        /\ e.interval = abook[n][m].interval \/ e.interval = z
    BY <2>1, <2>2, Zenon DEF PeerEntry
  <2> HIDE DEF e
  <2>4. IsPut(abook, IntervalSet(n, m, v), n, m, e)
    BY <1>1, <2>3, EntryChange, Zenon
  <2> QED
    BY <2>2, <2>3, <2>4, Zenon DEF IsPut, Mild
<1>3. CASE ~(n \in Node /\ m \in Node)
  <2> HIDE DEF e
  <2>1. IntervalSet(n, m, v) = abook
    BY <1>1, <1>3, NoEntryChange, Zenon
  <2> QED
    BY <2>1, Zenon DEF Mild
<1> QED
  BY <1>2, <1>3, Zenon

\* Intervals that stay.
LEMMA SameLeased ==
    ASSUME NEW ab, NEW new, NEW g, \A k, p \in Node : new[k][p].interval = ab[k][p].interval
    PROVE  Leased(ab, new, g)
  BY Zenon DEF Leased, Follows

LEMMA StillLeased ==
    ASSUME UNCHANGED abook PROVE Leased(abook, abook', granted')
  BY SameLeased, Zenon

LEMMA MilderKeeps ==
    ASSUME NEW us, NEW bk, NEW ab, NEW new, NEW g, BooksInv(us, bk, ab), Milder(ab, new)
    PROVE  BooksInv(us, bk, new) /\ Leased(ab, new, g)
<1>1. BooksInv(us, bk, new)
  BY Zenon DEF BooksInv, Milder, Honest
<1>2. Leased(ab, new, g)
  BY Zenon DEF Leased, Milder, Unasked, Follows
<1> QED
  BY <1>1, <1>2

LEMMA MildKeeps ==
    ASSUME NEW us, NEW bk, NEW ab, NEW new, NEW n, NEW m, NEW v, NEW g,
           BooksInv(us, bk, ab), Mild(ab, new, n, m, v), <<n, m, v>> \in g \/ <<m, n, v>> \in g
    PROVE  BooksInv(us, bk, new) /\ Leased(ab, new, g)
<1>1. BooksInv(us, bk, new)
  BY Zenon DEF BooksInv, Mild, Honest
<1>2. Leased(ab, new, g)
  BY Zenon DEF Leased, Mild, Follows
<1> QED
  BY <1>1, <1>2

\* Capabilities stay honest where the links keep their events and stay active.
LEMMA HonestKept ==
    ASSUME NEW n \in Node, NEW bk, NEW new, NEW c \in CapsSet, CapsHonest(n, c, bk),
           \A l \in Link : home[l] = n => new[l].events = bk[l].events /\ (bk[l].status => new[l].status)
    PROVE  CapsHonest(n, c, new)
<1>1. c.links \subseteq Link
  BY DEF CapsSet
<1> QED
  BY <1>1, Zenon DEF CapsHonest

LEMMA OwnCaps ==
    ASSUME NEW ab \in AddressBook, NEW n \in Node
    PROVE  ab[n][n] \in PeerEntry /\ ab[n][n].caps \in CapsSet
<1>1. ab[n][n] \in PeerEntry
  BY Zenon DEF AddressBook
<1> QED
  BY <1>1 DEF PeerEntry

\* A change of the entry of l that its MIHF follows with update_local_capabilities.
LEMMA UpdatedKeeps ==
    ASSUME NEW l \in Link, NEW bk \in LinkBook, EventsKnown(bk), NEW g,
           \A k \in Link \ {l} : bk[k] = book[k],
           BooksInv(users, book, abook)
    PROVE  /\ BooksInv(users, bk, Updated(home[l], bk, users))
           /\ Leased(abook, Updated(home[l], bk, users), g)
<1> DEFINE n == home[l]
           new == Updated(n, bk, users)
<1>1. n \in Node /\ users \in SUBSET User /\ abook \in AddressBook
  BY SetsAssumption, Zenon DEF BooksInv
<1> HIDE DEF n
<1>2. /\ new \in AddressBook /\ CapsHonest(n, new[n][n].caps, bk)
      /\ \A k \in Node \ {n} : new[k][k].caps = abook[k][k].caps
      /\ \A k, p \in Node : new[k][p].interval = abook[k][p].interval
  BY <1>1, UpdatedRight, Zenon
<1> HIDE DEF new
<1>3. ASSUME NEW k \in Node \ {n} PROVE CapsHonest(k, new[k][k].caps, bk)
  <2>1. CapsHonest(k, abook[k][k].caps, book) /\ abook[k][k].caps \in CapsSet
    BY <1>1, OwnCaps, Zenon DEF BooksInv, Honest
  <2>2. \A x \in Link : home[x] = k => bk[x].events = book[x].events /\ (book[x].status => bk[x].status)
    BY Zenon DEF n
  <2>3. CapsHonest(k, abook[k][k].caps, bk)
    BY <2>1, <2>2, HonestKept, Zenon
  <2> QED
    BY <1>2, <2>3, Zenon
<1>4. Honest(new, bk)
  BY <1>2, <1>3, Zenon DEF Honest
<1>5. BooksInv(users, bk, new) /\ Leased(abook, new, g)
  BY <1>1, <1>2, <1>4, SameLeased, Zenon DEF BooksInv
<1> QED
  BY <1>5, Zenon DEF new, n

\* A change of link entries that only makes links active.
LEMMA ActiveKeeps ==
    ASSUME NEW bk \in LinkBook, EventsKnown(bk), BooksInv(users, book, abook),
           \A k \in Link : bk[k].events = book[k].events /\ (book[k].status => bk[k].status)
    PROVE  BooksInv(users, bk, abook)
<1>1. ASSUME NEW k \in Node PROVE CapsHonest(k, abook[k][k].caps, bk)
  <2>1. CapsHonest(k, abook[k][k].caps, book) /\ abook[k][k].caps \in CapsSet
    BY OwnCaps, Zenon DEF BooksInv, Honest
  <2> QED
    BY <2>1, HonestKept, Zenon
<1> QED
  BY <1>1, Zenon DEF BooksInv, Honest

-----------------------------------------------------------------------------
(***************************************************************************)
(* Messages                                                                *)
(***************************************************************************)
LEMMA AnsweringGood ==
    ASSUME NEW type, NEW kind, NEW src \in Node, NEW dst, NEW t, NEW ok, NEW caps \in CapsSet, NEW v \in Int,
           NEW r, NEW g,
           kind = "caps" => dst \in Node /\ dst # src,
           type = "response" /\ kind = "register" /\ ok => <<dst, src, v>> \in g
    PROVE  GoodMsg(Answering(type, kind, src, dst, t, ok, caps, v, r), g)
<1> DEFINE m == Answering(type, kind, src, dst, t, ok, caps, v, r)
<1>1. /\ m.type = type /\ m.kind = kind /\ m.src = src /\ m.dst = dst /\ m.tid = t /\ m.ok = ok
      /\ m.caps = caps /\ m.valid = v /\ m.req = r
  BY DEF Answering
<1> HIDE DEF m
<1>2. Shaped(m)
  BY <1>1, Zenon DEF Shaped, m
<1>3. GoodMsg(m, g)
  BY <1>1, <1>2, Zenon DEF GoodMsg
<1> QED
  BY <1>3, Zenon DEF m

LEMMA NetMsgGood ==
    ASSUME NEW type, NEW kind, NEW src \in Node, NEW dst, NEW t, NEW ok, NEW caps \in CapsSet, NEW r, NEW g,
           kind = "caps" => dst \in Node /\ dst # src,
           type # "response" \/ kind # "register"
    PROVE  GoodMsg(NetMsg(type, kind, src, dst, t, ok, caps, r), g)
<1>1. Answering(type, kind, src, dst, t, ok, caps, 0, r) = NetMsg(type, kind, src, dst, t, ok, caps, r)
  BY DEF Answering, NetMsg
<1>2. 0 \in Int
  OBVIOUS
<1>3. GoodMsg(Answering(type, kind, src, dst, t, ok, caps, 0, r), g)
  BY <1>2, AnsweringGood, Zenon
<1> QED
  BY <1>1, <1>3, Zenon

LEMMA CapsResponseGood ==
    ASSUME NEW src \in Node, NEW dst \in Node, dst # src, NEW t, NEW caps \in CapsSet, NEW r, NEW g
    PROVE  GoodMsg(NetMsg("response", "caps", src, dst, t, TRUE, caps, r), g)
<1> DEFINE kind == "caps"
<1>1. kind # "register"
  OBVIOUS
<1> HIDE DEF kind
<1>2. GoodMsg(NetMsg("response", kind, src, dst, t, TRUE, caps, r), g)
  BY <1>1, NetMsgGood, Zenon
<1> QED
  BY <1>2, Zenon DEF kind

\* A message sent again under another number is still good.
LEMMA RenumberedGood ==
    ASSUME NEW m, NEW g, NEW t, GoodMsg(m, g)
    PROVE  GoodMsg([m EXCEPT !.tid = t], g)
<1> DEFINE new == Answering(m.type, m.kind, m.src, m.dst, t, m.ok, m.caps, m.valid, m.req)
<1>1. Shaped(m)
  BY Zenon DEF GoodMsg
<1>2. [Answering(m.type, m.kind, m.src, m.dst, m.tid, m.ok, m.caps, m.valid, m.req) EXCEPT !.tid = t] = new
  BY DEF Answering
<1>3. [m EXCEPT !.tid = t] = new
  BY <1>1, <1>2, Zenon DEF Shaped
<1>4. GoodMsg(new, g)
  BY AnsweringGood, Zenon DEF GoodMsg
<1> QED
  BY <1>3, <1>4, Zenon

\* Requests and indications to peers.
LEMMA SendsGood ==
    ASSUME NEW n \in Node, NEW dsts, NEW at, NEW kind, NEW r, abook \in AddressBook,
           GoodNet(net, granted), Sends(n, dsts, at, kind, r)
    PROVE  GoodNet(net', granted)
<1> DEFINE type == IF kind = "push" THEN "indication" ELSE "request"
           caps == IF kind = "caps" THEN abook[n][n].caps ELSE NoCaps
<1>1. caps \in CapsSet /\ type # "response"
  BY OwnCaps, NoCapsType, Zenon
<1>2. net' = net \cup UNION {{NetMsg(type, kind, n, m, tid[n] + i, TRUE, caps, r) :
                                  m \in Reached(n, dsts[i], at[i])} : i \in DOMAIN dsts}
  BY Zenon DEF Sends
<1> HIDE DEF type, caps
<1>3. SUFFICES ASSUME NEW x \in net', x \notin net PROVE GoodMsg(x, granted)
  BY Zenon DEF GoodNet
<1>4. PICK i \in DOMAIN dsts : x \in {NetMsg(type, kind, n, m, tid[n] + i, TRUE, caps, r) :
                                         m \in Reached(n, dsts[i], at[i])}
  BY <1>2, <1>3, Zenon
<1>5. PICK m \in Reached(n, dsts[i], at[i]) : x = NetMsg(type, kind, n, m, tid[n] + i, TRUE, caps, r)
  BY <1>4, Zenon
<1>6. m \in Node /\ m # n
  BY <1>5, Zenon DEF Reached
<1> QED
  BY <1>1, <1>5, <1>6, NetMsgGood, Zenon

-----------------------------------------------------------------------------
(***************************************************************************)
(* The actions                                                             *)
(***************************************************************************)
LEMMA InitManagement == Init => ManagementInv
<1> SUFFICES ASSUME Init PROVE ManagementInv
  OBVIOUS
<1>1. users \in SUBSET User
  BY Zenon DEF Init
<1>2. book \in LinkBook /\ \A l \in Link : book[l].events = {}
  BY DEF Init, LinkBook, LinkEntry
<1>3. EventsKnown(book)
  BY <1>2, Zenon DEF EventsKnown
<1> DEFINE c(n, m) == IF m = n THEN Capabilities(n, book, users) ELSE NoCaps
           e(n, m) == [known |-> m = n \/ m \in Peers[n], reg |-> FALSE, interval |-> {}, caps |-> c(n, m)]
<1>4. abook = [n \in Node |-> [m \in Node |-> e(n, m)]]
  BY Zenon DEF Init
<1>5. ASSUME NEW n \in Node, NEW m \in Node
      PROVE  c(n, m) \in CapsSet /\ CapsHonest(n, c(n, n), book)
  BY <1>1, <1>2, <1>3, CapabilitiesRight, NoCapsType, Zenon
<1> HIDE DEF c
<1>6. ASSUME NEW n \in Node, NEW m \in Node
      PROVE  e(n, m) \in PeerEntry /\ e(n, m).caps = c(n, m)
  BY <1>5 DEF PeerEntry
<1> HIDE DEF e
<1>7. abook \in AddressBook /\ \A n, m \in Node : abook[n][m] = e(n, m)
  BY <1>4, <1>6, Zenon DEF AddressBook
<1>8. Honest(abook, book)
  BY <1>5, <1>6, <1>7, Zenon DEF Honest
<1>9. GoodLinks(toLink) /\ GoodLinks(fromLink) /\ GoodInds(toUser) /\ GoodNet(net, granted)
  BY DEF Init, GoodLinks, GoodInds, GoodNet
<1> QED
  BY <1>1, <1>2, <1>3, <1>7, <1>8, <1>9, Zenon DEF ManagementInv, BooksInv

LEMMA LinkRequests ==
    ASSUME NEW r \in Request, r.kind \in LinkKinds PROVE r.from \in Link /\ home[r.from] \in Node
<1>1. r.from \in Link
  BY RequestAssumption DEF LinkKinds, UserKinds
<1> QED
  BY <1>1, SetsAssumption

LEMMA UserRequests ==
    ASSUME NEW r \in Request, r.kind \in UserKinds PROVE r.from \in User /\ home[r.from] \in Node
<1>1. r.from \in User
  BY RequestAssumption DEF LinkKinds, UserKinds
<1> QED
  BY <1>1, SetsAssumption

LEMMA LinkRegisterStep ==
    ASSUME ManagementInv, NEW r \in Request, LinkRegister(r) PROVE Kept
<1> DEFINE l == r.from
           n == home[l]
           x == [known |-> TRUE, status |-> 1 <= LinkDelete, fail |-> 1, events |-> {}, cmds |-> {}]
           bk == [book EXCEPT ![l] = x]
<1>1. l \in Link /\ n \in Node
  <2>1. r.kind \in LinkKinds
    BY Zenon DEF LinkRegister, LinkKinds
  <2> QED
    BY <2>1, LinkRequests, Zenon
<1>2. x \in LinkEntry /\ x.events = {}
  BY BoundAssumption DEF LinkEntry
<1>3. book \in LinkBook /\ EventsKnown(book) /\ users \in SUBSET User /\ abook \in AddressBook
  BY Zenon DEF ManagementInv, BooksInv
<1> HIDE DEF l, n, x
<1>4. bk \in LinkBook /\ bk[l] = x /\ \A k \in Link \ {l} : bk[k] = book[k]
  BY <1>1, <1>2, <1>3, Zenon DEF LinkBook
<1>5. /\ book' = bk /\ UNCHANGED <<users, fromLink, toUser, net, granted>>
      /\ \/ /\ bk[l].status
            /\ abook' = [abook EXCEPT ![n][n].caps.links = @ \cup {l}]
            /\ toLink' = toLink \cup {[link |-> l, tid |-> r.tid]}
         \/ ~bk[l].status /\ abook' = Updated(n, bk, users) /\ UNCHANGED toLink
  BY Zenon DEF LinkRegister, l, n, x
<1> HIDE DEF bk
<1>6. EventsKnown(bk)
  BY <1>2, <1>3, <1>4, Zenon DEF EventsKnown
<1>7. GoodLinks(toLink')
  <2>1. GoodLinks(toLink)
    BY Zenon DEF ManagementInv
  <2>2. [link |-> l, tid |-> r.tid].link = l
    OBVIOUS
  <2> QED
    BY <1>1, <1>5, <2>1, <2>2, Zenon DEF GoodLinks
<1>8. BooksInv(users, bk, abook') /\ Leased(abook, abook', granted)
  <2>1. CASE abook' = Updated(n, bk, users)
    BY <1>1, <1>4, <1>6, <2>1, UpdatedKeeps, Zenon DEF ManagementInv, n
  <2>2. CASE bk[l].status /\ abook' = [abook EXCEPT ![n][n].caps.links = @ \cup {l}]
    <3> DEFINE e == [abook[n][n] EXCEPT !.caps.links = @ \cup {l}]
               c == abook[n][n].caps
    <3>1. abook[n][n] \in PeerEntry /\ c \in CapsSet
      BY <1>1, <1>3, OwnCaps, Zenon
    <3>2. /\ e \in PeerEntry /\ e.interval = abook[n][n].interval
          /\ e.caps.links = c.links \cup {l} /\ e.caps.events = c.events
      <4> DEFINE d == [c EXCEPT !.links = @ \cup {l}]
      <4>1. d \in CapsSet /\ d.links = c.links \cup {l} /\ d.events = c.events
        BY <1>1, <3>1, SMTT(30) DEF CapsSet
      <4>2. e = [abook[n][n] EXCEPT !.caps = d]
        BY Zenon
      <4> HIDE DEF d, e
      <4> QED
        BY <3>1, <4>1, <4>2, SMTT(30) DEF PeerEntry
    <3>3. abook' = Put(abook, n, n, e)
      BY <2>2, Zenon DEF Put
    <3> HIDE DEF e
    <3>4. IsPut(abook, abook', n, n, e)
      BY <1>3, <3>2, <3>3, EntryChange, Zenon
    <3>5. CapsHonest(n, c, book) /\ c.links \subseteq Link
      BY <1>1, <3>1 DEF ManagementInv, BooksInv, Honest, CapsSet
    <3> HIDE DEF c
    <3>6. CapsHonest(n, e.caps, bk)
      BY <1>1, <1>2, <1>4, <2>2, <3>2, <3>5, Zenon DEF CapsHonest, n
    <3>7. ASSUME NEW k \in Node, k # n PROVE CapsHonest(k, abook'[k][k].caps, bk)
      <4>1. abook'[k][k] = abook[k][k] /\ CapsHonest(k, abook[k][k].caps, book) /\ abook[k][k].caps \in CapsSet
        BY <1>3, <3>4, <3>7, OwnCaps, Zenon DEF IsPut, ManagementInv, BooksInv, Honest
      <4>2. \A y \in Link : home[y] = k => bk[y].events = book[y].events /\ (book[y].status => bk[y].status)
        BY <1>4, <3>7, Zenon DEF n
      <4> QED
        BY <4>1, <4>2, HonestKept, Zenon
    <3>8. Honest(abook', bk) /\ abook' \in AddressBook
      BY <1>1, <3>4, <3>6, <3>7, Zenon DEF Honest, IsPut
    <3>9. Leased(abook, abook', granted)
      <4>1. \A k, p \in Node : abook'[k][p].interval = abook[k][p].interval
        BY <3>2, <3>4, Zenon DEF IsPut
      <4> QED
        BY <4>1, SameLeased, Zenon
    <3> QED
      BY <1>3, <1>4, <1>6, <3>8, <3>9, Zenon DEF BooksInv
  <2> QED
    BY <1>5, <2>1, <2>2, Zenon
<1> QED
  BY <1>5, <1>7, <1>8, Zenon DEF ManagementInv, Kept

\* link_book::reset
LEMMA ResetRight ==
    ASSUME NEW l \in Link, book \in LinkBook
    PROVE  /\ Reset(l) \in LinkBook
           /\ \A k \in Link : Reset(l)[k].events = book[k].events /\ (book[k].status => Reset(l)[k].status)
           /\ \A k \in Link \ {l} : Reset(l)[k] = book[k]
<1> DEFINE e == [book[l] EXCEPT !.fail = 0, !.status = TRUE]
<1>1. book[l] \in LinkEntry
  BY Zenon DEF LinkBook
<1>2. e \in LinkEntry /\ e.events = book[l].events /\ e.status
  BY <1>1, Zenon DEF LinkEntry
<1>3. Reset(l) = [book EXCEPT ![l] = e]
  BY Zenon DEF Reset, LinkBook
<1> HIDE DEF e
<1> QED
  BY <1>2, <1>3, Zenon DEF LinkBook

LEMMA CapabilityConfirmStep ==
    ASSUME ManagementInv, NEW m \in fromLink, CapabilityConfirm(m) PROVE Kept
<1> DEFINE l == m.link
           n == home[l]
           e == [Reset(l)[l] EXCEPT !.events = Supported[l].events, !.cmds = Supported[l].cmds]
           bk == [Reset(l) EXCEPT ![l] = e]
<1>1. l \in Link
  BY Zenon DEF ManagementInv, GoodLinks
<1>2. book \in LinkBook /\ EventsKnown(book) /\ BooksInv(users, book, abook)
  BY Zenon DEF ManagementInv, BooksInv
<1>3. /\ Reset(l) \in LinkBook
      /\ \A k \in Link : Reset(l)[k].events = book[k].events /\ (book[k].status => Reset(l)[k].status)
      /\ \A k \in Link \ {l} : Reset(l)[k] = book[k]
  BY <1>1, <1>2, ResetRight, Zenon
<1>4. /\ UNCHANGED <<users, toLink, toUser, net, granted>> /\ fromLink' = fromLink \ {m}
      /\ \/ /\ book' = [Reset(l) EXCEPT ![l].events = Supported[l].events, ![l].cmds = Supported[l].cmds]
            /\ abook' = Updated(n, book', users)
         \/ book' = Reset(l) /\ UNCHANGED abook
  BY Zenon DEF CapabilityConfirm, hist
<1> HIDE DEF l
<1>5. CASE book' = Reset(l) /\ UNCHANGED abook
  <2>1. EventsKnown(Reset(l))
    BY <1>2, <1>3, Zenon DEF EventsKnown
  <2>2. BooksInv(users, Reset(l), abook)
    BY <1>2, <1>3, <2>1, ActiveKeeps, Zenon
  <2> QED
    BY <1>2, <1>4, <1>5, <2>2, StillLeased, Zenon DEF ManagementInv, Kept, GoodLinks
<1>6. CASE /\ book' = [Reset(l) EXCEPT ![l].events = Supported[l].events, ![l].cmds = Supported[l].cmds]
           /\ abook' = Updated(n, book', users)
  <2>1. Reset(l)[l] \in LinkEntry
    BY <1>1, <1>3, Zenon DEF LinkBook
  <2>2. e \in LinkEntry /\ e.events = Supported[l].events
    BY <1>1, <2>1, ServiceAssumption, Zenon DEF LinkEntry
  <2>3. book' = bk
    BY <1>1, <1>3, <1>6, Zenon DEF LinkBook
  <2> HIDE DEF e
  <2>4. bk \in LinkBook /\ bk[l] = e /\ \A k \in Link \ {l} : bk[k] = book[k]
    BY <1>1, <1>3, <2>2, Zenon DEF LinkBook
  <2> HIDE DEF bk
  <2>5. EventsKnown(bk)
    BY <1>2, <2>2, <2>4, Zenon DEF EventsKnown
  <2>6. BooksInv(users, bk, abook') /\ Leased(abook, abook', granted)
    BY <1>1, <1>2, <1>6, <2>3, <2>4, <2>5, UpdatedKeeps, Zenon
  <2> QED
    BY <1>4, <2>3, <2>6, Zenon DEF ManagementInv, Kept, GoodLinks
<1> QED
  BY <1>4, <1>5, <1>6, Zenon

LEMMA LinkUsedStep ==
    ASSUME ManagementInv, NEW r \in Request, LinkUsed(r) PROVE Kept
<1> DEFINE l == r.from
           e == [book[l] EXCEPT !.fail = @ + 1, !.status = book[l].fail + 1 <= LinkDelete]
           bk == [book EXCEPT ![l] = e]
<1>1. l \in Link
  <2>1. r.kind \in LinkKinds
    BY Zenon DEF LinkUsed, LinkKinds
  <2> QED
    BY <2>1, LinkRequests, Zenon
<1>2. book \in LinkBook /\ EventsKnown(book) /\ BooksInv(users, book, abook)
  BY Zenon DEF ManagementInv, BooksInv
<1>3. book[l] \in LinkEntry
  BY <1>1, <1>2, Zenon DEF LinkBook
<1>4. e \in LinkEntry /\ e.events = book[l].events
  <2> DEFINE st == book[l].fail + 1 <= LinkDelete
  <2>1. st \in BOOLEAN /\ book[l].fail + 1 \in Nat
    BY <1>3, BoundAssumption DEF LinkEntry
  <2> HIDE DEF st
  <2>2. e = [book[l] EXCEPT !.fail = @ + 1, !.status = st]
    BY Zenon DEF st
  <2> QED
    BY <1>3, <2>1, <2>2, Zenon DEF LinkEntry
<1>5. /\ UNCHANGED <<users, toLink, fromLink, toUser, net, granted>>
      /\ book' = [book EXCEPT ![l].fail = @ + 1, ![l].status = book[l].fail + 1 <= LinkDelete]
      /\ abook' = IF book'[l].status THEN abook ELSE Updated(home[l], book', users)
  BY Zenon DEF LinkUsed, wires
<1>6. book' = bk
  BY <1>1, <1>2, <1>5, Zenon DEF LinkBook
<1> HIDE DEF e, l
<1>7. bk \in LinkBook /\ bk[l] = e /\ \A k \in Link \ {l} : bk[k] = book[k]
  BY <1>1, <1>2, <1>4, Zenon DEF LinkBook
<1> HIDE DEF bk
<1>8. EventsKnown(bk)
  BY <1>2, <1>4, <1>7, Zenon DEF EventsKnown
<1>9. BooksInv(users, bk, abook') /\ Leased(abook, abook', granted)
  <2>1. CASE bk[l].status
    <3>1. \A k \in Link : bk[k].events = book[k].events /\ (book[k].status => bk[k].status)
      BY <1>4, <1>7, <2>1, Zenon
    <3>2. abook' = abook
      BY <1>5, <1>6, <2>1, Zenon
    <3>3. BooksInv(users, bk, abook)
      BY <1>2, <1>7, <1>8, <3>1, ActiveKeeps, Zenon
    <3> QED
      BY <1>5, <3>2, <3>3, StillLeased, Zenon
  <2>2. CASE ~bk[l].status
    BY <1>1, <1>2, <1>5, <1>6, <1>7, <1>8, <2>2, UpdatedKeeps, Zenon
  <2> QED
    BY <2>1, <2>2, Zenon
<1> QED
  BY <1>5, <1>6, <1>9, Zenon DEF ManagementInv, Kept

LEMMA LinkHeardStep ==
    ASSUME ManagementInv, NEW r \in Request, LinkHeard(r) PROVE Kept
<1> DEFINE l == r.from
<1>1. l \in Link
  <2>1. r.kind \in LinkKinds
    BY Zenon DEF LinkHeard, LinkKinds
  <2> QED
    BY <2>1, LinkRequests, Zenon
<1>2. book \in LinkBook /\ EventsKnown(book) /\ BooksInv(users, book, abook)
  BY Zenon DEF ManagementInv, BooksInv
<1>3. book' = Reset(l) /\ UNCHANGED <<users, abook, toLink, fromLink, toUser, net, granted>>
  BY Zenon DEF LinkHeard, wires
<1> HIDE DEF l
<1>4. /\ Reset(l) \in LinkBook
      /\ \A k \in Link : Reset(l)[k].events = book[k].events /\ (book[k].status => Reset(l)[k].status)
  BY <1>1, <1>2, ResetRight, Zenon
<1>5. EventsKnown(Reset(l))
  BY <1>2, <1>4, Zenon DEF EventsKnown
<1>6. BooksInv(users, Reset(l), abook)
  BY <1>2, <1>4, <1>5, ActiveKeeps, Zenon
<1> QED
  BY <1>2, <1>3, <1>6, StillLeased, Zenon DEF ManagementInv, Kept

LEMMA UserRegisterStep ==
    ASSUME ManagementInv, NEW r \in Request, UserRegister(r) PROVE Kept
<1> DEFINE n == home[r.from]
           us == users \cup {r.from}
           new == Updated(n, book, us)
<1>1. r.from \in User /\ n \in Node
  <2>1. r.kind \in UserKinds
    BY Zenon DEF UserRegister, UserKinds
  <2> QED
    BY <2>1, UserRequests, Zenon
<1>2. /\ users \in SUBSET User /\ book \in LinkBook /\ EventsKnown(book) /\ abook \in AddressBook
      /\ Honest(abook, book)
  BY Zenon DEF ManagementInv, BooksInv
<1>3. /\ users' = us /\ abook' = new
      /\ UNCHANGED <<book, toLink, fromLink, toUser, net, granted>>
  BY Zenon DEF UserRegister, wires
<1>4. us \in SUBSET User
  BY <1>1, <1>2, Zenon
<1> HIDE DEF us, n
<1>5. /\ new \in AddressBook /\ CapsHonest(n, new[n][n].caps, book)
      /\ \A k \in Node \ {n} : new[k][k].caps = abook[k][k].caps
      /\ \A k, p \in Node : new[k][p].interval = abook[k][p].interval
  BY <1>1, <1>2, <1>4, UpdatedRight, Zenon
<1> HIDE DEF new
<1>6. BooksInv(us, book, new) /\ Leased(abook, new, granted)
  BY <1>1, <1>2, <1>4, <1>5, SameLeased, Zenon DEF BooksInv, Honest
<1> QED
  BY <1>3, <1>6, Zenon DEF ManagementInv, Kept

LEMMA LinkAnswerStep ==
    ASSUME ManagementInv, NEW m \in toLink, NEW ok, LinkAnswer(m, ok) PROVE Kept
<1>1. [link |-> m.link, tid |-> m.tid, ok |-> ok].link = m.link
  OBVIOUS
<1>2. GoodLinks(toLink') /\ GoodLinks(fromLink')
  BY <1>1, Zenon DEF LinkAnswer, ManagementInv, GoodLinks
<1> QED
  BY <1>2, StillLeased, Zenon DEF LinkAnswer, ManagementInv, Kept, books, hist

\* A step that leaves the books, the links and the grants alone.
LEMMA QuietStep ==
    ASSUME ManagementInv, GoodInds(toUser'), GoodNet(net', granted),
           UNCHANGED <<users, book, abook, toLink, fromLink, granted>>
    PROVE  Kept
  BY StillLeased, Zenon DEF ManagementInv, Kept

LEMMA IndGood ==
    ASSUME NEW u \in User, NEW kind, kind # "caps", NEW from, NEW t, NEW r
    PROVE  GoodInds({Ind(u, kind, from, t, r)})
<1>1. Ind(u, kind, from, t, r).user = u /\ Ind(u, kind, from, t, r).kind = kind
  BY DEF Ind
<1> QED
  BY <1>1, Zenon DEF GoodInds

LEMMA DiscoveredGood ==
    ASSUME ManagementInv, NEW n \in Node, NEW e, NEW u, NEW t, NEW res, NEW r, NEW waits, NEW pool,
           NEW rest \in SUBSET toUser, Discovered(n, e, u, t, res, r, waits, pool, rest)
    PROVE  GoodInds(toUser') /\ GoodNet(net', granted)
<1>1. abook \in AddressBook /\ users \in SUBSET User /\ GoodNet(net, granted) /\ GoodInds(rest)
  BY Zenon DEF ManagementInv, BooksInv, GoodInds
<1>2. \E dsts, at : Sends(n, dsts, at, "caps", r)
  BY Zenon DEF Discovered
<1>3. GoodNet(net', granted)
  BY <1>1, <1>2, SendsGood, Zenon
<1>4. \/ toUser' = rest
      \/ \E next \in users : \E num : toUser' = rest \cup {Ind(next, "discover", n, num, r)}
  BY Zenon DEF Discovered
<1>5. ASSUME NEW next \in users, NEW num, toUser' = rest \cup {Ind(next, "discover", n, num, r)}
      PROVE  GoodInds(toUser')
  <2>1. GoodInds({Ind(next, "discover", n, num, r)})
    BY <1>1, IndGood, Zenon
  <2> QED
    BY <1>1, <1>5, <2>1, Zenon DEF GoodInds
<1> QED
  BY <1>1, <1>3, <1>4, <1>5, Zenon

LEMMA FromDiscoveryStep ==
    ASSUME ManagementInv, NEW u \in User, NEW t, NEW res, NEW r, NEW rest \in SUBSET toUser,
           FromDiscovery(u, t, res, r, rest)
    PROVE  Kept
<1> DEFINE n == home[u]
<1>1. n \in Node
  BY SetsAssumption
<1>2. GoodInds(rest) /\ GoodNet(net, granted)
  BY Zenon DEF ManagementInv, GoodInds
<1>3. /\ UNCHANGED <<users, book, abook, toLink, fromLink, granted>>
      /\ \/ toUser' = rest /\ net' = net
         \/ \E x, y, waits, pool : Discovered(n, u, x, y, res, r, waits, pool, rest)
  BY Zenon DEF FromDiscovery, books
<1> HIDE DEF n
<1>4. GoodInds(toUser') /\ GoodNet(net', granted)
  BY <1>1, <1>2, <1>3, DiscoveredGood, Zenon
<1> QED
  BY <1>3, <1>4, QuietStep, Zenon

LEMMA DiscoveryAnswerStep ==
    ASSUME ManagementInv, NEW i \in toUser, NEW res, DiscoveryAnswer(i, res) PROVE Kept
<1>1. i.user \in User /\ toUser \ {i} \in SUBSET toUser
  BY Zenon DEF ManagementInv, GoodInds
<1> QED
  BY <1>1, FromDiscoveryStep, Zenon DEF DiscoveryAnswer

LEMMA DiscoveryReportStep ==
    ASSUME ManagementInv, NEW r \in Request, NEW res, DiscoveryReport(r, res) PROVE Kept
<1>1. r.from \in User /\ toUser \in SUBSET toUser
  BY Zenon DEF ManagementInv, BooksInv, DiscoveryReport
<1> QED
  BY <1>1, FromDiscoveryStep, Zenon DEF DiscoveryReport

LEMMA PassedGood ==
    ASSUME ManagementInv, NEW n, NEW U \in SUBSET users, NEW kind, kind # "caps", NEW from, NEW t, NEW r, NEW first,
           PassToUsers(n, U, kind, from, t, r, first)
    PROVE  GoodInds(toUser')
<1>1. toUser' = toUser \cup {Ind(u, kind, from, t, r) : u \in U}
  BY Zenon DEF PassToUsers
<1>2. users \in SUBSET User /\ GoodInds(toUser)
  BY Zenon DEF ManagementInv, BooksInv
<1>3. ASSUME NEW u \in U PROVE GoodInds({Ind(u, kind, from, t, r)})
  BY <1>2, IndGood, Zenon
<1> QED
  BY <1>1, <1>2, <1>3, Zenon DEF GoodInds

LEMMA ForwardGood ==
    ASSUME ManagementInv, NEW r, home[r.from] \in Node, Forward(r) PROVE GoodNet(net', granted)
<1>1. abook \in AddressBook /\ GoodNet(net, granted)
  BY Zenon DEF ManagementInv, BooksInv
<1>2. \E dsts, at : Sends(home[r.from], dsts, at, r.kind, r)
  BY Zenon DEF Forward
<1> QED
  BY <1>1, <1>2, SendsGood, Zenon

LEMMA AskStep ==
    ASSUME ManagementInv, NEW r \in Request, Ask(r) PROVE Kept
<1> DEFINE n == home[r.from]
<1>1. /\ users \in SUBSET User /\ abook \in AddressBook /\ BooksInv(users, book, abook)
      /\ GoodInds(toUser) /\ GoodNet(net, granted)
  BY Zenon DEF ManagementInv, BooksInv
<1>2. r.from \in User
  BY <1>1, Zenon DEF Ask
<1>3. n \in Node
  BY <1>2, SetsAssumption
<1>4. UNCHANGED <<users, book, toLink, fromLink, granted>>
  BY Zenon DEF Ask
<1>5. UsersOf(n) \in SUBSET users /\ Servers(n) \in SUBSET users
  BY Zenon DEF UsersOf, Servers
<1>6. CASE AskCaps(r)
  <2>1. /\ abook' = abook
        /\ \/ net' = net /\ toUser' = toUser
           \/ /\ Order[n][1] \in users /\ net' = net
              /\ toUser' = toUser \cup {Ind(Order[n][1], "discover", n, r.tid, r)}
           \/ toUser' = toUser /\ (Sends(n, <<Order[n][1]>>, <<Nobody>>, "caps", r) \/ Forward(r))
    BY <1>6, Zenon DEF AskCaps
  <2>2. Order[n][1] \in users => GoodInds({Ind(Order[n][1], "discover", n, r.tid, r)})
    <3> DEFINE first == Order[n][1]
    <3> HIDE DEF first
    <3>1. first \in users => GoodInds({Ind(first, "discover", n, r.tid, r)})
      BY <1>1, IndGood, Zenon
    <3> QED
      BY <3>1, Zenon DEF first
  <2>3. Sends(n, <<Order[n][1]>>, <<Nobody>>, "caps", r) => GoodNet(net', granted)
    BY <1>1, <1>3, SendsGood, Zenon
  <2>4. Forward(r) => GoodNet(net', granted)
    BY <1>3, ForwardGood, Zenon
  <2>5. GoodInds(toUser') /\ GoodNet(net', granted)
    BY <1>1, <2>1, <2>2, <2>3, <2>4, Zenon DEF GoodInds
  <2> QED
    BY <1>4, <2>1, <2>5, QuietStep, Zenon
<1>7. CASE AskRegister(r)
  <2>1. /\ r.kind # "caps"
        /\ \/ PassToUsers(n, UsersOf(n), r.kind, n, r.tid, r, n) /\ net' = net /\ abook' = abook
           \/ Forward(r) /\ toUser' = toUser /\ (abook' = abook \/ abook' = ListSet(n, r.to))
    BY <1>7, Zenon DEF AskRegister
  <2>2. GoodInds(toUser')
    BY <1>1, <1>5, <2>1, PassedGood, Zenon
  <2>3. GoodNet(net', granted)
    BY <1>1, <1>3, <2>1, ForwardGood, Zenon
  <2>4. Milder(abook, ListSet(n, r.to))
    BY <1>1, ListSetMilder, Zenon
  <2>5. BooksInv(users, book, abook') /\ Leased(abook, abook', granted)
    <3> DEFINE new == ListSet(n, r.to)
    <3>1. Milder(abook, new) /\ (abook' = abook \/ abook' = new)
      BY <2>1, <2>4, Zenon
    <3> HIDE DEF new
    <3>2. BooksInv(users, book, new) /\ Leased(abook, new, granted)
      BY <1>1, <3>1, MilderKeeps, Zenon
    <3> QED
      BY <1>1, <1>4, <3>1, <3>2, StillLeased, Zenon
  <2> QED
    BY <1>4, <2>2, <2>3, <2>5, Zenon DEF ManagementInv, Kept
<1>8. CASE AskInfo(r)
  <2>1. /\ abook' = abook
        /\ \/ PassToUsers(n, Servers(n), "info", n, r.tid, r, r.from) /\ net' = net
           \/ Forward(r) /\ toUser' = toUser
    BY <1>8, Zenon DEF AskInfo
  <2>2. GoodInds(toUser')
    BY <1>1, <1>5, <2>1, PassedGood, Zenon
  <2>3. GoodNet(net', granted)
    BY <1>1, <1>3, <2>1, ForwardGood, Zenon
  <2> QED
    BY <1>4, <2>1, <2>2, <2>3, QuietStep, Zenon
<1>9. CASE AskPush(r)
  <2>1. abook' = abook /\ toUser' = toUser /\ (net' = net \/ Forward(r))
    BY <1>9, Zenon DEF AskPush
  <2>2. GoodNet(net', granted)
    BY <1>1, <1>3, <2>1, ForwardGood, Zenon
  <2> QED
    BY <1>1, <1>4, <2>1, <2>2, QuietStep, Zenon
<1> QED
  BY <1>6, <1>7, <1>8, <1>9, Zenon DEF Ask

LEMMA PeerRequestStep ==
    ASSUME ManagementInv, NEW m \in net, PeerRequest(m) PROVE Kept
<1> DEFINE n == m.dst
<1>1. /\ users \in SUBSET User /\ abook \in AddressBook /\ BooksInv(users, book, abook)
      /\ GoodInds(toUser) /\ GoodNet(net, granted) /\ GoodNet(net \ {m}, granted)
  BY Zenon DEF ManagementInv, BooksInv, GoodNet
<1>2. m.src \in Node /\ m.caps \in CapsSet /\ (m.kind = "caps" => n \in Node /\ n # m.src)
  BY <1>1, Zenon DEF GoodNet, GoodMsg
<1>3. UNCHANGED <<users, book, toLink, fromLink, granted>>
  BY Zenon DEF PeerRequest
<1>4. UsersOf(n) \in SUBSET users /\ Servers(n) \in SUBSET users
  BY Zenon DEF UsersOf, Servers
<1>5. CASE m.kind = "caps"
  <2> DEFINE a == NetMsg("response", "caps", n, m.src, m.tid, TRUE, abook[n][n].caps, m.req)
  <2>1. toUser' = toUser /\ abook' = Learnt(n, m.src, m.caps) /\ net' = (net \ {m}) \cup {a}
    BY <1>5, Zenon DEF PeerRequest
  <2>2. abook[n][n].caps \in CapsSet
    BY <1>1, <1>2, <1>5, OwnCaps, Zenon
  <2> HIDE DEF n
  <2>3. GoodMsg(a, granted)
    BY <1>2, <1>5, <2>2, CapsResponseGood, Zenon
  <2> HIDE DEF a
  <2>4. GoodNet(net', granted)
    BY <1>1, <2>1, <2>3, Zenon DEF GoodNet
  <2>5. Milder(abook, Learnt(n, m.src, m.caps))
    BY <1>1, <1>2, <1>5, LearntMilder, Zenon
  <2>6. Milder(abook, abook')
    BY <2>1, <2>5, Zenon
  <2>7. BooksInv(users, book, abook') /\ Leased(abook, abook', granted)
    BY <1>1, <2>6, MilderKeeps, Zenon
  <2> QED
    BY <1>3, <2>1, <2>4, <2>7, Zenon DEF ManagementInv, Kept
<1>6. CASE m.kind # "caps"
  <2>1. /\ net' = net \ {m}
        /\ \/ PassToUsers(n, UsersOf(n), m.kind, m.src, m.tid, m.req, m.src)
           \/ PassToUsers(n, Servers(n), "info", m.src, m.tid, m.req, m.src)
        /\ abook' = abook \/ abook' = ListSet(n, m.src)
    BY <1>6, Zenon DEF PeerRequest
  <2>2. GoodInds(toUser')
    BY <1>1, <1>4, <1>6, <2>1, PassedGood, Zenon
  <2>3. Milder(abook, ListSet(n, m.src))
    BY <1>1, ListSetMilder, Zenon
  <2>4. BooksInv(users, book, abook') /\ Leased(abook, abook', granted)
    <3> DEFINE new == ListSet(n, m.src)
    <3>1. Milder(abook, new) /\ (abook' = abook \/ abook' = new)
      BY <2>1, <2>3, Zenon
    <3> HIDE DEF new
    <3>2. BooksInv(users, book, new) /\ Leased(abook, new, granted)
      BY <1>1, <3>1, MilderKeeps, Zenon
    <3> QED
      BY <1>1, <1>3, <3>1, <3>2, StillLeased, Zenon
  <2> QED
    BY <1>1, <1>3, <2>1, <2>2, <2>4, Zenon DEF ManagementInv, Kept
<1> QED
  BY <1>5, <1>6

LEMMA PeerIndicationStep ==
    ASSUME ManagementInv, NEW m \in net, PeerIndication(m) PROVE Kept
  BY QuietStep, Zenon DEF PeerIndication, books, ManagementInv, GoodNet

LEMMA LoseStep ==
    ASSUME ManagementInv, NEW m \in net, Lose(m) PROVE Kept
  BY QuietStep, Zenon DEF Lose, books, ManagementInv, GoodNet

\* What an answer to a registration changes keeps the books right, if an
\* acceptance was granted.
LEMMA GrantedKeeps ==
    ASSUME NEW us, NEW bk, BooksInv(us, bk, abook), NEW g, NEW n, NEW m, NEW kind, NEW ok, NEW v \in Int,
           ok /\ kind = "register" => <<n, m, v>> \in g \/ <<m, n, v>> \in g
    PROVE  BooksInv(us, bk, Granted(n, m, kind, ok, v)) /\ Leased(abook, Granted(n, m, kind, ok, v), g)
<1>1. abook \in AddressBook
  BY Zenon DEF BooksInv
<1>2. CASE ok /\ kind = "register"
  <2>1. Mild(abook, IntervalSet(n, m, v), n, m, v)
    BY <1>1, IntervalSetMild, Zenon
  <2>2. BooksInv(us, bk, IntervalSet(n, m, v)) /\ Leased(abook, IntervalSet(n, m, v), g)
    BY <1>2, <2>1, MildKeeps, Zenon
  <2> QED
    BY <1>2, <2>2, Zenon DEF Granted
<1>3. CASE ~(ok /\ kind = "register")
  <2>1. Milder(abook, Deregistered(n, m))
    BY <1>1, DeregisteredMilder, Zenon
  <2>2. BooksInv(us, bk, Deregistered(n, m)) /\ Leased(abook, Deregistered(n, m), g)
    BY <2>1, MilderKeeps, Zenon
  <2>3. Leased(abook, abook, g)
    BY SameLeased, Zenon
  <2> QED
    BY <1>3, <2>2, <2>3, Zenon DEF Granted
<1> QED
  BY <1>2, <1>3

LEMMA UserAnswerStep ==
    ASSUME ManagementInv, NEW i \in toUser, NEW ok, NEW late, UserAnswer(i, ok, late) PROVE Kept
<1> DEFINE n == home[i.user]
           w == lpool[n][Find(lpool[n], i.user, i.tid)].user
           t == IF late THEN tid[n] + 1 ELSE lpool[n][Find(lpool[n], i.user, i.tid)].ltid
           v == Valid[i.user]
           a == Answering("response", i.kind, n, w, t, ok, NoCaps, v, i.req)
           g == IF ok /\ i.kind = "register" THEN granted \cup {<<w, n, v>>} ELSE granted
<1>1. /\ BooksInv(users, book, abook) /\ GoodNet(net, granted)
      /\ i.user \in User /\ i.kind # "caps"
  BY Zenon DEF ManagementInv, GoodInds
<1>2. n \in Node /\ v \in Int
  BY <1>1, SetsAssumption, BoundAssumption
<1>3. GoodInds(toUser') /\ UNCHANGED <<users, book, toLink, fromLink>>
  BY Zenon DEF UserAnswer, ManagementInv, GoodInds
<1>4. \/ UNCHANGED <<abook, net, granted>>
      \/ abook' = Granted(n, w, i.kind, ok, v) /\ granted' = g /\ net' = net \cup {a}
  <2>1. [NetMsg("response", i.kind, n, w, t, ok, NoCaps, i.req) EXCEPT !.valid = v] = a
    BY DEF Answering, NetMsg
  <2> HIDE DEF a
  <2> QED
    BY <2>1, ZenonT(60) DEF UserAnswer
<1> HIDE DEF n, w, t, v
<1>5. CASE UNCHANGED <<abook, net, granted>>
  BY <1>1, <1>3, <1>5, QuietStep, Zenon
<1>6. CASE abook' = Granted(n, w, i.kind, ok, v) /\ granted' = g /\ net' = net \cup {a}
  <2>1. granted \subseteq g /\ (ok /\ i.kind = "register" => <<w, n, v>> \in g)
    BY Zenon
  <2> HIDE DEF g
  <2>2. GoodNet(net, g)
    BY <1>1, <2>1, Zenon DEF GoodNet, GoodMsg
  <2>3. BooksInv(users, book, abook') /\ Leased(abook, abook', g)
    BY <1>1, <1>2, <1>6, <2>1, GrantedKeeps, Zenon
  <2>4. GoodMsg(a, g)
    <3> DEFINE type == "response"
               kind == i.kind
    <3>1. kind # "caps" /\ (type = "response" /\ kind = "register" /\ ok => <<w, n, v>> \in g)
      BY <1>1, <2>1, Zenon
    <3> HIDE DEF type, kind
    <3>2. GoodMsg(Answering(type, kind, n, w, t, ok, NoCaps, v, i.req), g)
      BY <1>2, <3>1, NoCapsType, AnsweringGood, Zenon
    <3> QED
      BY <3>2, Zenon DEF type, kind
  <2> HIDE DEF a
  <2>5. GoodNet(net', g)
    BY <1>6, <2>2, <2>4, Zenon DEF GoodNet
  <2> QED
    BY <1>3, <1>6, <2>3, <2>5, Zenon DEF ManagementInv, Kept
<1> QED
  BY <1>4, <1>5, <1>6, Zenon

LEMMA AnsweredGood ==
    ASSUME ManagementInv, NEW m \in net, NEW n, NEW j, Answered(n, m, j) PROVE GoodNet(net', granted)
<1>1. GoodNet(net, granted) /\ GoodMsg(m, granted)
  BY Zenon DEF ManagementInv, GoodNet
<1>2. GoodMsg([m EXCEPT !.tid = tid[n] + 1], granted)
  BY <1>1, RenumberedGood, Zenon
<1>3. net' = net \ {m} \/ net' = (net \ {m}) \cup {[m EXCEPT !.tid = tid[n] + 1]}
  BY Zenon DEF Answered
<1> QED
  BY <1>1, <1>2, <1>3, Zenon DEF GoodNet

LEMMA CapsResponseStep ==
    ASSUME ManagementInv, NEW m \in net, CapsResponse(m) PROVE Kept
<1>1. /\ BooksInv(users, book, abook) /\ abook \in AddressBook
      /\ GoodNet(net \ {m}, granted) /\ GoodMsg(m, granted)
  BY Zenon DEF ManagementInv, BooksInv, GoodNet
<1>2. /\ UNCHANGED <<users, book, toLink, fromLink, toUser, granted>>
      /\ m.kind = "caps" /\ abook' = Learnt(m.dst, m.src, m.caps)
      /\ net' = net \ {m} \/ \E n, j : Answered(n, m, j)
  BY Zenon DEF CapsResponse
<1>3. GoodNet(net', granted)
  BY <1>1, <1>2, AnsweredGood, Zenon
<1>4. m.src \in Node /\ m.dst \in Node /\ m.dst # m.src /\ m.caps \in CapsSet
  BY <1>1, <1>2, Zenon DEF GoodMsg
<1>5. Milder(abook, abook')
  BY <1>1, <1>2, <1>4, LearntMilder, Zenon
<1>6. BooksInv(users, book, abook') /\ Leased(abook, abook', granted)
  BY <1>1, <1>5, MilderKeeps, Zenon
<1> QED
  BY <1>2, <1>3, <1>6, Zenon DEF ManagementInv, Kept

LEMMA PeerResponseStep ==
    ASSUME ManagementInv, NEW m \in net, PeerResponse(m) PROVE Kept
<1>1. /\ BooksInv(users, book, abook)
      /\ GoodNet(net \ {m}, granted) /\ GoodMsg(m, granted)
  BY Zenon DEF ManagementInv, GoodNet
<1>2. /\ UNCHANGED <<users, book, toLink, fromLink, toUser, granted>>
      /\ m.type = "response"
      /\ abook' = abook \/ abook' = Granted(m.dst, m.src, m.kind, m.ok, m.valid)
      /\ net' = net \ {m} \/ \E n, j : Answered(n, m, j)
  BY Zenon DEF PeerResponse
<1>3. GoodNet(net', granted)
  BY <1>1, <1>2, AnsweredGood, Zenon
<1>4. m.valid \in Int /\ (m.ok /\ m.kind = "register" => <<m.dst, m.src, m.valid>> \in granted)
  BY <1>1, <1>2, Zenon DEF GoodMsg
<1>5. BooksInv(users, book, abook') /\ Leased(abook, abook', granted)
  BY <1>1, <1>2, <1>4, GrantedKeeps, StillLeased, Zenon
<1> QED
  BY <1>2, <1>3, <1>5, Zenon DEF ManagementInv, Kept

\* One second: every interval of one MIHF is one less.
LEMMA TickStep ==
    ASSUME ManagementInv, NEW n \in Node, Tick(n) PROVE Kept
<1> DEFINE e(m) == [abook[n][m] EXCEPT !.interval = Less(@)]
           new == [abook EXCEPT ![n] = [m \in Node |-> e(m)]]
<1>1. abook \in AddressBook /\ BooksInv(users, book, abook)
  BY Zenon DEF ManagementInv, BooksInv
<1>2. abook' = new /\ UNCHANGED <<users, book, toLink, fromLink, toUser, net, granted>>
  BY <1>1, Zenon DEF Tick, wires, hist, AddressBook
<1>3. ASSUME NEW m \in Node
      PROVE  e(m) \in PeerEntry /\ e(m).caps = abook[n][m].caps /\ e(m).interval = Less(abook[n][m].interval)
  <2>1. abook[n][m] \in PeerEntry
    BY <1>1, Zenon DEF AddressBook
  <2>2. Less(abook[n][m].interval) \in SUBSET Int
    BY <2>1, BoundAssumption DEF PeerEntry, Less
  <2> QED
    BY <2>1, <2>2, Zenon DEF PeerEntry
<1> HIDE DEF e
<1>4. /\ new \in AddressBook
      /\ \A m \in Node : new[n][m] = e(m)
      /\ \A k \in Node \ {n} : new[k] = abook[k]
  BY <1>1, <1>3, Zenon DEF AddressBook
<1> HIDE DEF new
<1>5. \A k \in Node : new[k][k].caps = abook[k][k].caps
  BY <1>3, <1>4, Zenon
<1>6. BooksInv(users, book, new)
  BY <1>1, <1>4, <1>5, Zenon DEF BooksInv, Honest
<1>7. Leased(abook, new, granted)
  BY <1>3, <1>4, Zenon DEF Leased, Follows
<1> QED
  BY <1>2, <1>6, <1>7, Zenon DEF ManagementInv, Kept

-----------------------------------------------------------------------------
(***************************************************************************)
(* The theorems                                                            *)
(***************************************************************************)
LEMMA ManagementStep == ManagementInv /\ [Next]_vars => Kept
<1> SUFFICES ASSUME ManagementInv, [Next]_vars PROVE Kept
  OBVIOUS
<1>1. CASE UNCHANGED vars
  BY <1>1, StillLeased, Zenon DEF vars, books, wires, hist, ManagementInv, Kept
<1>2. CASE Next
  BY <1>2, TickStep, LinkRegisterStep, LinkUsedStep, LinkHeardStep, UserRegisterStep, AskStep, LinkAnswerStep,
     CapabilityConfirmStep, DiscoveryAnswerStep, DiscoveryReportStep, UserAnswerStep, PeerRequestStep,
     PeerIndicationStep, CapsResponseStep, PeerResponseStep, LoseStep, Zenon DEF Next
<1> QED
  BY <1>1, <1>2

LEMMA ManagementInvariant == Spec => []ManagementInv
<1>1. ManagementInv /\ [Next]_vars => ManagementInv'
  BY ManagementStep, Zenon DEF Kept
<1> QED
  BY <1>1, InitManagement, PTL DEF Spec

\* What a MIHF advertises to its peers names active links only, and no event that
\* one of them cannot send, whatever links and users do, peers answer and
\* discovery finds.
THEOREM HonestCapabilities == Spec => []AdvertisedHonest
<1>1. ManagementInv => AdvertisedHonest
  BY Zenon DEF ManagementInv, BooksInv, Honest, CapsHonest, AdvertisedHonest
<1> QED
  BY <1>1, ManagementInvariant, PTL

\* No interval of registration is recorded, at either end, but 0 with the list of
\* links that a request brings, one that is counted down, and one that a user of
\* one of the two accepted, whatever messages are lost and whoever's transaction an
\* answer takes.
THEOREM IntervalsGranted == Spec => IntervalFollowsGrant
<1> DEFINE A == \A n, m \in Node :
                  LET old == abook[n][m].interval
                      new == abook'[n][m].interval
                  IN  \/ new \in {old, {}, Less(old)}
                      \/ new = {0} /\ abook'[n][m].reg
                      \/ \E v \in new : new = {v} /\ (<<n, m, v>> \in granted' \/ <<m, n, v>> \in granted')
<1>1. Kept => A
  BY Zenon DEF Kept, Leased, Follows
<1>2. ManagementInv /\ [Next]_vars => [A]_vars
  BY <1>1, ManagementStep, Zenon
<1>3. IntervalFollowsGrant <=> [][A]_vars
  BY PTL DEF IntervalFollowsGrant
<1> HIDE DEF A
<1> QED
  BY <1>2, <1>3, ManagementInvariant, PTL DEF Spec
=============================================================================
