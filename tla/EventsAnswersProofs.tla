------------------------- MODULE EventsAnswersProofs -------------------------
(***************************************************************************)
(* What the users of Events get, for any MIHFs, users, links, events and   *)
(* requests whose identifiers are apart: answers that fit their requests,  *)
(* and only the events they asked for.                                     *)
(***************************************************************************)
EXTENDS EventsProofs, EventsNamingProofs

LEMMA InRange == ASSUME NEW S, NEW s \in Seq(S), NEW i \in 1 .. Len(s) PROVE s[i] \in Range(s)
<1>1. i \in DOMAIN s
  OBVIOUS
<1> QED
  BY <1>1, Zenon DEF Range

\* An entry is taken from a pool.
LEMMA PoolLess ==
    ASSUME NEW w, Types, PoolsAbout(w), sent \subseteq sent', NEW n \in Node, NEW i \in 1 .. Len(lpool[n]),
           lpool' = [lpool EXCEPT ![n] = Without(@, i)]
    PROVE  /\ PoolsAbout(w)' /\ \A k \in Node : Range(lpool'[k]) \subseteq Range(lpool[k])
           /\ lpool[n][i] \in UserEntries => lpool[n][i] \notin Range(lpool'[n])
<1> DEFINE p == Without(lpool[n], i)
<1>1. lpool \in [Node -> Seq(Waiting)] /\ lpool[n] \in Seq(Waiting) /\ Unrepeated(lpool[n], UserEntries)
  BY Zenon DEF Types, PoolsAbout
<1>2. /\ Range(p) \subseteq Range(lpool[n]) /\ Unrepeated(p, UserEntries)
      /\ lpool[n][i] \in UserEntries => lpool[n][i] \notin Range(p)
  BY <1>1, PoolShrinks, Zenon
<1> HIDE DEF p
<1>3. lpool' = [lpool EXCEPT ![n] = p]
  BY Zenon DEF p
<1>4. lpool'[n] = p /\ \A k \in Node \ {n} : lpool'[k] = lpool[k]
  BY <1>1, <1>3, Zenon
<1>5. \A e \in Range(p) :
          e \in Range(lpool[n]) \/ (e.rtid = 0 /\ e.user = n) \/ \E r \in sent' : EntryOf(e, n, r, w)
  BY <1>2, Zenon
<1>6. PoolsAbout(w)'
  BY <1>2, <1>3, <1>5, PoolKept, Zenon
<1> QED
  BY <1>2, <1>4, <1>6, Zenon

\* A timer is stopped.
LEMMA TimerLess ==
    ASSUME NEW w, TimersAbout(w), NEW n \in Node, NEW t, timer' = Disarmed(n, t)
    PROVE  /\ DOMAIN timer' = Node
           /\ \A k \in Node : \A u \in DOMAIN timer'[k] :
                  u \in DOMAIN timer[k] /\ timer'[k][u] = timer[k][u] /\ ~(k = n /\ u = t)
<1>1. DOMAIN timer' = Node
  BY Zenon DEF TimersAbout, Disarmed
<1>2. timer'[n] = [u \in DOMAIN timer[n] \ {t} |-> timer[n][u]] /\ \A k \in Node \ {n} : timer'[k] = timer[k]
  <2>1. DOMAIN timer = Node
    BY Zenon DEF TimersAbout
  <2> QED
    BY <2>1, Zenon DEF Disarmed
<1>3. \A u \in DOMAIN timer'[n] : u \in DOMAIN timer[n] /\ timer'[n][u] = timer[n][u] /\ u # t
  BY <1>2
<1> QED
  BY <1>1, <1>2, <1>3, Zenon

LEMMA TimersKept ==
    ASSUME NEW w, TimersAbout(w), sent \subseteq sent', DOMAIN timer' = Node, DOMAIN due' = Node,
           \A k \in Node : \A u \in DOMAIN timer'[k] : u \in DOMAIN timer[k] /\ timer'[k][u] = timer[k][u],
           \A k \in Node : due'[k] \in Seq(Pending(k, w)) /\ Unrepeated(due'[k], UserSeen(w))
    PROVE  TimersAbout(w)' /\ \A k \in Node : \A t : Idle(k, t) => Idle(k, t)'
<1>1. ASSUME NEW k \in Node
      PROVE  /\ \A t \in DOMAIN timer'[k] : /\ timer'[k][t] \in [in : Pending(k, w)', expired : BOOLEAN]
                                             /\ timer'[k][t].in.tid = t
             /\ due'[k] \in Seq(Pending(k, w)') /\ Unrepeated(due'[k], UserSeen(w))
  <2>1. Pending(k, w) \subseteq Pending(k, w)'
    BY PendingGrows, Zenon
  <2>2. \A t \in DOMAIN timer[k] : /\ timer[k][t] \in [in : Pending(k, w), expired : BOOLEAN]
                                   /\ timer[k][t].in.tid = t
    BY Zenon DEF TimersAbout
  <2>3. due'[k] \in Seq(Pending(k, w)')
    BY <2>1, SeqOfMore, Zenon
  <2>4. [in : Pending(k, w), expired : BOOLEAN] \subseteq [in : Pending(k, w)', expired : BOOLEAN]
    BY <2>1, Zenon
  <2>5. \A t \in DOMAIN timer'[k] : t \in DOMAIN timer[k] /\ timer'[k][t] = timer[k][t]
    OBVIOUS
  <2> DEFINE A == [in : Pending(k, w), expired : BOOLEAN]
             B == [in : Pending(k, w)', expired : BOOLEAN]
  <2>6. A \subseteq B /\ \A t \in DOMAIN timer[k] : timer[k][t] \in A /\ timer[k][t].in.tid = t
    BY <2>2, <2>4, Zenon
  <2> HIDE DEF A, B
  <2>7. \A t \in DOMAIN timer'[k] : timer'[k][t] \in B /\ timer'[k][t].in.tid = t
    BY <2>5, <2>6, Zenon
  <2> QED
    BY <2>3, <2>7, Zenon DEF B
<1>2. TimersAbout(w)'
  BY <1>1, Zenon DEF TimersAbout
<1>3. \A k \in Node : \A t : Idle(k, t) => Idle(k, t)'
  BY Zenon DEF Idle
<1> QED
  BY <1>2, <1>3, Zenon

LEMMA StillLess ==
    ASSUME NEW w, NEW q \in Request,
           \A k \in Node : Range(lpool'[k]) \subseteq Range(lpool[k]),
           \A k \in Node : Range(due'[k]) \subseteq Range(due[k]),
           \A k \in Node : \A t : Idle(k, t) => Idle(k, t)'
    PROVE  Still(q, w)
<1>1. q.to \in Node /\ home[q.from] \in Node
  BY AskerIs, Zenon
<1> QED
  BY <1>1, Zenon DEF Still

\* What is left to show when no request is sent and no indication arrives.
LEMMA NamedKept ==
    ASSUME NEW w, Named(w), UNCHANGED <<sent, tid, got>>, NEW R, NEW by, Adds(R, by),
           LinksAbout(w)', PeersAbout(w)', AllRelayed', PoolsAbout(w)', TimersAbout(w)',
           TablesAsked', \A q \in sent : Still(q, w) /\ (q \in R => OnceFor(q, w)')
    PROVE  Named(w)'
<1>1. sent' = sent /\ sent \subseteq Request /\ Identified(w)'
  BY NamesKept, Zenon DEF Named, Identified
<1>2. AllWanted'
  BY <1>1, WantedKept, Zenon DEF Named
<1>3. Once(w)'
  <2>1. \A q \in sent : q \in Request /\ OnceFor(q, w)
    BY <1>1, Zenon DEF Named, Once
  <2>2. \A q \in sent : q \notin R => OnceFor(q, w)'
    BY <2>1, OnceKept, Zenon
  <2> QED
    BY <1>1, <2>2, Zenon DEF Once
<1> QED
  BY <1>1, <1>2, <1>3, Zenon DEF Named, Adds

\* When nobody is told anything, much of the invariant stays.
LEMMA QuietParts ==
    ASSUME NEW w, Named(w), UNCHANGED <<sent, tid, answers, subs>>
    PROVE  /\ Identified(w)' /\ Answered' /\ AllFit' /\ TablesAsked'
           /\ got' = got => AllWanted'
           /\ net' \subseteq net => PeersAbout(w)' /\ AllRelayed'
           /\ \A q \in sent : Still(q, w) => OnceFor(q, w)'
<1> DEFINE R == {}
           by == "mihf"
<1>1. \A q \in sent : q \notin R
  BY Zenon
<1> HIDE DEF R, by
<1>2. sent' = sent /\ sent \subseteq Request /\ Identified(w)'
  BY NamesKept, Zenon DEF Named, Identified
<1>3. Adds(R, by)
  BY <1>2, NoAnswer, Zenon DEF Named
<1>4. net' \subseteq net => PeersAbout(w)' /\ AllRelayed'
  BY <1>2, PeersKept, Zenon DEF Named
<1>5. TablesAsked' /\ (got' = got => AllWanted')
  BY <1>2, <1>3, TablesKept, WantedKept, Zenon DEF Named
<1>6. \A q \in sent : Still(q, w) => OnceFor(q, w)'
  <2>1. \A q \in sent : q \in Request /\ OnceFor(q, w)
    BY <1>2, Zenon DEF Named, Once
  <2> QED
    BY <1>1, <1>3, <2>1, OnceKept, Zenon
<1> QED
  BY <1>2, <1>3, <1>4, <1>5, <1>6, Zenon DEF Adds

\* What is left to show then.
LEMMA QuietNamed ==
    ASSUME NEW w, Named(w), UNCHANGED <<sent, tid, got, answers, subs>>, net' \subseteq net,
           LinksAbout(w)', PoolsAbout(w)', TimersAbout(w)', \A q \in sent : Still(q, w)
    PROVE  Named(w)'
<1>1. /\ Identified(w)' /\ Answered' /\ AllFit' /\ TablesAsked' /\ AllWanted'
      /\ PeersAbout(w)' /\ AllRelayed' /\ \A q \in sent : OnceFor(q, w)'
  BY QuietParts, Zenon
<1>2. Once(w)'
  BY <1>1, Zenon DEF Once
<1> QED
  BY <1>1, <1>2, Zenon DEF Named

LEMMA FreshSent ==
    ASSUME Apart, NEW w, Identified(w), NEW r \in sent PROVE Fresh(r, w) /\ r \in Request
BY NotZero, Zenon DEF Identified, Fresh

\* The answer of a peer to r finds the entry of r.
LEMMA PeerFinds ==
    ASSUME Apart, Types, NEW w, Identified(w), PoolsAbout(w), NEW r \in sent, r.to # home[r.from],
           NEW n, n = home[r.from], NEW i, i = Find(lpool[n], r.to, w[r]), i # 0
    PROVE  /\ i \in 1 .. Len(lpool[n]) /\ lpool[n][i] = PeerEntry(r, w[r])
           /\ PeerEntry(r, w[r]) \in UserEntries /\ PeerEntry(r, w[r]) \in Range(lpool[n])
<1> DEFINE e == lpool[n][i]
<1>1. Fresh(r, w) /\ r \in Request /\ n \in Node /\ r.to \in Node /\ w[r] \in Nat /\ lpool[n] \in Seq(Waiting)
  <2>1. Fresh(r, w) /\ r \in Request
    BY FreshSent, Zenon
  <2> QED
    BY <2>1, AskerIs, Zenon DEF Types, Fresh
<1>2. i \in 1 .. Len(lpool[n]) /\ e \in Waiting /\ e.destination = r.to /\ e.rtid = w[r]
  BY <1>1, FindEntry, SMTT(30)
<1>3. e \in Range(lpool[n])
  BY <1>1, <1>2, InRange, Zenon
<1>4. EntryOf(e, n, r, w)
  BY <1>1, <1>2, <1>3, NotWaiting, Zenon
<1>5. e # LinkEntry(r, w[r])
  BY <1>1, <1>2, EntryIs, SMTT(30)
<1>6. e = PeerEntry(r, w[r])
  BY <1>4, <1>5, Zenon DEF EntryOf
<1>7. PeerEntry(r, w[r]).user = r.from /\ r.from \in User
  BY <1>1, EntryIs, AskerIs, Zenon
<1>8. PeerEntry(r, w[r]) \in UserEntries
  BY <1>2, <1>6, <1>7, SMTT(30) DEF UserEntries
<1> QED
  BY <1>2, <1>3, <1>6, <1>8, Zenon

\* A table gains what a user was told it is subscribed to.
LEMMA TableGrows ==
    ASSUME Types, NEW n \in Node, NEW u \in User, NEW l, NEW E, NEW r \in sent', r.kind = "subscribe",
           r.from = u, r.link = l, \A e \in E : Granted(r, e)', subs' = Subscribed(n, u, l, E)
    PROVE  \A k \in Node : \A s \in subs'[k] : s \in subs[k] \/ \E q \in sent' : Asked(k, s, q)'
<1>1. subs \in [Node -> SUBSET [user : User \cup Node, link : Link, event : Event]] /\ User \cap Node = {}
  BY SetsAssumption, Zenon DEF Types
<1>2. \A k \in Node : \A s \in subs'[k] : s \in subs[k] \/ s \in Subscription(u, l, E)
  BY <1>1, Zenon DEF Subscribed
<1>3. ASSUME NEW k, NEW e \in E, NEW s, s = [user |-> u, link |-> l, event |-> e] PROVE Asked(k, s, r)'
  <2>1. s.user = u /\ s.link = l /\ s.event = e
    BY <1>3, Zenon
  <2> QED
    BY <1>1, <2>1, Zenon DEF Asked
<1>4. \A k : \A s \in Subscription(u, l, E) : Asked(k, s, r)'
  BY <1>3, Zenon DEF Subscription
<1> QED
  BY <1>2, <1>4, Zenon

LEMMA TableShrinks ==
    ASSUME Types, NEW n \in Node, NEW u, NEW l, NEW E, subs' = subs \/ subs' = Unsubscribed(n, u, l, E)
    PROVE  \A k \in Node : \A s \in subs'[k] : s \in subs[k]
<1>1. subs \in [Node -> SUBSET [user : User \cup Node, link : Link, event : Event]]
  BY Zenon DEF Types
<1> QED
  BY <1>1, Zenon DEF Unsubscribed

LEMMA PeerResponseNamed ==
    ASSUME Apart, Types, NEW w, Named(w), NEW m \in net, PeerResponse(m)
    PROVE  Named(w)'
<1> DEFINE n == m.dst
           r == m.req
           i == Find(lpool[n], m.src, m.tid)
           e == lpool[n][i]
           told == [kind |-> m.kind, from |-> e.user, tid |-> e.ltid, link |-> m.link, req |-> m.req]
<1>1. /\ m.type = "response" /\ UNCHANGED <<sent, tid, got, timer, due, toLink, fromLink>>
      /\ \/ i = 0 /\ NoReply(net \ {m}) /\ UNCHANGED <<subs, lpool>>
         \/ /\ i # 0 /\ lpool' = [lpool EXCEPT ![n] = Without(@, i)]
            /\ \/ ~m.ok /\ UNCHANGED subs
               \/ m.ok /\ m.kind = "subscribe" /\ subs' = Subscribed(n, e.user, m.link, m.events)
               \/ m.ok /\ m.kind = "unsubscribe" /\ subs' = Unsubscribed(n, e.user, m.link, m.events)
            /\ Reply(n, told, m.ok, m.events, "peer", net \ {m})
  BY Zenon DEF PeerResponse
<1>2. /\ r \in sent /\ m.kind = r.kind /\ m.tid = w[r] /\ m.link = r.link /\ m.events \subseteq r.events
      /\ m.src = r.to /\ m.dst = home[r.from] /\ r.to # home[r.from] /\ m.ok \in BOOLEAN
  BY <1>1, Zenon DEF Named, PeersAbout, About
<1>3. /\ sent \subseteq Request /\ r \in Request /\ n \in Node /\ r.from \in User /\ m.events \in SUBSET Event
      /\ Identified(w) /\ User \cap Node = {}
  <2>1. r \in Request /\ sent \subseteq Request
    BY <1>2, Zenon DEF Named, Identified
  <2> QED
    BY <1>2, <2>1, AskerIs, SetsAssumption, Zenon DEF Named
<1>4. LinksAbout(w)' /\ TimersAbout(w)' /\ sent' = sent /\ \A k \in Node : \A t : Idle(k, t) => Idle(k, t)'
  BY <1>1, LinksKept, TimersSame, Zenon DEF Named, Idle
<1> HIDE DEF n, r, i, e, told
<1>5. CASE i = 0 /\ NoReply(net \ {m}) /\ UNCHANGED <<subs, lpool>>
  <2>1. UNCHANGED <<sent, tid, got, answers, subs>> /\ net' \subseteq net /\ lpool' = lpool
    BY <1>1, <1>5, Zenon DEF NoReply
  <2>2. PoolsAbout(w)'
    BY <1>4, <2>1, PoolSame, Zenon DEF Named
  <2>3. \A q \in sent : Still(q, w)
    BY <1>1, <1>3, <1>4, <2>1, StillLess, Zenon
  <2> QED
    BY <1>4, <2>1, <2>2, <2>3, QuietNamed, Zenon
<1>6. CASE /\ i # 0 /\ lpool' = [lpool EXCEPT ![n] = Without(@, i)]
           /\ \/ ~m.ok /\ UNCHANGED subs
              \/ m.ok /\ m.kind = "subscribe" /\ subs' = Subscribed(n, e.user, m.link, m.events)
              \/ m.ok /\ m.kind = "unsubscribe" /\ subs' = Unsubscribed(n, e.user, m.link, m.events)
           /\ Reply(n, told, m.ok, m.events, "peer", net \ {m})
  <2> DEFINE y == PeerEntry(r, w[r])
  <2>1. /\ i \in 1 .. Len(lpool[n]) /\ e = y /\ y \in UserEntries /\ y \in Range(lpool[n])
    <3>1. /\ i = Find(lpool[n], r.to, w[r]) /\ n = home[r.from] /\ i # 0 /\ PoolsAbout(w) /\ Identified(w)
          /\ r \in sent /\ r.to # home[r.from]
      BY <1>2, <1>6, Zenon DEF i, n, Named
    <3>2. /\ i \in 1 .. Len(lpool[n]) /\ lpool[n][i] = y /\ y \in UserEntries /\ y \in Range(lpool[n])
      BY <3>1, PeerFinds, SMTT(30)
    <3> HIDE DEF y
    <3> QED
      BY <3>2, Zenon DEF e
  <2>2. e.user = r.from /\ e.ltid = r.tid
    BY <1>2, <1>3, <2>1, EntryIs, SMTT(30) DEF Identified
  <2>3. told.from = r.from /\ told.tid = r.tid /\ told.req = r
    BY <2>2, Zenon DEF told, r
  <2>4. ~Told(r, "peer")
    BY <1>2, <2>1, Zenon DEF Named, Once, OnceFor, n
  <2> HIDE DEF y
  <2>5. /\ PoolsAbout(w)' /\ \A k \in Node : Range(lpool'[k]) \subseteq Range(lpool[k])
        /\ y \notin Range(lpool'[n])
    BY <1>3, <1>4, <1>6, <2>1, PoolLess, Zenon DEF Named, e
  <2> DEFINE by == "peer"
  <2>6. by \in By /\ ~Told(r, by) /\ Reply(n, told, m.ok, m.events, by, net \ {m})
    BY <1>6, <2>4, Zenon DEF By
  <2> HIDE DEF by
  <2>7. AnswerTo(told, r, n, m.events, by, w) /\ told.from \in User /\ net \ {m} \subseteq net /\ m.ok \in BOOLEAN
    BY <1>2, <1>3, <2>3, <2>6, Zenon DEF AnswerTo
  <2>8. /\ Adds({r}, by) /\ PeersAbout(w)' /\ AllRelayed'
        /\ m.ok => \A x \in m.events : Granted(r, x)'
    <3> DEFINE ok == m.ok
               rest == net \ {m}
               E == m.events
    <3>1. Replies(told, r, n, E, by, w, ok, rest) /\ sent' = sent
      BY <1>4, <2>6, <2>7, Zenon DEF Replies
    <3>2. told.from \in User
      BY <2>7, Zenon
    <3> HIDE DEF ok, rest, E
    <3>3. Adds({r}, by) /\ PeersAbout(w)' /\ AllRelayed' /\ (ok => \A x \in E : Granted(r, x)')
      BY <3>1, <3>2, Replied, Zenon
    <3> QED
      BY <3>3, Zenon DEF ok, E
  <2>9. TablesAsked'
    <3>1. \A k \in Node : \A s \in subs'[k] : s \in subs[k] \/ \E q \in sent' : Asked(k, s, q)'
      <4>1. CASE m.ok /\ m.kind = "subscribe" /\ subs' = Subscribed(n, e.user, m.link, m.events)
        BY <1>2, <1>3, <1>4, <2>2, <2>8, <4>1, TableGrows, Zenon
      <4>2. CASE subs' = subs \/ subs' = Unsubscribed(n, e.user, m.link, m.events)
        BY <1>3, <4>2, TableShrinks, Zenon
      <4> QED
        BY <1>6, <4>1, <4>2, Zenon
    <3> QED
      BY <1>3, <1>4, <2>8, <3>1, TablesKept, Zenon DEF Named
  <2>10. \A q \in sent : Still(q, w)
    BY <1>1, <1>3, <1>4, <2>5, StillLess, Zenon
  <2>11. OnceFor(r, w)'
    BY <1>2, <2>5, Zenon DEF OnceFor, y, n
  <2> QED
    <3>1. UNCHANGED <<sent, tid, got>> /\ \A q \in sent : Still(q, w) /\ (q \in {r} => OnceFor(q, w)')
      BY <1>1, <2>10, <2>11, Zenon
    <3> QED
      BY <1>4, <2>5, <2>8, <2>9, <3>1, NamedKept, Zenon
<1> QED
  BY <1>1, <1>5, <1>6, Zenon

\* The confirmation of a link for the subscription r finds the entry of r.
LEMMA LinkFinds ==
    ASSUME Apart, Types, NEW w, Identified(w), PoolsAbout(w), NEW r \in sent, r.kind = "subscribe",
           NEW n, n = r.to, NEW i, i = Find(lpool[n], r.link, w[r]), i # 0
    PROVE  /\ i \in 1 .. Len(lpool[n]) /\ lpool[n][i] = LinkEntry(r, w[r])
           /\ Asker(r) \in User => LinkEntry(r, w[r]) \in UserEntries
           /\ LinkEntry(r, w[r]) \in Range(lpool[n])
           /\ LinkEntry(r, w[r]).user = Asker(r) /\ LinkEntry(r, w[r]).ltid = w[r]
<1> DEFINE e == lpool[n][i]
<1>1. Fresh(r, w) /\ r \in Request /\ n \in Node /\ r.link \in Link /\ w[r] \in Nat /\ lpool[n] \in Seq(Waiting)
  <2>1. Fresh(r, w) /\ r \in Request
    BY FreshSent, Zenon
  <2> QED
    BY <2>1, AskerIs, Zenon DEF Types, Fresh
<1>2. i \in 1 .. Len(lpool[n]) /\ e \in Waiting /\ e.destination = r.link /\ e.rtid = w[r]
  BY <1>1, FindEntry, SMTT(30)
<1>3. e \in Range(lpool[n])
  BY <1>1, <1>2, InRange, Zenon
<1>4. EntryOf(e, n, r, w)
  BY <1>1, <1>2, <1>3, NotWaiting, Zenon
<1>5. e # PeerEntry(r, w[r])
  BY <1>1, <1>2, EntryIs, SMTT(30)
<1>6. e = LinkEntry(r, w[r])
  BY <1>4, <1>5, Zenon DEF EntryOf
<1>7. LinkEntry(r, w[r]).user = Asker(r) /\ LinkEntry(r, w[r]).ltid = w[r]
  BY <1>1, EntryIs, Zenon
<1>8. Asker(r) \in User => LinkEntry(r, w[r]) \in UserEntries
  BY <1>2, <1>6, <1>7, SMTT(30) DEF UserEntries
<1> QED
  BY <1>2, <1>3, <1>6, <1>7, <1>8, Zenon

\* The table of the MIHF of the link gains the one who asked.
LEMMA TableGrowsBy ==
    ASSUME Types, NEW n \in Node, NEW r \in Request, r \in sent', r.kind = "subscribe", r.to = n, home[r.link] = n,
           NEW E, E \subseteq r.events, Asker(r) \in User => \A e \in E : Granted(r, e)',
           subs' = Subscribed(n, Asker(r), r.link, E)
    PROVE  \A k \in Node : \A s \in subs'[k] : s \in subs[k] \/ \E q \in sent' : Asked(k, s, q)'
<1> DEFINE u == Asker(r)
<1>1. subs \in [Node -> SUBSET [user : User \cup Node, link : Link, event : Event]]
  BY Zenon DEF Types
<1>2. (u \in User => u = r.from) /\ (u \in Node => u = home[r.from])
  BY AskerIs, Zenon
<1> HIDE DEF u
<1>3. \A k \in Node : \A s \in subs'[k] : s \in subs[k] \/ (k = n /\ s \in Subscription(u, r.link, E))
  BY <1>1, Zenon DEF Subscribed, u
<1>4. ASSUME NEW e \in E, NEW s, s = [user |-> u, link |-> r.link, event |-> e] PROVE Asked(n, s, r)'
  <2>1. s.user = u /\ s.link = r.link /\ s.event = e
    BY <1>4, Zenon
  <2>2. (u \in User => Granted(r, e)') /\ e \in r.events
    BY Zenon DEF u
  <2> QED
    BY <1>2, <2>1, <2>2, Zenon DEF Asked
<1>5. \A s \in Subscription(u, r.link, E) : Asked(n, s, r)'
  BY <1>4, Zenon DEF Subscription
<1> QED
  BY <1>3, <1>5, Zenon

LEMMA SubscribeConfirmNamed ==
    ASSUME Apart, Types, NEW w, Named(w), NEW m \in fromLink, m.kind = "subscribe", NEW n, n = home[m.link],
           fromLink' = fromLink \ {m}, UNCHANGED <<due, tid, toLink, sent, got>>, SubscribeConfirm(n, m)
    PROVE  Named(w)'
<1> DEFINE r == m.req
           i == Find(lpool[n], m.link, m.tid)
           e == lpool[n][i]
           told == [kind |-> "subscribe", from |-> e.user, tid |-> e.ltid, link |-> m.link, req |-> m.req]
<1>1. \/ i = 0 /\ NoReply(net) /\ UNCHANGED <<subs, lpool, timer>>
      \/ /\ i # 0 /\ lpool' = [lpool EXCEPT ![n] = Without(@, i)] /\ timer' = Disarmed(n, m.tid)
         /\ subs' = Subscribed(n, e.user, m.link, m.events) /\ Reply(n, told, TRUE, m.events, "link", net)
  BY Zenon DEF SubscribeConfirm
<1>2. /\ r \in sent /\ r.kind = "subscribe" /\ m.tid = w[r] /\ m.link = r.link /\ m.events \subseteq r.events /\ n = r.to
  <2>1. m \in toLink \cup fromLink /\ m.kind # "capability"
    BY SMT
  <2> QED
    BY <2>1, Zenon DEF Named, LinksAbout, About
<1>3. /\ sent \subseteq Request /\ r \in Request /\ n \in Node /\ m.events \in SUBSET Event
      /\ Identified(w) /\ User \cap Node = {}
  <2>1. r \in Request /\ sent \subseteq Request
    BY <1>2, Zenon DEF Named, Identified
  <2> QED
    BY <1>2, <2>1, AskerIs, SetsAssumption, Zenon DEF Named
<1>4. LinksAbout(w)' /\ sent' = sent
  BY LinksKept, Zenon DEF Named
<1> HIDE DEF r, i, e, told
<1>5. CASE i = 0 /\ NoReply(net) /\ UNCHANGED <<subs, lpool, timer>>
  <2>1. UNCHANGED <<sent, tid, got, answers, subs>> /\ net' \subseteq net /\ lpool' = lpool /\ timer' = timer
    BY <1>5, Zenon DEF NoReply
  <2>2. PoolsAbout(w)' /\ TimersAbout(w)'
    BY <1>4, <2>1, PoolSame, TimersSame, Zenon DEF Named
  <2>3. \A q \in sent : Still(q, w)
    BY <1>3, <2>1, StillLess, Zenon DEF Idle
  <2> QED
    BY <1>4, <2>1, <2>2, <2>3, QuietNamed, Zenon
<1>6. CASE /\ i # 0 /\ lpool' = [lpool EXCEPT ![n] = Without(@, i)] /\ timer' = Disarmed(n, m.tid)
           /\ subs' = Subscribed(n, e.user, m.link, m.events) /\ Reply(n, told, TRUE, m.events, "link", net)
  <2> DEFINE y == LinkEntry(r, w[r])
  <2>1. /\ i \in 1 .. Len(lpool[n]) /\ e = y /\ (Asker(r) \in User => y \in UserEntries) /\ y \in Range(lpool[n])
        /\ e.user = Asker(r) /\ e.ltid = w[r]
    <3>1. /\ i = Find(lpool[n], r.link, w[r]) /\ i # 0 /\ PoolsAbout(w) /\ Identified(w)
          /\ r \in sent /\ r.kind = "subscribe" /\ n = r.to
      BY <1>2, <1>6, Zenon DEF i, Named
    <3>2. /\ i \in 1 .. Len(lpool[n]) /\ lpool[n][i] = y /\ (Asker(r) \in User => y \in UserEntries)
          /\ y \in Range(lpool[n]) /\ y.user = Asker(r) /\ y.ltid = w[r]
      BY <3>1, LinkFinds, SMTT(30)
    <3> HIDE DEF y
    <3> QED
      BY <3>2, Zenon DEF e
  <2>2. /\ told.kind = r.kind /\ told.from = Asker(r) /\ told.tid = w[r] /\ told.link = r.link /\ told.req = r
    BY <1>2, <2>1, Zenon DEF told, r
  <2> HIDE DEF y
  <2>3. /\ Asker(r) \in User => Asker(r) = r.from /\ r.to = home[r.from] /\ w[r] = r.tid /\ ~Told(r, "link")
        /\ Asker(r) \in Node => Asker(r) = home[r.from]
    <3>1. /\ Asker(r) \in User => Asker(r) = r.from /\ r.to = home[r.from]
          /\ Asker(r) \in Node => Asker(r) = home[r.from]
      BY <1>3, AskerIs, Zenon
    <3>2. r.to = home[r.from] => w[r] = r.tid
      BY <1>2, <1>3, Zenon DEF Identified
    <3>3. r.to = home[r.from] => ~Told(r, "link")
      BY <1>2, <2>1, Zenon DEF Named, Once, OnceFor, y
    <3> QED
      BY <3>1, <3>2, <3>3, Zenon
  <2>4. /\ PoolsAbout(w)' /\ \A k \in Node : Range(lpool'[k]) \subseteq Range(lpool[k])
        /\ y \in UserEntries => y \notin Range(lpool'[n])
    BY <1>3, <1>4, <1>6, <2>1, PoolLess, Zenon DEF Named, e
  <2>5. TimersAbout(w)' /\ \A k \in Node : \A t : Idle(k, t) => Idle(k, t)'
    <3>1. TimersAbout(w) /\ DOMAIN due' = Node
          /\ \A k \in Node : due'[k] \in Seq(Pending(k, w)) /\ Unrepeated(due'[k], UserSeen(w))
      BY Zenon DEF Named, TimersAbout
    <3>2. /\ DOMAIN timer' = Node
          /\ \A k \in Node : \A u \in DOMAIN timer'[k] : u \in DOMAIN timer[k] /\ timer'[k][u] = timer[k][u]
      <4>1. TimersAbout(w) /\ n \in Node /\ timer' = Disarmed(n, m.tid)
        BY <1>3, <1>6, <3>1, Zenon
      <4>2. /\ DOMAIN timer' = Node
            /\ \A k \in Node : \A u \in DOMAIN timer'[k] :
                   u \in DOMAIN timer[k] /\ timer'[k][u] = timer[k][u] /\ ~(k = n /\ u = m.tid)
        BY <4>1, TimerLess, SMTT(30)
      <4> QED
        BY <4>2, Zenon
    <3> QED
      BY <1>4, <3>1, <3>2, TimersKept, Zenon
  <2> DEFINE by == "link"
             ok == TRUE
  <2>6. by \in By /\ ok \in BOOLEAN /\ (Asker(r) \in User => ~Told(r, by)) /\ Reply(n, told, ok, m.events, by, net)
    BY <1>6, <2>3, Zenon DEF By
  <2>7. ok
    OBVIOUS
  <2> HIDE DEF by, ok
  <2>8. AnswerTo(told, r, n, m.events, by, w) /\ told.from = Asker(r) /\ net \subseteq net
    BY <1>2, <1>3, <2>2, <2>3, <2>6, Zenon DEF AnswerTo
  <2>9. /\ Adds({r}, by) /\ PeersAbout(w)' /\ AllRelayed'
        /\ Asker(r) \in User => \A x \in m.events : Granted(r, x)'
    <3>1. sent' = sent /\ ok \in BOOLEAN /\ Reply(n, told, ok, m.events, by, net)
      BY <1>4, <2>6, Zenon
    <3>2. Replies(told, r, n, m.events, by, w, ok, net)
      BY <2>8, <3>1, Zenon DEF Replies
    <3> QED
      BY <2>7, <2>8, <3>1, <3>2, Replied, Zenon
  <2>10. TablesAsked'
    <3>1. home[r.link] = n /\ subs' = Subscribed(n, Asker(r), r.link, m.events)
      BY <1>2, <1>6, <2>1, Zenon
    <3>2. \A k \in Node : \A s \in subs'[k] : s \in subs[k] \/ \E q \in sent' : Asked(k, s, q)'
      BY <1>2, <1>3, <1>4, <2>9, <3>1, TableGrowsBy, Zenon
    <3> QED
      BY <1>3, <1>4, <2>9, <3>2, TablesKept, Zenon DEF Named
  <2>11. \A q \in sent : Still(q, w)
    BY <1>3, <2>4, <2>5, StillLess, Zenon
  <2>12. OnceFor(r, w)'
    <3>1. r.to \in Node /\ home[r.from] \in Node /\ OnceFor(r, w) /\ (r.to = home[r.from] => Asker(r) \in User)
      BY <1>2, <1>3, AskerIs, Zenon DEF Named, Once, Asker
    <3>2. (Told(r, "timer")' => Told(r, "timer")) /\ (Told(r, "peer")' => Told(r, "peer"))
      <4>1. "timer" # by /\ "peer" # by
        BY SMTT(30) DEF by
      <4> QED
        BY <1>3, <2>9, <4>1, Zenon DEF Adds
    <3>3. r.to = home[r.from] => y \notin Range(lpool'[r.to])
      BY <1>2, <2>1, <2>4, <3>1, Zenon
    <3>4. due' = due
      BY Zenon
    <3> QED
      BY <2>4, <2>5, <3>1, <3>2, <3>3, <3>4, Zenon DEF OnceFor, y
  <2> QED
    <3>1. UNCHANGED <<sent, tid, got>> /\ \A q \in sent : Still(q, w) /\ (q \in {r} => OnceFor(q, w)')
      BY <2>11, <2>12, Zenon
    <3> QED
      BY <1>4, <2>4, <2>5, <2>9, <2>10, <3>1, NamedKept, Zenon
<1> QED
  BY <1>1, <1>5, <1>6, Zenon

LEMMA ConfirmNamed ==
    ASSUME Apart, Types, NEW w, Named(w), NEW m \in fromLink, Confirm(m)
    PROVE  Named(w)'
<1> DEFINE n == home[m.link]
           i == Find(lpool[n], m.link, m.tid)
<1>1. /\ fromLink' = fromLink \ {m} /\ UNCHANGED <<due, tid, toLink, sent, got>>
      /\ \/ m.kind = "subscribe" /\ SubscribeConfirm(n, m)
         \/ m.kind # "subscribe" /\ OtherConfirm(n, m)
  BY Zenon DEF Confirm
<1>2. CASE m.kind = "subscribe" /\ SubscribeConfirm(n, m)
  BY <1>1, <1>2, SubscribeConfirmNamed, Zenon
<1>3. CASE OtherConfirm(n, m)
  <2>1. /\ UNCHANGED <<sent, tid, got, answers, subs>> /\ net' \subseteq net /\ timer' = timer /\ due' = due
        /\ i = 0 => lpool' = lpool
        /\ i # 0 => lpool' = [lpool EXCEPT ![n] = Without(@, i)]
    BY <1>1, <1>3, Zenon DEF OtherConfirm, NoReply
  <2>2. LinksAbout(w)' /\ TimersAbout(w)' /\ sent \subseteq Request /\ sent' = sent
    <3>1. sent \subseteq Request
      BY Zenon DEF Named, Identified
    <3> QED
      BY <1>1, <2>1, <3>1, LinksKept, TimersSame, Zenon DEF Named
  <2>3. n \in Node /\ lpool[n] \in Seq(Waiting)
    <3>1. m.link \in Link
      BY Zenon DEF Types
    <3> QED
      BY <3>1, SetsAssumption, Zenon DEF Types
  <2>4. PoolsAbout(w)' /\ \A k \in Node : Range(lpool'[k]) \subseteq Range(lpool[k])
    <3>1. CASE i = 0
      BY <2>1, <2>2, <3>1, PoolSame, Zenon DEF Named
    <3>2. CASE i # 0
      <4>1. i \in 1 .. Len(lpool[n])
        BY <2>3, <3>2, FindEntry, SMTT(30)
      <4> HIDE DEF i
      <4> QED
        BY <2>1, <2>2, <2>3, <3>2, <4>1, PoolLess, Zenon DEF Named
    <3> QED
      BY <3>1, <3>2, Zenon
  <2>5. \A q \in sent : Still(q, w)
    BY <2>1, <2>2, <2>4, StillLess, Zenon DEF Idle
  <2> QED
    BY <2>1, <2>2, <2>4, <2>5, QuietNamed, Zenon
<1> QED
  BY <1>1, <1>2, <1>3, Zenon

LEMMA LinkHandleNamed ==
    ASSUME NEW w, Named(w), NEW m \in toLink, LinkHandle(m)
    PROVE  Named(w)'
<1> DEFINE E == m.events \cap Supported[m.link]
           c == LinkMsg(m.kind, m.link, m.tid, E, m.req)
<1>1. /\ toLink' = toLink \ {m} /\ fromLink' = fromLink \cup {c}
      /\ UNCHANGED <<subs, lpool, timer, due, tid, net, sent, answers, got>>
  BY SMTT(30) DEF LinkHandle, mihf, hist
<1>2. c.kind = m.kind /\ c.link = m.link /\ c.tid = m.tid /\ c.events = E /\ c.req = m.req /\ E \subseteq m.events
  BY Zenon DEF LinkMsg
<1> HIDE DEF c, E
<1>3. sent \subseteq Request /\ LinksAbout(w)
  BY Zenon DEF Named, Identified
<1>4. c.kind = "capability" \/ (About(c, w)' /\ c.events \subseteq c.req.events /\ home[c.link] = c.req.to)
  <2>1. m.kind = "capability" \/ (About(m, w) /\ m.events \subseteq m.req.events /\ home[m.link] = m.req.to)
    BY <1>3, Zenon DEF LinksAbout
  <2> QED
    BY <1>1, <1>2, <2>1, Zenon DEF About
<1>5. LinksAbout(w)'
  <2>1. \A k \in toLink' \cup fromLink' : k \in toLink \cup fromLink \/ k = c
    BY <1>1, Zenon
  <2> QED
    BY <1>1, <1>3, <1>4, <2>1, LinksKept, Zenon
<1>6. PoolsAbout(w)' /\ TimersAbout(w)'
  BY <1>1, PoolSame, TimersSame, Zenon DEF Named
<1>7. \A q \in sent : Still(q, w)
  BY <1>1, <1>3, StillLess, Zenon DEF Idle
<1> QED
  BY <1>1, <1>5, <1>6, <1>7, QuietNamed, Zenon

LEMMA RestartNamed ==
    ASSUME Apart, Types, NEW w, Named(w), NEW l \in Link, Restart(l)
    PROVE  Named(w)'
<1> DEFINE n == home[l]
           c == LinkMsg("capability", l, 0, {}, NoReq)
           y == Entry(n, l, 0)
<1>1. /\ \/ lpool' = [lpool EXCEPT ![n] = Append(lpool[n], y)] /\ toLink' = toLink \cup {c}
         \/ UNCHANGED <<lpool, toLink>>
      /\ UNCHANGED <<subs, timer, due, tid, fromLink, net, sent, answers, got>>
  BY Zenon DEF Restart
<1>2. c.kind = "capability"
  BY Zenon DEF LinkMsg
<1>3. n \in Node /\ sent \subseteq Request /\ w \in [Request -> Nat] /\ lpool[n] \in Seq(Waiting) /\ n \notin User
  BY SetsAssumption, Zenon DEF Named, Identified, Types
<1>4. y \in Waiting /\ y.rtid = 0 /\ y.user = n /\ y \notin UserEntries
  <2>1. l \notin Node
    BY SetsAssumption, Zenon
  <2> QED
    BY <1>3, <2>1, SMTT(30) DEF Entry, Waiting, UserEntries
<1> HIDE DEF c, y, n
<1>5. LinksAbout(w)'
  BY <1>1, <1>2, LinksKept, Zenon DEF Named
<1>6. TimersAbout(w)'
  BY <1>1, TimersSame, Zenon DEF Named
<1>7. CASE UNCHANGED <<lpool, toLink>>
  <2>1. PoolsAbout(w)'
    BY <1>1, <1>7, PoolSame, Zenon DEF Named
  <2>2. \A q \in sent : Still(q, w)
    <3>1. lpool' = lpool /\ due' = due /\ timer' = timer
      BY <1>1, <1>7, Zenon
    <3> QED
      BY <1>3, <3>1, StillLess, Zenon DEF Idle
  <2> QED
    BY <1>1, <1>5, <1>6, <2>1, <2>2, QuietNamed, Zenon
<1>8. CASE lpool' = [lpool EXCEPT ![n] = Append(lpool[n], y)]
  <2>1. Range(Append(lpool[n], y)) = Range(lpool[n]) \cup {y} /\ Unrepeated(Append(lpool[n], y), UserEntries)
    <3>1. Unrepeated(lpool[n], UserEntries) /\ (y \in UserEntries => y \notin Range(lpool[n]))
      BY <1>3, <1>4, Zenon DEF Named, PoolsAbout
    <3> QED
      BY <1>3, <1>4, <3>1, PoolGrows, Zenon
  <2>2. PoolsAbout(w)'
    <3>1. \A e \in Range(Append(lpool[n], y)) :
              e \in Range(lpool[n]) \/ (e.rtid = 0 /\ e.user = n) \/ \E q \in sent' : EntryOf(e, n, q, w)
      BY <1>4, <2>1, Zenon
    <3> QED
      BY <1>1, <1>3, <1>8, <2>1, <3>1, PoolKept, Zenon DEF Named
  <2>3. \A q \in sent : Still(q, w)
    <3> TAKE q \in sent
    <3>1. q \in Request /\ w[q] \in Nat /\ w[q] # 0
      BY <1>3, NotZero, Zenon DEF Named
    <3>2. y # LinkEntry(q, w[q]) /\ y # PeerEntry(q, w[q])
      BY <1>4, <3>1, EntryIs, SMTT(30)
    <3>3. \A k \in Node : \A e \in Range(lpool'[k]) : e \in Range(lpool[k]) \/ e = y
      BY <1>3, <1>8, <2>1, Zenon DEF Types
    <3>4. q.to \in Node /\ home[q.from] \in Node
      BY <3>1, AskerIs, Zenon
    <3>5. Idle(q.to, w[q]) => Idle(q.to, w[q])'
      BY <1>1, Zenon DEF Idle
    <3> QED
      BY <1>1, <3>2, <3>3, <3>4, <3>5, Zenon DEF Still
  <2> QED
    BY <1>1, <1>5, <1>6, <2>2, <2>3, QuietNamed, Zenon
<1> QED
  BY <1>1, <1>7, <1>8, Zenon

LEMMA SeenUser ==
    ASSUME NEW w, NEW r \in Request, Seen(r, w[r]) \in UserSeen(w) PROVE r.to = home[r.from]
<1>1. PICK q \in Request : q.to = home[q.from] /\ Seen(r, w[r]) = Seen(q, w[q])
  BY Zenon DEF UserSeen
<1>2. r = q
  BY <1>1, SeenIs, SMTT(30)
<1> QED
  BY <1>1, <1>2, Zenon

LEMMA ExpireNamed ==
    ASSUME NEW w, Named(w), NEW n \in Node, Expire(n)
    PROVE  Named(w)'
<1>1. PICK t \in DOMAIN timer[n] :
          /\ ~timer[n][t].expired /\ timer' = [timer EXCEPT ![n][t].expired = TRUE]
          /\ due' = [due EXCEPT ![n] = Append(@, timer[n][t].in)]
          /\ UNCHANGED <<subs, lpool, tid, toLink, fromLink, net, sent, answers, got>>
  BY Zenon DEF Expire, wires, hist
<1> DEFINE in == timer[n][t].in
           d == Append(due[n], in)
<1>2. /\ DOMAIN timer = Node /\ DOMAIN due = Node
      /\ \A k \in Node : due[k] \in Seq(Pending(k, w)) /\ Unrepeated(due[k], UserSeen(w))
      /\ \A k \in Node : \A u \in DOMAIN timer[k] :
             timer[k][u] \in [in : Pending(k, w), expired : BOOLEAN] /\ timer[k][u].in.tid = u
  BY Zenon DEF Named, TimersAbout
<1>3. in \in Pending(n, w) /\ in.tid = t
  BY <1>2, Zenon
<1>4. PICK r \in sent : r.to = n /\ in = Seen(r, w[r])
  BY <1>3, Zenon DEF Pending
<1>5. r \in Request /\ sent \subseteq Request /\ t = w[r]
  <2>1. in.tid = w[r]
    BY <1>4, SeenIs, SMTT(30)
  <2> QED
    BY <1>3, <2>1, Zenon DEF Named, Identified
<1>6. ~Idle(n, w[r])
  BY <1>1, <1>5, Zenon DEF Idle
<1>7. OnceFor(r, w) /\ (r.to = home[r.from] => in \notin Range(due[n]) /\ ~Told(r, "timer"))
  BY <1>4, <1>6, Zenon DEF Named, Once, OnceFor
<1>8. /\ DOMAIN timer' = Node /\ \A k \in Node : DOMAIN timer'[k] = DOMAIN timer[k]
      /\ \A k \in Node : \A u \in DOMAIN timer[k] :
             /\ timer'[k][u] \in [in : Pending(k, w), expired : BOOLEAN] /\ timer'[k][u].in = timer[k][u].in
             /\ timer[k][u].expired => timer'[k][u].expired
      /\ timer'[n][t].expired
  <2>1. /\ DOMAIN timer' = Node /\ \A k \in Node \ {n} : timer'[k] = timer[k]
        /\ timer'[n] = [timer[n] EXCEPT ![t] = [timer[n][t] EXCEPT !.expired = TRUE]]
    BY <1>1, <1>2, Zenon
  <2> DEFINE x == [timer[n][t] EXCEPT !.expired = TRUE]
  <2>2. x \in [in : Pending(n, w), expired : BOOLEAN] /\ x.in = timer[n][t].in /\ x.expired
    <3> DEFINE z == timer[n][t]
    <3>1. z \in [in : Pending(n, w), expired : BOOLEAN]
      BY <1>2, Zenon
    <3> HIDE DEF z
    <3>2. x = [z EXCEPT !.expired = TRUE]
      BY Zenon DEF z
    <3>3. [z EXCEPT !.expired = TRUE] \in [in : Pending(n, w), expired : BOOLEAN] /\ [z EXCEPT !.expired = TRUE].in = z.in
          /\ [z EXCEPT !.expired = TRUE].expired
      BY <3>1, Zenon
    <3> HIDE DEF x
    <3> QED
      BY <3>2, <3>3, Zenon DEF z
  <2> HIDE DEF x
  <2>3. DOMAIN timer'[n] = DOMAIN timer[n] /\ timer'[n][t] = x /\ \A u \in DOMAIN timer[n] \ {t} : timer'[n][u] = timer[n][u]
    BY <1>1, <2>1, Zenon DEF x
  <2>4. \A u \in DOMAIN timer[n] :
             /\ timer'[n][u] \in [in : Pending(n, w), expired : BOOLEAN] /\ timer'[n][u].in = timer[n][u].in
             /\ timer[n][u].expired => timer'[n][u].expired
    <3> TAKE u \in DOMAIN timer[n]
    <3>1. CASE u = t
      BY <2>2, <2>3, <3>1, Zenon
    <3>2. CASE u # t
      BY <1>2, <2>3, <3>2, Zenon
    <3> QED
      BY <3>1, <3>2, Zenon
  <2>5. timer'[n][t].expired
    BY <2>2, <2>3, Zenon
  <2> QED
    BY <1>2, <2>1, <2>3, <2>4, <2>5, Zenon
<1> HIDE DEF in
<1>9. Range(d) = Range(due[n]) \cup {in} /\ Unrepeated(d, UserSeen(w)) /\ d \in Seq(Pending(n, w))
  <2>1. in \in UserSeen(w) => in \notin Range(due[n])
    BY <1>4, <1>5, <1>7, SeenUser, Zenon
  <2> QED
    BY <1>2, <1>3, <2>1, PoolGrows, SMTT(30)
<1>10. DOMAIN due' = Node /\ due'[n] = d /\ \A k \in Node \ {n} : due'[k] = due[k]
  BY <1>1, <1>2, Zenon DEF in
<1> HIDE DEF d
<1>11. TimersAbout(w)'
  <2>1. ASSUME NEW k \in Node
        PROVE  /\ \A u \in DOMAIN timer'[k] : /\ timer'[k][u] \in [in : Pending(k, w)', expired : BOOLEAN]
                                               /\ timer'[k][u].in.tid = u
               /\ due'[k] \in Seq(Pending(k, w)') /\ Unrepeated(due'[k], UserSeen(w))
    <3>1. Pending(k, w)' = Pending(k, w)
      BY <1>1, Zenon DEF Pending
    <3>2. due'[k] \in Seq(Pending(k, w)) /\ Unrepeated(due'[k], UserSeen(w))
      <4>1. CASE k = n
        BY <1>9, <1>10, <4>1, Zenon
      <4>2. CASE k # n
        BY <1>2, <1>10, <4>2, Zenon
      <4> QED
        BY <4>1, <4>2, Zenon
    <3>3. ASSUME NEW u \in DOMAIN timer'[k]
          PROVE  timer'[k][u] \in [in : Pending(k, w), expired : BOOLEAN] /\ timer'[k][u].in.tid = u
      <4>1. /\ timer'[k][u] \in [in : Pending(k, w), expired : BOOLEAN]
            /\ timer'[k][u].in = timer[k][u].in /\ timer[k][u].in.tid = u
        BY <1>2, <1>8, SMTT(30)
      <4> QED
        BY <4>1, Zenon
    <3> QED
      BY <3>1, <3>2, <3>3, Zenon
  <2> QED
    BY <1>8, <1>10, <2>1, Zenon DEF TimersAbout
<1>12. \A k \in Node : \A u : Idle(k, u) => Idle(k, u)'
  BY <1>8, Zenon DEF Idle
<1>13. PoolsAbout(w)' /\ LinksAbout(w)'
  BY <1>1, PoolSame, LinksKept, Zenon DEF Named
<1>14. ASSUME NEW q \in sent, q # r PROVE Still(q, w)
  <2>1. q.to \in Node /\ Seen(q, w[q]) # in
    <3>1. Seen(q, w[q]).req = q /\ in.req = r
      BY <1>4, SeenIs, Zenon
    <3>2. Seen(q, w[q]) # in
      BY <1>14, <3>1, SMTT(30)
    <3> QED
      BY <1>5, <3>2, AskerIs, Zenon
  <2>2. Seen(q, w[q]) \in Range(due'[q.to]) => Seen(q, w[q]) \in Range(due[q.to])
    BY <1>9, <1>10, <2>1, Zenon
  <2> QED
    BY <1>1, <1>12, <2>1, <2>2, Zenon DEF Still
<1>15. OnceFor(r, w)'
  <2>1. Idle(n, w[r])'
    BY <1>5, <1>8, Zenon DEF Idle
  <2>2. \A b : Told(r, b)' <=> Told(r, b)
    BY <1>1, Zenon DEF Told
  <2> QED
    BY <1>1, <1>4, <1>7, <2>1, <2>2, Zenon DEF OnceFor
<1>16. /\ Identified(w)' /\ Answered' /\ AllFit' /\ TablesAsked' /\ AllWanted'
       /\ PeersAbout(w)' /\ AllRelayed' /\ \A q \in sent : Still(q, w) => OnceFor(q, w)'
  BY <1>1, QuietParts, Zenon
<1>17. Once(w)'
  BY <1>1, <1>14, <1>15, <1>16, Zenon DEF Once
<1> QED
  BY <1>11, <1>13, <1>16, <1>17, Zenon DEF Named

LEMMA FireNamed ==
    ASSUME NEW w, Named(w), NEW n \in Node, Fire(n)
    PROVE  Named(w)'
<1> DEFINE in == Head(due[n])
           d == Tail(due[n])
<1>1. /\ due[n] # <<>> /\ due' = [due EXCEPT ![n] = d] /\ timer' = Disarmed(n, in.tid)
      /\ Reply(n, in, FALSE, {}, "timer", net)
      /\ UNCHANGED <<subs, lpool, tid, toLink, fromLink, sent, got>>
  BY Zenon DEF Fire
<1>2. /\ DOMAIN timer = Node /\ DOMAIN due = Node /\ TimersAbout(w)
      /\ \A k \in Node : due[k] \in Seq(Pending(k, w)) /\ Unrepeated(due[k], UserSeen(w))
  BY Zenon DEF Named, TimersAbout
<1>3. /\ in \in Pending(n, w) /\ in \in Range(due[n])
      /\ d \in Seq(Pending(n, w)) /\ Range(d) \subseteq Range(due[n]) /\ Unrepeated(d, UserSeen(w))
      /\ in \in UserSeen(w) => in \notin Range(d)
  BY <1>1, <1>2, QueueShrinks, Zenon
<1> HIDE DEF in, d
<1>4. PICK r \in sent : r.to = n /\ in = Seen(r, w[r])
  BY <1>3, Zenon DEF Pending
<1>5. /\ in.kind = r.kind /\ in.from = Asker(r) /\ in.tid = w[r] /\ in.link = r.link /\ in.req = r
      /\ r \in Request /\ sent \subseteq Request /\ sent' = sent
  <2>1. /\ in.kind = r.kind /\ in.from = Asker(r) /\ in.tid = w[r] /\ in.link = r.link /\ in.req = r
    BY <1>4, SeenIs, SMTT(30)
  <2> QED
    BY <1>1, <2>1, Zenon DEF Named, Identified
<1>6. DOMAIN due' = Node /\ due'[n] = d /\ \A k \in Node \ {n} : due'[k] = due[k]
  BY <1>1, <1>2, Zenon
<1>7. /\ DOMAIN timer' = Node
      /\ \A k \in Node : \A u \in DOMAIN timer'[k] :
             u \in DOMAIN timer[k] /\ timer'[k][u] = timer[k][u] /\ ~(k = n /\ u = in.tid)
  BY <1>1, <1>2, TimerLess, Zenon
<1>8. TimersAbout(w)' /\ \A k \in Node : \A t : Idle(k, t) => Idle(k, t)'
  <2>1. \A k \in Node : due'[k] \in Seq(Pending(k, w)) /\ Unrepeated(due'[k], UserSeen(w))
    BY <1>2, <1>3, <1>6, Zenon
  <2>2. \A k \in Node : \A u \in DOMAIN timer'[k] : u \in DOMAIN timer[k] /\ timer'[k][u] = timer[k][u]
    BY <1>7, Zenon
  <2> QED
    BY <1>2, <1>5, <1>6, <1>7, <2>1, <2>2, TimersKept, Zenon
<1>9. Idle(n, w[r])'
  BY <1>5, <1>7, Zenon DEF Idle
<1>10. /\ Asker(r) \in User => Asker(r) = r.from /\ r.to = home[r.from] /\ w[r] = r.tid /\ ~Told(r, "timer")
       /\ Asker(r) \in Node => Asker(r) = home[r.from]
  <2>1. /\ Asker(r) \in User => Asker(r) = r.from /\ r.to = home[r.from]
        /\ Asker(r) \in Node => Asker(r) = home[r.from]
    BY <1>5, AskerIs, Zenon
  <2>2. r.to = home[r.from] => w[r] = r.tid
    BY Zenon DEF Named, Identified
  <2>3. r.to = home[r.from] => ~Told(r, "timer")
    BY <1>3, <1>4, Zenon DEF Named, Once, OnceFor
  <2> QED
    BY <2>1, <2>2, <2>3, Zenon
<1> DEFINE by == "timer"
           ok == FALSE
           E == {}
<1>11. /\ by \in By /\ ok \in BOOLEAN /\ E \in SUBSET Event /\ E \subseteq r.events
       /\ Asker(r) \in User => ~Told(r, by)
       /\ Reply(n, in, ok, E, by, net)
  BY <1>1, <1>10, Zenon DEF By
<1> HIDE DEF by, ok, E
<1>12. AnswerTo(in, r, n, E, by, w) /\ net \subseteq net
  BY <1>4, <1>5, <1>10, <1>11, Zenon DEF AnswerTo
<1>13. Adds({r}, by) /\ PeersAbout(w)' /\ AllRelayed'
  <2>1. sent' = sent /\ ok \in BOOLEAN /\ Reply(n, in, ok, E, by, net)
    BY <1>5, <1>11, Zenon
  <2>2. Replies(in, r, n, E, by, w, ok, net)
    BY <1>12, <2>1, Zenon DEF Replies
  <2> QED
    BY <2>1, <2>2, Replied, Zenon
<1>14. LinksAbout(w)' /\ PoolsAbout(w)' /\ TablesAsked'
  BY <1>1, <1>5, <1>13, LinksKept, PoolSame, TablesKept, Zenon DEF Named
<1>15. \A q \in sent : Still(q, w)
  <2>1. \A k \in Node : Range(due'[k]) \subseteq Range(due[k]) /\ Range(lpool'[k]) \subseteq Range(lpool[k])
    BY <1>1, <1>3, <1>6, Zenon
  <2> QED
    BY <1>5, <1>8, <2>1, StillLess, Zenon
<1>16. OnceFor(r, w)'
  <2>1. OnceFor(r, w)
    BY Zenon DEF Named, Once
  <2>2. (Told(r, "link")' => Told(r, "link")) /\ (Told(r, "peer")' => Told(r, "peer"))
    <3>1. "link" # by /\ "peer" # by
      BY SMTT(30) DEF by
    <3> QED
      BY <1>5, <1>13, <3>1, Zenon DEF Adds
  <2>3. r.to = home[r.from] => in \in UserSeen(w)
    BY <1>4, <1>5, Zenon DEF UserSeen
  <2>4. r.to = home[r.from] => Seen(r, w[r]) \notin Range(due'[r.to])
    BY <1>3, <1>4, <1>6, <2>3, Zenon
  <2>5. lpool' = lpool
    BY <1>1, Zenon
  <2> QED
    BY <1>4, <1>9, <2>1, <2>2, <2>4, <2>5, Zenon DEF OnceFor
<1>17. UNCHANGED <<sent, tid, got>> /\ \A q \in sent : Still(q, w) /\ (q \in {r} => OnceFor(q, w)')
  BY <1>1, <1>15, <1>16, Zenon
<1> QED
  BY <1>8, <1>13, <1>14, <1>17, NamedKept, Zenon

\* Who gets an indication has asked for it.
LEMMA ReceiverAsked ==
    ASSUME TablesAsked, NEW n \in Node, NEW l, NEW e, NEW u \in Receivers(n, l, e)
    PROVE  \E r \in sent : /\ r.kind = "subscribe" /\ (r.link = l \/ e \in Broad)
                           /\ u \in User => r.from = u /\ Granted(r, e)
                           /\ u \in Node => /\ home[r.from] = u /\ r.to = n /\ home[r.link] = n
                                            /\ e \in r.events
<1>1. PICK s \in subs[n] : s.event = e /\ (s.link = l \/ e \in Broad) /\ u = s.user
  BY Zenon DEF Receivers
<1>2. PICK r \in sent : Asked(n, s, r)
  BY Zenon DEF TablesAsked
<1> QED
  BY <1>1, <1>2, SMTT(30) DEF Asked

LEMMA PassOnNamed ==
    ASSUME NEW w, Named(w), NEW n \in Node, NEW l, NEW e \in Event, NEW rest, rest \subseteq net,
           PassOn(n, home[l], l, e, rest),
           UNCHANGED <<subs, lpool, timer, due, tid, toLink, fromLink, sent, answers>>
    PROVE  Named(w)'
<1> DEFINE X(k) == NetMsg("indication", "event", home[l], n, k, 0, l, TRUE, {e}, NoReq)
<1>1. /\ \A g \in got' : g \in got \/ \E u \in Receivers(n, l, e) \cap User : g = [user |-> u, link |-> l, event |-> e]
      /\ \A m \in net' : m \in net \/ \E k \in Receivers(n, l, e) \cap Node : m = X(k)
  BY Zenon DEF PassOn
<1>2. \A k : X(k).type = "indication" /\ X(k).src = home[l] /\ X(k).via = n /\ X(k).dst = k
             /\ X(k).link = l /\ X(k).events = {e}
  BY Zenon DEF NetMsg
<1> HIDE DEF X
<1>3. sent' = sent /\ sent \subseteq Request /\ TablesAsked /\ PeersAbout(w) /\ AllRelayed /\ AllWanted
  BY Zenon DEF Named, Identified
<1>4. AllWanted'
  <2>1. \A r : \A x : Granted(r, x) => Granted(r, x)'
    BY Zenon DEF Granted
  <2>2. ASSUME NEW g \in got'
        PROVE  \E r \in sent : /\ r.kind = "subscribe" /\ r.from = g.user
                               /\ (r.link = g.link \/ g.event \in Broad) /\ Granted(r, g.event)
    <3>1. CASE g \in got
      BY <1>3, <3>1, WantedMeans, Zenon
    <3>2. ASSUME NEW u \in Receivers(n, l, e) \cap User, g = [user |-> u, link |-> l, event |-> e]
          PROVE  \E r \in sent : /\ r.kind = "subscribe" /\ r.from = g.user
                                 /\ (r.link = g.link \/ g.event \in Broad) /\ Granted(r, g.event)
      <4>1. g.user = u /\ g.link = l /\ g.event = e
        BY <3>2, Zenon
      <4>2. PICK r \in sent : r.kind = "subscribe" /\ (r.link = l \/ e \in Broad) /\ r.from = u /\ Granted(r, e)
        <5>1. u \in Receivers(n, l, e) /\ u \in User
          BY Zenon
        <5> QED
          BY <1>3, <5>1, ReceiverAsked, SMTT(30)
      <4> QED
        BY <4>1, <4>2, Zenon
    <3> QED
      BY <1>1, <3>1, <3>2, Zenon
  <2>3. \A g \in got' : \E r \in sent' :
            r.kind = "subscribe" /\ r.from = g.user /\ (r.link = g.link \/ g.event \in Broad) /\ Granted(r, g.event)'
    BY <1>3, <2>1, <2>2, Zenon
  <2> QED
    BY <2>3, Zenon DEF AllWanted, ToldOf, Granted
<1>5. PeersAbout(w)'
  <2>1. "indication" # "request" /\ "indication" # "response"
    OBVIOUS
  <2>2. \A m : About(m, w) => About(m, w)'
    BY <1>3, Zenon DEF About
  <2>3. ASSUME NEW k \in Node
        PROVE  /\ X(k).type # "request" /\ X(k).type # "response"
               /\ X(k).src = home[X(k).link] /\ X(k).dst \in Node /\ \E x \in Event : X(k).events = {x}
    BY <1>2, <2>1, Zenon
  <2>4. ASSUME NEW m \in net', m \notin net
        PROVE  /\ m.type # "request" /\ m.type # "response"
               /\ m.src = home[m.link] /\ m.dst \in Node /\ \E x \in Event : m.events = {x}
    <3>1. PICK k \in Node : m = X(k)
      BY <1>1, <2>4, Zenon
    <3> QED
      BY <2>3, <3>1, Zenon
  <2> QED
    BY <1>3, <2>2, <2>4, Zenon DEF PeersAbout
<1>6. AllRelayed'
  <2> SUFFICES ASSUME NEW m \in net', m.type = "indication", m.via # m.src
               PROVE  /\ m.events \subseteq Broad
                      /\ \E r \in sent : /\ r.kind = "subscribe" /\ home[r.from] = m.dst /\ r.to = m.via
                                         /\ m.events \subseteq r.events
    BY <1>3, Zenon DEF AllRelayed, Relayed
  <2>1. CASE m \in net
    BY <1>3, <2>1, Zenon DEF AllRelayed, Relayed
  <2>2. ASSUME NEW k \in Receivers(n, l, e) \cap Node, m = X(k)
        PROVE  /\ m.events \subseteq Broad
               /\ \E r \in sent : /\ r.kind = "subscribe" /\ home[r.from] = m.dst /\ r.to = m.via
                                  /\ m.events \subseteq r.events
    <3>1. m.src = home[l] /\ m.via = n /\ m.dst = k /\ m.events = {e}
      BY <1>2, <2>2, Zenon
    <3>2. PICK r \in sent : /\ r.kind = "subscribe" /\ (r.link = l \/ e \in Broad) /\ home[r.from] = k
                            /\ r.to = n /\ home[r.link] = n /\ e \in r.events
      <4>1. k \in Receivers(n, l, e) /\ k \in Node
        BY Zenon
      <4> QED
        BY <1>3, <4>1, ReceiverAsked, SMTT(30)
    <3>3. e \in Broad
      BY <3>1, <3>2, Zenon
    <3> QED
      BY <3>1, <3>2, <3>3, Zenon
  <2> QED
    BY <1>1, <2>1, <2>2, Zenon
<1>7. LinksAbout(w)' /\ PoolsAbout(w)' /\ TimersAbout(w)'
  BY <1>3, LinksKept, PoolSame, TimersSame, Zenon DEF Named
<1>8. \A q \in sent : Still(q, w)
  BY <1>3, StillLess, Zenon DEF Idle
<1>9. Identified(w)' /\ Answered' /\ AllFit' /\ TablesAsked' /\ \A q \in sent : OnceFor(q, w)'
  BY <1>8, QuietParts, Zenon
<1>10. Once(w)'
  BY <1>3, <1>9, Zenon DEF Once
<1> QED
  BY <1>4, <1>5, <1>6, <1>7, <1>9, <1>10, Zenon DEF Named

LEMMA IndicateNamed ==
    ASSUME Types, NEW w, Named(w), NEW l \in Link, Indicate(l) PROVE Named(w)'
<1>1. PICK e \in listed[l] :
          /\ PassOn(home[l], home[l], l, e, net)
          /\ UNCHANGED <<subs, lpool, timer, due, tid, toLink, fromLink, sent, answers>>
  BY Zenon DEF Indicate
<1>2. home[l] \in Node /\ e \in Event
  BY SetsAssumption, Zenon DEF Types
<1> QED
  BY <1>1, <1>2, PassOnNamed, Zenon

LEMMA PeerIndicationNamed ==
    ASSUME NEW w, Named(w), NEW m \in net, PeerIndication(m) PROVE Named(w)'
<1>1. /\ m.type = "indication"
      /\ \/ m.src = m.dst /\ net' = net \ {m} /\ UNCHANGED got
         \/ m.src # m.dst /\ \E e \in m.events : PassOn(m.dst, m.src, m.link, e, net \ {m})
      /\ UNCHANGED <<subs, lpool, timer, due, tid, toLink, fromLink, sent, answers>>
  BY Zenon DEF PeerIndication, mihf
<1>2. m.src = home[m.link] /\ m.dst \in Node /\ m.events \subseteq Event /\ sent \subseteq Request
  BY <1>1, Zenon DEF Named, PeersAbout, Identified
<1>3. CASE net' = net \ {m} /\ UNCHANGED got
  <2>1. UNCHANGED <<sent, tid, got, answers, subs>> /\ net' \subseteq net
    BY <1>1, <1>3, Zenon
  <2>2. LinksAbout(w)' /\ PoolsAbout(w)' /\ TimersAbout(w)'
    BY <1>1, LinksKept, PoolSame, TimersSame, Zenon DEF Named
  <2>3. \A q \in sent : Still(q, w)
    BY <1>1, <1>2, StillLess, Zenon DEF Idle
  <2> QED
    BY <2>1, <2>2, <2>3, QuietNamed, Zenon
<1>4. ASSUME NEW e \in m.events, PassOn(m.dst, m.src, m.link, e, net \ {m}) PROVE Named(w)'
  <2>1. PassOn(m.dst, home[m.link], m.link, e, net \ {m}) /\ e \in Event /\ net \ {m} \subseteq net
    BY <1>2, <1>4, Zenon
  <2>2. UNCHANGED <<subs, lpool, timer, due, tid, toLink, fromLink, sent, answers>>
    BY <1>1, Zenon
  <2> QED
    BY <1>2, <2>1, <2>2, PassOnNamed, Zenon
<1> QED
  BY <1>1, <1>3, <1>4, Zenon

-----------------------------------------------------------------------------
EventsNamed == \E w : Named(w)

LEMMA NamedStep == ASSUME Apart, Apart', CountsRequests, Types, EventsNamed, [Next]_vars PROVE EventsNamed'
<1>1. PICK w : Named(w)
  BY Zenon DEF EventsNamed
<1>2. CASE UNCHANGED vars
  <2>1. UNCHANGED <<subs, lpool, timer, due, tid, toLink, fromLink, net, sent, answers, got>>
    BY <1>2, Zenon DEF vars, mihf, wires, hist
  <2>2. LinksAbout(w)' /\ PoolsAbout(w)' /\ TimersAbout(w)' /\ sent \subseteq Request
    BY <1>1, <2>1, LinksKept, PoolSame, TimersSame, Zenon DEF Named, Identified
  <2>3. \A q \in sent : Still(q, w)
    BY <2>1, <2>2, StillLess, Zenon DEF Idle
  <2>4. UNCHANGED <<sent, tid, got, answers, subs>> /\ net' \subseteq net
    BY <2>1, Zenon
  <2> QED
    BY <1>1, <2>2, <2>3, <2>4, QuietNamed, Zenon DEF EventsNamed
<1>3. ASSUME NEW r \in Request, Submit(r) \/ Forward(r) PROVE EventsNamed'
  BY <1>1, <1>3, SubmitNamed, ForwardNamed, Zenon DEF EventsNamed
<1>4. ASSUME NEW m \in net, PeerRequest(m) \/ PeerResponse(m) \/ PeerIndication(m) PROVE EventsNamed'
  BY <1>1, <1>4, PeerRequestNamed, PeerResponseNamed, PeerIndicationNamed, Zenon DEF EventsNamed
<1>5. ASSUME NEW m \in fromLink, Confirm(m) PROVE EventsNamed'
  BY <1>1, <1>5, ConfirmNamed, Zenon DEF EventsNamed
<1>6. ASSUME NEW m \in toLink, LinkHandle(m) PROVE EventsNamed'
  BY <1>1, <1>6, LinkHandleNamed, Zenon DEF EventsNamed
<1>7. ASSUME NEW l \in Link, Restart(l) \/ Indicate(l) PROVE EventsNamed'
  BY <1>1, <1>7, RestartNamed, IndicateNamed, Zenon DEF EventsNamed
<1>8. ASSUME NEW n \in Node, Expire(n) \/ Fire(n) PROVE EventsNamed'
  BY <1>1, <1>8, ExpireNamed, FireNamed, Zenon DEF EventsNamed
<1> QED
  BY <1>2, <1>3, <1>4, <1>5, <1>6, <1>7, <1>8, Zenon DEF Next

\* Requests stay sent.
LEMMA SentGrows == ASSUME [Next]_vars PROVE sent \subseteq sent'
<1>1. CASE UNCHANGED vars
  BY <1>1, Zenon DEF vars, hist
<1>2. CASE Next
  <2>1. ASSUME NEW r, Submit(r) \/ Forward(r) PROVE sent \subseteq sent'
    BY <2>1, Zenon DEF Submit, Forward, Accept
  <2>2. ASSUME NEW m, PeerRequest(m) \/ PeerResponse(m) \/ PeerIndication(m) \/ Confirm(m) \/ LinkHandle(m)
        PROVE  sent' = sent
    BY <2>2, Zenon DEF PeerRequest, PeerResponse, PeerIndication, Confirm, LinkHandle, hist
  <2>3. ASSUME NEW l, Restart(l) \/ Indicate(l) PROVE sent' = sent
    BY <2>3, Zenon DEF Restart, Indicate
  <2>4. ASSUME NEW n, Expire(n) \/ Fire(n) PROVE sent' = sent
    BY <2>4, Zenon DEF Expire, Fire, hist
  <2> QED
    BY <1>2, <2>1, <2>2, <2>3, <2>4, Zenon DEF Next
<1> QED
  BY <1>1, <1>2
-----------------------------------------------------------------------------
Finite == INSTANCE FiniteSetTheorems

\* The library's sets and cardinalities are those of Events.
LEMMA SameSets ==
    /\ \A S : Finite!IsFiniteSet(S) <=> IsFiniteSet(S)
    /\ \A S : Finite!Cardinality(S) = Cardinality(S)
<1>1. \A S : Finite!IsFiniteSet(S) <=> IsFiniteSet(S)
  BY Zenon DEF Finite!IsFiniteSet, IsFiniteSet
<1>2. \A S : Finite!Cardinality(S) = Cardinality(S)
  BY Zenon DEF Finite!Cardinality, Cardinality
<1> QED
  BY <1>1, <1>2, Zenon

\* What EventsNamingProofs uses of finite sets.
LEMMA Counting == ASSUME Apart PROVE CountsRequests
<1>1. Finite!IsFiniteSet(Request) /\ Finite!Cardinality(Request) = Cardinality(Request)
  BY SameSets, Zenon DEF Apart
<1>2. Cardinality(Request) \in Nat
  BY <1>1, Finite!FS_CardinalityType, Zenon
<1>3. Cardinality({}) = 0
  BY SameSets, Finite!FS_EmptySet, Zenon
<1>4. ASSUME NEW S \in SUBSET Request, NEW r \in Request \ S
      PROVE  /\ Cardinality(S) \in Nat /\ Cardinality(S \cup {r}) = Cardinality(S) + 1
             /\ Cardinality(S \cup {r}) <= Cardinality(Request)
  <2>1. S \cup {r} \in SUBSET Request /\ r \notin S
    BY Zenon
  <2>2. Finite!IsFiniteSet(S) /\ Finite!Cardinality(S) \in Nat
    BY <1>1, Finite!FS_Subset, Finite!FS_CardinalityType, Zenon
  <2>3. Finite!Cardinality(S \cup {r}) = Finite!Cardinality(S) + 1
    BY <2>1, <2>2, Finite!FS_AddElement, Zenon
  <2>4. Finite!Cardinality(S \cup {r}) <= Finite!Cardinality(Request)
    BY <1>1, <2>1, Finite!FS_Subset, Zenon
  <2> QED
    BY <2>2, <2>3, <2>4, SameSets, Zenon
<1> QED
  BY <1>2, <1>3, <1>4, Zenon DEF CountsRequests

LEMMA NamedInit == Init => EventsNamed
<1> SUFFICES ASSUME Init PROVE \E w : Named(w)
  BY Zenon DEF EventsNamed
<1> DEFINE w == [r \in Request |-> 0]
<1>1. /\ toLink = {} /\ fromLink = {} /\ net = {} /\ sent = {} /\ got = {} /\ tid = FirstTid
      /\ subs = [n \in Node |-> {}] /\ lpool = [n \in Node |-> <<>>] /\ timer = [n \in Node |-> <<>>]
      /\ due = [n \in Node |-> <<>>] /\ answers = [r \in Request |-> <<>>]
  BY Zenon DEF Init
<1>2. Cardinality(sent) = 0
  BY <1>1, SameSets, Finite!FS_EmptySet, Zenon
<1>3. Identified(w)
  <2>1. w \in [Request -> Nat]
    OBVIOUS
  <2>2. \A n \in Node : FirstTid[n] \in Nat
    BY BoundAssumption, Zenon
  <2>3. \A n \in Node : tid[n] \in Nat /\ FirstTid[n] <= tid[n] /\ tid[n] <= FirstTid[n] + Cardinality(sent)
    BY <1>1, <1>2, <2>2, SMTT(30)
  <2> HIDE DEF w
  <2> QED
    BY <1>1, <2>1, <2>3, Zenon DEF Identified
<1> HIDE DEF w
<1>4. LinksAbout(w) /\ PeersAbout(w) /\ Once(w) /\ TablesAsked /\ AllWanted /\ AllRelayed
  BY <1>1, Zenon DEF LinksAbout, PeersAbout, Once, TablesAsked, AllWanted, ToldOf, AllRelayed, Relayed
<1>5. \A S : <<>> \in Seq(S) /\ DOMAIN <<>> = {}
  OBVIOUS
<1>6. PoolsAbout(w)
  BY <1>1, <1>5, Zenon DEF PoolsAbout, Unrepeated, Range
<1>7. TimersAbout(w)
  BY <1>1, <1>5, Zenon DEF TimersAbout, Unrepeated
<1>8. Answered /\ AllFit
  BY <1>1, <1>5, Zenon DEF Answered, AllFit, Fits
<1> QED
  BY <1>3, <1>4, <1>6, <1>7, <1>8, Zenon DEF Named

NamedWhileApart == Apart => EventsNamed

LEMMA NamedAlways == Spec => []NamedWhileApart
<1>1. EventsInv => Types
  BY Zenon DEF EventsInv
<1>2. ASSUME EventsInv, NamedWhileApart, [Next]_vars, Apart' PROVE EventsNamed'
  <2>1. Apart
    BY <1>2, SentGrows, ApartBefore, Zenon
  <2> QED
    BY <1>1, <1>2, <2>1, Counting, NamedStep, Zenon DEF NamedWhileApart
<1>3. EventsInv /\ NamedWhileApart /\ [Next]_vars => NamedWhileApart'
  BY <1>2, Zenon DEF NamedWhileApart
<1>4. Init => NamedWhileApart
  BY NamedInit, Zenon DEF NamedWhileApart
<1> QED
  BY <1>3, <1>4, EventsInit, EventsStep, PTL DEF Spec

\* A user gets an indication only of an event it was told it is subscribed to, as
\* long as no two requests were sent that come to have the same identifier.
THEOREM WantedEvents == Spec => []EventsWanted
<1>1. NamedWhileApart => EventsWanted
  BY Zenon DEF NamedWhileApart, EventsNamed, Named, EventsWanted, AllWanted
<1> QED
  BY <1>1, NamedAlways, PTL

\* The same for the indications that a MIHF sends on: the MIHF that gets one has
\* asked for it.
THEOREM RelayedWhenAsked == Spec => []RelayedOnRequest
<1>1. NamedWhileApart => RelayedOnRequest
  BY Zenon DEF NamedWhileApart, EventsNamed, Named, RelayedOnRequest, AllRelayed
<1> QED
  BY <1>1, NamedAlways, PTL

\* The same for answers: each is for the user and under the identifier of the
\* request, names only what was asked for, and nobody answers twice.
THEOREM FittingAnswers == Spec => []AnswersFit
<1>1. NamedWhileApart => AnswersFit
  BY Zenon DEF NamedWhileApart, EventsNamed, Named, AnswersFit, AllFit
<1> QED
  BY <1>1, NamedAlways, PTL
=============================================================================
