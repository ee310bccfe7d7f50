------------------------- MODULE LocalCommandsProofs -------------------------
(***************************************************************************)
(* The invariants of LocalCommands, for any number of links, requests,     *)
(* users and peers and any link_delete: first the link book, then who is   *)
(* answered and with what.                                                 *)
(***************************************************************************)
EXTENDS LocalCommands, WellFoundedInduction, FiniteSetTheorems, TLAPS

\* The inductive invariant: a link is inactive exactly when its counter is past
\* the limit, and then the counter has stopped one past it.
BookSound ==
    /\ book \in [Link -> [fail : 0 .. LinkDelete + 1, status : BOOLEAN]]
    /\ InactiveAfterFailures

\* What a link may confirm was asked of a link of the book.
LinksConfirm == \A c \in atLink : c.link \in Link

\* link_book::fail, followed by inactive for a link over the limit, keeps the
\* book sound, whatever links the request names.
LEMMA FailSound ==
    ASSUME NEW links, BookSound, Fail(links)
    PROVE  BookSound'
<1> USE BookAssumption
<1>1. ASSUME NEW l \in Link
      PROVE  /\ book'[l] \in [fail : 0 .. LinkDelete + 1, status : BOOLEAN]
             /\ book'[l].status <=> book'[l].fail <= LinkDelete
  <2> book[l] \in [fail : 0 .. LinkDelete + 1, status : BOOLEAN]
    BY Zenon DEF BookSound
  <2> book[l].status <=> book[l].fail <= LinkDelete
    BY Zenon DEF BookSound, InactiveAfterFailures
  <2>1. CASE l \in Known(links)
    <3>1. book[l].status
      BY <2>1, Zenon DEF Known
    <3>2. book'[l] = [fail |-> book[l].fail + 1, status |-> l \in Live(links)]
      BY <2>1, Zenon DEF Fail
    <3>3. l \in Live(links) <=> book[l].fail + 1 <= LinkDelete
      BY <2>1, Zenon DEF Live
    <3>4. book[l].fail + 1 \in 0 .. LinkDelete + 1
      BY <3>1
    <3>5. book'[l].fail = book[l].fail + 1 /\ book'[l].status = (l \in Live(links))
      BY <3>2
    <3>6. book'[l].status <=> book'[l].fail <= LinkDelete
      BY <3>3, <3>5, Zenon
    <3>7. (l \in Live(links)) \in BOOLEAN
      OBVIOUS
    <3>8. book'[l] \in [fail : 0 .. LinkDelete + 1, status : BOOLEAN]
      <4>1. \A f \in 0 .. LinkDelete + 1, b \in BOOLEAN :
                [fail |-> f, status |-> b] \in [fail : 0 .. LinkDelete + 1, status : BOOLEAN]
        BY Zenon
      <4> QED
        BY <3>2, <3>4, <3>7, <4>1, Zenon
    <3> QED
      BY <3>6, <3>8, Zenon
  <2>2. CASE l \notin Known(links)
    BY <2>2, Zenon DEF Fail
  <2> QED
    BY <2>1, <2>2, Zenon
<1>2. book' \in [Link -> [fail : 0 .. LinkDelete + 1, status : BOOLEAN]]
  <2> book' = [l \in Link |-> book'[l]]
    BY Zenon DEF Fail
  <2> QED
    BY <1>1, Zenon
<1> QED
  BY <1>1, <1>2 DEF BookSound, InactiveAfterFailures

\* link_book::reset makes the link active with no failures.
LEMMA ResetSound ==
    ASSUME NEW l \in Link, BookSound, Reset(l)
    PROVE  BookSound'
BY BookAssumption DEF BookSound, InactiveAfterFailures, Reset

\* A step of any handler keeps the book sound: the requests to links go through
\* Fail, the confirmations through Reset, nothing else touches the book.
LEMMA NextSound ==
    ASSUME BookSound, LinksConfirm, [Next]_vars
    PROVE  BookSound'
<1>1. ASSUME book' = book PROVE BookSound'
  BY <1>1, Zenon DEF BookSound, InactiveAfterFailures
<1>2. CASE UNCHANGED vars
  BY <1>1, <1>2, Zenon DEF vars
<1>3. ASSUME NEW r \in Request, AskLinks(r) \/ Configure(r) \/ Conf(r) PROVE BookSound'
  BY <1>3, FailSound, Zenon DEF AskLinks, Configure, Conf
<1>4. ASSUME NEW r \in Request, Forward(r) \/ Handover(r) PROVE BookSound'
  BY <1>1, <1>4, Zenon DEF Forward, Handover
<1>5. ASSUME NEW c \in atLink, NEW ok \in BOOLEAN, Confirm(c, ok) PROVE BookSound'
  <2>1. c.link \in Link
    BY Zenon DEF LinksConfirm
  <2>2. Reset(c.link)
    BY <1>5, Zenon DEF Confirm
  <2> QED
    BY <2>1, <2>2, ResetSound, Zenon
<1>6. ASSUME NEW c, PeerResponse(c) \/ UserResponse(c) PROVE BookSound'
  BY <1>1, <1>6, Zenon DEF PeerResponse, UserResponse, Respond
<1>7. ASSUME NEW t, Expire(t) PROVE BookSound'
  BY <1>1, <1>7, Zenon DEF Expire
<1>8. CASE Fire
  BY <1>1, <1>8, Zenon DEF Fire
<1> QED
  BY <1>2, <1>3, <1>4, <1>5, <1>6, <1>7, <1>8, Zenon DEF Next

\* Only links are asked, so that only links confirm.
LEMMA LinksConfirmStep ==
    ASSUME LinksConfirm, [Next]_vars
    PROVE  LinksConfirm'
<1> USE RequestAssumption DEF LinksConfirm
<1>1. ASSUME atLink' = atLink PROVE LinksConfirm'
  BY <1>1, Zenon
<1>2. ASSUME NEW r \in Request,
             atLink' = atLink \cup {ToLink(l, r) : l \in Live(r.links)}
      PROVE  LinksConfirm'
  BY <1>2 DEF ToLink, Live, Known
<1>3. CASE UNCHANGED vars
  BY <1>1, <1>3, Zenon DEF vars
<1>4. ASSUME NEW r \in Request, AskLinks(r) \/ Configure(r) \/ Conf(r) PROVE LinksConfirm'
  BY <1>2, <1>4, Zenon DEF AskLinks, Configure, Conf
<1>5. ASSUME NEW r \in Request, Forward(r) \/ Handover(r) PROVE LinksConfirm'
  BY <1>1, <1>5, Zenon DEF Forward, Handover
<1>6. ASSUME NEW c \in atLink, NEW ok \in BOOLEAN, Confirm(c, ok) PROVE LinksConfirm'
  BY <1>1, <1>6, Zenon DEF Confirm
<1>7. ASSUME NEW c, PeerResponse(c) \/ UserResponse(c) PROVE LinksConfirm'
  BY <1>1, <1>7, Zenon DEF PeerResponse, UserResponse, Respond
<1>8. ASSUME NEW t, Expire(t) PROVE LinksConfirm'
  BY <1>1, <1>8, Zenon DEF Expire
<1>9. CASE Fire
  BY <1>1, <1>9, Zenon DEF Fire
<1> QED
  BY <1>3, <1>4, <1>5, <1>6, <1>7, <1>8, <1>9, Zenon DEF Next

\* For all links, requests and limits: a link is inactive exactly when it failed
\* more often than link_delete allows since its last confirmation.
THEOREM InactiveLinks == Spec => []InactiveAfterFailures
<1>1. Init => BookSound /\ LinksConfirm
  BY BookAssumption DEF Init, BookSound, InactiveAfterFailures, LinksConfirm
<1>2. BookSound /\ LinksConfirm /\ [Next]_vars => (BookSound /\ LinksConfirm)'
  BY NextSound, LinksConfirmStep, Zenon
<1>3. BookSound => InactiveAfterFailures
  BY Zenon DEF BookSound
<1> QED
  BY <1>1, <1>2, <1>3, PTL DEF Spec

-----------------------------------------------------------------------------
(***************************************************************************)
(* The list of requests                                                    *)
(***************************************************************************)

Less == {ss \in Nat \X Nat : ss[1] < ss[2]}

\* A set of numbers has a least one.
LEMMA LeastNumber ==
    ASSUME NEW S \in SUBSET Nat, S # {}
    PROVE  \E m \in S : \A k \in S : m <= k
<1>1. IsWellFoundedOn(Less, Nat)
  BY NatLessThanWellFounded, Zenon DEF OpToRel, Less
<1>2. \E m \in S : \A k \in S : ~(<<k, m>> \in Less)
  BY <1>1, WFMin, Zenon
<1>3. PICK m \in S : \A k \in S : ~(<<k, m>> \in Less)
  BY <1>2
<1>4. ASSUME NEW k \in S PROVE m <= k
  <2>1. ~(<<k, m>> \in Less)
    BY <1>3
  <2>2. ~(k < m)
    BY <2>1 DEF Less
  <2> QED
    BY <2>2
<1> QED
  BY <1>4

\* The first of some positions is one of them and before the others, and 0 means
\* that there are none.
LEMMA FirstLeast ==
    ASSUME NEW I \in SUBSET (Nat \ {0})
    PROVE  /\ First(I) = 0 <=> I = {}
           /\ I # {} => First(I) \in I /\ \A k \in I : First(I) <= k
<1>1. CASE I = {}
  BY <1>1 DEF First
<1>2. CASE I # {}
  <2>1. \E m \in I : \A k \in I : m <= k
    BY <1>2, LeastNumber
  <2>2. First(I) \in I /\ \A k \in I : First(I) <= k
    BY <1>2, <2>1, Zenon DEF First
  <2> QED
    BY <1>2, <2>2, Zenon
<1> QED
  BY <1>1, <1>2, Zenon

\* What find returns is an entry with the destination and the identifier.
LEMMA FindEntry ==
    ASSUME NEW S, NEW pool \in Seq(S), NEW id, NEW t, Find(pool, id, t) # 0
    PROVE  /\ Find(pool, id, t) \in 1 .. Len(pool)
           /\ pool[Find(pool, id, t)] \in S
           /\ pool[Find(pool, id, t)].destination = id
           /\ pool[Find(pool, id, t)].rtid = t
<1> DEFINE I == {i \in DOMAIN pool : pool[i].destination = id /\ pool[i].rtid = t}
<1>1. Find(pool, id, t) = First(I)
  BY DEF Find
<1>2. I # {}
  BY <1>1 DEF First
<1>3. I \in SUBSET Nat
  OBVIOUS
<1>4. \E m \in I : \A k \in I : m <= k
  <2> HIDE DEF I
  <2> QED
    BY <1>2, <1>3, LeastNumber
<1>5. First(I) \in I
  BY <1>2, <1>4, Zenon DEF First
<1> QED
  BY <1>1, <1>5

\* Taking out an entry leaves the others, in their order.
LEMMA RemoveEntry ==
    ASSUME NEW S, NEW pool \in Seq(S), NEW i \in 1 .. Len(pool)
    PROVE  /\ Without(pool, i) \in Seq(S)
           /\ Len(Without(pool, i)) = Len(pool) - 1
           /\ \A j \in 1 .. Len(pool) - 1 :
                  Without(pool, i)[j] = pool[IF j < i THEN j ELSE j + 1]
<1>1. Without(pool, i) \in Seq(S)
  BY DEF Without
<1>2. Len(Without(pool, i)) = Len(pool) - 1
  BY DEF Without
<1>3. \A j \in 1 .. Len(pool) - 1 : Without(pool, i)[j] = pool[IF j < i THEN j ELSE j + 1]
  BY DEF Without
<1> QED
  BY <1>1, <1>2, <1>3

\* What is added to a list comes after it.
LEMMA AddEntries ==
    ASSUME NEW S, NEW pool \in Seq(S), NEW new \in Seq(S)
    PROVE  /\ pool \o new \in Seq(S) /\ Len(pool \o new) = Len(pool) + Len(new)
           /\ \A i \in 1 .. Len(pool) : (pool \o new)[i] = pool[i]
           /\ \A i \in Len(pool) + 1 .. Len(pool) + Len(new) :
                  i - Len(pool) \in DOMAIN new /\ (pool \o new)[i] = new[i - Len(pool)]
OBVIOUS

LEMMA AddEntry ==
    ASSUME NEW S, NEW pool \in Seq(S), NEW x \in S
    PROVE  /\ Append(pool, x) \in Seq(S) /\ Len(Append(pool, x)) = Len(pool) + 1
           /\ Append(pool, x)[Len(pool) + 1] = x
           /\ \A i \in 1 .. Len(pool) : Append(pool, x)[i] = pool[i]
OBVIOUS

-----------------------------------------------------------------------------
(***************************************************************************)
(* The inductive invariant about answers                                   *)
(***************************************************************************)
Entity   == User \cup Peer \cup Link \cup {Mihf}
Waiting  == [user : Entity, destination : Entity, ltid : Nat, rtid : Nat]
Response == [to : Entity, tid : Nat, by : Entity, parts : SUBSET Request]

Types ==
    /\ lpool \in Seq(Waiting)
    /\ lrpool \in Seq([link : Link, tid : Nat, kind : Aggregated, req : Request])
    /\ timer \in [DOMAIN timer -> [req : Request, expired : BOOLEAN]]
    /\ due \in Seq(Request)
    /\ tid \in Nat
    /\ sent \subseteq Request
    /\ answers \in [Request -> Seq(Response)]
    /\ alive \in BOOLEAN

\* The entry e of the local pool is one that the request r left for a link, for a
\* peer, where the peers have the requests asked, or for a user.
ForLink(e, r) ==
    /\ e.destination \in r.links /\ r.to = Mihf
    /\ r.kind \in Relayed => e.user = r.from
    /\ e.rtid = r.tid \/ e.rtid > FirstTid
ForPeer(e, r, asked) ==
    \E c \in asked : c.req = r /\ c.tid = e.rtid /\ e.destination = c.peer /\ e.user = r.from
ForUser(e, r) ==
    \E k \in DOMAIN Mobile :
        /\ e.destination = Mobile[k] /\ e.rtid = r.tid
        /\ e.user = IF k = 1 \/ r.from \in Peer THEN r.from ELSE Mihf
Belongs(e, r, asked) == e.ltid = r.tid /\ (ForLink(e, r) \/ ForPeer(e, r, asked) \/ ForUser(e, r))

\* Every entry of the local pool belongs to a request.
PoolSound == \A i \in DOMAIN lpool : \E r \in sent : Belongs(lpool[i], r, atPeer)

\* What links, peers and users have been asked belongs to a request too; the
\* requests at peers have identifiers of their own.
AskedSound ==
    /\ \A c \in atLink : /\ c.req \in sent /\ c.tid = c.req.tid /\ c.kind = c.req.kind
                         /\ c.link \in c.req.links /\ c.kind \in Aggregated \cup Relayed
    /\ \A c \in atPeer : c.req \in sent /\ c.peer \in Peer /\ c.tid \in FirstTid + 1 .. tid
    /\ \A c, d \in atPeer : c.tid = d.tid => c = d
    /\ \A c \in atUser : c.req \in sent /\ c.tid = c.req.tid /\ c.user \in User
    /\ tid >= FirstTid

\* So do the timers, the handlers that wait and the stored answers, and a request
\* that was not sent has no answer.
TimersSound ==
    /\ \A t \in DOMAIN timer : timer[t].req \in sent /\ timer[t].req.tid = t
    /\ \A i \in DOMAIN due : due[i] \in sent
StoreSound ==
    \A i \in DOMAIN lrpool :
        lrpool[i].req \in sent /\ lrpool[i].tid = lrpool[i].req.tid /\ lrpool[i].kind = lrpool[i].req.kind
UnsentUnanswered == \A r \in Request \ sent : answers[r] = <<>>

Sound == Types /\ PoolSound /\ AskedSound /\ TimersSound /\ StoreSound /\ UnsentUnanswered

\* No other request has the identifier of r.
Alone(r) == r \in sent /\ \A q \in sent : q.tid = r.tid => q = r

\* Then the pool has one entry at most for each of those that r waits for, and none
\* for those that have answered.
Single(r) ==
    \A i, j \in DOMAIN lpool :
        lpool[i].ltid = r.tid /\ lpool[j].ltid = r.tid /\ lpool[i].destination = lpool[j].destination => i = j
Done(r) ==
    \A k \in DOMAIN answers[r] : \A i \in DOMAIN lpool :
        lpool[i].ltid = r.tid => lpool[i].destination # answers[r][k].by

\* The timer has one handler, and as long as it runs or its handler waits, this
\* MIHF has not answered.
Unanswered(r) == \A k \in DOMAIN answers[r] : answers[r][k].by # Mihf
Once(r) ==
    /\ \A i, j \in DOMAIN due : due[i] = r /\ due[j] = r => i = j
    /\ (\E i \in DOMAIN due : due[i] = r) => Unanswered(r)
    /\ r.tid \in DOMAIN timer /\ ~timer[r.tid].expired =>
           Unanswered(r) /\ \A i \in DOMAIN due : due[i] # r

\* The answer a fits r, and so do all answers to r.
FitsOne(r, a) ==
    /\ a.tid = r.tid /\ a.parts \subseteq {r}
    /\ \/ a.to = r.from
       \/ a.to = Mihf /\ r.from \in User /\ \E k \in 2 .. Len(Mobile) : a.by = Mobile[k]
Fits(r) ==
    /\ \A i \in DOMAIN answers[r] : FitsOne(r, answers[r][i])
    /\ \A i, j \in DOMAIN answers[r] : i # j => answers[r][i].by # answers[r][j].by

Orderly == \A r \in Request : Alone(r) => Single(r) /\ Done(r) /\ Once(r) /\ Fits(r)

AnswersInv == Sound /\ Orderly /\ DiesOnClashOnly

\* The pool grows from old to new by entries of the request r, one for each
\* destination; message_out may give an entry for a link another identifier.
Grows(old, new, r) ==
    /\ Len(old) <= Len(new)
    /\ \A i \in 1 .. Len(old) :
           /\ new[i].ltid = old[i].ltid /\ new[i].destination = old[i].destination
           /\ new[i].user = old[i].user
           /\ new[i].rtid = old[i].rtid \/ (old[i].destination \in Link /\ new[i].rtid > FirstTid)
    /\ \A i \in Len(old) + 1 .. Len(new) : new[i].ltid = r.tid
    /\ \A i, j \in Len(old) + 1 .. Len(new) : new[i].destination = new[j].destination => i = j

-----------------------------------------------------------------------------
(***************************************************************************)
(* The lists                                                               *)
(***************************************************************************)

\* The entries that forward_request adds for links: one for each.
LEMMA EntriesOf ==
    ASSUME NEW user \in Entity, NEW r \in Request, NEW links \in SUBSET r.links
    PROVE  /\ Entries(user, links, r) \in Seq(Waiting)
           /\ \A i \in DOMAIN Entries(user, links, r) :
                  /\ Entries(user, links, r)[i].user = user
                  /\ Entries(user, links, r)[i].destination \in links
                  /\ Entries(user, links, r)[i].ltid = r.tid
                  /\ Entries(user, links, r)[i].rtid = r.tid
           /\ \A i, j \in DOMAIN Entries(user, links, r) :
                  Entries(user, links, r)[i].destination = Entries(user, links, r)[j].destination => i = j
<1> DEFINE n == Cardinality(links)
           Injective(s) == \A i, j \in DOMAIN s : s[i] = s[j] => i = j
           list == CHOOSE s \in [1 .. n -> links] : Injective(s)
<1>1. IsFiniteSet(links)
  BY RequestAssumption, FS_Subset, Zenon
<1>2. n \in Nat /\ ExistsBijection(1 .. n, links)
  BY <1>1, FS_CardinalityType, Zenon
<1>3. \E s \in [1 .. n -> links] : Injective(s)
  <2>1. PICK s : s \in Bijection(1 .. n, links)
    BY <1>2, Zenon DEF ExistsBijection
  <2>2. s \in [1 .. n -> links] /\ \A i, j \in 1 .. n : s[i] = s[j] => i = j
    BY <2>1, Zenon DEF Bijection, Injection, IsInjective
  <2> QED
    BY <2>2, Zenon
<1>4. list \in [1 .. n -> links] /\ Injective(list)
  <2> HIDE DEF Injective, n
  <2> QED
    BY <1>3, Zenon
<1>5. Entries(user, links, r) = [i \in 1 .. n |-> Entry(user, list[i], r.tid)]
  BY Zenon DEF Entries
<1>6. \A l \in links : Entry(user, l, r.tid) \in Waiting
  BY RequestAssumption, BookAssumption DEF Entry, Waiting, Entity
<1> HIDE DEF n, list
<1>7. Entries(user, links, r) \in Seq(Waiting) /\ DOMAIN Entries(user, links, r) = 1 .. n
  BY <1>2, <1>4, <1>5, <1>6
<1>8. \A i \in 1 .. n : Entries(user, links, r)[i] = Entry(user, list[i], r.tid)
  BY <1>5, Zenon
<1> QED
  BY <1>4, <1>7, <1>8 DEF Entry

\* What is kept of a list is a list, of elements at the positions to keep: their
\* ranks are the numbers from 1 on.
LEMMA KeepOf ==
    ASSUME NEW S, NEW s \in Seq(S), NEW P \in SUBSET DOMAIN s
    PROVE  /\ Keep(s, P) \in Seq(S)
           /\ \A j \in DOMAIN Keep(s, P) : \E i \in P : Keep(s, P)[j] = s[i]
<1> DEFINE upto(i) == {k \in P : k <= i}
           rank(i) == Cardinality(upto(i))
           n == Cardinality(P)
           f == [i \in P |-> rank(i)]
<1>1. IsFiniteSet(P) /\ P \subseteq Nat
  <2>1. IsFiniteSet(1 .. Len(s))
    BY FS_Interval
  <2> QED
    BY <2>1, FS_Subset
<1>2. n \in Nat /\ IsFiniteSet(1 .. n) /\ Cardinality(1 .. n) = n
  <2>1. n \in Nat
    BY <1>1, FS_CardinalityType, Zenon
  <2> HIDE DEF n
  <2> QED
    BY <2>1, FS_Interval
<1>3. \A i \in P : IsFiniteSet(upto(i)) /\ rank(i) \in 1 .. n
  <2> SUFFICES ASSUME NEW i \in P PROVE IsFiniteSet(upto(i)) /\ rank(i) \in 1 .. n
    BY Zenon
  <2>1. upto(i) \in SUBSET P /\ upto(i) # {}
    BY <1>1
  <2> HIDE DEF upto, n
  <2>2. IsFiniteSet(upto(i)) /\ rank(i) <= n
    BY <1>1, <2>1, FS_Subset, Zenon DEF n
  <2>3. rank(i) \in Nat /\ rank(i) # 0
    BY <2>1, <2>2, FS_CardinalityType, FS_EmptySet, Zenon
  <2> QED
    BY <1>2, <2>2, <2>3
<1>4. \A i, k \in P : i < k => rank(i) # rank(k)
  <2> SUFFICES ASSUME NEW i \in P, NEW k \in P, i < k PROVE rank(i) # rank(k)
    BY Zenon
  <2>1. upto(i) \in SUBSET upto(k) /\ upto(i) # upto(k)
    BY <1>1
  <2> HIDE DEF upto
  <2> QED
    BY <1>3, <2>1, FS_Subset, Zenon
<1>5. {rank(i) : i \in P} = 1 .. n
  <2>1. f \in Injection(P, 1 .. n)
    <3> HIDE DEF rank, n
    <3>1. f \in [P -> 1 .. n]
      BY <1>3, Zenon
    <3>2. \A i, k \in P : f[i] = f[k] => i = k
      BY <1>1, <1>4
    <3> QED
      BY <3>1, <3>2, Zenon DEF Injection, IsInjective
  <2>2. f \in Surjection(P, 1 .. n)
    <3> HIDE DEF f
    <3> QED
      BY <1>2, <2>1, FS_Injection, Zenon
  <2>3. \A j \in 1 .. n : \E i \in P : f[i] = j
    BY <2>2, Zenon DEF Surjection
  <2> HIDE DEF rank, n
  <2> QED
    BY <1>3, <2>3, Zenon
<1> DEFINE at(j) == CHOOSE i \in P : rank(i) = j
<1>6. Keep(s, P) = [j \in 1 .. n |-> s[at(j)]]
  BY <1>5, Zenon DEF Keep
<1> HIDE DEF rank, n
<1>7. \A j \in 1 .. n : at(j) \in P
  BY <1>5, Zenon
<1> HIDE DEF at
<1>8. \A j \in 1 .. n : s[at(j)] \in S
  BY <1>7
<1>9. Keep(s, P) \in Seq(S)
  BY <1>2, <1>6, <1>8
<1> QED
  BY <1>6, <1>7, <1>9, Zenon

\* The entries s are added for r.
LEMMA AddedOf ==
    ASSUME lpool \in Seq(Waiting), NEW r, NEW s \in Seq(Waiting), \A i \in DOMAIN s : s[i].ltid = r.tid,
           \A i, j \in DOMAIN s : s[i].destination = s[j].destination => i = j
    PROVE  /\ lpool \o s \in Seq(Waiting) /\ Grows(lpool, lpool \o s, r)
           /\ \A i \in Len(lpool) + 1 .. Len(lpool \o s) : \E j \in DOMAIN s : (lpool \o s)[i] = s[j]
<1> DEFINE new == lpool \o s
<1>1. /\ new \in Seq(Waiting) /\ Len(new) = Len(lpool) + Len(s)
      /\ \A i \in 1 .. Len(lpool) : new[i] = lpool[i]
      /\ \A i \in Len(lpool) + 1 .. Len(new) : i - Len(lpool) \in DOMAIN s /\ new[i] = s[i - Len(lpool)]
  BY AddEntries
<1>2. Len(lpool) \in Nat /\ Len(s) \in Nat
  OBVIOUS
<1> HIDE DEF new
<1>3. \A i \in Len(lpool) + 1 .. Len(new) : new[i].ltid = r.tid
  BY <1>1
<1>4. \A i, j \in Len(lpool) + 1 .. Len(new) : new[i].destination = new[j].destination => i = j
  <2> SUFFICES ASSUME NEW i \in Len(lpool) + 1 .. Len(new), NEW j \in Len(lpool) + 1 .. Len(new),
                      new[i].destination = new[j].destination
               PROVE  i = j
    BY Zenon
  <2>1. i - Len(lpool) \in DOMAIN s /\ j - Len(lpool) \in DOMAIN s
    BY <1>1, Zenon
  <2>2. s[i - Len(lpool)].destination = s[j - Len(lpool)].destination
    BY <1>1, Zenon
  <2>3. i - Len(lpool) = j - Len(lpool)
    BY <2>1, <2>2, Zenon
  <2> QED
    BY <1>2, <2>3
<1>5. Len(lpool) <= Len(new)
  BY <1>1, <1>2
<1>6. Grows(lpool, new, r)
  BY <1>1, <1>3, <1>4, <1>5, Zenon DEF Grows
<1>7. \A i \in Len(lpool) + 1 .. Len(new) : \E j \in DOMAIN s : new[i] = s[j]
  BY <1>1, Zenon
<1> QED
  BY <1>1, <1>6, <1>7, Zenon DEF new

\* An answer, a new timer and a cancelled one keep the types.
LEMMA AnsweredTyped ==
    ASSUME answers \in [Request -> Seq(Response)], NEW r \in Request, NEW a \in Response, Answered(r, a)
    PROVE  answers' \in [Request -> Seq(Response)]
<1>1. Append(answers[r], a) \in Seq(Response)
  BY AddEntry, Zenon
<1> QED
  BY <1>1, Zenon DEF Answered

LEMMA ArmedTyped ==
    ASSUME NEW X, timer \in [DOMAIN timer -> X], NEW r, [req |-> r, expired |-> FALSE] \in X
    PROVE  Armed(r) \in [DOMAIN Armed(r) -> X]
BY Zenon DEF Armed

LEMMA DisarmedTyped ==
    ASSUME NEW X, timer \in [DOMAIN timer -> X], NEW t
    PROVE  Disarmed(t) \in [DOMAIN Disarmed(t) -> X]
BY Zenon DEF Disarmed

\* What a link was asked matches an entry of the pool only under the identifier of
\* the request, and one of this request if it is alone.
LEMMA MatchLink ==
    ASSUME Sound, NEW c \in atLink, NEW i \in DOMAIN lpool,
           lpool[i].destination = c.link, lpool[i].rtid = c.tid
    PROVE  /\ lpool[i].ltid = c.req.tid
           /\ Alone(c.req) /\ c.kind \in Relayed => lpool[i].user = c.req.from
<1>1. PICK q \in sent : Belongs(lpool[i], q, atPeer)
  BY Zenon DEF Sound, PoolSound
<1>2. /\ c.req \in Request /\ c.tid = c.req.tid /\ c.link \in Link /\ c.kind = c.req.kind
      /\ c.tid \in 0 .. FirstTid
  BY RequestAssumption, Zenon DEF Sound, AskedSound, Types
<1>3. ~ForPeer(lpool[i], q, atPeer) /\ ~ForUser(lpool[i], q)
  BY <1>2, EntityAssumption DEF Sound, AskedSound, ForPeer, ForUser
<1>4. lpool[i].ltid = q.tid /\ ForLink(lpool[i], q)
  BY <1>1, <1>3, Zenon DEF Belongs
<1>5. q.tid = c.tid
  BY <1>2, <1>4, BookAssumption DEF ForLink
<1> QED
  BY <1>2, <1>4, <1>5, Zenon DEF ForLink, Alone

\* The same for a peer, under the identifier that message_out gave the request.
LEMMA MatchPeer ==
    ASSUME Sound, NEW c \in atPeer, NEW i \in DOMAIN lpool,
           lpool[i].destination = c.peer, lpool[i].rtid = c.tid
    PROVE  lpool[i].ltid = c.req.tid /\ lpool[i].user = c.req.from
<1>1. PICK q \in sent : Belongs(lpool[i], q, atPeer)
  BY Zenon DEF Sound, PoolSound
<1>2. c.req \in Request /\ c.peer \in Peer /\ q \in Request
  BY Zenon DEF Sound, AskedSound, Types
<1>3. ~ForLink(lpool[i], q) /\ ~ForUser(lpool[i], q)
  BY <1>2, EntityAssumption, RequestAssumption DEF ForLink, ForUser
<1>4. lpool[i].ltid = q.tid /\ ForPeer(lpool[i], q, atPeer)
  BY <1>1, <1>3, Zenon DEF Belongs
<1>5. PICK d \in atPeer : d.req = q /\ d.tid = lpool[i].rtid /\ lpool[i].user = q.from
  BY <1>4, Zenon DEF ForPeer
<1>6. d = c
  BY <1>5 DEF Sound, AskedSound
<1> QED
  BY <1>4, <1>5, <1>6, Zenon

\* The same for a user that handles handovers.
LEMMA MatchUser ==
    ASSUME Sound, NEW c \in atUser, NEW i \in DOMAIN lpool,
           lpool[i].destination = c.user, lpool[i].rtid = c.tid
    PROVE  /\ lpool[i].ltid = c.req.tid
           /\ Alone(c.req) => ForUser(lpool[i], c.req)
<1>1. PICK q \in sent : Belongs(lpool[i], q, atPeer)
  BY Zenon DEF Sound, PoolSound
<1>2. c.req \in Request /\ c.user \in User /\ q \in Request /\ c.tid = c.req.tid
  BY Zenon DEF Sound, AskedSound, Types
<1>3. ~ForLink(lpool[i], q) /\ ~ForPeer(lpool[i], q, atPeer)
  BY <1>2, EntityAssumption, RequestAssumption, Zenon DEF ForLink, ForPeer, Sound, AskedSound
<1>4. lpool[i].ltid = q.tid /\ ForUser(lpool[i], q)
  BY <1>1, <1>3, Zenon DEF Belongs
<1>5. q.tid = c.tid
  BY <1>4, Zenon DEF ForUser
<1> QED
  BY <1>2, <1>4, <1>5, Zenon DEF Alone

\* No entry waits for this MIHF.
LEMMA NotForMihf == Sound => \A i \in DOMAIN lpool : lpool[i].destination # Mihf
<1> SUFFICES ASSUME Sound, NEW i \in DOMAIN lpool
             PROVE  lpool[i].destination # Mihf
  BY Zenon
<1>1. PICK q \in sent : Belongs(lpool[i], q, atPeer)
  BY Zenon DEF Sound, PoolSound
<1>2. q \in Request
  BY Zenon DEF Sound, Types
<1>3. CASE ForLink(lpool[i], q)
  BY <1>2, <1>3, EntityAssumption, RequestAssumption, Zenon DEF ForLink
<1>4. CASE ForPeer(lpool[i], q, atPeer)
  BY <1>4, EntityAssumption DEF ForPeer, Sound, AskedSound
<1>5. CASE ForUser(lpool[i], q)
  BY <1>5, EntityAssumption DEF ForUser
<1> QED
  BY <1>1, <1>3, <1>4, <1>5, Zenon DEF Belongs

-----------------------------------------------------------------------------
(***************************************************************************)
(* Steps that keep the answers in order                                    *)
(***************************************************************************)

\* A request leaves the earlier ones with other identifiers alone.
LEMMA AloneBefore ==
    ASSUME NEW r \in Request, r \notin sent, sent' = sent \cup {r}, NEW q \in Request, Alone(q)'
    PROVE  q = r \/ (Alone(q) /\ q.tid # r.tid)
BY Zenon DEF Alone

\* When r is sent, nothing of an earlier request without clash changes, and r has at
\* most the answer of this MIHF.
LEMMA RequestOrderly ==
    ASSUME Sound, Types', Orderly, NEW r \in Request, r \notin sent, sent' = sent \cup {r},
           Grows(lpool, lpool', r), \A i \in DOMAIN lpool' : lpool'[i].destination # Mihf,
           due' = due,
           \/ answers' = answers /\ (timer' = timer \/ timer' = Armed(r))
           \/ timer' = timer /\ Answered(r, Answer(r.from, r.tid, Mihf, {}))
    PROVE  Orderly'
<1> SUFFICES ASSUME NEW q \in Request, Alone(q)'
             PROVE  (Single(q) /\ Done(q) /\ Once(q) /\ Fits(q))'
  BY Zenon DEF Orderly
<1>0. /\ lpool \in Seq(Waiting) /\ lpool' \in Seq(Waiting) /\ DOMAIN lpool = 1 .. Len(lpool)
      /\ \A i \in DOMAIN lpool' : i \in 1 .. Len(lpool) \/ i \in Len(lpool) + 1 .. Len(lpool')
      /\ answers \in [Request -> Seq(Response)]
  BY SMTT(30) DEF Sound, Types
<1>1. CASE q # r
  <2>1. Alone(q) /\ q.tid # r.tid
    BY <1>1, AloneBefore, Zenon
  <2>2. Single(q) /\ Done(q) /\ Once(q) /\ Fits(q)
    BY <2>1, Zenon DEF Orderly
  <2>3. answers'[q] = answers[q]
    BY <1>0, <1>1, Zenon DEF Answered
  <2>4. /\ q.tid \in DOMAIN timer' <=> q.tid \in DOMAIN timer
        /\ q.tid \in DOMAIN timer => timer'[q.tid] = timer[q.tid]
    BY <2>1, Zenon DEF Armed
  <2>5. \A i \in DOMAIN lpool' : lpool'[i].ltid = q.tid =>
            /\ i \in DOMAIN lpool /\ lpool[i].ltid = q.tid
            /\ lpool'[i].destination = lpool[i].destination
    <3> SUFFICES ASSUME NEW i \in DOMAIN lpool', lpool'[i].ltid = q.tid
                 PROVE  /\ i \in DOMAIN lpool /\ lpool[i].ltid = q.tid
                        /\ lpool'[i].destination = lpool[i].destination
      BY Zenon
    <3>1. i \in 1 .. Len(lpool)
      BY <2>1, <1>0, Zenon DEF Grows
    <3> QED
      BY <1>0, <3>1, Zenon DEF Grows
  <2>6. Single(q)'
    BY <2>2, <2>5, Zenon DEF Single
  <2>7. Done(q)'
    BY <2>2, <2>3, <2>5, Zenon DEF Done
  <2>8. Once(q)'
    BY <2>2, <2>3, <2>4, Zenon DEF Once, Unanswered
  <2>9. Fits(q)'
    BY <2>2, <2>3, Zenon DEF Fits
  <2> QED
    BY <2>6, <2>7, <2>8, <2>9, Zenon
<1>2. CASE q = r
  <2>1. \A x \in sent : x.tid # r.tid
    BY <1>2, Zenon DEF Alone
  <2>2. \A i \in DOMAIN lpool : lpool[i].ltid # r.tid
    BY <2>1, Zenon DEF Sound, PoolSound, Belongs
  <2>3. \A i \in DOMAIN lpool' : lpool'[i].ltid = r.tid => i \in Len(lpool) + 1 .. Len(lpool')
    BY <1>0, <2>2, Zenon DEF Grows
  <2>4. answers[r] = <<>>
    BY Zenon DEF Sound, UnsentUnanswered
  <2>5. \A k \in DOMAIN answers'[r] : k = 1 /\ answers'[r][k] = Answer(r.from, r.tid, Mihf, {})
    BY <1>0, <2>4 DEF Answered
  <2>6. \A i \in DOMAIN due : due[i] # r
    BY Zenon DEF Sound, TimersSound
  <2>7. r.tid \notin DOMAIN timer
    BY <2>1, Zenon DEF Sound, TimersSound
  <2>8. Single(r)'
    BY <2>3, Zenon DEF Single, Grows
  <2>9. Done(r)'
    BY <2>5 DEF Done, Answer
  <2>10. Once(r)'
    <3>1. CASE timer' = timer
      BY <2>6, <2>7, <3>1, Zenon DEF Once
    <3>2. CASE answers' = answers
      BY <2>4, <2>6, <3>2 DEF Once, Unanswered
    <3> QED
      BY <3>1, <3>2, Zenon
  <2>11. Fits(r)'
    BY <2>5 DEF Fits, FitsOne, Answer
  <2> QED
    BY <1>2, <2>8, <2>9, <2>10, <2>11, Zenon
<1> QED
  BY <1>1, <1>2, Zenon

\* When an entry of the pool under the identifier of r is taken out, r may be given
\* an answer of the one it waited for.
LEMMA TakeOrderly ==
    ASSUME Sound, Orderly, NEW i \in DOMAIN lpool, lpool' = Without(lpool, i),
           NEW r \in Request, lpool[i].ltid = r.tid, sent' = sent, due' = due,
           timer' = timer \/ \E t : timer' = Disarmed(t),
           NEW a, a.by = lpool[i].destination, Alone(r) => FitsOne(r, a),
           answers' = answers \/ Answered(r, a)
    PROVE  Orderly'
<1> SUFFICES ASSUME NEW q \in Request, Alone(q)
             PROVE  (Single(q) /\ Done(q) /\ Once(q) /\ Fits(q))'
  BY Zenon DEF Orderly, Alone
<1> DEFINE old(j) == IF j < i THEN j ELSE j + 1
<1>1. Single(q) /\ Done(q) /\ Once(q) /\ Fits(q)
  BY Zenon DEF Orderly
<1>2. /\ \A j \in DOMAIN lpool' : old(j) \in DOMAIN lpool /\ old(j) # i /\ lpool'[j] = lpool[old(j)]
      /\ \A j, k \in DOMAIN lpool' : old(j) = old(k) => j = k
  <2>1. lpool \in Seq(Waiting) /\ i \in 1 .. Len(lpool)
    BY DEF Sound, Types
  <2>2. /\ lpool' \in Seq(Waiting) /\ Len(lpool') = Len(lpool) - 1
        /\ \A j \in 1 .. Len(lpool) - 1 : lpool'[j] = lpool[old(j)]
    BY <2>1, RemoveEntry, Zenon
  <2>3. DOMAIN lpool' = 1 .. Len(lpool) - 1 /\ DOMAIN lpool = 1 .. Len(lpool)
    BY <2>1, <2>2
  <2>4. ASSUME NEW n \in Nat, i \in 1 .. n
        PROVE  /\ \A j \in 1 .. n - 1 : old(j) \in 1 .. n /\ old(j) # i
               /\ \A j, k \in 1 .. n - 1 : old(j) = old(k) => j = k
    BY <2>4
  <2>5. Len(lpool) \in Nat
    BY <2>1
  <2> HIDE DEF old
  <2> QED
    BY <2>1, <2>2, <2>3, <2>4, <2>5, Zenon
<1> HIDE DEF old
<1>3. Single(q)'
  BY <1>1, <1>2 DEF Single
<1>4. a.by # Mihf
  BY NotForMihf, Zenon
<1>5. /\ q.tid \in DOMAIN timer' => q.tid \in DOMAIN timer /\ timer'[q.tid] = timer[q.tid]
  BY Zenon DEF Disarmed
<1>6. CASE answers'[q] = answers[q]
  <2>1. Done(q)'
    BY <1>1, <1>2, <1>6 DEF Done
  <2>2. Once(q)'
    BY <1>1, <1>5, <1>6, Zenon DEF Once, Unanswered
  <2>3. Fits(q)'
    BY <1>1, <1>6, Zenon DEF Fits
  <2> QED
    BY <1>3, <2>1, <2>2, <2>3, Zenon
<1>7. CASE answers'[q] # answers[q]
  <2>1. q = r /\ answers'[r] = Append(answers[r], a)
    BY <1>7, Zenon DEF Answered, Sound, Types
  <2>2. answers[r] \in Seq(Response)
    BY Zenon DEF Sound, Types
  <2>3. \A k \in DOMAIN answers'[r] :
            \/ k \in DOMAIN answers[r] /\ answers'[r][k] = answers[r][k]
            \/ k = Len(answers[r]) + 1 /\ answers'[r][k] = a
    BY <2>1, <2>2, SMTT(30)
  <2>4. \A k \in DOMAIN answers[r] : answers[r][k].by # a.by
    BY <1>1, <2>1, Zenon DEF Done
  <2>5. Done(q)'
    BY <1>1, <1>2, <2>1, <2>3, SMTT(90) DEF Done, Single
  <2>6. Once(q)'
    BY <1>1, <1>4, <1>5, <2>1, <2>3, Zenon DEF Once, Unanswered
  <2>7. Fits(q)'
    BY <1>1, <2>1, <2>2, <2>3, <2>4, SMTT(90) DEF Fits
  <2> QED
    BY <1>3, <2>5, <2>6, <2>7, Zenon
<1> QED
  BY <1>6, <1>7, Zenon

\* A timer that expires has its one handler wait.
LEMMA ExpireOrderly ==
    ASSUME Sound, Orderly, NEW t, Expire(t)
    PROVE  Orderly'
<1> SUFFICES ASSUME NEW q \in Request, Alone(q)
             PROVE  (Single(q) /\ Done(q) /\ Once(q) /\ Fits(q))'
  BY Zenon DEF Orderly, Alone, Expire
<1>1. Single(q) /\ Done(q) /\ Once(q) /\ Fits(q)
  BY Zenon DEF Orderly
<1>2. (Single(q) /\ Done(q) /\ Fits(q))'
  BY <1>1 DEF Single, Done, Fits, Expire
<1>3. /\ t \in DOMAIN timer /\ ~timer[t].expired
      /\ DOMAIN timer' = DOMAIN timer
      /\ \A u \in DOMAIN timer : u # t => timer'[u] = timer[u]
      /\ timer'[t].expired = TRUE
      /\ answers' = answers
  BY Zenon DEF Expire, Sound, Types
<1>4. due \in Seq(Request) /\ due' = Append(due, timer[t].req)
  BY Zenon DEF Expire, Sound, Types
<1>5. \A i \in DOMAIN due' : \/ i \in DOMAIN due /\ due'[i] = due[i]
                             \/ i = Len(due) + 1 /\ due'[i] = timer[t].req
  BY <1>4
<1>6. timer[t].req \in sent /\ timer[t].req.tid = t
  BY <1>3, Zenon DEF Sound, TimersSound
<1>7. CASE timer[t].req = q
  <2>1. q.tid = t
    BY <1>6, <1>7, Zenon
  <2>2. Unanswered(q) /\ \A i \in DOMAIN due : due[i] # q
    BY <1>1, <1>3, <2>1, Zenon DEF Once
  <2>3. Unanswered(q)'
    BY <1>3, <2>2, Zenon DEF Unanswered
  <2>4. \A i \in DOMAIN due' : due'[i] = q => i = Len(due) + 1
    BY <1>5, <2>2, Zenon
  <2>5. Once(q)'
    BY <1>3, <2>1, <2>3, <2>4 DEF Once
  <2> QED
    BY <1>2, <2>5, Zenon
<1>8. CASE timer[t].req # q
  <2>1. q.tid # t
    BY <1>6, <1>8, Zenon DEF Alone
  <2>2. \A i \in DOMAIN due' : due'[i] = q => i \in DOMAIN due /\ due[i] = q
    BY <1>5, <1>8, Zenon
  <2>3. Once(q)'
    BY <1>1, <1>3, <2>1, <2>2, Zenon DEF Once, Unanswered
  <2> QED
    BY <1>2, <2>3, Zenon
<1> QED
  BY <1>7, <1>8, Zenon

\* The handler of a timer gives its request the answer of this MIHF.
LEMMA FireOrderly ==
    ASSUME Sound, Orderly, due # <<>>, due' = Tail(due), timer' = Disarmed(Head(due).tid),
           lpool' = lpool, sent' = sent,
           NEW a, a.by = Mihf, Alone(Head(due)) => FitsOne(Head(due), a),
           answers' = answers \/ Answered(Head(due), a)
    PROVE  Orderly'
<1> DEFINE r == Head(due)
<1> SUFFICES ASSUME NEW q \in Request, Alone(q)
             PROVE  (Single(q) /\ Done(q) /\ Once(q) /\ Fits(q))'
  BY Zenon DEF Orderly, Alone
<1>1. Single(q) /\ Done(q) /\ Once(q) /\ Fits(q)
  BY Zenon DEF Orderly
<1>2. /\ due \in Seq(Request) /\ 1 \in DOMAIN due /\ r = due[1] /\ r \in sent /\ r \in Request
      /\ \A i \in DOMAIN due' : i + 1 \in DOMAIN due /\ due'[i] = due[i + 1] /\ i + 1 # 1
  BY SMTT(30) DEF Sound, Types, TimersSound
<1>3. \A u \in DOMAIN timer' : u \in DOMAIN timer /\ timer'[u] = timer[u] /\ u # r.tid
  BY Zenon DEF Disarmed
<1> HIDE DEF r
<1>4. Single(q)'
  BY <1>1, Zenon DEF Single
<1>5. CASE q # r
  <2>1. answers'[q] = answers[q]
    BY <1>2, <1>5, Zenon DEF Answered, Sound, Types, r
  <2>2. Done(q)' /\ Fits(q)'
    BY <1>1, <2>1, Zenon DEF Done, Fits
  <2>3. \A i \in DOMAIN due' : due'[i] = q => i + 1 \in DOMAIN due /\ due[i + 1] = q
    BY <1>2, Zenon
  <2>4. \A i, j \in DOMAIN due' : due'[i] = q /\ due'[j] = q => i = j
    BY <1>1, <1>2, <2>3 DEF Once
  <2>5. Once(q)'
    BY <1>1, <1>3, <2>1, <2>3, <2>4 DEF Once, Unanswered
  <2> QED
    BY <1>4, <2>2, <2>5, Zenon
<1>6. CASE q = r
  <2>1. Unanswered(q)
    BY <1>1, <1>2, <1>6, Zenon DEF Once
  <2>2. \A i \in DOMAIN due' : due'[i] # q
    BY <1>1, <1>2, <1>6, Zenon DEF Once
  <2>3. Once(q)'
    BY <1>3, <1>6, <2>2, Zenon DEF Once
  <2>4. answers[q] \in Seq(Response) /\ (answers'[q] = answers[q] \/ answers'[q] = Append(answers[q], a))
    BY <1>6, Zenon DEF Answered, Sound, Types, r
  <2>5. \A k \in DOMAIN answers'[q] :
            \/ k \in DOMAIN answers[q] /\ answers'[q][k] = answers[q][k]
            \/ k = Len(answers[q]) + 1 /\ answers'[q][k] = a
    <3>1. CASE answers'[q] = answers[q]
      BY <3>1, Zenon
    <3>2. CASE answers'[q] = Append(answers[q], a)
      BY <2>4, <3>2
    <3> QED
      BY <2>4, <3>1, <3>2, Zenon
  <2>6. Done(q)'
    BY <1>1, <2>5, NotForMihf, Zenon DEF Done
  <2>7. FitsOne(q, a)
    BY <1>6, Zenon DEF r
  <2>8. Fits(q)'
    BY <1>1, <2>1, <2>4, <2>5, <2>7, Zenon DEF Fits, Unanswered
  <2> QED
    BY <1>4, <2>3, <2>6, <2>8, Zenon
<1> QED
  BY <1>5, <1>6, Zenon

-----------------------------------------------------------------------------
(***************************************************************************)
(* Requests                                                                *)
(***************************************************************************)

\* The pool new has, beyond old, entries of r for links.
LinksAdded(old, new, r) ==
    /\ new \in Seq(Waiting) /\ Grows(old, new, r)
    /\ \A i \in Len(old) + 1 .. Len(new) : ForLink(new[i], r)

\* forward_request to links adds such entries ...
LEMMA ForwardAdds ==
    ASSUME lpool \in Seq(Waiting), NEW r \in Request, r.to = Mihf,
           NEW user \in Entity, r.kind \in Relayed => user = r.from, NEW links \in SUBSET r.links
    PROVE  LinksAdded(lpool, lpool \o Entries(user, links, r), r)
<1> DEFINE s == Entries(user, links, r)
<1>1. /\ s \in Seq(Waiting)
      /\ \A i \in DOMAIN s : s[i].user = user /\ s[i].destination \in links /\ s[i].ltid = r.tid /\ s[i].rtid = r.tid
      /\ \A i, j \in DOMAIN s : s[i].destination = s[j].destination => i = j
  BY EntriesOf, ZenonT(30)
<1> HIDE DEF s
<1>2. /\ lpool \o s \in Seq(Waiting) /\ Grows(lpool, lpool \o s, r)
      /\ \A i \in Len(lpool) + 1 .. Len(lpool \o s) : \E j \in DOMAIN s : (lpool \o s)[i] = s[j]
  BY <1>1, AddedOf, Zenon
<1>3. \A i \in DOMAIN s : ForLink(s[i], r)
  BY <1>1, Zenon DEF ForLink
<1>4. LinksAdded(lpool, lpool \o s, r)
  BY <1>2, <1>3, Zenon DEF LinksAdded
<1> QED
  BY <1>4, Zenon DEF s

\* ... and message_out, which numbers a message to an unknown destination, keeps them.
LEMMA RemoteTidAdds ==
    ASSUME lpool \in Seq(Waiting), NEW r \in Request, NEW pool, LinksAdded(lpool, pool, r),
           NEW l \in Link, NEW t \in Nat, t > FirstTid
    PROVE  LinksAdded(lpool, SetRemoteTid(pool, l, r.tid, t), r)
<1> DEFINE i == Find(pool, l, r.tid)
           new == SetRemoteTid(pool, l, r.tid, t)
<1>1. CASE i = 0
  BY <1>1, Zenon DEF SetRemoteTid
<1>2. CASE i # 0
  <2>1. pool \in Seq(Waiting)
    BY Zenon DEF LinksAdded
  <2>2. i \in 1 .. Len(pool) /\ pool[i] \in Waiting /\ pool[i].destination = l
    BY <1>2, <2>1, FindEntry
  <2>3. new = [pool EXCEPT ![i] = [pool[i] EXCEPT !.rtid = t]]
    BY <1>2, Zenon DEF SetRemoteTid
  <2> HIDE DEF i, new
  <2> DEFINE e == [pool[i] EXCEPT !.rtid = t]
  <2>4. /\ e \in Waiting /\ e.user = pool[i].user /\ e.destination = l /\ e.ltid = pool[i].ltid
        /\ e.rtid = t
    BY <2>2, Zenon DEF Waiting
  <2>5. new = [pool EXCEPT ![i] = e]
    BY <2>3, Zenon
  <2> HIDE DEF e
  <2>6. new \in Seq(Waiting) /\ Len(new) = Len(pool)
    BY <2>1, <2>2, <2>4, <2>5
  <2>7. \A j \in 1 .. Len(pool) :
            /\ new[j].user = pool[j].user /\ new[j].destination = pool[j].destination
            /\ new[j].ltid = pool[j].ltid
            /\ new[j].rtid = pool[j].rtid \/ (pool[j].destination \in Link /\ new[j].rtid > FirstTid)
    <3> SUFFICES ASSUME NEW j \in 1 .. Len(pool)
                 PROVE  /\ new[j].user = pool[j].user /\ new[j].destination = pool[j].destination
                        /\ new[j].ltid = pool[j].ltid
                        /\ \/ new[j].rtid = pool[j].rtid
                           \/ pool[j].destination \in Link /\ new[j].rtid > FirstTid
      BY Zenon
    <3>1. CASE j = i
      BY <2>1, <2>2, <2>4, <2>5, <3>1
    <3>2. CASE j # i
      BY <2>1, <2>5, <3>2
    <3> QED
      BY <3>1, <3>2, Zenon
  <2>8. Grows(lpool, new, r)
    BY <2>1, <2>6, <2>7, SMTT(30) DEF LinksAdded, Grows
  <2>9. \A j \in Len(lpool) + 1 .. Len(new) : ForLink(new[j], r)
    BY <2>1, <2>6, <2>7, SMTT(90) DEF LinksAdded, ForLink
  <2>10. LinksAdded(lpool, new, r)
    BY <2>6, <2>8, <2>9, Zenon DEF LinksAdded
  <2> QED
    BY <2>10, Zenon DEF new
<1> QED
  BY <1>1, <1>2, Zenon

\* What a request does, whatever it is.
Requested(r) ==
    /\ r \notin sent /\ sent' = sent \cup {r}
    /\ lpool' \in Seq(Waiting) /\ Grows(lpool, lpool', r)
    /\ \A i \in Len(lpool) + 1 .. Len(lpool') : Belongs(lpool'[i], r, atPeer')
    /\ atPeer \subseteq atPeer' /\ tid' \in Nat
    /\ lrpool' = lrpool /\ due' = due /\ alive' = alive
    /\ \/ answers' = answers /\ (timer' = timer \/ timer' = Armed(r))
       \/ timer' = timer /\ Answered(r, Answer(r.from, r.tid, Mihf, {}))

\* It keeps the invariant.
LEMMA RequestInv ==
    ASSUME AnswersInv, NEW r \in Request, Requested(r), AskedSound'
    PROVE  AnswersInv'
<1>0. Sound' => (\A i \in DOMAIN lpool : lpool[i].destination # Mihf)'
  BY NotForMihf, PTL
<1> USE DEF AnswersInv, Sound, Requested
<1>1. Types'
  <2>1. r.from \in Entity /\ r.tid \in Nat /\ Mihf \in Entity
    BY RequestAssumption, BookAssumption, SMTT(90) DEF Entity
  <2>2. Answer(r.from, r.tid, Mihf, {}) \in Response
    BY <2>1, Zenon DEF Answer, Response
  <2>3. answers' \in [Request -> Seq(Response)]
    <3>1. answers \in [Request -> Seq(Response)] /\ (answers' = answers \/ Answered(r, Answer(r.from, r.tid, Mihf, {})))
      BY Zenon DEF Types
    <3> QED
      BY <2>2, <3>1, AnsweredTyped, Zenon
  <2>4. timer' \in [DOMAIN timer' -> [req : Request, expired : BOOLEAN]]
    <3>1. /\ timer \in [DOMAIN timer -> [req : Request, expired : BOOLEAN]]
          /\ timer' = timer \/ timer' = Armed(r)
      BY Zenon DEF Types
    <3>2. [req |-> r, expired |-> FALSE] \in [req : Request, expired : BOOLEAN]
      BY Zenon
    <3>3. Armed(r) \in [DOMAIN Armed(r) -> [req : Request, expired : BOOLEAN]]
      BY <3>1, <3>2, ArmedTyped, Zenon
    <3> QED
      BY <3>1, <3>3, Zenon
  <2> QED
    BY <2>3, <2>4, Zenon DEF Types
<1>2. PoolSound'
  <2> SUFFICES ASSUME NEW i \in DOMAIN lpool'
               PROVE  \E q \in sent' : Belongs(lpool'[i], q, atPeer')
    BY Zenon DEF PoolSound
  <2>1. CASE i \in 1 .. Len(lpool)
    <3>0. i \in DOMAIN lpool
      BY <2>1 DEF Types
    <3>1. PICK q \in sent : Belongs(lpool[i], q, atPeer)
      BY <3>0, Zenon DEF PoolSound
    <3>2. /\ lpool'[i].ltid = lpool[i].ltid /\ lpool'[i].destination = lpool[i].destination
          /\ lpool'[i].user = lpool[i].user
          /\ \/ lpool'[i].rtid = lpool[i].rtid
             \/ lpool[i].destination \in Link /\ lpool'[i].rtid > FirstTid
      BY <2>1, Zenon DEF Grows
    <3>3. CASE ForLink(lpool[i], q)
      BY <3>1, <3>2, <3>3, Zenon DEF Belongs, ForLink
    <3>4. CASE ForPeer(lpool[i], q, atPeer)
      <4>1. lpool[i].destination \notin Link
        BY <3>4, EntityAssumption, Zenon DEF ForPeer, AskedSound
      <4> QED
        BY <3>1, <3>2, <3>4, <4>1, Zenon DEF Belongs, ForPeer
    <3>5. CASE ForUser(lpool[i], q)
      <4>1. lpool[i].destination \notin Link
        BY <3>5, EntityAssumption, SMTT(90) DEF ForUser
      <4> QED
        BY <3>1, <3>2, <3>5, <4>1 DEF Belongs, ForUser
    <3> QED
      BY <3>1, <3>3, <3>4, <3>5, Zenon DEF Belongs
  <2>2. CASE i \notin 1 .. Len(lpool)
    <3>1. i \in Len(lpool) + 1 .. Len(lpool')
      BY <2>2 DEF Types
    <3> QED
      BY <3>1, Zenon
  <2> QED
    BY <2>1, <2>2, Zenon
<1>3. TimersSound' /\ StoreSound' /\ UnsentUnanswered'
  BY DEF TimersSound, StoreSound, UnsentUnanswered, Armed, Answered, Types
<1>4. Sound'
  BY <1>1, <1>2, <1>3, Zenon
<1>5. \A i \in DOMAIN lpool' : lpool'[i].destination # Mihf
  BY <1>0, <1>4, Zenon
<1>6. Orderly'
  BY <1>1, <1>5, RequestOrderly, Zenon
<1>7. DiesOnClashOnly'
  BY DEF DiesOnClashOnly, Clash
<1> QED
  BY <1>4, <1>6, <1>7, Zenon

\* The requests to links.
LEMMA LinkRequestInv ==
    ASSUME AnswersInv, NEW r \in Request, AskLinks(r) \/ Configure(r) \/ Conf(r)
    PROVE  AnswersInv'
<1> USE DEF AnswersInv, Sound
<1>1. /\ r \notin sent /\ sent' = sent \cup {r} /\ r.to = Mihf /\ r.kind \in Aggregated \cup Relayed
      /\ atLink' = atLink \cup {ToLink(l, r) : l \in Live(r.links)}
      /\ UNCHANGED <<lrpool, due, atPeer, atUser, alive>>
      /\ tid' \in Nat /\ tid' >= tid
  BY SMTT(30) DEF AskLinks, Configure, Conf, Accept, MessageOut, Types, Relayed
<1>2. Live(r.links) \subseteq Known(r.links) /\ Known(r.links) \subseteq r.links
  BY Zenon DEF Live, Known
<1>3. r.from \in Entity /\ Mihf \in Entity /\ r.links \subseteq Link
  BY RequestAssumption, Zenon DEF Entity
<1>4. LinksAdded(lpool, lpool', r)
  <2>1. CASE AskLinks(r)
    <3>1. r.kind \notin Relayed /\ lpool' = lpool \o Entries(Mihf, Live(r.links), r)
      BY <2>1, Zenon DEF AskLinks, Aggregated, Relayed
    <3> QED
      BY <1>1, <1>2, <1>3, <3>1, ForwardAdds, Zenon DEF Types
  <2>2. CASE Configure(r)
    <3>1. lpool' = lpool \o Entries(r.from, Live(r.links), r)
      BY <2>2, Zenon DEF Configure
    <3> QED
      BY <1>1, <1>2, <1>3, <3>1, ForwardAdds, Zenon DEF Types
  <2>3. CASE Conf(r)
    <3> DEFINE pool == lpool \o Entries(r.from, Known(r.links), r)
    <3>1. LinksAdded(lpool, pool, r)
      BY <1>1, <1>2, <1>3, ForwardAdds, Zenon DEF Types
    <3>2. lpool' = pool \/ \E l \in Link : lpool' = SetRemoteTid(pool, l, r.tid, tid + 1)
      <4>1. lpool' = pool \/ \E l \in Known(r.links) \ Live(r.links) : MessageOut(pool, l, r)
        BY <2>3, Zenon DEF Conf
      <4> QED
        BY <1>2, <1>3, <4>1, Zenon DEF MessageOut
    <3> HIDE DEF pool
    <3>3. tid + 1 \in Nat /\ tid + 1 > FirstTid
      BY BookAssumption DEF Types, AskedSound
    <3> QED
      BY <3>1, <3>2, <3>3, RemoteTidAdds, Zenon DEF Types
  <2> QED
    BY <2>1, <2>2, <2>3, Zenon
<1>5. \A i \in Len(lpool) + 1 .. Len(lpool') : Belongs(lpool'[i], r, atPeer')
  BY <1>4, Zenon DEF LinksAdded, Grows, Belongs
<1>6. \/ answers' = answers /\ (timer' = timer \/ timer' = Armed(r))
      \/ timer' = timer /\ Answered(r, Answer(r.from, r.tid, Mihf, {}))
  BY Zenon DEF AskLinks, Configure, Conf
<1>7. AskedSound'
  <2>1. \A c \in atLink' : c \in atLink \/ \E l \in r.links : c = ToLink(l, r)
    BY <1>1, <1>2, Zenon
  <2>2. \A c \in atLink' : /\ c.req \in sent' /\ c.tid = c.req.tid /\ c.kind = c.req.kind
                           /\ c.link \in c.req.links /\ c.kind \in Aggregated \cup Relayed
    BY <1>1, <2>1, SMTT(90) DEF AskedSound, ToLink
  <2> QED
    BY <1>1, <2>2, BookAssumption DEF AskedSound, Types
<1>8. Requested(r)
  BY <1>1, <1>4, <1>5, <1>6, Zenon DEF Requested, LinksAdded
<1> QED
  BY <1>7, <1>8, RequestInv, Zenon

\* A request to a peer: the new entry is the one that message_out numbers, since the
\* earlier ones for the peer have numbers of message_out already.
LEMMA ForwardInv ==
    ASSUME AnswersInv, NEW r \in Request, Forward(r)
    PROVE  AnswersInv'
<1> USE DEF AnswersInv, Sound
<1> DEFINE n == Len(lpool) + 1
           e == Entry(r.from, r.to, r.tid)
           pool == Append(lpool, e)
           x == [e EXCEPT !.rtid = tid + 1]
           c == [peer |-> r.to, tid |-> tid + 1, req |-> r]
<1>1. /\ r \notin sent /\ sent' = sent \cup {r} /\ r.to \in Peer /\ tid' = tid + 1
      /\ lpool' = SetRemoteTid(pool, r.to, r.tid, tid + 1)
      /\ atPeer' = atPeer \cup {c}
      /\ UNCHANGED <<lrpool, timer, due, atLink, atUser, answers, alive>>
  BY Zenon DEF Forward, Accept, MessageOut
<1>2. /\ lpool \in Seq(Waiting) /\ tid \in Nat /\ tid >= FirstTid /\ FirstTid \in Nat
      /\ r.tid \in 0 .. FirstTid /\ r.from \in Entity /\ r.to \in Entity
  BY <1>1, RequestAssumption, BookAssumption, Zenon DEF Types, AskedSound, Entity
<1>3. /\ e \in Waiting /\ e.user = r.from /\ e.destination = r.to /\ e.ltid = r.tid /\ e.rtid = r.tid
  BY <1>2, SMTT(30) DEF Entry, Waiting
<1> HIDE DEF e
<1>9. /\ x \in Waiting /\ x.ltid = r.tid /\ x.rtid = tid + 1 /\ x.user = r.from /\ x.destination = r.to
  BY <1>2, <1>3 DEF Waiting
<1>4. pool \in Seq(Waiting) /\ Len(pool) = n /\ pool[n] = e /\ \A i \in 1 .. Len(lpool) : pool[i] = lpool[i]
  BY <1>2, <1>3, AddEntry
<1>5. \A i \in 1 .. Len(lpool) : ~(lpool[i].destination = r.to /\ lpool[i].rtid = r.tid)
  <2> SUFFICES ASSUME NEW i \in 1 .. Len(lpool), lpool[i].destination = r.to, lpool[i].rtid = r.tid
               PROVE  FALSE
    BY Zenon
  <2>1. PICK q \in sent : Belongs(lpool[i], q, atPeer)
    BY <1>2 DEF PoolSound
  <2>2. ~ForLink(lpool[i], q) /\ ~ForUser(lpool[i], q)
    BY <1>1, EntityAssumption, RequestAssumption DEF ForLink, ForUser, Types
  <2>3. ForPeer(lpool[i], q, atPeer)
    BY <2>1, <2>2, Zenon DEF Belongs
  <2> QED
    BY <1>2, <2>3 DEF ForPeer, AskedSound
<1> HIDE DEF pool
<1>6. Find(pool, r.to, r.tid) = n
  <2> DEFINE I == {i \in DOMAIN pool : pool[i].destination = r.to /\ pool[i].rtid = r.tid}
  <2>1. I = {n}
    BY <1>2, <1>3, <1>4, <1>5
  <2>2. First(I) \in I
    <3> HIDE DEF I
    <3>1. I \in SUBSET (Nat \ {0}) /\ I # {}
      BY <1>2, <2>1
    <3> QED
      BY <3>1, FirstLeast, Zenon
  <2> QED
    BY <2>1, <2>2, Zenon DEF Find
<1>7. lpool' = [pool EXCEPT ![n] = x]
  <2>1. n # 0
    BY <1>2
  <2>2. lpool' = [pool EXCEPT ![n] = [pool[n] EXCEPT !.rtid = tid + 1]]
    BY <1>1, <1>6, <2>1, Zenon DEF SetRemoteTid
  <2> QED
    BY <1>4, <2>2, Zenon
<1> HIDE DEF x, c
<1>8. /\ lpool' \in Seq(Waiting) /\ Len(lpool') = n /\ lpool'[n] = x
      /\ \A i \in 1 .. Len(lpool) : lpool'[i] = lpool[i]
  BY <1>2, <1>9, <1>4, <1>7
<1>10. Grows(lpool, lpool', r)
  BY <1>2, <1>8, <1>9, SMTT(90) DEF Grows
<1>11. Belongs(x, r, atPeer')
  <2>1. c \in atPeer' /\ c.req = r /\ c.tid = tid + 1 /\ c.peer = r.to
    BY <1>1, Zenon DEF c
  <2> QED
    BY <1>9, <2>1, Zenon DEF Belongs, ForPeer
<1>12. \A i \in Len(lpool) + 1 .. Len(lpool') : Belongs(lpool'[i], r, atPeer')
  BY <1>2, <1>8, <1>11, SMTT(90)
<1>13. AskedSound'
  BY <1>1, <1>2, SMTT(90) DEF AskedSound, c
<1>14. Requested(r)
  <2>1. tid' \in Nat /\ atPeer \subseteq atPeer'
    BY <1>1, <1>2
  <2> QED
    BY <1>1, <2>1, <1>8, <1>10, <1>12, Zenon DEF Requested
<1> QED
  BY <1>13, <1>14, RequestInv, Zenon

\* A handover request to the users.
LEMMA HandoverInv ==
    ASSUME AnswersInv, NEW r \in Request, Handover(r)
    PROVE  AnswersInv'
<1> USE DEF AnswersInv, Sound
<1> DEFINE source(i) == IF i = 1 \/ r.from \in Peer THEN r.from ELSE Mihf
           s == [i \in DOMAIN Mobile |-> Entry(source(i), Mobile[i], r.tid)]
<1>1. /\ r \notin sent /\ sent' = sent \cup {r} /\ lpool' = lpool \o s
      /\ atUser' = atUser \cup {[user |-> Mobile[i], tid |-> r.tid, req |-> r] : i \in DOMAIN Mobile}
      /\ UNCHANGED <<lrpool, timer, due, tid, atLink, atPeer, answers, alive>>
  BY Zenon DEF Handover, Accept
<1>2. lpool \in Seq(Waiting) /\ Mobile \in Seq(User) /\ r.tid \in Nat /\ r.from \in Entity
  BY EntityAssumption, RequestAssumption, BookAssumption DEF Types, Entity
<1>3. \A i \in DOMAIN Mobile : Entry(source(i), Mobile[i], r.tid) \in Waiting
  BY <1>2 DEF Entry, Waiting, Entity
<1>4. s \in Seq(Waiting) /\ DOMAIN s = DOMAIN Mobile
  BY <1>2, <1>3
<1>5. \A i \in DOMAIN s : /\ s[i].ltid = r.tid /\ s[i].rtid = r.tid /\ s[i].user = source(i)
                          /\ s[i].destination = Mobile[i]
  BY <1>4, Zenon DEF Entry
<1> HIDE DEF s
<1>6. \A i, j \in DOMAIN s : s[i].destination = s[j].destination => i = j
  BY <1>4, <1>5, EntityAssumption
<1>7. /\ lpool' \in Seq(Waiting) /\ Grows(lpool, lpool', r)
      /\ \A i \in Len(lpool) + 1 .. Len(lpool') : \E j \in DOMAIN s : lpool'[i] = s[j]
  <2>1. \A i \in DOMAIN s : s[i].ltid = r.tid
    BY <1>5, Zenon
  <2> HIDE DEF source
  <2> QED
    BY <1>1, <1>2, <1>4, <1>6, <2>1, AddedOf, Zenon
<1>8. \A i \in DOMAIN s : Belongs(s[i], r, atPeer')
  BY <1>4, <1>5, Zenon DEF Belongs, ForUser
<1>10. \A i \in Len(lpool) + 1 .. Len(lpool') : Belongs(lpool'[i], r, atPeer')
  BY <1>7, <1>8, Zenon
<1>11. AskedSound'
  BY <1>1, <1>2, SMTT(90) DEF AskedSound
<1>12. Requested(r)
  BY <1>1, <1>7, <1>10, Zenon DEF Requested, Types
<1> QED
  BY <1>11, <1>12, RequestInv, Zenon

-----------------------------------------------------------------------------
(***************************************************************************)
(* Answers                                                                 *)
(***************************************************************************)

\* An entry is taken out for the request r; r may be given the answer a, or the
\* answer of a link is stored.
Taken(i, r, a) ==
    /\ lpool' = Without(lpool, i) /\ lpool[i].ltid = r.tid
    /\ UNCHANGED <<due, tid, atLink, atPeer, atUser, sent, alive>>
    /\ timer' = timer \/ \E t : timer' = Disarmed(t)
    /\ answers' = answers \/ Answered(r, a)

\* It keeps the invariant.
LEMMA TakenInv ==
    ASSUME AnswersInv, NEW i \in DOMAIN lpool, NEW r \in sent, NEW a \in Response, Taken(i, r, a),
           a.by = lpool[i].destination, Alone(r) => FitsOne(r, a),
           lrpool' \in Seq([link : Link, tid : Nat, kind : Aggregated, req : Request]), StoreSound'
    PROVE  AnswersInv'
<1> USE DEF AnswersInv, Sound, Taken
<1>1. r \in Request /\ lpool \in Seq(Waiting) /\ i \in 1 .. Len(lpool)
  BY DEF Types
<1>2. /\ lpool' \in Seq(Waiting) /\ Len(lpool') = Len(lpool) - 1
      /\ \A j \in 1 .. Len(lpool) - 1 : lpool'[j] = lpool[IF j < i THEN j ELSE j + 1]
  BY <1>1, RemoveEntry, Zenon
<1>3. \A j \in DOMAIN lpool' : \E k \in DOMAIN lpool : lpool'[j] = lpool[k]
  <2> SUFFICES ASSUME NEW j \in DOMAIN lpool'
               PROVE  \E k \in DOMAIN lpool : lpool'[j] = lpool[k]
    BY Zenon
  <2> DEFINE k == IF j < i THEN j ELSE j + 1
  <2>1. k \in DOMAIN lpool /\ j \in 1 .. Len(lpool) - 1
    BY <1>1, <1>2
  <2>2. lpool'[j] = lpool[k]
    BY <1>2, <2>1, Zenon
  <2> HIDE DEF k
  <2> QED
    BY <2>1, <2>2, Zenon
<1>4. Types'
  <2>1. timer' \in [DOMAIN timer' -> [req : Request, expired : BOOLEAN]]
    <3>1. timer \in [DOMAIN timer -> [req : Request, expired : BOOLEAN]]
      BY Zenon DEF Types
    <3>2. \A t : Disarmed(t) \in [DOMAIN Disarmed(t) -> [req : Request, expired : BOOLEAN]]
      BY <3>1, DisarmedTyped, Zenon
    <3> QED
      BY <3>1, <3>2
  <2>2. answers' \in [Request -> Seq(Response)]
    BY <1>1, AnsweredTyped, Zenon DEF Types
  <2> QED
    BY <1>2, <2>1, <2>2, Zenon DEF Types
<1>5. PoolSound'
  BY <1>3, Zenon DEF PoolSound
<1>6. AskedSound' /\ TimersSound'
  <2>1. \A t \in DOMAIN timer' : t \in DOMAIN timer /\ timer'[t] = timer[t]
    BY Zenon DEF Disarmed
  <2>2. TimersSound'
    BY <2>1, Zenon DEF TimersSound
  <2> QED
    BY <2>2, Zenon DEF AskedSound
<1>7. UnsentUnanswered'
  BY Zenon DEF UnsentUnanswered, Answered, Types
<1>8. Orderly'
  BY <1>1, TakeOrderly, Zenon
<1>9. DiesOnClashOnly'
  BY Zenon DEF DiesOnClashOnly, Clash
<1> QED
  BY <1>4, <1>5, <1>6, <1>7, <1>8, <1>9, Zenon

\* A message that finds no entry changes nothing here.
LEMMA IgnoredInv ==
    ASSUME AnswersInv, UNCHANGED <<lpool, lrpool, timer, due, tid, atLink, atPeer, atUser, sent, answers, alive>>
    PROVE  AnswersInv'
<1> USE DEF AnswersInv, Sound
<1>1. Types' /\ StoreSound' /\ UnsentUnanswered'
  BY Zenon DEF Types, StoreSound, UnsentUnanswered
<1>2. PoolSound'
  BY Zenon DEF PoolSound
<1>3. AskedSound' /\ TimersSound'
  BY Zenon DEF AskedSound, TimersSound
<1>4. Orderly'
  BY SMTT(90) DEF Orderly, Alone, Single, Done, Once, Unanswered, Fits
<1>5. DiesOnClashOnly'
  BY Zenon DEF DiesOnClashOnly, Clash
<1> QED
  BY <1>1, <1>2, <1>3, <1>4, <1>5, Zenon

\* A link confirms.
LEMMA ConfirmInv ==
    ASSUME AnswersInv, NEW c \in atLink, NEW ok \in BOOLEAN, Confirm(c, ok)
    PROVE  AnswersInv'
<1> DEFINE i == Find(lpool, c.link, c.tid)
           e == lpool[i]
           r == c.req
<1>1. CASE i = 0
  <2>1. UNCHANGED <<lpool, lrpool, timer, due, tid, atLink, atPeer, atUser, sent, answers, alive>>
    BY <1>1, Zenon DEF Confirm, NoEntry, TakeEntry
  <2> QED
    BY <2>1, IgnoredInv, Zenon
<1>2. CASE i # 0
  <2>1. lpool \in Seq(Waiting) /\ sent \subseteq Request
    BY Zenon DEF AnswersInv, Sound, Types
  <2>2. i \in DOMAIN lpool /\ e \in Waiting /\ e.destination = c.link /\ e.rtid = c.tid
    BY <1>2, <2>1, FindEntry, SMTT(30)
  <2>3. e.ltid = r.tid /\ (Alone(r) /\ c.kind \in Relayed => e.user = r.from)
    BY <2>2, MatchLink, Zenon DEF AnswersInv
  <2>4. /\ lpool' = Without(lpool, i)
        /\ UNCHANGED <<due, tid, atLink, atPeer, atUser, sent, alive>>
        /\ (c.kind \in Aggregated /\ Collect(c, e.ltid, ok)) \/ (c.kind \in Relayed /\ Relay(c, e))
    BY <1>2, Zenon DEF Confirm, NoEntry, TakeEntry
  <2>5. r \in sent /\ c.link \in Link /\ c.kind = r.kind /\ r.tid \in Nat
    <3>1. r \in sent /\ c.link \in r.links /\ c.kind = r.kind
      BY Zenon DEF AnswersInv, Sound, AskedSound
    <3>2. r.links \subseteq Link /\ r.tid \in 0 .. FirstTid
      BY <2>1, <3>1, RequestAssumption, Zenon
    <3> QED
      BY <3>1, <3>2, BookAssumption
  <2> HIDE DEF i
  <2> DEFINE a == Answer(IF c.kind \in Relayed THEN e.user ELSE r.from, e.ltid, c.link, {r})
  <2>6. /\ a.by = e.destination /\ a.tid = e.ltid /\ a.parts = {r}
        /\ a.to = IF c.kind \in Relayed THEN e.user ELSE r.from
    BY <2>2, Zenon DEF Answer
  <2>7. a \in Response
    <3>1. e.user \in Entity /\ e.ltid \in Nat /\ r.from \in Entity /\ c.link \in Entity /\ {r} \in SUBSET Request
      BY <2>1, <2>2, <2>5, RequestAssumption, Zenon DEF Waiting, Entity
    <3> HIDE DEF e, r
    <3> QED
      BY <3>1, Zenon DEF Answer, Response
  <2>8. Alone(r) => FitsOne(r, a)
    <3> HIDE DEF a, e, r
    <3> QED
      BY <2>3, <2>6, Zenon DEF FitsOne
  <2>9. CASE c.kind \in Aggregated /\ Collect(c, e.ltid, ok)
    <3> DEFINE x == [link |-> c.link, tid |-> e.ltid, kind |-> c.kind, req |-> c.req]
    <3>1. (lrpool' = lrpool \/ lrpool' = Append(lrpool, x)) /\ UNCHANGED <<timer, answers>>
      BY <2>9, Zenon DEF Collect
    <3>2. /\ x \in [link : Link, tid : Nat, kind : Aggregated, req : Request]
          /\ x.req = r /\ x.tid = r.tid /\ x.kind = r.kind
      BY <2>1, <2>3, <2>5, <2>9, Zenon
    <3>3. lrpool \in Seq([link : Link, tid : Nat, kind : Aggregated, req : Request])
      BY Zenon DEF AnswersInv, Sound, Types
    <3> HIDE DEF x
    <3>4. lrpool' \in Seq([link : Link, tid : Nat, kind : Aggregated, req : Request])
      <4> DEFINE Stores == [link : Link, tid : Nat, kind : Aggregated, req : Request]
      <4>1. lrpool \in Seq(Stores) /\ x \in Stores
        BY <3>2, <3>3, Zenon
      <4> HIDE DEF Stores
      <4>2. lrpool' \in Seq(Stores)
        BY <3>1, <4>1, SMTT(30)
      <4> QED
        BY <4>2, Zenon DEF Stores
    <3>5. \A j \in DOMAIN lrpool' : (j \in DOMAIN lrpool /\ lrpool'[j] = lrpool[j]) \/ lrpool'[j] = x
      BY <3>1, <3>2, <3>3, SMTT(30)
    <3>6. StoreSound'
      BY <2>4, <2>5, <3>2, <3>5, Zenon DEF AnswersInv, Sound, StoreSound
    <3>7. Taken(i, r, a)
      BY <2>3, <2>4, <3>1, Zenon DEF Taken
    <3> QED
      BY <2>2, <2>5, <2>6, <2>7, <2>8, <3>4, <3>6, <3>7, TakenInv, Zenon
  <2>10. CASE c.kind \in Relayed /\ Relay(c, e)
    <3>1. /\ lrpool' = lrpool /\ Answered(r, a)
          /\ timer' = Disarmed(IF c.kind = "configure" THEN c.tid ELSE e.ltid)
      BY <2>10, Zenon DEF Relay
    <3>2. StoreSound' /\ lrpool' \in Seq([link : Link, tid : Nat, kind : Aggregated, req : Request])
      BY <2>4, <3>1, Zenon DEF AnswersInv, Sound, StoreSound, Types
    <3>3. Taken(i, r, a)
      BY <2>3, <2>4, <3>1, Zenon DEF Taken
    <3> QED
      BY <2>2, <2>5, <2>6, <2>7, <2>8, <3>2, <3>3, TakenInv, Zenon
  <2> QED
    BY <2>4, <2>9, <2>10, Zenon
<1> QED
  BY <1>1, <1>2, Zenon

\* What an answer of id under the identifier t may meet in the pool is of r.
Meets(id, t, r) ==
    \A i \in DOMAIN lpool : lpool[i].destination = id /\ lpool[i].rtid = t =>
        /\ lpool[i].ltid = r.tid
        /\ Alone(r) => FitsOne(r, Answer(lpool[i].user, r.tid, id, {r}))

\* A peer or a user answers.
LEMMA RespondInv ==
    ASSUME AnswersInv, NEW id \in Entity, NEW t, NEW r \in sent, Respond(id, t, r), Meets(id, t, r)
    PROVE  AnswersInv'
<1> DEFINE i == Find(lpool, id, t)
           e == lpool[i]
           a == Answer(e.user, e.ltid, id, {r})
<1>1. CASE i = 0
  <2>1. UNCHANGED <<lpool, lrpool, timer, due, tid, atLink, atPeer, atUser, sent, answers, alive>>
    BY <1>1, Zenon DEF Respond, NoEntry, TakeEntry
  <2> QED
    BY <2>1, IgnoredInv, Zenon
<1>2. CASE i # 0
  <2>1. lpool \in Seq(Waiting) /\ r \in Request
    BY Zenon DEF AnswersInv, Sound, Types
  <2>2. i \in DOMAIN lpool /\ e \in Waiting /\ e.destination = id /\ e.rtid = t
    BY <1>2, <2>1, FindEntry
  <2>3. /\ lpool' = Without(lpool, i) /\ Answered(r, a)
        /\ UNCHANGED <<lrpool, timer, due, tid, atLink, atPeer, atUser, sent, alive>>
    BY <1>2, Zenon DEF Respond, NoEntry, TakeEntry
  <2> HIDE DEF i
  <2>4. e.ltid = r.tid /\ (Alone(r) => FitsOne(r, a))
    BY <2>2, Zenon DEF Meets
  <2>5. a \in Response /\ a.by = e.destination
    <3>1. e.user \in Entity /\ e.ltid \in Nat /\ {r} \in SUBSET Request
      BY <2>1, <2>2, Zenon DEF Waiting
    <3> HIDE DEF e
    <3> QED
      BY <2>2, <3>1, Zenon DEF Answer, Response
  <2>6. StoreSound' /\ lrpool' \in Seq([link : Link, tid : Nat, kind : Aggregated, req : Request])
    BY <2>3, Zenon DEF AnswersInv, Sound, StoreSound, Types
  <2> HIDE DEF a
  <2>7. Taken(i, r, a)
    BY <2>3, <2>4, Zenon DEF Taken
  <2> QED
    BY <2>2, <2>4, <2>5, <2>6, <2>7, TakenInv, Zenon
<1> QED
  BY <1>1, <1>2, Zenon

LEMMA ResponseInv ==
    ASSUME AnswersInv, NEW c, PeerResponse(c) \/ UserResponse(c)
    PROVE  AnswersInv'
<1>1. CASE PeerResponse(c)
  <2>1. c \in atPeer /\ Respond(c.peer, c.tid, c.req)
    BY <1>1, Zenon DEF PeerResponse
  <2>2. c.req \in sent /\ c.peer \in Entity
    BY <2>1, Zenon DEF AnswersInv, Sound, AskedSound, Entity
  <2>3. \A i \in DOMAIN lpool : lpool[i].destination = c.peer /\ lpool[i].rtid = c.tid =>
            lpool[i].ltid = c.req.tid /\ lpool[i].user = c.req.from
    BY <2>1, MatchPeer, Zenon DEF AnswersInv
  <2>4. FitsOne(c.req, Answer(c.req.from, c.req.tid, c.peer, {c.req}))
    BY Zenon DEF FitsOne, Answer
  <2>5. Meets(c.peer, c.tid, c.req)
    BY <2>3, <2>4, Zenon DEF Meets
  <2> QED
    BY <2>1, <2>2, <2>5, RespondInv, Zenon
<1>2. CASE UserResponse(c)
  <2>1. c \in atUser /\ Respond(c.user, c.tid, c.req)
    BY <1>2, Zenon DEF UserResponse
  <2>2. c.req \in sent /\ c.req \in Request /\ c.user \in Entity
    BY <2>1, Zenon DEF AnswersInv, Sound, AskedSound, Entity, Types
  <2>3. ASSUME NEW i \in DOMAIN lpool, lpool[i].destination = c.user, lpool[i].rtid = c.tid
        PROVE  /\ lpool[i].ltid = c.req.tid
               /\ Alone(c.req) => FitsOne(c.req, Answer(lpool[i].user, c.req.tid, c.user, {c.req}))
    <3>1. lpool[i].ltid = c.req.tid /\ (Alone(c.req) => ForUser(lpool[i], c.req))
      BY <2>1, <2>3, MatchUser, Zenon DEF AnswersInv
    <3>2. ASSUME ForUser(lpool[i], c.req)
          PROVE  FitsOne(c.req, Answer(lpool[i].user, c.req.tid, c.user, {c.req}))
      <4>1. PICK k \in DOMAIN Mobile :
                /\ c.user = Mobile[k]
                /\ lpool[i].user = IF k = 1 \/ c.req.from \in Peer THEN c.req.from ELSE Mihf
        BY <2>3, <3>2, Zenon DEF ForUser
      <4>2. k # 1 => k \in 2 .. Len(Mobile)
        BY EntityAssumption
      <4>3. c.req.from \in User \cup Peer
        BY <2>2, RequestAssumption, Zenon
      <4> QED
        BY <4>1, <4>2, <4>3, Zenon DEF FitsOne, Answer
    <3> QED
      BY <3>1, <3>2, Zenon
  <2>4. Meets(c.user, c.tid, c.req)
    BY <2>3, Zenon DEF Meets
  <2> QED
    BY <2>1, <2>2, <2>4, RespondInv, Zenon
<1> QED
  BY <1>1, <1>2, Zenon

-----------------------------------------------------------------------------
(***************************************************************************)
(* Timers                                                                  *)
(***************************************************************************)
LEMMA ExpireInv ==
    ASSUME AnswersInv, NEW t, Expire(t)
    PROVE  AnswersInv'
<1> USE DEF AnswersInv, Sound
<1>1. /\ UNCHANGED <<lpool, lrpool, tid, atLink, atPeer, atUser, sent, answers, alive>>
      /\ t \in DOMAIN timer /\ due' = Append(due, timer[t].req)
      /\ timer' = [timer EXCEPT ![t] = [timer[t] EXCEPT !.expired = TRUE]]
  BY Zenon DEF Expire
<1>2. timer[t] \in [req : Request, expired : BOOLEAN] /\ due \in Seq(Request)
  BY <1>1, Zenon DEF Types
<1>3. /\ [timer[t] EXCEPT !.expired = TRUE] \in [req : Request, expired : BOOLEAN]
      /\ [timer[t] EXCEPT !.expired = TRUE].req = timer[t].req
  BY <1>2, Zenon
<1>4. Types'
  <2>1. due' \in Seq(Request)
    BY <1>1, <1>2
  <2>2. timer' \in [DOMAIN timer' -> [req : Request, expired : BOOLEAN]]
    BY <1>1, <1>3, Zenon DEF Types
  <2> QED
    BY <1>1, <2>1, <2>2, Zenon DEF Types
<1>5. PoolSound' /\ StoreSound' /\ UnsentUnanswered' /\ AskedSound'
  BY <1>1, Zenon DEF PoolSound, StoreSound, UnsentUnanswered, AskedSound
<1>6. TimersSound'
  <2>1. timer[t].req \in sent /\ timer[t].req.tid = t
    BY <1>1, Zenon DEF TimersSound
  <2>2. \A u \in DOMAIN timer' : u \in DOMAIN timer /\ timer'[u].req = timer[u].req
    BY <1>1, <1>3, Zenon DEF Types
  <2>3. \A i \in DOMAIN due' : due'[i] \in sent
    BY <1>1, <1>2, <2>1 DEF TimersSound
  <2> QED
    BY <1>1, <2>2, <2>3 DEF TimersSound
<1>7. Orderly'
  BY ExpireOrderly, Zenon
<1>8. DiesOnClashOnly'
  BY <1>1, Zenon DEF DiesOnClashOnly, Clash
<1> QED
  BY <1>4, <1>5, <1>6, <1>7, <1>8, Zenon

\* The stored answers for the identifier t are under this identifier.
LEMMA StoredOf ==
    ASSUME NEW t, lrpool \in Seq([link : Link, tid : Nat, kind : Aggregated, req : Request])
    PROVE  Stored(t) \subseteq {i \in DOMAIN lrpool : lrpool[i].tid = t}
<1> DEFINE I(l) == {i \in DOMAIN lrpool : Matches(lrpool[i], t, l)}
<1> SUFFICES ASSUME NEW l \in Link, First(I(l)) # 0
             PROVE  First(I(l)) \in DOMAIN lrpool /\ lrpool[First(I(l))].tid = t
  BY Zenon DEF Stored
<1>1. I(l) \in SUBSET (Nat \ {0})
  OBVIOUS
<1>2. First(I(l)) \in I(l)
  <2> HIDE DEF I
  <2> QED
    BY <1>1, FirstLeast, Zenon
<1> QED
  BY <1>2, Zenon DEF Matches

\* The handler of a timer.
LEMMA FireInv ==
    ASSUME AnswersInv, alive, Fire
    PROVE  AnswersInv'
<1> DEFINE r == Head(due)
           got == Stored(r.tid)
           parts == IF r.kind \in Aggregated THEN {lrpool[i].req : i \in got} ELSE {}
           a == Answer(r.from, r.tid, Mihf, parts)
           Stores == [link : Link, tid : Nat, kind : Aggregated, req : Request]
<1>1. /\ due # <<>> /\ due' = Tail(due) /\ timer' = Disarmed(r.tid)
      /\ UNCHANGED <<book, lpool, tid, atLink, atPeer, atUser, sent>>
  BY Zenon DEF Fire
<1>2. \/ /\ r.kind \in Aggregated /\ \E i \in got : lrpool[i].kind # r.kind
         /\ alive' = FALSE /\ UNCHANGED <<lrpool, answers>>
      \/ /\ r.kind \in Aggregated /\ alive' = alive /\ Answered(r, a)
         /\ lrpool' = Keep(lrpool, DOMAIN lrpool \ got)
      \/ r.kind \in Relayed /\ alive' = alive /\ Answered(r, a) /\ lrpool' = lrpool
  <2>1. CASE r.kind \in Aggregated /\ Aggregate(r)
    BY <2>1, Zenon DEF Aggregate
  <2>2. CASE r.kind \in Relayed
    <3>1. r.kind \notin Aggregated
      BY <2>2, Zenon DEF Aggregated, Relayed
    <3> QED
      BY <2>2, <3>1, Zenon DEF Fire
  <2> QED
    BY <2>1, <2>2, Zenon DEF Fire
<1>3. due \in Seq(Request) /\ lrpool \in Seq(Stores) /\ answers \in [Request -> Seq(Response)]
  BY Zenon DEF AnswersInv, Sound, Types
<1>4. r \in Request /\ r \in sent /\ \A i \in DOMAIN due' : i + 1 \in DOMAIN due /\ due'[i] = due[i + 1]
  BY <1>1, <1>3 DEF AnswersInv, Sound, TimersSound
<1>5. \A i \in got : i \in DOMAIN lrpool /\ lrpool[i].tid = r.tid
  BY <1>3, StoredOf, Zenon
<1>6. \A i \in got : /\ lrpool[i].req \in sent /\ lrpool[i].req \in Request
                     /\ lrpool[i].req.tid = r.tid /\ lrpool[i].kind = lrpool[i].req.kind
  <2>1. \A i \in DOMAIN lrpool : lrpool[i].req \in sent /\ lrpool[i].tid = lrpool[i].req.tid
                                 /\ lrpool[i].kind = lrpool[i].req.kind
    BY Zenon DEF AnswersInv, Sound, StoreSound
  <2>2. sent \subseteq Request
    BY Zenon DEF AnswersInv, Sound, Types
  <2> HIDE DEF got, r
  <2> QED
    BY <1>5, <2>1, <2>2, Zenon
<1>7. parts \in SUBSET Request /\ (Alone(r) => parts \subseteq {r})
  BY <1>6, Zenon DEF Alone
<1>8. r.from \in Entity /\ r.tid \in Nat /\ Mihf \in Entity
  BY <1>4, RequestAssumption, BookAssumption DEF Entity
<1> HIDE DEF r, parts, got
<1>9. a \in Response /\ a.by = Mihf /\ a.to = r.from /\ a.tid = r.tid /\ a.parts = parts
  BY <1>7, <1>8, Zenon DEF Answer, Response
<1>10. Alone(r) => FitsOne(r, a)
  BY <1>7, <1>9, Zenon DEF FitsOne
<1> HIDE DEF a
<1>11. /\ lrpool' \in Seq(Stores)
       /\ \A j \in DOMAIN lrpool' : \E i \in DOMAIN lrpool : lrpool'[j] = lrpool[i]
  <2>1. CASE lrpool' = lrpool
    BY <1>3, <2>1, Zenon
  <2>2. CASE lrpool' = Keep(lrpool, DOMAIN lrpool \ got)
    <3> DEFINE P == DOMAIN lrpool \ got
    <3>1. P \in SUBSET DOMAIN lrpool /\ lrpool' = Keep(lrpool, P)
      BY <2>2, Zenon
    <3> HIDE DEF Stores, P
    <3>2. /\ Keep(lrpool, P) \in Seq(Stores)
          /\ \A j \in DOMAIN Keep(lrpool, P) : \E i \in P : Keep(lrpool, P)[j] = lrpool[i]
      BY <1>3, <3>1, KeepOf
    <3> QED
      BY <3>1, <3>2, Zenon
  <2> QED
    BY <1>2, <2>1, <2>2, Zenon
<1>12. answers' = answers \/ Answered(r, a)
  BY <1>2, Zenon
<1>13. Types'
  <2>1. due' \in Seq(Request)
    BY <1>1, <1>3
  <2>2. timer' \in [DOMAIN timer' -> [req : Request, expired : BOOLEAN]]
    BY <1>1, Zenon DEF AnswersInv, Sound, Types, Disarmed
  <2>3. answers' \in [Request -> Seq(Response)]
    BY <1>3, <1>4, <1>9, <1>12, AnsweredTyped, Zenon
  <2>4. alive' \in BOOLEAN
    BY <1>2, Zenon
  <2> QED
    BY <1>1, <1>11, <2>1, <2>2, <2>3, <2>4, Zenon DEF AnswersInv, Sound, Types
<1>14. PoolSound' /\ AskedSound'
  BY <1>1, Zenon DEF AnswersInv, Sound, PoolSound, AskedSound
<1>15. TimersSound'
  BY <1>1, <1>4, Zenon DEF AnswersInv, Sound, TimersSound, Disarmed
<1>16. StoreSound'
  BY <1>1, <1>11 DEF AnswersInv, Sound, StoreSound
<1>17. UnsentUnanswered'
  BY <1>1, <1>3, <1>4, <1>12, Zenon DEF AnswersInv, Sound, UnsentUnanswered, Answered
<1>18. Orderly'
  BY <1>1, <1>9, <1>10, <1>12, FireOrderly, Zenon DEF AnswersInv, r
<1>19. DiesOnClashOnly'
  <2>1. CASE alive'
    BY <2>1, Zenon DEF DiesOnClashOnly
  <2>2. CASE ~alive'
    <3>1. PICK i \in got : lrpool[i].kind # r.kind
      BY <1>2, <2>2, Zenon
    <3>2. \E q, x \in Request : q # x /\ q.tid = x.tid /\ {q, x} \subseteq sent' /\ q.kind # x.kind
      BY <1>1, <1>4, <1>6, <3>1
    <3> QED
      BY <3>2, Zenon DEF DiesOnClashOnly, Clash
  <2> QED
    BY <2>1, <2>2, Zenon
<1> QED
  BY <1>13, <1>14, <1>15, <1>16, <1>17, <1>18, <1>19, Zenon DEF AnswersInv, Sound

-----------------------------------------------------------------------------
LEMMA AnswersInit == Init => AnswersInv
<1> SUFFICES ASSUME Init PROVE AnswersInv
  BY Zenon
<1>1. Types
  BY BookAssumption, SMTT(30) DEF Init, Types
<1>2. PoolSound /\ AskedSound /\ TimersSound /\ StoreSound /\ UnsentUnanswered
  BY BookAssumption, SMTT(90) DEF Init, PoolSound, AskedSound, TimersSound, StoreSound, UnsentUnanswered
<1>3. Orderly /\ DiesOnClashOnly
  BY Zenon DEF Init, Orderly, Alone, DiesOnClashOnly
<1> QED
  BY <1>1, <1>2, <1>3, Zenon DEF AnswersInv, Sound

LEMMA AnswersStep == AnswersInv /\ [Next]_vars => AnswersInv'
<1> SUFFICES ASSUME AnswersInv, [Next]_vars PROVE AnswersInv'
  BY Zenon
<1>1. CASE UNCHANGED vars
  BY <1>1, IgnoredInv, Zenon DEF vars
<1>2. ASSUME NEW r \in Request, AskLinks(r) \/ Configure(r) \/ Conf(r) PROVE AnswersInv'
  BY <1>2, LinkRequestInv, Zenon
<1>3. ASSUME NEW r \in Request, Forward(r) PROVE AnswersInv'
  BY <1>3, ForwardInv, Zenon
<1>4. ASSUME NEW r \in Request, Handover(r) PROVE AnswersInv'
  BY <1>4, HandoverInv, Zenon
<1>5. ASSUME NEW c \in atLink, NEW ok \in BOOLEAN, Confirm(c, ok) PROVE AnswersInv'
  BY <1>5, ConfirmInv, Zenon
<1>6. ASSUME NEW c, PeerResponse(c) \/ UserResponse(c) PROVE AnswersInv'
  BY <1>6, ResponseInv, Zenon
<1>7. ASSUME NEW t, Expire(t) PROVE AnswersInv'
  BY <1>7, ExpireInv, Zenon
<1>8. CASE alive /\ Fire
  BY <1>8, FireInv, Zenon
<1> QED
  BY <1>1, <1>2, <1>3, <1>4, <1>5, <1>6, <1>7, <1>8, Zenon DEF Next

\* For all users, peers, links and requests: a request whose identifier no other one
\* has is answered to its sender, under its identifier, with answers to this request
\* only, and at most once by each link, peer or user and by the timer.
THEOREM AnswersReachSender == Spec => []AnswersFit
<1>1. AnswersInv => AnswersFit
  <2> SUFFICES ASSUME AnswersInv, NEW r \in Request, ~\E q \in Request : Clash(q, r)
               PROVE  \A i, j \in DOMAIN answers[r] :
                          LET a == answers[r][i]
                          IN  /\ a.tid = r.tid /\ a.parts \subseteq {r}
                              /\ \/ a.to = r.from
                                 \/ a.to = Mihf /\ r.from \in User /\ \E k \in 2 .. Len(Mobile) : a.by = Mobile[k]
                              /\ i # j => a.by # answers[r][j].by
    BY Zenon DEF AnswersFit
  <2>1. CASE r \in sent
    <3>1. Alone(r)
      BY <2>1, Zenon DEF Alone, Clash, AnswersInv, Sound, Types
    <3> QED
      BY <3>1, SMTT(90) DEF AnswersInv, Orderly, Fits, FitsOne
  <2>2. CASE r \notin sent
    BY <2>2, SMTT(30) DEF AnswersInv, Sound, UnsentUnanswered
  <2> QED
    BY <2>1, <2>2, Zenon
<1> QED
  BY <1>1, AnswersInit, AnswersStep, PTL DEF Spec

\* The process ends only after two requests of different kinds had one identifier.
THEOREM DiesAfterClash == Spec => []DiesOnClashOnly
<1>1. AnswersInv => DiesOnClashOnly
  BY Zenon DEF AnswersInv
<1> QED
  BY <1>1, AnswersInit, AnswersStep, PTL DEF Spec
=============================================================================
