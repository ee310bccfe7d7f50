------------------------- MODULE EventsNamingProofs --------------------------
(***************************************************************************)
(* Every message, pool entry, timer and answer of Events belongs to the    *)
(* request of a user, by the identifier under which the request travels.   *)
(* The invariant is Named(w), where w gives the identifiers; here are its   *)
(* parts, and the handlers of requests.  EventsAnswersProofs has the others *)
(* and the theorems.                                                       *)
(***************************************************************************)
EXTENDS Events, Functions, TLAPS

\* What the properties say where no two requests share an identifier.
AllWanted  == \A g \in got : ToldOf(g)
AllRelayed == \A m \in net : Relayed(m)
AllFit     == \A r \in Request : Fits(r)

\* What the lemmas use of finite sets; EventsAnswersProofs proves it.
CountsRequests ==
    /\ Cardinality({}) = 0 /\ Cardinality(Request) \in Nat
    /\ \A S \in SUBSET Request : \A r \in Request \ S :
           /\ Cardinality(S) \in Nat /\ Cardinality(S \cup {r}) = Cardinality(S) + 1
           /\ Cardinality(S \cup {r}) <= Cardinality(Request)

-----------------------------------------------------------------------------
(***************************************************************************)
(* What belongs to which request                                           *)
(***************************************************************************)

\* Who asks the MIHF r.to: the user, or its MIHF.
Asker(r) == IF r.to = home[r.from] THEN r.from ELSE home[r.from]

\* The request r as the MIHF r.to sees it, under the identifier t.
Seen(r, t) ==
    [kind |-> r.kind, from |-> Asker(r), tid |-> t, link |-> r.link, events |-> r.events, req |-> r]

\* The entries for r in the pools of the MIHF of the link and of the user's MIHF.
LinkEntry(r, t) == Entry(IF r.kind = "subscribe" THEN Asker(r) ELSE r.to, r.link, t)
PeerEntry(r, t) == [user |-> r.from, destination |-> r.to, ltid |-> r.tid, rtid |-> t]

Told(r, by) == \E i \in DOMAIN answers[r] : answers[r][i].by = by

Granted(r, e) == \E i \in DOMAIN answers[r] : answers[r][i].ok /\ e \in answers[r][i].events

\* w[r] is the identifier under which r travels, from the start to the link.
Identified(w) ==
    /\ w \in [Request -> Nat] /\ sent \subseteq Request
    /\ \A r \in sent : IF r.to = home[r.from] THEN w[r] = r.tid
                       ELSE w[r] \in Issued(home[r.from]) /\ w[r] <= tid[home[r.from]]
    /\ \A r, q \in sent : w[r] = w[q] => r = q
    /\ \A n \in Node : tid[n] \in Nat /\ FirstTid[n] <= tid[n] /\ tid[n] <= FirstTid[n] + Cardinality(sent)

\* The message m of a link, or of a peer, is about the request m.req.
About(m, w) == m.req \in sent /\ m.kind = m.req.kind /\ m.tid = w[m.req] /\ m.link = m.req.link

LinksAbout(w) ==
    \A m \in toLink \cup fromLink :
        \/ m.kind = "capability"
        \/ About(m, w) /\ m.events \subseteq m.req.events /\ home[m.link] = m.req.to

PeersAbout(w) ==
    \A m \in net :
        /\ m.type = "request" =>
               /\ About(m, w) /\ m.events = m.req.events
               /\ m.dst = m.req.to /\ m.src = home[m.req.from] /\ m.src # m.dst
        /\ m.type = "response" =>
               /\ About(m, w) /\ m.events \subseteq m.req.events
               /\ m.src = m.req.to /\ m.dst = home[m.req.from] /\ m.src # m.dst
               /\ m.ok \in BOOLEAN
        /\ m.type = "indication" =>
               m.src = home[m.link] /\ m.dst \in Node /\ \E e \in Event : m.events = {e}

\* No member of S is twice in the list s.
Unrepeated(s, S) == \A i, j \in DOMAIN s : s[i] = s[j] /\ s[i] \in S => i = j

UserEntries == {e \in Waiting : e.user \in User}

\* The entry e in the pool of n is for the request r.
EntryOf(e, n, r, w) ==
    \/ e = LinkEntry(r, w[r]) /\ n = r.to
    \/ e = PeerEntry(r, w[r]) /\ n = home[r.from] /\ r.to # n

PoolsAbout(w) ==
    \A n \in Node :
        /\ \A e \in Range(lpool[n]) :
               (e.rtid = 0 /\ e.user = n) \/ \E r \in sent : EntryOf(e, n, r, w)
        /\ Unrepeated(lpool[n], UserEntries)

Pending(n, w) == {Seen(r, w[r]) : r \in {q \in sent : q.to = n}}

UserSeen(w) == {Seen(r, w[r]) : r \in {q \in Request : q.to = home[q.from]}}

TimersAbout(w) ==
    /\ DOMAIN timer = Node /\ DOMAIN due = Node
    /\ \A n \in Node :
        /\ \A t \in DOMAIN timer[n] :
               /\ timer[n][t] \in [in : Pending(n, w), expired : BOOLEAN]
               /\ timer[n][t].in.tid = t
        /\ due[n] \in Seq(Pending(n, w)) /\ Unrepeated(due[n], UserSeen(w))

Idle(n, t) == t \in DOMAIN timer[n] => timer[n][t].expired

\* What was answered is not waited for.
OnceFor(r, w) ==
    /\ r.to = home[r.from] =>
         /\ Told(r, "link") => LinkEntry(r, w[r]) \notin Range(lpool[r.to])
         /\ Told(r, "timer") => Seen(r, w[r]) \notin Range(due[r.to]) /\ Idle(r.to, w[r])
         /\ Seen(r, w[r]) \in Range(due[r.to]) => Idle(r.to, w[r])
    /\ r.to # home[r.from] /\ Told(r, "peer") =>
         PeerEntry(r, w[r]) \notin Range(lpool[home[r.from]])

Once(w) == \A r \in sent : OnceFor(r, w)

\* Who answers a user.
By == {"mihf", "link", "timer", "peer"}

AnswerSet == [to : User, tid : Nat, ok : BOOLEAN, events : SUBSET Event, by : By]

Answered ==
    /\ answers \in [Request -> Seq(AnswerSet)]
    /\ \A r \in Request \ sent : answers[r] = <<>>

\* The subscriber s of the table of n has asked for it, and a user was told so.
Asked(n, s, r) ==
    /\ r.kind = "subscribe" /\ r.link = s.link
    /\ s.user \in User => r.from = s.user /\ Granted(r, s.event)
    /\ s.user \in Node => /\ home[r.from] = s.user /\ r.to = n /\ home[r.link] = n
                          /\ s.event \in r.events

TablesAsked == \A n \in Node : \A s \in subs[n] : \E r \in sent : Asked(n, s, r)

\* The inductive invariant is that there is such a w.
Named(w) ==
    /\ Identified(w) /\ LinksAbout(w) /\ PeersAbout(w) /\ PoolsAbout(w) /\ TimersAbout(w)
    /\ Once(w) /\ Answered /\ TablesAsked
    /\ AllFit /\ AllWanted /\ AllRelayed

-----------------------------------------------------------------------------
LEMMA SeqOfMore == ASSUME NEW S, NEW T, S \subseteq T, NEW s \in Seq(S) PROVE s \in Seq(T)
OBVIOUS

LEMMA Appended ==
    ASSUME NEW S, NEW s \in Seq(S), NEW x \in S
    PROVE  LET v == Append(s, x)
           IN  /\ v \in Seq(S) /\ Len(v) = Len(s) + 1 /\ DOMAIN v = 1 .. Len(s) + 1
               /\ v[Len(s) + 1] = x /\ \A i \in 1 .. Len(s) : v[i] = s[i]
OBVIOUS

\* What a pool holds after an entry was added, or taken.
LEMMA PoolGrows ==
    ASSUME NEW S, NEW s \in Seq(S), NEW x \in S, NEW U
    PROVE  /\ Append(s, x) \in Seq(S) /\ Range(Append(s, x)) = Range(s) \cup {x}
           /\ Unrepeated(s, U) /\ (x \in U => x \notin Range(s)) => Unrepeated(Append(s, x), U)
<1> DEFINE v == Append(s, x)
<1>1. Append(s, x) \in Seq(S) /\ Range(Append(s, x)) = Range(s) \cup {x}
  <2>1. /\ v \in Seq(S) /\ Len(v) = Len(s) + 1 /\ v[Len(s) + 1] = x
        /\ \A i \in 1 .. Len(s) : v[i] = s[i]
    OBVIOUS
  <2> HIDE DEF v
  <2>2. \A i \in DOMAIN v : i \in DOMAIN s \/ i = Len(s) + 1
    BY <2>1
  <2>3. DOMAIN s = 1 .. Len(s) /\ DOMAIN s \subseteq DOMAIN v /\ Len(s) + 1 \in DOMAIN v
    BY <2>1
  <2>4. Range(v) \subseteq Range(s) \cup {x}
    BY <2>1, <2>2, <2>3, Zenon DEF Range
  <2>5. Range(s) \cup {x} \subseteq Range(v)
    BY <2>1, <2>3, Zenon DEF Range
  <2> QED
    BY <2>1, <2>4, <2>5, Zenon DEF v
<1>2. Unrepeated(s, U) /\ (x \in U => x \notin Range(s)) => Unrepeated(Append(s, x), U)
  BY DEF Unrepeated, Range
<1> QED
  BY <1>1, <1>2, Zenon

LEMMA PoolShrinks ==
    ASSUME NEW S, NEW s \in Seq(S), NEW i \in 1 .. Len(s), NEW U, Unrepeated(s, U)
    PROVE  /\ Without(s, i) \in Seq(S) /\ Range(Without(s, i)) \subseteq Range(s)
           /\ Unrepeated(Without(s, i), U)
           /\ s[i] \in U => s[i] \notin Range(Without(s, i))
<1> DEFINE v == Without(s, i)
<1>1. /\ v \in Seq(S) /\ Len(v) = Len(s) - 1
      /\ \A j \in 1 .. Len(s) - 1 : v[j] = s[IF j < i THEN j ELSE j + 1]
  <2>1. v \in Seq(S)
    BY DEF Without
  <2>2. Len(v) = Len(s) - 1
    BY DEF Without
  <2>3. \A j \in 1 .. Len(s) - 1 : v[j] = s[IF j < i THEN j ELSE j + 1]
    BY DEF Without
  <2> QED
    BY <2>1, <2>2, <2>3, Zenon
<1> HIDE DEF v
<1>2. Range(v) \subseteq Range(s)
  BY <1>1 DEF Range
<1>3. Unrepeated(v, U)
  <2> DEFINE At(j) == IF j < i THEN j ELSE j + 1
  <2>1. DOMAIN v = 1 .. Len(s) - 1
    BY <1>1
  <2>2. \A j \in DOMAIN v : v[j] = s[At(j)]
    BY <1>1, <2>1, Zenon
  <2>3. \A j \in DOMAIN v : At(j) \in DOMAIN s
    BY <2>1, SMTT(30)
  <2>4. \A a, b \in DOMAIN v : At(a) = At(b) => a = b
    BY <2>1, SMTT(30)
  <2> HIDE DEF At
  <2> QED
    BY <2>2, <2>3, <2>4, Zenon DEF Unrepeated
<1>4. s[i] \in U => s[i] \notin Range(v)
  <2> SUFFICES ASSUME s[i] \in U, NEW j \in DOMAIN v, v[j] = s[i] PROVE FALSE
    BY Zenon DEF Range
  <2> DEFINE k == IF j < i THEN j ELSE j + 1
  <2>1. k \in DOMAIN s /\ i \in DOMAIN s /\ k # i /\ v[j] = s[k]
    BY <1>1
  <2> QED
    BY <2>1, Zenon DEF Unrepeated
<1> QED
  BY <1>1, <1>2, <1>3, <1>4, Zenon DEF v

LEMMA QueueShrinks ==
    ASSUME NEW S, NEW s \in Seq(S), s # <<>>, NEW U, Unrepeated(s, U)
    PROVE  /\ Head(s) \in S /\ Head(s) \in Range(s)
           /\ Tail(s) \in Seq(S) /\ Range(Tail(s)) \subseteq Range(s)
           /\ Unrepeated(Tail(s), U)
           /\ Head(s) \in U => Head(s) \notin Range(Tail(s))
<1> DEFINE v == Tail(s)
<1>1. /\ v \in Seq(S) /\ Len(v) = Len(s) - 1 /\ Len(s) \in Nat \ {0}
      /\ \A j \in 1 .. Len(s) - 1 : v[j] = s[j + 1]
      /\ Head(s) = s[1]
  OBVIOUS
<1> HIDE DEF v
<1>2. Range(v) \subseteq Range(s)
  BY <1>1 DEF Range
<1>3. Unrepeated(v, U)
  <2> SUFFICES ASSUME NEW j \in DOMAIN v, NEW k \in DOMAIN v, v[j] = v[k], v[j] \in U PROVE j = k
    BY Zenon DEF Unrepeated
  <2>1. j + 1 \in DOMAIN s /\ k + 1 \in DOMAIN s /\ v[j] = s[j + 1] /\ v[k] = s[k + 1]
    BY <1>1
  <2>2. j + 1 = k + 1
    BY <2>1, Zenon DEF Unrepeated
  <2>3. j \in Nat /\ k \in Nat
    BY <1>1
  <2> QED
    BY <2>2, <2>3
<1>4. Head(s) \in S /\ Head(s) \in Range(s) /\ (Head(s) \in U => Head(s) \notin Range(v))
  <2>1. 1 \in DOMAIN s /\ Head(s) = s[1] /\ s[1] \in S
    BY <1>1
  <2>2. ASSUME s[1] \in U, NEW j \in DOMAIN v, v[j] = s[1] PROVE FALSE
    <3>1. j + 1 \in DOMAIN s /\ j + 1 # 1 /\ v[j] = s[j + 1]
      BY <1>1
    <3> QED
      BY <2>1, <2>2, <3>1, Zenon DEF Unrepeated
  <2> QED
    BY <2>1, <2>2, Zenon DEF Range
<1> QED
  BY <1>1, <1>2, <1>3, <1>4, Zenon DEF v

\* The identifiers of requests are not 0, and those of different requests differ.
LEMMA IssuedNumbers ==
    ASSUME NEW n \in Node, NEW t \in Issued(n) PROVE t \in Nat /\ t # 0
<1>1. FirstTid[n] \in Nat
  BY BoundAssumption, Zenon
<1> QED
  BY <1>1 DEF Issued

LEMMA NotZero ==
    ASSUME Apart, NEW w, Identified(w), NEW r \in sent PROVE w[r] # 0 /\ r \in Request
<1>1. r \in Request /\ home[r.from] \in Node
  BY RequestAssumption, SetsAssumption, SMT DEF Identified
<1> QED
  BY <1>1, IssuedNumbers, Zenon DEF Apart, Identified

\* Identifiers that are apart after a step were so before.
LEMMA ApartBefore == ASSUME Apart', sent \subseteq sent' PROVE Apart
  BY Zenon DEF Apart

\* An identifier may be chosen for a request that was not sent yet.
LEMMA Renamed ==
    ASSUME NEW w, Named(w), NEW r \in Request \ sent, NEW x \in Nat
    PROVE  Named([w EXCEPT ![r] = x])
<1> DEFINE v == [w EXCEPT ![r] = x]
<1>1. v \in [Request -> Nat] /\ \A q \in sent : v[q] = w[q]
  BY Zenon DEF Named, Identified
<1> HIDE DEF v
<1>2. \A n : Pending(n, v) = Pending(n, w)
  BY <1>1, Zenon DEF Pending
<1>3. Identified(v)
  BY <1>1, Zenon DEF Named, Identified
<1>4. LinksAbout(v) /\ PeersAbout(v)
  BY <1>1, ZenonT(30) DEF Named, LinksAbout, PeersAbout, About
<1>5. PoolsAbout(v)
  <2>1. \A e, n : \A q \in sent : EntryOf(e, n, q, w) => EntryOf(e, n, q, v)
    BY <1>1, Zenon DEF EntryOf
  <2> QED
    BY <2>1, Zenon DEF Named, PoolsAbout
<1>6. ASSUME NEW n \in Node PROVE Unrepeated(due[n], UserSeen(v))
  <2>1. due[n] \in Seq(Pending(n, w)) /\ Unrepeated(due[n], UserSeen(w))
    BY Zenon DEF Named, TimersAbout
  <2>2. \A y \in Pending(n, w) : y \in UserSeen(v) => y \in UserSeen(w)
    <3> SUFFICES ASSUME NEW q \in sent, NEW p \in Request, p.to = home[p.from],
                        Seen(q, w[q]) = Seen(p, v[p])
                 PROVE  Seen(q, w[q]) \in UserSeen(w)
      BY Zenon DEF Pending, UserSeen
    <3>1. q = p
      BY Zenon DEF Seen
    <3> QED
      BY <3>1, Zenon DEF UserSeen
  <2>3. \A i \in DOMAIN due[n] : due[n][i] \in Pending(n, w)
    BY <2>1
  <2> QED
    BY <2>1, <2>2, <2>3, Zenon DEF Unrepeated
<1>7. TimersAbout(v)
  BY <1>2, <1>6, Zenon DEF Named, TimersAbout
<1>8. Once(v)
  BY <1>1, Zenon DEF Named, Once, OnceFor
<1> QED
  BY <1>3, <1>4, <1>5, <1>7, <1>8, Zenon DEF Named, v

-----------------------------------------------------------------------------
\* The step adds answers only by the one named, and only to requests in R.
Adds(R, by) ==
    /\ Answered' /\ AllFit'
    /\ \A q \in Request : \A e : Granted(q, e) => Granted(q, e)'
    /\ \A q \in Request : \A b : Told(q, b)' => Told(q, b) \/ (q \in R /\ b = by)

LEMMA NoAnswer ==
    ASSUME Answered, AllFit, answers' = answers, sent \subseteq sent', NEW R, NEW by
    PROVE  Adds(R, by)
<1>1. Answered' /\ AllFit'
  BY Zenon DEF Answered, AllFit, Fits
<1> QED
  BY <1>1, Zenon DEF Adds, Granted, Told

LEMMA OneAnswer ==
    ASSUME Answered, AllFit, sent \subseteq sent', sent' \subseteq Request, NEW r \in sent',
           NEW x \in AnswerSet, x.to = r.from, x.tid = r.tid, x.events \subseteq r.events,
           ~Told(r, x.by), answers' = [answers EXCEPT ![r] = Append(@, x)]
    PROVE  Adds({r}, x.by) /\ (x.ok => \A e \in x.events : Granted(r, e)')
<1> DEFINE s == answers[r]
           v == Append(s, x)
           k == Len(s) + 1
<1>1. s \in Seq(AnswerSet) /\ r \in Request
  BY Zenon DEF Answered
<1>2. v \in Seq(AnswerSet) /\ v[k] = x /\ \A i \in DOMAIN s : v[i] = s[i]
  BY <1>1
<1>3. /\ k \in DOMAIN v /\ \A i \in DOMAIN s : i \in DOMAIN v
      /\ \A i \in DOMAIN v : i \in DOMAIN s \/ i = k
  BY <1>1
<1>4. /\ answers' \in [Request -> Seq(AnswerSet)] /\ answers'[r] = v
      /\ \A q \in Request \ {r} : answers'[q] = answers[q]
  BY <1>1, <1>2, Zenon DEF Answered
<1> HIDE DEF v, k, s
<1>5. Answered'
  BY <1>4, Zenon DEF Answered
<1>6. AllFit'
  <2> SUFFICES ASSUME NEW q \in Request, NEW i \in DOMAIN answers'[q]
               PROVE  /\ answers'[q][i].to = q.from /\ answers'[q][i].tid = q.tid
                      /\ answers'[q][i].events \subseteq q.events
                      /\ \A j \in DOMAIN answers'[q] : answers'[q][j].by = answers'[q][i].by => i = j
    BY Zenon DEF AllFit, Fits
  <2>1. CASE q # r
    BY <1>4, <2>1, Zenon DEF AllFit, Fits
  <2>2. CASE q = r
    <3>1. \A j \in DOMAIN s : /\ s[j].to = r.from /\ s[j].tid = r.tid /\ s[j].events \subseteq r.events
                              /\ s[j].by # x.by
      BY <1>1, Zenon DEF AllFit, Fits, Told, s
    <3>2. \A a, b \in DOMAIN s : s[a].by = s[b].by => a = b
      BY <1>1, Zenon DEF AllFit, Fits, s
    <3>3. \A a, b \in DOMAIN v : v[a].by = v[b].by => a = b
      BY <1>2, <1>3, <3>1, <3>2, Zenon
    <3>4. \A a \in DOMAIN v : v[a].to = r.from /\ v[a].tid = r.tid /\ v[a].events \subseteq r.events
      BY <1>2, <1>3, <3>1, Zenon
    <3> QED
      BY <1>4, <2>2, <3>3, <3>4, Zenon
  <2> QED
    BY <2>1, <2>2, Zenon
<1>7. \A q \in Request : \A e : Granted(q, e) => Granted(q, e)'
  <2>1. ASSUME NEW e, NEW i \in DOMAIN s, s[i].ok, e \in s[i].events PROVE Granted(r, e)'
    <3>1. i \in DOMAIN v /\ v[i].ok /\ e \in v[i].events
      BY <1>2, <1>3, <2>1
    <3> QED
      BY <1>4, <3>1, Zenon DEF Granted
  <2>2. \A q \in Request \ {r} : \A e : Granted(q, e) => Granted(q, e)'
    BY <1>4, Zenon DEF Granted
  <2>3. \A e : Granted(r, e) => Granted(r, e)'
    BY <2>1, Zenon DEF Granted, s
  <2> QED
    BY <2>2, <2>3, Zenon
<1>8. \A q \in Request : \A b : Told(q, b)' => Told(q, b) \/ (q \in {r} /\ b = x.by)
  <2>1. \A b : Told(r, b)' => Told(r, b) \/ b = x.by
    <3>1. \A b : Told(r, b)' => \E i \in DOMAIN v : v[i].by = b
      BY <1>4, Zenon DEF Told
    <3>2. \A i \in DOMAIN s : Told(r, s[i].by)
      BY Zenon DEF Told, s
    <3> QED
      BY <1>2, <1>3, <3>1, <3>2
  <2>2. \A q \in Request \ {r} : \A b : Told(q, b)' => Told(q, b)
    BY <1>4, Zenon DEF Told
  <2> QED
    BY <2>1, <2>2, Zenon
<1>9. x.ok => \A e \in x.events : Granted(r, e)'
  BY <1>2, <1>3, <1>4, Zenon DEF Granted
<1> QED
  BY <1>5, <1>6, <1>7, <1>8, <1>9, Zenon DEF Adds

\* What transmit does to the answers of users.
LEMMA ReplyAnswers ==
    ASSUME Answered, AllFit, sent \subseteq sent', sent' \subseteq Request,
           NEW n, NEW in, NEW ok \in BOOLEAN, NEW E \in SUBSET Event, NEW rest,
           NEW by \in By, Reply(n, in, ok, E, by, rest),
           NEW r \in sent', in.req = r,
           in.from \in User => in.from = r.from /\ in.tid = r.tid /\ E \subseteq r.events /\ ~Told(r, by)
    PROVE  /\ Adds({r}, by)
           /\ in.from \notin User => Adds({}, by)
           /\ in.from \in User /\ ok => \A e \in E : Granted(r, e)'
<1>1. CASE in.from \notin User
  <2>1. answers' = answers
    BY <1>1, Zenon DEF Reply
  <2> QED
    BY <1>1, <2>1, NoAnswer, Zenon
<1>2. CASE in.from \in User
  <2> DEFINE x == [to |-> in.from, tid |-> in.tid, ok |-> ok, events |-> E, by |-> by]
  <2>1. answers' = [answers EXCEPT ![r] = Append(@, x)]
    BY <1>2, Zenon DEF Reply
  <2>2. x.to = in.from /\ x.tid = in.tid /\ x.ok = ok /\ x.events = E /\ x.by = by
    BY Zenon
  <2>3. r.from \in User /\ r.tid \in Nat
    BY RequestAssumption, SMT
  <2>4. x \in AnswerSet
    BY <1>2, <2>3, Zenon DEF AnswerSet
  <2> HIDE DEF x
  <2>5. Adds({r}, x.by) /\ (x.ok => \A e \in x.events : Granted(r, e)')
    BY <1>2, <2>1, <2>2, <2>4, OneAnswer, Zenon
  <2> QED
    BY <1>2, <2>2, <2>5, Zenon
<1> QED
  BY <1>1, <1>2, Zenon

LEMMA NamedStays ==
    ASSUME sent \subseteq sent', NEW m, NEW w, About(m, w) PROVE About(m, w)'
BY Zenon DEF About

\* What transmit does to the messages between MIHFs.
LEMMA ReplySends ==
    ASSUME NEW w, PeersAbout(w), AllRelayed, sent \subseteq sent',
           NEW n, NEW in, NEW ok \in BOOLEAN, NEW E, NEW by, NEW rest, rest \subseteq net, Reply(n, in, ok, E, by, rest),
           NEW r \in sent', in.req = r,
           in.from \in Node \ {n} =>
               /\ in.kind = r.kind /\ in.tid = w[r] /\ in.link = r.link
               /\ E \subseteq r.events /\ n = r.to /\ in.from = home[r.from]
    PROVE  PeersAbout(w)' /\ AllRelayed'
<1> DEFINE x == NetMsg("response", in.kind, n, n, in.from, in.tid, in.link, ok, E, in.req)
<1>1. \A m \in net' : m \in net \/ (in.from \in Node \ {n} /\ m = x)
  BY Zenon DEF Reply
<1>2. /\ x.type = "response" /\ x.kind = in.kind /\ x.src = n /\ x.dst = in.from /\ x.tid = in.tid
      /\ x.link = in.link /\ x.events = E /\ x.req = in.req /\ x.ok = ok
  BY Zenon DEF NetMsg
<1> HIDE DEF x
<1>3. in.from \in Node \ {n} => About(x, w)' /\ x.events \subseteq x.req.events
                                /\ x.src = x.req.to /\ x.dst = home[x.req.from] /\ x.src # x.dst /\ x.ok \in BOOLEAN
  BY <1>2, Zenon DEF About
<1>4. ASSUME NEW m \in net'
      PROVE  /\ m.type = "request" =>
                    /\ About(m, w)' /\ m.events = m.req.events
                    /\ m.dst = m.req.to /\ m.src = home[m.req.from] /\ m.src # m.dst
             /\ m.type = "response" =>
                    /\ About(m, w)' /\ m.events \subseteq m.req.events
                    /\ m.src = m.req.to /\ m.dst = home[m.req.from] /\ m.src # m.dst
                    /\ m.ok \in BOOLEAN
             /\ m.type = "indication" => m.src = home[m.link] /\ m.dst \in Node /\ \E e \in Event : m.events = {e}
  <2>1. CASE m \in net
    BY <2>1, NamedStays, Zenon DEF PeersAbout
  <2>2. CASE in.from \in Node \ {n} /\ m = x
    BY <1>2, <1>3, <2>2, Zenon
  <2> QED
    BY <1>1, <2>1, <2>2, Zenon
<1>5. PeersAbout(w)'
  BY <1>4, Zenon DEF PeersAbout
<1>6. AllRelayed'
  BY <1>1, <1>2, Zenon DEF AllRelayed, Relayed
<1> QED
  BY <1>5, <1>6, Zenon

\* The MIHF n answers r, which it knows as in, with the events E.
AnswerTo(in, r, n, E, by, w) ==
    /\ r \in sent /\ in.req = r /\ E \in SUBSET Event /\ E \subseteq r.events /\ by \in By
    /\ in.from \in User => in.from = r.from /\ in.tid = r.tid /\ ~Told(r, by)
    /\ in.from \in Node => /\ in.kind = r.kind /\ in.tid = w[r] /\ in.link = r.link
                           /\ n = r.to /\ in.from = home[r.from]

Replies(in, r, n, E, by, w, ok, rest) ==
    AnswerTo(in, r, n, E, by, w) /\ ok \in BOOLEAN /\ rest \subseteq net /\ Reply(n, in, ok, E, by, rest)

LEMMA Replied ==
    ASSUME NEW w, Named(w), sent' = sent, NEW in, NEW r, NEW n, NEW E, NEW by, NEW ok, NEW rest,
           Replies(in, r, n, E, by, w, ok, rest)
    PROVE  /\ Adds({r}, by) /\ PeersAbout(w)' /\ AllRelayed'
           /\ in.from \in User /\ ok => \A e \in E : Granted(r, e)'
<1> AnswerTo(in, r, n, E, by, w) /\ ok \in BOOLEAN /\ rest \subseteq net /\ Reply(n, in, ok, E, by, rest)
  BY Zenon DEF Replies
<1>1. /\ sent \subseteq sent' /\ sent' \subseteq Request /\ r \in sent'
      /\ Answered /\ AllFit /\ PeersAbout(w) /\ AllRelayed
      /\ in.req = r /\ E \in SUBSET Event /\ by \in By
  BY Zenon DEF Named, Identified, AnswerTo
<1>2. in.from \in User => in.from = r.from /\ in.tid = r.tid /\ E \subseteq r.events /\ ~Told(r, by)
  BY Zenon DEF AnswerTo
<1>3. in.from \in Node \ {n} =>
          /\ in.kind = r.kind /\ in.tid = w[r] /\ in.link = r.link
          /\ E \subseteq r.events /\ n = r.to /\ in.from = home[r.from]
  BY Zenon DEF AnswerTo
<1>4. PeersAbout(w)' /\ AllRelayed'
  BY <1>1, <1>3, ReplySends
<1> QED
  BY <1>1, <1>2, <1>4, ReplyAnswers

LEMMA PeersKept ==
    ASSUME NEW w, PeersAbout(w), AllRelayed, sent \subseteq sent', net' \subseteq net
    PROVE  PeersAbout(w)' /\ AllRelayed'
<1>1. PeersAbout(w)'
  BY NamedStays, Zenon DEF PeersAbout
<1>2. AllRelayed'
  BY Zenon DEF AllRelayed, Relayed
<1> QED
  BY <1>1, <1>2, Zenon

-----------------------------------------------------------------------------
\* What keeps the parts of the invariant.
LEMMA LinksKept ==
    ASSUME NEW w, LinksAbout(w), sent \subseteq sent',
           \A m \in toLink' \cup fromLink' :
               \/ m \in toLink \cup fromLink
               \/ m.kind = "capability"
               \/ About(m, w)' /\ m.events \subseteq m.req.events /\ home[m.link] = m.req.to
    PROVE  LinksAbout(w)'
BY NamedStays, Zenon DEF LinksAbout

LEMMA TablesKept ==
    ASSUME NEW R, NEW by, TablesAsked, Adds(R, by), sent \subseteq sent', sent' \subseteq Request,
           \A n \in Node : \A s \in subs'[n] : s \in subs[n] \/ \E r \in sent' : Asked(n, s, r)'
    PROVE  TablesAsked'
<1>1. \A n, s : \A r \in sent : Asked(n, s, r) => Asked(n, s, r)'
  BY Zenon DEF Asked, Adds
<1> QED
  BY <1>1, Zenon DEF TablesAsked

\* AllWanted with the name Granted.
LEMMA WantedMeans ==
    AllWanted <=>
        \A g \in got : \E r \in sent :
            r.kind = "subscribe" /\ r.from = g.user /\ (r.link = g.link \/ g.event \in Broad) /\ Granted(r, g.event)
BY Zenon DEF AllWanted, ToldOf, Granted

LEMMA WantedKept ==
    ASSUME NEW R, NEW by, AllWanted, Adds(R, by), sent \subseteq sent', sent' \subseteq Request, got' = got
    PROVE  AllWanted'
<1>1. \A r \in sent : \A e : Granted(r, e) => Granted(r, e)'
  BY Zenon DEF Adds
<1>2. \A g \in got' : \E r \in sent' :
          r.kind = "subscribe" /\ r.from = g.user /\ (r.link = g.link \/ g.event \in Broad) /\ Granted(r, g.event)'
  BY <1>1, WantedMeans, Zenon
<1> QED
  BY <1>2, Zenon DEF AllWanted, ToldOf, Granted

LEMMA PoolKept ==
    ASSUME NEW w, PoolsAbout(w), Types, sent \subseteq sent', NEW n \in Node, NEW p,
           lpool' = [lpool EXCEPT ![n] = p], Unrepeated(p, UserEntries),
           \A e \in Range(p) :
               e \in Range(lpool[n]) \/ (e.rtid = 0 /\ e.user = n) \/ \E r \in sent' : EntryOf(e, n, r, w)
    PROVE  PoolsAbout(w)'
<1>1. lpool'[n] = p /\ \A k \in Node \ {n} : lpool'[k] = lpool[k]
  BY Zenon DEF Types
<1>2. \A e \in Range(p) : (e.rtid = 0 /\ e.user = n) \/ \E r \in sent' : EntryOf(e, n, r, w)
  BY Zenon DEF PoolsAbout
<1>3. ASSUME NEW k \in Node
      PROVE  /\ \A e \in Range(lpool'[k]) : (e.rtid = 0 /\ e.user = k) \/ \E r \in sent' : EntryOf(e, k, r, w)
             /\ Unrepeated(lpool'[k], UserEntries)
  <2>1. CASE k = n
    BY <1>1, <1>2, <2>1, Zenon
  <2>2. CASE k # n
    BY <1>1, <2>2, Zenon DEF PoolsAbout
  <2> QED
    BY <2>1, <2>2, Zenon
<1> QED
  BY <1>3, Zenon DEF PoolsAbout

LEMMA PoolSame ==
    ASSUME NEW w, PoolsAbout(w), sent \subseteq sent', lpool' = lpool PROVE PoolsAbout(w)'
BY Zenon DEF PoolsAbout

LEMMA PendingGrows ==
    ASSUME NEW w, sent \subseteq sent', NEW n
    PROVE  Pending(n, w) \subseteq Pending(n, w)'
BY Zenon DEF Pending

LEMMA TimersSame ==
    ASSUME NEW w, TimersAbout(w), sent \subseteq sent', timer' = timer, due' = due PROVE TimersAbout(w)'
<1>1. ASSUME NEW n \in Node
      PROVE  /\ \A t \in DOMAIN timer[n] : timer[n][t] \in [in : Pending(n, w)', expired : BOOLEAN]
             /\ due[n] \in Seq(Pending(n, w)')
  <2>1. /\ \A t \in DOMAIN timer[n] : timer[n][t] \in [in : Pending(n, w), expired : BOOLEAN]
        /\ due[n] \in Seq(Pending(n, w))
    BY Zenon DEF TimersAbout
  <2>2. Pending(n, w) \subseteq Pending(n, w)'
    BY PendingGrows, Zenon
  <2> QED
    BY <2>1, <2>2, SeqOfMore, Zenon
<1> QED
  BY <1>1, Zenon DEF TimersAbout

\* Nothing that waits for the answers to q is added.
Still(q, w) ==
    /\ q.to = home[q.from] =>
         /\ LinkEntry(q, w[q]) \in Range(lpool'[q.to]) => LinkEntry(q, w[q]) \in Range(lpool[q.to])
         /\ Seen(q, w[q]) \in Range(due'[q.to]) => Seen(q, w[q]) \in Range(due[q.to])
         /\ Idle(q.to, w[q]) => Idle(q.to, w[q])'
    /\ q.to # home[q.from] /\ PeerEntry(q, w[q]) \in Range(lpool'[home[q.from]]) =>
         PeerEntry(q, w[q]) \in Range(lpool[home[q.from]])

LEMMA OnceKept ==
    ASSUME NEW w, NEW q \in Request, OnceFor(q, w), NEW R, NEW by, Adds(R, by), Still(q, w),
           q \notin R \/ by = "mihf"
    PROVE  OnceFor(q, w)'
<1>1. \A b \in {"link", "timer", "peer"} : Told(q, b)' => Told(q, b)
  <2>1. \A b \in {"link", "timer", "peer"} : b # "mihf"
    OBVIOUS
  <2> QED
    BY <2>1, Zenon DEF Adds
<1> QED
  BY <1>1, Zenon DEF OnceFor, Still

-----------------------------------------------------------------------------
LEMMA AskerIs ==
    ASSUME NEW r \in Request
    PROVE  /\ r.from \in User /\ r.to \in Node /\ r.tid \in Nat /\ r.link \in Link
           /\ r.events \subseteq Event /\ home[r.from] \in Node
           /\ Asker(r) \in User => Asker(r) = r.from /\ r.to = home[r.from]
           /\ Asker(r) \in Node => Asker(r) = home[r.from] /\ r.to # home[r.from]
           /\ Asker(r) \in User \cup Node
<1>1. r.from \in User /\ r.to \in Node /\ r.tid \in Nat /\ r.link \in Link /\ r.events \subseteq Event
  BY RequestAssumption, SMT
<1>2. home[r.from] \in Node /\ User \cap Node = {}
  BY <1>1, SetsAssumption, Zenon
<1> QED
  BY <1>1, <1>2, Zenon DEF Asker

LEMMA SeenIs ==
    ASSUME NEW r, NEW t
    PROVE  /\ Seen(r, t).kind = r.kind /\ Seen(r, t).from = Asker(r) /\ Seen(r, t).tid = t
           /\ Seen(r, t).link = r.link /\ Seen(r, t).events = r.events /\ Seen(r, t).req = r
BY Zenon DEF Seen

\* What the handling of a request does to the table, to the answers and to what
\* waits for the link.
LEMMA LocalEffects ==
    ASSUME NEW n, NEW in, NEW rest, LocalRequest(n, in, rest)
    PROVE  /\ UNCHANGED <<due, tid, fromLink, got>>
           /\ \/ \E ok \in BOOLEAN : \E E \in {{}, in.events} : Reply(n, in, ok, E, "mihf", rest)
              \/ NoReply(rest)
           /\ \/ subs' = subs \/ subs' = Unsubscribed(n, in.from, in.link, in.events)
              \/ /\ in.kind = "subscribe" /\ home[in.link] = n
                 /\ subs' = Subscribed(n, in.from, in.link, in.events)
                 /\ Reply(n, in, TRUE, in.events, "mihf", rest)
           /\ \/ UNCHANGED <<lpool, toLink, timer>>
              \/ /\ home[in.link] = n
                 /\ \/ in.kind = "subscribe" /\ SendSubscribe(n, in)
                    \/ in.kind = "unsubscribe" /\ SendUnsubscribe(n, in, Unneeded(n, in)) /\ timer' = timer
<1>1. CASE in.kind = "subscribe" /\ LocalSubscribe(n, in, rest)
  BY <1>1, Zenon DEF LocalRequest, LocalSubscribe, Known
<1>2. CASE in.kind = "unsubscribe" /\ LocalUnsubscribe(n, in, rest)
  BY <1>2, Zenon DEF LocalRequest, LocalUnsubscribe, Known
<1> QED
  BY <1>1, <1>2, Zenon DEF LocalRequest

\* What the step sends to the link, if anything.
Sends(r, w) ==
    \/ UNCHANGED <<lpool, toLink, timer>>
    \/ \E E \in SUBSET r.events :
         /\ home[r.link] = r.to
         /\ lpool' = [lpool EXCEPT ![r.to] = Append(@, LinkEntry(r, w[r]))]
         /\ toLink' = toLink \cup {LinkMsg(r.kind, r.link, w[r], E, r)}
         /\ timer' = timer \/ timer' = Armed(r.to, Seen(r, w[r]))

LEMMA LocalSends ==
    ASSUME NEW w, NEW r, NEW rest, LocalRequest(r.to, Seen(r, w[r]), rest) PROVE Sends(r, w)
<1> DEFINE in == Seen(r, w[r])
<1>1. /\ in.kind = r.kind /\ in.from = Asker(r) /\ in.tid = w[r]
      /\ in.link = r.link /\ in.events = r.events /\ in.req = r
  BY SeenIs, Zenon
<1>2. \/ UNCHANGED <<lpool, toLink, timer>>
      \/ /\ home[in.link] = r.to
         /\ \/ in.kind = "subscribe" /\ SendSubscribe(r.to, in)
            \/ in.kind = "unsubscribe" /\ SendUnsubscribe(r.to, in, Unneeded(r.to, in)) /\ timer' = timer
  BY LocalEffects, Zenon
<1> HIDE DEF in
<1>3. CASE home[in.link] = r.to /\ in.kind = "subscribe" /\ SendSubscribe(r.to, in)
  <2>1. LinkEntry(r, w[r]) = Entry(in.from, in.link, in.tid)
    BY <1>1, <1>3, Zenon DEF LinkEntry
  <2>2. LinkMsg("subscribe", in.link, in.tid, in.events, in.req) = LinkMsg(r.kind, r.link, w[r], r.events, r)
    BY <1>1, <1>3, Zenon
  <2> QED
    BY <1>1, <1>3, <2>1, <2>2, Zenon DEF SendSubscribe, Sends, in
<1>4. CASE home[in.link] = r.to /\ in.kind = "unsubscribe" /\ SendUnsubscribe(r.to, in, Unneeded(r.to, in)) /\ timer' = timer
  <2> DEFINE E == Unneeded(r.to, in)
  <2>1. E \in SUBSET r.events
    BY <1>1, Zenon DEF Unneeded
  <2>2. LinkEntry(r, w[r]) = Entry(r.to, in.link, in.tid)
    <3>1. "subscribe" # "unsubscribe"
      OBVIOUS
    <3> QED
      BY <1>1, <1>4, <3>1, Zenon DEF LinkEntry
  <2>3. LinkMsg("unsubscribe", in.link, in.tid, E, in.req) = LinkMsg(r.kind, r.link, w[r], E, r)
    BY <1>1, <1>4, Zenon
  <2> QED
    BY <1>1, <1>4, <2>1, <2>2, <2>3, Zenon DEF SendUnsubscribe, Sends
<1> QED
  BY <1>2, <1>3, <1>4, Zenon DEF Sends

LEMMA EntryIs ==
    ASSUME NEW r \in Request, NEW t \in Nat
    PROVE  /\ LinkEntry(r, t) \in Waiting /\ PeerEntry(r, t) \in Waiting
           /\ LinkEntry(r, t).user \in User => Asker(r) \in User /\ LinkEntry(r, t).user = r.from
           /\ r.kind = "subscribe" => LinkEntry(r, t).user = Asker(r)
           /\ LinkEntry(r, t).destination = r.link /\ LinkEntry(r, t).rtid = t /\ LinkEntry(r, t).ltid = t
           /\ PeerEntry(r, t).user = r.from /\ PeerEntry(r, t).destination = r.to
           /\ PeerEntry(r, t).rtid = t /\ PeerEntry(r, t).ltid = r.tid
           /\ r.link \notin Node /\ r.to \notin Link
<1>1. /\ r.from \in User /\ r.to \in Node /\ r.tid \in Nat /\ r.link \in Link
      /\ Asker(r) \in User \cup Node /\ (Asker(r) \in User => Asker(r) = r.from)
  BY AskerIs, Zenon
<1>2. User \cap Node = {} /\ Node \cap Link = {}
  BY SetsAssumption, Zenon
<1> DEFINE u == IF r.kind = "subscribe" THEN Asker(r) ELSE r.to
           x == LinkEntry(r, t)
           y == PeerEntry(r, t)
<1>3. u \in User \cup Node /\ (u \in User => Asker(r) \in User /\ u = r.from) /\ (r.kind = "subscribe" => u = Asker(r))
  BY <1>1, <1>2, Zenon
<1> HIDE DEF u
<1>4. x = [user |-> u, destination |-> r.link, ltid |-> t, rtid |-> t]
  BY Zenon DEF LinkEntry, Entry, u
<1>5. x.user = u /\ x.destination = r.link /\ x.rtid = t /\ x.ltid = t /\ x \in Waiting
  <2> DEFINE z == [user |-> u, destination |-> r.link, ltid |-> t, rtid |-> t]
  <2>1. z.user = u /\ z.destination = r.link /\ z.rtid = t /\ z.ltid = t
    BY Zenon
  <2>2. z \in Waiting
    BY <1>1, <1>2, <1>3, Zenon DEF Waiting
  <2> QED
    BY <1>4, <2>1, <2>2
<1>6. y.user = r.from /\ y.destination = r.to /\ y.rtid = t /\ y.ltid = r.tid /\ y \in Waiting
  BY <1>1, <1>2, Zenon DEF PeerEntry, Waiting
<1> HIDE DEF x, y
<1>7. r.link \notin Node /\ r.to \notin Link
  BY <1>1, <1>2, Zenon
<1>8. /\ x \in Waiting /\ y \in Waiting
      /\ x.user \in User => Asker(r) \in User /\ x.user = r.from
      /\ r.kind = "subscribe" => x.user = Asker(r)
  BY <1>3, <1>5, <1>6, Zenon
<1> QED
  BY <1>5, <1>6, <1>7, <1>8, Zenon DEF x, y

LEMMA EntriesDiffer ==
    ASSUME NEW q \in Request, NEW s \in Nat, NEW r \in Request, NEW t \in Nat
    PROVE  /\ LinkEntry(q, s) = LinkEntry(r, t) => s = t
           /\ PeerEntry(q, s) = PeerEntry(r, t) => s = t
           /\ PeerEntry(q, s) # LinkEntry(r, t)
<1>1. LinkEntry(q, s).rtid = s /\ PeerEntry(q, s).rtid = s /\ PeerEntry(q, s).destination = q.to /\ q.to \notin Link
  BY EntryIs, Zenon
<1>2. /\ LinkEntry(r, t).rtid = t /\ PeerEntry(r, t).rtid = t /\ LinkEntry(r, t).destination = r.link
      /\ r.link \in Link
  BY EntryIs, AskerIs, Zenon
<1> QED
  BY <1>1, <1>2

\* The identifier of r is its own.
Fresh(r, w) == w[r] \in Nat \ {0} /\ \A q \in sent : w[q] = w[r] => q = r

\* No entry in a pool has the identifier of a request of a user that is new.
LEMMA NotWaiting ==
    ASSUME NEW w, Identified(w), PoolsAbout(w), NEW n \in Node, NEW r, Fresh(r, w),
           NEW e \in Range(lpool[n]), e.rtid = w[r]
    PROVE  r \in sent /\ EntryOf(e, n, r, w)
<1>1. e.rtid # 0
  BY Zenon DEF Fresh
<1>2. PICK q \in sent : EntryOf(e, n, q, w)
  BY <1>1, Zenon DEF PoolsAbout
<1>3. q \in Request /\ w[q] \in Nat
  BY Zenon DEF Identified
<1>4. e.rtid = w[q]
  BY <1>2, <1>3, EntryIs DEF EntryOf
<1> QED
  BY <1>2, <1>4, Zenon DEF Fresh

LEMMA SendsKeep ==
    ASSUME NEW w, Named(w), Types, NEW r, r \in sent', sent \subseteq sent', sent' \subseteq Request,
           Fresh(r, w), r \in sent => r.to # home[r.from], Sends(r, w), UNCHANGED <<due, fromLink>>
    PROVE  LinksAbout(w)' /\ PoolsAbout(w)' /\ TimersAbout(w)' /\ \A q \in sent : Still(q, w)
<1>1. CASE UNCHANGED <<lpool, toLink, timer>>
  BY <1>1, LinksKept, PoolSame, TimersSame, Zenon DEF Named, Still, Idle
<1>2. ASSUME NEW E \in SUBSET r.events, home[r.link] = r.to,
             lpool' = [lpool EXCEPT ![r.to] = Append(@, LinkEntry(r, w[r]))],
             toLink' = toLink \cup {LinkMsg(r.kind, r.link, w[r], E, r)},
             timer' = timer \/ timer' = Armed(r.to, Seen(r, w[r]))
      PROVE  LinksAbout(w)' /\ PoolsAbout(w)' /\ TimersAbout(w)' /\ \A q \in sent : Still(q, w)
  <2> DEFINE n == r.to
             x == LinkEntry(r, w[r])
             c == LinkMsg(r.kind, r.link, w[r], E, r)
             in == Seen(r, w[r])
  <2>1. /\ r \in Request /\ n \in Node /\ w[r] \in Nat /\ lpool[n] \in Seq(Waiting)
        /\ PoolsAbout(w) /\ Identified(w)
    BY AskerIs, Zenon DEF Fresh, Types, Named
  <2>2. x \in Waiting /\ x.rtid = w[r] /\ x.destination = r.link /\ (x.user \in User => Asker(r) \in User)
    BY <2>1, EntryIs, Zenon
  <2>3. c.kind = r.kind /\ c.link = r.link /\ c.tid = w[r] /\ c.events = E /\ c.req = r
    BY Zenon DEF LinkMsg
  <2>4. LinksAbout(w)'
    <3>1. About(c, w)' /\ c.events \subseteq c.req.events /\ home[c.link] = c.req.to
      BY <1>2, <2>3, Zenon DEF About
    <3> HIDE DEF c
    <3>2. \A m \in toLink' \cup fromLink' : m \in toLink \cup fromLink \/ m = c
      BY <1>2, Zenon DEF c
    <3> QED
      BY <3>1, <3>2, LinksKept, Zenon DEF Named
  <2> HIDE DEF x, c
  <2>5. x \in UserEntries => x \notin Range(lpool[n])
    <3> SUFFICES ASSUME x.user \in User, x \in Range(lpool[n]) PROVE FALSE
      BY Zenon DEF UserEntries
    <3>1. r \in sent
      BY <2>1, <2>2, NotWaiting, Zenon
    <3> QED
      BY <2>1, <2>2, <3>1, AskerIs, Zenon
  <2>6. /\ Range(Append(lpool[n], x)) = Range(lpool[n]) \cup {x}
        /\ Unrepeated(Append(lpool[n], x), UserEntries)
    BY <2>1, <2>2, <2>5, PoolGrows, Zenon DEF PoolsAbout
  <2>7. lpool' = [lpool EXCEPT ![n] = Append(lpool[n], x)]
    BY <1>2, Zenon DEF x
  <2>8. EntryOf(x, n, r, w)
    BY Zenon DEF EntryOf, x
  <2>9. PoolsAbout(w)'
    <3> DEFINE v == Append(lpool[n], x)
    <3>1. \A e \in Range(v) :
              e \in Range(lpool[n]) \/ (e.rtid = 0 /\ e.user = n) \/ \E q \in sent' : EntryOf(e, n, q, w)
      BY <2>6, <2>8, Zenon
    <3>2. lpool' = [lpool EXCEPT ![n] = v] /\ Unrepeated(v, UserEntries)
      BY <2>6, <2>7, Zenon
    <3> HIDE DEF v, n
    <3> QED
      BY <2>1, <3>1, <3>2, PoolKept, Zenon
  <2>10. \A k \in Node : Range(lpool'[k]) \subseteq Range(lpool[k]) \cup {x}
    BY <2>6, <2>7, Zenon DEF Types
  <2>11. in.tid = w[r] /\ in \in Pending(n, w)'
    <3>1. in.tid = w[r]
      BY Zenon DEF Seen
    <3>2. in \in Pending(n, w)'
      BY Zenon DEF Pending
    <3> QED
      BY <3>1, <3>2, Zenon
  <2>12. CASE timer' = timer
    <3>1. TimersAbout(w)'
      BY <2>12, TimersSame, Zenon DEF Named
    <3>2. \A q \in sent : Still(q, w)
      <4> SUFFICES ASSUME NEW q \in sent PROVE Still(q, w)
        BY Zenon
      <4>1. q \in Request /\ w[q] \in Nat /\ home[q.from] \in Node /\ q.to \in Node
        BY <2>1, AskerIs, Zenon DEF Identified
      <4>2. q.to = home[q.from] => LinkEntry(q, w[q]) # x
        BY <2>1, <4>1, EntriesDiffer, Zenon DEF Fresh, x
      <4>3. PeerEntry(q, w[q]) # x
        BY <2>1, <4>1, EntriesDiffer, Zenon DEF x
      <4> QED
        BY <2>10, <2>12, <4>1, <4>2, <4>3, Zenon DEF Still, Idle
    <3> QED
      BY <2>4, <2>9, <3>1, <3>2, Zenon
  <2>13. CASE timer' = Armed(n, in)
    <3> DEFINE T == [t \in DOMAIN timer[n] \cup {in.tid} |->
                        IF t = in.tid THEN [in |-> in, expired |-> FALSE] ELSE timer[n][t]]
    <3>1. DOMAIN timer = Node /\ timer' = [timer EXCEPT ![n] = T]
      BY <2>13, Zenon DEF Armed, Named, TimersAbout
    <3>2. /\ DOMAIN T = DOMAIN timer[n] \cup {w[r]}
          /\ T[w[r]] = [in |-> in, expired |-> FALSE] /\ \A t \in DOMAIN timer[n] \ {w[r]} : T[t] = timer[n][t]
      BY <2>11, Zenon
    <3> HIDE DEF T
    <3>3. timer'[n] = T /\ DOMAIN timer' = Node /\ \A k \in Node \ {n} : timer'[k] = timer[k]
      BY <2>1, <3>1, Zenon
    <3>4. ASSUME NEW k \in Node
          PROVE  /\ \A t \in DOMAIN timer'[k] : /\ timer'[k][t] \in [in : Pending(k, w)', expired : BOOLEAN]
                                                 /\ timer'[k][t].in.tid = t
                 /\ due[k] \in Seq(Pending(k, w)') /\ Unrepeated(due[k], UserSeen(w))
      <4>1. /\ \A t \in DOMAIN timer[k] : /\ timer[k][t] \in [in : Pending(k, w), expired : BOOLEAN]
                                           /\ timer[k][t].in.tid = t
            /\ due[k] \in Seq(Pending(k, w)) /\ Unrepeated(due[k], UserSeen(w))
        BY Zenon DEF Named, TimersAbout
      <4>2. Pending(k, w) \subseteq Pending(k, w)'
        BY PendingGrows, Zenon
      <4>3. \A t \in DOMAIN timer[k] : timer[k][t] \in [in : Pending(k, w)', expired : BOOLEAN]
        BY <4>1, <4>2, Zenon
      <4>4. due[k] \in Seq(Pending(k, w)')
        BY <4>1, <4>2, SeqOfMore, Zenon
      <4>5. CASE k = n
        <5>1. [in |-> in, expired |-> FALSE] \in [in : Pending(k, w)', expired : BOOLEAN]
              /\ [in |-> in, expired |-> FALSE].in.tid = w[r]
          BY <2>11, <4>5, Zenon
        <5>2. ASSUME NEW t \in DOMAIN T
              PROVE  T[t] \in [in : Pending(k, w)', expired : BOOLEAN] /\ T[t].in.tid = t
          <6>1. CASE t = w[r]
            BY <3>2, <5>1, <6>1, Zenon
          <6>2. CASE t # w[r]
            BY <3>2, <4>1, <4>3, <4>5, <6>2, ZenonT(30)
          <6> QED
            BY <6>1, <6>2, Zenon
        <5> QED
          BY <3>3, <4>1, <4>4, <4>5, <5>2, Zenon
      <4>6. CASE k # n
        BY <3>3, <4>1, <4>3, <4>4, <4>6, Zenon
      <4> QED
        BY <4>5, <4>6, Zenon
    <3>5. TimersAbout(w)'
      BY <3>3, <3>4, Zenon DEF TimersAbout, Named
    <3>6. \A q \in sent : Still(q, w)
      <4> SUFFICES ASSUME NEW q \in sent PROVE Still(q, w)
        BY Zenon
      <4>1. q \in Request /\ w[q] \in Nat /\ home[q.from] \in Node /\ q.to \in Node
        BY <2>1, AskerIs, Zenon DEF Identified
      <4>2. q.to = home[q.from] => w[q] # w[r]
        BY Zenon DEF Fresh
      <4>3. q.to = home[q.from] => LinkEntry(q, w[q]) # x
        BY <2>1, <4>1, <4>2, EntriesDiffer, Zenon DEF x
      <4>4. PeerEntry(q, w[q]) # x
        BY <2>1, <4>1, EntriesDiffer, Zenon DEF x
      <4>5. q.to = home[q.from] /\ Idle(q.to, w[q]) => Idle(q.to, w[q])'
        BY <3>2, <3>3, <4>1, <4>2, ZenonT(30) DEF Idle
      <4> QED
        BY <2>10, <4>1, <4>3, <4>4, <4>5, Zenon DEF Still
    <3> QED
      BY <2>4, <2>9, <3>5, <3>6, Zenon
  <2> QED
    BY <1>2, <2>12, <2>13, Zenon
<1> QED
  BY <1>1, <1>2, Zenon DEF Sends

LEMMA NotTold ==
    ASSUME Answered, NEW r \in Request \ sent, NEW b PROVE ~Told(r, b)
<1>1. answers[r] = <<>>
  BY Zenon DEF Answered
<1> QED
  BY <1>1 DEF Told

LEMMA DuePending ==
    ASSUME NEW w, TimersAbout(w), NEW n \in Node, NEW x \in Range(due[n])
    PROVE  \E q \in sent : q.to = n /\ x = Seen(q, w[q])
<1>1. due[n] \in Seq(Pending(n, w))
  BY Zenon DEF TimersAbout
<1>2. x \in Pending(n, w)
  BY <1>1 DEF Range
<1> QED
  BY <1>2, Zenon DEF Pending

\* A request that its MIHF handles, whoever sent it.
LEMMA LocalNamed ==
    ASSUME NEW w, Named(w), Types, NEW r, r \in sent', sent \subseteq sent', sent' \subseteq sent \cup {r},
           sent' \subseteq Request, Fresh(r, w), r \in sent => r.to # home[r.from],
           r.to = home[r.from] => w[r] = r.tid, Identified(w)',
           NEW rest, rest \subseteq net, LocalRequest(r.to, Seen(r, w[r]), rest)
    PROVE  Named(w)'
<1> DEFINE n == r.to
           in == Seen(r, w[r])
<1>1. /\ in.kind = r.kind /\ in.from = Asker(r) /\ in.tid = w[r]
      /\ in.link = r.link /\ in.events = r.events /\ in.req = r
  BY SeenIs, Zenon
<1>2. /\ UNCHANGED <<due, tid, fromLink, got>>
      /\ \/ \E ok \in BOOLEAN : \E E \in {{}, in.events} : Reply(n, in, ok, E, "mihf", rest)
         \/ NoReply(rest)
      /\ \/ subs' = subs \/ subs' = Unsubscribed(n, in.from, in.link, in.events)
         \/ /\ in.kind = "subscribe" /\ home[in.link] = n
            /\ subs' = Subscribed(n, in.from, in.link, in.events)
            /\ Reply(n, in, TRUE, in.events, "mihf", rest)
  BY LocalEffects, Zenon
<1>3. LinksAbout(w)' /\ PoolsAbout(w)' /\ TimersAbout(w)' /\ \A q \in sent : Still(q, w)
  BY <1>2, LocalSends, SendsKeep, Zenon
<1> HIDE DEF in
<1>4. /\ r \in Request /\ n \in Node /\ r.events \in SUBSET Event /\ r.link \in Link
      /\ in.from \in User => in.from = r.from /\ in.tid = r.tid /\ r \notin sent
      /\ in.from \in Node => in.from = home[r.from]
      /\ in.from \in User \cup Node
  <2>1. /\ r.to \in Node /\ r.events \subseteq Event /\ r.link \in Link
        /\ Asker(r) \in User => Asker(r) = r.from /\ r.to = home[r.from]
        /\ Asker(r) \in Node => Asker(r) = home[r.from]
        /\ Asker(r) \in User \cup Node
    BY AskerIs, Zenon
  <2> QED
    BY <1>1, <2>1, Zenon
<1>5. in.from \in User => ~Told(r, "mihf")
  BY <1>4, NotTold, Zenon DEF Named
<1>6. ASSUME NEW ok \in BOOLEAN, NEW E \in SUBSET Event, E \subseteq r.events, Reply(n, in, ok, E, "mihf", rest)
      PROVE  /\ Adds({r}, "mihf") /\ PeersAbout(w)' /\ AllRelayed'
             /\ in.from \in User /\ ok => \A e \in E : Granted(r, e)'
  <2> DEFINE by == "mihf"
  <2>2. by \in By /\ Reply(n, in, ok, E, by, rest) /\ (in.from \in User => ~Told(r, by))
    BY <1>5, <1>6, Zenon DEF By
  <2> HIDE DEF by
  <2>3. Answered /\ AllFit /\ PeersAbout(w) /\ AllRelayed
    BY Zenon DEF Named
  <2>4. Adds({r}, "mihf") /\ (in.from \in User /\ ok => \A e \in E : Granted(r, e)')
    <3>1. in.from \in User => in.from = r.from /\ in.tid = r.tid /\ E \subseteq r.events /\ ~Told(r, by)
      BY <1>4, <1>6, <2>2, Zenon
    <3>2. Adds({r}, by)
      BY <1>1, <2>2, <2>3, <3>1, ReplyAnswers, ZenonT(30)
    <3>3. in.from \in User /\ ok => \A e \in E : Granted(r, e)'
      BY <1>1, <2>2, <2>3, <3>1, ReplyAnswers, ZenonT(30)
    <3> QED
      BY <3>2, <3>3, Zenon DEF by
  <2>5. PeersAbout(w)' /\ AllRelayed'
    BY <1>1, <1>4, <1>6, <2>2, <2>3, ReplySends
  <2> QED
    BY <2>4, <2>5, Zenon
<1>7. Adds({r}, "mihf") /\ PeersAbout(w)' /\ AllRelayed'
  <2> \A E \in {{}, in.events} : E \in SUBSET Event /\ E \subseteq r.events
    BY <1>1, <1>4, Zenon
  <2>1. CASE NoReply(rest)
    <3>1. answers' = answers /\ net' \subseteq net
      BY <2>1, Zenon DEF NoReply
    <3> QED
      BY <3>1, NoAnswer, PeersKept, Zenon DEF Named
  <2> QED
    BY <1>2, <1>6, <2>1, Zenon
<1>8. TablesAsked'
  <2>1. subs \in [Node -> SUBSET [user : User \cup Node, link : Link, event : Event]]
    BY Zenon DEF Types
  <2>2. CASE subs' = subs \/ subs' = Unsubscribed(n, in.from, in.link, in.events)
    <3>1. \A k \in Node : subs'[k] \subseteq subs[k]
      BY <2>1, <2>2, Zenon DEF Unsubscribed
    <3> QED
      BY <1>7, <3>1, TablesKept, Zenon DEF Named
  <2>3. CASE /\ in.kind = "subscribe" /\ home[in.link] = n
             /\ subs' = Subscribed(n, in.from, in.link, in.events)
             /\ Reply(n, in, TRUE, in.events, "mihf", rest)
    <3>1. in.from \in User => \A e \in in.events : Granted(r, e)'
      BY <1>1, <1>4, <1>6, <2>3, Zenon
    <3>2. \A k \in Node : subs'[k] \subseteq subs[k] \cup (IF k = n THEN Subscription(in.from, in.link, in.events) ELSE {})
      BY <2>1, <2>3, Zenon DEF Subscribed
    <3>3. ASSUME NEW e \in in.events, NEW s, s = [user |-> in.from, link |-> in.link, event |-> e]
          PROVE  Asked(n, s, r)'
      <4>1. s.user = in.from /\ s.link = r.link /\ s.event = e
        BY <1>1, <3>3, Zenon
      <4> QED
        BY <1>1, <1>4, <2>3, <3>1, <4>1, Zenon DEF Asked
    <3>4. \A s \in Subscription(in.from, in.link, in.events) : Asked(n, s, r)'
      BY <3>3, Zenon DEF Subscription
    <3> QED
      BY <1>7, <3>2, <3>4, TablesKept, Zenon DEF Named
  <2> QED
    BY <1>2, <2>2, <2>3, Zenon
<1>9. ASSUME r \notin sent PROVE OnceFor(r, w)'
  <2>1. \A b : ~Told(r, b)
    BY <1>4, <1>9, NotTold, Zenon DEF Named
  <2>2. ~Told(r, "link")' /\ ~Told(r, "timer")' /\ ~Told(r, "peer")'
    <3>1. "link" # "mihf" /\ "timer" # "mihf" /\ "peer" # "mihf"
      OBVIOUS
    <3> QED
      BY <1>4, <1>7, <2>1, <3>1, Zenon DEF Adds
  <2>3. Seen(r, w[r]) \notin Range(due'[r.to])
    <3>1. \A q \in sent : Seen(q, w[q]) # Seen(r, w[r])
      <4>1. \A q : Seen(q, w[q]).req = q
        BY SeenIs, Zenon
      <4> QED
        BY <1>9, <4>1
    <3>2. due' = due /\ r.to \in Node /\ TimersAbout(w)
      BY <1>2, <1>4, Zenon DEF Named
    <3>3. Seen(r, w[r]) \notin Range(due[r.to])
      <4> SUFFICES ASSUME Seen(r, w[r]) \in Range(due[r.to]) PROVE FALSE
        BY Zenon
      <4>1. PICK q \in sent : q.to = r.to /\ Seen(r, w[r]) = Seen(q, w[q])
        BY <3>2, DuePending
      <4> QED
        BY <3>1, <4>1, Zenon
    <3> QED
      BY <3>2, <3>3, Zenon
  <2> QED
    BY <2>2, <2>3, Zenon DEF OnceFor
<1>10. Once(w)'
  <2>1. \A q \in sent : q \in Request /\ OnceFor(q, w)
    BY Zenon DEF Named, Once
  <2>2. \A q \in sent : OnceFor(q, w)'
    BY <1>3, <1>7, <2>1, OnceKept, Zenon
  <2> QED
    BY <1>9, <2>2, Zenon DEF Once
<1>11. AllWanted'
  BY <1>2, <1>7, WantedKept, Zenon DEF Named
<1>12. Answered' /\ AllFit'
  BY <1>7, Zenon DEF Adds
<1> QED
  BY <1>3, <1>7, <1>8, <1>10, <1>11, <1>12, Zenon DEF Named

-----------------------------------------------------------------------------
(***************************************************************************)
(* Each step keeps the invariant                                           *)
(***************************************************************************)
\* The identifier x of a request that is sent now is its own.
LEMMA NewName ==
    ASSUME Apart', CountsRequests, Types, NEW w, Identified(w), NEW r \in Request \ sent, sent' = sent \cup {r}, NEW x,
           \/ r.to = home[r.from] /\ x = r.tid /\ tid' = tid
           \/ /\ r.to # home[r.from] /\ x = tid[home[r.from]] + 1
              /\ tid' = [tid EXCEPT ![home[r.from]] = @ + 1]
    PROVE  x \in Nat /\ Fresh(r, [w EXCEPT ![r] = x]) /\ Identified([w EXCEPT ![r] = x])'
<1> DEFINE n == home[r.from]
           c == Cardinality(sent)
<1>1. /\ n \in Node /\ r.tid \in Nat /\ tid \in [Node -> Nat] /\ FirstTid \in [Node -> Nat]
      /\ sent \subseteq Request /\ w \in [Request -> Nat]
  BY AskerIs, BoundAssumption, Zenon DEF Types, Identified
<1>2. /\ c \in Nat /\ Cardinality(sent') = c + 1 /\ c + 1 <= Cardinality(Request) /\ Cardinality(Request) \in Nat
      /\ sent' \subseteq Request
  <2>1. sent \in SUBSET Request /\ r \in Request \ sent /\ sent' \subseteq Request
    BY <1>1, Zenon
  <2>2. /\ Cardinality(sent) \in Nat /\ Cardinality(sent \cup {r}) = Cardinality(sent) + 1
        /\ Cardinality(sent \cup {r}) <= Cardinality(Request) /\ Cardinality(Request) \in Nat
    BY <2>1, Zenon DEF CountsRequests
  <2> QED
    BY <2>1, <2>2, Zenon
<1>3. \A k \in Node : tid[k] \in Nat /\ FirstTid[k] \in Nat /\ FirstTid[k] <= tid[k] /\ tid[k] <= FirstTid[k] + c
  BY <1>1, Zenon DEF Identified
<1>0. /\ r.tid # 0 /\ \A k \in Node : r.tid \notin Issued(k)
      /\ \A q \in sent : (q.tid = r.tid => q = r) /\ \A k \in Node : q.tid \notin Issued(k)
      /\ \A k, j \in Node : k # j => Issued(k) \cap Issued(j) = {}
  BY Zenon DEF Apart
<1> HIDE DEF n, c
<1>4. \A k \in Node : tid'[k] \in Nat /\ tid'[k] >= tid[k] /\ tid'[k] <= tid[k] + 1
  BY <1>1, <1>3, SMT DEF n
<1>5. \A k \in Node : tid'[k] \in Nat /\ FirstTid[k] <= tid'[k] /\ tid'[k] <= FirstTid[k] + Cardinality(sent')
  BY <1>2, <1>3, <1>4, SMT
<1>6. r.to # n => x = tid[n] + 1 /\ tid'[n] = x /\ x \in Issued(n)
  <2>1. r.to # n => x = tid[n] + 1 /\ tid'[n] = tid[n] + 1
    BY <1>1, SMT DEF n
  <2> QED
    BY <1>1, <1>2, <1>3, <2>1, SMT DEF Issued
<1>7. x \in Nat /\ x # 0
  BY <1>0, <1>1, <1>3, <1>6, SMT DEF n
<1>8. ASSUME NEW q \in sent PROVE w[q] # x
  <2>1. q \in Request /\ q # r /\ home[q.from] \in Node
    BY <1>1, AskerIs, Zenon
  <2>2. IF q.to = home[q.from] THEN w[q] = q.tid
        ELSE w[q] \in Issued(home[q.from]) /\ w[q] <= tid[home[q.from]]
    BY Zenon DEF Identified
  <2>3. CASE r.to = n
    <3>1. x = r.tid
      BY <2>3, Zenon DEF n
    <3> QED
      BY <1>0, <1>1, <2>1, <2>2, <3>1, Zenon
  <2>4. CASE r.to # n
    <3>1. CASE q.to = home[q.from]
      BY <1>0, <1>1, <1>6, <2>1, <2>2, <2>4, <3>1, ZenonT(30)
    <3>2. CASE q.to # home[q.from] /\ home[q.from] # n
      BY <1>0, <1>1, <1>6, <2>1, <2>2, <2>4, <3>2, Zenon
    <3>3. CASE q.to # home[q.from] /\ home[q.from] = n
      <4>1. w[q] \in Nat /\ w[q] <= tid[n]
        BY <1>1, <2>1, <2>2, <3>3, Zenon
      <4> QED
        BY <1>1, <1>3, <1>6, <2>4, <4>1, SMT
    <3> QED
      BY <3>1, <3>2, <3>3, Zenon
  <2> QED
    BY <2>3, <2>4, Zenon
<1> DEFINE v == [w EXCEPT ![r] = x]
<1>9. v \in [Request -> Nat] /\ v[r] = x /\ \A q \in sent : v[q] = w[q]
  BY <1>1, <1>7, Zenon
<1> HIDE DEF v
<1>10. Fresh(r, v)
  BY <1>7, <1>8, <1>9, Zenon DEF Fresh
<1>11. ASSUME NEW q \in sent'
       PROVE  IF q.to = home[q.from] THEN v[q] = q.tid
              ELSE v[q] \in Issued(home[q.from]) /\ v[q] <= tid'[home[q.from]]
  <2>1. CASE q = r
    <3>1. r.to = n => v[r] = r.tid
      BY <1>9, Zenon DEF n
    <3>2. r.to # n => v[r] \in Issued(n) /\ v[r] <= tid'[n]
      BY <1>6, <1>7, <1>9
    <3> QED
      BY <2>1, <3>1, <3>2, Zenon DEF n
  <2>2. CASE q \in sent
    <3>1. q \in Request /\ home[q.from] \in Node
      BY <1>1, <2>2, AskerIs, Zenon
    <3>2. IF q.to = home[q.from] THEN w[q] = q.tid
          ELSE w[q] \in Issued(home[q.from]) /\ w[q] <= tid[home[q.from]]
      BY <2>2, Zenon DEF Identified
    <3>3. w[q] \in Nat /\ v[q] = w[q]
      BY <1>1, <1>9, <2>2, <3>1, Zenon
    <3>4. w[q] <= tid[home[q.from]] => w[q] <= tid'[home[q.from]]
      BY <1>3, <1>4, <3>1, <3>3
    <3> QED
      BY <3>2, <3>3, <3>4, Zenon
  <2> QED
    BY <2>1, <2>2, Zenon
<1>12. \A p, q \in sent' : v[p] = v[q] => p = q
  <2>1. \A p, q \in sent : w[p] = w[q] => p = q
    BY Zenon DEF Identified
  <2>2. v[r] = x /\ \A q \in sent : v[q] = w[q] /\ w[q] # x
    BY <1>8, <1>9, Zenon
  <2>3. \A q \in sent' : q \in sent \/ q = r
    BY Zenon
  <2> QED
    BY <2>1, <2>2, <2>3
<1>13. Identified(v)'
  BY <1>2, <1>5, <1>9, <1>11, <1>12, Zenon DEF Identified
<1> QED
  BY <1>7, <1>10, <1>13, Zenon DEF v

\* Identifiers that are not given anew stay as they are.
LEMMA NamesKept ==
    ASSUME NEW w, Identified(w), UNCHANGED <<sent, tid>> PROVE Identified(w)'
BY Zenon DEF Identified

LEMMA SubmitNamed ==
    ASSUME CountsRequests, Apart', Types, NEW w, Named(w), NEW r \in Request, Submit(r)
    PROVE  \E v : Named(v)'
<1> DEFINE v == [w EXCEPT ![r] = r.tid]
<1>1. /\ r \notin sent /\ sent' = sent \cup {r} /\ r.to = home[r.from] /\ tid' = tid
      /\ LocalRequest(r.to, [kind |-> r.kind, from |-> r.from, tid |-> r.tid, link |-> r.link,
                             events |-> r.events, req |-> r], net)
  BY Zenon DEF Submit, Accept, LocalRequest
<1>2. Identified(w) /\ w \in [Request -> Nat] /\ sent \subseteq Request
  BY Zenon DEF Named, Identified
<1>3. r.tid \in Nat /\ Fresh(r, v) /\ Identified(v)'
  BY <1>1, <1>2, NewName, Zenon
<1>4. Named(v) /\ v[r] = r.tid
  BY <1>1, <1>2, <1>3, Renamed, Zenon
<1> HIDE DEF v
<1>5. LocalRequest(r.to, Seen(r, v[r]), net)
  BY <1>1, <1>4, Zenon DEF Seen, Asker
<1>6. r \in sent' /\ sent \subseteq sent' /\ sent' \subseteq sent \cup {r} /\ sent' \subseteq Request
  BY <1>1, <1>2, Zenon
<1>7. Named(v)'
  BY <1>1, <1>3, <1>4, <1>5, <1>6, LocalNamed, Zenon
<1> QED
  BY <1>7, Zenon

LEMMA PeerRequestNamed ==
    ASSUME Apart, Types, NEW w, Named(w), NEW m \in net, PeerRequest(m)
    PROVE  Named(w)'
<1> DEFINE r == m.req
<1>1. /\ m.type = "request" /\ sent' = sent /\ tid' = tid
      /\ LocalRequest(m.dst, Incoming(m.src, m.tid, m), net \ {m})
  BY Zenon DEF PeerRequest, LocalRequest
<1>2. /\ r \in sent /\ m.kind = r.kind /\ m.tid = w[r] /\ m.link = r.link /\ m.events = r.events
      /\ m.dst = r.to /\ m.src = home[r.from] /\ m.src # m.dst
  BY <1>1, Zenon DEF Named, PeersAbout, About
<1>3. Incoming(m.src, m.tid, m) = Seen(r, w[r])
  <2>1. Asker(r) = m.src
    BY <1>2, Zenon DEF Asker
  <2> QED
    BY <1>2, <2>1, Zenon DEF Incoming, Seen
<1>4. Identified(w) /\ sent \subseteq Request /\ w \in [Request -> Nat]
  BY Zenon DEF Named, Identified
<1> HIDE DEF r
<1>5. LocalRequest(r.to, Seen(r, w[r]), net \ {m})
  BY <1>1, <1>2, <1>3, Zenon
<1>6. Fresh(r, w) /\ Identified(w)'
  BY <1>1, <1>2, <1>4, NotZero, NamesKept, Zenon DEF Identified, Fresh
<1>7. /\ r \in sent' /\ sent \subseteq sent' /\ sent' \subseteq sent \cup {r} /\ sent' \subseteq Request
      /\ r.to # home[r.from] /\ net \ {m} \subseteq net
  BY <1>1, <1>2, <1>4, Zenon
<1> QED
  BY <1>5, <1>6, <1>7, LocalNamed, Zenon

\* set_remote_tid finds the entry that was just added.
LEMMA RemoteTid ==
    ASSUME NEW S, NEW pool \in Seq(S), NEW u, NEW d, NEW t, NEW x, Entry(u, d, t) \in S,
           [user |-> u, destination |-> d, ltid |-> t, rtid |-> x] \in S,
           \A i \in DOMAIN pool : ~(pool[i].destination = d /\ pool[i].rtid = t)
    PROVE  SetRemoteTid(Append(pool, Entry(u, d, t)), d, t, x) =
               Append(pool, [user |-> u, destination |-> d, ltid |-> t, rtid |-> x])
<1> DEFINE e == Entry(u, d, t)
           y == [user |-> u, destination |-> d, ltid |-> t, rtid |-> x]
           k == Len(pool) + 1
           p == Append(pool, e)
           I == {i \in DOMAIN p : p[i].destination = d /\ p[i].rtid = t}
<1>1. e.destination = d /\ e.rtid = t /\ [e EXCEPT !.rtid = x] = y
  BY DEF Entry
<1> HIDE DEF e, y
<1>2. p \in Seq(S) /\ DOMAIN p = 1 .. k /\ p[k] = e /\ k \in Nat \ {0} /\ \A i \in 1 .. Len(pool) : p[i] = pool[i]
  BY Appended DEF e
<1>3. \A i \in 1 .. k : i \in DOMAIN pool \/ i = k
  OBVIOUS
<1>4. DOMAIN pool = 1 .. Len(pool)
  OBVIOUS
<1> HIDE DEF p, k
<1>5. I = {k}
  BY <1>1, <1>2, <1>3, <1>4
<1>6. Find(p, d, t) = k
  <2>1. Find(p, d, t) = First(I)
    BY Zenon DEF Find
  <2>2. First({k}) = k
    BY <1>2 DEF First
  <2> QED
    BY <1>5, <2>1, <2>2, Zenon
<1>7. SetRemoteTid(p, d, t, x) = [p EXCEPT ![k].rtid = x]
  BY <1>2, <1>6, Zenon DEF SetRemoteTid
<1>8. [p EXCEPT ![k].rtid = x] = [p EXCEPT ![k] = y]
  BY <1>1, <1>2, Zenon
<1>9. [p EXCEPT ![k] = y] = Append(pool, y)
  <2> DEFINE q == [p EXCEPT ![k] = y]
             z == Append(pool, y)
  <2>1. z \in Seq(S) /\ DOMAIN z = 1 .. k /\ z[k] = y /\ \A i \in 1 .. Len(pool) : z[i] = pool[i]
    BY Appended DEF y, k
  <2>2. q \in [1 .. k -> S] /\ q[k] = y /\ \A i \in 1 .. k : i # k => q[i] = p[i]
    <3>1. p \in [1 .. k -> S] /\ k \in 1 .. k /\ y \in S
      BY <1>2 DEF y
    <3> QED
      BY <3>1, Zenon
  <2>3. \A i \in 1 .. k : q[i] = z[i]
    <3> SUFFICES ASSUME NEW i \in 1 .. k PROVE q[i] = z[i]
      BY Zenon
    <3>1. CASE i = k
      BY <2>1, <2>2, <3>1, Zenon
    <3>2. CASE i # k
      <4>1. i \in 1 .. Len(pool)
        BY <1>3, <1>4, <3>2, Zenon
      <4> QED
        BY <1>2, <2>1, <2>2, <3>2, <4>1, Zenon
    <3> QED
      BY <3>1, <3>2, Zenon
  <2> HIDE DEF q, z
  <2>4. z \in [1 .. k -> S]
    BY <1>2, <2>1
  <2>5. q = z
    <3> DEFINE D == 1 .. k
    <3>1. q \in [D -> S] /\ z \in [D -> S] /\ \A i \in D : q[i] = z[i]
      BY <2>2, <2>3, <2>4, Zenon
    <3> HIDE DEF D
    <3> QED
      BY <3>1
  <2> QED
    BY <2>5 DEF q, z
<1> QED
  BY <1>7, <1>8, <1>9, Zenon DEF p, e, y

\* No request to a peer waits under the identifier of a user.
LEMMA NotForwarded ==
    ASSUME Apart', Types, NEW w, Identified(w), PoolsAbout(w), NEW r \in Request, r \in sent', NEW n \in Node
    PROVE  \A i \in DOMAIN lpool[n] : ~(lpool[n][i].destination = r.to /\ lpool[n][i].rtid = r.tid)
<1> SUFFICES ASSUME NEW i \in DOMAIN lpool[n], lpool[n][i].destination = r.to, lpool[n][i].rtid = r.tid
             PROVE  FALSE
  BY Zenon
<1> DEFINE e == lpool[n][i]
<1>1. e \in Range(lpool[n]) /\ r.to \in Node /\ r.tid # 0
  BY AskerIs, Zenon DEF Range, Apart
<1>2. PICK q \in sent : EntryOf(e, n, q, w)
  BY <1>1 DEF PoolsAbout
<1>3. q \in Request /\ w[q] \in Nat
  BY Zenon DEF Identified
<1>4. e = PeerEntry(q, w[q]) /\ q.to # home[q.from]
  <2>1. e # LinkEntry(q, w[q])
    BY <1>1, <1>3, EntryIs
  <2> QED
    BY <1>2, <2>1, Zenon DEF EntryOf
<1>5. r.tid = w[q]
  BY <1>3, <1>4, EntryIs
<1>6. w[q] \in Issued(home[q.from]) /\ home[q.from] \in Node
  BY <1>3, <1>4, AskerIs, Zenon DEF Identified
<1> QED
  BY <1>5, <1>6, Zenon DEF Apart

LEMMA ForwardNamed ==
    ASSUME CountsRequests, Apart', Types, NEW w, Named(w), NEW r \in Request, Forward(r)
    PROVE  \E v : Named(v)'
<1> DEFINE n == home[r.from]
<1>0. PICK x : x = tid[n] + 1
  BY Zenon
<1> DEFINE v == [w EXCEPT ![r] = x]
           m == NetMsg("request", r.kind, n, n, r.to, x, r.link, TRUE, r.events, r)
<1>1. /\ r \notin sent /\ sent' = sent \cup {r} /\ r.to # n /\ tid' = [tid EXCEPT ![n] = @ + 1]
      /\ lpool' = [lpool EXCEPT ![n] = SetRemoteTid(Append(@, Entry(r.from, r.to, r.tid)), r.to, r.tid, x)]
      /\ net' = net \cup {m}
      /\ UNCHANGED <<subs, timer, due, toLink, fromLink, answers, got>>
  BY <1>0, Zenon DEF Forward, Accept
<1>2. /\ Identified(w) /\ w \in [Request -> Nat] /\ sent \subseteq Request
      /\ lpool \in [Node -> Seq(Waiting)]
      /\ r.from \in User /\ r.to \in Node /\ r.tid \in Nat /\ n \in Node
  BY AskerIs, Zenon DEF Named, Identified, Types
<1>3. x \in Nat /\ Fresh(r, v) /\ Identified(v)'
  <2>1. \/ r.to = home[r.from] /\ x = r.tid /\ tid' = tid
        \/ /\ r.to # home[r.from] /\ x = tid[home[r.from]] + 1
           /\ tid' = [tid EXCEPT ![home[r.from]] = @ + 1]
    BY <1>0, <1>1, Zenon
  <2> QED
    BY <1>1, <1>2, <2>1, NewName, Zenon
<1>4. Named(v) /\ v[r] = x
  BY <1>1, <1>2, <1>3, Renamed, Zenon
<1>5. /\ m.type = "request" /\ m.kind = r.kind /\ m.src = n /\ m.dst = r.to /\ m.tid = x
      /\ m.link = r.link /\ m.events = r.events /\ m.req = r
  BY Zenon DEF NetMsg
<1> HIDE DEF m, v
<1>6. sent \subseteq sent' /\ r \in sent' /\ sent' \subseteq Request /\ \A q \in sent' : q \in sent \/ q = r
  BY <1>1, <1>2, Zenon
<1> DEFINE y == PeerEntry(r, v[r])
<1>7. y \in Waiting /\ lpool' = [lpool EXCEPT ![n] = Append(lpool[n], y)]
  <2>1. y \in Waiting /\ y = [user |-> r.from, destination |-> r.to, ltid |-> r.tid, rtid |-> x]
    BY <1>3, <1>4, EntryIs, Zenon DEF PeerEntry
  <2>2. Entry(r.from, r.to, r.tid) \in Waiting
    BY <1>2 DEF Entry, Waiting
  <2>3. \A i \in DOMAIN lpool[n] : ~(lpool[n][i].destination = r.to /\ lpool[n][i].rtid = r.tid)
    BY <1>1, <1>2, NotForwarded, Zenon DEF Named
  <2>4. lpool[n] \in Seq(Waiting)
    BY <1>2, Zenon
  <2>5. SetRemoteTid(Append(lpool[n], Entry(r.from, r.to, r.tid)), r.to, r.tid, x) = Append(lpool[n], y)
    <3> DEFINE z == [user |-> r.from, destination |-> r.to, ltid |-> r.tid, rtid |-> x]
    <3>1. z \in Waiting /\ y = z
      BY <2>1, Zenon
    <3>2. SetRemoteTid(Append(lpool[n], Entry(r.from, r.to, r.tid)), r.to, r.tid, x) = Append(lpool[n], z)
      BY <2>2, <2>3, <2>4, <3>1, RemoteTid
    <3> HIDE DEF z
    <3> QED
      BY <3>1, <3>2, Zenon
  <2> QED
    BY <1>1, <2>1, <2>5, Zenon
<1> HIDE DEF y
<1>8. y \notin Range(lpool[n])
  <2> SUFFICES ASSUME y \in Range(lpool[n]) PROVE FALSE
    BY Zenon
  <2>1. y.rtid = v[r]
    BY <1>3, <1>4, EntryIs, Zenon DEF y
  <2> QED
    BY <1>1, <1>2, <1>3, <1>4, <2>1, NotWaiting, Zenon DEF Named
<1>9. Range(Append(lpool[n], y)) = Range(lpool[n]) \cup {y} /\ Unrepeated(Append(lpool[n], y), UserEntries)
  BY <1>2, <1>4, <1>7, <1>8, PoolGrows, ZenonT(30) DEF Named, PoolsAbout
<1>10. PoolsAbout(v)'
  <2>1. EntryOf(y, n, r, v)
    BY <1>1, Zenon DEF EntryOf, y
  <2>2. \A e \in Range(Append(lpool[n], y)) :
            e \in Range(lpool[n]) \/ (e.rtid = 0 /\ e.user = n) \/ \E q \in sent' : EntryOf(e, n, q, v)
    BY <1>6, <1>9, <2>1, Zenon
  <2> QED
    BY <1>2, <1>4, <1>6, <1>7, <1>9, <2>2, PoolKept, Zenon DEF Named
<1>11. PeersAbout(v)'
  <2>1. About(m, v)'
    BY <1>4, <1>5, <1>6, Zenon DEF About
  <2>2. \A k \in net : About(k, v) => About(k, v)'
    BY <1>6, NamedStays, Zenon
  <2>3. m.type # "response" /\ m.type # "indication"
    BY <1>5
  <2>4. m.src # m.dst /\ m.events = m.req.events /\ m.dst = m.req.to /\ m.src = home[m.req.from]
    BY <1>1, <1>5, Zenon
  <2>5. PeersAbout(v) /\ \A k \in net' : k \in net \/ k = m
    BY <1>1, <1>4, Zenon DEF Named
  <2> QED
    BY <2>1, <2>2, <2>3, <2>4, <2>5, Zenon DEF PeersAbout
<1>12. AllRelayed'
  <2>1. m.type # "indication"
    BY <1>5
  <2> QED
    BY <1>1, <1>4, <1>6, <2>1, Zenon DEF Named, AllRelayed, Relayed
<1>13. LinksAbout(v)' /\ TimersAbout(v)'
  BY <1>1, <1>4, <1>6, LinksKept, TimersSame, Zenon DEF Named
<1>14. Adds({}, "mihf")
  BY <1>1, <1>4, <1>6, NoAnswer, Zenon DEF Named
<1>15. \A q \in sent : Still(q, v)
  <2> TAKE q \in sent
  <2>1. q \in Request /\ v[q] \in Nat /\ v[r] \in Nat /\ v[q] # v[r]
    BY <1>1, <1>3, <1>4, Zenon DEF Named, Identified, Fresh
  <2>2. y # LinkEntry(q, v[q]) /\ y # PeerEntry(q, v[q])
    BY <2>1, EntriesDiffer DEF y
  <2>3. \A k \in Node : \A e \in Range(lpool'[k]) : e \in Range(lpool[k]) \/ e = y
    BY <1>2, <1>7, <1>9, Zenon
  <2>4. q.to \in Node /\ home[q.from] \in Node
    BY <2>1, AskerIs, Zenon
  <2>5. Idle(q.to, v[q]) => Idle(q.to, v[q])'
    BY <1>1, Zenon DEF Idle
  <2> QED
    BY <1>1, <2>2, <2>3, <2>4, <2>5, Zenon DEF Still
<1>16. Once(v)'
  <2>1. \A q \in sent : OnceFor(q, v)'
    <3>1. \A q \in sent : q \in Request /\ OnceFor(q, v)
      BY <1>2, <1>4, Zenon DEF Named, Once
    <3> QED
      BY <1>14, <1>15, <3>1, OnceKept, Zenon
  <2>2. OnceFor(r, v)'
    <3>1. ~Told(r, "peer")
      BY <1>1, <1>4, NotTold, Zenon DEF Named
    <3>2. ~Told(r, "peer")'
      BY <1>14, <3>1, Zenon DEF Adds
    <3> QED
      BY <1>1, <3>2, Zenon DEF OnceFor
  <2> QED
    BY <1>6, <2>1, <2>2, Zenon DEF Once
<1>17. TablesAsked' /\ AllWanted' /\ Answered' /\ AllFit'
  <2>1. \A k \in Node : \A s \in subs'[k] : s \in subs[k]
    BY <1>1, Zenon
  <2>2. TablesAsked'
    BY <1>4, <1>6, <1>14, <2>1, TablesKept, Zenon DEF Named
  <2> QED
    BY <1>1, <1>4, <1>6, <1>14, <2>2, WantedKept, Zenon DEF Named, Adds
<1>18. Named(v)'
  BY <1>3, <1>10, <1>11, <1>12, <1>13, <1>16, <1>17, Zenon DEF Named
<1> QED
  BY <1>18, Zenon
=============================================================================
