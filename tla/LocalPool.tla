------------------------------ MODULE LocalPool ------------------------------
(***************************************************************************)
(* The local transaction pool (src/src/mihf/local_transaction_pool.cpp)    *)
(* that every service of a MIHF uses: the list of requests it passed on,   *)
(* oldest first, each with the user that waits for the answer.             *)
(***************************************************************************)
EXTENDS Integers, Sequences, FiniteSets

\* The first of the positions I of a list, or 0.
First(I) == IF I = {} THEN 0 ELSE CHOOSE i \in I : \A j \in I : i <= j

\* The list s without its element at i.
Without(s, i) == [j \in 1 .. Len(s) - 1 |-> IF j < i THEN s[j] ELSE s[j + 1]]

\* add: user waits for the answer of destination to the request with identifier t.
Entry(user, destination, t) ==
    [user |-> user, destination |-> destination, ltid |-> t, rtid |-> t]

\* Mutant of Find: the identifier is not compared.
FindAny(pool, id, t) == First({i \in DOMAIN pool : pool[i].destination = id})

\* find: the first entry with this destination and remote identifier, or 0.
Find(pool, id, t) == First({i \in DOMAIN pool : pool[i].destination = id /\ pool[i].rtid = t})

SetRemoteTid(pool, id, ltid, rtid) ==
    LET i == Find(pool, id, ltid)
    IN  IF i = 0 THEN pool ELSE [pool EXCEPT ![i].rtid = rtid]
=============================================================================
