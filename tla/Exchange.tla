------------------------------ MODULE Exchange ------------------------------
(***************************************************************************)
(* What the transactions of two MIHFs promise to the users above them,     *)
(* without pools, timers, acknowledgements or packets: a message is sent,  *)
(* may arrive, a request that arrived may be answered, and the sender's    *)
(* MIHF comes to a verdict once, never to a success that did not happen.   *)
(***************************************************************************)
EXTENDS Naturals

CONSTANTS Request, Indication

Sendable == Request \cup Indication

VARIABLES
    unsent,    \* the messages of the users, not sent yet
    arrived,   \* messages that reached the services of their destination
    answered,  \* requests whose answer reached the services of their sender
    verdict    \* verdict[x]: what the sender's MIHF concluded about x

vars == <<unsent, arrived, answered, verdict>>

Init ==
    /\ unsent \subseteq Sendable
    /\ arrived = {}
    /\ answered = {}
    /\ verdict = [x \in Sendable |-> "ONGOING"]

Send(x) ==
    /\ x \in unsent
    /\ unsent' = unsent \ {x}
    /\ UNCHANGED <<arrived, answered, verdict>>

Arrive(x) ==
    /\ x \in Sendable \ unsent
    /\ arrived' = arrived \cup {x}
    /\ UNCHANGED <<unsent, answered, verdict>>

Conclude(x, v) ==
    /\ verdict[x] = "ONGOING"
    /\ verdict' = [verdict EXCEPT ![x] = v]

\* The answer to a request ends its transaction, or comes too late for it.
Answer(x) ==
    /\ x \in Request \cap arrived
    /\ answered' = answered \cup {x}
    /\ Conclude(x, "SUCCESS") \/ UNCHANGED verdict
    /\ UNCHANGED <<unsent, arrived>>

Acknowledge(x) ==
    /\ x \in (Indication \ Request) \cap arrived
    /\ Conclude(x, "SUCCESS")
    /\ UNCHANGED <<unsent, arrived, answered>>

\* The time of several messages may be over at once.
Fail(X) ==
    /\ X \subseteq Sendable \ unsent
    /\ \A x \in X : verdict[x] = "ONGOING"
    /\ verdict' = [x \in Sendable |-> IF x \in X THEN "FAILURE" ELSE verdict[x]]
    /\ UNCHANGED <<unsent, arrived, answered>>

Next ==
    \/ \E x \in Sendable : Send(x) \/ Arrive(x) \/ Answer(x) \/ Acknowledge(x)
    \/ \E X \in SUBSET Sendable : Fail(X)

Spec == Init /\ [][Next]_vars
-----------------------------------------------------------------------------
TypeOK ==
    /\ unsent \subseteq Sendable
    /\ arrived \subseteq Sendable
    /\ answered \subseteq Request
    /\ verdict \in [Sendable -> {"ONGOING", "SUCCESS", "FAILURE"}]

\* A success is never reported for a message that did not arrive, nor for a
\* request that was not answered.
Delivered ==
    \A x \in Sendable : verdict[x] = "SUCCESS" => x \in arrived /\ (x \in Request => x \in answered)

\* Nothing arrives, is answered or is concluded before it is sent.
Causal ==
    /\ answered \subseteq arrived
    /\ arrived \cap unsent = {}
=============================================================================
