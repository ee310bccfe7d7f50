---------------------------- MODULE MihfExchange ----------------------------
(***************************************************************************)
(* The transactions of MihfPeers implement Exchange: what reached the      *)
(* services is read off the messages handed to them.                       *)
(***************************************************************************)
EXTENDS MihfPeers

Abstract ==
    INSTANCE Exchange WITH
        Request    <- {x \in Traffic : x.opcode = "request"},
        Indication <- {x \in Traffic : x.opcode = "indication"},
        arrived    <- {x \in Traffic : Arrived(x)},
        answered   <- {x \in Traffic : Answered(x)}

\* Every step of the pools, the network and the clock is a step of the
\* abstract exchange or invisible in it: a message is answered only after it
\* arrived, a transaction concludes once, and with success only after the
\* message arrived and, for a request, in the step that hands its answer over.
ImplementsExchange == Abstract!Spec
=============================================================================
