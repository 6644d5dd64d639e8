------------------------------ MODULE Network ------------------------------
(***************************************************************************)
(* The UDP network between the sender's socket and the receivers' sockets. *)
(* Datagrams in flight (or in a socket's buffer) form a set, so they are   *)
(* delivered in any order. They may be lost, and delivered more than once. *)
(* Datagrams that are equal and in flight at the same time count as one,   *)
(* unless Duplicating: then their number makes no difference.              *)
(***************************************************************************)
EXTENDS Wire

CONSTANTS
    Duplicating,  \* TRUE: a delivered datagram may be delivered again, at any time
    LossyKinds,   \* the kinds of datagram the network may lose
    MaxLosses,    \* bound on the number of datagrams lost
    Faults        \* which calls to the world outside the protocol may fail

ASSUME NetworkAssumption ==
    /\ Duplicating \in BOOLEAN
    /\ MaxLosses \in Nat
    /\ Faults \subseteq {"lookup", "open", "disk", "terminate"}

VARIABLES
    net,          \* the datagrams in flight
    losses        \* the kinds of those that have been lost so far

netVars == <<net, losses>>

LossesOK == losses \in Seq(LossyKinds) /\ Len(losses) <= MaxLosses

NetTypeOK ==
    /\ net \subseteq Packets
    /\ LossesOK

NetInit ==
    /\ net = {}
    /\ losses = <<>>

Send(packets) ==
    /\ net' = net \cup packets
    /\ UNCHANGED losses

\* A socket hands over p, and its owner answers with the given datagrams. While
\* Duplicating, p stays in flight: it is lost by never being delivered again.
Deliver(p, answers) ==
    /\ p \in net
    /\ net' = (IF Duplicating THEN net ELSE net \ {p}) \cup answers
    /\ UNCHANGED losses

Lose(p) ==
    /\ p \in net
    /\ p.kind \in LossyKinds
    /\ Len(losses) < MaxLosses
    /\ net' = net \ {p}
    /\ losses' = Append(losses, p.kind)
=============================================================================
