------------------------------- MODULE Meeting -------------------------------
(***************************************************************************)
(* What the central server is there for: a sender lists its transfer, a    *)
(* receiver that was given its id claims it, then announces itself, and    *)
(* the sender meets one of those who did. Nothing of it is taken back.     *)
(***************************************************************************)
CONSTANTS Senders, Receivers, Nobody

VARIABLES
    listed,      \* the senders whose transfer is in the database
    claimed,     \* those whose transfer some receiver has claimed
    given,       \* the sender whose secret a receiver was given
    announced,   \* the receivers that have told the server where they are
    met          \* the receiver that a sender turns to

meetingVars == <<listed, claimed, given, announced, met>>

Init ==
    /\ listed = {}
    /\ claimed = {}
    /\ given = [r \in Receivers |-> Nobody]
    /\ announced = {}
    /\ met = [s \in Senders |-> Nobody]

List(s) ==
    /\ listed' = listed \cup {s}
    /\ UNCHANGED <<claimed, given, announced, met>>

Give(s, r) ==
    /\ given[r] = Nobody
    /\ given' = [given EXCEPT ![r] = s]
    /\ UNCHANGED <<listed, claimed, announced, met>>

Claim(r) ==
    /\ given[r] \in listed
    /\ claimed' = claimed \cup {given[r]}
    /\ UNCHANGED <<listed, given, announced, met>>

Announce(r) ==
    /\ given[r] \in claimed
    /\ announced' = announced \cup {r}
    /\ UNCHANGED <<listed, claimed, given, met>>

Meet(s, r) ==
    /\ met[s] = Nobody
    /\ r \in announced
    /\ given[r] = s
    /\ met' = [met EXCEPT ![s] = r]
    /\ UNCHANGED <<listed, claimed, given, announced>>

Next ==
    \/ \E s \in Senders : List(s)
    \/ \E r \in Receivers : Claim(r) \/ Announce(r)
    \/ \E s \in Senders, r \in Receivers : Give(s, r) \/ Meet(s, r)

Spec == Init /\ [][Next]_meetingVars
=============================================================================
