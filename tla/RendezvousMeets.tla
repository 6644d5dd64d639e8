--------------------------- MODULE RendezvousMeets ---------------------------
(***************************************************************************)
(* Rendezvous implements Meeting.                                          *)
(***************************************************************************)
EXTENDS Rendezvous

\* A transaction writes the row of its request only, and it either claims a row that
\* is stored or lists one as claimed as it was.
WritesOneRow ==
    \A w \in Threads :
        LET id == Request(w).id
        IN  step[w] \in Writes =>
                /\ \A other \in Ids \ {id} : working[other] = table[other]
                /\ step[w] = "commit_claim" => (working[id] # NoRow <=> Stored(id))
                /\ (step[w] = "commit_insert" /\ Found(w) # NoRow) =>
                      (Found(w).claimed => Stored(id) /\ table[id].claimed)

Maybe(x) == IF x \in Callers THEN x ELSE Nobody

Listed == {s \in Senders : Stored(s)}
Claimed == {s \in Listed : table[s].claimed}
Given == [r \in Receivers |-> Maybe(secret[r])]
HaveAnnounced == {r \in Receivers : HasAnnounced(r)}
Met == [s \in Senders |-> Maybe(found[s])]

M == INSTANCE Meeting WITH
    listed <- Listed,
    claimed <- Claimed,
    given <- Given,
    announced <- HaveAnnounced,
    met <- Met

\* Every step of the processes, of the server and of what fails is a step of Meeting
\* or changes nothing that it speaks of. (Without a race.)
Meets == M!Spec
=============================================================================
