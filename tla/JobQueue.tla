------------------------------ MODULE JobQueue ------------------------------
(***************************************************************************)
(* What a pool of threads promises: each job that is submitted is done     *)
(* once, the jobs are taken in order, and none is left when it closes.     *)
(***************************************************************************)
EXTENDS Naturals, Sequences

CONSTANTS Threads, Jobs

VARIABLES todo, doing, done, open

queueVars == <<todo, doing, done, open>>

Known(c) ==
    \/ c \in done
    \/ \E i \in DOMAIN todo : todo[i] = c
    \/ \E w \in Threads : doing[w] = c

Init ==
    /\ todo = <<>>
    /\ doing = [w \in Threads |-> 0]
    /\ done = {}
    /\ open = TRUE

Submit(c) ==
    /\ open = TRUE
    /\ ~Known(c)
    /\ todo' = Append(todo, c)
    /\ UNCHANGED <<doing, done, open>>

Take(w) ==
    /\ doing[w] = 0
    /\ todo # <<>>
    /\ doing' = [doing EXCEPT ![w] = Head(todo)]
    /\ todo' = Tail(todo)
    /\ UNCHANGED <<done, open>>

Complete(w) ==
    /\ doing[w] # 0
    /\ done' = done \cup {doing[w]}
    /\ doing' = [doing EXCEPT ![w] = 0]
    /\ UNCHANGED <<todo, open>>

Close ==
    /\ open = TRUE
    /\ todo = <<>>
    /\ \A w \in Threads : doing[w] = 0
    /\ open' = FALSE
    /\ UNCHANGED <<todo, doing, done>>

Next ==
    \/ \E c \in Jobs : Submit(c)
    \/ \E w \in Threads : Take(w) \/ Complete(w)
    \/ Close

Spec == Init /\ [][Next]_queueVars
=============================================================================
