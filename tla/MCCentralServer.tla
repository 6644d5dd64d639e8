--------------------------- MODULE MCCentralServer ---------------------------
(***************************************************************************)
(* Constants for model checking CentralServer. Callers, threads, ids and   *)
(* contents are each interchangeable.                                      *)
(***************************************************************************)
EXTENDS CentralServer, TLC

MCSymmetry ==
    Permutations(Callers) \cup Permutations(Threads) \cup Permutations(Ids)
        \cup Permutations(Contents)
=============================================================================
