---------------------------- MODULE MCRendezvous ----------------------------
(***************************************************************************)
(* Constants for model checking Rendezvous. The endpoints that a row or a  *)
(* signal holds are named after the process that they are those of.        *)
(***************************************************************************)
EXTENDS RendezvousMeets, TLC

MCCallers == Senders \cup Receivers
MCKinds == {"lookup", "getfile", "register", "post_signal", "get_signal"}

MCSymmetry ==
    Permutations(Senders) \cup Permutations(Receivers) \cup Permutations(Threads)
=============================================================================
