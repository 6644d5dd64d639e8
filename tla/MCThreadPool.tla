---------------------------- MODULE MCThreadPool ----------------------------
(***************************************************************************)
(* Constants for model checking ThreadPool: connections enough to fill the *)
(* queue while the threads are busy, and then to be refused.               *)
(***************************************************************************)
EXTENDS ThreadPool

MCMaxQueued == 2
MCMaxConnections == MCMaxQueued + 3
=============================================================================
