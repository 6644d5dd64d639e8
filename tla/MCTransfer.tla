----------------------------- MODULE MCTransfer -----------------------------
(***************************************************************************)
(* Constants for model checking Transfer. A file is at most three chunks   *)
(* of two bytes; its bytes are numbered, so a misplaced one shows.         *)
(***************************************************************************)
EXTENDS TransferDelivers, TLC

CONSTANTS t1, t2, t3

MCByte == 1..7

\* One transfer of a file with a short last chunk.
ShortLast == t1 :> <<1, 2, 3>>
MCUnedited == [t \in Tokens |-> {Registered[t]}]

\* The boundaries of the chunk size: no bytes, a whole chunk, two chunks and a byte.
Boundaries == t1 :> <<>> @@ t2 :> <<1, 2>> @@ t3 :> <<1, 2, 3, 4, 5>>

\* A file that was edited after it was registered is longer, or has as many bytes.
Longer(file)  == Append(file, 6)
Changed(file) == [i \in DOMAIN file |-> IF i = 1 THEN 7 ELSE file[i]]
MCEdited ==
    [t \in Tokens |-> {Registered[t], Longer(Registered[t]), Changed(Registered[t])}]

\* Two transfers, each of which may find its file edited in one of these ways.
TwoFiles == t1 :> <<1, 2, 3>> @@ t2 :> <<4, 5>>
EachEdited ==
    t1 :> {TwoFiles[t1], Changed(TwoFiles[t1])} @@ t2 :> {TwoFiles[t2], Longer(TwoFiles[t2])}

\* The receivers are interchangeable.
Receivers == Permutations(Clients)
=============================================================================
