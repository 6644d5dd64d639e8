------------------------------ MODULE Delivery ------------------------------
(***************************************************************************)
(* What one run of "zapshare send" promises to those who fetch its file,   *)
(* without datagrams: receivers take the file front to back, never more    *)
(* than one chunk ahead of what the sender has had confirmed; what they    *)
(* take reaches their output unless it has failed; they succeed only with  *)
(* the file that was registered; and the sender counts as confirmed, and   *)
(* in the end reports, only what some receiver has taken.                  *)
(***************************************************************************)
EXTENDS Naturals, Sequences

CONSTANTS
    Receivers,   \* the receiving processes
    Files,       \* the files that may be registered, or sent
    ChunkSize    \* how far a receiver may be ahead of the sender

VARIABLES
    wanted,      \* the file that was registered under the receivers' secret
    file,        \* the file being sent
    confirmed,   \* how many bytes of it the sender takes for delivered
    told,        \* the sender has reported completion
    taken,       \* how many bytes each receiver has taken
    output,      \* the bytes in each receiver's output file
    status       \* of each receiver

vars == <<wanted, file, confirmed, told, taken, output, status>>

Init ==
    /\ wanted \in Files
    /\ file \in Files
    /\ confirmed = 0
    /\ told = FALSE
    /\ taken = [r \in Receivers |-> 0]
    /\ output = [r \in Receivers |-> <<>>]
    /\ status = [r \in Receivers |-> "waiting"]

\* A receiver takes the next piece of the file. An output that has missed a piece
\* never grows again.
Take(r) ==
    /\ status[r] = "waiting"
    /\ \E n \in taken[r] + 1 .. confirmed + ChunkSize :
        /\ n <= Len(file)
        /\ taken' = [taken EXCEPT ![r] = n]
        /\ \/ output' = output
           \/ /\ Len(output[r]) = taken[r]
              /\ output' = [output EXCEPT ![r] = SubSeq(file, 1, n)]
    /\ UNCHANGED <<wanted, file, confirmed, told, status>>

\* The sender learns of a piece that some receiver has taken.
Confirm ==
    /\ \E r \in Receivers : \E n \in confirmed + 1 .. taken[r] : confirmed' = n
    /\ UNCHANGED <<wanted, file, told, taken, output, status>>

\* The sender says that the transfer is complete, once, and learns nothing more.
Report ==
    /\ confirmed = Len(file)
    /\ \E r \in Receivers : taken[r] = Len(file)
    /\ ~told
    /\ told' = TRUE
    /\ UNCHANGED <<wanted, file, confirmed, taken, output, status>>

Succeed(r) ==
    /\ status[r] = "waiting"
    /\ output[r] = wanted
    /\ status' = [status EXCEPT ![r] = "succeeded"]
    /\ UNCHANGED <<wanted, file, confirmed, told, taken, output>>

Fail(r) ==
    /\ status[r] = "waiting"
    /\ status' = [status EXCEPT ![r] = "failed"]
    /\ UNCHANGED <<wanted, file, confirmed, told, taken, output>>

Next ==
    \/ \E r \in Receivers : Take(r) \/ Succeed(r) \/ Fail(r)
    \/ Confirm
    \/ Report

Spec == Init /\ [][Next]_vars
=============================================================================
