------------------------------ MODULE Transfer ------------------------------
(***************************************************************************)
(* The whole file transfer: one sending host, the receivers that were told *)
(* one of its secrets, and the network between them.                       *)
(***************************************************************************)
EXTENDS Session, Client

CONSTANT
    Prompt   \* TRUE: the network is fast, a timeout means that nothing is on its
             \* way, and does not let the first chunk overtake the ServerHello

ASSUME TransferAssumption == Prompt \in BOOLEAN

vars == <<sessionVars, clientVars, netVars>>

-----------------------------------------------------------------------------

\* A receiver is started with a secret that some run has printed.
Begin(c) ==
    /\ \E id \in transfers : Start(c, id)
    /\ UNCHANGED sessionVars

\* The sender's poll finds the signal that a receiver of its transfer has posted.
Signalled(c) ==
    /\ pc[c] # "idle"
    /\ token[c] = transfer_id
    /\ Serve(c)
    /\ UNCHANGED clientVars

SenderStep(p) == Receive(p) /\ UNCHANGED clientVars

\* p arrives before the ServerHello that the session sent it after.
Overtakes(p) ==
    /\ p.kind \in {"data", "done"}
    /\ \E q \in net : q.kind = "server_hello" /\ q.ep = p.ep

ClientStep(c, p) ==
    /\ Prompt => ~Overtakes(p)
    /\ TakePacket(c, p)
    /\ UNCHANGED sessionVars

\* The sender has read, or will read, what was sent to it.
Awaited(p) ==
    \/ p.to = "client"
    \/ p.to = "sender" /\ phase = "serving"

\* Nothing on its way could still lead to an answer for c.
Silence(c) ==
    /\ phase # "polling"
    /\ \A p \in net : p.ep[1] = c => ~Awaited(p)

TimeoutStep(c) ==
    /\ Prompt => Silence(c)
    /\ Timeout(c)
    /\ UNCHANGED sessionVars

Stop == Terminate /\ UNCHANGED clientVars

Rerun == (\E id \in Tokens : SendAgain(id)) /\ UNCHANGED clientVars

Loss == (\E p \in net : Lose(p)) /\ UNCHANGED <<sessionVars, clientVars>>

-----------------------------------------------------------------------------

Init == NetInit /\ SessionInit /\ ClientInit

Next ==
    \/ \E c \in Clients : Begin(c)
    \/ \E c \in Clients : Signalled(c)
    \/ \E p \in net : SenderStep(p)
    \/ \E c \in Clients, p \in net : ClientStep(c, p)
    \/ \E c \in Clients : TimeoutStep(c)
    \/ Stop
    \/ Rerun
    \/ Loss

Spec == Init /\ [][Next]_vars

\* A receiving process that waits is woken by a datagram or by its timer.
ClientFairness ==
    \A c \in Clients :
        /\ WF_vars(Begin(c))
        /\ WF_vars((\E p \in net : ClientStep(c, p)) \/ TimeoutStep(c))

\* A timely network delivers what it does not lose: the sender's poll succeeds,
\* each datagram in flight is handed over, and timers only fire in silence.
SenderFairness ==
    /\ WF_vars(\E c \in Clients : Signalled(c))
    /\ WF_vars(\E p \in net : SenderStep(p))

ClientFairSpec == Spec /\ ClientFairness
FairSpec == Spec /\ ClientFairness /\ SenderFairness

-----------------------------------------------------------------------------
(* Type invariant.                                                           *)

\* Every variable keeps to the values its C++ counterpart can have.
TypeOK == NetTypeOK /\ SessionTypeOK /\ ClientTypeOK

-----------------------------------------------------------------------------
(* Safety.                                                                   *)

\* What the user of "zapshare get" relies on: if the program succeeds, the output
\* file is the file that was registered under the secret (the size and hash checks
\* of receive_file), whatever the network, the disk or a changed file did.
CompleteMeansIntact ==
    \A c \in Clients : pc[c] = "complete" => out[c] = Registered[token[c]]

\* c was given the secret of the current run. The session of a later run also serves
\* a receiver that was given an earlier run's, see AcceptHello.
OfThisRun(c) == token[c] = transfer_id

\* Stop-and-wait puts the chunks together in order, each once: the output file of a
\* receiver of the current run is always the first current_offset bytes of the file
\* being sent, whatever earlier runs have left on the network.
OutputIsPrefix ==
    \A c \in Clients :
        (OfThisRun(c) /\ out_ok[c]) =>
            /\ current_offset[c] <= Len(m_file_path)
            /\ out[c] = SubSeq(m_file_path, 1, current_offset[c])

\* So its hash comparison at the end can only fail if the file was changed after it
\* was registered or the disk did not take the output.
IntactFileNeverMismatches ==
    \A c \in Clients :
        (OfThisRun(c) /\ pc[c] = "mismatch") =>
            ~out_ok[c] \/ m_file_path # Registered[transfer_id]

\* The session's place in the file is never ahead of every receiver: what it treats
\* as acknowledged was written by someone, across restarts of the sender too.
AckedBySomeone ==
    m_offset > 0 => \E c \in Clients : m_offset <= current_offset[c]

\* The session's place in the file is never ahead of the peer it serves: handle_ack
\* is moved only by acks of that peer. (One run.)
AckedByPeer ==
    m_state = "Transferring" => m_offset <= current_offset[m_remote_endpoint[1]]

\* No receiver of the current run is ahead of what the session has sent: at most the
\* chunk in hand is unacknowledged.
OneChunkInFlight ==
    \A c \in Clients :
        OfThisRun(c) => current_offset[c] <= m_offset + m_last_chunk_size

\* The "sender != peer" filter of receive_file never drops the session's chunks:
\* the session answers over the path its ServerHello took.
PeerFilterKeepsChunks ==
    \A p \in net :
        (/\ p.kind \in {"data", "done"} /\ p.id = transfer_id
         /\ pc[p.ep[1]] = "receiving" /\ OfThisRun(p.ep[1]))
            => p.ep[2] = peer[p.ep[1]]

\* When the sender reports completion, some receiver has taken as many bytes as the
\* file has. It cannot claim more, see FinalAckMeansComplete.
ReportMeansAllTaken ==
    reported => \E c \in Clients : current_offset[c] >= Len(m_file_path)

\* session.hpp:182 prints "Final ACK received. Transfer complete" when the session
\* gets the final ack, which receive_file sends only when it has verified the file.
FinalAckMeansComplete ==
    reported => \E c \in Clients : pc[c] = "complete"

\* server.cpp:12 prints "Your file was transfered successfully" when the process
\* ends because the session has closed.
GoodbyeMeansReported ==
    (phase = "exited" /\ m_state = "Closed") => reported

-----------------------------------------------------------------------------
(* The inductive invariant from which TransferProofs derives TypeOK,         *)
(* CompleteMeansIntact, AckedBySomeone and ReportMeansAllTaken.              *)

\* An authenticated session has loaded the row of some registered transfer.
RowLoaded ==
    m_state \in {"Authenticated", "Transferring"} => m_transfer_metadata \in transfers

\* A client that has not stopped has an attempt, and a retry, left.
RetriesLeft ==
    \A c \in Clients :
        /\ pc[c] \in {"idle", "handshake"} => attempt[c] < MaxRetries
        /\ pc[c] \in {"idle"} \cup Running => retries[c] < MaxRetries

\* What is on its way to the sender was sent by a client, and an ack never exceeds
\* what its client has taken, then or later.
Taken(p) ==
    p.to = "sender" =>
        /\ p.kind \in {"punch", "client_hello", "get", "ack"}
        /\ p.kind = "ack" => p.off <= current_offset[p.ep[1]]

AcksAreTaken == \A p \in net : Taken(p)

\* What the session keeps for retransmission was sent to a client.
CacheIsAnswer == \A q \in m_last_packet_cache : q.to = "client"

\* Done is sent, and awaits its ack, at the end of the file.
DoneAtEnd ==
    m_last_chunk_done => m_last_chunk_size = 0 /\ m_offset >= Len(m_file_path)

IInv ==
    /\ TypeOK
    /\ RowLoaded
    /\ RetriesLeft
    /\ AcksAreTaken
    /\ CacheIsAnswer
    /\ DoneAtEnd
    /\ CompleteMeansIntact
    /\ AckedBySomeone
    /\ ReportMeansAllTaken

-----------------------------------------------------------------------------
(* Liveness.                                                                 *)

\* A receiver always gives up or finishes: the retry counts of perform_handshake
\* and receive_file bound its work. (One run.)
ClientStops ==
    \A c \in Clients : <>(pc[c] \in Results)

\* If the network is timely and loses fewer datagrams than the retries make up for,
\* and none of the kinds that are sent only once, every receiver gets the file.
TransferCompletes ==
    \A c \in Clients : <>(pc[c] = "complete")

AckLost == \E i \in DOMAIN losses : losses[i] = "ack"

\* And the sender learns of it and exits, unless an ack was lost: if that is the last
\* one, it waits for ever.
SenderExits == <>((phase = "exited" /\ reported) \/ AckLost)
=============================================================================
