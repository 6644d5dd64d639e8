------------------------------- MODULE Client -------------------------------
(***************************************************************************)
(* The receiving processes: run_client_session of cli_tool/src/client.cpp, *)
(* from the hole punch to the end of receive_file. Each waits for one      *)
(* datagram at a time with recv_with_timeout, which returns either the     *)
(* datagram or nothing. What comes before (the lookup, STUN, the signal    *)
(* and the metadata) only fixes the token and the addresses used here.     *)
(***************************************************************************)
EXTENDS Network

CONSTANT
    MaxRetries    \* UdpConfig::MAX_RETRIES

ASSUME ClientAssumption == MaxRetries \in Nat \ {0}

VARIABLES
    pc,             \* what each client is doing, or how it ended
    token,          \* the secret on its command line
    attempt,        \* i of the loop of perform_handshake
    peer,           \* the path over which the ServerHello came (connected_peer)
    current_offset, \* how much of the file receive_file has taken
    retries,        \* receive_file's count of consecutive timeouts
    out,            \* the bytes in the output file
    out_ok          \* the output stream has not failed

clientVars ==
    <<pc, token, attempt, peer, current_offset, retries, out, out_ok>>

Running == {"handshake", "receiving"}
Results == {"complete", "unconnected", "timed_out", "mismatch", "peer_error"}

ClientTypeOK ==
    /\ pc \in [Clients -> {"idle"} \cup Running \cup Results]
    /\ token \in [Clients -> Tokens \cup {NoToken}]
    /\ attempt \in [Clients -> 0..MaxRetries]
    /\ peer \in [Clients -> Paths]
    /\ current_offset \in [Clients -> Nat]
    /\ retries \in [Clients -> 0..MaxRetries]
    /\ out \in [Clients -> Seq(Byte)]
    /\ out_ok \in [Clients -> BOOLEAN]

-----------------------------------------------------------------------------

\* One round of the handshake loop: the hello goes to every candidate address.
Hellos(c, id) == {ClientHello(<<c, path>>, id) : path \in Paths}

AckTo(c, next_offset) == {Ack(<<c, peer[c]>>, token[c], next_offset)}

\* perform_udp_hole_punch and the first round of the handshake.
Start(c, id) ==
    /\ pc[c] = "idle"
    /\ pc' = [pc EXCEPT ![c] = "handshake"]
    /\ token' = [token EXCEPT ![c] = id]
    /\ Send({Punch("sender", <<c, path>>, i) : path \in Paths, i \in 1..Punches}
            \cup Hellos(c, id))
    /\ UNCHANGED <<attempt, peer, current_offset, retries, out, out_ok>>

-----------------------------------------------------------------------------
(* perform_handshake.                                                        *)

Accepts(c, p) ==
    /\ AsHandshake(p).kind = "server_hello"
    /\ AsHandshake(p).id = token[c]

\* A matching ServerHello: its source is the peer, receive_file asks it for the file.
Connect(c, p) ==
    /\ pc[c] = "handshake"
    /\ Accepts(c, p)
    /\ pc' = [pc EXCEPT ![c] = "receiving"]
    /\ peer' = [peer EXCEPT ![c] = p.ep[2]]
    /\ Deliver(p, {GetRequest(<<c, p.ep[2]>>, token[c])})
    /\ UNCHANGED <<token, attempt, current_offset, retries, out, out_ok>>

\* Mutant of NextAttempt: one iteration too many.
NextAttemptOnceMore(c) ==
    /\ attempt' = [attempt EXCEPT ![c] = @ + 1]
    /\ pc' = [pc EXCEPT ![c] =
                IF attempt[c] < MaxRetries THEN @ ELSE "unconnected"]
    /\ UNCHANGED <<token, peer, current_offset, retries, out, out_ok>>


\* The loop's next iteration, if there is one left.
NextAttempt(c) ==
    /\ attempt' = [attempt EXCEPT ![c] = @ + 1]
    /\ pc' = [pc EXCEPT ![c] =
                IF attempt[c] + 1 < MaxRetries THEN @ ELSE "unconnected"]
    /\ UNCHANGED <<token, peer, current_offset, retries, out, out_ok>>

HellosIfLeft(c) ==
    IF attempt[c] + 1 < MaxRetries THEN Hellos(c, token[c]) ELSE {}

\* Any other datagram uses up an attempt, without waiting for the timeout.
WasteAttempt(c, p) ==
    /\ pc[c] = "handshake"
    /\ ~Accepts(c, p)
    /\ NextAttempt(c)
    /\ Deliver(p, HellosIfLeft(c))

HandshakeTimeout(c) ==
    /\ pc[c] = "handshake"
    /\ NextAttempt(c)
    /\ Send(HellosIfLeft(c))

-----------------------------------------------------------------------------
(* receive_file.                                                             *)

FromPeer(c, p) == p.ep[2] = peer[c]

\* "sender != peer": the datagram is skipped and does not count as an answer.
SkipStranger(c, p) ==
    /\ pc[c] = "receiving"
    /\ ~FromPeer(c, p)
    /\ Deliver(p, {})
    /\ UNCHANGED clientVars

IsData(c, p) == AsControl(p).kind = "data" /\ AsControl(p).id = token[c]
IsDone(c, p) == AsControl(p).kind = "done" /\ AsControl(p).id = token[c]

\* Mutant of Due: a chunk the client already has is taken again.
DueAgain(c, data) == data.off <= current_offset[c]

\* The chunk starts where the last one ended.
Due(c, data) == data.off = current_offset[c]

\* Mutant of Intact: only the size is checked.
SameSize(c) == current_offset[c] = Len(Registered[token[c]])

\* compute_file_hash of the output file gives the hash in the registered row. (Two
\* files are taken to have the same hash only if they are equal.)
Intact(c) == out[c] = Registered[token[c]]

\* The chunk that is due is written and acknowledged. A stream that has failed
\* stays failed and writes nothing; nobody looks at its state.
WriteChunk(c, p) ==
    /\ pc[c] = "receiving"
    /\ FromPeer(c, p)
    /\ IsData(c, p)
    /\ LET data == AsControl(p)
           next == current_offset[c] + Len(data.load)
       IN  /\ Due(c, data)
           /\ \E written \in {out_ok[c]} \cup (IF "disk" \in Faults THEN {FALSE} ELSE {}) :
                /\ out_ok' = [out_ok EXCEPT ![c] = written]
                /\ out' = [out EXCEPT ![c] = IF written THEN @ \o data.load ELSE @]
           /\ current_offset' = [current_offset EXCEPT ![c] = next]
           /\ Deliver(p, AckTo(c, next))
    /\ retries' = [retries EXCEPT ![c] = 0]
    /\ UNCHANGED <<pc, token, attempt, peer>>

\* A chunk it already has is only acknowledged, up to where it is now.
ReAck(c, p) ==
    /\ pc[c] = "receiving"
    /\ FromPeer(c, p)
    /\ IsData(c, p)
    /\ AsControl(p).off < current_offset[c]
    /\ retries' = [retries EXCEPT ![c] = 0]
    /\ Deliver(p, AckTo(c, current_offset[c]))
    /\ UNCHANGED <<pc, token, attempt, peer, current_offset, out, out_ok>>

\* Done with the size received: check the hash of the output file, acknowledge.
Finish(c, p) ==
    /\ pc[c] = "receiving"
    /\ FromPeer(c, p)
    /\ IsDone(c, p)
    /\ AsControl(p).off = current_offset[c]
    /\ pc' = [pc EXCEPT ![c] = IF Intact(c) THEN "complete" ELSE "mismatch"]
    /\ Deliver(p, IF Intact(c) THEN AckTo(c, current_offset[c]) ELSE {})
    /\ retries' = [retries EXCEPT ![c] = 0]
    /\ UNCHANGED <<token, attempt, peer, current_offset, out, out_ok>>

AcceptError(c, p) ==
    /\ pc[c] = "receiving"
    /\ FromPeer(c, p)
    /\ AsControl(p).kind = "ctl_error"
    /\ pc' = [pc EXCEPT ![c] = "peer_error"]
    /\ retries' = [retries EXCEPT ![c] = 0]
    /\ Deliver(p, {})
    /\ UNCHANGED <<token, attempt, peer, current_offset, out, out_ok>>

\* Whatever else the peer sends changes nothing, but counts as an answer.
SkipUseless(c, p) ==
    /\ pc[c] = "receiving"
    /\ FromPeer(c, p)
    /\ AsControl(p).kind # "ctl_error"
    /\ IsData(c, p) => AsControl(p).off > current_offset[c]
    /\ IsDone(c, p) => AsControl(p).off # current_offset[c]
    /\ retries' = [retries EXCEPT ![c] = 0]
    /\ Deliver(p, {})
    /\ UNCHANGED <<pc, token, attempt, peer, current_offset, out, out_ok>>

\* Nothing came: ask again, for the file or with an ack, and count.
ReceiveTimeout(c) ==
    /\ pc[c] = "receiving"
    /\ retries' = [retries EXCEPT ![c] = @ + 1]
    /\ pc' = [pc EXCEPT ![c] = IF retries[c] + 1 < MaxRetries THEN @ ELSE "timed_out"]
    /\ Send(IF current_offset[c] = 0
            THEN {GetRequest(<<c, peer[c]>>, token[c])}
            ELSE AckTo(c, current_offset[c]))
    /\ UNCHANGED <<token, attempt, peer, current_offset, out, out_ok>>

-----------------------------------------------------------------------------

TakePacket(c, p) ==
    /\ p \in net
    /\ p.to = "client"
    /\ p.ep[1] = c
    /\ \/ Connect(c, p)
       \/ WasteAttempt(c, p)
       \/ SkipStranger(c, p)
       \/ WriteChunk(c, p)
       \/ ReAck(c, p)
       \/ Finish(c, p)
       \/ AcceptError(c, p)
       \/ SkipUseless(c, p)

Timeout(c) == HandshakeTimeout(c) \/ ReceiveTimeout(c)

ClientInit ==
    /\ pc = [c \in Clients |-> "idle"]
    /\ token = [c \in Clients |-> NoToken]
    /\ attempt = [c \in Clients |-> 0]
    /\ peer = [c \in Clients |-> Public]
    /\ current_offset = [c \in Clients |-> 0]
    /\ retries = [c \in Clients |-> 0]
    /\ out = [c \in Clients |-> <<>>]
    /\ out_ok = [c \in Clients |-> TRUE]
=============================================================================
