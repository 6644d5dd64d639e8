------------------------------ MODULE Session ------------------------------
(***************************************************************************)
(* The sending process: "zapshare send" from the moment it has registered  *)
(* its transfer (cli_tool/main.cpp), the receive loop of                   *)
(* cli_tool/src/server.cpp, and the protocol state machine of              *)
(* cli_tool/include/session.hpp. Variables carry the names of the members  *)
(* of class Session. The process has no timer: once it serves, it acts     *)
(* only on datagrams.                                                      *)
(***************************************************************************)
EXTENDS Network

CONSTANTS
    PayloadSize,  \* UdpConfig::PAYLOAD_SIZE
    Served,       \* the contents the file of a transfer may have when it is read
    MaxRuns       \* bound on the number of times "zapshare send" is run

ASSUME SessionAssumption ==
    /\ PayloadSize \in Nat \ {0}
    /\ Served \in [Tokens -> SUBSET Seq(Byte)]
    /\ MaxRuns \in Nat \ {0}

VARIABLES
    runs,                 \* how many times "zapshare send" was run
    transfers,            \* the tokens registered so far, by all runs
    transfer_id,          \* the token of the current run
    m_file_path,          \* the contents of the file the current run serves
    phase,                \* "polling" for a signal, "serving", or "exited"
    m_state,              \* Session's State
    m_remote_endpoint,    \* whom the session answers
    m_transfer_metadata,  \* the token whose registered row the session loaded
    m_offset,             \* the offset of the chunk last sent
    m_last_chunk_size,
    m_last_chunk_done,    \* the packet last sent was Done
    m_last_packet_cache,  \* {} (empty string), or {the packet last sent}
    reported              \* "Transfer complete" was printed

sessionVars ==
    <<runs, transfers, transfer_id, m_file_path, phase, m_state,
      m_remote_endpoint, m_transfer_metadata, m_offset, m_last_chunk_size,
      m_last_chunk_done, m_last_packet_cache, reported>>

\* What the handlers never touch: it changes only when the program is run.
runVars == <<runs, transfers, transfer_id, m_file_path>>

\* What is not touched before a transfer has started.
chunkVars ==
    <<m_offset, m_last_chunk_size, m_last_chunk_done, m_last_packet_cache, reported>>

States == {"WaitingHello", "Authenticated", "Transferring", "Closed"}

SessionTypeOK ==
    /\ runs \in 1..MaxRuns
    /\ transfers \subseteq Tokens
    /\ transfer_id \in transfers
    /\ m_file_path \in Served[transfer_id]
    /\ phase \in {"polling", "serving", "exited"}
    /\ m_state \in States
    /\ m_remote_endpoint \in Endpoints
    /\ m_transfer_metadata \in transfers \cup {NoToken}
    /\ m_offset \in Nat
    /\ m_last_chunk_size \in 0..PayloadSize
    /\ m_last_chunk_done \in BOOLEAN
    /\ m_last_packet_cache \subseteq Packets
    /\ reported \in BOOLEAN

-----------------------------------------------------------------------------

\* Mutant of Chunk: without the seekg, the bytes come from the start of the file.
ChunkUnsought(file, o) ==
    SubSeq(file, 1, IF o + PayloadSize <= Len(file) THEN PayloadSize ELSE Len(file) - o)

\* ifstream::seekg and read: up to PayloadSize bytes from offset o, none at the end.
Chunk(file, o) ==
    SubSeq(file, o + 1,
           IF o + PayloadSize <= Len(file) THEN o + PayloadSize ELSE Len(file))

\* The packet send_next_chunk sends from offset o.
ChunkPacket(o) ==
    LET bytes == Chunk(m_file_path, o)
    IN  IF bytes = <<>>
        THEN Done(m_remote_endpoint, m_transfer_metadata,
                  Len(Registered[m_transfer_metadata]))
        ELSE DataChunk(m_remote_endpoint, m_transfer_metadata, o, bytes)

\* Mutant of SendNextChunk: the size of a data chunk is not kept.
SendNextChunkSizeless(o) ==
    /\ m_offset' = o
    /\ m_last_chunk_done' = (Chunk(m_file_path, o) = <<>>)
    /\ m_last_packet_cache' = {ChunkPacket(o)}
    /\ UNCHANGED m_last_chunk_size

\* Mutant of SendNextChunk: Done does not reset the size.
SendNextChunkStaleSize(o) ==
    LET bytes == Chunk(m_file_path, o)
    IN  /\ m_offset' = o
        /\ m_last_chunk_size' = IF bytes = <<>> THEN m_last_chunk_size ELSE Len(bytes)
        /\ m_last_chunk_done' = (bytes = <<>>)
        /\ m_last_packet_cache' = {ChunkPacket(o)}

\* send_next_chunk, with m_offset already at o; the caller sends ChunkPacket(o).
SendNextChunk(o) ==
    /\ m_offset' = o
    /\ m_last_chunk_size' = Len(Chunk(m_file_path, o))
    /\ m_last_chunk_done' = (Chunk(m_file_path, o) = <<>>)
    /\ m_last_packet_cache' = {ChunkPacket(o)}

\* Mutant of CachedPacket: nothing was kept for retransmission.
NoCachedPacket == {}

\* The answer of resend_current_chunk. The cache is never empty while Transferring.
CachedPacket == {[q EXCEPT !.ep = m_remote_endpoint] : q \in m_last_packet_cache}

\* validate_token asks the central server for the row of the token. The request
\* may fail, and then the token counts as invalid.
ValidateToken(token) ==
    {token \in transfers} \cup (IF "lookup" \in Faults THEN {FALSE} ELSE {})

-----------------------------------------------------------------------------
(* handle_handshake_packet: any datagram received while WaitingHello makes   *)
(* its source the remote endpoint.                                           *)

\* Not a HandshakePacket: a hole punch.
IgnoreUnparsed(p) ==
    /\ m_state = "WaitingHello"
    /\ ~Parses(p)
    /\ m_remote_endpoint' = p.ep
    /\ Deliver(p, {})
    /\ UNCHANGED <<m_state, m_transfer_metadata, chunkVars>>

\* "Expected client hello!": the session stays as it is.
ExpectHello(p) ==
    /\ m_state = "WaitingHello"
    /\ Parses(p)
    /\ AsHandshake(p).kind # "client_hello"
    /\ m_remote_endpoint' = p.ep
    /\ Deliver(p, {HandshakeError(p.ep)})
    /\ UNCHANGED <<m_state, m_transfer_metadata, chunkVars>>

\* Unsupported version, missing token or invalid token: the session closes.
RejectHello(p) ==
    /\ m_state = "WaitingHello"
    /\ LET hello == AsHandshake(p)
       IN  /\ hello.kind = "client_hello"
           /\ \/ hello.version # 1
              \/ hello.id = NoToken
              \/ FALSE \in ValidateToken(hello.id)
    /\ m_state' = "Closed"
    /\ m_remote_endpoint' = p.ep
    /\ Deliver(p, {HandshakeError(p.ep)})
    /\ UNCHANGED <<m_transfer_metadata, chunkVars>>

\* The row loaded is that of the client's token, whichever transfer that is.
AcceptHello(p) ==
    /\ m_state = "WaitingHello"
    /\ LET hello == AsHandshake(p)
       IN  /\ hello.kind = "client_hello"
           /\ hello.version = 1
           /\ hello.id # NoToken
           /\ TRUE \in ValidateToken(hello.id)
           /\ m_transfer_metadata' = hello.id
           /\ Deliver(p, {ServerHello(p.ep, hello.id)})
    /\ m_state' = "Authenticated"
    /\ m_remote_endpoint' = p.ep
    /\ UNCHANGED chunkVars

-----------------------------------------------------------------------------
(* handle_control_packet: the source of the datagram is not looked at.       *)

Get(p) == Parses(p) /\ AsControl(p).kind = "get"

\* Mutant of AckOf: the offset in the ack is not compared.
AckOfAny(p, o) ==
    /\ Parses(p)
    /\ AsControl(p).kind = "ack"

\* An ack with next_offset o.
AckOf(p, o) ==
    /\ Parses(p)
    /\ AsControl(p).kind = "ack"
    /\ AsControl(p).off = o

\* handle_get_request while Authenticated opens the file and sends the first chunk.
StartTransfer(p) ==
    /\ m_state = "Authenticated"
    /\ Get(p)
    /\ m_state' = "Transferring"
    /\ SendNextChunk(m_offset)
    /\ Deliver(p, {ChunkPacket(m_offset)})
    /\ UNCHANGED <<m_remote_endpoint, m_transfer_metadata, reported>>

\* The file cannot be opened any more.
FailToOpen(p) ==
    /\ m_state = "Authenticated"
    /\ Get(p)
    /\ "open" \in Faults
    /\ m_state' = "Closed"
    /\ Deliver(p, {ControlError(m_remote_endpoint, AsControl(p).id)})
    /\ UNCHANGED <<m_remote_endpoint, m_transfer_metadata, chunkVars>>

\* Mutant of ResendChunk: the session answers whoever asked last.
ResendChunkToSource(p) ==
    /\ m_state = "Transferring"
    /\ \/ Get(p)
       \/ AckOf(p, m_offset) /\ m_last_chunk_size # 0
    /\ m_remote_endpoint' = p.ep
    /\ Deliver(p, {[q EXCEPT !.ep = p.ep] : q \in m_last_packet_cache})
    /\ UNCHANGED <<m_state, m_transfer_metadata, chunkVars>>

\* A repeated GetRequest, or an ack of what came before the current chunk. (The
\* ack of m_offset is looked at only if it is not the one that is expected.)
ResendChunk(p) ==
    /\ m_state = "Transferring"
    /\ \/ Get(p)
       \/ AckOf(p, m_offset) /\ m_last_chunk_size # 0
    /\ Deliver(p, CachedPacket)
    /\ UNCHANGED <<m_state, m_remote_endpoint, m_transfer_metadata, chunkVars>>

\* handle_ack of the current chunk sends the next one.
AdvanceOnAck(p) ==
    LET expected_offset == m_offset + m_last_chunk_size
    IN  /\ m_state = "Transferring"
        /\ AckOf(p, expected_offset)
        /\ ~m_last_chunk_done
        /\ SendNextChunk(expected_offset)
        /\ Deliver(p, {ChunkPacket(expected_offset)})
        /\ UNCHANGED <<m_state, m_remote_endpoint, m_transfer_metadata, reported>>

\* Mutant of CompleteOnAck: an ack of the last data chunk also completes.
CompleteOnAckEarly(p) ==
    /\ m_state = "Transferring"
    /\ AckOf(p, m_offset + m_last_chunk_size)
    /\ m_state' = "Closed"
    /\ reported' = TRUE
    /\ Deliver(p, {})
    /\ UNCHANGED <<m_remote_endpoint, m_transfer_metadata, m_offset,
                   m_last_chunk_size, m_last_chunk_done, m_last_packet_cache>>

\* handle_ack once Done was sent: "Final ACK received. Transfer complete".
CompleteOnAck(p) ==
    /\ m_state = "Transferring"
    /\ AckOf(p, m_offset + m_last_chunk_size)
    /\ m_last_chunk_done
    /\ m_state' = "Closed"
    /\ reported' = TRUE
    /\ Deliver(p, {})
    /\ UNCHANGED <<m_remote_endpoint, m_transfer_metadata, m_offset,
                   m_last_chunk_size, m_last_chunk_done, m_last_packet_cache>>

\* Every other datagram is dropped; an error closes the session.
OtherControl(p) ==
    /\ m_state \in {"Authenticated", "Transferring"}
    /\ ~Get(p)
    /\ \/ m_state = "Authenticated"
       \/ /\ ~AckOf(p, m_offset)
          /\ ~AckOf(p, m_offset + m_last_chunk_size)
    /\ m_state' = IF AsControl(p).kind = "ctl_error" THEN "Closed" ELSE m_state
    /\ Deliver(p, {})
    /\ UNCHANGED <<m_remote_endpoint, m_transfer_metadata, chunkVars>>

-----------------------------------------------------------------------------

HandlePacket(p) ==
    \/ IgnoreUnparsed(p)
    \/ ExpectHello(p)
    \/ RejectHello(p)
    \/ AcceptHello(p)
    \/ StartTransfer(p)
    \/ FailToOpen(p)
    \/ ResendChunk(p)
    \/ AdvanceOnAck(p)
    \/ CompleteOnAck(p)
    \/ OtherControl(p)

\* The completion handler of do_receive: one datagram, then the next receive
\* unless the session has closed, which ends io.run() and with it the process.
Receive(p) ==
    /\ phase = "serving"
    /\ p \in net
    /\ p.to = "sender"
    /\ HandlePacket(p)
    /\ phase' = IF m_state' = "Closed" THEN "exited" ELSE "serving"
    /\ UNCHANGED runVars

\* Server::run once poll_for_signal has returned the addresses of client c: punch
\* both of them, create the session, start receiving.
Serve(c) ==
    /\ phase = "polling"
    /\ phase' = "serving"
    /\ m_remote_endpoint' = <<c, Public>>
    /\ Send({Punch("client", <<c, path>>, i) : path \in Paths, i \in 1..Punches})
    /\ UNCHANGED <<runVars, m_state, m_transfer_metadata, chunkVars>>

\* The process ends without closing the session: it is killed, poll_for_signal
\* gives up, send_to throws, or the receive fails.
Terminate ==
    /\ "terminate" \in Faults
    /\ phase # "exited"
    /\ phase' = "exited"
    /\ UNCHANGED <<runVars, m_state, m_remote_endpoint, m_transfer_metadata,
                   chunkVars, net, losses>>

\* A fresh process and a fresh Session.
FreshSession ==
    /\ phase' = "polling"
    /\ m_state' = "WaitingHello"
    /\ m_transfer_metadata' = NoToken
    /\ m_offset' = 0
    /\ m_last_chunk_size' = 0
    /\ m_last_chunk_done' = FALSE
    /\ m_last_packet_cache' = {}
    /\ reported' = FALSE

\* Mutant of SendAgain: the generator starts over and yields the same secrets.
SendAgainSameSecret(token) ==
    /\ phase = "exited"
    /\ runs < MaxRuns
    /\ runs' = runs + 1
    /\ transfers' = transfers \cup {token}
    /\ transfer_id' = token
    /\ m_file_path' \in Served[token]
    /\ FreshSession
    /\ UNCHANGED <<m_remote_endpoint, net, losses>>

\* "zapshare send" is run again: it registers a fresh token and binds the same port.
SendAgain(token) ==
    /\ phase = "exited"
    /\ runs < MaxRuns
    /\ token \notin transfers
    /\ runs' = runs + 1
    /\ transfers' = transfers \cup {token}
    /\ transfer_id' = token
    /\ m_file_path' \in Served[token]
    /\ FreshSession
    /\ UNCHANGED <<m_remote_endpoint, net, losses>>

SessionInit ==
    /\ runs = 1
    /\ \E token \in Tokens :
        /\ transfers = {token}
        /\ transfer_id = token
        /\ m_file_path \in Served[token]
    /\ phase = "polling"
    /\ m_state = "WaitingHello"
    /\ m_remote_endpoint \in Endpoints  \* whatever: there is no Session before Serve
    /\ m_transfer_metadata = NoToken
    /\ m_offset = 0
    /\ m_last_chunk_size = 0
    /\ m_last_chunk_done = FALSE
    /\ m_last_packet_cache = {}
    /\ reported = FALSE
=============================================================================
