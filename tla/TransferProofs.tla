--------------------------- MODULE TransferProofs ---------------------------
(***************************************************************************)
(* What of Transfer holds for any number of receivers, paths, transfers    *)
(* and runs, any files, any chunk size and any network and disk faults:    *)
(* the invariant IInv is inductive, and so what follows from it.           *)
(***************************************************************************)
EXTENDS Transfer, TLAPS

\* The constants, as every proof below needs them.
LEMMA ConstantTypes ==
    /\ NoToken \notin Tokens
    /\ Registered \in [Tokens -> Seq(Byte)]
    /\ Served \in [Tokens -> SUBSET Seq(Byte)]
    /\ PayloadSize \in Nat /\ PayloadSize > 0
    /\ MaxLosses \in Nat
    /\ MaxRuns \in Nat /\ MaxRuns > 0
    /\ MaxRetries \in Nat /\ MaxRetries > 0
    /\ Public \in Paths
    /\ Clients # {}
BY WireAssumption, NetworkAssumption, SessionAssumption, ClientAssumption DEF Public

-----------------------------------------------------------------------------
(* Datagrams.                                                                *)

Kinds == HandshakeKinds \cup ControlKinds \cup {"punch", "none"}

LEMMA NoLoadType == NoLoad \in Seq(Byte)
BY DEF NoLoad

LEMMA MisreadType ==
    ASSUME NEW p \in Packets, NEW kind \in Kinds
    PROVE  Misread(p, kind) \in Packets
BY NoLoadType DEF Misread, Packet, Packets, Kinds

\* Whichever parser reads a datagram, it sees a datagram.
LEMMA ReadType ==
    ASSUME NEW p \in Packets
    PROVE  /\ AsControl(p) \in Packets
           /\ AsHandshake(p) \in Packets
<1>1. ASSUME p.kind \in HandshakeKinds PROVE ControlTwin[p.kind] \in Kinds
    BY <1>1 DEF HandshakeKinds, ControlKinds, ControlTwin, Kinds
<1>2. ASSUME p.kind \in ControlKinds PROVE HandshakeTwin[p.kind] \in Kinds
    BY <1>2 DEF HandshakeKinds, ControlKinds, HandshakeTwin, Kinds
<1>3. AsControl(p) \in Packets
    BY <1>1, MisreadType DEF AsControl
<1>4. AsHandshake(p) \in Packets
    BY <1>2, MisreadType DEF AsHandshake
<1> QED BY <1>3, <1>4

\* What clients send is never taken for an ack unless it is one.
LEMMA AckIsAck ==
    ASSUME NEW p \in Packets, NEW o,
           p.kind \in {"punch", "client_hello", "get", "ack"},
           AckOf(p, o)
    PROVE  p.kind = "ack" /\ p.off = o
<1>1. CASE p.kind = "client_hello"
    <2>1. AsControl(p).kind = "get"
        BY <1>1 DEF AsControl, ControlTwin, HandshakeKinds, Misread, Packet
    <2> QED BY <2>1 DEF AckOf
<1>2. CASE p.kind # "client_hello"
    BY <1>2 DEF AckOf, AsControl, HandshakeKinds
<1> QED BY <1>1, <1>2

-----------------------------------------------------------------------------
(* Chunks.                                                                   *)

\* A chunk is a piece of the file of at most PayloadSize bytes, and it is empty only
\* at the end of the file.
LEMMA ChunkType ==
    ASSUME NEW file \in Seq(Byte), NEW o \in Nat
    PROVE  /\ Chunk(file, o) \in Seq(Byte)
           /\ Len(Chunk(file, o)) \in 0..PayloadSize
           /\ Chunk(file, o) = <<>> => o >= Len(file)
<1> DEFINE last == IF o + PayloadSize <= Len(file) THEN o + PayloadSize ELSE Len(file)
<1>1. PayloadSize \in Nat /\ PayloadSize > 0 /\ Len(file) \in Nat
    BY ConstantTypes
<1>2. last \in Nat /\ last <= Len(file) /\ last <= o + PayloadSize
    BY <1>1
<1>3. Chunk(file, o) = SubSeq(file, o + 1, last)
    BY DEF Chunk
<1>4. SubSeq(file, o + 1, last) \in Seq(Byte)
    BY <1>1, <1>2
<1>5. Len(SubSeq(file, o + 1, last)) = IF o + 1 <= last THEN last - o ELSE 0
    BY <1>1, <1>2
<1>6. Chunk(file, o) = <<>> => o >= Len(file)
    <2> SUFFICES ASSUME Chunk(file, o) = <<>> PROVE o >= Len(file)
        OBVIOUS
    <2>1. Len(<<>>) = 0
        OBVIOUS
    <2>2. SubSeq(file, o + 1, last) = <<>>
        BY <1>3
    <2>3. Len(SubSeq(file, o + 1, last)) = 0
        BY <2>1, <2>2
    <2>4. last <= o
        <3> HIDE DEF last
        <3> QED BY <2>3, <1>1, <1>2, <1>5
    <2> QED BY <2>4, <1>1
<1>7. Len(Chunk(file, o)) \in 0..PayloadSize
    BY <1>1, <1>2, <1>3, <1>5
<1> QED BY <1>3, <1>4, <1>6, <1>7

-----------------------------------------------------------------------------
(* The sender.                                                               *)

\* The parts of IInv about the session, and about the network.
SessionInv ==
    /\ SessionTypeOK
    /\ RowLoaded
    /\ CacheIsAnswer
    /\ DoneAtEnd
    /\ AckedBySomeone
    /\ ReportMeansAllTaken

NetInv ==
    /\ NetTypeOK
    /\ AcksAreTaken

ClientInv ==
    /\ ClientTypeOK
    /\ RetriesLeft
    /\ CompleteMeansIntact

LEMMA IInvParts == IInv <=> SessionInv /\ NetInv /\ ClientInv
BY DEF IInv, TypeOK, SessionInv, NetInv, ClientInv

\* The file being sent is a sequence of bytes.
LEMMA FileType ==
    ASSUME SessionTypeOK
    PROVE  m_file_path \in Seq(Byte) /\ Len(m_file_path) \in Nat
BY ConstantTypes DEF SessionTypeOK

\* Adding datagrams that are typed and taken keeps the network's invariant, if no
\* client goes back.
LEMMA NetGrows ==
    ASSUME NetInv,
           current_offset \in [Clients -> Nat], current_offset' \in [Clients -> Nat],
           \A c \in Clients : current_offset[c] <= current_offset'[c],
           NEW answers, answers \subseteq Packets, \A q \in answers : Taken(q)',
           net' \subseteq net \cup answers,
           LossesOK'
    PROVE  NetInv'
<1>1. NetTypeOK'
    BY DEF NetInv, NetTypeOK, LossesOK
<1>2. ASSUME NEW q \in net PROVE Taken(q)'
    <2>1. q.ep[1] \in Clients /\ q.off \in Nat
        BY <1>2 DEF NetInv, NetTypeOK, Packets, Endpoints
    <2>2. Taken(q)
        BY <1>2 DEF NetInv, AcksAreTaken
    <2> QED BY <2>1, <2>2 DEF Taken
<1>3. AcksAreTaken'
    BY <1>2 DEF AcksAreTaken
<1> QED BY <1>1, <1>3 DEF NetInv

\* So do the session's answers.
LEMMA AnswersKeepNet ==
    ASSUME NetInv, ClientTypeOK, UNCHANGED clientVars,
           NEW p, NEW answers, Deliver(p, answers),
           answers \subseteq Packets, \A q \in answers : q.to = "client"
    PROVE  NetInv'
<1>1. \A q \in answers : Taken(q)'
    BY DEF Taken
<1>2. net' \subseteq net \cup answers /\ LossesOK'
    BY DEF Deliver, NetInv, NetTypeOK, LossesOK
<1>3. current_offset \in [Clients -> Nat] /\ current_offset' = current_offset
    BY DEF ClientTypeOK, clientVars
<1> QED BY <1>1, <1>2, <1>3, NetGrows

\* What send_next_chunk sends and remembers.
LEMMA NextChunk ==
    ASSUME SessionTypeOK, m_transfer_metadata \in Tokens, NEW o \in Nat,
           SendNextChunk(o)
    PROVE  /\ ChunkPacket(o) \in Packets
           /\ ChunkPacket(o).to = "client"
           /\ m_offset' = o
           /\ m_last_chunk_size' \in 0..PayloadSize
           /\ m_last_chunk_done' \in BOOLEAN
           /\ m_last_packet_cache' = {ChunkPacket(o)}
           /\ m_last_chunk_done' => m_last_chunk_size' = 0 /\ o >= Len(m_file_path)
<1> DEFINE bytes == Chunk(m_file_path, o)
<1>1. /\ bytes \in Seq(Byte)
      /\ Len(bytes) \in 0..PayloadSize
      /\ bytes = <<>> => o >= Len(m_file_path)
    BY FileType, ChunkType
<1>2. Len(Registered[m_transfer_metadata]) \in Nat
    BY ConstantTypes
<1>3. m_remote_endpoint \in Endpoints
    BY DEF SessionTypeOK
<1>4. /\ ChunkPacket(o) \in Packets
      /\ ChunkPacket(o).to = "client"
    <2>1. CASE bytes = <<>>
        <3>1. ChunkPacket(o) = Packet("client", m_remote_endpoint, "done", 0,
                        m_transfer_metadata, Len(Registered[m_transfer_metadata]), NoLoad)
            BY <2>1 DEF ChunkPacket, Done
        <3> QED BY <3>1, <1>2, <1>3, NoLoadType DEF Packet, Packets, ControlKinds
    <2>2. CASE bytes # <<>>
        <3>1. ChunkPacket(o) = Packet("client", m_remote_endpoint, "data", 0,
                                      m_transfer_metadata, o, bytes)
            BY <2>2 DEF ChunkPacket, DataChunk
        <3> QED BY <3>1, <1>1, <1>3 DEF Packet, Packets, ControlKinds
    <2> QED BY <2>1, <2>2
<1>5. Len(<<>>) = 0
    OBVIOUS
<1> QED BY <1>1, <1>4, <1>5 DEF SendNextChunk

\* The handlers of a datagram received while WaitingHello.
LEMMA HandshakeHandlers ==
    ASSUME SessionInv, NetInv, ClientTypeOK, UNCHANGED <<clientVars, runVars>>,
           phase' \in {"serving", "exited"},
           NEW p \in net,
           IgnoreUnparsed(p) \/ ExpectHello(p) \/ RejectHello(p) \/ AcceptHello(p)
    PROVE  SessionInv' /\ NetInv'
<1> USE DEF SessionInv, SessionTypeOK, States
<1>1. p \in Packets /\ p.ep \in Endpoints
    BY DEF NetInv, NetTypeOK, Packets
<1>2. ASSUME NEW id \in Tokens
      PROVE  /\ HandshakeError(p.ep) \in Packets
             /\ HandshakeError(p.ep).to = "client"
             /\ ServerHello(p.ep, id) \in Packets
             /\ ServerHello(p.ep, id).to = "client"
    BY <1>1, NoLoadType DEF HandshakeError, ServerHello, Packet, Packets, HandshakeKinds
<1>3. CASE IgnoreUnparsed(p)
    <2>1. NetInv'
        BY <1>3, AnswersKeepNet DEF IgnoreUnparsed
    <2>2. SessionInv'
        BY <1>1, <1>3 DEF IgnoreUnparsed, chunkVars, runVars, clientVars, RowLoaded,
            CacheIsAnswer, DoneAtEnd, AckedBySomeone, ReportMeansAllTaken
    <2> QED BY <2>1, <2>2
<1>4. CASE ExpectHello(p)
    <2>1. NetInv'
        BY <1>2, <1>4, AnswersKeepNet DEF ExpectHello
    <2>2. SessionInv'
        BY <1>1, <1>4 DEF ExpectHello, chunkVars, runVars, clientVars, RowLoaded,
            CacheIsAnswer, DoneAtEnd, AckedBySomeone, ReportMeansAllTaken
    <2> QED BY <2>1, <2>2
<1>5. CASE RejectHello(p)
    <2>1. NetInv'
        BY <1>2, <1>5, AnswersKeepNet DEF RejectHello
    <2>2. SessionInv'
        BY <1>1, <1>5 DEF RejectHello, chunkVars, runVars, clientVars, RowLoaded,
            CacheIsAnswer, DoneAtEnd, AckedBySomeone, ReportMeansAllTaken
    <2> QED BY <2>1, <2>2
<1>6. CASE AcceptHello(p)
    <2> DEFINE hello == AsHandshake(p)
    <2>1. hello.id \in transfers
        BY <1>6 DEF AcceptHello, ValidateToken
    <2>2. NetInv'
        BY <1>2, <1>6, <2>1, AnswersKeepNet DEF AcceptHello
    <2>3. SessionInv'
        BY <1>1, <1>6, <2>1 DEF AcceptHello, chunkVars, runVars, clientVars, RowLoaded,
            CacheIsAnswer, DoneAtEnd, AckedBySomeone, ReportMeansAllTaken
    <2> QED BY <2>2, <2>3
<1> QED BY <1>3, <1>4, <1>5, <1>6

\* The handlers of a datagram received once the session is authenticated.
LEMMA ControlHandlers ==
    ASSUME SessionInv, NetInv, ClientTypeOK, UNCHANGED <<clientVars, runVars>>,
           phase' \in {"serving", "exited"},
           NEW p \in net, p.to = "sender",
           \/ StartTransfer(p) \/ FailToOpen(p) \/ ResendChunk(p)
           \/ AdvanceOnAck(p) \/ CompleteOnAck(p) \/ OtherControl(p)
    PROVE  SessionInv' /\ NetInv'
<1>1. /\ SessionTypeOK /\ m_offset \in Nat /\ m_last_chunk_size \in 0..PayloadSize
      /\ p \in Packets /\ p.ep[1] \in Clients /\ p.off \in Nat
      /\ current_offset \in [Clients -> Nat]
      /\ PayloadSize \in Nat
    BY ConstantTypes DEF SessionInv, SessionTypeOK, NetInv, NetTypeOK, Packets, Endpoints,
        ClientTypeOK
<1>2. ASSUME m_state \in {"Authenticated", "Transferring"}
      PROVE  m_transfer_metadata \in Tokens
    BY <1>2 DEF SessionInv, SessionTypeOK, RowLoaded
<1>3. ASSUME NEW o, AckOf(p, o)
      PROVE  o = p.off /\ p.off <= current_offset[p.ep[1]]
    <2>1. Taken(p)
        BY DEF NetInv, AcksAreTaken
    <2> QED BY <1>1, <1>3, <2>1, AckIsAck DEF Taken
<1>4. ASSUME StartTransfer(p) PROVE SessionInv' /\ NetInv'
    <2>1. m_transfer_metadata \in Tokens /\ m_transfer_metadata \in transfers
        BY <1>2, <1>4 DEF StartTransfer, SessionInv, RowLoaded
    <2>2. SendNextChunk(m_offset) /\ Deliver(p, {ChunkPacket(m_offset)})
        BY <1>4 DEF StartTransfer
    <2>3. NetInv'
        BY <1>1, <2>1, <2>2, NextChunk, AnswersKeepNet
    <2>4. SessionInv'
        BY <1>1, <1>4, <2>1, <2>2, NextChunk
        DEF StartTransfer, SessionInv, SessionTypeOK, States, runVars, clientVars,
            RowLoaded, CacheIsAnswer, DoneAtEnd, AckedBySomeone, ReportMeansAllTaken
    <2> QED BY <2>3, <2>4
<1>5. ASSUME FailToOpen(p) PROVE SessionInv' /\ NetInv'
    <2> DEFINE error == ControlError(m_remote_endpoint, AsControl(p).id)
    <2>1. AsControl(p).id \in Tokens \cup {NoToken}
        BY <1>1, ReadType DEF Packets
    <2>2. error \in Packets /\ error.to = "client"
        BY <1>1, <2>1, NoLoadType
        DEF SessionTypeOK, ControlError, Packet, Packets, ControlKinds
    <2>3. NetInv'
        <3> HIDE DEF error
        <3>1. Deliver(p, {error})
            BY <1>5 DEF FailToOpen, error
        <3> QED BY <2>2, <3>1, AnswersKeepNet
    <2>4. SessionInv'
        BY <1>1, <1>5
        DEF FailToOpen, SessionInv, SessionTypeOK, States, runVars, clientVars, chunkVars,
            RowLoaded, CacheIsAnswer, DoneAtEnd, AckedBySomeone, ReportMeansAllTaken
    <2> QED BY <2>3, <2>4
<1>6. ASSUME ResendChunk(p) PROVE SessionInv' /\ NetInv'
    <2>1. CachedPacket \subseteq Packets /\ \A q \in CachedPacket : q.to = "client"
        BY DEF SessionInv, SessionTypeOK, CacheIsAnswer, CachedPacket, Packets
    <2>2. NetInv'
        BY <1>6, <2>1, AnswersKeepNet DEF ResendChunk
    <2>3. SessionInv'
        BY <1>1, <1>6
        DEF ResendChunk, SessionInv, SessionTypeOK, States, runVars, clientVars, chunkVars,
            RowLoaded, CacheIsAnswer, DoneAtEnd, AckedBySomeone, ReportMeansAllTaken
    <2> QED BY <2>2, <2>3
<1>7. ASSUME AdvanceOnAck(p) PROVE SessionInv' /\ NetInv'
    <2> DEFINE next == m_offset + m_last_chunk_size
    <2>1. /\ next \in Nat
          /\ AckOf(p, next)
          /\ SendNextChunk(next)
          /\ Deliver(p, {ChunkPacket(next)})
          /\ m_state = "Transferring"
          /\ UNCHANGED <<m_state, m_remote_endpoint, m_transfer_metadata, reported>>
        BY <1>1, <1>7 DEF AdvanceOnAck
    <2> HIDE DEF next
    <2>2. m_transfer_metadata \in Tokens
        BY <1>2, <2>1
    <2>3. next <= current_offset[p.ep[1]]
        BY <1>3, <2>1
    <2>4. NetInv'
        BY <1>1, <2>1, <2>2, NextChunk, AnswersKeepNet
    <2>5. AckedBySomeone'
        BY <1>1, <2>1, <2>2, <2>3, NextChunk DEF AckedBySomeone, clientVars
    <2>6. SessionTypeOK' /\ RowLoaded' /\ CacheIsAnswer' /\ DoneAtEnd'
        BY <1>1, <2>1, <2>2, NextChunk
        DEF SessionInv, SessionTypeOK, runVars, RowLoaded, CacheIsAnswer, DoneAtEnd
    <2>7. ReportMeansAllTaken'
        BY <2>1 DEF SessionInv, ReportMeansAllTaken, runVars, clientVars
    <2> QED BY <2>4, <2>5, <2>6, <2>7 DEF SessionInv
<1>8. ASSUME CompleteOnAck(p) PROVE SessionInv' /\ NetInv'
    <2>1. NetInv'
        BY <1>8, AnswersKeepNet DEF CompleteOnAck
    <2>2. Len(m_file_path) <= current_offset[p.ep[1]]
        <3>1. m_last_chunk_size = 0 /\ m_offset >= Len(m_file_path)
            BY <1>8 DEF CompleteOnAck, SessionInv, DoneAtEnd
        <3>2. p.off = m_offset + m_last_chunk_size /\ p.off <= current_offset[p.ep[1]]
            BY <1>3, <1>8 DEF CompleteOnAck
        <3> QED BY <1>1, <3>1, <3>2, FileType
    <2>3. ReportMeansAllTaken'
        BY <1>1, <2>2, FileType DEF ReportMeansAllTaken, runVars, clientVars
    <2>4. SessionTypeOK' /\ RowLoaded' /\ CacheIsAnswer' /\ DoneAtEnd' /\ AckedBySomeone'
        BY <1>8
        DEF CompleteOnAck, SessionInv, SessionTypeOK, States, runVars, clientVars,
            RowLoaded, CacheIsAnswer, DoneAtEnd, AckedBySomeone
    <2> QED BY <2>1, <2>3, <2>4 DEF SessionInv
<1>9. ASSUME OtherControl(p) PROVE SessionInv' /\ NetInv'
    <2>1. NetInv'
        BY <1>9, AnswersKeepNet DEF OtherControl
    <2>2. SessionInv'
        BY <1>1, <1>9
        DEF OtherControl, SessionInv, SessionTypeOK, States, runVars, clientVars, chunkVars,
            RowLoaded, CacheIsAnswer, DoneAtEnd, AckedBySomeone, ReportMeansAllTaken
    <2> QED BY <2>1, <2>2
<1> QED BY <1>4, <1>5, <1>6, <1>7, <1>8, <1>9

LEMMA ReceiveKeepsInv ==
    ASSUME SessionInv, NetInv, ClientTypeOK, NEW p, Receive(p), UNCHANGED clientVars
    PROVE  SessionInv' /\ NetInv'
<1>1. /\ p \in net /\ p.to = "sender"
      /\ phase' \in {"serving", "exited"}
      /\ UNCHANGED <<clientVars, runVars>>
    BY DEF Receive
<1> QED BY <1>1, HandshakeHandlers, ControlHandlers DEF Receive, HandlePacket

\* The punches a process sends are datagrams, and no acks.
LEMMA PunchesTaken ==
    ASSUME NEW to \in {"client", "sender"}, NEW c \in Clients,
           NEW q \in {Punch(to, <<c, path>>, i) : path \in Paths, i \in 1..Punches}
    PROVE  q \in Packets /\ Taken(q)'
<1>1. PICK path \in Paths, i \in 1..Punches : q = Punch(to, <<c, path>>, i)
    BY SMTT(60)
<1> QED BY <1>1, NoLoadType DEF Punch, Packet, Packets, Endpoints, Taken

\* The steps of the sending process that no datagram causes.
LEMMA ServeKeepsInv ==
    ASSUME SessionInv, NetInv, ClientTypeOK, NEW c \in Clients, Serve(c),
           UNCHANGED clientVars
    PROVE  SessionInv' /\ NetInv'
<1> DEFINE punches == {Punch("client", <<c, path>>, i) : path \in Paths, i \in 1..Punches}
<1>1. punches \subseteq Packets /\ \A q \in punches : Taken(q)'
    <2>1. ASSUME NEW q \in punches PROVE q \in Packets /\ Taken(q)'
        BY PunchesTaken
    <2> HIDE DEF punches
    <2> QED BY <2>1
<1>2. net' = net \cup punches /\ losses' = losses
    BY DEF Serve, Send
<1>3. NetInv'
    <2> HIDE DEF punches
    <2>1. /\ net' \subseteq net \cup punches /\ LossesOK'
          /\ current_offset \in [Clients -> Nat] /\ current_offset' = current_offset
        BY <1>2 DEF NetInv, NetTypeOK, LossesOK, ClientTypeOK, clientVars
    <2> QED BY <1>1, <2>1, NetGrows
<1>4. <<c, Public>> \in Endpoints
    BY ConstantTypes DEF Endpoints
<1>5. SessionInv'
    BY <1>4 DEF Serve, SessionInv, SessionTypeOK, runVars, clientVars, chunkVars,
        RowLoaded, CacheIsAnswer, DoneAtEnd, AckedBySomeone, ReportMeansAllTaken
<1> QED BY <1>3, <1>5

LEMMA TerminateKeepsInv ==
    ASSUME SessionInv, NetInv, Terminate, UNCHANGED clientVars
    PROVE  SessionInv' /\ NetInv'
BY DEF Terminate, SessionInv, SessionTypeOK, runVars, clientVars, chunkVars, RowLoaded,
    CacheIsAnswer, DoneAtEnd, AckedBySomeone, ReportMeansAllTaken, NetInv, NetTypeOK, LossesOK,
    AcksAreTaken, Taken

LEMMA SendAgainKeepsInv ==
    ASSUME SessionInv, NetInv, NEW id \in Tokens, SendAgain(id), UNCHANGED clientVars
    PROVE  SessionInv' /\ NetInv'
<1>1. NetInv'
    BY DEF SendAgain, clientVars, NetInv, NetTypeOK, LossesOK, AcksAreTaken, Taken
<1>2. SessionTypeOK'
    <2>1. runs' \in 1..MaxRuns
        BY ConstantTypes DEF SendAgain, SessionInv, SessionTypeOK
    <2>2. m_last_chunk_size' \in 0..PayloadSize /\ m_offset' \in Nat
        BY ConstantTypes DEF SendAgain, FreshSession
    <2> QED BY <2>1, <2>2
        DEF SendAgain, FreshSession, SessionInv, SessionTypeOK, States
<1>3. RowLoaded' /\ CacheIsAnswer' /\ DoneAtEnd' /\ AckedBySomeone' /\ ReportMeansAllTaken'
    BY DEF SendAgain, FreshSession, RowLoaded, CacheIsAnswer, DoneAtEnd, AckedBySomeone,
        ReportMeansAllTaken
<1> QED BY <1>1, <1>2, <1>3 DEF SessionInv

-----------------------------------------------------------------------------
(* The receivers.                                                            *)

\* The session's invariant survives a step of a receiver that does not go back.
LEMMA SessionUndisturbed ==
    ASSUME SessionInv, UNCHANGED sessionVars,
           current_offset \in [Clients -> Nat], current_offset' \in [Clients -> Nat],
           \A c \in Clients : current_offset[c] <= current_offset'[c]
    PROVE  SessionInv'
<1>1. SessionTypeOK' /\ RowLoaded' /\ CacheIsAnswer' /\ DoneAtEnd'
    BY DEF SessionInv, SessionTypeOK, sessionVars, RowLoaded, CacheIsAnswer, DoneAtEnd
<1>2. AckedBySomeone'
    BY DEF SessionInv, SessionTypeOK, sessionVars, AckedBySomeone
<1>3. ReportMeansAllTaken'
    BY FileType DEF SessionInv, sessionVars, ReportMeansAllTaken
<1> QED BY <1>1, <1>2, <1>3 DEF SessionInv

\* What receivers send is typed, and taken.
LEMMA HellosTaken ==
    ASSUME NEW c \in Clients, NEW id \in Tokens \cup {NoToken}
    PROVE  Hellos(c, id) \subseteq Packets /\ \A q \in Hellos(c, id) : Taken(q)'
<1> SUFFICES ASSUME NEW path \in Paths
             PROVE  /\ ClientHello(<<c, path>>, id) \in Packets
                    /\ Taken(ClientHello(<<c, path>>, id))'
    BY DEF Hellos
<1> QED BY NoLoadType DEF ClientHello, Packet, Packets, HandshakeKinds, Endpoints, Taken

LEMMA GetTaken ==
    ASSUME NEW ep \in Endpoints, NEW id \in Tokens \cup {NoToken}
    PROVE  GetRequest(ep, id) \in Packets /\ Taken(GetRequest(ep, id))'
BY NoLoadType DEF GetRequest, Packet, Packets, ControlKinds, Endpoints, Taken

LEMMA AckToTaken ==
    ASSUME ClientTypeOK, NEW c \in Clients, NEW n \in Nat, n <= current_offset'[c]
    PROVE  AckTo(c, n) \subseteq Packets /\ \A q \in AckTo(c, n) : Taken(q)'
BY NoLoadType
DEF ClientTypeOK, AckTo, Ack, Packet, Packets, ControlKinds, Endpoints, Taken

\* What a step of a receiver shows: its own invariant, that it does not go back, and
\* that what it sends is typed and taken.
ClientStepInv ==
    /\ ClientInv'
    /\ NetInv'
    /\ \A c \in Clients : current_offset[c] <= current_offset'[c]

\* A receiver's step adds such datagrams to the network.
LEMMA ClientAnswers ==
    ASSUME NetInv, ClientTypeOK, ClientInv',
           \A c \in Clients : current_offset[c] <= current_offset'[c],
           NEW answers, answers \subseteq Packets, \A q \in answers : Taken(q)',
           Send(answers) \/ \E p \in net : Deliver(p, answers)
    PROVE  ClientStepInv
<1>1. net' \subseteq net \cup answers /\ LossesOK'
    BY DEF Send, Deliver, NetInv, NetTypeOK, LossesOK
<1>2. current_offset \in [Clients -> Nat] /\ current_offset' \in [Clients -> Nat]
    BY DEF ClientTypeOK, ClientInv
<1>3. NetInv'
    BY <1>1, <1>2, NetGrows
<1> QED BY <1>3 DEF ClientStepInv

\* A step that leaves current_offset alone.
LEMMA Standing ==
    ASSUME ClientTypeOK, UNCHANGED current_offset
    PROVE  \A c \in Clients : current_offset[c] <= current_offset'[c]
BY DEF ClientTypeOK

LEMMA StartKeepsInv ==
    ASSUME ClientInv, NetInv, NEW c \in Clients, NEW id \in Tokens, Start(c, id)
    PROVE  ClientStepInv
<1> DEFINE punches == {Punch("sender", <<c, path>>, i) : path \in Paths, i \in 1..Punches}
<1>1. ASSUME NEW q \in punches PROVE q \in Packets /\ Taken(q)'
    BY PunchesTaken
<1>2. Send(punches \cup Hellos(c, id))
    BY DEF Start
<1>3. ClientInv'
    <2>1. ClientTypeOK'
        BY DEF Start, ClientInv, ClientTypeOK, Running
    <2>2. RetriesLeft'
        BY DEF Start, ClientInv, ClientTypeOK, RetriesLeft, Running
    <2>3. CompleteMeansIntact'
        BY DEF Start, ClientInv, ClientTypeOK, CompleteMeansIntact
    <2> QED BY <2>1, <2>2, <2>3 DEF ClientInv
<1>4. \A d \in Clients : current_offset[d] <= current_offset'[d]
    BY Standing DEF Start, ClientInv
<1>5. \A q \in punches \cup Hellos(c, id) : q \in Packets /\ Taken(q)'
    <2> HIDE DEF punches
    <2> QED BY <1>1, HellosTaken
<1> HIDE DEF punches
<1> QED BY <1>2, <1>3, <1>4, <1>5, ClientAnswers DEF ClientInv

\* The attempt counter of perform_handshake.
LEMMA NextAttemptKeepsInv ==
    ASSUME ClientInv, NEW c \in Clients, pc[c] = "handshake", NextAttempt(c)
    PROVE  ClientInv' /\ \A d \in Clients : current_offset[d] <= current_offset'[d]
<1>1. attempt[c] < MaxRetries /\ attempt[c] \in Nat /\ MaxRetries \in Nat
    BY ConstantTypes DEF ClientInv, ClientTypeOK, RetriesLeft, Running
<1>2. ClientTypeOK'
    BY <1>1 DEF NextAttempt, ClientInv, ClientTypeOK, Results, Running
<1>3. RetriesLeft'
    BY <1>1 DEF NextAttempt, ClientInv, ClientTypeOK, RetriesLeft, Running
<1>4. CompleteMeansIntact'
    BY DEF NextAttempt, ClientInv, ClientTypeOK, CompleteMeansIntact
<1>5. \A d \in Clients : current_offset[d] <= current_offset'[d]
    BY Standing DEF NextAttempt, ClientInv
<1> QED BY <1>2, <1>3, <1>4, <1>5 DEF ClientInv

LEMMA HellosIfLeftTaken ==
    ASSUME ClientTypeOK, NEW c \in Clients
    PROVE  /\ HellosIfLeft(c) \subseteq Packets
           /\ \A q \in HellosIfLeft(c) : Taken(q)'
BY HellosTaken DEF HellosIfLeft, ClientTypeOK

LEMMA TimeoutKeepsInv ==
    ASSUME ClientInv, NetInv, NEW c \in Clients, Timeout(c)
    PROVE  ClientStepInv
<1>1. CASE HandshakeTimeout(c)
    BY <1>1, NextAttemptKeepsInv, HellosIfLeftTaken, ClientAnswers
    DEF HandshakeTimeout, ClientInv
<1>2. CASE ReceiveTimeout(c)
    <2> DEFINE answers == IF current_offset[c] = 0
                          THEN {GetRequest(<<c, peer[c]>>, token[c])}
                          ELSE AckTo(c, current_offset[c])
    <2>1. retries[c] < MaxRetries /\ retries[c] \in Nat /\ MaxRetries \in Nat
        BY <1>2, ConstantTypes DEF ReceiveTimeout, ClientInv, ClientTypeOK, RetriesLeft, Running
    <2>2. ClientTypeOK'
        BY <1>2, <2>1 DEF ReceiveTimeout, ClientInv, ClientTypeOK, Results, Running
    <2>3. RetriesLeft'
        BY <1>2, <2>1 DEF ReceiveTimeout, ClientInv, ClientTypeOK, RetriesLeft, Running
    <2>4. CompleteMeansIntact'
        BY <1>2 DEF ReceiveTimeout, ClientInv, ClientTypeOK, CompleteMeansIntact
    <2>5. \A d \in Clients : current_offset[d] <= current_offset'[d]
        BY <1>2, Standing DEF ReceiveTimeout, ClientInv
    <2>6. <<c, peer[c]>> \in Endpoints /\ token[c] \in Tokens \cup {NoToken}
          /\ current_offset[c] \in Nat
        BY DEF ClientInv, ClientTypeOK, Endpoints
    <2>7. answers \subseteq Packets /\ \A q \in answers : Taken(q)'
        BY <2>5, <2>6, GetTaken, AckToTaken DEF ClientInv
    <2>8. Send(answers)
        BY <1>2 DEF ReceiveTimeout
    <2> HIDE DEF answers
    <2> QED BY <2>2, <2>3, <2>4, <2>5, <2>7, <2>8, ClientAnswers DEF ClientInv
<1> QED BY <1>1, <1>2 DEF Timeout

\* The datagram handlers of perform_handshake and receive_file.
LEMMA TakePacketKeepsInv ==
    ASSUME ClientInv, NetInv, NEW c \in Clients, NEW p, TakePacket(c, p)
    PROVE  ClientStepInv
<1>1. /\ p \in net /\ p \in Packets
      /\ ClientTypeOK /\ RetriesLeft /\ CompleteMeansIntact
    BY DEF TakePacket, NetInv, NetTypeOK, ClientInv
<1>2. /\ <<c, peer[c]>> \in Endpoints /\ token[c] \in Tokens \cup {NoToken}
      /\ current_offset[c] \in Nat
      /\ p.ep[2] \in Paths
      /\ 0 \in 0..MaxRetries /\ 0 < MaxRetries
    BY <1>1, ConstantTypes DEF ClientTypeOK, Endpoints, Packets
<1>3. CASE Connect(c, p)
    <2>1. ClientTypeOK'
        BY <1>1, <1>2, <1>3 DEF Connect, ClientTypeOK, Running
    <2>2. RetriesLeft'
        BY <1>1, <1>3 DEF Connect, ClientTypeOK, RetriesLeft, Running
    <2>3. CompleteMeansIntact'
        BY <1>1, <1>3 DEF Connect, ClientTypeOK, CompleteMeansIntact
    <2> DEFINE ep == <<c, p.ep[2]>>
               get == GetRequest(ep, token[c])
    <2>4. {get} \subseteq Packets /\ \A q \in {get} : Taken(q)'
        <3>1. ep \in Endpoints
            BY <1>2 DEF Endpoints
        <3> HIDE DEF ep
        <3> QED BY <1>2, <3>1, GetTaken
    <2>5. \A d \in Clients : current_offset[d] <= current_offset'[d]
        BY <1>1, <1>3, Standing DEF Connect
    <2>6. Deliver(p, {get})
        BY <1>3 DEF Connect
    <2> HIDE DEF get
    <2> QED BY <1>1, <2>1, <2>2, <2>3, <2>4, <2>5, <2>6, ClientAnswers DEF ClientInv
<1>4. CASE WasteAttempt(c, p)
    BY <1>1, <1>4, NextAttemptKeepsInv, HellosIfLeftTaken, ClientAnswers DEF WasteAttempt
<1>5. CASE SkipStranger(c, p)
    <2>1. ClientInv' /\ \A d \in Clients : current_offset[d] <= current_offset'[d]
        BY <1>1, <1>5 DEF SkipStranger, clientVars, ClientInv, ClientTypeOK, RetriesLeft,
            CompleteMeansIntact
    <2> QED BY <1>1, <1>5, <2>1, ClientAnswers DEF SkipStranger
<1>6. CASE WriteChunk(c, p)
    <2> DEFINE data == AsControl(p)
               next == current_offset[c] + Len(data.load)
    <2>1. data.load \in Seq(Byte) /\ next \in Nat /\ current_offset[c] <= next
        BY <1>1, <1>2, ReadType DEF Packets
    <2>2. /\ out_ok' \in [Clients -> BOOLEAN]
          /\ out' \in [Clients -> Seq(Byte)]
          /\ \A d \in Clients \ {c} : out'[d] = out[d]
          /\ current_offset' = [current_offset EXCEPT ![c] = next]
          /\ Deliver(p, AckTo(c, next))
        <3>1. PICK written \in {out_ok[c]} \cup (IF "disk" \in Faults THEN {FALSE} ELSE {}) :
                /\ out_ok' = [out_ok EXCEPT ![c] = written]
                /\ out' = [out EXCEPT ![c] = IF written THEN @ \o data.load ELSE @]
            BY <1>6 DEF WriteChunk
        <3>2. out \in [Clients -> Seq(Byte)] /\ out_ok \in [Clients -> BOOLEAN]
            BY <1>1 DEF ClientTypeOK
        <3>3. out[c] \o data.load \in Seq(Byte)
            BY <2>1, <3>2
        <3>4. written \in BOOLEAN
            BY <3>2
        <3>5. current_offset' = [current_offset EXCEPT ![c] = next]
              /\ Deliver(p, AckTo(c, next))
            BY <1>6 DEF WriteChunk
        <3> HIDE DEF data, next
        <3> QED BY <3>1, <3>2, <3>3, <3>4, <3>5
    <2>3. /\ pc[c] = "receiving"
          /\ retries' = [retries EXCEPT ![c] = 0]
          /\ UNCHANGED <<pc, token, attempt, peer>>
        BY <1>6 DEF WriteChunk
    <2> HIDE DEF data, next
    <2>4. ClientTypeOK'
        BY <1>1, <1>2, <2>1, <2>2, <2>3 DEF ClientTypeOK
    <2>5. RetriesLeft'
        BY <1>1, <1>2, <2>3 DEF ClientTypeOK, RetriesLeft
    <2>6. CompleteMeansIntact'
        BY <1>1, <2>2, <2>3 DEF CompleteMeansIntact
    <2>7. \A d \in Clients : current_offset[d] <= current_offset'[d]
        BY <1>1, <2>1, <2>2 DEF ClientTypeOK
    <2>8. AckTo(c, next) \subseteq Packets /\ \A q \in AckTo(c, next) : Taken(q)'
        BY <1>1, <2>1, <2>2, AckToTaken DEF ClientTypeOK
    <2> QED BY <1>1, <2>2, <2>4, <2>5, <2>6, <2>7, <2>8, ClientAnswers DEF ClientInv
<1>7. CASE ReAck(c, p)
    <2>1. ClientInv'
        BY <1>1, <1>2, <1>7 DEF ReAck, ClientInv, ClientTypeOK, RetriesLeft,
            CompleteMeansIntact
    <2>2. \A d \in Clients : current_offset[d] <= current_offset'[d]
        BY <1>1, <1>7, Standing DEF ReAck
    <2>3. /\ AckTo(c, current_offset[c]) \subseteq Packets
          /\ \A q \in AckTo(c, current_offset[c]) : Taken(q)'
        BY <1>1, <1>2, <2>2, AckToTaken
    <2> QED BY <1>1, <1>7, <2>1, <2>2, <2>3, ClientAnswers DEF ReAck
<1>8. CASE Finish(c, p)
    <2> DEFINE answers == IF Intact(c) THEN AckTo(c, current_offset[c]) ELSE {}
    <2>1. ClientTypeOK'
        BY <1>1, <1>2, <1>8 DEF Finish, ClientTypeOK, Results
    <2>2. RetriesLeft'
        BY <1>1, <1>2, <1>8 DEF Finish, ClientTypeOK, RetriesLeft, Running
    <2>3. CompleteMeansIntact'
        BY <1>1, <1>8 DEF Finish, Intact, ClientTypeOK, CompleteMeansIntact
    <2>4. \A d \in Clients : current_offset[d] <= current_offset'[d]
        BY <1>1, <1>8, Standing DEF Finish
    <2>5. answers \subseteq Packets /\ \A q \in answers : Taken(q)'
        BY <1>1, <1>2, <2>4, AckToTaken
    <2>6. Deliver(p, answers)
        BY <1>8 DEF Finish
    <2> HIDE DEF answers
    <2> QED BY <1>1, <2>1, <2>2, <2>3, <2>4, <2>5, <2>6, ClientAnswers DEF ClientInv
<1>9. CASE AcceptError(c, p) \/ SkipUseless(c, p)
    <2>1. ClientTypeOK'
        BY <1>1, <1>2, <1>9 DEF AcceptError, SkipUseless, ClientTypeOK, Results
    <2>2. RetriesLeft'
        BY <1>1, <1>2, <1>9 DEF AcceptError, SkipUseless, ClientTypeOK, RetriesLeft, Running
    <2>3. CompleteMeansIntact'
        BY <1>1, <1>9 DEF AcceptError, SkipUseless, ClientTypeOK, CompleteMeansIntact
    <2>4. \A d \in Clients : current_offset[d] <= current_offset'[d]
        BY <1>1, <1>9, Standing DEF AcceptError, SkipUseless
    <2>5. Deliver(p, {})
        BY <1>9 DEF AcceptError, SkipUseless
    <2> QED BY <1>1, <2>1, <2>2, <2>3, <2>4, <2>5, ClientAnswers DEF ClientInv
<1> QED BY <1>3, <1>4, <1>5, <1>6, <1>7, <1>8, <1>9 DEF TakePacket

-----------------------------------------------------------------------------
(* The inductive invariant.                                                  *)

LEMMA InitIInv == Init => IInv
<1> SUFFICES ASSUME Init PROVE IInv
    OBVIOUS
<1> USE ConstantTypes
<1>1. SessionInv
    <2>1. SessionTypeOK
        <3>1. runs \in 1..MaxRuns /\ m_last_chunk_size \in 0..PayloadSize
            BY DEF Init, SessionInit
        <3> QED BY <3>1 DEF Init, SessionInit, SessionTypeOK, States
    <2>2. RowLoaded /\ CacheIsAnswer /\ DoneAtEnd /\ AckedBySomeone /\ ReportMeansAllTaken
        BY DEF Init, SessionInit, RowLoaded, CacheIsAnswer, DoneAtEnd, AckedBySomeone,
            ReportMeansAllTaken
    <2> QED BY <2>1, <2>2 DEF SessionInv
<1>2. NetInv
    BY DEF Init, NetInit, NetInv, NetTypeOK, LossesOK, AcksAreTaken
<1>3. ClientInv
    <2>1. <<>> \in Seq(Byte)
        OBVIOUS
    <2> QED BY <2>1 DEF Init, ClientInit, ClientInv, ClientTypeOK, RetriesLeft,
                Running, CompleteMeansIntact
<1> QED BY <1>1, <1>2, <1>3, IInvParts

\* A receiver's step, or no step of the receivers.
LEMMA ClientStepKeepsIInv ==
    ASSUME IInv, ClientStepInv, UNCHANGED sessionVars
    PROVE  IInv'
<1>1. current_offset \in [Clients -> Nat] /\ current_offset' \in [Clients -> Nat]
    BY IInvParts DEF ClientInv, ClientStepInv, ClientTypeOK
<1>2. SessionInv'
    BY <1>1, IInvParts, SessionUndisturbed DEF ClientStepInv
<1> QED BY <1>2, IInvParts DEF ClientStepInv, IInv, TypeOK, SessionInv, NetInv, ClientInv

LEMMA SenderStepKeepsIInv ==
    ASSUME IInv, SessionInv' /\ NetInv', UNCHANGED clientVars
    PROVE  IInv'
<1>1. ClientInv'
    BY IInvParts DEF ClientInv, ClientTypeOK, RetriesLeft, CompleteMeansIntact, clientVars
<1> QED BY <1>1 DEF IInv, TypeOK, SessionInv, NetInv, ClientInv

LEMMA NextIInv == IInv /\ [Next]_vars => IInv'
<1> SUFFICES ASSUME IInv, [Next]_vars PROVE IInv'
    OBVIOUS
<1>1. SessionInv /\ NetInv /\ ClientInv /\ ClientTypeOK
    BY IInvParts DEF ClientInv
<1>2. ASSUME NEW c \in Clients, Begin(c) PROVE IInv'
    <2>1. PICK id \in transfers : Start(c, id)
        BY <1>2 DEF Begin
    <2>2. id \in Tokens
        BY <1>1 DEF SessionInv, SessionTypeOK
    <2> QED BY <1>1, <1>2, <2>1, <2>2, StartKeepsInv, ClientStepKeepsIInv DEF Begin
<1>3. ASSUME NEW c \in Clients, Signalled(c) PROVE IInv'
    BY <1>1, <1>3, ServeKeepsInv, SenderStepKeepsIInv DEF Signalled
<1>4. ASSUME NEW p \in net, SenderStep(p) PROVE IInv'
    BY <1>1, <1>4, ReceiveKeepsInv, SenderStepKeepsIInv DEF SenderStep
<1>5. ASSUME NEW c \in Clients, NEW p \in net, ClientStep(c, p) PROVE IInv'
    BY <1>1, <1>5, TakePacketKeepsInv, ClientStepKeepsIInv DEF ClientStep
<1>6. ASSUME NEW c \in Clients, TimeoutStep(c) PROVE IInv'
    BY <1>1, <1>6, TimeoutKeepsInv, ClientStepKeepsIInv DEF TimeoutStep
<1>7. CASE Stop
    BY <1>1, <1>7, TerminateKeepsInv, SenderStepKeepsIInv DEF Stop
<1>8. CASE Rerun
    BY <1>1, <1>8, SendAgainKeepsInv, SenderStepKeepsIInv DEF Rerun
<1>9. CASE Loss
    <2>1. PICK p \in net : Lose(p)
        BY <1>9 DEF Loss
    <2>2. NetTypeOK'
        BY <1>1, <2>1, ConstantTypes DEF Lose, NetInv, NetTypeOK, LossesOK
    <2>3. AcksAreTaken'
        BY <1>1, <1>9, <2>1 DEF Lose, Loss, NetInv, AcksAreTaken, Taken, clientVars
    <2>4. SessionInv'
        BY <1>1, <1>9, SessionUndisturbed DEF Loss, clientVars, ClientTypeOK
    <2> QED BY <1>9, <2>2, <2>3, <2>4, SenderStepKeepsIInv DEF Loss, NetInv
<1>10. CASE UNCHANGED vars
    <2>1. UNCHANGED sessionVars /\ UNCHANGED clientVars /\ UNCHANGED netVars
        BY <1>10 DEF vars
    <2>2. NetInv'
        BY <1>1, <2>1 DEF netVars, clientVars, NetInv, NetTypeOK, LossesOK, AcksAreTaken, Taken
    <2>3. SessionInv'
        BY <1>1, <2>1, SessionUndisturbed DEF clientVars, ClientTypeOK
    <2> QED BY <2>1, <2>2, <2>3, SenderStepKeepsIInv
<1> QED BY <1>2, <1>3, <1>4, <1>5, <1>6, <1>7, <1>8, <1>9, <1>10 DEF Next

LEMMA IInvAlways == Spec => []IInv
<1>1. Init => IInv
    BY InitIInv
<1>2. IInv /\ [Next]_vars => IInv'
    BY NextIInv
<1> QED BY <1>1, <1>2, PTL DEF Spec

-----------------------------------------------------------------------------
(* Theorems.                                                                 *)

\* Every variable of sender, receivers and network keeps its type: the counters of
\* client.cpp stay within MAX_RETRIES, a session never answers without the row of a
\* registered transfer.
THEOREM TypeCorrect == Spec => []TypeOK
<1>1. IInv => TypeOK
    BY DEF IInv
<1> QED BY <1>1, IInvAlways, PTL

\* receive_file succeeds only with the registered file, whatever the network, the
\* disk, an edited file or a restarted sender did.
THEOREM CompleteIsIntact == Spec => []CompleteMeansIntact
<1>1. IInv => CompleteMeansIntact
    BY DEF IInv
<1> QED BY <1>1, IInvAlways, PTL

\* handle_ack never moves the session past what every receiver has taken.
THEOREM NeverAheadOfAll == Spec => []AckedBySomeone
<1>1. IInv => AckedBySomeone
    BY DEF IInv
<1> QED BY <1>1, IInvAlways, PTL

\* "Transfer complete" is printed only when some receiver has taken as many bytes as
\* the file has.
THEOREM ReportIsTaken == Spec => []ReportMeansAllTaken
<1>1. IInv => ReportMeansAllTaken
    BY DEF IInv
<1> QED BY <1>1, IInvAlways, PTL

\* With a single receiver, handle_ack is moved only by the peer it serves, although it
\* does not look at the source of an ack.
THEOREM NeverAheadOfOnlyPeer ==
    ASSUME NEW c, Clients = {c}
    PROVE  Spec => []AckedByPeer
<1>1. IInv => AckedByPeer
    <2> SUFFICES ASSUME IInv PROVE m_offset <= current_offset[m_remote_endpoint[1]]
        BY DEF AckedByPeer
    <2>1. /\ m_remote_endpoint[1] = c
          /\ m_offset \in Nat
          /\ current_offset[c] \in Nat
        BY DEF IInv, TypeOK, SessionTypeOK, ClientTypeOK, Endpoints
    <2> QED BY <2>1 DEF IInv, AckedBySomeone
<1> QED BY <1>1, IInvAlways, PTL
=============================================================================
