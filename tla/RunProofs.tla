------------------------------ MODULE RunProofs ------------------------------
(***************************************************************************)
(* What holds between the current run of "zapshare send" and the receivers *)
(* that were given its secret, for any number of receivers, paths and      *)
(* runs, any files and chunk size, and any network and faults: RunInv is   *)
(* inductive, and the properties of the current run follow from it. If     *)
(* the sender is run once, OneRunInv is inductive too, and so follows that *)
(* a transfer implements Delivery.                                         *)
(***************************************************************************)
EXTENDS TransferDelivers, TransferProofs, SequenceTheorems

-----------------------------------------------------------------------------
(* Chunks.                                                                   *)

\* A chunk that is not empty continues the file where it starts.
LEMMA ChunkContinues ==
    ASSUME NEW file \in Seq(Byte), NEW o \in Nat, Chunk(file, o) # <<>>
    PROVE  /\ o + Len(Chunk(file, o)) <= Len(file)
           /\ Len(Chunk(file, o)) > 0
           /\ SubSeq(file, 1, o) \o Chunk(file, o)
                = SubSeq(file, 1, o + Len(Chunk(file, o)))
<1> DEFINE last == IF o + PayloadSize <= Len(file) THEN o + PayloadSize ELSE Len(file)
<1>1. PayloadSize \in Nat /\ PayloadSize > 0 /\ Len(file) \in Nat
    BY ConstantTypes
<1>2. last \in Nat /\ last <= Len(file)
    BY <1>1
<1>3. Chunk(file, o) = SubSeq(file, o + 1, last)
    BY DEF Chunk
<1> HIDE DEF last
<1>4. o < last
    <2>1. CASE last < o + 1
        <3>1. SubSeq(file, o + 1, last) = <<>>
            BY <1>2, <2>1, SubSeqEmpty
        <3> QED BY <1>3, <3>1
    <2>2. CASE ~(last < o + 1)
        BY <1>2, <2>2
    <2> QED BY <2>1, <2>2
<1>5. Len(Chunk(file, o)) = last - o
    BY <1>1, <1>2, <1>3, <1>4
<1>6. SubSeq(file, 1, o) \o SubSeq(file, o + 1, last) = SubSeq(file, 1, last)
    <2>1. /\ 1 \in 1..Len(file) + 1
          /\ o \in 1 - 1..Len(file)
          /\ last \in o..Len(file)
        BY <1>1, <1>2, <1>4
    <2> QED BY <2>1, ConcatAdjacentSubSeq
<1>7. o + (last - o) = last
    BY <1>2
<1> QED BY <1>2, <1>3, <1>4, <1>5, <1>6, <1>7

-----------------------------------------------------------------------------
(* What a step has to keep.                                                  *)

\* A session that has accepted a hello never waits for one again, and answers the
\* same endpoint; what it has sent of the file only grows.
SessionMoves ==
    /\ UNCHANGED runVars
    /\ m_offset + m_last_chunk_size <= m_offset' + m_last_chunk_size'
    /\ m_state # "WaitingHello" =>
           m_state' # "WaitingHello" /\ m_remote_endpoint' = m_remote_endpoint

\* The facts of IInv that are used below.
LEMMA RunTypes ==
    ASSUME IInv
    PROVE  /\ SessionTypeOK /\ ClientTypeOK
           /\ net \subseteq Packets /\ m_last_packet_cache \subseteq Packets
           /\ m_file_path \in Seq(Byte) /\ Len(m_file_path) \in Nat
           /\ m_offset \in Nat /\ m_last_chunk_size \in 0..PayloadSize
           /\ m_last_chunk_size \in Nat
           /\ current_offset \in [Clients -> Nat]
           /\ transfer_id \in transfers /\ transfers \subseteq Tokens
           /\ NoToken \notin transfers
<1>1. PayloadSize \in Nat /\ NoToken \notin Tokens
    BY ConstantTypes
<1> QED BY <1>1, FileType DEF IInv, TypeOK, NetTypeOK, SessionTypeOK, ClientTypeOK

LEMMA NextTypes ==
    ASSUME IInv'
    PROVE  /\ m_offset' \in Nat /\ m_last_chunk_size' \in Nat
           /\ current_offset' \in [Clients -> Nat]
<1>1. PayloadSize \in Nat
    BY ConstantTypes
<1> QED BY <1>1 DEF IInv, TypeOK, SessionTypeOK, ClientTypeOK

LEMMA AtMostSum ==
    ASSUME NEW i \in Nat, NEW j \in Nat, NEW k \in Nat, NEW l \in Nat,
           NEW m \in Nat, NEW n \in Nat,
           i + j <= k + l, k + l <= m + n
    PROVE  i + j <= m + n
OBVIOUS

LEMMA GenuineStays ==
    ASSUME IInv, IInv', SessionMoves, NEW p, p \in Packets, Genuine(p)
    PROVE  Genuine(p)'
<1>1. /\ m_offset \in Nat /\ m_last_chunk_size \in Nat
      /\ m_offset' \in Nat /\ m_last_chunk_size' \in Nat
    BY RunTypes, NextTypes
<1>2. p.off \in Nat /\ Len(p.load) \in Nat
    BY DEF Packets
<1>3. /\ m_file_path' = m_file_path /\ transfer_id' = transfer_id
      /\ transfers' = transfers
    BY DEF SessionMoves, runVars
<1>4. ASSUME p.off + Len(p.load) <= m_offset + m_last_chunk_size
      PROVE  p.off + Len(p.load) <= m_offset' + m_last_chunk_size'
    <2>1. m_offset + m_last_chunk_size <= m_offset' + m_last_chunk_size'
        BY DEF SessionMoves
    <2> QED BY ONLY <1>1, <1>2, <1>4, <2>1, AtMostSum
<1> QED BY <1>3, <1>4 DEF Genuine, SessionMoves

\* A receiver that takes nothing of the file, keeps its secret and its peer, and does
\* not connect.
LEMMA ClientStays ==
    ASSUME IInv, IInv', SessionMoves, NEW c \in Clients, ClientOfRun(c),
           pc'[c] = pc[c] \/ pc'[c] \in Results,
           pc[c] = "idle" => pc'[c] = "idle",
           current_offset'[c] = current_offset[c], out'[c] = out[c],
           peer'[c] = peer[c], token'[c] = token[c]
    PROVE  ClientOfRun(c)'
<1>1. /\ m_offset \in Nat /\ m_last_chunk_size \in Nat
      /\ m_offset' \in Nat /\ m_last_chunk_size' \in Nat
      /\ current_offset[c] \in Nat
    BY RunTypes, NextTypes
<1>2. /\ m_file_path' = m_file_path /\ transfer_id' = transfer_id
      /\ transfers' = transfers
    BY DEF SessionMoves, runVars
<1>3. OfThisRun(c)' <=> OfThisRun(c)
    BY <1>2 DEF OfThisRun
<1>4. OfThisRun(c) => current_offset'[c] <= m_offset' + m_last_chunk_size'
    BY <1>1 DEF SessionMoves, ClientOfRun
<1>5. pc'[c] = "idle" => pc[c] = "idle"
    BY DEF Results
<1>6. pc'[c] = "receiving" => pc[c] = "receiving"
    BY DEF Results
<1> QED BY <1>2, <1>3, <1>4, <1>5, <1>6 DEF ClientOfRun, SessionMoves

\* A step of the sender.
LEMMA SenderStepOfRun ==
    ASSUME IInv, IInv', RunInv, UNCHANGED clientVars, SessionMoves, SessionOfRun',
           NEW answers, net' \subseteq net \cup answers,
           m_last_packet_cache' \subseteq m_last_packet_cache \cup answers,
           \A q \in answers : Genuine(q)'
    PROVE  RunInv'
<1>1. AllGenuine'
    <2>1. \A q \in net \cup m_last_packet_cache : Genuine(q)'
        BY RunTypes, GenuineStays DEF RunInv, AllGenuine
    <2> QED BY <2>1 DEF AllGenuine
<1>2. ASSUME NEW c \in Clients PROVE ClientOfRun(c)'
    BY <1>2, ClientStays DEF RunInv, clientVars
<1>3. OutputIsPrefix' /\ IntactFileNeverMismatches'
    BY DEF RunInv, OutputIsPrefix, IntactFileNeverMismatches, OfThisRun, SessionMoves,
        runVars, clientVars
<1> QED BY <1>1, <1>2, <1>3 DEF RunInv

\* A step of a receiver.
LEMMA ClientStepOfRun ==
    ASSUME IInv, IInv', RunInv, UNCHANGED sessionVars,
           NEW answers, net' \subseteq net \cup answers,
           \A q \in answers : Genuine(q),
           \A c \in Clients : ClientOfRun(c)',
           OutputIsPrefix', IntactFileNeverMismatches'
    PROVE  RunInv'
<1>1. SessionOfRun'
    BY DEF RunInv, SessionOfRun, sessionVars
<1>2. SessionMoves
    BY RunTypes DEF SessionMoves, sessionVars, runVars
<1>3. \A q \in answers : Genuine(q)'
    BY DEF Genuine, sessionVars
<1>4. AllGenuine'
    <2>1. \A q \in net \cup m_last_packet_cache : Genuine(q)'
        BY <1>2, RunTypes, GenuineStays DEF RunInv, AllGenuine
    <2>2. m_last_packet_cache' = m_last_packet_cache
        BY DEF sessionVars
    <2> QED BY <1>3, <2>1, <2>2 DEF AllGenuine
<1> QED BY <1>1, <1>4 DEF RunInv

-----------------------------------------------------------------------------
(* The sender's steps.                                                       *)

\* What send_next_chunk leaves behind, and sends.
LEMMA ChunkOfRun ==
    ASSUME IInv, m_state' = "Transferring", NEW o \in Nat, SendNextChunk(o),
           m_state \in {"Authenticated", "Transferring"},
           UNCHANGED runVars, UNCHANGED <<m_remote_endpoint, m_transfer_metadata>>,
           NEW q, q = ChunkPacket(o)
    PROVE  /\ Genuine(q)'
           /\ m_last_packet_cache' = {q}
           /\ m_offset' = o
           /\ m_last_chunk_size' = Len(Chunk(m_file_path, o))
           /\ m_last_chunk_done' = (Chunk(m_file_path, o) = <<>>)
<1>1. /\ m_offset' = o
      /\ m_last_chunk_size' = Len(Chunk(m_file_path, o))
      /\ m_last_chunk_done' = (Chunk(m_file_path, o) = <<>>)
      /\ m_last_packet_cache' = {q}
    BY DEF SendNextChunk
<1>2. m_transfer_metadata \in transfers
    BY DEF IInv, RowLoaded
<1>3. /\ m_file_path' = m_file_path /\ transfer_id' = transfer_id
      /\ transfers' = transfers
    BY DEF runVars
<1>4. o + Len(Chunk(m_file_path, o)) <= o + Len(Chunk(m_file_path, o))
    <2>1. Len(Chunk(m_file_path, o)) \in Nat
        BY RunTypes, ChunkType, ConstantTypes
    <2> QED BY <2>1
<1>5. CASE Chunk(m_file_path, o) = <<>>
    <2>1. /\ q.kind = "done" /\ q.ep = m_remote_endpoint
          /\ q.id = m_transfer_metadata
          /\ q.off = Len(Registered[m_transfer_metadata])
        BY <1>5 DEF ChunkPacket, Done, Packet
    <2> QED BY <1>1, <1>2, <1>3, <2>1 DEF Genuine
<1>6. CASE Chunk(m_file_path, o) # <<>>
    <2>1. /\ q.kind = "data" /\ q.ep = m_remote_endpoint
          /\ q.id = m_transfer_metadata
          /\ q.off = o /\ q.load = Chunk(m_file_path, o)
        BY <1>6 DEF ChunkPacket, DataChunk, Packet
    <2> QED BY <1>1, <1>2, <1>3, <1>4, <1>6, <2>1 DEF Genuine
<1> QED BY <1>1, <1>5, <1>6

\* The handlers of a datagram received while WaitingHello.
LEMMA HandshakeOfRun ==
    ASSUME IInv, IInv', RunInv, UNCHANGED clientVars, UNCHANGED runVars,
           phase = "serving", phase' \in {"serving", "exited"},
           NEW p \in net,
           IgnoreUnparsed(p) \/ ExpectHello(p) \/ RejectHello(p) \/ AcceptHello(p)
    PROVE  RunInv'
<1>1. /\ m_state = "WaitingHello" /\ UNCHANGED chunkVars
      /\ m_state' \in {"WaitingHello", "Authenticated", "Closed"}
    BY DEF IgnoreUnparsed, ExpectHello, RejectHello, AcceptHello
<1>2. SessionMoves
    BY <1>1, RunTypes DEF SessionMoves, chunkVars
<1>3. SessionOfRun'
    BY <1>1 DEF RunInv, SessionOfRun, chunkVars
<1>4. m_last_packet_cache' = m_last_packet_cache
    BY <1>1 DEF chunkVars
<1>5. PICK ep : ep = p.ep
    OBVIOUS
<1>6. CASE IgnoreUnparsed(p)
    <2>1. PICK answers : answers = {}
        OBVIOUS
    <2>2. /\ net' \subseteq net \cup answers
          /\ m_last_packet_cache' \subseteq m_last_packet_cache \cup answers
        BY <1>4, <1>6, <2>1 DEF IgnoreUnparsed, Deliver
    <2>3. \A q \in answers : Genuine(q)'
        BY <2>1
    <2> QED BY <1>2, <1>3, <2>2, <2>3, SenderStepOfRun
<1>7. CASE ExpectHello(p) \/ RejectHello(p)
    <2>1. PICK answers : answers = {HandshakeError(ep)}
        OBVIOUS
    <2>2. /\ net' \subseteq net \cup answers
          /\ m_last_packet_cache' \subseteq m_last_packet_cache \cup answers
        BY <1>4, <1>5, <1>7, <2>1 DEF ExpectHello, RejectHello, Deliver
    <2>3. \A q \in answers : Genuine(q)'
        BY <2>1 DEF HandshakeError, Packet, Genuine
    <2> QED BY <1>2, <1>3, <2>2, <2>3, SenderStepOfRun
<1>8. CASE AcceptHello(p)
    <2>1. PICK id : id = AsHandshake(p).id
        OBVIOUS
    <2>2. PICK answers : answers = {ServerHello(ep, id)}
        OBVIOUS
    <2>3. /\ net' \subseteq net \cup answers
          /\ m_last_packet_cache' \subseteq m_last_packet_cache \cup answers
          /\ m_state' = "Authenticated" /\ m_remote_endpoint' = ep
        BY <1>4, <1>5, <1>8, <2>1, <2>2 DEF AcceptHello, Deliver
    <2>4. id \in transfers'
        BY <1>8, <2>1 DEF AcceptHello, ValidateToken, runVars
    <2>5. \A q \in answers : Genuine(q)'
        BY <2>2, <2>3, <2>4 DEF ServerHello, Packet, Genuine
    <2> QED BY <1>2, <1>3, <2>3, <2>5, SenderStepOfRun
<1> QED BY <1>6, <1>7, <1>8

\* The handlers of a datagram received once the session is authenticated.
LEMMA ControlOfRun ==
    ASSUME IInv, IInv', RunInv, UNCHANGED clientVars, UNCHANGED runVars,
           phase = "serving", phase' \in {"serving", "exited"},
           NEW p \in net, p.to = "sender",
           \/ StartTransfer(p) \/ FailToOpen(p) \/ ResendChunk(p)
           \/ AdvanceOnAck(p) \/ CompleteOnAck(p) \/ OtherControl(p)
    PROVE  RunInv'
<1>1. /\ m_state \in {"Authenticated", "Transferring"}
      /\ m_state' \in {"Authenticated", "Transferring", "Closed"}
      /\ UNCHANGED m_remote_endpoint /\ UNCHANGED m_transfer_metadata
    BY DEF StartTransfer, FailToOpen, ResendChunk, AdvanceOnAck, CompleteOnAck, OtherControl
<1>2. /\ SessionOfRun /\ AllGenuine
      /\ m_offset \in Nat /\ m_last_chunk_size \in Nat
    BY RunTypes DEF RunInv
<1>3. m_file_path' = m_file_path
    BY DEF runVars
\* A handler that sends the chunk at o, to which the session has come.
<1>4. ASSUME NEW o \in Nat, o = m_offset + m_last_chunk_size, m_state' = "Transferring",
             SendNextChunk(o), Deliver(p, {ChunkPacket(o)}), UNCHANGED reported
      PROVE  RunInv'
    <2>1. PICK q : q = ChunkPacket(o)
        OBVIOUS
    <2>2. /\ Genuine(q)'
          /\ m_last_packet_cache' = {q}
          /\ m_offset' = o
          /\ m_last_chunk_size' = Len(Chunk(m_file_path, o))
          /\ m_last_chunk_done' = (Chunk(m_file_path, o) = <<>>)
        BY <1>1, <1>4, <2>1, ChunkOfRun
    <2>3. m_last_chunk_size' \in Nat
        BY NextTypes
    <2>4. SessionMoves
        BY <1>1, <1>2, <1>4, <2>2, <2>3 DEF SessionMoves
    <2>5. SessionOfRun'
        BY <1>1, <1>2, <1>3, <1>4, <2>2 DEF SessionOfRun
    <2>6. PICK answers : answers = {q}
        OBVIOUS
    <2>7. /\ net' \subseteq net \cup answers
          /\ m_last_packet_cache' \subseteq m_last_packet_cache \cup answers
        BY <1>4, <2>1, <2>2, <2>6 DEF Deliver
    <2>8. \A r \in answers : Genuine(r)'
        BY <2>2, <2>6
    <2> QED BY <2>4, <2>5, <2>7, <2>8, SenderStepOfRun
\* A handler that stays where it is, or closes the session.
<1>5. ASSUME UNCHANGED <<m_offset, m_last_chunk_size, m_last_chunk_done,
                         m_last_packet_cache>>,
             reported' => m_state' = "Closed",
             m_state' \in {m_state, "Closed"},
             NEW answers, net' \subseteq net \cup answers,
             \A q \in answers : Genuine(q)'
      PROVE  RunInv'
    <2>1. SessionMoves
        BY <1>1, <1>2, <1>5 DEF SessionMoves
    <2>2. SessionOfRun'
        BY <1>1, <1>2, <1>3, <1>5 DEF SessionOfRun
    <2>3. m_last_packet_cache' \subseteq m_last_packet_cache \cup answers
        BY <1>5
    <2> QED BY <1>5, <2>1, <2>2, <2>3, SenderStepOfRun
<1>6. ASSUME UNCHANGED <<m_offset, m_last_chunk_size, m_last_chunk_done,
                         m_last_packet_cache>>,
             reported' => m_state' = "Closed",
             m_state' \in {m_state, "Closed"},
             Deliver(p, {})
      PROVE  RunInv'
    <2>1. PICK answers : answers = {}
        OBVIOUS
    <2>2. net' \subseteq net \cup answers /\ \A q \in answers : Genuine(q)'
        BY <1>6, <2>1 DEF Deliver
    <2> QED BY <1>5, <1>6, <2>2
<1>7. CASE StartTransfer(p)
    <2>1. m_offset = m_offset + m_last_chunk_size
        BY <1>2, <1>7 DEF StartTransfer, SessionOfRun
    <2> QED BY <1>2, <1>4, <1>7, <2>1 DEF StartTransfer
<1>8. CASE AdvanceOnAck(p)
    <2>1. PICK o \in Nat : o = m_offset + m_last_chunk_size
        BY <1>2
    <2> QED BY <1>4, <1>8, <2>1 DEF AdvanceOnAck
<1>9. CASE FailToOpen(p)
    <2>1. PICK ep, id : ep = m_remote_endpoint /\ id = AsControl(p).id
        OBVIOUS
    <2>2. PICK answers : answers = {ControlError(ep, id)}
        OBVIOUS
    <2>3. net' \subseteq net \cup answers
        BY <1>9, <2>1, <2>2 DEF FailToOpen, Deliver
    <2>4. id \in transfers' \cup {NoToken}
        <3>1. p.id \in transfers \cup {NoToken}
            BY <1>2 DEF AllGenuine, Genuine
        <3> QED BY <2>1, <3>1 DEF AsControl, Misread, Packet, runVars
    <2>5. \A q \in answers : Genuine(q)'
        BY <2>2, <2>4 DEF ControlError, Packet, Genuine
    <2> QED BY <1>5, <1>9, <2>3, <2>5 DEF FailToOpen, chunkVars
<1>10. CASE ResendChunk(p)
    <2>1. PICK answers : answers = CachedPacket
        OBVIOUS
    <2>2. net' \subseteq net \cup answers
        BY <1>10, <2>1 DEF ResendChunk, Deliver
    <2>3. ASSUME NEW q \in answers PROVE Genuine(q)'
        <3>1. PICK r \in m_last_packet_cache : q = [r EXCEPT !.ep = m_remote_endpoint]
            BY <2>1 DEF CachedPacket
        <3>2. r \in Packets /\ Genuine(r)
            BY <1>2, RunTypes DEF AllGenuine
        <3>3. /\ q.to = r.to /\ q.kind = r.kind /\ q.id = r.id
              /\ q.off = r.off /\ q.load = r.load
              /\ q.ep = m_remote_endpoint
            BY <3>1, <3>2 DEF Packets
        <3>4. /\ m_offset' = m_offset /\ m_last_chunk_size' = m_last_chunk_size
              /\ transfer_id' = transfer_id /\ transfers' = transfers
              /\ m_state' # "WaitingHello" /\ m_remote_endpoint' = m_remote_endpoint
            BY <1>1, <1>10 DEF ResendChunk, chunkVars, runVars
        <3> QED BY <1>3, <3>2, <3>3, <3>4 DEF Genuine
    <2> QED BY <1>2, <1>5, <1>10, <2>2, <2>3 DEF ResendChunk, chunkVars, SessionOfRun
<1>11. CASE CompleteOnAck(p)
    BY <1>6, <1>11 DEF CompleteOnAck
<1>12. CASE OtherControl(p)
    BY <1>2, <1>6, <1>12 DEF OtherControl, chunkVars, SessionOfRun
<1> QED BY <1>7, <1>8, <1>9, <1>10, <1>11, <1>12

LEMMA ReceiveOfRun ==
    ASSUME IInv, IInv', RunInv, NEW p, Receive(p), UNCHANGED clientVars
    PROVE  RunInv'
<1>1. /\ p \in net /\ p.to = "sender"
      /\ phase = "serving" /\ phase' \in {"serving", "exited"}
      /\ UNCHANGED runVars
    BY DEF Receive
<1> QED BY <1>1, HandshakeOfRun, ControlOfRun DEF Receive, HandlePacket

\* The steps of the sending process that no datagram causes.
LEMMA ServeOfRun ==
    ASSUME IInv, IInv', RunInv, NEW c \in Clients, Serve(c), UNCHANGED clientVars
    PROVE  RunInv'
<1>1. /\ UNCHANGED <<m_state, chunkVars>> /\ UNCHANGED runVars
      /\ m_state = "WaitingHello"
    BY DEF Serve, RunInv, SessionOfRun
<1>2. SessionMoves
    BY <1>1, RunTypes DEF SessionMoves, chunkVars
<1>3. SessionOfRun'
    BY <1>1 DEF RunInv, SessionOfRun, chunkVars
<1> DEFINE punches == {Punch("client", <<c, path>>, i) : path \in Paths, i \in 1..Punches}
<1>4. PICK answers : answers = punches
    <2> HIDE DEF punches
    <2> QED OBVIOUS
<1>5. /\ net' \subseteq net \cup answers
      /\ m_last_packet_cache' \subseteq m_last_packet_cache \cup answers
    BY <1>1, <1>4 DEF Serve, Send, chunkVars
<1>6. ASSUME NEW q \in answers PROVE Genuine(q)'
    <2>1. q.kind = "punch" /\ q.id = NoToken
        BY <1>4 DEF Punch, Packet
    <2> QED BY <2>1 DEF Genuine
<1> QED BY <1>2, <1>3, <1>5, <1>6, SenderStepOfRun

LEMMA TerminateOfRun ==
    ASSUME IInv, IInv', RunInv, Terminate, UNCHANGED clientVars
    PROVE  RunInv'
<1>1. /\ UNCHANGED <<m_state, m_remote_endpoint, chunkVars, net>> /\ UNCHANGED runVars
      /\ phase' = "exited"
    BY DEF Terminate
<1>2. SessionMoves
    BY <1>1, RunTypes DEF SessionMoves, chunkVars
<1>3. SessionOfRun'
    BY <1>1 DEF RunInv, SessionOfRun, chunkVars, runVars
<1>4. PICK answers : answers = {}
    OBVIOUS
<1>5. /\ net' \subseteq net \cup answers
      /\ m_last_packet_cache' \subseteq m_last_packet_cache \cup answers
      /\ \A q \in answers : Genuine(q)'
    BY <1>1, <1>4 DEF chunkVars
<1> QED BY <1>2, <1>3, <1>5, SenderStepOfRun

\* The next run has a fresh secret, which nothing on the network and no receiver
\* has seen.
LEMMA RerunOfRun ==
    ASSUME IInv, RunInv, NEW id \in Tokens, SendAgain(id), UNCHANGED clientVars
    PROVE  RunInv'
<1>1. /\ transfer_id' = id /\ transfers' = transfers \cup {id}
      /\ id \notin transfers /\ id # NoToken
      /\ net' = net /\ m_last_packet_cache' = {}
    BY RunTypes, ConstantTypes DEF SendAgain, FreshSession
<1>2. SessionOfRun'
    BY DEF SendAgain, FreshSession, SessionOfRun
<1>3. ASSUME NEW p \in net PROVE Genuine(p)'
    <2>1. Genuine(p)
        BY DEF RunInv, AllGenuine
    <2>2. p.id \in transfers' \cup {NoToken} /\ p.id # transfer_id'
        BY <1>1, <2>1 DEF Genuine
    <2> QED BY <2>1, <2>2 DEF Genuine
<1>4. AllGenuine'
    BY <1>1, <1>3 DEF AllGenuine
<1>5. ASSUME NEW c \in Clients PROVE ClientOfRun(c)' /\ ~OfThisRun(c)'
    <2>1. ClientOfRun(c)
        BY DEF RunInv
    <2>2. ~OfThisRun(c)'
        BY <1>1, <2>1 DEF ClientOfRun, OfThisRun, clientVars
    <2> QED BY <1>1, <2>1, <2>2 DEF ClientOfRun, clientVars
<1>6. OutputIsPrefix' /\ IntactFileNeverMismatches'
    BY <1>5 DEF OutputIsPrefix, IntactFileNeverMismatches
<1> QED BY <1>2, <1>4, <1>5, <1>6 DEF RunInv

-----------------------------------------------------------------------------
(* The receivers' steps.                                                     *)

\* What is sent to a receiver, as it reads it.
LEMMA ReadOfRun ==
    ASSUME IInv, RunInv, NEW c \in Clients, token[c] \in Tokens,
           NEW p \in net, p.to = "client"
    PROVE  /\ p \in Packets /\ Genuine(p)
           /\ Accepts(c, p) => p.kind = "server_hello" /\ p.id = token[c]
           /\ IsData(c, p) => p.kind = "data" /\ p.id = token[c] /\ AsControl(p) = p
           /\ IsDone(c, p) => p.kind = "done" /\ p.id = token[c] /\ AsControl(p) = p
<1>1. /\ p \in Packets /\ Genuine(p)
      /\ p.kind \in {"punch", "hs_error", "server_hello", "data", "done", "ctl_error"}
    BY RunTypes DEF RunInv, AllGenuine, Genuine
<1>2. token[c] # NoToken
    BY ConstantTypes
<1>3. ASSUME Accepts(c, p) PROVE p.kind = "server_hello" /\ p.id = token[c]
    BY <1>1, <1>3 DEF Accepts, AsHandshake, Misread, Packet, HandshakeTwin, ControlKinds
<1>4. ASSUME IsData(c, p) PROVE p.kind = "data" /\ p.id = token[c] /\ AsControl(p) = p
    BY <1>1, <1>2, <1>4 DEF IsData, AsControl, Misread, Packet, ControlTwin, HandshakeKinds
<1>5. ASSUME IsDone(c, p) PROVE p.kind = "done" /\ p.id = token[c] /\ AsControl(p) = p
    BY <1>1, <1>2, <1>5 DEF IsDone, AsControl, Misread, Packet, ControlTwin, HandshakeKinds
<1> QED BY <1>1, <1>3, <1>4, <1>5

\* A receiver at work has a registered secret.
LEMMA WorkingToken ==
    ASSUME IInv, RunInv, NEW c \in Clients, pc[c] # "idle"
    PROVE  token[c] \in transfers /\ token[c] \in Tokens /\ token[c] # NoToken
BY RunTypes DEF RunInv, ClientOfRun

LEMMA SessionStays ==
    ASSUME IInv, UNCHANGED sessionVars
    PROVE  SessionMoves
BY RunTypes DEF SessionMoves, sessionVars, runVars

\* What receivers send is genuine; their acks, once they are connected, too: they go
\* to the session that answers them.
LEMMA ClientSends ==
    ASSUME IInv, RunInv, NEW c \in Clients, NEW ep, NEW id \in transfers
    PROVE  /\ \A q \in Hellos(c, id) : Genuine(q)
           /\ pc[c] # "idle" => \A q \in HellosIfLeft(c) : Genuine(q)
           /\ Genuine(GetRequest(ep, id))
           /\ pc[c] = "receiving" => \A n : \A q \in AckTo(c, n) : Genuine(q)
<1>1. ASSUME NEW t \in transfers, NEW q \in Hellos(c, t) PROVE Genuine(q)
    BY <1>1 DEF Hellos, ClientHello, Packet, Genuine
<1>2. ASSUME pc[c] # "idle", NEW q \in HellosIfLeft(c) PROVE Genuine(q)
    BY <1>1, <1>2, WorkingToken DEF HellosIfLeft
<1>3. Genuine(GetRequest(ep, id))
    BY DEF GetRequest, Packet, Genuine
<1>4. ASSUME pc[c] = "receiving", NEW n, NEW q \in AckTo(c, n) PROVE Genuine(q)
    <2>1. /\ q.to = "sender" /\ q.kind = "ack" /\ q.ep = <<c, peer[c]>>
          /\ q.id = token[c]
        BY <1>4 DEF AckTo, Ack, Packet
    <2>2. token[c] \in transfers /\ token[c] # NoToken
        BY <1>4, WorkingToken
    <2>3. token[c] = transfer_id =>
              m_state # "WaitingHello" /\ m_remote_endpoint = <<c, peer[c]>>
        BY <1>4 DEF RunInv, ClientOfRun, OfThisRun
    <2> QED BY <2>1, <2>2, <2>3 DEF Genuine
<1> QED BY <1>1, <1>2, <1>3, <1>4

\* A step of a running receiver that takes nothing of the file: it waits on, or ends
\* without a verdict on the file.
LEMMA QuietOfRun ==
    ASSUME IInv, IInv', RunInv, UNCHANGED sessionVars,
           NEW c \in Clients, pc[c] # "idle",
           NEW next \in (Results \ {"mismatch"}) \cup {pc[c]},
           pc' = [pc EXCEPT ![c] = next],
           UNCHANGED <<token, peer, current_offset, out, out_ok>>,
           NEW answers, net' \subseteq net \cup answers,
           \A q \in answers : Genuine(q)
    PROVE  RunInv'
<1>1. pc \in [Clients -> {"idle"} \cup Running \cup Results]
    BY DEF IInv, TypeOK, ClientTypeOK
<1>2. ASSUME NEW d \in Clients PROVE ClientOfRun(d)'
    <2>1. pc'[d] = pc[d] \/ pc'[d] \in Results
        BY <1>1
    <2>2. pc[d] = "idle" => pc'[d] = "idle"
        BY <1>1
    <2>3. SessionMoves /\ ClientOfRun(d)
        BY SessionStays DEF RunInv
    <2> QED BY <2>1, <2>2, <2>3, ClientStays
<1>3. m_file_path' = m_file_path /\ transfer_id' = transfer_id
    BY DEF sessionVars
<1>4. OutputIsPrefix'
    BY <1>3 DEF RunInv, OutputIsPrefix, OfThisRun
<1>5. IntactFileNeverMismatches'
    BY <1>1, <1>3 DEF RunInv, IntactFileNeverMismatches, OfThisRun
<1> QED BY <1>2, <1>4, <1>5, ClientStepOfRun

LEMMA StartOfRun ==
    ASSUME IInv, IInv', RunInv, UNCHANGED sessionVars,
           NEW c \in Clients, NEW id \in transfers, Start(c, id)
    PROVE  RunInv'
<1>1. /\ pc \in [Clients -> {"idle"} \cup Running \cup Results]
      /\ token \in [Clients -> Tokens \cup {NoToken}]
      /\ m_file_path \in Seq(Byte) /\ Len(m_file_path) \in Nat
      /\ m_offset \in Nat /\ m_last_chunk_size \in Nat
    BY RunTypes DEF IInv, TypeOK, ClientTypeOK
<1>2. /\ SessionMoves
      /\ m_file_path' = m_file_path /\ transfer_id' = transfer_id
      /\ transfers' = transfers
      /\ m_offset' = m_offset /\ m_last_chunk_size' = m_last_chunk_size
      /\ UNCHANGED <<peer, current_offset, out, out_ok>>
    BY SessionStays DEF sessionVars, Start
<1>3. pc[c] = "idle" /\ current_offset[c] = 0 /\ out[c] = <<>>
    BY DEF Start, RunInv, ClientOfRun
<1>4. /\ pc'[c] = "handshake" /\ token'[c] = id
      /\ \A d \in Clients \ {c} : pc'[d] = pc[d] /\ token'[d] = token[d]
    BY <1>1 DEF Start
<1>5. 0 <= Len(m_file_path) /\ 0 <= m_offset + m_last_chunk_size
    BY <1>1
<1>6. ASSUME NEW d \in Clients PROVE ClientOfRun(d)'
    <2>1. CASE d = c
        BY <1>2, <1>3, <1>4, <1>5, <2>1 DEF ClientOfRun
    <2>2. CASE d # c
        <3>1. pc'[d] = pc[d] /\ token'[d] = token[d]
            BY <1>4, <2>2
        <3>2. ClientOfRun(d)
            BY DEF RunInv
        <3> QED BY <1>2, <3>1, <3>2, ClientStays
    <2> QED BY <2>1, <2>2
<1>7. OutputIsPrefix'
    <2> SUFFICES ASSUME NEW d \in Clients, OfThisRun(d)', out_ok'[d]
                 PROVE  /\ current_offset'[d] <= Len(m_file_path')
                        /\ out'[d] = SubSeq(m_file_path', 1, current_offset'[d])
        BY DEF OutputIsPrefix
    <2>1. CASE d = c
        <3>1. SubSeq(m_file_path, 1, 0) = <<>>
            BY <1>1, SubSeqEmpty
        <3> QED BY <1>2, <1>3, <1>5, <2>1, <3>1
    <2>2. CASE d # c
        BY <1>2, <1>4, <2>2 DEF RunInv, OutputIsPrefix, OfThisRun
    <2> QED BY <2>1, <2>2
<1>8. IntactFileNeverMismatches'
    <2> SUFFICES ASSUME NEW d \in Clients, OfThisRun(d)', pc'[d] = "mismatch"
                 PROVE  ~out_ok'[d] \/ m_file_path' # Registered[transfer_id']
        BY DEF IntactFileNeverMismatches
    <2>1. d # c /\ pc[d] = "mismatch" /\ OfThisRun(d)
        BY <1>2, <1>4 DEF OfThisRun
    <2> QED BY <1>2, <2>1 DEF RunInv, IntactFileNeverMismatches
<1> DEFINE punches == {Punch("sender", <<c, path>>, i) : path \in Paths, i \in 1..Punches}
<1>9. \A q \in punches : Genuine(q)
    BY DEF Punch, Packet, Genuine
<1>10. net' = net \cup (punches \cup Hellos(c, id))
    BY DEF Start, Send
<1> HIDE DEF punches
<1>11. PICK answers : answers = punches \cup Hellos(c, id)
    OBVIOUS
<1>12. net' \subseteq net \cup answers /\ \A q \in answers : Genuine(q)
    BY <1>9, <1>10, <1>11, ClientSends
<1> QED BY <1>6, <1>7, <1>8, <1>12, ClientStepOfRun

LEMMA TimeoutOfRun ==
    ASSUME IInv, IInv', RunInv, UNCHANGED sessionVars,
           NEW c \in Clients, Timeout(c)
    PROVE  RunInv'
<1>1. CASE HandshakeTimeout(c)
    <2>1. PICK next : next = IF attempt[c] + 1 < MaxRetries THEN pc[c] ELSE "unconnected"
        OBVIOUS
    <2>2. next \in (Results \ {"mismatch"}) \cup {pc[c]}
        BY <2>1 DEF Results
    <2>3. /\ pc[c] # "idle" /\ pc' = [pc EXCEPT ![c] = next]
          /\ UNCHANGED <<token, peer, current_offset, out, out_ok>>
        BY <1>1, <2>1 DEF HandshakeTimeout, NextAttempt
    <2>4. PICK answers : answers = HellosIfLeft(c)
        OBVIOUS
    <2>5. net' \subseteq net \cup answers /\ \A q \in answers : Genuine(q)
        BY <1>1, <2>3, <2>4, WorkingToken, ClientSends DEF HandshakeTimeout, Send
    <2> QED BY <2>2, <2>3, <2>5, QuietOfRun
<1>2. CASE ReceiveTimeout(c)
    <2>1. PICK next : next = IF retries[c] + 1 < MaxRetries THEN pc[c] ELSE "timed_out"
        OBVIOUS
    <2>2. next \in (Results \ {"mismatch"}) \cup {pc[c]}
        BY <2>1 DEF Results
    <2>3. /\ pc[c] # "idle" /\ pc' = [pc EXCEPT ![c] = next]
          /\ UNCHANGED <<token, peer, current_offset, out, out_ok>>
        BY <1>2, <2>1 DEF ReceiveTimeout
    <2>4. PICK answers : answers = IF current_offset[c] = 0
                                   THEN {GetRequest(<<c, peer[c]>>, token[c])}
                                   ELSE AckTo(c, current_offset[c])
        OBVIOUS
    <2>5. /\ Genuine(GetRequest(<<c, peer[c]>>, token[c]))
          /\ \A q \in AckTo(c, current_offset[c]) : Genuine(q)
        BY <1>2, WorkingToken, ClientSends DEF ReceiveTimeout
    <2>6. net' \subseteq net \cup answers /\ \A q \in answers : Genuine(q)
        BY <1>2, <2>4, <2>5 DEF ReceiveTimeout, Send
    <2> QED BY <2>2, <2>3, <2>6, QuietOfRun
<1> QED BY <1>1, <1>2 DEF Timeout

LEMMA ConnectOfRun ==
    ASSUME IInv, IInv', RunInv, UNCHANGED sessionVars,
           NEW c \in Clients, NEW p \in net, p.to = "client", p.ep[1] = c, Connect(c, p)
    PROVE  RunInv'
<1>1. /\ pc \in [Clients -> {"idle"} \cup Running \cup Results]
      /\ peer \in [Clients -> Paths]
      /\ net \subseteq Packets
    BY DEF IInv, TypeOK, ClientTypeOK, NetTypeOK
<1>2. /\ SessionMoves /\ m_file_path' = m_file_path /\ transfer_id' = transfer_id
      /\ UNCHANGED <<transfers, m_state, m_remote_endpoint, m_offset, m_last_chunk_size>>
      /\ UNCHANGED <<token, current_offset, out, out_ok>>
      /\ pc' = [pc EXCEPT ![c] = "receiving"] /\ peer' = [peer EXCEPT ![c] = p.ep[2]]
    BY SessionStays DEF sessionVars, Connect
<1>3. pc[c] = "handshake" /\ token[c] \in transfers /\ token[c] \in Tokens
    BY WorkingToken DEF Connect
<1>4. OfThisRun(c) => m_state # "WaitingHello" /\ p.ep = m_remote_endpoint
    BY <1>3, ReadOfRun DEF Connect, Genuine, OfThisRun
<1>5. p.ep = <<c, p.ep[2]>>
    BY <1>1 DEF Packets, Endpoints
<1>6. ASSUME NEW d \in Clients PROVE ClientOfRun(d)'
    <2>1. ClientOfRun(d)
        BY DEF RunInv
    <2>2. CASE d = c
        <3>1. pc'[d] = "receiving" /\ peer'[d] = p.ep[2]
            BY <1>1, <1>2, <2>2
        <3>2. <<d, peer'[d]>> = p.ep
            BY <1>5, <2>2, <3>1
        <3>3. token'[d] \in transfers'
            BY <1>2, <1>3, <2>2
        <3> QED BY <1>2, <1>4, <2>1, <2>2, <3>1, <3>2, <3>3 DEF ClientOfRun, OfThisRun
    <2>3. CASE d # c
        <3>1. pc'[d] = pc[d] /\ peer'[d] = peer[d]
            BY <1>1, <1>2, <2>3
        <3> QED BY <1>2, <2>1, <3>1, ClientStays
    <2> QED BY <2>2, <2>3
<1>7. OutputIsPrefix'
    BY <1>2 DEF RunInv, OutputIsPrefix, OfThisRun
<1>8. IntactFileNeverMismatches'
    BY <1>1, <1>2 DEF RunInv, IntactFileNeverMismatches, OfThisRun
<1>9. PICK answers : answers = {GetRequest(<<c, p.ep[2]>>, token[c])}
    OBVIOUS
<1>10. net' \subseteq net \cup answers /\ \A q \in answers : Genuine(q)
    BY <1>3, <1>9, ClientSends DEF Connect, Deliver
<1> QED BY <1>6, <1>7, <1>8, <1>10, ClientStepOfRun

\* The chunk that is due continues the output, if it is of the current run.
LEMMA DueChunk ==
    ASSUME IInv, RunInv, NEW c \in Clients, NEW p \in net, p.to = "client",
           WriteChunk(c, p)
    PROVE  /\ pc[c] = "receiving" /\ UNCHANGED <<pc, token, peer>>
           /\ current_offset' = [current_offset EXCEPT ![c] = @ + Len(p.load)]
           /\ Deliver(p, AckTo(c, current_offset[c] + Len(p.load)))
           /\ Len(p.load) \in Nat
           /\ \E written \in BOOLEAN :
                 /\ written => out_ok[c]
                 /\ out_ok' = [out_ok EXCEPT ![c] = written]
                 /\ out' = [out EXCEPT ![c] = IF written THEN @ \o p.load ELSE @]
           /\ OfThisRun(c) =>
                 /\ Len(p.load) > 0
                 /\ current_offset[c] + Len(p.load) <= Len(m_file_path)
                 /\ current_offset[c] + Len(p.load) <= m_offset + m_last_chunk_size
                 /\ SubSeq(m_file_path, 1, current_offset[c]) \o p.load
                      = SubSeq(m_file_path, 1, current_offset[c] + Len(p.load))
<1>1. /\ token[c] \in Tokens /\ pc[c] = "receiving"
    BY WorkingToken DEF WriteChunk
<1>2. /\ AsControl(p) = p /\ p.kind = "data" /\ p.id = token[c]
      /\ p \in Packets /\ Genuine(p)
    BY <1>1, ReadOfRun DEF WriteChunk
<1>3. /\ current_offset[c] \in Nat /\ p.off \in Nat /\ p.load \in Seq(Byte)
      /\ p.off = current_offset[c]
    BY <1>2, RunTypes DEF WriteChunk, Due, Packets
<1>4. Len(p.load) \in Nat
    BY <1>3
<1>5. ASSUME OfThisRun(c)
      PROVE  /\ Len(p.load) > 0
             /\ current_offset[c] + Len(p.load) <= Len(m_file_path)
             /\ current_offset[c] + Len(p.load) <= m_offset + m_last_chunk_size
             /\ SubSeq(m_file_path, 1, current_offset[c]) \o p.load
                  = SubSeq(m_file_path, 1, current_offset[c] + Len(p.load))
    <2>1. /\ p.load = Chunk(m_file_path, current_offset[c]) /\ p.load # <<>>
          /\ current_offset[c] + Len(p.load) <= m_offset + m_last_chunk_size
        BY <1>2, <1>3, <1>5 DEF Genuine, OfThisRun
    <2> QED BY <1>3, <2>1, RunTypes, ChunkContinues
<1>6. /\ current_offset' = [current_offset EXCEPT ![c] = @ + Len(p.load)]
      /\ Deliver(p, AckTo(c, current_offset[c] + Len(p.load)))
      /\ UNCHANGED <<pc, token, peer>>
      /\ \E written \in {out_ok[c]} \cup (IF "disk" \in Faults THEN {FALSE} ELSE {}) :
            /\ out_ok' = [out_ok EXCEPT ![c] = written]
            /\ out' = [out EXCEPT ![c] = IF written THEN @ \o p.load ELSE @]
    BY <1>2 DEF WriteChunk
<1>7. out_ok[c] \in BOOLEAN
    BY DEF IInv, TypeOK, ClientTypeOK
<1>8. \E written \in BOOLEAN :
         /\ written => out_ok[c]
         /\ out_ok' = [out_ok EXCEPT ![c] = written]
         /\ out' = [out EXCEPT ![c] = IF written THEN @ \o p.load ELSE @]
    <2>1. PICK written \in {out_ok[c]} \cup (IF "disk" \in Faults THEN {FALSE} ELSE {}) :
            /\ out_ok' = [out_ok EXCEPT ![c] = written]
            /\ out' = [out EXCEPT ![c] = IF written THEN @ \o p.load ELSE @]
        BY <1>6
    <2>2. written \in BOOLEAN /\ (written => out_ok[c])
        BY <1>7
    <2> QED BY <2>1, <2>2
<1> QED BY <1>1, <1>4, <1>5, <1>6, <1>8

LEMMA WriteChunkOfRun ==
    ASSUME IInv, IInv', RunInv, UNCHANGED sessionVars,
           NEW c \in Clients, NEW p \in net, p.to = "client", WriteChunk(c, p)
    PROVE  RunInv'
<1>1. /\ current_offset \in [Clients -> Nat]
      /\ out \in [Clients -> Seq(Byte)] /\ out_ok \in [Clients -> BOOLEAN]
    BY DEF IInv, TypeOK, ClientTypeOK
<1>2. /\ SessionMoves /\ m_file_path' = m_file_path
      /\ UNCHANGED <<m_state, m_remote_endpoint, m_offset, m_last_chunk_size>>
      /\ transfer_id' = transfer_id /\ transfers' = transfers
    BY SessionStays DEF sessionVars
<1>3. PICK n \in Nat : n = Len(p.load)
    BY DueChunk
<1>4. /\ pc[c] = "receiving" /\ UNCHANGED <<pc, token, peer>>
      /\ current_offset' = [current_offset EXCEPT ![c] = @ + n]
    BY <1>3, DueChunk
<1>5. OfThisRun(c) =>
      /\ current_offset[c] + n <= Len(m_file_path)
      /\ current_offset[c] + n <= m_offset + m_last_chunk_size
      /\ SubSeq(m_file_path, 1, current_offset[c]) \o p.load
           = SubSeq(m_file_path, 1, current_offset[c] + n)
    BY <1>3, DueChunk
<1>6. PICK written \in BOOLEAN :
         /\ written => out_ok[c]
         /\ out_ok' = [out_ok EXCEPT ![c] = written]
         /\ out' = [out EXCEPT ![c] = IF written THEN @ \o p.load ELSE @]
    BY DueChunk
<1>7. current_offset'[c] = current_offset[c] + n
    BY <1>1, <1>4
<1>8. \A d \in Clients : OfThisRun(d)' <=> OfThisRun(d)
    BY <1>2, <1>4 DEF OfThisRun
<1>9. ASSUME NEW d \in Clients PROVE ClientOfRun(d)'
    <2>1. ClientOfRun(d)
        BY DEF RunInv
    <2>2. CASE d = c
        <3>1. token'[d] \in transfers' /\ pc'[d] = "receiving"
            BY <1>2, <1>4, <2>2, WorkingToken
        <3> QED BY <1>2, <1>4, <1>5, <1>7, <1>8, <2>1, <2>2, <3>1 DEF ClientOfRun
    <2>3. CASE d # c
        <3>1. current_offset'[d] = current_offset[d] /\ out'[d] = out[d]
            BY <1>1, <1>4, <1>6, <2>3
        <3> QED BY <1>2, <1>4, <2>1, <3>1, ClientStays
    <2> QED BY <2>2, <2>3
<1>10. OutputIsPrefix'
    <2> SUFFICES ASSUME NEW d \in Clients, OfThisRun(d), out_ok'[d]
                 PROVE  /\ current_offset'[d] <= Len(m_file_path)
                        /\ out'[d] = SubSeq(m_file_path, 1, current_offset'[d])
        BY <1>2, <1>8 DEF OutputIsPrefix
    <2>1. CASE d = c
        <3>1. written /\ out_ok[c]
            BY <1>1, <1>6, <2>1
        <3>2. out[c] = SubSeq(m_file_path, 1, current_offset[c])
            BY <2>1, <3>1 DEF RunInv, OutputIsPrefix
        <3>3. out'[c] = out[c] \o p.load
            BY <1>1, <1>6, <3>1
        <3> QED BY <1>5, <1>7, <2>1, <3>2, <3>3
    <2>2. CASE d # c
        <3>1. /\ out_ok'[d] = out_ok[d] /\ out'[d] = out[d]
              /\ current_offset'[d] = current_offset[d]
            BY <1>1, <1>4, <1>6, <2>2
        <3> QED BY <3>1 DEF RunInv, OutputIsPrefix
    <2> QED BY <2>1, <2>2
<1>11. IntactFileNeverMismatches'
    <2> SUFFICES ASSUME NEW d \in Clients, OfThisRun(d), pc[d] = "mismatch"
                 PROVE  ~out_ok'[d] \/ m_file_path # Registered[transfer_id]
        BY <1>2, <1>4, <1>8 DEF IntactFileNeverMismatches
    <2>1. d # c
        BY <1>4
    <2>2. out_ok'[d] = out_ok[d]
        BY <1>1, <1>6, <2>1
    <2> QED BY <2>2 DEF RunInv, IntactFileNeverMismatches
<1>12. PICK answers : answers = AckTo(c, current_offset[c] + n)
    OBVIOUS
<1>13. net' \subseteq net \cup answers
    BY <1>3, <1>12, DueChunk DEF Deliver
<1>14. \A q \in answers : Genuine(q)
    BY <1>4, <1>12, WorkingToken, ClientSends
<1> QED BY <1>9, <1>10, <1>11, <1>13, <1>14, ClientStepOfRun

LEMMA FinishOfRun ==
    ASSUME IInv, IInv', RunInv, UNCHANGED sessionVars,
           NEW c \in Clients, NEW p \in net, p.to = "client", Finish(c, p)
    PROVE  RunInv'
<1>1. /\ pc \in [Clients -> {"idle"} \cup Running \cup Results]
      /\ m_file_path \in Seq(Byte)
    BY RunTypes DEF IInv, TypeOK, ClientTypeOK
<1>2. /\ SessionMoves /\ m_file_path' = m_file_path /\ transfer_id' = transfer_id
      /\ UNCHANGED <<token, peer, current_offset, out, out_ok>>
    BY SessionStays DEF sessionVars, Finish
<1>3. PICK next : next = IF Intact(c) THEN "complete" ELSE "mismatch"
    OBVIOUS
<1>4. pc' = [pc EXCEPT ![c] = next] /\ pc[c] = "receiving"
    BY <1>3 DEF Finish
<1>5. next \in Results
    BY <1>3 DEF Results
<1>6. token[c] \in transfers /\ token[c] \in Tokens
    BY <1>4, WorkingToken
<1>7. OfThisRun(c) => current_offset[c] = Len(Registered[transfer_id])
    <2>1. /\ p.kind = "done" /\ AsControl(p) = p /\ Genuine(p)
          /\ p.id = token[c]
        BY <1>6, ReadOfRun DEF Finish
    <2> QED BY <2>1 DEF Genuine, Finish, OfThisRun
<1>8. ASSUME NEW d \in Clients PROVE ClientOfRun(d)'
    <2>1. pc'[d] = pc[d] \/ pc'[d] \in Results
        BY <1>1, <1>4, <1>5
    <2>2. pc[d] = "idle" => pc'[d] = "idle"
        BY <1>1, <1>4
    <2>3. ClientOfRun(d)
        BY DEF RunInv
    <2> QED BY <1>2, <2>1, <2>2, <2>3, ClientStays
<1>9. OutputIsPrefix'
    BY <1>2 DEF RunInv, OutputIsPrefix, OfThisRun
<1>10. IntactFileNeverMismatches'
    <2> SUFFICES ASSUME NEW d \in Clients, OfThisRun(d), pc'[d] = "mismatch", out_ok[d],
                        m_file_path = Registered[transfer_id]
                 PROVE  FALSE
        BY <1>2 DEF IntactFileNeverMismatches, OfThisRun
    <2>1. CASE d = c
        <3>1. ~Intact(c)
            BY <1>1, <1>3, <1>4, <2>1
        <3>2. out[c] = SubSeq(m_file_path, 1, Len(m_file_path))
            BY <1>7, <2>1 DEF RunInv, OutputIsPrefix
        <3>3. SubSeq(m_file_path, 1, Len(m_file_path)) = m_file_path
            BY <1>1, SubSeqFull
        <3> QED BY <2>1, <3>1, <3>2, <3>3 DEF Intact, OfThisRun
    <2>2. CASE d # c
        <3>1. pc[d] = "mismatch"
            BY <1>1, <1>4, <2>2
        <3> QED BY <3>1 DEF RunInv, IntactFileNeverMismatches
    <2> QED BY <2>1, <2>2
<1>11. PICK answers : answers = IF Intact(c) THEN AckTo(c, current_offset[c]) ELSE {}
    OBVIOUS
<1>12. net' \subseteq net \cup answers
    BY <1>11 DEF Finish, Deliver
<1>13. \A q \in answers : Genuine(q)
    BY <1>4, <1>6, <1>11, ClientSends
<1> QED BY <1>8, <1>9, <1>10, <1>12, <1>13, ClientStepOfRun

LEMMA TakePacketOfRun ==
    ASSUME IInv, IInv', RunInv, UNCHANGED sessionVars,
           NEW c \in Clients, NEW p, TakePacket(c, p)
    PROVE  RunInv'
<1>1. p \in net /\ p.to = "client" /\ p.ep[1] = c
    BY DEF TakePacket
<1>2. CASE Connect(c, p)
    BY <1>1, <1>2, ConnectOfRun
<1>3. CASE WriteChunk(c, p)
    BY <1>1, <1>3, WriteChunkOfRun
<1>4. CASE Finish(c, p)
    BY <1>1, <1>4, FinishOfRun
<1>5. CASE WasteAttempt(c, p)
    <2>1. PICK next : next = IF attempt[c] + 1 < MaxRetries THEN pc[c] ELSE "unconnected"
        OBVIOUS
    <2>2. next \in (Results \ {"mismatch"}) \cup {pc[c]}
        BY <2>1 DEF Results
    <2>3. /\ pc[c] # "idle" /\ pc' = [pc EXCEPT ![c] = next]
          /\ UNCHANGED <<token, peer, current_offset, out, out_ok>>
        BY <1>5, <2>1 DEF WasteAttempt, NextAttempt
    <2>4. PICK answers : answers = HellosIfLeft(c)
        OBVIOUS
    <2>5. net' \subseteq net \cup answers /\ \A q \in answers : Genuine(q)
        BY <1>5, <2>3, <2>4, WorkingToken, ClientSends DEF WasteAttempt, Deliver
    <2> QED BY <2>2, <2>3, <2>5, QuietOfRun
<1>6. CASE ReAck(c, p)
    <2>1. PICK next : next = pc[c]
        OBVIOUS
    <2>2. /\ pc[c] # "idle" /\ pc' = [pc EXCEPT ![c] = next]
          /\ next \in (Results \ {"mismatch"}) \cup {pc[c]}
          /\ UNCHANGED <<token, peer, current_offset, out, out_ok>>
        <3>1. pc \in [Clients -> {"idle"} \cup Running \cup Results]
            BY DEF IInv, TypeOK, ClientTypeOK
        <3> QED BY <1>6, <2>1, <3>1 DEF ReAck
    <2>3. PICK answers : answers = AckTo(c, current_offset[c])
        OBVIOUS
    <2>4. net' \subseteq net \cup answers
        BY <1>6, <2>3 DEF ReAck, Deliver
    <2>5. \A q \in answers : Genuine(q)
        BY <1>6, <2>3, WorkingToken, ClientSends DEF ReAck
    <2> QED BY <2>2, <2>4, <2>5, QuietOfRun
<1>7. CASE SkipStranger(c, p) \/ AcceptError(c, p) \/ SkipUseless(c, p)
    <2>1. PICK next : next = pc'[c]
        OBVIOUS
    <2>2. /\ pc[c] # "idle" /\ pc' = [pc EXCEPT ![c] = next]
          /\ next \in (Results \ {"mismatch"}) \cup {pc[c]}
          /\ UNCHANGED <<token, peer, current_offset, out, out_ok>>
        <3>1. pc \in [Clients -> {"idle"} \cup Running \cup Results]
            BY DEF IInv, TypeOK, ClientTypeOK
        <3> QED BY <1>7, <2>1, <3>1
            DEF SkipStranger, AcceptError, SkipUseless, clientVars, Results
    <2>3. PICK answers : answers = {}
        OBVIOUS
    <2>4. net' \subseteq net \cup answers /\ \A q \in answers : Genuine(q)
        BY <1>7, <2>3 DEF SkipStranger, AcceptError, SkipUseless, Deliver
    <2> QED BY <2>2, <2>4, QuietOfRun
<1> QED BY <1>2, <1>3, <1>4, <1>5, <1>6, <1>7 DEF TakePacket

-----------------------------------------------------------------------------
(* The inductive invariant.                                                  *)

LEMMA InitRun == Init => RunInv
<1> SUFFICES ASSUME Init PROVE RunInv
    OBVIOUS
<1>1. IInv
    BY InitIInv
<1>2. m_file_path \in Seq(Byte) /\ Len(m_file_path) \in Nat
    BY <1>1, RunTypes
<1>3. SessionOfRun
    BY DEF Init, SessionInit, SessionOfRun
<1>4. AllGenuine
    BY DEF Init, NetInit, SessionInit, AllGenuine
<1>5. ASSUME NEW c \in Clients
      PROVE  /\ pc[c] = "idle" /\ token[c] = NoToken
             /\ current_offset[c] = 0 /\ out[c] = <<>>
    BY DEF Init, ClientInit
<1>6. ASSUME NEW c \in Clients PROVE ~OfThisRun(c)
    BY <1>1, <1>5, RunTypes DEF OfThisRun
<1>7. ASSUME NEW c \in Clients PROVE ClientOfRun(c)
    BY <1>5, <1>6 DEF ClientOfRun
<1>8. OutputIsPrefix /\ IntactFileNeverMismatches
    BY <1>6 DEF OutputIsPrefix, IntactFileNeverMismatches
<1> QED BY <1>3, <1>4, <1>7, <1>8 DEF RunInv

LEMMA NextRun ==
    ASSUME IInv, IInv', RunInv, [Next]_vars
    PROVE  RunInv'
<1>1. ASSUME NEW c \in Clients, Begin(c) PROVE RunInv'
    BY <1>1, StartOfRun DEF Begin
<1>2. ASSUME NEW c \in Clients, Signalled(c) PROVE RunInv'
    BY <1>2, ServeOfRun DEF Signalled
<1>3. ASSUME NEW p \in net, SenderStep(p) PROVE RunInv'
    BY <1>3, ReceiveOfRun DEF SenderStep
<1>4. ASSUME NEW c \in Clients, NEW p \in net, ClientStep(c, p) PROVE RunInv'
    BY <1>4, TakePacketOfRun DEF ClientStep
<1>5. ASSUME NEW c \in Clients, TimeoutStep(c) PROVE RunInv'
    BY <1>5, TimeoutOfRun DEF TimeoutStep
<1>6. CASE Stop
    BY <1>6, TerminateOfRun DEF Stop
<1>7. CASE Rerun
    BY <1>7, RerunOfRun DEF Rerun
<1>8. CASE Loss \/ UNCHANGED vars
    <2>1. UNCHANGED sessionVars /\ UNCHANGED clientVars /\ net' \subseteq net
        BY <1>8 DEF Loss, Lose, vars, netVars
    <2>2. PICK answers : answers = {}
        OBVIOUS
    <2>3. net' \subseteq net \cup answers /\ \A q \in answers : Genuine(q)
        BY <2>1, <2>2
    <2>4. ASSUME NEW c \in Clients PROVE ClientOfRun(c)'
        BY <2>1, SessionStays, ClientStays DEF RunInv, clientVars
    <2>5. OutputIsPrefix' /\ IntactFileNeverMismatches'
        BY <2>1 DEF RunInv, OutputIsPrefix, IntactFileNeverMismatches, OfThisRun,
            sessionVars, clientVars
    <2> QED BY <2>1, <2>3, <2>4, <2>5, ClientStepOfRun
<1> QED BY <1>1, <1>2, <1>3, <1>4, <1>5, <1>6, <1>7, <1>8 DEF Next

LEMMA RunAlways == Spec => [](IInv /\ RunInv)
<1>1. Init => IInv /\ RunInv
    BY InitIInv, InitRun
<1>2. IInv /\ RunInv /\ [Next]_vars => IInv' /\ RunInv'
    BY NextIInv, NextRun
<1> QED BY <1>1, <1>2, PTL DEF Spec

-----------------------------------------------------------------------------
(* What Transfer says of the current run.                                    *)

\* The chunks that receive_file writes, each acknowledged before send_next_chunk moves
\* on, put the file of the current run together in order, unless the output stream
\* fails: nothing that earlier runs left on the network gets in between.
THEOREM OutputIsPrefixOfFile == Spec => []OutputIsPrefix
<1>1. IInv /\ RunInv => OutputIsPrefix
    BY DEF RunInv
<1> QED BY <1>1, RunAlways, PTL

\* The hash check at the end of receive_file fails only for a file that was changed
\* after its registration, or a disk that did not take the output.
THEOREM MismatchMeansChanged == Spec => []IntactFileNeverMismatches
<1>1. IInv /\ RunInv => IntactFileNeverMismatches
    BY DEF RunInv
<1> QED BY <1>1, RunAlways, PTL

\* No receiver of the current run is more than the chunk in hand ahead of what
\* handle_ack has confirmed.
THEOREM OneChunkAhead == Spec => []OneChunkInFlight
<1>1. IInv /\ RunInv => OneChunkInFlight
    BY DEF RunInv, ClientOfRun, OneChunkInFlight
<1> QED BY <1>1, RunAlways, PTL

\* receive_file's "sender != peer" never drops a chunk or Done of its session, because
\* the session keeps to the endpoint whose hello it accepted.
THEOREM FilterKeepsChunks == Spec => []PeerFilterKeepsChunks
<1>1. IInv /\ RunInv => PeerFilterKeepsChunks
    <2> SUFFICES ASSUME IInv, RunInv, NEW p \in net,
                        p.kind \in {"data", "done"}, p.id = transfer_id,
                        pc[p.ep[1]] = "receiving", OfThisRun(p.ep[1])
                 PROVE  p.ep[2] = peer[p.ep[1]]
        BY DEF PeerFilterKeepsChunks
    <2>1. p.ep[1] \in Clients /\ Genuine(p)
        BY RunTypes DEF RunInv, AllGenuine, Packets, Endpoints
    <2>2. p.ep = m_remote_endpoint
        BY <2>1 DEF Genuine
    <2>3. m_remote_endpoint = <<p.ep[1], peer[p.ep[1]]>>
        BY <2>1 DEF RunInv, ClientOfRun
    <2> QED BY <2>2, <2>3
<1> QED BY <1>1, RunAlways, PTL

-----------------------------------------------------------------------------
(* One run of the sender.                                                    *)

\* The sender is not run again.
SingleRun == MaxRuns = 1

\* So every receiver that has begun is of the current run.
LEMMA AllOfThisRun ==
    ASSUME RunInv, OneRunInv, NEW c \in Clients, pc[c] # "idle"
    PROVE  OfThisRun(c)
BY DEF RunInv, OneRunInv, ClientOfRun, OfThisRun

\* What the receivers do takes nothing back.
LEMMA ClientStepOfOneRun ==
    ASSUME IInv, IInv', OneRunInv, UNCHANGED sessionVars,
           \A c \in Clients : current_offset[c] <= current_offset'[c]
    PROVE  OneRunInv'
<1>1. runs' = runs /\ transfers' = transfers /\ transfer_id' = transfer_id
    BY DEF sessionVars
<1>2. AckedByPeer'
    <2> SUFFICES ASSUME m_state = "Transferring"
                 PROVE  m_offset <= current_offset'[m_remote_endpoint[1]]
        BY DEF AckedByPeer, sessionVars
    <2>1. /\ m_offset \in Nat /\ current_offset \in [Clients -> Nat]
          /\ current_offset' \in [Clients -> Nat]
          /\ m_remote_endpoint[1] \in Clients
        BY RunTypes, NextTypes DEF SessionTypeOK, Endpoints
    <2>2. m_offset <= current_offset[m_remote_endpoint[1]]
        BY DEF OneRunInv, AckedByPeer
    <2> QED BY <2>1, <2>2
<1> QED BY <1>1, <1>2 DEF OneRunInv

\* An ack that moves the session on comes from the endpoint it answers, and what it
\* acknowledges has been taken there.
LEMMA ReceiveOfOneRun ==
    ASSUME IInv, RunInv, OneRunInv, NEW p, Receive(p), UNCHANGED clientVars
    PROVE  OneRunInv'
<1>1. /\ p \in net /\ p \in Packets /\ Taken(p) /\ Genuine(p) /\ p.to = "sender"
      /\ UNCHANGED runVars
    BY RunTypes DEF Receive, IInv, AcksAreTaken, RunInv, AllGenuine
<1>2. runs' = runs /\ transfers' = transfers /\ transfer_id' = transfer_id
    BY <1>1 DEF runVars
<1>3. AckedByPeer'
    <2>1. CASE AdvanceOnAck(p)
        <3>1. PICK o : o = m_offset + m_last_chunk_size
            OBVIOUS
        <3>2. AckOf(p, o) /\ m_offset' = o /\ m_remote_endpoint' = m_remote_endpoint
            BY <2>1, <3>1 DEF AdvanceOnAck, SendNextChunk
        <3>3. p.kind = "ack" /\ p.off = o
            BY <1>1, <3>2, AckIsAck DEF Taken
        <3>4. p.ep = m_remote_endpoint
            BY <1>1, <3>3 DEF Genuine, OneRunInv
        <3>5. o <= current_offset[m_remote_endpoint[1]]
            BY <1>1, <3>3, <3>4 DEF Taken
        <3> QED BY <3>2, <3>5 DEF AckedByPeer, clientVars
    <2>2. CASE StartTransfer(p)
        <3>1. m_offset' = 0 /\ m_remote_endpoint' = m_remote_endpoint
            BY <2>2 DEF StartTransfer, SendNextChunk, RunInv, SessionOfRun
        <3>2. current_offset[m_remote_endpoint[1]] \in Nat
            BY RunTypes DEF SessionTypeOK, Endpoints
        <3>3. 0 <= current_offset[m_remote_endpoint[1]]
            BY <3>2
        <3> QED BY <3>1, <3>3 DEF AckedByPeer, clientVars
    <2>3. CASE \/ IgnoreUnparsed(p) \/ ExpectHello(p) \/ RejectHello(p)
               \/ AcceptHello(p) \/ FailToOpen(p) \/ CompleteOnAck(p)
        BY <2>3 DEF IgnoreUnparsed, ExpectHello, RejectHello, AcceptHello, FailToOpen,
            CompleteOnAck, AckedByPeer
    <2>4. CASE ResendChunk(p) \/ OtherControl(p)
        <3>1. /\ m_state' = "Transferring" => m_state = "Transferring"
              /\ m_offset' = m_offset /\ m_remote_endpoint' = m_remote_endpoint
            BY <2>4 DEF ResendChunk, OtherControl, chunkVars
        <3> QED BY <3>1 DEF OneRunInv, AckedByPeer, clientVars
    <2> QED BY <2>1, <2>2, <2>3, <2>4 DEF Receive, HandlePacket
<1> QED BY <1>2, <1>3 DEF OneRunInv

LEMMA InitOneRun == Init => OneRunInv
BY DEF Init, SessionInit, OneRunInv, AckedByPeer

LEMMA NextOneRun ==
    ASSUME SingleRun, IInv, IInv', RunInv, OneRunInv, [Next]_vars
    PROVE  OneRunInv'
<1>1. /\ SessionInv /\ NetInv /\ ClientInv
      /\ transfers \subseteq Tokens
    BY IInvParts, RunTypes
<1>2. ASSUME NEW c \in Clients, Begin(c) PROVE OneRunInv'
    <2>1. ClientStepInv
        BY <1>1, <1>2, StartKeepsInv DEF Begin
    <2> QED BY <1>2, <2>1, ClientStepOfOneRun DEF Begin, ClientStepInv
<1>3. ASSUME NEW c \in Clients, Signalled(c) PROVE OneRunInv'
    <2>1. /\ UNCHANGED runVars /\ m_state' = m_state /\ m_state = "WaitingHello"
        BY <1>3 DEF Signalled, Serve, RunInv, SessionOfRun
    <2> QED BY <2>1 DEF OneRunInv, AckedByPeer, runVars
<1>4. ASSUME NEW p \in net, SenderStep(p) PROVE OneRunInv'
    BY <1>4, ReceiveOfOneRun DEF SenderStep
<1>5. ASSUME NEW c \in Clients, NEW p \in net, ClientStep(c, p) PROVE OneRunInv'
    <2>1. ClientStepInv
        BY <1>1, <1>5, TakePacketKeepsInv DEF ClientStep
    <2> QED BY <1>5, <2>1, ClientStepOfOneRun DEF ClientStep, ClientStepInv
<1>6. ASSUME NEW c \in Clients, TimeoutStep(c) PROVE OneRunInv'
    <2>1. ClientStepInv
        BY <1>1, <1>6, TimeoutKeepsInv DEF TimeoutStep
    <2> QED BY <1>6, <2>1, ClientStepOfOneRun DEF TimeoutStep, ClientStepInv
<1>7. CASE Stop
    BY <1>7 DEF Stop, Terminate, OneRunInv, AckedByPeer, runVars, chunkVars, clientVars
<1>8. CASE Rerun
    BY <1>8 DEF Rerun, SendAgain, SingleRun, OneRunInv
<1>9. CASE Loss \/ UNCHANGED vars
    BY <1>9 DEF Loss, vars, sessionVars, clientVars, OneRunInv, AckedByPeer
<1> QED BY <1>2, <1>3, <1>4, <1>5, <1>6, <1>7, <1>8, <1>9 DEF Next

LEMMA OneRunAlways ==
    ASSUME SingleRun
    PROVE  Spec => [](IInv /\ RunInv /\ OneRunInv)
<1>1. Init => IInv /\ RunInv /\ OneRunInv
    BY InitIInv, InitRun, InitOneRun
<1>2. IInv /\ RunInv /\ OneRunInv /\ [Next]_vars => IInv' /\ RunInv' /\ OneRunInv'
    BY NextIInv, NextRun, NextOneRun
<1> QED BY <1>1, <1>2, PTL DEF Spec

\* In one run handle_ack is moved only by the peer it serves, however many receivers
\* there are and although it does not look at the source of an ack.
THEOREM AckedByOwnPeer == SingleRun => (Spec => []AckedByPeer)
<1> SUFFICES ASSUME SingleRun PROVE Spec => []AckedByPeer
    OBVIOUS
<1>1. IInv /\ RunInv /\ OneRunInv => AckedByPeer
    BY DEF OneRunInv
<1> QED BY <1>1, OneRunAlways, PTL

-----------------------------------------------------------------------------
(* A transfer implements Delivery.                                           *)

Statuses == [c \in Clients |-> Status(c)]

\* Delivery's variables, in the order of Delivery!vars.
MapVars ==
    <<Registered[transfer_id], m_file_path, m_offset, reported, current_offset, out,
      Statuses>>

\* Nobody waits any less while the clients' pc stay as they are.
LEMMA SamePcSameStatus ==
    ASSUME UNCHANGED pc
    PROVE  UNCHANGED Statuses
BY DEF Statuses, Status

\* A client that is running, or has not begun, waits; one whose pc is next has the
\* status of next, and the others keep theirs.
LEMMA StatusMoves ==
    ASSUME IInv, NEW c \in Clients, pc[c] \in Running \cup {"idle"},
           NEW next \in Running \cup Results, pc' = [pc EXCEPT ![c] = next]
    PROVE  /\ Statuses[c] = "waiting"
           /\ next \in Running => Statuses' = Statuses
           /\ next = "complete" => Statuses' = [Statuses EXCEPT ![c] = "succeeded"]
           /\ next \in Results \ {"complete"} =>
                  Statuses' = [Statuses EXCEPT ![c] = "failed"]
<1>1. pc \in [Clients -> {"idle"} \cup Running \cup Results]
    BY DEF IInv, TypeOK, ClientTypeOK
<1>2. Statuses[c] = "waiting"
    BY DEF Statuses, Status, Running, Results
<1>3. pc'[c] = next /\ \A d \in Clients \ {c} : pc'[d] = pc[d]
    BY <1>1
<1>4. Statuses' = [d \in Clients |-> Status(d)']
    BY DEF Statuses
<1>5. ASSUME NEW d \in Clients \ {c} PROVE Status(d)' = Statuses[d]
    BY <1>3 DEF Status, Statuses
<1>6. /\ next \in Running => Status(c)' = "waiting"
      /\ next = "complete" => Status(c)' = "succeeded"
      /\ next \in Results \ {"complete"} => Status(c)' = "failed"
    BY <1>3 DEF Status, Running, Results
<1>7. Statuses = [d \in Clients |-> Statuses[d]]
    BY DEF Statuses
<1>8. PICK now : now = Status(c)'
    OBVIOUS
<1>9. Statuses' = [Statuses EXCEPT ![c] = now]
    <2>1. \A d \in Clients : Status(d)' = IF d = c THEN now ELSE Statuses[d]
        BY <1>5, <1>8
    <2>2. Statuses' = [d \in Clients |-> IF d = c THEN now ELSE Statuses[d]]
        BY <1>4, <2>1
    <2>3. [Statuses EXCEPT ![c] = now] =
              [d \in Clients |-> IF d = c THEN now ELSE Statuses[d]]
        BY <1>7
    <2> QED BY <2>2, <2>3
<1>10. [Statuses EXCEPT ![c] = "waiting"] = Statuses
    BY <1>2, <1>7
<1> QED BY <1>2, <1>6, <1>8, <1>9, <1>10

\* A receiver that does not take anything, and has no verdict, waits on or fails.
LEMMA QuietDelivers ==
    ASSUME IInv, UNCHANGED sessionVars, UNCHANGED <<current_offset, out>>,
           NEW c \in Clients, pc[c] \in Running \cup {"idle"},
           NEW next \in Running \cup (Results \ {"complete"}),
           pc' = [pc EXCEPT ![c] = next]
    PROVE  D!Next \/ UNCHANGED MapVars
<1>1. UNCHANGED <<m_file_path, m_offset, reported>>
      /\ Registered[transfer_id]' = Registered[transfer_id]
    BY DEF sessionVars
<1>2. CASE next \in Running
    BY <1>1, <1>2, StatusMoves DEF MapVars
<1>3. CASE next \in Results \ {"complete"}
    <2>1. D!Fail(c)
        BY <1>1, <1>3, StatusMoves DEF D!Fail, Statuses
    <2> QED BY <2>1 DEF D!Next
<1> QED BY <1>2, <1>3

LEMMA WriteChunkDelivers ==
    ASSUME IInv, RunInv, OneRunInv, UNCHANGED sessionVars,
           NEW c \in Clients, NEW p \in net, p.to = "client", WriteChunk(c, p)
    PROVE  D!Next
<1>1. /\ current_offset \in [Clients -> Nat] /\ out \in [Clients -> Seq(Byte)]
      /\ m_file_path \in Seq(Byte) /\ Len(m_file_path) \in Nat
      /\ m_offset \in Nat /\ m_last_chunk_size \in 0..PayloadSize /\ PayloadSize \in Nat
      /\ pc \in [Clients -> {"idle"} \cup Running \cup Results]
    BY RunTypes, ConstantTypes DEF ClientTypeOK
<1>2. PICK n \in Nat : n = current_offset[c] + Len(p.load)
    BY <1>1, DueChunk
<1>3. /\ pc[c] = "receiving" /\ UNCHANGED pc
      /\ current_offset' = [current_offset EXCEPT ![c] = n]
      /\ n > current_offset[c] /\ n <= Len(m_file_path)
      /\ n <= m_offset + m_last_chunk_size
      /\ SubSeq(m_file_path, 1, current_offset[c]) \o p.load = SubSeq(m_file_path, 1, n)
    <2>0. OfThisRun(c)
        BY DueChunk, AllOfThisRun
    <2>1. Len(p.load) \in Nat /\ Len(p.load) > 0
        BY <2>0, DueChunk
    <2>2. n > current_offset[c]
        <3>1. PICK k \in Nat : k = Len(p.load) /\ k > 0
            BY <2>1
        <3> QED BY <1>1, <1>2, <3>1
    <2>3. /\ UNCHANGED <<pc, token, peer>> /\ pc[c] = "receiving"
          /\ current_offset' = [current_offset EXCEPT ![c] = n]
        BY <1>2, DueChunk
    <2>4. /\ n <= Len(m_file_path)
          /\ n <= m_offset + m_last_chunk_size
          /\ SubSeq(m_file_path, 1, current_offset[c]) \o p.load
               = SubSeq(m_file_path, 1, n)
        BY <1>2, <2>0, DueChunk
    <2> QED BY <2>2, <2>3, <2>4
<1>4. PICK written \in BOOLEAN :
         /\ written => out_ok[c]
         /\ out' = [out EXCEPT ![c] = IF written THEN @ \o p.load ELSE @]
    BY DueChunk
<1>5. n \in current_offset[c] + 1 .. m_offset + PayloadSize
    BY <1>1, <1>3
<1>6. \/ out' = out
      \/ /\ Len(out[c]) = current_offset[c]
         /\ out' = [out EXCEPT ![c] = SubSeq(m_file_path, 1, n)]
    <2>1. CASE written
        <3>1. /\ current_offset[c] <= Len(m_file_path)
              /\ out[c] = SubSeq(m_file_path, 1, current_offset[c])
            BY <1>3, <1>4, <2>1, AllOfThisRun DEF RunInv, OutputIsPrefix
        <3>2. Len(out[c]) = current_offset[c]
            BY <1>1, <3>1
        <3>3. out[c] \o p.load = SubSeq(m_file_path, 1, n)
            BY <1>3, <3>1
        <3> QED BY <1>4, <2>1, <3>2, <3>3
    <2>2. CASE ~written
        BY <1>1, <1>4, <2>2
    <2> QED BY <2>1, <2>2
<1>7. Statuses[c] = "waiting" /\ Statuses' = Statuses
    <2>1. pc' = [pc EXCEPT ![c] = pc[c]]
        BY <1>1, <1>3
    <2> QED BY <1>3, <2>1, StatusMoves DEF Running
<1>8. UNCHANGED <<m_file_path, m_offset, reported>>
      /\ Registered[transfer_id]' = Registered[transfer_id]
    BY DEF sessionVars
<1>9. D!Take(c)
    BY <1>3, <1>5, <1>6, <1>7, <1>8 DEF D!Take, Statuses
<1> QED BY <1>9 DEF D!Next

LEMMA FinishDelivers ==
    ASSUME IInv, RunInv, OneRunInv, UNCHANGED sessionVars, NEW c \in Clients, NEW p, Finish(c, p)
    PROVE  D!Next \/ UNCHANGED MapVars
<1>1. /\ pc[c] = "receiving" /\ UNCHANGED <<current_offset, out>>
      /\ pc' = [pc EXCEPT ![c] = IF Intact(c) THEN "complete" ELSE "mismatch"]
    BY DEF Finish
<1>2. CASE Intact(c)
    <2>1. out[c] = Registered[transfer_id]
        BY <1>1, <1>2, AllOfThisRun DEF Intact, OfThisRun
    <2>2. /\ UNCHANGED <<m_file_path, m_offset, reported>>
          /\ Registered[transfer_id]' = Registered[transfer_id]
        BY DEF sessionVars
    <2>3. /\ Statuses[c] = "waiting"
          /\ Statuses' = [Statuses EXCEPT ![c] = "succeeded"]
        BY <1>1, <1>2, StatusMoves DEF Running, Results
    <2>4. D!Succeed(c)
        BY <1>1, <2>1, <2>2, <2>3 DEF D!Succeed, Statuses
    <2> QED BY <2>4 DEF D!Next
<1>3. CASE ~Intact(c)
    <2>1. "mismatch" \in Results \ {"complete"}
        BY DEF Results
    <2>2. pc' = [pc EXCEPT ![c] = "mismatch"]
        BY <1>1, <1>3
    <2> QED BY <1>1, <2>1, <2>2, QuietDelivers DEF Running
<1> QED BY <1>2, <1>3

LEMMA TakePacketDelivers ==
    ASSUME IInv, RunInv, OneRunInv, UNCHANGED sessionVars,
           NEW c \in Clients, NEW p, TakePacket(c, p)
    PROVE  D!Next \/ UNCHANGED MapVars
<1>1. pc \in [Clients -> {"idle"} \cup Running \cup Results]
    BY DEF IInv, TypeOK, ClientTypeOK
<1>2. CASE WriteChunk(c, p)
    BY <1>2, WriteChunkDelivers DEF TakePacket
<1>3. CASE Finish(c, p)
    BY <1>3, FinishDelivers
<1>4. CASE Connect(c, p) \/ WasteAttempt(c, p) \/ SkipStranger(c, p) \/ ReAck(c, p)
           \/ AcceptError(c, p) \/ SkipUseless(c, p)
    <2>1. PICK next : next = pc'[c]
        OBVIOUS
    <2>2. /\ pc[c] \in Running /\ pc' = [pc EXCEPT ![c] = next]
          /\ next \in Running \cup (Results \ {"complete"})
          /\ UNCHANGED <<current_offset, out>>
        BY <1>1, <1>4, <2>1 DEF Connect, WasteAttempt, NextAttempt, SkipStranger, ReAck,
            AcceptError, SkipUseless, clientVars, Running, Results
    <2> QED BY <2>2, QuietDelivers
<1> QED BY <1>2, <1>3, <1>4 DEF TakePacket

LEMMA OtherClientStepsDeliver ==
    ASSUME IInv, UNCHANGED sessionVars, NEW c \in Clients, NEW id,
           Start(c, id) \/ Timeout(c)
    PROVE  D!Next \/ UNCHANGED MapVars
<1>1. pc \in [Clients -> {"idle"} \cup Running \cup Results]
    BY DEF IInv, TypeOK, ClientTypeOK
<1>2. PICK next : next = pc'[c]
    OBVIOUS
<1>3. /\ pc[c] \in Running \cup {"idle"} /\ pc' = [pc EXCEPT ![c] = next]
      /\ next \in Running \cup (Results \ {"complete"})
      /\ UNCHANGED <<current_offset, out>>
    BY <1>1, <1>2 DEF Start, Timeout, HandshakeTimeout, NextAttempt, ReceiveTimeout,
        Running, Results
<1> QED BY <1>3, QuietDelivers

\* A step of the sender that neither gets on with the file nor reports.
LEMMA SenderStutters ==
    ASSUME UNCHANGED clientVars, UNCHANGED runVars, UNCHANGED <<m_offset, reported>>
    PROVE  UNCHANGED MapVars
<1>1. UNCHANGED Statuses
    BY SamePcSameStatus DEF clientVars
<1> QED BY <1>1 DEF MapVars, clientVars, runVars

LEMMA AckDelivers ==
    ASSUME IInv, RunInv, OneRunInv, UNCHANGED clientVars, UNCHANGED runVars,
           NEW p \in net, p.to = "sender",
           AdvanceOnAck(p) \/ CompleteOnAck(p)
    PROVE  D!Next \/ UNCHANGED MapVars
<1>1. /\ m_offset \in Nat /\ m_last_chunk_size \in Nat
      /\ Len(m_file_path) \in Nat /\ p \in Packets /\ p.ep[1] \in Clients
      /\ current_offset[p.ep[1]] \in Nat
    BY RunTypes DEF Packets, Endpoints
<1>2. PICK o \in Nat : o = m_offset + m_last_chunk_size
    BY <1>1
<1>3. AckOf(p, o) /\ m_state = "Transferring"
    BY <1>2 DEF AdvanceOnAck, CompleteOnAck
<1>4. o <= current_offset[p.ep[1]]
    <2>1. Taken(p)
        BY DEF IInv, AcksAreTaken
    <2> QED BY <1>1, <1>3, <2>1, AckIsAck DEF Taken
<1>5. /\ UNCHANGED Statuses /\ UNCHANGED <<m_file_path, current_offset, out>>
      /\ Registered[transfer_id]' = Registered[transfer_id]
    BY SamePcSameStatus DEF clientVars, runVars
<1>6. CASE AdvanceOnAck(p)
    <2>1. m_offset' = o /\ UNCHANGED reported
        BY <1>2, <1>6 DEF AdvanceOnAck, SendNextChunk
    <2>2. CASE m_last_chunk_size = 0
        BY <1>1, <1>2, <2>1, <2>2, SenderStutters
    <2>3. CASE m_last_chunk_size # 0
        <3>1. o \in m_offset + 1 .. current_offset[p.ep[1]]
            BY <1>1, <1>2, <1>4, <2>3
        <3>2. D!Confirm
            BY <1>1, <1>5, <2>1, <3>1 DEF D!Confirm, Statuses
        <3> QED BY <3>2 DEF D!Next
    <2> QED BY <2>2, <2>3
<1>7. CASE CompleteOnAck(p)
    <2>1. /\ UNCHANGED m_offset /\ reported' = TRUE
          /\ m_last_chunk_size = 0 /\ m_offset >= Len(m_file_path)
        BY <1>7 DEF CompleteOnAck, IInv, DoneAtEnd
    <2>2. ~reported
        BY <1>3 DEF RunInv, SessionOfRun
    <2>3. current_offset[p.ep[1]] <= Len(m_file_path)
        <3>1. CASE pc[p.ep[1]] = "idle"
            BY <1>1, <3>1 DEF RunInv, ClientOfRun
        <3>2. CASE pc[p.ep[1]] # "idle"
            BY <1>1, <3>2, AllOfThisRun DEF RunInv, ClientOfRun
        <3> QED BY <3>1, <3>2
    <2>4. o = m_offset
        BY <1>1, <1>2, <2>1
    <2>5. m_offset = Len(m_file_path) /\ current_offset[p.ep[1]] = Len(m_file_path)
        BY <1>1, <1>4, <2>1, <2>3, <2>4
    <2>6. D!Report
        BY <1>1, <1>5, <2>1, <2>2, <2>5 DEF D!Report, Statuses
    <2> QED BY <2>6 DEF D!Next
<1> QED BY <1>6, <1>7

LEMMA ReceiveDelivers ==
    ASSUME IInv, RunInv, OneRunInv, UNCHANGED clientVars, NEW p, Receive(p)
    PROVE  D!Next \/ UNCHANGED MapVars
<1>1. p \in net /\ p.to = "sender" /\ UNCHANGED runVars
    BY DEF Receive
<1>2. CASE AdvanceOnAck(p) \/ CompleteOnAck(p)
    BY <1>1, <1>2, AckDelivers
<1>3. CASE StartTransfer(p)
    BY <1>1, <1>3, SenderStutters DEF StartTransfer, SendNextChunk
<1>4. CASE \/ IgnoreUnparsed(p) \/ ExpectHello(p) \/ RejectHello(p) \/ AcceptHello(p)
           \/ FailToOpen(p) \/ ResendChunk(p) \/ OtherControl(p)
    <2>1. UNCHANGED chunkVars
        BY <1>4 DEF IgnoreUnparsed, ExpectHello, RejectHello, AcceptHello, FailToOpen,
            ResendChunk, OtherControl
    <2> QED BY <1>1, <2>1, SenderStutters DEF chunkVars
<1> QED BY <1>2, <1>3, <1>4 DEF Receive, HandlePacket

LEMMA StepDelivers ==
    ASSUME SingleRun, IInv, RunInv, OneRunInv, [Next]_vars
    PROVE  [D!Next]_MapVars
<1>1. ASSUME NEW c \in Clients, Begin(c) PROVE D!Next \/ UNCHANGED MapVars
    BY <1>1, OtherClientStepsDeliver DEF Begin
<1>2. ASSUME NEW c \in Clients, Signalled(c) PROVE D!Next \/ UNCHANGED MapVars
    BY <1>2, SenderStutters DEF Signalled, Serve, chunkVars
<1>3. ASSUME NEW p \in net, SenderStep(p) PROVE D!Next \/ UNCHANGED MapVars
    BY <1>3, ReceiveDelivers DEF SenderStep
<1>4. ASSUME NEW c \in Clients, NEW p \in net, ClientStep(c, p)
      PROVE  D!Next \/ UNCHANGED MapVars
    BY <1>4, TakePacketDelivers DEF ClientStep
<1>5. ASSUME NEW c \in Clients, TimeoutStep(c) PROVE D!Next \/ UNCHANGED MapVars
    BY <1>5, OtherClientStepsDeliver DEF TimeoutStep
<1>6. CASE Stop
    BY <1>6, SenderStutters DEF Stop, Terminate, chunkVars
<1>7. CASE Rerun
    <2>1. runs < MaxRuns
        BY <1>7 DEF Rerun, SendAgain
    <2> QED BY <2>1 DEF SingleRun, OneRunInv
<1>8. CASE Loss \/ UNCHANGED vars
    BY <1>8, SenderStutters DEF Loss, vars, sessionVars, runVars
<1> QED BY <1>1, <1>2, <1>3, <1>4, <1>5, <1>6, <1>7, <1>8 DEF Next

LEMMA StartDelivers == Init => D!Init
<1> SUFFICES ASSUME Init PROVE D!Init
    OBVIOUS
<1>1. transfer_id \in Tokens /\ m_file_path \in Served[transfer_id]
    BY DEF Init, SessionInit
<1>2. Registered[transfer_id] \in {Registered[id] : id \in Tokens}
      /\ m_file_path \in UNION {Served[id] : id \in Tokens}
    BY <1>1
<1>3. m_offset = 0 /\ reported = FALSE
    BY DEF Init, SessionInit
<1>4. /\ current_offset = [c \in Clients |-> 0] /\ out = [c \in Clients |-> <<>>]
      /\ \A c \in Clients : pc[c] = "idle"
    BY DEF Init, ClientInit
<1>5. [c \in Clients |-> Status(c)] = [c \in Clients |-> "waiting"]
    BY <1>4 DEF Status, Results
<1> QED BY <1>2, <1>3, <1>4, <1>5 DEF D!Init

\* session.hpp and client.cpp together do what Delivery says of one run of "zapshare
\* send": the file moves in order, a chunk at a time, nobody succeeds with another
\* file, and nothing is confirmed or reported that has not been taken.
THEOREM TransferImplementsDelivery == SingleRun => (Spec => Delivers)
<1> SUFFICES ASSUME SingleRun PROVE Spec => Delivers
    OBVIOUS
<1>1. IInv /\ RunInv /\ OneRunInv /\ [Next]_vars => [D!Next]_MapVars
    BY StepDelivers
<1>2. Init => D!Init
    BY StartDelivers
<1> QED BY <1>1, <1>2, OneRunAlways, PTL
        DEF Spec, Delivers, D!Spec, D!vars, MapVars, Statuses
=============================================================================
