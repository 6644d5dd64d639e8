-------------------------- MODULE TransferDelivers --------------------------
(***************************************************************************)
(* One run of the sender implements Delivery.                              *)
(***************************************************************************)
EXTENDS Transfer

\* What a receiver's state means to its user.
Status(c) ==
    CASE pc[c] = "complete"               -> "succeeded"
      [] pc[c] \in Results \ {"complete"} -> "failed"
      [] OTHER                            -> "waiting"

D == INSTANCE Delivery WITH
        Receivers <- Clients,
        Files     <- {Registered[id] : id \in Tokens} \cup UNION {Served[id] : id \in Tokens},
        ChunkSize <- PayloadSize,
        wanted    <- Registered[transfer_id],
        file      <- m_file_path,
        confirmed <- m_offset,
        told      <- reported,
        taken     <- current_offset,
        output    <- out,
        status    <- [c \in Clients |-> Status(c)]

\* Every step of a transfer by one run of "zapshare send" is one of Delivery's, or
\* none: session.hpp and client.cpp together move the file in order, a chunk at a
\* time, and neither side claims what the other has not done. (One run.)
Delivers == D!Spec

-----------------------------------------------------------------------------
(* The inductive invariant from which RunProofs derives that, and what       *)
(* Transfer says of the current run. RunInv adds the following to IInv; it   *)
(* holds however often the sender was run.                                   *)

\* Nothing is sent, nor counted, before a transfer starts; the chunk in hand is the
\* file's at m_offset.
SessionOfRun ==
    /\ phase = "polling" => m_state = "WaitingHello"
    /\ m_state \in {"WaitingHello", "Authenticated"} =>
           m_offset = 0 /\ m_last_chunk_size = 0 /\ m_last_packet_cache = {}
    /\ m_state = "Transferring" =>
           /\ m_last_chunk_size = Len(Chunk(m_file_path, m_offset))
           /\ m_last_chunk_done = (Chunk(m_file_path, m_offset) = <<>>)
    /\ reported => m_state = "Closed"

\* Every id on a datagram was registered. Of what carries the id of the current run:
\* once the session has accepted a hello it answers one endpoint, which is the only
\* one to send acks, and what it sends of its file is chunks up to the one in hand.
Genuine(p) ==
    /\ p.id \in transfers \cup {NoToken}
    /\ p.kind = "ack" => p.id # NoToken
    /\ p.to = "client" =>
        p.kind \in {"punch", "hs_error", "server_hello", "data", "done", "ctl_error"}
    /\ p.id = transfer_id =>
        /\ p.kind \in {"ack", "server_hello", "data", "done"} =>
               m_state # "WaitingHello" /\ p.ep = m_remote_endpoint
        /\ p.kind = "data" =>
               /\ p.load = Chunk(m_file_path, p.off)
               /\ p.load # <<>>
               /\ p.off + Len(p.load) <= m_offset + m_last_chunk_size
        /\ p.kind = "done" => p.off = Len(Registered[transfer_id])

AllGenuine == \A p \in net \cup m_last_packet_cache : Genuine(p)

\* A receiver was given a registered secret when it began. One of the current run has
\* taken no more than was sent, and if it is connected the session answers it.
ClientOfRun(c) ==
    /\ IF pc[c] = "idle"
       THEN token[c] = NoToken /\ current_offset[c] = 0 /\ out[c] = <<>>
       ELSE token[c] \in transfers
    /\ OfThisRun(c) =>
        /\ current_offset[c] <= Len(m_file_path)
        /\ current_offset[c] <= m_offset + m_last_chunk_size
        /\ pc[c] = "receiving" =>
               m_state # "WaitingHello" /\ m_remote_endpoint = <<c, peer[c]>>

RunInv ==
    /\ SessionOfRun
    /\ AllGenuine
    /\ \A c \in Clients : ClientOfRun(c)
    /\ OutputIsPrefix
    /\ IntactFileNeverMismatches

\* And this, if the sender is not run again.
OneRunInv ==
    /\ runs = 1 /\ transfers = {transfer_id}
    /\ AckedByPeer
=============================================================================
