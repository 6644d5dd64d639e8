-------------------------------- MODULE Wire --------------------------------
(***************************************************************************)
(* The datagrams of the zapshare peer-to-peer protocol (proto/v1) and how  *)
(* each side reads the bytes it is given.                                  *)
(*                                                                         *)
(* Sender and receiver exchange two protobuf messages, HandshakePacket and *)
(* ControlPacket, with nothing in the datagram that says which of the two  *)
(* it is: the reader decides from its own state which message to parse.    *)
(* Both are a single "oneof", and their alternatives share field numbers,  *)
(* so a datagram of one family is also a legal datagram of the other.      *)
(* AsHandshake and AsControl say what each parser makes of each datagram.  *)
(***************************************************************************)
EXTENDS Naturals, Sequences

CONSTANTS
    Clients,   \* receiver processes ("zapshare get")
    Paths,     \* ways to reach a peer: its public and its local address
    Tokens,    \* the secrets that "zapshare send" generates
    NoToken,   \* the empty string, protobuf's default of a string field
    Byte,      \* the values of one byte of a file
    Registered, \* the file whose size and hash each transfer was registered with
    Punches    \* "PUNCH" datagrams sent to each address (5 in the code)

ASSUME WireAssumption ==
    /\ Clients # {}
    /\ Paths # {}
    /\ NoToken \notin Tokens
    /\ Registered \in [Tokens -> Seq(Byte)]
    /\ Punches \in Nat

-----------------------------------------------------------------------------

\* <<c, k>> is the address of client c as the sender sees it over path k, and
\* names the pair of addresses that a datagram between the two travels between.
Endpoints == Clients \X Paths

\* The path through the public addresses, the first that each side knows of.
Public == CHOOSE path \in Paths : TRUE

HandshakeKinds == {"client_hello", "server_hello", "handshake_finish", "hs_error"}
ControlKinds   == {"get", "ack", "data", "done", "ctl_error"}

\* A datagram: who receives it, the client's address on it, the alternative that
\* is set, and the fields some reader looks at. "off" is DataChunk.offset,
\* Ack.next_offset, Done.final_size, or the number of a hole punch; "load" is
\* DataChunk.payload. Keys, nonces and signatures are sent, but nobody reads them.
Packets ==
    [to      : {"sender", "client"},
     ep      : Endpoints,
     kind    : HandshakeKinds \cup ControlKinds \cup {"punch", "none"},
     version : {0, 1},
     id      : Tokens \cup {NoToken},
     off     : Nat,
     load    : Seq(Byte)]

Packet(to, ep, kind, version, id, off, load) ==
    [to |-> to, ep |-> ep, kind |-> kind, version |-> version,
     id |-> id, off |-> off, load |-> load]

NoLoad == <<>>

Punch(to, ep, i)          == Packet(to, ep, "punch", 0, NoToken, i, NoLoad)
ClientHello(ep, token)    == Packet("sender", ep, "client_hello", 1, token, 0, NoLoad)
ServerHello(ep, id)       == Packet("client", ep, "server_hello", 1, id, 0, NoLoad)
HandshakeError(ep)        == Packet("client", ep, "hs_error", 0, NoToken, 0, NoLoad)
GetRequest(ep, id)        == Packet("sender", ep, "get", 0, id, 0, NoLoad)
Ack(ep, id, next_offset)  == Packet("sender", ep, "ack", 0, id, next_offset, NoLoad)
DataChunk(ep, id, o, load) == Packet("client", ep, "data", 0, id, o, load)
Done(ep, id, final_size)  == Packet("client", ep, "done", 0, id, final_size, NoLoad)
ControlError(ep, id)      == Packet("client", ep, "ctl_error", 0, id, 0, NoLoad)

-----------------------------------------------------------------------------

\* The alternatives of the two oneofs with the same field number.
ControlTwin ==
    [client_hello |-> "get", server_hello |-> "ack",
     handshake_finish |-> "data", hs_error |-> "done"]

HandshakeTwin ==
    [get |-> "client_hello", ack |-> "server_hello",
     data |-> "handshake_finish", done |-> "hs_error", ctl_error |-> "none"]

\* p read as the other family. Twins agree on the wire type of no field that a
\* reader looks at, so every such field is skipped and keeps its default value.
Misread(p, kind) ==
    Packet(p.to, p.ep, kind, 0, NoToken, 0, NoLoad)

\* HandshakePacket::ParseFromString. Field 5 does not exist there: the error of
\* a ControlPacket is a packet with no alternative set. "PUNCH" parses as neither.
AsHandshake(p) ==
    IF p.kind \in ControlKinds THEN Misread(p, HandshakeTwin[p.kind]) ELSE p

\* ControlPacket::ParseFromString.
AsControl(p) ==
    IF p.kind \in HandshakeKinds THEN Misread(p, ControlTwin[p.kind]) ELSE p

Parses(p) == p.kind # "punch"
=============================================================================
