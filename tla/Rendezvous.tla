----------------------------- MODULE Rendezvous -----------------------------
(***************************************************************************)
(* How a sender and its receivers find each other: the calls that the runs *)
(* of "zapshare send" and "zapshare get" make to the central server before *)
(* the first datagram between them. (Transfer takes over from there.)      *)
(***************************************************************************)
EXTENDS CentralServer

CONSTANTS
    Senders,     \* runs of "zapshare send", each with a fresh UUID: its id
    Receivers,   \* runs of "zapshare get"
    NoSecret,    \* the secret of a receiver that was not started yet
    MaxPolls     \* tries of poll_for_signal, one a second

ASSUME RendezvousAssumption ==
    /\ Senders = Ids
    /\ Senders \cap Receivers = {}
    /\ Callers = Senders \cup Receivers
    /\ Contents = Callers       \* the row or the signal with that process's endpoints
    /\ NoSecret \notin Callers
    /\ Kinds = {"lookup", "getfile", "register", "post_signal", "get_signal"}
    /\ MaxPolls \in Nat \ {0}

VARIABLES
    stage,       \* how far a process has come
    asked,       \* the processes that wait in a call to the server
    secret,      \* argv[2] of a receiver
    polls,       \* tries that a sender has made
    found        \* the signal that ended a sender's poll

cliVars == <<stage, asked, secret, polls, found>>
rendezvousVars == <<centralVars, cliVars>>

SenderStages == {"register", "poll", "serving", "gave_up"}

\* A receiver ends with "Invalid secret!", with an exception that nobody catches
\* (before it was announced to the sender or after), or in the handshake.
ReceiverStages ==
    {"idle", "lookup", "getfile", "stun", "signal", "getfile_again",
     "invalid_secret", "lost", "stranded", "handshake"}

-----------------------------------------------------------------------------

\* The sender prints its secret and its user hands it to the user of r.
ShareSecret(s, r) ==
    /\ stage[s] # "register"
    /\ stage[r] = "idle"
    /\ stage' = [stage EXCEPT ![r] = "lookup"]
    /\ secret' = [secret EXCEPT ![r] = s]
    /\ UNCHANGED <<centralVars, asked, polls, found>>

Plain(kind, id) == [kind |-> kind, id |-> id]
With(kind, id, content) == [kind |-> kind, id |-> id, content |-> content]

\* p makes a request, which may be refused, and waits for what comes of it.
Ask(p, at, request) ==
    /\ stage[p] = at
    /\ p \notin asked
    /\ asked' = asked \cup {p}
    /\ Call(p, request) \/ CallRefused(p, request)
    /\ UNCHANGED <<stage, secret, polls, found>>

\* p goes on once its call has returned.
Return(p, at, next) ==
    /\ stage[p] = at
    /\ p \in asked
    /\ Idle(p)
    /\ asked' = asked \ {p}
    /\ stage' = [stage EXCEPT ![p] = next]
    /\ UNCHANGED <<centralVars, secret>>

\* register_transfer does not look at the result, and the secret is printed.
Register(s) == Ask(s, "register", With("register", s, s))
PrintSecret(s) == Return(s, "register", "poll") /\ UNCHANGED <<polls, found>>

\* poll_for_signal.
Poll(s) == Ask(s, "poll", Plain("get_signal", s))

PollFinds(s) ==
    /\ answer[s].status = 200
    /\ Return(s, "poll", "serving")
    /\ found' = [found EXCEPT ![s] = answer[s].body]
    /\ UNCHANGED polls

\* Mutant of PollFails: one try too many.
PollFailsOnceMore(s) ==
    /\ answer[s].status # 200
    /\ polls' = [polls EXCEPT ![s] = @ + 1]
    /\ Return(s, "poll", IF polls[s] < MaxPolls THEN "poll" ELSE "gave_up")
    /\ UNCHANGED found


\* Mutant of PollFails: a signal that does not parse, every time.
PollFailsOnAny(s) ==
    /\ polls' = [polls EXCEPT ![s] = @ + 1]
    /\ Return(s, "poll", IF polls[s] + 1 < MaxPolls THEN "poll" ELSE "gave_up")
    /\ UNCHANGED found

PollFails(s) ==
    /\ answer[s].status # 200
    /\ polls' = [polls EXCEPT ![s] = @ + 1]
    /\ Return(s, "poll", IF polls[s] + 1 < MaxPolls THEN "poll" ELSE "gave_up")
    /\ UNCHANGED found

\* look_up compares the body with "True"; any other outcome is "Invalid secret!".
Check(r) == Ask(r, "lookup", Plain("lookup", secret[r]))

\* Mutant of Checked: main fetches no metadata before it starts the client session.
CheckedOnly(r) ==
    /\ Return(r, "lookup", IF answer[r].body = "True" THEN "stun" ELSE "invalid_secret")
    /\ UNCHANGED <<polls, found>>

Checked(r) ==
    /\ Return(r, "lookup", IF answer[r].body = "True" THEN "getfile" ELSE "invalid_secret")
    /\ UNCHANGED <<polls, found>>

\* get_transfer_metadata throws if there is no response, and if the body is empty.
HasRow(reply) == reply.status # 0 /\ reply.body # ""

Fetch(r) == Ask(r, "getfile", Plain("getfile", secret[r]))

\* Mutant of Fetched: get_transfer_metadata returns an empty row when it fails.
FetchedAnything(r) == Return(r, "getfile", "stun") /\ UNCHANGED <<polls, found>>

Fetched(r) ==
    /\ Return(r, "getfile", IF HasRow(answer[r]) THEN "stun" ELSE "lost")
    /\ UNCHANGED <<polls, found>>

\* The STUN server answers, with the mapped address or with what does not parse; the
\* receive has no time limit: if the datagram is lost, r stays here.
StunAnswers(r) ==
    /\ stage[r] = "stun"
    /\ \E next \in {"signal", "lost"} : stage' = [stage EXCEPT ![r] = next]
    /\ UNCHANGED <<centralVars, asked, secret, polls, found>>

\* signal_receiver_endpoint only prints that it failed.
Announce(r) == Ask(r, "signal", With("post_signal", secret[r], r))

\* Mutant of Announced: it is tried again until it succeeds.
AnnouncedAtLast(r) ==
    /\ Return(r, "signal", IF answer[r].status = 200 THEN "getfile_again" ELSE "signal")
    /\ UNCHANGED <<polls, found>>

Announced(r) == Return(r, "signal", "getfile_again") /\ UNCHANGED <<polls, found>>

FetchAgain(r) == Ask(r, "getfile_again", Plain("getfile", secret[r]))
FetchedAgain(r) ==
    /\ Return(r, "getfile_again", IF HasRow(answer[r]) THEN "handshake" ELSE "stranded")
    /\ UNCHANGED <<polls, found>>

\* A call of p breaks off: GiveUp of the server's caller.
CallBreaks(p) == GiveUp(p) /\ UNCHANGED cliVars

-----------------------------------------------------------------------------

RendezvousInit ==
    /\ CentralInit
    /\ stage = [p \in Callers |-> IF p \in Senders THEN "register" ELSE "idle"]
    /\ asked = {}
    /\ secret = [r \in Receivers |-> NoSecret]
    /\ polls = [s \in Senders |-> 0]
    /\ found = [s \in Senders |-> NoSignal]

SenderNext(s) == Register(s) \/ PrintSecret(s) \/ Poll(s) \/ PollFinds(s) \/ PollFails(s)

ReceiverNext(r) ==
    \/ Check(r) \/ Checked(r) \/ Fetch(r) \/ Fetched(r)
    \/ Announce(r) \/ Announced(r) \/ FetchAgain(r) \/ FetchedAgain(r)

RendezvousNext ==
    \/ \E s \in Senders : SenderNext(s)
    \/ \E r \in Receivers : ReceiverNext(r) \/ StunAnswers(r)
    \/ \E s \in Senders, r \in Receivers : ShareSecret(s, r)
    \/ \E p \in Callers : CallBreaks(p)
    \/ ServerStep /\ UNCHANGED cliVars

RendezvousSpec == RendezvousInit /\ [][RendezvousNext]_rendezvousVars

\* The processes and the server's threads run, except that nothing makes the STUN
\* server answer.
RendezvousFairSpec ==
    /\ RendezvousSpec
    /\ \A s \in Senders : WF_rendezvousVars(SenderNext(s))
    /\ \A r \in Receivers : WF_rendezvousVars(ReceiverNext(r))
    /\ \A w \in Threads : WF_rendezvousVars(Step(w) /\ UNCHANGED cliVars)

-----------------------------------------------------------------------------
(* Type invariant.                                                           *)

\* Every variable keeps to the values its C++ counterpart can have.
RendezvousTypeOK ==
    /\ CentralTypeOK
    /\ stage \in [Callers -> SenderStages \cup ReceiverStages]
    /\ asked \subseteq Callers
    /\ secret \in [Receivers -> Senders \cup {NoSecret}]
    /\ polls \in [Senders -> 0..MaxPolls]
    /\ found \in [Senders -> Receivers \cup {NoSignal}]

-----------------------------------------------------------------------------
(* Safety.                                                                   *)

\* Stages of a receiver whose post of a signal may have reached the server.
HasAnnounced(r) ==
    \/ stage[r] = "signal" /\ r \in asked
    \/ stage[r] \in {"getfile_again", "stranded", "handshake"}

\* x is a receiver that has announced itself for id.
Announces(x, id) == x \in Receivers /\ secret[x] = id /\ HasAnnounced(x)

\* The sender starts to punch holes only towards a receiver that was given its
\* secret and has posted its signal for it: no signal of another transfer, or of before
\* a restart, is taken for it, also when the server's threads race.
FoundHasAnnounced ==
    \A s \in Senders : found[s] # NoSignal => Announces(found[s], s)

\* And that receiver has fetched the metadata and has thereby claimed the row.
\* (Without a race.)
FoundItsReceiver ==
    /\ FoundHasAnnounced
    /\ \A s \in Senders : found[s] # NoSignal => Stored(s) /\ table[s].claimed

\* main.cpp:77 calls a secret invalid if the lookup does not confirm it.
InvalidMeansUnknown ==
    \A r \in Receivers : stage[r] = "invalid_secret" => ~Stored(secret[r])

-----------------------------------------------------------------------------
(* The inductive invariant from which RendezvousProofs derives that a sender *)
(* finds its receiver: HandlerInv with CliInv, and without a race CentralInv *)
(* with CliInv and with ClaimedBy of each receiver.                          *)

\* A process is in a stage of its command; a receiver has a secret once it has begun.
StagesFit ==
    /\ \A s \in Senders : stage[s] \in SenderStages
    /\ \A r \in Receivers :
          /\ stage[r] \in ReceiverStages
          /\ stage[r] = "idle" <=> secret[r] = NoSecret
    /\ \A s \in Senders : stage[s] \in {"register", "poll"} => polls[s] < MaxPolls
    /\ \A s \in Senders : found[s] # NoSignal => stage[s] = "serving"

\* What p asks for in the stage that it is in.
Asks(p, request) ==
    \/ stage[p] = "register" /\ request = With("register", p, p)
    \/ stage[p] = "poll" /\ request = Plain("get_signal", p)
    \/ stage[p] = "lookup" /\ request = Plain("lookup", secret[p])
    \/ stage[p] \in {"getfile", "getfile_again"} /\ request = Plain("getfile", secret[p])
    \/ stage[p] = "signal" /\ request = With("post_signal", secret[p], p)

CallsFit == \A p \in asked : Asks(p, call[p])

\* Only what is found has a body.
BodyMeansFound == \A p \in Callers : answer[p].body # "" => answer[p].status = 200

\* A request to post a signal, or to fetch a row, is that of a receiver with that
\* secret, which may have stopped waiting for it.
RequestFits(q) ==
    /\ q.kind = "post_signal" => Announces(q.content, q.id)
    /\ q.kind = "getfile" => \E r \in Receivers : stage[r] # "idle" /\ secret[r] = q.id

TasksFit ==
    /\ \A w \in Threads : step[w] # "idle" => RequestFits(Request(w))
    /\ \A i \in DOMAIN jobs : RequestFits(jobs[i].request)

SignalsFit ==
    /\ \A id \in Ids : signal_store[id] # NoSignal => Announces(signal_store[id], id)
    /\ \A s \in Senders :
          (call[s].kind = "get_signal" /\ answer[s].status = 200)
              => Announces(answer[s].body, call[s].id)
    /\ FoundHasAnnounced

CliInv ==
    /\ RendezvousTypeOK
    /\ StagesFit
    /\ CallsFit
    /\ BodyMeansFound
    /\ TasksFit
    /\ SignalsFit

\* The stages of a receiver that has got a row.
AfterClaim == {"stun", "signal", "getfile_again", "stranded", "handshake"}

ClaimedBy(r) ==
    stage[r] \in AfterClaim => Stored(secret[r]) /\ table[secret[r]].claimed

-----------------------------------------------------------------------------
(* Liveness.                                                                 *)


\* A receiver that was given a secret comes as far as the STUN server or ends, and
\* once that has answered it comes to the handshake or ends.
ReceiverProceeds ==
    \A r \in Receivers :
        /\ stage[r] = "lookup" ~> stage[r] \in {"invalid_secret", "lost", "stun"}
        /\ stage[r] = "signal" ~> stage[r] \in {"stranded", "handshake"}

\* A signal that is stored before the sender asks once more ends its poll, unless a
\* call brings no response or a restart of the server makes it forget the signals.
SignalIsFound ==
    \A s \in Senders :
        (stage[s] = "poll" /\ s \notin asked /\ signal_store[s] # NoSignal)
            ~> \/ stage[s] = "serving"
               \/ answer[s] = NoResponse
               \/ signal_store[s] = NoSignal
=============================================================================
