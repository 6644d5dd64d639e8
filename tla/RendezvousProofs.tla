-------------------------- MODULE RendezvousProofs --------------------------
(***************************************************************************)
(* Proofs about Rendezvous, for any number of senders, receivers, threads  *)
(* and tries, and with every failure: a sender finds only receivers that   *)
(* announced themselves for its secret, however the server's threads race; *)
(* without a race they have claimed its row, and Rendezvous implements     *)
(* Meeting.                                                                *)
(***************************************************************************)
EXTENDS RendezvousMeets, CentralProofs

\* The inductive invariant, also when the threads race.
RendezvousInv == HandlerInv /\ CliInv

\* What holds besides if they do not.
ClaimsInv == CentralInv /\ CliInv /\ \A r \in Receivers : ClaimedBy(r)

-----------------------------------------------------------------------------
(* What steps have in common.                                                *)

\* A secret is the id of a row, and a process a caller.
LEMMA Processes ==
    /\ Senders \subseteq Callers /\ Receivers \subseteq Callers
    /\ Senders = Ids /\ Contents = Callers
    /\ \A s \in Senders : s \notin Receivers
BY RendezvousAssumption

\* Where a receiver is on its way only grows.
Onward ==
    \A r \in Receivers :
        /\ stage[r] # "idle" => stage'[r] # "idle" /\ secret'[r] = secret[r]
        /\ HasAnnounced(r) => HasAnnounced(r)'

\* Then an announcement stays one, whatever it is for.
LEMMA AnnouncesStays ==
    ASSUME Onward, NEW x, NEW id, Announces(x, id)
    PROVE  Announces(x, id)'
<1>1. x \in Receivers /\ secret[x] = id /\ HasAnnounced(x)
  BY DEF Announces
<1>2. stage[x] # "idle"
  BY <1>1 DEF HasAnnounced
<1> QED BY <1>1, <1>2 DEF Onward, Announces

\* And a request that fits goes on to fit.
LEMMA RequestFitsStays ==
    ASSUME Onward, NEW q, RequestFits(q)
    PROVE  RequestFits(q)'
<1>1. q.kind = "post_signal" => Announces(q.content, q.id)'
  BY AnnouncesStays DEF RequestFits
<1>2. ASSUME NEW r \in Receivers, stage[r] # "idle", secret[r] = q.id
      PROVE  stage'[r] # "idle" /\ secret'[r] = q.id
  BY <1>2 DEF Onward
<1> QED BY <1>1, <1>2 DEF RequestFits

\* The requests at work are those that were at work or queued before, or a new one.
LEMMA TasksStay ==
    ASSUME TasksFit, Onward,
           \A w \in Threads :
               step'[w] # "idle" =>
                   \/ step[w] # "idle" /\ Request(w)' = Request(w)
                   \/ \E i \in DOMAIN jobs : Request(w)' = jobs[i].request,
           \A i \in DOMAIN jobs' :
               \/ \E j \in DOMAIN jobs : jobs'[i].request = jobs[j].request
               \/ RequestFits(jobs[i].request)'
    PROVE  TasksFit'
<1>1. ASSUME NEW w \in Threads, step'[w] # "idle"
      PROVE  RequestFits(Request(w))'
  <2>1. PICK q : RequestFits(q) /\ Request(w)' = q
    BY <1>1 DEF TasksFit
  <2>2. RequestFits(q)'
    BY <2>1, RequestFitsStays
  <2> QED BY <2>1, <2>2
<1>2. ASSUME NEW i \in DOMAIN jobs'
      PROVE  RequestFits(jobs[i].request)'
  <2>1. CASE \E j \in DOMAIN jobs : jobs'[i].request = jobs[j].request
    <3>1. PICK q : RequestFits(q) /\ jobs'[i].request = q
      BY <2>1 DEF TasksFit
    <3>2. RequestFits(q)'
      BY <3>1, RequestFitsStays
    <3> QED BY <3>1, <3>2
  <2> QED BY <1>2, <2>1
<1> QED BY <1>1, <1>2 DEF TasksFit

\* The signals are those that were there before, or fit.
LEMMA SignalsStay ==
    ASSUME SignalsFit, Onward,
           \A id \in Ids : \/ signal_store'[id] \in {NoSignal, signal_store[id]}
                           \/ Announces(signal_store[id], id)',
           \A s \in Senders :
               \/ call'[s] = call[s] /\ answer'[s] = answer[s]
               \/ call'[s].kind # "get_signal" \/ answer'[s].status # 200
               \/ Announces(answer[s].body, call[s].id)',
           \A s \in Senders : found'[s] = found[s] \/ Announces(found[s], s)'
    PROVE  SignalsFit'
<1>1. ASSUME NEW id \in Ids, signal_store'[id] # NoSignal
      PROVE  Announces(signal_store[id], id)'
  <2>1. CASE signal_store'[id] = signal_store[id]
    <3>1. PICK x : x = signal_store[id]
      OBVIOUS
    <3>2. Announces(x, id)'
      BY <1>1, <2>1, <3>1, AnnouncesStays DEF SignalsFit
    <3> QED BY <2>1, <3>1, <3>2
  <2> QED BY <1>1, <2>1
<1>2. ASSUME NEW s \in Senders, call'[s].kind = "get_signal", answer'[s].status = 200
      PROVE  Announces(answer[s].body, call[s].id)'
  <2>1. CASE call'[s] = call[s] /\ answer'[s] = answer[s]
    <3>1. PICK x, id : x = answer[s].body /\ id = call[s].id
      OBVIOUS
    <3>2. Announces(x, id)'
      BY <1>2, <2>1, <3>1, AnnouncesStays DEF SignalsFit
    <3> QED BY <2>1, <3>1, <3>2
  <2> QED BY <1>2, <2>1
<1>3. ASSUME NEW s \in Senders, found'[s] # NoSignal
      PROVE  Announces(found[s], s)'
  <2>1. CASE found'[s] = found[s]
    <3>1. PICK x : x = found[s]
      OBVIOUS
    <3>2. Announces(x, s)'
      BY <1>3, <2>1, <3>1, AnnouncesStays DEF SignalsFit, FoundHasAnnounced
    <3> QED BY <2>1, <3>1, <3>2
  <2> QED BY <1>3, <2>1
<1> QED BY <1>1, <1>2, <1>3 DEF SignalsFit, FoundHasAnnounced

-----------------------------------------------------------------------------
(* Steps of the server.                                                      *)

\* A step of the server moves no process.
LEMMA ServerOnward ==
    ASSUME UNCHANGED cliVars
    PROVE  Onward
BY DEF Onward, HasAnnounced, cliVars

\* A handler that returns takes its request with it.
LEMMA RespondTasks ==
    ASSUME CentralTypeOK, TasksFit, Onward, NEW w \in Threads, NEW reply, Respond(w, reply)
    PROVE  TasksFit'
<1>1. step'[w] = "idle"
  BY DEF Respond, GoTo, CentralTypeOK
<1>2. \A u \in Threads \ {w} : step'[u] = step[u] /\ task'[u] = task[u]
  BY DEF Respond, GoTo, CentralTypeOK
<1>3. jobs' = jobs
  BY DEF Respond
<1> QED BY <1>1, <1>2, <1>3, TasksStay DEF Request

\* The server works at requests that were made.
LEMMA ServerTasks ==
    ASSUME HandlerInv, TasksFit, ServerStep, UNCHANGED cliVars
    PROVE  TasksFit'
<1> USE DEF HandlerInv
<1>0. Onward
  BY ServerOnward
<1>1. ASSUME NEW w \in Threads, NEW reply, Respond(w, reply)
      PROVE  TasksFit'
  BY <1>0, <1>1, RespondTasks
<1>2. ASSUME NEW w \in Threads, Accept(w)
      PROVE  TasksFit'
  <2>1. /\ Request(w)' = jobs[1].request /\ 1 \in DOMAIN jobs
        /\ \A u \in Threads \ {w} : step'[u] = step[u] /\ task'[u] = task[u]
    BY <1>2 DEF Accept, CentralTypeOK, Request
  <2>2. \A i \in DOMAIN jobs' : jobs'[i] = jobs[i + 1] /\ i + 1 \in DOMAIN jobs
    BY <1>2 DEF Accept, CentralTypeOK
  <2> QED BY <1>0, <2>1, <2>2, TasksStay DEF Request
<1>3. ASSUME NEW w \in Threads, step[w] # "idle", task' = task, jobs' = jobs,
             NEW s, GoTo(w, s)
      PROVE  TasksFit'
  <2>1. \A u \in Threads \ {w} : step'[u] = step[u]
    BY <1>3 DEF GoTo, CentralTypeOK
  <2> QED BY <1>0, <1>3, <2>1, TasksStay DEF Request
<1>4. ASSUME NEW w \in Threads, BeginTransaction(w) \/ ReadRow(w) \/ CommitRead(w)
                                  \/ MarkClaimed(w) \/ Insert(w)
      PROVE  TasksFit'
  <2>1. step[w] # "idle" /\ task' = task /\ jobs' = jobs /\ \E s : GoTo(w, s)
    BY <1>4 DEF BeginTransaction, ReadRow, CommitRead, MarkClaimed, Insert, Write,
                HandlerGoesOn, Constructors
  <2> QED BY <1>3, <2>1
<1>5. ASSUME NEW committed, StartAgain(committed)
      PROVE  TasksFit'
  <2>1. jobs' = << >> /\ \A w \in Threads : step'[w] = "idle"
    BY <1>5 DEF StartAgain
  <2>2. DOMAIN jobs' = {}
    BY <2>1
  <2> QED BY <2>1, <2>2 DEF TasksFit
<1>6. ASSUME Disconnect
      PROVE  TasksFit'
  BY <1>0, <1>6, TasksStay DEF Disconnect, Request
<1>7. ASSUME NEW w \in Threads, DatabaseThrows(w) \/ Lookup(w) \/ CommitClaim(w)
                 \/ CommitInsert(w) \/ PostSignal(w) \/ GetSignal(w)
      PROVE  TasksFit'
  BY <1>1, <1>7, ZenonT(60)
  DEF DatabaseThrows, Lookup, CommitClaim, CommitInsert, PostSignal, GetSignal
<1> QED BY <1>2, <1>4, <1>5, <1>6, <1>7 DEF ServerStep, Step, Restart, RunsOffTheEnd

\* A handler answers no process but the one that waits for it.
LEMMA RespondTo ==
    ASSUME HandlerInv, NEW w \in Threads, NEW reply, Respond(w, reply), NEW p \in Callers
    PROVE  /\ call'[p] = call[p]
           /\ answer'[p] # answer[p] => answer'[p] = reply /\ call[p] = Request(w)
<1>1. call' = call /\ answer'[p] = IF task[w].caller = p THEN reply ELSE answer[p]
  BY DEF Respond
<1>2. task[w].caller = p => call[p] = Request(w)
  BY ServerAssumption DEF HandlerInv, OneTaskPerCall, Awaits, Request
<1> QED BY <1>1, <1>2

\* No step of the server adds a signal that nobody posted, or makes one up.
LEMMA ServerSignals ==
    ASSUME HandlerInv, CliInv, ServerStep, UNCHANGED cliVars
    PROVE  SignalsFit'
<1> DEFINE AnswersFit ==
        \A s \in Senders :
            \/ call'[s] = call[s] /\ answer'[s] = answer[s]
            \/ call'[s].kind # "get_signal" \/ answer'[s].status # 200
            \/ Announces(answer[s].body, call[s].id)'
<1> DEFINE StoreFits ==
        \A id \in Ids : \/ signal_store'[id] \in {NoSignal, signal_store[id]}
                        \/ Announces(signal_store[id], id)'
<1>0. Onward /\ SignalsFit /\ TasksFit /\ found' = found
  BY ServerOnward DEF CliInv, cliVars
<1>1. ASSUME AnswersFit, StoreFits
      PROVE  SignalsFit'
  BY <1>0, <1>1, SignalsStay
<1>2. ASSUME NEW w \in Threads, NEW reply, Respond(w, reply),
             Request(w).kind # "get_signal" \/ reply.status # 200
      PROVE  AnswersFit
  BY <1>2, RespondTo, Processes
<1>3. ASSUME callerVars' = callerVars
      PROVE  AnswersFit
  BY <1>3 DEF callerVars
<1>4. ASSUME signal_store' = signal_store
      PROVE  StoreFits
  BY <1>4
<1> HIDE DEF AnswersFit, StoreFits
<1>5. ASSUME NEW w \in Threads, DatabaseThrows(w)
      PROVE  SignalsFit'
  <2>1. Request(w).kind # "get_signal"
    BY <1>5 DEF DatabaseThrows, HandlerInv, StepFits, Constructors, InTransaction, Writes
  <2>2. \E reply : Respond(w, reply)
    BY <1>5 DEF DatabaseThrows
  <2>3. signal_store' = signal_store
    BY <1>5 DEF DatabaseThrows, Close
  <2> QED BY <1>1, <1>2, <1>4, <2>1, <2>2, <2>3
<1>6. ASSUME NEW w \in Threads, Lookup(w) \/ CommitClaim(w) \/ CommitInsert(w)
      PROVE  SignalsFit'
  <2>1. Request(w).kind # "get_signal"
    BY <1>6 DEF Lookup, CommitClaim, CommitInsert, HandlerInv, StepFits
  <2>2. \E reply : Respond(w, reply)
    BY <1>6 DEF Lookup, CommitClaim, CommitInsert
  <2>3. signal_store' = signal_store
    BY <1>6 DEF Lookup, CommitClaim, CommitInsert, Close
  <2> QED BY <1>1, <1>2, <1>4, <2>1, <2>2, <2>3
<1>7. ASSUME NEW w \in Threads, PostSignal(w)
      PROVE  SignalsFit'
  <2>1. Request(w).kind = "post_signal" /\ Respond(w, Empty) /\ step[w] = "signal"
    BY <1>7 DEF PostSignal
  <2>2. PICK q : q = Request(w)
    OBVIOUS
  <2>3. RequestFits(q)
    BY <1>0, <2>1, <2>2 DEF TasksFit
  <2>4. Announces(q.content, q.id)
    BY <2>1, <2>2, <2>3 DEF RequestFits
  <2>5. Announces(q.content, q.id)'
    BY <1>0, <2>4, AnnouncesStays
  <2>6. signal_store' = [signal_store EXCEPT ![q.id] = q.content]
    BY <1>7, <2>2 DEF PostSignal
  <2>7. \A id \in Ids : signal_store'[id] = signal_store[id] \/ id = q.id
    BY <2>6 DEF HandlerInv, CentralTypeOK
  <2>8. q.id \in Ids => signal_store'[q.id] = q.content
    BY <2>6 DEF HandlerInv, CentralTypeOK
  <2>9. StoreFits
    BY <2>5, <2>7, <2>8 DEF StoreFits
  <2> QED BY <1>1, <1>2, <2>1, <2>9
<1>8. ASSUME NEW w \in Threads, GetSignal(w)
      PROVE  SignalsFit'
  <2> DEFINE stored == signal_store[Request(w).id]
  <2> DEFINE reply == IF stored = NoSignal THEN Reply(404, "") ELSE Reply(200, stored)
  <2>1. Respond(w, reply) /\ signal_store' = signal_store /\ step[w] = "signal"
    BY <1>8 DEF GetSignal, databaseVars
  <2>2. Request(w).id \in Ids
    BY <2>1 DEF HandlerInv, StepFits, Request, Tasks, Requests
  <2>3. reply.status = 200 => reply.body = stored /\ stored # NoSignal
    <3> HIDE DEF stored
    <3>1. CASE stored = NoSignal
      <4>1. reply = Reply(404, "")
        BY <3>1
      <4>2. reply.status = 404
        BY <4>1 DEF Reply
      <4> HIDE DEF reply
      <4> QED BY <4>2
    <3>2. CASE stored # NoSignal
      <4>1. reply = Reply(200, stored)
        BY <3>2
      <4>2. reply.body = stored
        BY <4>1 DEF Reply
      <4> HIDE DEF reply
      <4> QED BY <3>2, <4>2
    <3> QED BY <3>1, <3>2
  <2>4. PICK id, x : id \in Ids /\ id = Request(w).id /\ x = stored
    BY <2>2
  <2>5. reply.status = 200 => Announces(x, id)
    BY <1>0, <2>3, <2>4 DEF SignalsFit
  <2>6. ASSUME reply.status = 200 PROVE Announces(x, id)'
    <3>1. Announces(x, id)
      BY <2>5, <2>6
    <3> QED BY <1>0, <3>1, AnnouncesStays
  <2> HIDE DEF reply, stored
  <2>7. ASSUME NEW s \in Senders, answer'[s] # answer[s], answer'[s].status = 200
        PROVE  Announces(answer[s].body, call[s].id)'
    <3>1. answer'[s] = reply /\ call'[s] = call[s] /\ call[s] = Request(w)
      BY <2>1, <2>7, RespondTo, Processes
    <3>2. answer'[s].body = x /\ call'[s].id = id
      BY <2>3, <2>4, <2>7, <3>1
    <3>3. Announces(x, id)'
      BY <2>6, <2>7, <3>1
    <3> QED BY <3>2, <3>3
  <2>8. AnswersFit
    BY <2>1, <2>7, RespondTo, Processes DEF AnswersFit
  <2> QED BY <1>1, <1>4, <2>1, <2>8
<1>9. ASSUME NEW w \in Threads, Accept(w) \/ BeginTransaction(w) \/ ReadRow(w)
                 \/ CommitRead(w) \/ MarkClaimed(w) \/ Insert(w)
      PROVE  SignalsFit'
  <2>1. callerVars' = callerVars /\ signal_store' = signal_store
    BY <1>9 DEF Accept, BeginTransaction, ReadRow, CommitRead, MarkClaimed, Insert, Write,
                Close, HandlerGoesOn, callerVars, databaseVars
  <2> QED BY <1>1, <1>3, <1>4, <2>1
<1>10. ASSUME NEW committed, StartAgain(committed)
       PROVE  SignalsFit'
  <2>1. \A id \in Ids : signal_store'[id] = NoSignal
    BY <1>10 DEF StartAgain
  <2>2. \A s \in Senders : call'[s] = call[s]
                          /\ (answer'[s] = answer[s] \/ answer'[s].status = 0)
    BY <1>10, Processes DEF StartAgain, NoResponse, Reply
  <2>3. StoreFits /\ AnswersFit
    BY <2>1, <2>2 DEF StoreFits, AnswersFit
  <2> QED BY <1>1, <2>3
<1>11. ASSUME Disconnect
       PROVE  SignalsFit'
  <2>1. callerVars' = callerVars /\ signal_store' = signal_store
    BY <1>11 DEF Disconnect, callerVars
  <2> QED BY <1>1, <1>3, <1>4, <2>1
<1> QED BY <1>5, <1>6, <1>7, <1>8, <1>9, <1>10, <1>11
        DEF ServerStep, Step, Restart, RunsOffTheEnd

\* A body comes with status 200, or not at all.
LEMMA ServerBodies ==
    ASSUME HandlerInv, BodyMeansFound, ServerStep
    PROVE  BodyMeansFound'
<1>0. \A p \in Callers : answer[p].body # "" => answer[p].status = 200
  BY DEF BodyMeansFound
<1>1. ASSUME NEW w \in Threads, NEW reply, Respond(w, reply),
             reply.body # "" => reply.status = 200
      PROVE  BodyMeansFound'
  <2>1. ASSUME NEW p \in Callers
        PROVE  answer'[p] = answer[p] \/ answer'[p] = reply
    BY <1>1 DEF Respond
  <2>2. ASSUME NEW p \in Callers, answer'[p].body # ""
        PROVE  answer'[p].status = 200
    <3>1. CASE answer'[p] = answer[p]
      <4>1. PICK a : a = answer[p]
        OBVIOUS
      <4>2. a.body # "" /\ answer'[p] = a
        BY <2>2, <3>1, <4>1
      <4>3. a.status = 200
        <5>1. p \in Callers
          OBVIOUS
        <5>2. answer[p].body # "" => answer[p].status = 200
          BY <1>0, <5>1, ZenonT(60)
        <5>3. answer[p].body # ""
          BY <4>1, <4>2
        <5> QED BY <4>1, <5>2, <5>3
      <4> QED BY <4>2, <4>3
    <3>2. CASE answer'[p] = reply
      BY <1>1, <2>2, <3>2
    <3> QED BY <2>1, <3>1, <3>2
  <2> QED BY <2>2 DEF BodyMeansFound
<1>3. ASSUME NEW w \in Threads, NEW status, NEW body, Respond(w, Reply(status, body)),
             body # "" => status = 200
      PROVE  BodyMeansFound'
  <2>1. PICK reply : reply = Reply(status, body)
    OBVIOUS
  <2>2. reply.body = body /\ reply.status = status
    BY <2>1 DEF Reply
  <2> QED BY <1>1, <1>3, <2>1, <2>2
<1>4. ASSUME NEW w \in Threads, DatabaseThrows(w)
      PROVE  BodyMeansFound'
  BY <1>3, <1>4, ZenonT(60) DEF DatabaseThrows, Caught, Empty
<1>5. ASSUME NEW w \in Threads, Lookup(w)
      PROVE  BodyMeansFound'
  BY <1>3, <1>5, ZenonT(60) DEF Lookup
<1>6. ASSUME NEW w \in Threads, CommitClaim(w)
      PROVE  BodyMeansFound'
  BY <1>3, <1>6 DEF CommitClaim, Empty
<1>7. ASSUME NEW w \in Threads, CommitInsert(w) \/ PostSignal(w)
      PROVE  BodyMeansFound'
  BY <1>3, <1>7 DEF CommitInsert, PostSignal, Empty
<1>8. ASSUME NEW w \in Threads, GetSignal(w)
      PROVE  BodyMeansFound'
  BY <1>3, <1>8, ZenonT(60) DEF GetSignal
<1>9. ASSUME answer' = answer
      PROVE  BodyMeansFound'
  BY <1>9 DEF BodyMeansFound
<1>10. ASSUME NEW w \in Threads, Accept(w) \/ BeginTransaction(w) \/ ReadRow(w)
                  \/ CommitRead(w) \/ MarkClaimed(w) \/ Insert(w)
       PROVE  BodyMeansFound'
  BY <1>9, <1>10 DEF Accept, BeginTransaction, ReadRow, CommitRead, MarkClaimed, Insert,
                     Write, HandlerGoesOn, callerVars
<1>11. ASSUME NEW committed, StartAgain(committed)
       PROVE  BodyMeansFound'
  BY <1>11 DEF StartAgain, BodyMeansFound, NoResponse, Reply
<1>12. ASSUME Disconnect
       PROVE  BodyMeansFound'
  BY <1>9, <1>12 DEF Disconnect, callerVars
<1> QED BY <1>4, <1>5, <1>6, <1>7, <1>8, <1>10, <1>11, <1>12
        DEF ServerStep, Step, Restart, RunsOffTheEnd

\* The steps of the server keep the processes' part of the invariant.
LEMMA ServerKeepsCli ==
    ASSUME RendezvousInv, ServerStep, UNCHANGED cliVars
    PROVE  CliInv'
<1> USE DEF RendezvousInv
<1>1. CentralTypeOK' /\ TasksFit' /\ SignalsFit' /\ BodyMeansFound'
  BY ServerTypes, ServerTasks, ServerSignals, ServerBodies DEF CliInv
<1>4. RendezvousTypeOK' /\ StagesFit'
  BY <1>1 DEF CliInv, RendezvousTypeOK, StagesFit, cliVars
<1>5. CallsFit'
  <2>1. \A p \in asked : call'[p] = call[p]
    <3>1. call' = call
      BY DEF ServerStep, Step, Restart, RunsOffTheEnd, StartAgain, Disconnect, Respond,
             Accept, BeginTransaction, DatabaseThrows, Lookup, ReadRow, CommitRead,
             MarkClaimed, CommitClaim, Insert, CommitInsert, PostSignal, GetSignal, Write,
             HandlerGoesOn, callerVars
    <3> QED BY <3>1
  <2> QED BY <2>1 DEF CliInv, CallsFit, Asks, cliVars
<1> QED BY <1>1, <1>4, <1>5 DEF CliInv

-----------------------------------------------------------------------------
(* Steps of the processes.                                                   *)

\* Without a response, or before it, there is no body, and no success.
LEMMA NoBody ==
    ASSUME NEW a \in {Waiting, NoResponse}
    PROVE  a.body = "" /\ a.status # 200
<1>0. 1 # 200 /\ 0 # 200
  OBVIOUS
<1>1. CASE a = Waiting
  <2>1. a = [status |-> 1, body |-> ""]
    BY <1>1 DEF Waiting, Reply
  <2>2. a.status # 200
    BY <1>0, <2>1
  <2>3. a.body = ""
    BY <1>0, <2>1
  <2> QED BY <2>2, <2>3
<1>2. CASE a = NoResponse
  <2>1. a = [status |-> 0, body |-> ""]
    BY <1>2 DEF NoResponse, Reply
  <2>2. a.status # 200
    BY <1>0, <2>1
  <2>3. a.body = ""
    BY <1>0, <2>1
  <2> QED BY <2>2, <2>3
<1> QED BY <1>1, <1>2

\* Then a caller that has no response has no body.
LEMMA BodiesStay ==
    ASSUME BodyMeansFound,
           \A q \in Callers : answer'[q] = answer[q] \/ answer'[q] \in {Waiting, NoResponse}
    PROVE  BodyMeansFound'
<1>1. ASSUME NEW q \in Callers, answer'[q].body # ""
      PROVE  answer'[q].status = 200
  <2>1. q \in Callers
    OBVIOUS
  <2>2. answer'[q] = answer[q]
    BY <1>1, <2>1, NoBody
  <2>3. answer[q].body # "" => answer[q].status = 200
    BY <2>1 DEF BodyMeansFound
  <2> QED BY <1>1, <2>2, <2>3
<1> QED BY <1>1 DEF BodyMeansFound

\* Nor has it a signal.
LEMMA NoSignalYet ==
    ASSUME SignalsFit, Onward, signal_store' = signal_store, found' = found,
           \A q \in Callers : \/ answer'[q] = answer[q] /\ call'[q] = call[q]
                              \/ answer'[q] \in {Waiting, NoResponse}
    PROVE  SignalsFit'
<1>1. ASSUME NEW s \in Senders
      PROVE  \/ call'[s] = call[s] /\ answer'[s] = answer[s]
             \/ answer'[s].status # 200
  <2>1. s \in Callers
    BY Processes
  <2> QED BY <2>1, NoBody
<1> QED BY <1>1, SignalsStay

\* A call that breaks off leaves requests as they are, and no answer.
LEMMA GiveUpKeeps ==
    ASSUME RendezvousInv, NEW p \in Callers, CallBreaks(p)
    PROVE  CliInv'
<1> USE DEF RendezvousInv
<1>1. GiveUp(p) /\ UNCHANGED cliVars /\ Onward /\ CentralTypeOK /\ TasksFit /\ SignalsFit
  BY ServerOnward DEF CallBreaks, CliInv, HandlerInv
<1>2. CentralTypeOK'
  BY <1>1, CallerTypes DEF CallerStep
<1>3. /\ \A w \in Threads : Request(w)' = Request(w)
      /\ \A i \in DOMAIN jobs' : i \in DOMAIN jobs /\ jobs'[i].request = jobs[i].request
  BY <1>1 DEF GiveUp, Request, Orphan, CentralTypeOK, Tasks, NoTask
<1>4. TasksFit'
  BY <1>1, <1>3, TasksStay DEF GiveUp
<1>5. \A q \in Callers : answer'[q] = answer[q] \/ answer'[q] = NoResponse
  BY <1>1 DEF GiveUp, CentralTypeOK
<1>6. call' = call /\ table' = table /\ signal_store' = signal_store
  BY <1>1 DEF GiveUp, databaseVars
<1>7. SignalsFit'
  BY <1>1, <1>5, <1>6, NoSignalYet DEF cliVars
<1>8. BodyMeansFound'
  BY <1>5, BodiesStay DEF CliInv
<1>9. RendezvousTypeOK' /\ StagesFit' /\ CallsFit'
  BY <1>1, <1>2, <1>6 DEF CliInv, RendezvousTypeOK, StagesFit, CallsFit, Asks, cliVars
<1> QED BY <1>4, <1>7, <1>8, <1>9 DEF CliInv

\* A request that fits the stage of its process keeps the invariant.
LEMMA AskKeeps ==
    ASSUME RendezvousInv, NEW p \in Callers, NEW at, NEW request \in Requests,
           Ask(p, at, request), Asks(p, request), RequestFits(request)'
    PROVE  CliInv'
<1> USE DEF RendezvousInv
<1>1. /\ Call(p, request) \/ CallRefused(p, request)
      /\ asked' = asked \cup {p} /\ UNCHANGED <<stage, secret, polls, found>>
  BY DEF Ask
<1>2. Onward
  BY <1>1 DEF Onward, HasAnnounced
<1>3. CentralTypeOK'
  BY <1>1, CallerTypes DEF CallerStep
<1>4. /\ call' = [call EXCEPT ![p] = request]
      /\ answer' = [answer EXCEPT ![p] = Waiting] \/ answer' = [answer EXCEPT ![p] = NoResponse]
      /\ table' = table /\ signal_store' = signal_store /\ task' = task /\ step' = step
      /\ jobs' = jobs \/ jobs' = Append(jobs, [caller |-> p, request |-> request])
  BY <1>1 DEF Call, CallRefused, serverVars, databaseVars
<1>5. CentralTypeOK /\ TasksFit /\ SignalsFit
  BY DEF CliInv, HandlerInv
<1>6. \A i \in DOMAIN jobs' : (i \in DOMAIN jobs /\ jobs'[i].request = jobs[i].request)
                              \/ jobs'[i].request = request
  BY <1>4, <1>5 DEF CentralTypeOK
<1>7. TasksFit'
  <2>1. \A i \in DOMAIN jobs' :
            \/ \E j \in DOMAIN jobs : jobs'[i].request = jobs[j].request
            \/ RequestFits(jobs[i].request)'
    BY <1>6
  <2> QED BY <1>2, <1>4, <1>5, <2>1, TasksStay DEF Request
<1>8. answer'[p] \in {Waiting, NoResponse}
  BY <1>4, <1>5 DEF CentralTypeOK
<1>9. \A q \in Callers \ {p} : answer'[q] = answer[q] /\ call'[q] = call[q]
  BY <1>4, <1>5 DEF CentralTypeOK
<1>10. SignalsFit'
  BY <1>1, <1>2, <1>4, <1>5, <1>8, <1>9, NoSignalYet
<1>11. BodyMeansFound'
  BY <1>8, <1>9, BodiesStay DEF CliInv
<1>12. CallsFit'
  <2>1. call'[p] = request
    BY <1>4, <1>5 DEF CentralTypeOK
  <2> QED BY <1>1, <1>9, <2>1 DEF CliInv, CallsFit, Asks, RendezvousTypeOK
<1>13. RendezvousTypeOK' /\ StagesFit'
  BY <1>1, <1>3 DEF CliInv, RendezvousTypeOK, StagesFit
<1> QED BY <1>7, <1>10, <1>11, <1>12, <1>13 DEF CliInv

\* A process that leaves a stage, without a call, keeps the invariant if it goes to a
\* stage of its command, and with what it has found there.
LEMMA LeavesKeep ==
    ASSUME RendezvousInv, UNCHANGED centralVars, Onward, NEW p \in Callers,
           asked' = asked \ {p}, \A q \in Callers \ {p} : stage'[q] = stage[q],
           \A r \in Receivers \ {p} : secret'[r] = secret[r],
           RendezvousTypeOK', StagesFit',
           \A s \in Senders : found'[s] = found[s] \/ Announces(found[s], s)'
    PROVE  CliInv'
<1> USE DEF RendezvousInv
<1>1. UNCHANGED <<table, signal_store, jobs, task, step, call, answer>>
  BY DEF centralVars, serverVars, databaseVars, callerVars
<1>2. TasksFit'
  BY <1>1, TasksStay DEF CliInv, Request
<1>3. SignalsFit'
  BY <1>1, SignalsStay DEF CliInv
<1>4. BodyMeansFound'
  BY <1>1 DEF CliInv, BodyMeansFound
<1>5. CallsFit'
  <2>1. \A q \in asked' : q \in asked /\ q # p /\ q \in Callers
    BY DEF CliInv, RendezvousTypeOK
  <2>2. ASSUME NEW q \in asked' PROVE Asks(q, call[q])'
    <3>1. Asks(q, call[q]) /\ stage'[q] = stage[q] /\ call'[q] = call[q]
      BY <1>1, <2>1, <2>2 DEF CliInv, CallsFit
    <3>2. stage[q] \in {"lookup", "getfile", "getfile_again", "signal"} => q \in Receivers
      BY <2>1, Processes, RendezvousAssumption DEF CliInv, StagesFit, SenderStages
    <3> QED BY <2>1, <3>1, <3>2 DEF Asks
  <2> QED BY <2>2 DEF CallsFit
<1> QED BY <1>2, <1>3, <1>4, <1>5 DEF CliInv

\* Every caller goes to the server with a request that its stage calls for.
LEMMA ReceiverAsks ==
    ASSUME RendezvousInv, NEW r \in Receivers,
           Check(r) \/ Fetch(r) \/ Announce(r) \/ FetchAgain(r)
    PROVE  CliInv' /\ CallerStep
<1> USE DEF RendezvousInv
<1>0. r \in Callers /\ (stage[r] # "idle" => secret[r] \in Ids)
  BY Processes DEF CliInv, StagesFit, RendezvousTypeOK
<1>1. ASSUME NEW at, NEW request \in Requests, Ask(r, at, request), Asks(r, request),
             RequestFits(request)'
      PROVE  CliInv' /\ CallerStep
  <2>1. CallerStep
    BY <1>0, <1>1 DEF CallerStep, Ask
  <2> QED BY <1>0, <1>1, <2>1, AskKeeps
<1>2. ASSUME Ask(r, "lookup", Plain("lookup", secret[r]))
      PROVE  CliInv' /\ CallerStep
  <2>1. stage[r] = "lookup"
    BY <1>2 DEF Ask
  <2>2. PICK request : request = Plain("lookup", secret[r])
    OBVIOUS
  <2>3. request.kind = "lookup" /\ request \in Requests
    BY <1>0, <2>1, <2>2, RendezvousAssumption DEF Plain, Requests
  <2>4. Asks(r, request)
    BY <2>1, <2>2 DEF Asks
  <2>5. RequestFits(request)'
    BY <2>3 DEF RequestFits
  <2> QED BY <1>1, <1>2, <2>2, <2>3, <2>4, <2>5
<1>3. ASSUME NEW at \in {"getfile", "getfile_again"},
             Ask(r, at, Plain("getfile", secret[r]))
      PROVE  CliInv' /\ CallerStep
  <2>1. stage[r] = at /\ stage' = stage /\ secret' = secret
    BY <1>3 DEF Ask
  <2>2. PICK request : request = Plain("getfile", secret[r])
    OBVIOUS
  <2>3. request.kind = "getfile" /\ request.id = secret[r] /\ request \in Requests
    BY <1>0, <2>1, <2>2, RendezvousAssumption DEF Plain, Requests
  <2>4. Asks(r, request)
    BY <2>1, <2>2 DEF Asks
  <2>5. RequestFits(request)'
    BY <2>1, <2>3 DEF RequestFits
  <2> QED BY <1>1, <1>3, <2>2, <2>3, <2>4, <2>5
<1>4. ASSUME Ask(r, "signal", With("post_signal", secret[r], r))
      PROVE  CliInv' /\ CallerStep
  <2>1. stage[r] = "signal" /\ stage' = stage /\ secret' = secret /\ asked' = asked \cup {r}
    BY <1>4 DEF Ask
  <2>2. PICK request : request = With("post_signal", secret[r], r)
    OBVIOUS
  <2>3. request.kind = "post_signal" /\ request.id = secret[r] /\ request.content = r
    BY <2>2 DEF With
  <2>4. request \in Requests
    BY <1>0, <2>1, <2>2, RendezvousAssumption DEF With, Requests
  <2>5. Asks(r, request)
    BY <2>1, <2>2 DEF Asks
  <2>6. RequestFits(request)'
    BY <2>1, <2>3 DEF RequestFits, Announces, HasAnnounced
  <2> QED BY <1>1, <1>4, <2>2, <2>4, <2>5, <2>6
<1> QED BY <1>2, <1>3, <1>4 DEF Check, Fetch, Announce, FetchAgain

\* A sender's requests are to register, and to poll.
LEMMA SenderAsks ==
    ASSUME RendezvousInv, NEW s \in Senders, Register(s) \/ Poll(s)
    PROVE  CliInv' /\ CallerStep
<1> USE DEF RendezvousInv
<1>0. s \in Callers /\ s \in Ids
  BY Processes
<1>1. ASSUME NEW at, NEW request \in Requests, Ask(s, at, request), Asks(s, request),
             RequestFits(request)'
      PROVE  CliInv' /\ CallerStep
  <2>1. CallerStep
    BY <1>0, <1>1 DEF CallerStep, Ask
  <2> QED BY <1>0, <1>1, <2>1, AskKeeps
<1>2. ASSUME Register(s)
      PROVE  CliInv' /\ CallerStep
  <2>1. stage[s] = "register"
    BY <1>2 DEF Register, Ask
  <2>2. PICK request : request = With("register", s, s)
    OBVIOUS
  <2>3. request.kind = "register" /\ request \in Requests
    BY <1>0, <2>2, RendezvousAssumption DEF With, Requests
  <2>4. Asks(s, request)
    BY <2>1, <2>2 DEF Asks
  <2>5. RequestFits(request)'
    BY <2>3 DEF RequestFits
  <2> QED BY <1>1, <1>2, <2>2, <2>3, <2>4, <2>5 DEF Register
<1>3. ASSUME Poll(s)
      PROVE  CliInv' /\ CallerStep
  <2>1. stage[s] = "poll"
    BY <1>3 DEF Poll, Ask
  <2>2. PICK request : request = Plain("get_signal", s)
    OBVIOUS
  <2>3. request.kind = "get_signal" /\ request \in Requests
    BY <1>0, <2>2, RendezvousAssumption DEF Plain, Requests
  <2>4. Asks(s, request)
    BY <2>1, <2>2 DEF Asks
  <2>5. RequestFits(request)'
    BY <2>3 DEF RequestFits
  <2> QED BY <1>1, <1>3, <2>2, <2>3, <2>4, <2>5 DEF Poll
<1> QED BY <1>2, <1>3

\* A receiver whose call returns goes to one of its stages.
LEMMA ReceiverReturns ==
    ASSUME RendezvousInv, NEW r \in Receivers,
           Checked(r) \/ Fetched(r) \/ Announced(r) \/ FetchedAgain(r)
    PROVE  CliInv'
<1> USE DEF RendezvousInv
<1>0. r \in Callers /\ \A s \in Senders : s # r
  BY Processes
<1>1. ASSUME NEW at \in {"lookup", "getfile", "signal", "getfile_again"},
             NEW next \in ReceiverStages \ {"idle"},
             Return(r, at, next), UNCHANGED <<polls, found>>,
             at = "signal" => next = "getfile_again",
             at = "getfile_again" => next \in {"handshake", "stranded"},
             at \in {"lookup", "getfile"} => next \notin {"signal", "getfile_again"}
      PROVE  CliInv'
  <2>1. /\ stage[r] = at /\ r \in asked /\ asked' = asked \ {r}
        /\ stage' = [stage EXCEPT ![r] = next] /\ UNCHANGED <<centralVars, secret>>
    BY <1>1 DEF Return
  <2>2. stage \in [Callers -> SenderStages \cup ReceiverStages]
    BY DEF CliInv, RendezvousTypeOK
  <2>3. stage'[r] = next /\ \A q \in Callers \ {r} : stage'[q] = stage[q]
    BY <1>0, <2>1, <2>2
  <2>4. Onward
    <3>1. ASSUME NEW x \in Receivers
          PROVE  /\ stage[x] # "idle" => stage'[x] # "idle" /\ secret'[x] = secret[x]
                 /\ HasAnnounced(x) => HasAnnounced(x)'
      <4>1. CASE x # r
        BY <2>1, <2>3, <4>1, Processes DEF HasAnnounced
      <4>2. CASE x = r
        BY <1>1, <2>1, <2>3, <4>2 DEF HasAnnounced
      <4> QED BY <4>1, <4>2
    <3> QED BY <3>1 DEF Onward
  <2>5. RendezvousTypeOK'
    BY <1>1, <2>1, <2>2 DEF CliInv, RendezvousTypeOK, CentralTypeOK, centralVars,
                            serverVars, databaseVars, callerVars
  <2>6. StagesFit'
    BY <1>0, <1>1, <2>1, <2>3, Processes DEF CliInv, StagesFit
  <2> QED BY <1>0, <1>1, <2>1, <2>3, <2>4, <2>5, <2>6, LeavesKeep
<1>2. ASSUME Checked(r)
      PROVE  CliInv'
  <2>1. PICK next \in {"getfile", "invalid_secret"} : Return(r, "lookup", next)
    BY <1>2 DEF Checked
  <2> QED BY <1>1, <1>2, <2>1 DEF Checked, ReceiverStages
<1>3. ASSUME Fetched(r)
      PROVE  CliInv'
  <2>1. PICK next \in {"stun", "lost"} : Return(r, "getfile", next)
    BY <1>3 DEF Fetched
  <2> QED BY <1>1, <1>3, <2>1 DEF Fetched, ReceiverStages
<1>4. ASSUME Announced(r)
      PROVE  CliInv'
  BY <1>1, <1>4 DEF Announced, ReceiverStages
<1>5. ASSUME FetchedAgain(r)
      PROVE  CliInv'
  <2>1. PICK next \in {"handshake", "stranded"} : Return(r, "getfile_again", next)
    BY <1>5 DEF FetchedAgain
  <2> QED BY <1>1, <1>5, <2>1 DEF FetchedAgain, ReceiverStages
<1> QED BY <1>2, <1>3, <1>4, <1>5

\* A sender whose call returns has found a receiver of its own, or nothing.
LEMMA SenderReturns ==
    ASSUME RendezvousInv, NEW s \in Senders, PrintSecret(s) \/ PollFinds(s) \/ PollFails(s)
    PROVE  CliInv'
<1> USE DEF RendezvousInv
<1>0. s \in Callers /\ s \notin Receivers
  BY Processes
<1>1. ASSUME NEW at, NEW next \in SenderStages, Return(s, at, next),
             polls' \in [Senders -> 0..MaxPolls],
             found' \in [Senders -> Receivers \cup {NoSignal}],
             \A x \in Senders \ {s} : polls'[x] = polls[x] /\ found'[x] = found[x],
             next \in {"register", "poll"} => polls'[s] < MaxPolls,
             found'[s] # NoSignal => next = "serving",
             found'[s] = found[s] \/ Announces(found[s], s)'
      PROVE  CliInv'
  <2>1. /\ asked' = asked \ {s} /\ stage' = [stage EXCEPT ![s] = next]
        /\ UNCHANGED <<centralVars, secret>>
    BY <1>1 DEF Return
  <2>2. stage \in [Callers -> SenderStages \cup ReceiverStages]
    BY DEF CliInv, RendezvousTypeOK
  <2>3. stage'[s] = next /\ \A q \in Callers \ {s} : stage'[q] = stage[q]
    BY <1>0, <2>1, <2>2
  <2>4. Onward
    <3>1. \A x \in Receivers : x \in Callers /\ x # s
      BY <1>0, Processes
    <3> QED BY <2>1, <2>3, <3>1 DEF Onward, HasAnnounced
  <2>5. RendezvousTypeOK'
    BY <1>1, <2>1, <2>2 DEF CliInv, RendezvousTypeOK, CentralTypeOK, centralVars,
                            serverVars, databaseVars, callerVars
  <2>6. StagesFit'
    <3>1. \A x \in Receivers : x \in Callers /\ x # s
      BY <1>0, Processes
    <3>2. \A x \in Senders : x \in Callers
      BY Processes
    <3> QED BY <1>1, <2>1, <2>3, <3>1, <3>2 DEF CliInv, StagesFit
  <2> QED BY <1>0, <1>1, <2>1, <2>3, <2>4, <2>5, <2>6, LeavesKeep
<1>2. ASSUME PrintSecret(s)
      PROVE  CliInv'
  <2>1. Return(s, "register", "poll") /\ polls' = polls /\ found' = found
    BY <1>2 DEF PrintSecret
  <2>2. stage[s] = "register"
    BY <2>1 DEF Return
  <2>3. polls[s] < MaxPolls /\ found[s] = NoSignal
    BY <2>2 DEF CliInv, StagesFit
  <2> QED BY <1>1, <2>1, <2>3 DEF SenderStages, CliInv, RendezvousTypeOK
<1>3. ASSUME PollFinds(s)
      PROVE  CliInv'
  <2>1. /\ Return(s, "poll", "serving") /\ answer[s].status = 200 /\ polls' = polls
        /\ found' = [found EXCEPT ![s] = answer[s].body]
    BY <1>3 DEF PollFinds
  <2>2. stage[s] = "poll" /\ s \in asked /\ secret' = secret
        /\ stage' = [stage EXCEPT ![s] = "serving"] /\ asked' = asked \ {s}
    BY <2>1 DEF Return
  <2>3. call[s] = Plain("get_signal", s)
    BY <2>2 DEF CliInv, CallsFit, Asks
  <2>4. call[s].kind = "get_signal" /\ call[s].id = s
    BY <2>3 DEF Plain
  <2>5. PICK x : x = answer[s].body
    OBVIOUS
  <2>6. Announces(x, s)
    BY <2>1, <2>4, <2>5 DEF CliInv, SignalsFit
  <2>7. x \in Receivers
    BY <2>6 DEF Announces
  <2>8. Announces(x, s)'
    <3>1. stage'[x] = stage[x] /\ (x \in asked => x \in asked')
      BY <1>0, <2>2, <2>7, Processes DEF CliInv, RendezvousTypeOK
    <3> QED BY <2>2, <2>6, <3>1 DEF Announces, HasAnnounced
  <2>9. found'[s] = x /\ found' \in [Senders -> Receivers \cup {NoSignal}]
    BY <2>1, <2>5, <2>7 DEF CliInv, RendezvousTypeOK
  <2>10. Announces(found[s], s)'
    BY <2>8, <2>9
  <2> QED BY <1>1, <2>1, <2>9, <2>10 DEF SenderStages, CliInv, RendezvousTypeOK
<1>4. ASSUME PollFails(s)
      PROVE  CliInv'
  <2>1. PICK next \in {"poll", "gave_up"} :
            /\ Return(s, "poll", next)
            /\ next = "poll" => polls[s] + 1 < MaxPolls
    BY <1>4 DEF PollFails
  <2>2. polls' = [polls EXCEPT ![s] = polls[s] + 1] /\ found' = found
    BY <1>4 DEF PollFails
  <2>3. stage[s] = "poll"
    BY <2>1 DEF Return
  <2>4. polls[s] < MaxPolls /\ found[s] = NoSignal
    BY <2>3 DEF CliInv, StagesFit
  <2>5. polls[s] \in Nat /\ polls[s] + 1 \in 0..MaxPolls
    BY <2>4, RendezvousAssumption DEF CliInv, RendezvousTypeOK
  <2>6. polls' \in [Senders -> 0..MaxPolls] /\ polls'[s] = polls[s] + 1
    BY <2>2, <2>5 DEF CliInv, RendezvousTypeOK
  <2> QED BY <1>1, <2>1, <2>2, <2>4, <2>6 DEF SenderStages, CliInv, RendezvousTypeOK
<1> QED BY <1>2, <1>3, <1>4

\* What happens outside: a user hands on a secret, the STUN server answers.
LEMMA OutsideKeeps ==
    ASSUME RendezvousInv, NEW r \in Receivers,
           StunAnswers(r) \/ \E s \in Senders : ShareSecret(s, r)
    PROVE  CliInv'
<1> USE DEF RendezvousInv
<1>0. r \in Callers /\ \A s \in Senders : s # r
  BY Processes
<1>1. stage \in [Callers -> SenderStages \cup ReceiverStages]
      /\ secret \in [Receivers -> Senders \cup {NoSecret}]
  BY DEF CliInv, RendezvousTypeOK
<1>2. stage[r] \in {"idle", "stun"} /\ UNCHANGED <<centralVars, asked, polls, found>>
  BY DEF ShareSecret, StunAnswers
<1>3. r \notin asked
  BY <1>2 DEF CliInv, CallsFit, Asks
<1>4. PICK next \in {"lookup", "signal", "lost"} : stage' = [stage EXCEPT ![r] = next]
  BY DEF ShareSecret, StunAnswers
<1>5. stage'[r] = next /\ \A q \in Callers \ {r} : stage'[q] = stage[q]
  BY <1>0, <1>1, <1>4
<1> DEFINE SecretFits ==
        /\ stage[r] # "idle" => secret' = secret /\ next # "lookup"
        /\ stage[r] = "idle" => next = "lookup"
        /\ \A x \in Receivers \ {r} : secret'[x] = secret[x]
        /\ secret'[r] \in Senders
        /\ secret' \in [Receivers -> Senders \cup {NoSecret}]
<1>6. SecretFits
  <2>1. CASE StunAnswers(r)
    <3>1. stage[r] = "stun" /\ secret' = secret /\ next # "lookup"
      BY <1>0, <1>1, <1>5, <2>1 DEF StunAnswers
    <3>2. secret[r] # NoSecret
      BY <3>1 DEF CliInv, StagesFit
    <3> QED BY <1>1, <3>1, <3>2
  <2>2. ASSUME NEW s \in Senders, ShareSecret(s, r)
        PROVE  SecretFits
    <3>1. /\ stage[r] = "idle" /\ stage' = [stage EXCEPT ![r] = "lookup"]
          /\ secret' = [secret EXCEPT ![r] = s]
      BY <2>2 DEF ShareSecret
    <3>2. next = "lookup"
      BY <1>0, <1>1, <1>5, <3>1
    <3> QED BY <1>1, <3>1, <3>2
  <2> QED BY <2>1, <2>2
<1>7. Onward
  <2>1. \A x \in Receivers \ {r} : stage'[x] = stage[x]
    BY <1>5, Processes
  <2> QED BY <1>2, <1>3, <1>5, <1>6, <2>1 DEF Onward, HasAnnounced
<1>8. RendezvousTypeOK'
  <2>1. stage' \in [Callers -> SenderStages \cup ReceiverStages]
    BY <1>1, <1>4 DEF ReceiverStages
  <2> QED BY <1>2, <1>6, <2>1 DEF CliInv, RendezvousTypeOK, CentralTypeOK, centralVars,
                            serverVars, databaseVars, callerVars
<1>9. StagesFit'
  <2>1. next \in ReceiverStages \ {"idle"} /\ secret'[r] # NoSecret
    BY <1>6, Processes, RendezvousAssumption DEF ReceiverStages
  <2> QED BY <1>0, <1>2, <1>5, <1>6, <2>1, Processes DEF CliInv, StagesFit
<1> QED BY <1>0, <1>2, <1>3, <1>5, <1>6, <1>7, <1>8, <1>9, LeavesKeep

-----------------------------------------------------------------------------
(* The theorems about safety.                                                *)

\* Before anything, no process has asked for anything.
LEMMA InitCli == RendezvousInit => RendezvousInv
<1> SUFFICES ASSUME RendezvousInit PROVE RendezvousInv
  OBVIOUS
<1>1. HandlerInv
  BY InitHandlers DEF RendezvousInit
<1>2. RendezvousTypeOK /\ StagesFit
  BY <1>1, RendezvousAssumption DEF RendezvousInit, RendezvousTypeOK, StagesFit, HandlerInv,
         SenderStages, ReceiverStages
<1>3. CallsFit /\ TasksFit
  BY RendezvousAssumption DEF RendezvousInit, CentralInit, CallsFit, TasksFit
<1>4. \A p \in Callers : answer[p] = NoResponse
  BY DEF RendezvousInit, CentralInit
<1>5. \A p \in Callers : answer[p].body = "" /\ answer[p].status # 200
  BY <1>4, NoBody
<1>6. BodyMeansFound
  BY <1>5 DEF BodyMeansFound
<1>7. SignalsFit
  BY <1>5, Processes DEF RendezvousInit, CentralInit, SignalsFit, FoundHasAnnounced
<1> QED BY <1>1, <1>2, <1>3, <1>6, <1>7 DEF RendezvousInv, CliInv

\* A process goes on, or is one step of the server or of a caller.
LEMMA CentralSteps ==
    ASSUME RendezvousInv, RendezvousNext
    PROVE  CliInv' /\ (CentralNext \/ UNCHANGED centralVars)
<1>1. ASSUME NEW s \in Senders, SenderNext(s)
      PROVE  CliInv' /\ (CentralNext \/ UNCHANGED centralVars)
  <2>1. CASE Register(s) \/ Poll(s)
    BY <2>1, SenderAsks DEF CentralNext
  <2>2. CASE PrintSecret(s) \/ PollFinds(s) \/ PollFails(s)
    BY <2>2, SenderReturns DEF PrintSecret, PollFinds, PollFails, Return
  <2> QED BY <1>1, <2>1, <2>2 DEF SenderNext
<1>2. ASSUME NEW r \in Receivers, ReceiverNext(r)
      PROVE  CliInv' /\ (CentralNext \/ UNCHANGED centralVars)
  <2>1. CASE Check(r) \/ Fetch(r) \/ Announce(r) \/ FetchAgain(r)
    BY <2>1, ReceiverAsks DEF CentralNext
  <2>2. CASE Checked(r) \/ Fetched(r) \/ Announced(r) \/ FetchedAgain(r)
    BY <2>2, ReceiverReturns DEF Checked, Fetched, Announced, FetchedAgain, Return
  <2> QED BY <1>2, <2>1, <2>2 DEF ReceiverNext
<1>3. ASSUME NEW r \in Receivers, StunAnswers(r) \/ \E s \in Senders : ShareSecret(s, r)
      PROVE  CliInv' /\ (CentralNext \/ UNCHANGED centralVars)
  BY <1>3, OutsideKeeps DEF StunAnswers, ShareSecret
<1>4. ASSUME NEW p \in Callers, CallBreaks(p)
      PROVE  CliInv' /\ (CentralNext \/ UNCHANGED centralVars)
  BY <1>4, GiveUpKeeps DEF CallBreaks, CentralNext, CallerStep
<1>5. ASSUME ServerStep, UNCHANGED cliVars
      PROVE  CliInv' /\ (CentralNext \/ UNCHANGED centralVars)
  BY <1>5, ServerKeepsCli DEF CentralNext
<1> QED BY <1>1, <1>2, <1>3, <1>4, <1>5 DEF RendezvousNext

\* Every step keeps the invariant.
LEMMA NextRendezvousInv ==
    ASSUME RendezvousInv, [RendezvousNext]_rendezvousVars
    PROVE  RendezvousInv'
<1>1. CASE RendezvousNext
  BY <1>1, CentralSteps, NextHandlers DEF RendezvousInv
<1>2. CASE UNCHANGED rendezvousVars
  <2>1. UNCHANGED centralVars /\ UNCHANGED cliVars
    BY <1>2 DEF rendezvousVars
  <2>2. HandlerInv'
    BY <2>1, NextHandlers DEF RendezvousInv
  <2>3. UNCHANGED <<table, signal_store, jobs, task, step, call, answer, found>> /\ Onward
    BY <2>1, ServerOnward DEF cliVars, centralVars, serverVars, databaseVars, callerVars
  <2>4. TasksFit' /\ SignalsFit'
    BY <2>3, TasksStay, SignalsStay DEF RendezvousInv, CliInv, Request
  <2>5. BodyMeansFound'
    BY <2>3 DEF RendezvousInv, CliInv, BodyMeansFound
  <2>6. StagesFit' /\ CallsFit'
    BY <2>1, <2>3 DEF RendezvousInv, CliInv, StagesFit, CallsFit, Asks, cliVars
  <2>7. RendezvousTypeOK'
    BY <2>1, <2>2 DEF RendezvousInv, CliInv, RendezvousTypeOK, HandlerInv, cliVars
  <2> QED BY <2>2, <2>4, <2>5, <2>6, <2>7 DEF RendezvousInv, CliInv
<1> QED BY <1>1, <1>2

\* The invariant of the processes and the server, also when the server's threads race.
THEOREM RendezvousInvAlways == RendezvousSpec => []RendezvousInv
<1>1. RendezvousInv /\ [RendezvousNext]_rendezvousVars => RendezvousInv'
  BY NextRendezvousInv
<1> QED BY <1>1, InitCli, PTL DEF RendezvousSpec

\* Values, for any number of processes, also when the server's threads race.
THEOREM RendezvousTypes == RendezvousSpec => []RendezvousTypeOK
<1>1. RendezvousInv => RendezvousTypeOK
  BY DEF RendezvousInv, CliInv
<1> QED BY <1>1, RendezvousInvAlways, PTL

\* poll_for_signal: the endpoints that a sender turns to are those of a receiver that
\* was given its secret and announced itself for it, also when the server's threads race.
THEOREM FindsWhoAnnounced == RendezvousSpec => []FoundHasAnnounced
<1>1. RendezvousInv => FoundHasAnnounced
  BY DEF RendezvousInv, CliInv, SignalsFit
<1> QED BY <1>1, RendezvousInvAlways, PTL

-----------------------------------------------------------------------------
(* Claims, without a race.                                                   *)

\* A receiver that got a row has claimed it.
LEMMA RowMeansClaimed ==
    ASSUME ClaimsInv, NEW r \in Receivers, stage[r] = "getfile", r \in asked,
           HasRow(answer[r])
    PROVE  Stored(secret[r]) /\ table[secret[r]].claimed
<1> USE DEF ClaimsInv
<1>1. r \in Callers /\ Asks(r, call[r])
  BY Processes DEF CliInv, CallsFit
<1>2. call[r] = Plain("getfile", secret[r])
  BY <1>1 DEF Asks
<1>3. call[r].kind = "getfile" /\ call[r].id = secret[r]
  BY <1>2 DEF Plain
<1>4. answer[r].body # ""
  BY DEF HasRow
<1>5. answer[r].body # "" => answer[r].status = 200
  BY <1>1 DEF CliInv, BodyMeansFound
<1> QED BY <1>1, <1>3, <1>4, <1>5 DEF CentralInv, MetadataMeansClaimed

\* A claim of a receiver lasts while the receiver stays in the stages after its claim.
LEMMA ClaimsStay ==
    ASSUME ClaimsInv, RowsKept, NEW r \in Receivers,
           stage'[r] \in AfterClaim =>
               stage[r] \in AfterClaim /\ secret'[r] = secret[r]
    PROVE  ClaimedBy(r)'
<1>1. stage[r] \in AfterClaim => secret[r] \in Ids
  BY Processes DEF ClaimsInv, CliInv, StagesFit, RendezvousTypeOK, AfterClaim
<1> QED BY <1>1 DEF ClaimsInv, ClaimedBy, RowsKept, Kept, Stored

\* A receiver comes to those stages by a fetch that brings it a row.
LEMMA NextClaims ==
    ASSUME ClaimsInv, RowsKept, RendezvousNext, NEW r \in Receivers
    PROVE  ClaimedBy(r)'
<1> DEFINE Lasts == stage'[r] \in AfterClaim =>
                        stage[r] \in AfterClaim /\ secret'[r] = secret[r]
<1>0. /\ r \in Callers /\ r \notin Senders
      /\ stage \in [Callers -> SenderStages \cup ReceiverStages]
      /\ secret \in [Receivers -> Senders \cup {NoSecret}]
  BY Processes DEF ClaimsInv, CliInv, RendezvousTypeOK
<1>1. ASSUME Lasts PROVE ClaimedBy(r)'
  BY <1>1, ClaimsStay
<1>2. ASSUME UNCHANGED <<stage, secret>> PROVE Lasts
  BY <1>2
<1>3. ASSUME NEW p \in Callers, p # r, NEW at, NEW next, Return(p, at, next)
      PROVE  Lasts
  BY <1>0, <1>3 DEF Return
<1>4. ASSUME NEW at, NEW next, Return(r, at, next), at \in AfterClaim \/ next \notin AfterClaim
      PROVE  Lasts
  BY <1>0, <1>4 DEF Return
<1>5. ASSUME NEW s \in Senders, SenderNext(s)
      PROVE  Lasts
  <2>1. s \in Callers /\ s # r
    BY <1>0, Processes
  <2>2. CASE Register(s) \/ Poll(s)
    BY <1>2, <2>2 DEF Register, Poll, Ask
  <2>3. CASE PrintSecret(s) \/ PollFinds(s) \/ PollFails(s)
    BY <1>3, <2>1, <2>3 DEF PrintSecret, PollFinds, PollFails
  <2> QED BY <1>5, <2>2, <2>3 DEF SenderNext
<1>6. ASSUME NEW x \in Receivers, ReceiverNext(x)
      PROVE  ClaimedBy(r)'
  <2>1. x \in Callers
    BY Processes
  <2>2. CASE Check(x) \/ Fetch(x) \/ Announce(x) \/ FetchAgain(x)
    BY <1>1, <1>2, <2>2 DEF Check, Fetch, Announce, FetchAgain, Ask
  <2>3. CASE x # r /\ (Checked(x) \/ Fetched(x) \/ Announced(x) \/ FetchedAgain(x))
    BY <1>1, <1>3, <2>1, <2>3 DEF Checked, Fetched, Announced, FetchedAgain
  <2>4. CASE Checked(r) \/ Announced(r) \/ FetchedAgain(r)
    BY <1>1, <1>4, <2>4 DEF Checked, Announced, FetchedAgain, AfterClaim
  <2>5. CASE Fetched(r) /\ ~HasRow(answer[r])
    <3>1. Return(r, "getfile", "lost")
      BY <2>5 DEF Fetched
    <3> QED BY <1>1, <1>4, <3>1 DEF AfterClaim
  <2>6. CASE Fetched(r) /\ HasRow(answer[r])
    <3>1. stage[r] = "getfile" /\ r \in asked /\ secret' = secret /\ table' = table
      BY <2>6 DEF Fetched, Return, centralVars, serverVars, databaseVars
    <3>2. Stored(secret[r]) /\ table[secret[r]].claimed
      BY <2>6, <3>1, RowMeansClaimed
    <3> QED BY <3>1, <3>2 DEF ClaimedBy, Stored
  <2> QED BY <1>6, <2>2, <2>3, <2>4, <2>5, <2>6 DEF ReceiverNext
<1>7. ASSUME NEW x \in Receivers, StunAnswers(x)
      PROVE  Lasts
  BY <1>0, <1>7, Processes DEF StunAnswers, AfterClaim
<1>8. ASSUME NEW s \in Senders, NEW x \in Receivers, ShareSecret(s, x)
      PROVE  Lasts
  BY <1>0, <1>8, Processes DEF ShareSecret, AfterClaim
<1>9. ASSUME UNCHANGED cliVars
      PROVE  Lasts
  BY <1>2, <1>9 DEF cliVars
<1> QED BY <1>1, <1>5, <1>6, <1>7, <1>8, <1>9 DEF RendezvousNext, CallBreaks

\* Every step keeps the invariant with the claims.
LEMMA NextClaimsInv ==
    ASSUME NoRace, ClaimsInv, [RendezvousNext]_rendezvousVars
    PROVE  ClaimsInv'
<1>1. RendezvousInv
  BY DEF ClaimsInv, CentralInv, RendezvousInv
<1>2. CliInv'
  BY <1>1, NextRendezvousInv DEF RendezvousInv
<1>3. CASE RendezvousNext
  <2>1. CentralNext \/ UNCHANGED centralVars
    BY <1>1, <1>3, CentralSteps
  <2>2. CentralInv'
    BY <2>1, NextInv DEF ClaimsInv
  <2>3. RowsKept
    <3>1. CASE CentralNext
      BY <1>1, <3>1, RowsAreKept DEF RendezvousInv
    <3>2. CASE UNCHANGED centralVars
      BY <3>2, KeptItself DEF RowsKept, centralVars, serverVars, databaseVars
    <3> QED BY <2>1, <3>1, <3>2
  <2> QED BY <1>2, <1>3, <2>2, <2>3, NextClaims DEF ClaimsInv
<1>4. CASE UNCHANGED rendezvousVars
  <2>1. UNCHANGED centralVars /\ UNCHANGED cliVars
    BY <1>4 DEF rendezvousVars
  <2>2. CentralInv'
    BY <2>1, NextInv DEF ClaimsInv
  <2>3. \A r \in Receivers : ClaimedBy(r)'
    BY <2>1 DEF ClaimsInv, ClaimedBy, Stored, centralVars, serverVars, databaseVars, cliVars
  <2> QED BY <1>2, <2>2, <2>3 DEF ClaimsInv
<1> QED BY <1>3, <1>4

\* Before anything, nothing is claimed.
LEMMA InitClaims == RendezvousInit => ClaimsInv
<1>1. RendezvousInit => CentralInv
  BY InitInv DEF RendezvousInit
<1>2. RendezvousInit => \A r \in Receivers : ClaimedBy(r)
  BY RendezvousAssumption, Processes DEF RendezvousInit, ClaimedBy, AfterClaim
<1> QED BY <1>1, <1>2, InitCli DEF RendezvousInv, ClaimsInv

\* The invariant with the claims, if the server's threads do not race.
THEOREM ClaimsInvAlways == NoRace => (RendezvousSpec => []ClaimsInv)
<1> SUFFICES ASSUME NoRace PROVE RendezvousSpec => []ClaimsInv
  OBVIOUS
<1>1. ClaimsInv /\ [RendezvousNext]_rendezvousVars => ClaimsInv'
  BY NextClaimsInv
<1> QED BY <1>1, InitClaims, PTL DEF RendezvousSpec

\* poll_for_signal: the endpoints that a sender turns to are those of a receiver with
\* its secret, which has claimed its row.
THEOREM FindsItsReceiver == NoRace => (RendezvousSpec => []FoundItsReceiver)
<1>1. ASSUME ClaimsInv PROVE FoundItsReceiver
  <2>1. FoundHasAnnounced
    BY <1>1 DEF ClaimsInv, CliInv, SignalsFit
  <2>2. ASSUME NEW s \in Senders, found[s] # NoSignal
        PROVE  Stored(s) /\ table[s].claimed
    <3>1. found[s] \in Receivers /\ secret[found[s]] = s /\ HasAnnounced(found[s])
      BY <2>1, <2>2 DEF FoundHasAnnounced, Announces
    <3>2. ClaimedBy(found[s])
      BY <1>1, <3>1 DEF ClaimsInv
    <3> QED BY <3>1, <3>2 DEF ClaimedBy, HasAnnounced, AfterClaim
  <2> QED BY <2>1, <2>2 DEF FoundItsReceiver
<1> QED BY <1>1, ClaimsInvAlways, PTL

-----------------------------------------------------------------------------
(* What a transaction has written.                                           *)

\* A step that writes nothing in a transaction keeps what was written, or ends it.
LEMMA WritesStay ==
    ASSUME WritesOneRow, working' = table' \/ UNCHANGED <<table, working>>,
           \A w \in Threads : step'[w] \in Writes =>
               step'[w] = step[w] /\ Request(w)' = Request(w)
    PROVE  WritesOneRow'
<1>1. CASE working' = table'
  BY <1>1 DEF WritesOneRow, Found, Stored
<1>2. CASE UNCHANGED <<table, working>>
  BY <1>2 DEF WritesOneRow, Found, Stored
<1> QED BY <1>1, <1>2

\* MarkClaimed and Insert write into a transaction in which nothing is written yet.
LEMMA WriteWrites ==
    ASSUME CentralInv, NEW w \in Threads, MarkClaimed(w) \/ Insert(w)
    PROVE  WritesOneRow'
<1> USE DEF CentralInv, HandlerInv
<1>1. step[w] \in InTransaction \ Writes
  BY DEF MarkClaimed, Insert, InTransaction, Writes
<1>2. working = table /\ (\A u \in Threads \ {w} : step[u] \notin InTransaction)
  BY <1>1, OnlyLive DEF WorkingFits
<1>3. step' = [step EXCEPT ![w] = step'[w]] /\ task' = task /\ table' = table
  BY DEF MarkClaimed, Insert, Write, GoTo, HandlerGoesOn, CentralTypeOK
<1>4. \A u \in Threads \ {w} : step'[u] \notin Writes
  BY <1>2, <1>3 DEF CentralTypeOK, InTransaction
<1>5. Request(w)' = Request(w) /\ Request(w).id \in Ids
  BY <1>1, <1>3 DEF Request, StepFits, Tasks, Requests, InTransaction, Writes
<1>6. ASSUME NEW newRow, Write(w, newRow)
      PROVE  /\ \A other \in Ids \ {Request(w).id} : working'[other] = table'[other]
             /\ working'[Request(w).id] = newRow
  BY <1>2, <1>3, <1>5, <1>6 DEF Write, CentralTypeOK
<1>7. CASE MarkClaimed(w)
  <2> DEFINE newRow == IF Found(w) = NoRow THEN NoRow ELSE [Found(w) EXCEPT !.claimed = TRUE]
  <2>1. Write(w, newRow) /\ step'[w] = "commit_claim"
    BY <1>7 DEF MarkClaimed, GoTo, CentralTypeOK
  <2>2. Found(w) # NoRow => [Found(w) EXCEPT !.claimed = TRUE] \in Rows
    BY <1>5 DEF Found, CentralTypeOK, Rows
  <2>3. newRow = NoRow <=> Found(w) = NoRow
    BY <2>2, ServerAssumption DEF Rows
  <2>4. Found(w) = table[Request(w).id]
    BY <1>2 DEF Found
  <2> HIDE DEF newRow
  <2> QED BY <1>3, <1>4, <1>5, <1>6, <2>1, <2>3, <2>4 DEF WritesOneRow, Stored
<1>8. CASE Insert(w)
  <2> DEFINE newRow == [content |-> Request(w).content,
                        claimed |-> Found(w) # NoRow /\ Found(w).claimed]
  <2>1. Write(w, newRow) /\ step'[w] = "commit_insert"
    BY <1>8 DEF Insert, GoTo, CentralTypeOK
  <2>2. newRow.claimed => Found(w) # NoRow /\ Found(w).claimed
    OBVIOUS
  <2>3. Found(w) = table[Request(w).id]
    BY <1>2 DEF Found
  <2>4. Found(w)' = newRow
    BY <1>5, <1>6, <2>1 DEF Found
  <2> HIDE DEF newRow
  <2> QED BY <1>3, <1>4, <1>5, <1>6, <2>1, <2>2, <2>3, <2>4 DEF WritesOneRow, Stored
<1> QED BY <1>7, <1>8

\* A handler that returns closes what it has written, or has written nothing.
LEMMA CloseWrites ==
    ASSUME CentralInv, WritesOneRow, NEW w \in Threads, NEW reply, Respond(w, reply),
           NEW committed \in InDoubt(w) \cup {working}, Close(w, committed),
           step[w] \notin InTransaction => committed = table
    PROVE  WritesOneRow'
<1>1. /\ \A u \in Threads \ {w} : step'[u] = step[u] /\ task'[u] = task[u]
      /\ step'[w] = "idle"
  BY DEF Respond, GoTo, CentralInv, HandlerInv, CentralTypeOK
<1>2. CASE w \in live
  BY <1>1, <1>2, WritesStay DEF Close, Request, Writes
<1>3. CASE w \notin live
  <2>1. committed = table
    BY <1>3 DEF CentralInv, HandlerInv, NoLeftovers
  <2> QED BY <1>1, <1>3, <2>1, WritesStay DEF Close, Request, Writes
<1> QED BY <1>2, <1>3

\* The steps of the server write one row at a time.
LEMMA ServerWrites ==
    ASSUME CentralInv, WritesOneRow, ServerStep
    PROVE  WritesOneRow'
<1> USE DEF CentralInv, HandlerInv
<1>1. ASSUME NEW w \in Threads, Accept(w) \/ BeginTransaction(w) \/ ReadRow(w)
      PROVE  WritesOneRow'
  <2>1. UNCHANGED <<table, working>>
    BY <1>1 DEF Accept, BeginTransaction, ReadRow, databaseVars
  <2>2. /\ \A u \in Threads \ {w} : step'[u] = step[u] /\ task'[u] = task[u]
        /\ step'[w] \notin Writes
    BY <1>1 DEF Accept, BeginTransaction, ReadRow, GoTo, HandlerGoesOn, CentralTypeOK,
                FirstStep, Writes
  <2> QED BY <2>1, <2>2, WritesStay DEF Request
<1>2. ASSUME NEW w \in Threads, CommitRead(w)
      PROVE  WritesOneRow'
  <2>1. w \in live
    BY <1>2, OnlyLive DEF CommitRead, InTransaction
  <2>2. working' = table'
    BY <1>2, <2>1 DEF CommitRead, Close
  <2>3. /\ \A u \in Threads \ {w} : step'[u] = step[u] /\ task'[u] = task[u]
        /\ step'[w] \notin Writes
    BY <1>2 DEF CommitRead, GoTo, HandlerGoesOn, CentralTypeOK, Writes
  <2> QED BY <2>2, <2>3, WritesStay DEF Request
<1>3. ASSUME NEW w \in Threads, DatabaseThrows(w)
      PROVE  WritesOneRow'
  <2>1. PICK committed, reply :
            committed \in InDoubt(w) /\ Close(w, committed) /\ Respond(w, reply)
    BY <1>3 DEF DatabaseThrows
  <2>2. step[w] \notin InTransaction => committed = table
    BY <2>1 DEF InDoubt, InTransaction
  <2> QED BY <2>1, <2>2, CloseWrites
<1>4. ASSUME NEW w \in Threads, Lookup(w) \/ CommitClaim(w) \/ CommitInsert(w)
      PROVE  WritesOneRow'
  <2>1. PICK committed, reply :
            /\ committed \in InDoubt(w) \cup {working}
            /\ Close(w, committed) /\ Respond(w, reply)
    BY <1>4 DEF Lookup, CommitClaim, CommitInsert, InDoubt
  <2>2. step[w] \in InTransaction
    BY <1>4 DEF Lookup, CommitClaim, CommitInsert, InTransaction, Writes
  <2> QED BY <2>1, <2>2, CloseWrites
<1>5. ASSUME NEW w \in Threads, PostSignal(w) \/ GetSignal(w)
      PROVE  WritesOneRow'
  <2>1. UNCHANGED <<table, working>> /\ \E reply : Respond(w, reply)
    BY <1>5 DEF PostSignal, GetSignal, databaseVars
  <2>2. /\ \A u \in Threads \ {w} : step'[u] = step[u] /\ task'[u] = task[u]
        /\ step'[w] \notin Writes
    BY <2>1 DEF Respond, GoTo, CentralTypeOK, Writes
  <2> QED BY <2>1, <2>2, WritesStay DEF Request
<1>6. ASSUME NEW committed, StartAgain(committed)
      PROVE  WritesOneRow'
  BY <1>6, WritesStay DEF StartAgain, Writes
<1>7. ASSUME Disconnect
      PROVE  WritesOneRow'
  BY <1>7, WritesStay DEF Disconnect, Request
<1> QED BY <1>1, <1>2, <1>3, <1>4, <1>5, <1>6, <1>7, WriteWrites
        DEF ServerStep, Step, Restart, RunsOffTheEnd

\* The inductive invariant of the refinement.
MeetsInv == ClaimsInv /\ WritesOneRow

LEMMA NextMeetsInv ==
    ASSUME NoRace, MeetsInv, [RendezvousNext]_rendezvousVars
    PROVE  MeetsInv'
<1> USE DEF MeetsInv
<1>1. ClaimsInv'
  BY NextClaimsInv
<1>0. RendezvousInv
  BY DEF ClaimsInv, CentralInv, RendezvousInv
<1>2. CASE ServerStep
  BY <1>1, <1>2, ServerWrites DEF ClaimsInv
<1>3. ASSUME CallerStep \/ UNCHANGED centralVars
      PROVE  WritesOneRow'
  <2>1. ASSUME NEW p \in Callers, GiveUp(p)
        PROVE  \A w \in Threads : Request(w)' = Request(w)
    BY <2>1 DEF GiveUp, Request, Orphan, ClaimsInv, CentralInv, HandlerInv, CentralTypeOK,
                   Tasks, NoTask
  <2>2. ASSUME NEW p \in Callers, NEW request, Call(p, request) \/ CallRefused(p, request)
        PROVE  task' = task
    BY <2>2 DEF Call, CallRefused, serverVars
  <2>3. \A w \in Threads : Request(w)' = Request(w)
    BY <1>3, <2>1, <2>2 DEF CallerStep, Request, serverVars, centralVars
  <2>4. UNCHANGED <<table, working, step>>
    BY <1>3 DEF CallerStep, Call, CallRefused, GiveUp, serverVars, databaseVars, centralVars
  <2> QED BY <2>3, <2>4, WritesStay
<1> QED BY <1>0, <1>1, <1>2, <1>3, CentralSteps DEF CentralNext, rendezvousVars

-----------------------------------------------------------------------------
(* The refinement.                                                           *)

MapVars == <<Listed, Claimed, Given, HaveAnnounced, Met>>

\* A change of the table is a listing or a claim.
LEMMA TableMoves ==
    ASSUME MeetsInv, MeetsInv', CentralNext, UNCHANGED <<Given, HaveAnnounced, Met>>
    PROVE  M!Next \/ UNCHANGED MapVars
<1> USE DEF MeetsInv, ClaimsInv
<1>1. CASE table' = table
  BY <1>1 DEF MapVars, Listed, Claimed, Stored
<1>2. CASE table' # table
  <2>1. table' = working /\ working # table
    BY <1>2, OneOfTwoTables DEF CentralInv
  <2>2. PICK w \in Threads : step[w] \in Writes
    BY <2>1 DEF CentralInv, HandlerInv, NoLeftovers, WorkingFits, CentralTypeOK
  <2>3. PICK id : id = Request(w).id
    OBVIOUS
  <2>4. id \in Ids /\ id \in Senders
    BY <2>2, <2>3, Processes DEF CentralInv, HandlerInv, StepFits, Request, Tasks, Requests, Writes
  <2>5. \A s \in Senders \ {id} : table'[s] = table[s]
    BY <2>1, <2>2, <2>3, Processes DEF WritesOneRow
  <2>6. Kept(table[id], working[id])
    BY <2>4 DEF CentralInv, HandlerInv, WorkingKeeps
  <2>7. CASE step[w] = "commit_claim"
    <3>1. table'[id] # NoRow <=> Stored(id)
      BY <2>1, <2>2, <2>3, <2>7 DEF WritesOneRow
    <3>2. Listed' = Listed
      BY <2>4, <2>5, <3>1 DEF Listed, Stored
    <3>3. \A s \in Listed \ {id} : table'[s] = table[s]
      BY <2>5 DEF Listed
    <3>4. CASE id \in Claimed'
      <4>1. Claimed' = Claimed \cup {id} /\ id \in Listed
        BY <3>2, <3>4, <3>3 DEF Claimed
      <4>2. PICK q : q = Request(w)
        OBVIOUS
      <4>3. RequestFits(q)
        BY <2>2, <4>2 DEF CliInv, TasksFit, Writes
      <4>4. q.kind = "getfile" /\ q.id = id
        BY <2>3, <2>7, <4>2 DEF CentralInv, HandlerInv, StepFits
      <4>5. PICK r \in Receivers : secret[r] = id
        BY <4>3, <4>4 DEF RequestFits
      <4>6. Given[r] = id
        BY <2>4, <4>5, Processes DEF Given, Maybe
      <4> QED BY <3>2, <4>1, <4>6 DEF M!Next, M!Claim
    <3>5. CASE id \notin Claimed'
      <4>1. id \notin Claimed
        BY <2>1, <2>6, <3>1, <3>5 DEF Claimed, Listed, Stored, Kept
      <4>2. Claimed' = Claimed
        BY <3>2, <3>5, <3>3, <4>1 DEF Claimed
      <4> QED BY <3>2, <4>2 DEF MapVars
    <3> QED BY <3>4, <3>5
  <2>8. CASE step[w] = "commit_insert"
    <3>1. CASE working[id] = NoRow
      <4>1. table[id] = NoRow
        BY <2>6, <3>1 DEF Kept
      <4>2. Listed' = Listed /\ Claimed' = Claimed
        BY <2>1, <2>5, <3>1, <4>1 DEF Listed, Claimed, Stored
      <4> QED BY <4>2 DEF MapVars
    <3>2. CASE working[id] # NoRow
      <4>1. working[id].claimed => Stored(id) /\ table[id].claimed
        BY <2>2, <2>3, <2>8, <3>2 DEF WritesOneRow, Found
      <4>2. Stored(id) /\ table[id].claimed => working[id].claimed
        BY <2>6 DEF Kept, Stored
      <4>3. Listed' = Listed \cup {id}
        BY <2>1, <2>4, <2>5, <3>2 DEF Listed, Stored
      <4>4. Claimed' = Claimed
        BY <2>1, <2>4, <2>5, <4>1, <4>2, <4>3 DEF Claimed, Listed, Stored
      <4> QED BY <2>4, <4>3, <4>4 DEF M!Next, M!List
    <3> QED BY <3>1, <3>2
  <2> QED BY <2>2, <2>7, <2>8 DEF Writes
<1> QED BY <1>1, <1>2

\* A caller's step leaves the table alone.
LEMMA CallersLeaveTable ==
    ASSUME CallerStep \/ UNCHANGED centralVars
    PROVE  Listed' = Listed /\ Claimed' = Claimed
<1>1. table' = table
  BY DEF CallerStep, Call, CallRefused, GiveUp, serverVars, databaseVars, centralVars
<1> QED BY <1>1 DEF Listed, Claimed, Stored

\* A receiver that asks has announced itself if it asks to post its signal.
LEMMA AskMoves ==
    ASSUME MeetsInv, NEW p \in Callers, NEW at, NEW request, Ask(p, at, request),
           p \in Senders => at # "signal"
    PROVE  M!Next \/ UNCHANGED MapVars
<1> USE DEF MeetsInv, ClaimsInv
<1>1. /\ stage[p] = at /\ asked' = asked \cup {p} /\ UNCHANGED <<stage, secret, found>>
      /\ Given' = Given /\ Met' = Met
  BY DEF Ask, Given, Met
<1>2. Listed' = Listed /\ Claimed' = Claimed
  <2>1. table' = table
    BY DEF Ask, Call, CallRefused, serverVars, databaseVars
  <2> QED BY <2>1 DEF Listed, Claimed, Stored
<1>3. CASE at = "signal"
  <2>1. p \in Receivers /\ p \notin Senders
    BY <1>3, RendezvousAssumption
  <2>2. Stored(secret[p]) /\ table[secret[p]].claimed
    BY <1>1, <1>3, <2>1 DEF ClaimedBy, AfterClaim
  <2>3. secret[p] \in Senders
    BY <1>1, <1>3, <2>1 DEF CliInv, StagesFit, RendezvousTypeOK
  <2>4. Given[p] = secret[p] /\ secret[p] \in Claimed
    BY <2>1, <2>2, <2>3, Processes DEF Given, Maybe, Claimed, Listed
  <2>5. HaveAnnounced' = HaveAnnounced \cup {p}
    BY <1>1, <1>3, <2>1 DEF HaveAnnounced, HasAnnounced
  <2> QED BY <1>1, <1>2, <2>1, <2>4, <2>5 DEF M!Next, M!Announce
<1>4. CASE at # "signal"
  <2>1. HaveAnnounced' = HaveAnnounced
    BY <1>1, <1>4 DEF HaveAnnounced, HasAnnounced
  <2> QED BY <1>1, <1>2, <2>1 DEF MapVars
<1> QED BY <1>3, <1>4

\* A receiver whose call returns is announced if it was.
LEMMA ReceiverMoves ==
    ASSUME MeetsInv, NEW r \in Receivers,
           \/ Checked(r) \/ Fetched(r) \/ Announced(r) \/ FetchedAgain(r) \/ StunAnswers(r)
    PROVE  UNCHANGED MapVars
<1> USE DEF MeetsInv, ClaimsInv
<1>0. r \in Callers /\ stage \in [Callers -> SenderStages \cup ReceiverStages]
  BY Processes DEF CliInv, RendezvousTypeOK
<1>1. UNCHANGED <<centralVars, secret, found>>
  BY DEF Checked, Fetched, Announced, FetchedAgain, StunAnswers, Return
<1>2. Listed' = Listed /\ Claimed' = Claimed
  BY <1>1, CallersLeaveTable
<1>3. Given' = Given /\ Met' = Met
  BY <1>1 DEF Given, Met
<1>4. \A x \in Receivers \ {r} : HasAnnounced(x)' = HasAnnounced(x)
  <2>1. ASSUME NEW x \in Receivers \ {r}
        PROVE  stage'[x] = stage[x] /\ (x \in asked' <=> x \in asked)
    <3>1. x \in Callers
      BY Processes
    <3> QED BY <1>0, <3>1 DEF Checked, Fetched, Announced, FetchedAgain, StunAnswers, Return
  <2> QED BY <2>1 DEF HasAnnounced
<1>5. HasAnnounced(r)' = HasAnnounced(r)
  <2>1. CASE StunAnswers(r)
    <3>1. r \notin asked
      BY <2>1 DEF StunAnswers, CliInv, CallsFit, Asks
    <3> QED BY <1>0, <2>1, <3>1 DEF StunAnswers, HasAnnounced
  <2>2. ASSUME NEW at, NEW next, Return(r, at, next)
        PROVE  stage[r] = at /\ r \in asked /\ r \notin asked' /\ stage'[r] = next
    BY <1>0, <2>2 DEF Return
  <2>3. CASE Checked(r)
    BY <2>2, <2>3 DEF Checked, HasAnnounced
  <2>4. CASE Fetched(r)
    BY <2>2, <2>4 DEF Fetched, HasAnnounced
  <2>5. CASE Announced(r)
    BY <2>2, <2>5 DEF Announced, HasAnnounced
  <2>6. CASE FetchedAgain(r)
    BY <2>2, <2>6 DEF FetchedAgain, HasAnnounced
  <2> QED BY <2>1, <2>3, <2>4, <2>5, <2>6
<1>6. HaveAnnounced' = HaveAnnounced
  BY <1>4, <1>5 DEF HaveAnnounced
<1> QED BY <1>2, <1>3, <1>6 DEF MapVars

\* A sender whose poll returns a signal has met the receiver that it is from.
LEMMA SenderMoves ==
    ASSUME MeetsInv, NEW s \in Senders, PrintSecret(s) \/ PollFinds(s) \/ PollFails(s)
    PROVE  M!Next \/ UNCHANGED MapVars
<1> USE DEF MeetsInv, ClaimsInv
<1>1. UNCHANGED <<centralVars, secret>> /\ asked' = asked \ {s}
      /\ \E next : stage' = [stage EXCEPT ![s] = next]
  BY DEF PrintSecret, PollFinds, PollFails, Return
<1>2. Listed' = Listed /\ Claimed' = Claimed /\ Given' = Given
  BY <1>1, CallersLeaveTable DEF Given
<1>3. HaveAnnounced' = HaveAnnounced
  <2>1. \A r \in Receivers : r # s /\ r \in Callers
    BY Processes
  <2> QED BY <1>1, <2>1 DEF HaveAnnounced, HasAnnounced, CliInv, RendezvousTypeOK
<1>4. CASE PrintSecret(s) \/ PollFails(s)
  <2>1. Met' = Met
    BY <1>4 DEF PrintSecret, PollFails, Met
  <2> QED BY <1>2, <1>3, <2>1 DEF MapVars
<1>5. CASE PollFinds(s)
  <2>1. /\ stage[s] = "poll" /\ s \in asked /\ answer[s].status = 200
        /\ found' = [found EXCEPT ![s] = answer[s].body]
    BY <1>5 DEF PollFinds, Return
  <2>2. call[s] = Plain("get_signal", s)
    BY <2>1 DEF CliInv, CallsFit, Asks
  <2>3. call[s].kind = "get_signal" /\ call[s].id = s
    BY <2>2 DEF Plain
  <2>4. PICK r : r = answer[s].body
    OBVIOUS
  <2>5. Announces(r, s)
    BY <2>1, <2>3, <2>4 DEF CliInv, SignalsFit
  <2>6. r \in Receivers /\ secret[r] = s /\ r \in HaveAnnounced
    BY <2>5 DEF Announces, HaveAnnounced
  <2>7. Given[r] = s
    BY <2>6, Processes DEF Given, Maybe
  <2>8. Met[s] = Nobody
    <3>1. found[s] = NoSignal
      BY <2>1 DEF CliInv, StagesFit
    <3> QED BY <3>1, Processes, ServerAssumption DEF Met, Maybe
  <2>9. Met' = [Met EXCEPT ![s] = r]
    <3>1. found \in [Senders -> Receivers \cup {NoSignal}]
      BY DEF CliInv, RendezvousTypeOK
    <3>2. found'[s] = r /\ \A x \in Senders \ {s} : found'[x] = found[x]
      BY <2>1, <2>4, <3>1
    <3>3. Maybe(r) = r
      BY <2>6, Processes DEF Maybe
    <3> QED BY <3>2, <3>3 DEF Met, Maybe
  <2> QED BY <1>2, <1>3, <2>6, <2>7, <2>8, <2>9 DEF M!Next, M!Meet
<1> QED BY <1>4, <1>5

\* A user hands on a secret once.
LEMMA SecretMoves ==
    ASSUME MeetsInv, NEW s \in Senders, NEW r \in Receivers, ShareSecret(s, r)
    PROVE  M!Next
<1> USE DEF MeetsInv, ClaimsInv
<1>1. /\ stage[r] = "idle" /\ UNCHANGED <<centralVars, asked, found>>
      /\ stage' = [stage EXCEPT ![r] = "lookup"] /\ secret' = [secret EXCEPT ![r] = s]
  BY DEF ShareSecret
<1>2. Listed' = Listed /\ Claimed' = Claimed /\ Met' = Met
  BY <1>1, CallersLeaveTable DEF Met
<1>3. HaveAnnounced' = HaveAnnounced
  BY <1>1, Processes DEF HaveAnnounced, HasAnnounced, CliInv, RendezvousTypeOK
<1>4. Given[r] = Nobody
  BY <1>1, RendezvousAssumption DEF Given, Maybe, CliInv, StagesFit
<1>5. Given' = [Given EXCEPT ![r] = s]
  <2>1. secret'[r] = s /\ \A x \in Receivers \ {r} : secret'[x] = secret[x]
    BY <1>1 DEF CliInv, RendezvousTypeOK
  <2>2. Maybe(s) = s
    BY Processes DEF Maybe
  <2> QED BY <2>1, <2>2 DEF Given, Maybe
<1> QED BY <1>2, <1>3, <1>4, <1>5 DEF M!Next, M!Give

\* Every step of the processes and the server is a step of Meeting, or none.
LEMMA StepsMeet ==
    ASSUME MeetsInv, MeetsInv', [RendezvousNext]_rendezvousVars
    PROVE  [M!Next]_MapVars
<1> USE DEF MeetsInv
<1>1. ASSUME NEW s \in Senders, SenderNext(s)
      PROVE  M!Next \/ UNCHANGED MapVars
  <2>1. s \in Callers
    BY Processes
  <2> QED BY <1>1, <2>1, AskMoves, SenderMoves DEF SenderNext, Register, Poll
<1>2. ASSUME NEW r \in Receivers, ReceiverNext(r) \/ StunAnswers(r)
      PROVE  M!Next \/ UNCHANGED MapVars
  <2>1. r \in Callers /\ r \notin Senders
    BY Processes
  <2>2. CASE Check(r) \/ Fetch(r) \/ Announce(r) \/ FetchAgain(r)
    BY <2>1, <2>2, AskMoves DEF Check, Fetch, Announce, FetchAgain
  <2>3. CASE \/ Checked(r) \/ Fetched(r) \/ Announced(r) \/ FetchedAgain(r)
             \/ StunAnswers(r)
    BY <2>3, ReceiverMoves
  <2> QED BY <1>2, <2>2, <2>3 DEF ReceiverNext
<1>3. ASSUME UNCHANGED cliVars, CentralNext \/ UNCHANGED centralVars
      PROVE  M!Next \/ UNCHANGED MapVars
  <2>1. UNCHANGED <<Given, HaveAnnounced, Met>>
    BY <1>3 DEF Given, HaveAnnounced, HasAnnounced, Met, cliVars
  <2>2. CASE CentralNext
    BY <2>1, <2>2, TableMoves
  <2>3. CASE UNCHANGED centralVars
    BY <2>1, <2>3, CallersLeaveTable DEF MapVars
  <2> QED BY <1>3, <2>2, <2>3
<1>4. ASSUME NEW p \in Callers, CallBreaks(p)
      PROVE  M!Next \/ UNCHANGED MapVars
  BY <1>3, <1>4 DEF CallBreaks, CentralNext, CallerStep
<1> QED BY <1>1, <1>2, <1>3, <1>4, SecretMoves
        DEF RendezvousNext, CentralNext, rendezvousVars

\* The first state is Meeting's.
LEMMA StartMeets == RendezvousInit => M!Init /\ WritesOneRow
<1> SUFFICES ASSUME RendezvousInit PROVE M!Init /\ WritesOneRow
  OBVIOUS
<1>1. Listed = {} /\ Claimed = {}
  BY Processes DEF RendezvousInit, CentralInit, Listed, Claimed, Stored
<1>2. Given = [r \in Receivers |-> Nobody]
  BY RendezvousAssumption DEF RendezvousInit, Given, Maybe
<1>3. Met = [s \in Senders |-> Nobody]
  BY Processes, ServerAssumption DEF RendezvousInit, Met, Maybe
<1>4. HaveAnnounced = {}
  BY Processes DEF RendezvousInit, HaveAnnounced, HasAnnounced
<1>5. WritesOneRow
  BY DEF RendezvousInit, CentralInit, WritesOneRow, Writes
<1> QED BY <1>1, <1>2, <1>3, <1>4, <1>5 DEF M!Init

\* The calls of the commands and the central server do what Meeting says: no signal,
\* claim or row turns up that the protocol would not put there, and none is taken back.
THEOREM RendezvousImplementsMeeting == NoRace => (RendezvousSpec => Meets)
<1> SUFFICES ASSUME NoRace PROVE RendezvousSpec => Meets
  OBVIOUS
<1>1. MeetsInv /\ [RendezvousNext]_rendezvousVars => MeetsInv'
  BY NextMeetsInv
<1>2. RendezvousInit => MeetsInv
  BY InitClaims, StartMeets DEF MeetsInv
<1>3. MeetsInv /\ MeetsInv' /\ [RendezvousNext]_rendezvousVars => [M!Next]_MapVars
  BY StepsMeet
<1>4. RendezvousInit => M!Init
  BY StartMeets
<1> QED BY <1>1, <1>2, <1>3, <1>4, PTL
        DEF RendezvousSpec, Meets, M!Spec, M!meetingVars, MapVars
=============================================================================
