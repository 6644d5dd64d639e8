---------------------------- MODULE CentralProofs ----------------------------
(***************************************************************************)
(* Proofs about CentralServer, for any number of callers, threads and ids: *)
(* first what holds whether or not threads race for the connection, then   *)
(* what holds if they find it either free or taken.                        *)
(***************************************************************************)
EXTENDS CentralServer, SequenceTheorems, TLAPS

-----------------------------------------------------------------------------
(* Types.                                                                    *)

\* A reply is one of the answers.
LEMMA ReplyType ==
    /\ Waiting \in Answers /\ NoResponse \in Answers /\ Empty \in Answers
    /\ Reply(201, "") \in Answers /\ Reply(404, "") \in Answers
    /\ Reply(500, "") \in Answers
    /\ Reply(200, "True") \in Answers /\ Reply(200, "False") \in Answers
    /\ \A c \in Contents : Reply(200, c) \in Answers
BY ZenonT(60) DEF Reply, Waiting, NoResponse, Empty, Answers

\* A task that is run, or waits to be run, is still a task when its caller gives up.
LEMMA OrphanType ==
    ASSUME NEW p \in Callers
    PROVE  /\ \A t \in Tasks : Orphan(t, p) \in Tasks
           /\ \A t \in Tasks \cup {NoTask} : Orphan(t, p) \in Tasks \cup {NoTask}
<1>1. \A t \in Tasks : Orphan(t, p) \in Tasks
  BY DEF Orphan, Tasks
<1>2. Orphan(NoTask, p) = NoTask
  BY DEF Orphan, NoTask
<1> QED BY <1>1, <1>2

\* Respond answers with an answer.
LEMMA RespondType ==
    ASSUME CentralTypeOK, NEW w \in Threads, NEW reply \in Answers, Respond(w, reply)
    PROVE  /\ step' \in [Threads -> Steps] /\ task' \in [Threads -> Tasks \cup {NoTask}]
           /\ row' \in [Threads -> Rows \cup {NoRow}] /\ answer' \in [Callers -> Answers]
           /\ jobs' \in Seq(Tasks) /\ call' \in [Callers -> Requests \cup {NoRequest}]
<1>1. "idle" \in Steps
  BY DEF Steps
<1> QED BY <1>1 DEF CentralTypeOK, Respond, GoTo

\* Close leaves the tables tables of rows.
LEMMA CloseType ==
    ASSUME CentralTypeOK, NEW w \in Threads, NEW committed \in {table, working},
           Close(w, committed)
    PROVE  /\ table' \in [Ids -> Rows \cup {NoRow}]
           /\ working' \in [Ids -> Rows \cup {NoRow}]
           /\ live' \subseteq Threads /\ connection' \in {"open", "broken"}
           /\ signal_store' \in [Ids -> Contents \cup {NoSignal}]
BY DEF CentralTypeOK, Close

\* What may be committed is one of the two tables.
LEMMA InDoubtTables == \A w \in Threads : InDoubt(w) \subseteq {table, working}
BY DEF InDoubt

\* The steps of a caller keep the types.
LEMMA CallerTypes ==
    ASSUME HandlerInv, CallerStep
    PROVE  CentralTypeOK'
<1> USE DEF HandlerInv, CentralTypeOK, databaseVars, serverVars
<1>1. ASSUME NEW p \in Callers, NEW request \in Requests, Call(p, request)
      PROVE  CentralTypeOK'
  <2>1. [caller |-> p, request |-> request] \in Tasks
    BY DEF Tasks
  <2>2. jobs' \in Seq(Tasks)
    BY <1>1, <2>1 DEF Call
  <2> QED BY <1>1, <2>2, ReplyType DEF Call
<1>2. ASSUME NEW p \in Callers, NEW request \in Requests, CallRefused(p, request)
      PROVE  CentralTypeOK'
  BY <1>2, ReplyType DEF CallRefused
<1>3. ASSUME NEW p \in Callers, GiveUp(p)
      PROVE  CentralTypeOK'
  <2>1. jobs' \in Seq(Tasks)
    <3>1. \A i \in 1..Len(jobs) : Orphan(jobs[i], p) \in Tasks
      BY OrphanType, ElementOfSeq
    <3>2. jobs' = [i \in 1..Len(jobs) |-> Orphan(jobs[i], p)]
      BY <1>3 DEF GiveUp
    <3> HIDE DEF HandlerInv, CentralTypeOK
    <3>3. Len(jobs) \in Nat
      BY LenProperties DEF HandlerInv, CentralTypeOK
    <3> QED BY <3>1, <3>2, <3>3, IsASeq
  <2>2. task' \in [Threads -> Tasks \cup {NoTask}]
    BY <1>3, OrphanType DEF GiveUp
  <2> QED BY <1>3, <2>1, <2>2, ReplyType DEF GiveUp
<1> QED BY <1>1, <1>2, <1>3 DEF CallerStep

\* Asking for a signal answers with one that was stored, or with none.
LEMMA GetSignalTypes ==
    ASSUME CentralTypeOK, StepFits, NEW w \in Threads, GetSignal(w)
    PROVE  CentralTypeOK'
<1> DEFINE stored == signal_store[Request(w).id]
<1>1. Request(w).id \in Ids
  BY DEF GetSignal, StepFits, Request, Tasks, Requests
<1>2. stored \in Contents \cup {NoSignal}
  BY <1>1 DEF CentralTypeOK
<1>3. PICK reply \in Answers : Respond(w, reply)
  <2>1. CASE stored = NoSignal
    <3>1. Respond(w, Reply(404, ""))
      BY <2>1 DEF GetSignal
    <3> QED BY <3>1, ReplyType
  <2>2. CASE stored \in Contents
    <3>1. Respond(w, Reply(200, stored))
      BY <2>2, ServerAssumption DEF GetSignal
    <3> QED BY <2>2, <3>1, ReplyType
  <2> QED BY <1>2, <2>1, <2>2
<1>4. UNCHANGED <<table, working, connection, live, signal_store>>
  BY DEF GetSignal, databaseVars
<1>5. /\ step' \in [Threads -> Steps] /\ task' \in [Threads -> Tasks \cup {NoTask}]
      /\ row' \in [Threads -> Rows \cup {NoRow}] /\ answer' \in [Callers -> Answers]
      /\ jobs' \in Seq(Tasks) /\ call' \in [Callers -> Requests \cup {NoRequest}]
  BY <1>3, RespondType
<1> QED BY <1>4, <1>5 DEF CentralTypeOK

\* The steps of the server keep the types.
LEMMA ServerTypes ==
    ASSUME HandlerInv, ServerStep
    PROVE  CentralTypeOK'
<1> USE DEF HandlerInv
<1>1. ASSUME NEW w \in Threads, Accept(w)
      PROVE  CentralTypeOK'
  <2>1. Head(jobs) \in Tasks /\ Tail(jobs) \in Seq(Tasks)
    BY <1>1 DEF Accept, CentralTypeOK
  <2>2. FirstStep(Head(jobs).request.kind) \in Steps
    BY DEF FirstStep, Steps, Constructors
  <2> QED BY <1>1, <2>1, <2>2 DEF Accept, CentralTypeOK, databaseVars, callerVars
<1>2. ASSUME NEW w \in Threads, BeginTransaction(w)
      PROVE  CentralTypeOK'
  <2>1. step' \in [Threads -> Steps]
    BY <1>2 DEF BeginTransaction, CentralTypeOK, GoTo, Steps, InTransaction
  <2> QED BY <1>2, <2>1 DEF BeginTransaction, CentralTypeOK, HandlerGoesOn, callerVars
<1>3. ASSUME NEW w \in Threads, DatabaseThrows(w)
      PROVE  CentralTypeOK'
  <2>1. Caught(Request(w).kind, step[w]) \in Answers
    BY ReplyType DEF Caught
  <2>2. PICK committed \in InDoubt(w) : Close(w, committed)
    BY <1>3 DEF DatabaseThrows
  <2>3. committed \in {table, working}
    BY <2>2, InDoubtTables
  <2>4. Respond(w, Caught(Request(w).kind, step[w]))
    BY <1>3 DEF DatabaseThrows
  <2> HIDE DEF HandlerInv
  <2>5. CentralTypeOK
    BY DEF HandlerInv
  <2> QED BY <2>1, <2>2, <2>3, <2>4, <2>5, RespondType, CloseType DEF CentralTypeOK
<1>4. ASSUME NEW w \in Threads, Lookup(w)
      PROVE  CentralTypeOK'
  BY <1>4, ReplyType, RespondType, CloseType, ZenonT(60) DEF Lookup, CentralTypeOK
<1>5. ASSUME NEW w \in Threads, ReadRow(w) \/ CommitRead(w)
      PROVE  CentralTypeOK'
  <2>1. Request(w).id \in Ids
    BY <1>5 DEF StepFits, Request, Tasks, Requests, ReadRow, CommitRead
  <2> QED BY <1>5, <2>1, CloseType DEF ReadRow, CommitRead, CentralTypeOK, Found, GoTo,
             HandlerGoesOn, callerVars, databaseVars, Steps, Constructors, InTransaction
<1>6. ASSUME NEW w \in Threads, MarkClaimed(w) \/ Insert(w)
      PROVE  CentralTypeOK'
  <2>1. Request(w).id \in Ids
    BY <1>6 DEF StepFits, Request, Tasks, Requests, MarkClaimed, Insert
  <2>2. Found(w) \in Rows \cup {NoRow}
    BY <2>1 DEF Found, CentralTypeOK
  <2>3. step' \in [Threads -> Steps]
    BY <1>6 DEF MarkClaimed, Insert, GoTo, CentralTypeOK, Steps, InTransaction, Writes
  <2>4. ASSUME NEW newRow \in Rows \cup {NoRow}, Write(w, newRow)
        PROVE  CentralTypeOK'
    BY <2>1, <2>3, <2>4 DEF Write, CentralTypeOK, HandlerGoesOn, callerVars
  <2>5. CASE MarkClaimed(w)
    <3>1. Found(w) # NoRow => [Found(w) EXCEPT !.claimed = TRUE] \in Rows
      BY <2>2 DEF Rows
    <3> QED BY <2>4, <2>5, <3>1 DEF MarkClaimed
  <2>6. CASE Insert(w)
    <3>1. Request(w).content \in Contents
      BY <2>6 DEF StepFits, Insert, Request, Tasks, Requests
    <3>2. Found(w) # NoRow => Found(w).claimed \in BOOLEAN
      BY <2>2 DEF Rows
    <3>3. [content |-> Request(w).content, claimed |-> Found(w) # NoRow /\ Found(w).claimed]
             \in Rows
      BY <3>1, <3>2 DEF Rows
    <3> QED BY <2>4, <2>6, <3>3 DEF Insert
  <2> QED BY <1>6, <2>5, <2>6
<1>7. ASSUME NEW w \in Threads, CommitClaim(w) \/ CommitInsert(w)
      PROVE  CentralTypeOK'
  <2>1. row[w] # NoRow => Reply(200, row[w].content) \in Answers
    BY ReplyType DEF CentralTypeOK, Rows
  <2> QED BY <1>7, <2>1, ReplyType, RespondType, CloseType, ZenonT(60)
          DEF CommitClaim, CommitInsert, CentralTypeOK
<1>8. ASSUME NEW w \in Threads, PostSignal(w) \/ GetSignal(w)
      PROVE  CentralTypeOK'
  <2>1. task[w] \in Tasks
    BY <1>8 DEF StepFits, PostSignal, GetSignal
  <2>2. Request(w).id \in Ids
    BY <2>1 DEF Request, Tasks, Requests
  <2>3. CASE PostSignal(w)
    <3>1. Request(w).content \in Contents
      BY <2>1, <2>3 DEF PostSignal, Request, Tasks, Requests
    <3> QED BY <2>2, <2>3, <3>1, ReplyType, RespondType
            DEF PostSignal, CentralTypeOK, databaseVars
  <2>4. CASE GetSignal(w)
    BY <2>4, GetSignalTypes
  <2> QED BY <1>8, <2>3, <2>4
<1>9. ASSUME NEW committed \in {table, working}, StartAgain(committed)
      PROVE  CentralTypeOK'
  <2>1. "idle" \in Steps /\ << >> \in Seq(Tasks)
    BY DEF Steps
  <2> QED BY <1>9, <2>1, ReplyType DEF StartAgain, CentralTypeOK
<1>10. ASSUME Disconnect
       PROVE  CentralTypeOK'
  BY <1>10 DEF Disconnect, CentralTypeOK, callerVars
<1> QED
  BY <1>1, <1>2, <1>3, <1>4, <1>5, <1>6, <1>7, <1>8, <1>9, <1>10, InDoubtTables
  DEF ServerStep, Step, Restart, RunsOffTheEnd

-----------------------------------------------------------------------------
(* Handlers and their transactions, whether or not they race.                *)

Fits == NoLeftovers /\ StepFits /\ WorkingKeeps

\* A row keeps its place among the rows that it keeps.
LEMMA KeptItself == \A r : Kept(r, r)
BY DEF Kept

\* A caller's step leaves the handlers where they are.
LEMMA CallerFits ==
    ASSUME HandlerInv, CallerStep
    PROVE  Fits'
<1> USE DEF HandlerInv, databaseVars, serverVars
<1>1. ASSUME NEW p \in Callers, NEW request \in Requests,
             Call(p, request) \/ CallRefused(p, request)
      PROVE  Fits'
  BY <1>1 DEF Call, CallRefused, Fits, NoLeftovers, StepFits, WorkingKeeps, Request
<1>2. ASSUME NEW p \in Callers, GiveUp(p)
      PROVE  Fits'
  <2>1. \A w \in Threads : Request(w)' = Request(w)
    BY <1>2 DEF GiveUp, Request, Orphan, CentralTypeOK, Tasks, NoTask
  <2>2. \A w \in Threads : task[w] \in Tasks => task'[w] \in Tasks
    BY <1>2, OrphanType DEF GiveUp
  <2> QED BY <1>2, <2>1, <2>2 DEF GiveUp, Fits, NoLeftovers, StepFits, WorkingKeeps
<1> QED BY <1>1, <1>2 DEF CallerStep

\* A handler that returns is in no transaction any more.
LEMMA RespondFits ==
    ASSUME HandlerInv, NEW w \in Threads, NEW reply, Respond(w, reply),
           live' = live \ {w}
    PROVE  live' = {u \in Threads : step'[u] \in InTransaction} /\ StepFits'
<1> USE DEF HandlerInv
<1>1. step' = [step EXCEPT ![w] = "idle"] /\ step'[w] = "idle"
  BY DEF Respond, GoTo, CentralTypeOK
<1>2. \A u \in Threads \ {w} : step'[u] = step[u] /\ task'[u] = task[u]
  BY <1>1 DEF Respond, CentralTypeOK
<1>3. step'[w] \notin InTransaction
  BY <1>1 DEF InTransaction, Writes
<1>4. live' = {u \in Threads : step'[u] \in InTransaction}
  BY <1>2, <1>3 DEF NoLeftovers
<1>5. StepFits'
  BY <1>1, <1>2 DEF StepFits, Request
<1> QED BY <1>4, <1>5

\* What is closed leaves the tables equal, or was not a transaction.
LEMMA CloseFits ==
    ASSUME HandlerInv, NEW w \in Threads,
           NEW committed \in {table, working}, Close(w, committed),
           w \notin live => committed = table
    PROVE  /\ WorkingKeeps'
           /\ live' = live \ {w} /\ (live' = {} => working' = table')
<1>1. CASE w \in live
  BY <1>1, KeptItself DEF Close, WorkingKeeps
<1>2. CASE w \notin live
  BY <1>2 DEF Close, HandlerInv, WorkingKeeps, NoLeftovers
<1> QED BY <1>1, <1>2

LEMMA ReturnFits ==
    ASSUME HandlerInv, NEW w \in Threads, NEW reply, Respond(w, reply),
           NEW committed \in {table, working}, Close(w, committed),
           w \notin live => committed = table
    PROVE  Fits'
<1>1. /\ WorkingKeeps'
      /\ live' = live \ {w} /\ (live' = {} => working' = table')
  BY CloseFits
<1> QED BY <1>1, RespondFits DEF Fits, NoLeftovers

\* What a handler writes over a row keeps it.
LEMMA WriteFits ==
    ASSUME HandlerInv, NEW w \in Threads, MarkClaimed(w) \/ Insert(w)
    PROVE  Fits'
<1> USE DEF HandlerInv, HandlerGoesOn, callerVars
<1>1. step[w] \in InTransaction /\ step'[w] \in InTransaction
      /\ \A u \in Threads \ {w} : step'[u] = step[u]
  BY DEF MarkClaimed, Insert, GoTo, CentralTypeOK, InTransaction, Writes
<1>2. w \in live /\ UNCHANGED <<task, table, live>>
  BY <1>1 DEF MarkClaimed, Insert, Write, NoLeftovers
<1>3. task[w] \in Tasks /\ Request(w).id \in Ids
  BY <1>1 DEF StepFits, Tasks, Requests, Request, InTransaction, Writes
<1>4. Found(w) \in Rows \cup {NoRow} /\ (Found(w) # NoRow => Found(w).claimed \in BOOLEAN)
  BY <1>3 DEF Found, CentralTypeOK, Rows
<1>5. NoLeftovers'
  BY <1>1, <1>2 DEF NoLeftovers
<1>6. StepFits'
  BY <1>1, <1>2 DEF StepFits, Request, MarkClaimed, Insert, GoTo, CentralTypeOK
<1>7. PICK new : Write(w, new) /\ Kept(Found(w), new)
  <2>1. CASE MarkClaimed(w) /\ Found(w) = NoRow
    BY <2>1 DEF MarkClaimed, Kept
  <2>2. CASE MarkClaimed(w) /\ Found(w) # NoRow
    <3>1. [Found(w) EXCEPT !.claimed = TRUE] \in Rows
          /\ [Found(w) EXCEPT !.claimed = TRUE].claimed
      BY <1>4, <2>2 DEF Rows
    <3>2. [Found(w) EXCEPT !.claimed = TRUE] # NoRow
      BY <3>1, ServerAssumption DEF Rows
    <3>3. Write(w, [Found(w) EXCEPT !.claimed = TRUE])
      BY <2>2 DEF MarkClaimed
    <3> QED BY <3>1, <3>2, <3>3 DEF Kept
  <2>3. CASE Insert(w)
    <3> DEFINE new == [content |-> Request(w).content,
                       claimed |-> Found(w) # NoRow /\ Found(w).claimed]
    <3>1. Request(w).content \in Contents
      BY <1>3, <2>3 DEF StepFits, Request, Tasks, Requests, Insert
    <3>2. new \in Rows /\ (Found(w) # NoRow => new.claimed = Found(w).claimed)
      BY <1>4, <3>1 DEF Rows
    <3>3. new # NoRow
      BY <3>2, ServerAssumption DEF Rows
    <3>4. Write(w, new)
      BY <2>3 DEF Insert
    <3> HIDE DEF new
    <3> QED BY <3>2, <3>3, <3>4 DEF Kept
  <2> QED BY <2>1, <2>2, <2>3
<1>8. WorkingKeeps'
  <2>1. working' = [working EXCEPT ![Request(w).id] = new]
    BY <1>7 DEF Write
  <2>2. \A id \in Ids : Kept(table[id], working[id])
    BY DEF WorkingKeeps
  <2>3. Kept(table[Request(w).id], new)
    BY <1>3, <1>7, <2>2 DEF Kept, Found
  <2> QED BY <1>2, <1>3, <2>1, <2>2, <2>3 DEF WorkingKeeps, CentralTypeOK
<1> QED BY <1>5, <1>6, <1>8 DEF Fits

\* A thread that takes a request from the queue starts where its handler starts.
LEMMA AcceptFits ==
    ASSUME HandlerInv, NEW w \in Threads, Accept(w)
    PROVE  Fits'
<1> USE DEF HandlerInv, databaseVars, Accept
<1>1. Head(jobs) \in Tasks
  BY DEF CentralTypeOK
<1>2. step'[w] = FirstStep(Head(jobs).request.kind) /\ task'[w] = Head(jobs)
  BY DEF CentralTypeOK
<1>3. \A u \in Threads \ {w} : step'[u] = step[u] /\ task'[u] = task[u]
  BY DEF CentralTypeOK
<1>4. step'[w] \in {"begin", "signal"}
  BY <1>2 DEF FirstStep
<1>5. NoLeftovers' /\ WorkingKeeps'
  BY <1>3, <1>4 DEF NoLeftovers, WorkingKeeps, InTransaction, Writes
<1>6. StepFits'
  <2>1. Head(jobs).request.kind
           \in {"lookup", "getfile", "register", "post_signal", "get_signal"}
    BY <1>1 DEF Tasks, Requests
  <2> QED BY <1>1, <1>2, <1>3, <2>1 DEF StepFits, Request, FirstStep
<1> QED BY <1>5, <1>6 DEF Fits

\* A handler enters a transaction, or leaves the one it only read in, and goes on.
LEMMA GoOnFits ==
    ASSUME HandlerInv, NEW w \in Threads,
           BeginTransaction(w) \/ ReadRow(w) \/ CommitRead(w)
    PROVE  Fits'
<1> USE DEF HandlerInv, HandlerGoesOn, callerVars, databaseVars
<1>1. task' = task /\ (\A u \in Threads \ {w} : step'[u] = step[u])
  BY DEF BeginTransaction, ReadRow, CommitRead, GoTo, CentralTypeOK
<1>2. CASE BeginTransaction(w)
  <2>1. \/ step'[w] = "update" /\ step[w] = "begin_claim"
        \/ step'[w] = "insert" /\ step[w] = "begin" /\ Request(w).kind = "register"
        \/ step'[w] = "query" /\ step[w] = "begin" /\ Request(w).kind # "register"
    BY <1>2 DEF BeginTransaction, GoTo, CentralTypeOK, Constructors
  <2>2. NoLeftovers' /\ WorkingKeeps'
    BY <1>1, <1>2, <2>1 DEF BeginTransaction, NoLeftovers, WorkingKeeps, InTransaction
  <2>3. StepFits'
    BY <1>1, <2>1 DEF StepFits, Request
  <2> QED BY <2>2, <2>3 DEF Fits
<1>3. CASE ReadRow(w)
  <2>1. step[w] = "query" /\ step'[w] = "commit_read" /\ Request(w).kind = "getfile"
    BY <1>3 DEF ReadRow, GoTo, CentralTypeOK
  <2>2. NoLeftovers' /\ WorkingKeeps'
    BY <1>1, <1>3, <2>1 DEF ReadRow, NoLeftovers, WorkingKeeps, InTransaction
  <2>3. StepFits'
    BY <1>1, <2>1 DEF StepFits, Request
  <2> QED BY <2>2, <2>3 DEF Fits
<1>4. CASE CommitRead(w)
  <2>1. step[w] = "commit_read" /\ step'[w] = "begin_claim" /\ w \in live
    BY <1>4 DEF CommitRead, GoTo, CentralTypeOK, NoLeftovers, InTransaction
  <2>2. WorkingKeeps' /\ live' = live \ {w} /\ (live' = {} => working' = table')
    BY <1>4, <2>1, CloseFits DEF CommitRead
  <2>3. live' = {u \in Threads : step'[u] \in InTransaction}
    BY <1>1, <2>1, <2>2 DEF NoLeftovers, InTransaction, Writes
  <2>4. StepFits'
    BY <1>1, <2>1 DEF StepFits, Request
  <2> QED BY <2>2, <2>3, <2>4 DEF Fits, NoLeftovers
<1> QED BY <1>2, <1>3, <1>4

\* No step of the server brings a transaction and what its handler is at out of step.
LEMMA ServerFits ==
    ASSUME HandlerInv, ServerStep
    PROVE  Fits'
<1>1. ASSUME NEW w \in Threads, DatabaseThrows(w)
      PROVE  Fits'
  <2>1. PICK committed \in InDoubt(w) : Close(w, committed)
    BY <1>1 DEF DatabaseThrows
  <2>2. Respond(w, Caught(Request(w).kind, step[w]))
    BY <1>1 DEF DatabaseThrows
  <2>3. committed \in {table, working} /\ (w \notin live => committed = table)
    BY <2>1, InDoubtTables DEF InDoubt, HandlerInv, NoLeftovers, InTransaction
  <2> QED BY <2>1, <2>2, <2>3, ReturnFits
<1>2. ASSUME NEW w \in Threads, Lookup(w) \/ CommitClaim(w) \/ CommitInsert(w)
      PROVE  Fits'
  <2>1. w \in live
    BY <1>2 DEF Lookup, CommitClaim, CommitInsert, HandlerInv, NoLeftovers, InTransaction,
                Writes
  <2>2. PICK reply : Respond(w, reply)
    BY <1>2 DEF Lookup, CommitClaim, CommitInsert
  <2>3. PICK committed \in {table, working} : Close(w, committed)
    BY <1>2 DEF Lookup, CommitClaim, CommitInsert
  <2> QED BY <2>1, <2>2, <2>3, ReturnFits
<1>3. ASSUME NEW w \in Threads, PostSignal(w) \/ GetSignal(w)
      PROVE  Fits'
  <2>1. w \notin live
    BY <1>3 DEF PostSignal, GetSignal, HandlerInv, NoLeftovers, InTransaction, Writes
  <2>2. PICK reply : Respond(w, reply)
    BY <1>3 DEF PostSignal, GetSignal
  <2>3. UNCHANGED <<table, working, connection, live>>
    BY <1>3 DEF PostSignal, GetSignal, databaseVars
  <2>4. live' = {u \in Threads : step'[u] \in InTransaction} /\ StepFits'
    BY <2>1, <2>2, <2>3, RespondFits
  <2> QED BY <2>3, <2>4 DEF Fits, HandlerInv, NoLeftovers, WorkingKeeps
<1>4. ASSUME NEW committed, StartAgain(committed)
      PROVE  Fits'
  <2>1. live' = {} /\ table' = working' /\ (\A w \in Threads : step'[w] = "idle")
    BY <1>4 DEF StartAgain
  <2> QED BY <2>1, KeptItself
          DEF Fits, NoLeftovers, StepFits, WorkingKeeps, InTransaction, Writes
<1>5. ASSUME Disconnect
      PROVE  Fits'
  BY <1>5, KeptItself
  DEF Disconnect, HandlerInv, Fits, NoLeftovers, StepFits, WorkingKeeps, Request
<1> QED
  BY <1>1, <1>2, <1>3, <1>4, <1>5, AcceptFits, GoOnFits, WriteFits
  DEF ServerStep, Step, Restart, RunsOffTheEnd

-----------------------------------------------------------------------------
(* Calls and their tasks.                                                    *)

\* What Awaits says of t after a step.
AwaitsNext(t) ==
    t.caller # Nobody => call'[t.caller] = t.request /\ answer'[t.caller] = Waiting

\* A response frees the caller, and no other task waits for it.
LEMMA RespondCalls ==
    ASSUME HandlerInv, NEW w \in Threads, NEW reply, Respond(w, reply)
    PROVE  OneTaskPerCall'
<1> USE DEF HandlerInv
<1>1. task'[w] = NoTask /\ (\A u \in Threads \ {w} : task'[u] = task[u])
      /\ jobs' = jobs /\ call' = call
  BY DEF Respond, CentralTypeOK
<1>2. \A u \in Threads : Apart(task[u], task[w]) \/ u = w
  BY DEF OneTaskPerCall
<1>3. \A p \in Callers : p # task[w].caller => answer'[p] = answer[p]
  BY DEF Respond
<1>4. ASSUME NEW t \in Tasks \cup {NoTask}, Awaits(t), Apart(task[w], t)
      PROVE  AwaitsNext(t)
  BY <1>1, <1>3, <1>4 DEF AwaitsNext, Awaits, Apart, Tasks, NoTask
<1>5. \A u \in Threads : AwaitsNext(task'[u])
  <2>1. AwaitsNext(NoTask)
    BY DEF AwaitsNext, Awaits, NoTask
  <2>2. \A u \in Threads \ {w} : AwaitsNext(task[u])
    BY <1>4 DEF OneTaskPerCall, CentralTypeOK
  <2> QED BY <1>1, <2>1, <2>2
<1>6. \A i \in DOMAIN jobs : AwaitsNext(jobs[i])
  <2>1. \A i \in DOMAIN jobs : jobs[i] \in Tasks
    BY DEF CentralTypeOK
  <2> QED BY <1>4, <2>1 DEF OneTaskPerCall
<1>7. /\ \A u, v \in Threads : u # v => Apart(task'[u], task'[v])
      /\ \A u \in Threads, i \in DOMAIN jobs : Apart(task'[u], jobs[i])
  BY <1>1 DEF OneTaskPerCall, Apart, NoTask
<1> QED BY <1>1, <1>5, <1>6, <1>7 DEF OneTaskPerCall, Awaits, AwaitsNext

\* A thread takes the oldest request over from the queue.
LEMMA AcceptCalls ==
    ASSUME HandlerInv, NEW w \in Threads, Accept(w)
    PROVE  OneTaskPerCall'
<1> USE DEF HandlerInv, callerVars
<1>1. task'[w] = jobs[1] /\ (\A u \in Threads \ {w} : task'[u] = task[u])
      /\ call' = call /\ answer' = answer /\ 1 \in DOMAIN jobs
  BY DEF Accept, CentralTypeOK
<1>2. \A i \in DOMAIN jobs' : i + 1 \in DOMAIN jobs /\ i + 1 # 1 /\ jobs'[i] = jobs[i + 1]
  BY DEF Accept, CentralTypeOK
<1>3. \A i, j \in DOMAIN jobs' : i # j => i + 1 # j + 1
  BY DEF Accept, CentralTypeOK
<1>4. \A t : AwaitsNext(t) <=> Awaits(t)
  BY <1>1 DEF AwaitsNext, Awaits
<1>5. /\ \A u \in Threads : AwaitsNext(task'[u])
      /\ \A i \in DOMAIN jobs' : AwaitsNext(jobs'[i])
  BY <1>1, <1>2, <1>4 DEF OneTaskPerCall
<1>6. \A u, v \in Threads : u # v => Apart(task'[u], task'[v])
  BY <1>1 DEF OneTaskPerCall, Apart
<1>7. \A i, j \in DOMAIN jobs' : i # j => Apart(jobs'[i], jobs'[j])
  BY <1>2, <1>3 DEF OneTaskPerCall
<1>8. \A u \in Threads, i \in DOMAIN jobs' : Apart(task'[u], jobs'[i])
  BY <1>1, <1>2 DEF OneTaskPerCall
<1> QED BY <1>5, <1>6, <1>7, <1>8 DEF OneTaskPerCall, Awaits, AwaitsNext

\* A caller that is idle has no task, so its next call is the only one.
LEMMA CallerCalls ==
    ASSUME HandlerInv, CallerStep
    PROVE  OneTaskPerCall'
<1> USE DEF HandlerInv, databaseVars, serverVars
<1>1. \A i \in DOMAIN jobs : jobs[i] \in Tasks
  BY DEF CentralTypeOK
<1>2. \A p \in Callers : p # Nobody
  BY ServerAssumption
<1>3. ASSUME NEW p \in Callers, NEW request \in Requests,
             Call(p, request) \/ CallRefused(p, request)
      PROVE  OneTaskPerCall'
  <2>1. ASSUME NEW t \in Tasks \cup {NoTask}, Awaits(t)
        PROVE  t.caller # p /\ AwaitsNext(t)
    BY <1>2, <1>3, <2>1 DEF Call, CallRefused, AwaitsNext, Awaits, Idle, CentralTypeOK, Tasks, NoTask
  <2>2. \A u \in Threads : task[u].caller # p /\ AwaitsNext(task[u])
    BY <2>1 DEF OneTaskPerCall, CentralTypeOK
  <2>3. \A i \in DOMAIN jobs : jobs[i].caller # p /\ AwaitsNext(jobs[i])
    BY <1>1, <2>1 DEF OneTaskPerCall
  <2>4. task' = task
    BY <1>3 DEF Call, CallRefused
  <2>5. CASE Call(p, request)
    <3> DEFINE new == [caller |-> p, request |-> request]
    <3>1. AwaitsNext(new)
      BY <2>5 DEF Call, AwaitsNext, CentralTypeOK
    <3>2. /\ DOMAIN jobs' = 1..Len(jobs) + 1
          /\ DOMAIN jobs = 1..Len(jobs) /\ Len(jobs) \in Nat
          /\ \A i \in 1..Len(jobs) : jobs'[i] = jobs[i]
          /\ jobs'[Len(jobs) + 1] = new
      BY <2>5 DEF Call, CentralTypeOK
    <3>3. \A i \in DOMAIN jobs' :
              \/ i \in DOMAIN jobs /\ jobs'[i] = jobs[i]
              \/ jobs'[i] = new
      BY <3>2
    <3>4. \A i, j \in DOMAIN jobs' : i # j => i \in DOMAIN jobs \/ j \in DOMAIN jobs
      BY <3>2
    <3>5. new.caller = p
      OBVIOUS
    <3> HIDE DEF new
    <3>6. \A i \in DOMAIN jobs' : AwaitsNext(jobs'[i])
      BY <2>3, <3>1, <3>3
    <3>7. \A i, j \in DOMAIN jobs' : i # j => Apart(jobs'[i], jobs'[j])
      BY <2>3, <3>2, <3>4, <3>5 DEF OneTaskPerCall, Apart
    <3>8. \A u \in Threads, i \in DOMAIN jobs' : Apart(task[u], jobs'[i])
      BY <2>2, <3>3, <3>5 DEF OneTaskPerCall, Apart
    <3> QED BY <2>2, <2>4, <3>6, <3>7, <3>8 DEF OneTaskPerCall, Awaits, AwaitsNext
  <2>6. CASE CallRefused(p, request)
    BY <2>2, <2>3, <2>4, <2>6 DEF OneTaskPerCall, CallRefused, Awaits, AwaitsNext
  <2> QED BY <1>3, <2>5, <2>6
<1>4. ASSUME NEW p \in Callers, GiveUp(p)
      PROVE  OneTaskPerCall'
  <2>1. DOMAIN jobs' = DOMAIN jobs /\ (\A i \in DOMAIN jobs : jobs'[i] = Orphan(jobs[i], p))
        /\ (\A u \in Threads : task'[u] = Orphan(task[u], p))
        /\ call' = call /\ (\A q \in Callers \ {p} : answer'[q] = answer[q])
    BY <1>4 DEF GiveUp, CentralTypeOK
  <2>2. ASSUME NEW t \in Tasks \cup {NoTask}, Awaits(t)
        PROVE  AwaitsNext(Orphan(t, p))
    BY <2>1, <2>2 DEF AwaitsNext, Awaits, Orphan, Tasks, NoTask
  <2>3. ASSUME NEW t \in Tasks \cup {NoTask}, NEW u \in Tasks \cup {NoTask}, Apart(t, u)
        PROVE  Apart(Orphan(t, p), Orphan(u, p))
    BY <2>3 DEF Apart, Orphan, Tasks, NoTask
  <2>4. \A u \in Threads : task[u] \in Tasks \cup {NoTask}
    BY DEF CentralTypeOK
  <2>5. /\ \A u \in Threads : AwaitsNext(Orphan(task[u], p))
        /\ \A i \in DOMAIN jobs : AwaitsNext(Orphan(jobs[i], p))
    BY <1>1, <2>2, <2>4 DEF OneTaskPerCall
  <2>6. /\ \A u, v \in Threads : u # v => Apart(Orphan(task[u], p), Orphan(task[v], p))
        /\ \A i, j \in DOMAIN jobs : i # j => Apart(Orphan(jobs[i], p), Orphan(jobs[j], p))
        /\ \A u \in Threads, i \in DOMAIN jobs :
               Apart(Orphan(task[u], p), Orphan(jobs[i], p))
    BY <1>1, <2>3, <2>4 DEF OneTaskPerCall
  <2> QED BY <2>1, <2>5, <2>6 DEF OneTaskPerCall, Awaits, AwaitsNext
<1> QED BY <1>3, <1>4 DEF CallerStep

\* Every step of the server keeps tasks and calls together.
LEMMA ServerCalls ==
    ASSUME HandlerInv, ServerStep
    PROVE  OneTaskPerCall'
<1>1. ASSUME NEW w \in Threads, Accept(w)
      PROVE  OneTaskPerCall'
  BY <1>1, AcceptCalls
<1>2. ASSUME NEW w \in Threads,
             DatabaseThrows(w) \/ Lookup(w) \/ CommitClaim(w) \/ CommitInsert(w)
               \/ PostSignal(w) \/ GetSignal(w)
      PROVE  OneTaskPerCall'
  <2>1. \E reply : Respond(w, reply)
    BY <1>2 DEF DatabaseThrows, Lookup, CommitClaim, CommitInsert, PostSignal, GetSignal
  <2> QED BY <2>1, RespondCalls
<1>3. ASSUME UNCHANGED <<jobs, task, callerVars>>
      PROVE  OneTaskPerCall'
  BY <1>3 DEF HandlerInv, OneTaskPerCall, Awaits, callerVars
<1>4. ASSUME NEW w \in Threads, BeginTransaction(w) \/ ReadRow(w) \/ CommitRead(w)
                                  \/ MarkClaimed(w) \/ Insert(w)
      PROVE  OneTaskPerCall'
  BY <1>3, <1>4 DEF BeginTransaction, ReadRow, CommitRead, MarkClaimed, Insert, Write,
                    HandlerGoesOn
<1>5. ASSUME NEW committed, StartAgain(committed)
      PROVE  OneTaskPerCall'
  BY <1>5 DEF StartAgain, OneTaskPerCall, Awaits, Apart, NoTask
<1>6. ASSUME Disconnect
      PROVE  OneTaskPerCall'
  BY <1>3, <1>6 DEF Disconnect
<1> QED BY <1>1, <1>2, <1>4, <1>5, <1>6 DEF ServerStep, Step, Restart, RunsOffTheEnd

-----------------------------------------------------------------------------
(* No call is forgotten.                                                     *)

\* What Held says of p after a step.
HeldNext(p) ==
    \/ \E i \in DOMAIN jobs' : jobs'[i].caller = p
    \/ \E w \in Threads : step'[w] # "idle" /\ task'[w].caller = p

\* The status tells a response that is awaited from the others.
LEMMA WaitingIsNoReply ==
    /\ NoResponse # Waiting
    /\ \A body : Reply(200, body) # Waiting /\ Reply(201, body) # Waiting
        /\ Reply(404, body) # Waiting /\ Reply(500, body) # Waiting
<1>1. \A s, b : Reply(s, b).status = s
  BY DEF Reply
<1>2. NoResponse.status = 0 /\ Waiting.status = 1
  BY <1>1 DEF NoResponse, Waiting
<1> QED BY <1>1, <1>2

\* The thread that takes a call over from the queue is not at work on another.
LEMMA AcceptHolds ==
    ASSUME HandlerInv, NEW w \in Threads, Accept(w), NEW p, Held(p)
    PROVE  HeldNext(p)
<1> USE DEF HandlerInv, CentralTypeOK
<1>1. /\ task'[w] = jobs[1] /\ step'[w] # "idle" /\ step[w] = "idle"
      /\ \A u \in Threads \ {w} : task'[u] = task[u] /\ step'[u] = step[u]
  BY DEF Accept, FirstStep
<1>2. \A i \in DOMAIN jobs : i = 1 \/ (i - 1 \in DOMAIN jobs' /\ jobs'[i - 1] = jobs[i])
  BY DEF Accept
<1>3. CASE \E i \in DOMAIN jobs : jobs[i].caller = p
  BY <1>1, <1>2, <1>3 DEF HeldNext
<1>4. CASE \E u \in Threads : step[u] # "idle" /\ task[u].caller = p
  BY <1>1, <1>4 DEF HeldNext
<1> QED BY <1>3, <1>4 DEF Held

\* A caller is held from its call on, and its other calls stay where they are.
LEMMA CallerHolds ==
    ASSUME HandlerInv, NoCallForgotten, CallerStep
    PROVE  NoCallForgotten'
<1> USE DEF HandlerInv, CentralTypeOK, databaseVars, serverVars
<1>1. ASSUME NEW p \in Callers, NEW request \in Requests, Call(p, request)
      PROVE  NoCallForgotten'
  <2>1. /\ \A i \in DOMAIN jobs : i \in DOMAIN jobs' /\ jobs'[i] = jobs[i]
        /\ Len(jobs) + 1 \in DOMAIN jobs' /\ jobs'[Len(jobs) + 1].caller = p
    BY <1>1 DEF Call
  <2>2. /\ step' = step /\ task' = task
        /\ \A q \in Callers \ {p} : answer'[q] = answer[q]
    BY <1>1 DEF Call
  <2>3. \A q \in Callers : q = p \/ Held(q) => HeldNext(q)
    BY <2>1, <2>2 DEF Held, HeldNext
  <2> QED BY <2>2, <2>3 DEF NoCallForgotten, Idle, Held, HeldNext
<1>2. ASSUME NEW p \in Callers, NEW request \in Requests, CallRefused(p, request)
      PROVE  NoCallForgotten'
  <2>1. NoResponse # Waiting
    BY WaitingIsNoReply
  <2> QED BY <1>2, <2>1 DEF CallRefused, NoCallForgotten, Idle, Held
<1>3. ASSUME NEW p \in Callers, GiveUp(p)
      PROVE  NoCallForgotten'
  <2>1. NoResponse # Waiting
    BY WaitingIsNoReply
  <2>2. /\ DOMAIN jobs' = DOMAIN jobs /\ step' = step
        /\ \A i \in DOMAIN jobs : jobs'[i] = Orphan(jobs[i], p)
        /\ \A u \in Threads : task'[u] = Orphan(task[u], p)
        /\ answer'[p] = NoResponse /\ \A q \in Callers \ {p} : answer'[q] = answer[q]
    BY <1>3 DEF GiveUp
  <2>3. \A t, q : t.caller = q /\ q # p => Orphan(t, p).caller = q
    BY DEF Orphan
  <2>4. \A q \in Callers : q # p /\ Held(q) => HeldNext(q)
    BY <2>2, <2>3 DEF Held, HeldNext
  <2> QED BY <2>1, <2>2, <2>4 DEF NoCallForgotten, Idle, Held, HeldNext
<1> QED BY <1>1, <1>2, <1>3 DEF CallerStep

\* A handler that returns answers the caller that it was at work for.
LEMMA RespondHolds ==
    ASSUME HandlerInv, NoCallForgotten, NEW w \in Threads,
           NEW reply \in Answers \ {Waiting}, Respond(w, reply)
    PROVE  NoCallForgotten'
<1> USE DEF HandlerInv, CentralTypeOK
<1>1. /\ jobs' = jobs
      /\ \A u \in Threads \ {w} : task'[u] = task[u] /\ step'[u] = step[u]
      /\ \A p \in Callers : answer'[p] = IF task[w].caller = p THEN reply ELSE answer[p]
  BY DEF Respond, GoTo
<1>2. ASSUME NEW p \in Callers, answer'[p] = Waiting
      PROVE  HeldNext(p)
  <2>1. task[w].caller # p /\ Held(p)
    BY <1>1, <1>2 DEF NoCallForgotten, Idle
  <2> QED BY <1>1, <2>1 DEF Held, HeldNext
<1> QED BY <1>2 DEF NoCallForgotten, Idle, Held, HeldNext

\* What the handlers answer is never taken for no answer.
LEMMA RepliesAreAnswers ==
    ASSUME NEW w \in Threads, HandlerInv,
           DatabaseThrows(w) \/ Lookup(w) \/ CommitClaim(w) \/ CommitInsert(w)
             \/ PostSignal(w) \/ GetSignal(w)
    PROVE  \E reply \in Answers \ {Waiting} : Respond(w, reply)
<1>1. \A body : Reply(200, body) # Waiting /\ Reply(201, body) # Waiting
        /\ Reply(404, body) # Waiting /\ Reply(500, body) # Waiting
  BY WaitingIsNoReply
<1>2. Empty # Waiting /\ Empty \in Answers
  BY <1>1, ReplyType DEF Empty
<1>3. CASE DatabaseThrows(w)
  BY <1>1, <1>2, <1>3, ReplyType DEF DatabaseThrows, Caught
<1>4. CASE Lookup(w)
  BY <1>1, <1>4, ReplyType DEF Lookup
<1>5. CASE CommitClaim(w)
  <2>1. row[w] = NoRow \/ row[w].content \in Contents
    BY DEF HandlerInv, CentralTypeOK, Rows
  <2> QED BY <1>1, <1>2, <1>5, <2>1, ReplyType DEF CommitClaim
<1>6. CASE CommitInsert(w)
  BY <1>1, <1>6, ReplyType DEF CommitInsert
<1>7. CASE PostSignal(w)
  BY <1>2, <1>7 DEF PostSignal
<1>8. CASE GetSignal(w)
  <2>1. signal_store[Request(w).id] = NoSignal \/ signal_store[Request(w).id] \in Contents
    BY <1>8 DEF HandlerInv, CentralTypeOK, GetSignal, Request, Requests, Tasks, StepFits
  <2> QED BY <1>1, <1>8, <2>1, ReplyType DEF GetSignal
<1> QED BY <1>3, <1>4, <1>5, <1>6, <1>7, <1>8

\* The server answers a call before it lets go of it.
LEMMA ServerHolds ==
    ASSUME HandlerInv, NoCallForgotten, ServerStep
    PROVE  NoCallForgotten'
<1> USE DEF callerVars
<1>1. ASSUME NEW w \in Threads, Accept(w)
      PROVE  NoCallForgotten'
  <2>1. answer' = answer
    BY <1>1 DEF Accept
  <2> QED BY <1>1, <2>1, AcceptHolds DEF NoCallForgotten, Idle, Held, HeldNext
<1>2. ASSUME NEW w \in Threads,
             DatabaseThrows(w) \/ Lookup(w) \/ CommitClaim(w) \/ CommitInsert(w)
               \/ PostSignal(w) \/ GetSignal(w)
      PROVE  NoCallForgotten'
  BY <1>2, RepliesAreAnswers, RespondHolds
<1>3. ASSUME NEW w \in Threads, BeginTransaction(w) \/ ReadRow(w) \/ CommitRead(w)
                                  \/ MarkClaimed(w) \/ Insert(w)
      PROVE  NoCallForgotten'
  <2>1. UNCHANGED <<jobs, task, answer>>
    BY <1>3 DEF BeginTransaction, ReadRow, CommitRead, MarkClaimed, Insert, Write, HandlerGoesOn
  <2>2. \A u \in Threads : step[u] # "idle" => step'[u] # "idle"
    BY <1>3 DEF HandlerInv, CentralTypeOK, GoTo, BeginTransaction, ReadRow, CommitRead,
                MarkClaimed, Insert
  <2> QED BY <2>1, <2>2 DEF NoCallForgotten, Idle, Held
<1>4. ASSUME NEW committed, StartAgain(committed)
      PROVE  NoCallForgotten'
  <2>1. NoResponse # Waiting
    BY WaitingIsNoReply
  <2> QED BY <1>4, <2>1 DEF StartAgain, NoCallForgotten, Idle
<1>5. ASSUME Disconnect
      PROVE  NoCallForgotten'
  BY <1>5 DEF Disconnect, NoCallForgotten, Idle, Held
<1> QED BY <1>1, <1>2, <1>3, <1>4, <1>5 DEF ServerStep, Step, Restart, RunsOffTheEnd

-----------------------------------------------------------------------------
(* Rows.                                                                    *)

RowsKept == \A id \in Ids : Kept(table[id], table'[id])

\* Whatever a step does, it leaves one of the two tables.
LEMMA OneOfTwoTables ==
    ASSUME HandlerInv, CentralNext \/ UNCHANGED centralVars
    PROVE  table' \in {table, working}
<1>1. ASSUME NEW w \in Threads, NEW committed \in {table, working}, Close(w, committed)
      PROVE  table' \in {table, working}
  BY <1>1 DEF Close
<1>2. ASSUME NEW w \in Threads, Step(w)
      PROVE  table' \in {table, working}
  <2>1. CASE DatabaseThrows(w)
    BY <1>1, <2>1, InDoubtTables DEF DatabaseThrows
  <2>2. CASE Lookup(w) \/ CommitRead(w) \/ CommitClaim(w) \/ CommitInsert(w)
    BY <1>1, <2>2 DEF Lookup, CommitRead, CommitClaim, CommitInsert
  <2> QED BY <1>2, <2>1, <2>2
          DEF Step, Accept, BeginTransaction, ReadRow, MarkClaimed, Insert, Write,
              PostSignal, GetSignal, databaseVars
<1>3. ASSUME Restart \/ \E w \in Threads : RunsOffTheEnd(w)
      PROVE  table' \in {table, working}
  BY <1>3, InDoubtTables DEF Restart, RunsOffTheEnd, StartAgain
<1>4. ASSUME CallerStep
      PROVE  table' = table
  BY <1>4 DEF CallerStep, Call, CallRefused, GiveUp, serverVars, databaseVars
<1> QED BY <1>2, <1>3, <1>4
        DEF CentralNext, ServerStep, Disconnect, centralVars, serverVars, databaseVars

\* And both have the rows that were stored.
LEMMA RowsAreKept ==
    ASSUME HandlerInv, CentralNext \/ UNCHANGED centralVars
    PROVE  RowsKept
<1>1. \A id \in Ids : Kept(table[id], table[id]) /\ Kept(table[id], working[id])
  BY KeptItself DEF HandlerInv, WorkingKeeps
<1> QED BY <1>1, OneOfTwoTables DEF RowsKept

-----------------------------------------------------------------------------
(* The theorems, whether or not threads race.                                *)

\* Before the first request, nothing is stored, and nobody waits.
LEMMA InitHandlers == CentralInit => HandlerInv
<1> SUFFICES ASSUME CentralInit PROVE HandlerInv
  OBVIOUS
<1> USE DEF CentralInit
<1>1. CentralTypeOK
  <2>1. "idle" \in Steps /\ << >> \in Seq(Tasks)
    BY DEF Steps
  <2> QED BY <2>1, ReplyType DEF CentralTypeOK
<1>2. NoLeftovers /\ StepFits /\ WorkingKeeps
  BY KeptItself DEF NoLeftovers, StepFits, WorkingKeeps, InTransaction, Writes
<1>3. OneTaskPerCall
  BY DEF OneTaskPerCall, Awaits, Apart, NoTask
<1> QED BY <1>1, <1>2, <1>3 DEF HandlerInv

\* Every step keeps the handlers' invariant.
LEMMA NextHandlers ==
    ASSUME HandlerInv, CentralNext \/ UNCHANGED centralVars
    PROVE  HandlerInv'
<1>1. CASE CallerStep
  BY <1>1, CallerTypes, CallerFits, CallerCalls DEF HandlerInv, Fits
<1>2. CASE ServerStep
  BY <1>2, ServerTypes, ServerFits, ServerCalls DEF HandlerInv, Fits
<1>3. CASE UNCHANGED centralVars
  <2> USE <1>3 DEF HandlerInv, centralVars, serverVars, databaseVars, callerVars
  <2>1. CentralTypeOK' /\ NoLeftovers' /\ WorkingKeeps'
    BY DEF CentralTypeOK, NoLeftovers, WorkingKeeps
  <2>2. StepFits' /\ OneTaskPerCall'
    BY DEF StepFits, Request, OneTaskPerCall, Awaits
  <2> QED BY <2>1, <2>2
<1> QED BY <1>1, <1>2, <1>3 DEF CentralNext

\* The handlers' invariant holds in every state of the server.
THEOREM HandlersAlways == CentralSpec => []HandlerInv
<1>1. HandlerInv /\ [CentralNext]_centralVars => HandlerInv'
  BY NextHandlers
<1> QED BY <1>1, InitHandlers, PTL DEF CentralSpec

\* main.cpp, database.hpp: every handler's requests, rows and answers are of the kinds
\* that its code can have there.
THEOREM CentralTypes == CentralSpec => []CentralTypeOK
<1>1. HandlerInv => CentralTypeOK
  BY DEF HandlerInv
<1> QED BY <1>1, HandlersAlways, PTL

\* No handler leaves a transaction registered, or leaves writes behind, whatever
\* throws and wherever, and whoever else is inside the connection.
THEOREM NoLeftoversEver == CentralSpec => []NoLeftovers
<1>1. HandlerInv => NoLeftovers
  BY DEF HandlerInv
<1> QED BY <1>1, HandlersAlways, PTL

\* A caller that waits has its call in the queue or with a handler, which it answers:
\* no throw, restart or abandoned call lets it wait for nobody.
THEOREM CallsAreHeld == CentralSpec => []NoCallForgotten
<1>1. CentralInit => NoCallForgotten
  BY WaitingIsNoReply DEF CentralInit, NoCallForgotten, Idle
<1>2. HandlerInv /\ NoCallForgotten /\ [CentralNext]_centralVars => NoCallForgotten'
  <2>1. CASE UNCHANGED centralVars
    BY <2>1 DEF centralVars, serverVars, callerVars, NoCallForgotten, Idle, Held
  <2> QED BY <2>1, CallerHolds, ServerHolds DEF CentralNext
<1> QED BY <1>1, <1>2, HandlersAlways, PTL DEF CentralSpec

\* No step loses a committed row, or the claimed flag of one: an overlap of handlers
\* can only lose what was not committed.
THEOREM RowsAlwaysStay == CentralSpec => RowsStay
<1>1. HandlerInv /\ [CentralNext]_centralVars => [RowsKept]_centralVars
  BY RowsAreKept
<1> QED BY <1>1, HandlersAlways, PTL DEF CentralSpec, RowsStay, RowsKept

-----------------------------------------------------------------------------
(* Handlers and their one transaction, if they do not race.                  *)

\* Two threads are never inside pqxx::connection at once.
NoRace == ~Racing

\* The parts of CentralInv that speak of what the threads are at.
Handlers == OneTransaction /\ WorkingFits /\ ReadStays

\* A caller's step leaves the handlers where they are.
LEMMA CallerHandlers ==
    ASSUME CentralInv, CallerStep
    PROVE  Handlers'
<1> USE DEF CentralInv, HandlerInv, databaseVars, serverVars
<1>1. ASSUME NEW p \in Callers, NEW request \in Requests,
             Call(p, request) \/ CallRefused(p, request)
      PROVE  Handlers'
  BY <1>1 DEF Call, CallRefused, Handlers, OneTransaction, WorkingFits, ReadStays,
              Request, Found, Stored
<1>2. ASSUME NEW p \in Callers, GiveUp(p)
      PROVE  Handlers'
  <2>1. \A w \in Threads : Request(w)' = Request(w)
    BY <1>2 DEF GiveUp, Request, Orphan, CentralTypeOK, Tasks, NoTask
  <2> QED BY <1>2, <2>1 DEF GiveUp, Handlers, OneTransaction, WorkingFits, ReadStays,
              Found, Stored
<1> QED BY <1>1, <1>2 DEF CallerStep

\* A handler that returns, with both tables at the same rows, leaves the others where
\* they were: none of them is in a transaction.
LEMMA ReturnHandlers ==
    ASSUME CentralInv, NEW w \in Threads, NEW reply, Respond(w, reply),
           NEW committed \in {table, working}, Close(w, committed), live \subseteq {w}
    PROVE  Handlers'
<1> USE DEF CentralInv, HandlerInv
<1>1. step' = [step EXCEPT ![w] = "idle"] /\ step'[w] = "idle"
  BY DEF Respond, GoTo, CentralTypeOK
<1>2. live' = {}
  BY DEF Close
<1>3. \A u \in Threads : step'[u] \notin InTransaction
  BY <1>1, <1>2 DEF NoLeftovers, InTransaction, Writes, CentralTypeOK
<1>4. table' = committed /\ working' = committed
  BY DEF Close, NoLeftovers
<1>5. \A u \in Threads \ {w} : step'[u] = step[u] /\ task'[u] = task[u] /\ row'[u] = row[u]
  BY <1>1 DEF Respond, CentralTypeOK
<1>6. OneTransaction'
  BY <1>2 DEF OneTransaction
<1>7. WorkingFits'
  BY <1>3, <1>4 DEF WorkingFits, InTransaction, Writes
<1>8. ReadStays'
  <2>1. \A id \in Ids : Stored(id) => Stored(id)'
    BY <1>4 DEF WorkingKeeps, Kept, Stored
  <2>2. \A u \in Threads : step[u] \in {"commit_read", "begin_claim", "update", "commit_claim"}
                             => Request(u).id \in Ids
    BY DEF StepFits, Tasks, Requests, Request
  <2> QED BY <1>1, <1>5, <2>1, <2>2 DEF ReadStays, Request
<1> QED BY <1>6, <1>7, <1>8 DEF Handlers

\* A handler that returns without a transaction leaves that of another as it is.
LEMMA LeaveHandlers ==
    ASSUME CentralInv, NEW w \in Threads, NEW reply, Respond(w, reply), w \notin live,
           UNCHANGED databaseVars
    PROVE  Handlers'
<1> USE DEF CentralInv, HandlerInv, databaseVars
<1>1. step' = [step EXCEPT ![w] = "idle"] /\ step'[w] = "idle"
  BY DEF Respond, GoTo, CentralTypeOK
<1>2. \A u \in Threads \ {w} : step'[u] = step[u] /\ task'[u] = task[u] /\ row'[u] = row[u]
  BY <1>1 DEF Respond, CentralTypeOK
<1>3. step[w] \notin InTransaction /\ step'[w] \notin InTransaction
  BY <1>1 DEF NoLeftovers, InTransaction, Writes
<1>4. OneTransaction'
  BY DEF OneTransaction
<1>5. ReadStays'
  BY <1>1, <1>2 DEF ReadStays, Request, Stored
<1>6. WorkingFits'
  BY <1>1, <1>2, <1>3 DEF WorkingFits, Found, Request, InTransaction, Writes
<1> QED BY <1>4, <1>5, <1>6 DEF Handlers

\* A thread that takes a request from the queue is in no transaction.
LEMMA AcceptHandlers ==
    ASSUME CentralInv, NEW w \in Threads, Accept(w)
    PROVE  Handlers'
<1> USE DEF CentralInv, HandlerInv, databaseVars, Accept
<1>1. \A u \in Threads \ {w} : step'[u] = step[u] /\ task'[u] = task[u] /\ row'[u] = row[u]
  BY DEF CentralTypeOK
<1>2. step'[w] \in {"begin", "signal"}
  BY DEF CentralTypeOK, FirstStep
<1>3. OneTransaction'
  BY DEF OneTransaction
<1>4. ReadStays' /\ WorkingFits'
  BY <1>1, <1>2 DEF ReadStays, WorkingFits, Request, Stored, Found, InTransaction, Writes
<1> QED BY <1>3, <1>4 DEF Handlers

\* Two transactions are never open: the constructor of the second one throws.
LEMMA BeginHandlers ==
    ASSUME NoRace, CentralInv, NEW w \in Threads, BeginTransaction(w)
    PROVE  Handlers'
<1> USE DEF CentralInv, HandlerInv, BeginTransaction, HandlerGoesOn, callerVars
<1>1. live = {} /\ live' = {w} /\ working = table
  BY DEF NoRace, NoLeftovers
<1>2. \A u \in Threads : step[u] \notin InTransaction
  BY <1>1 DEF NoLeftovers
<1>3. \A u \in Threads \ {w} : step'[u] = step[u]
  BY DEF GoTo, CentralTypeOK
<1>4. step'[w] = IF step[w] = "begin_claim" THEN "update"
                 ELSE IF Request(w).kind = "register" THEN "insert" ELSE "query"
  BY DEF GoTo, CentralTypeOK
<1>5. \/ step'[w] = "update" /\ step[w] = "begin_claim"
      \/ step'[w] = "insert" /\ step[w] = "begin" /\ Request(w).kind = "register"
      \/ step'[w] = "query" /\ step[w] = "begin" /\ Request(w).kind # "register"
  BY <1>4 DEF Constructors
<1>6. OneTransaction'
  BY <1>1 DEF OneTransaction
<1>7. ReadStays'
  BY <1>3, <1>5 DEF ReadStays, Request, Stored
<1>8. WorkingFits'
  BY <1>1, <1>2, <1>3, <1>5 DEF WorkingFits, InTransaction, Writes, Found
<1> QED BY <1>6, <1>7, <1>8 DEF Handlers

\* The transaction of w is the only one.
LEMMA OnlyLive ==
    ASSUME CentralInv, NEW w \in Threads, step[w] \in InTransaction
    PROVE  live = {w} /\ (\A u \in Threads \ {w} : step[u] \notin InTransaction)
BY DEF CentralInv, HandlerInv, NoLeftovers, OneTransaction

\* A handler that goes on within its transaction disturbs no other.
LEMMA GoOnHandlers ==
    ASSUME CentralInv, NEW w \in Threads,
           ReadRow(w) \/ MarkClaimed(w) \/ Insert(w)
    PROVE  Handlers'
<1> USE DEF CentralInv, HandlerInv, HandlerGoesOn, callerVars
<1>1. step[w] \in InTransaction \ Writes /\ step'[w] \in InTransaction
  BY DEF ReadRow, MarkClaimed, Insert, GoTo, CentralTypeOK, InTransaction, Writes
<1>2. live = {w} /\ live' = live /\ working = table
      /\ (\A u \in Threads \ {w} : step[u] \notin InTransaction)
  BY <1>1, OnlyLive DEF ReadRow, MarkClaimed, Insert, Write, WorkingFits, databaseVars
<1>3. \A u \in Threads \ {w} : step'[u] = step[u] /\ task'[u] = task[u] /\ row'[u] = row[u]
  BY DEF ReadRow, MarkClaimed, Insert, Write, GoTo, CentralTypeOK
<1>4. task' = task /\ table' = table /\ connection' = connection
  BY DEF ReadRow, MarkClaimed, Insert, Write, databaseVars
<1>5. OneTransaction'
  BY <1>2 DEF OneTransaction
<1>6. task[w] \in Tasks /\ Request(w).id \in Ids
  BY <1>1 DEF StepFits, Tasks, Requests, Request, InTransaction, Writes
<1>7. Found(w) \in Rows \cup {NoRow} /\ (Found(w) # NoRow => Found(w).claimed \in BOOLEAN)
  BY <1>6 DEF Found, CentralTypeOK, Rows
<1>8. CASE ReadRow(w)
  <2>1. step[w] = "query" /\ step'[w] = "commit_read" /\ row'[w] = Found(w)
    BY <1>8 DEF ReadRow, GoTo, CentralTypeOK
  <2>2. ReadStays'
    BY <1>2, <1>3, <1>4, <1>8, <2>1 DEF ReadStays, ReadRow, Request, Stored, Found
  <2>3. WorkingFits'
    BY <1>2, <1>3, <1>4, <1>8, <2>1
    DEF WorkingFits, ReadRow, InTransaction, Writes, databaseVars, Found, Request
  <2> QED BY <1>5, <2>2, <2>3 DEF Handlers
<1>9. ASSUME NEW newRow, Write(w, newRow),
             \/ /\ step[w] = "update" /\ step'[w] = "commit_claim"
                /\ Found(w) # NoRow => newRow # NoRow /\ newRow.claimed
             \/ /\ step[w] = "insert" /\ step'[w] = "commit_insert" /\ newRow # NoRow
      PROVE  Handlers'
  <2>1. working' = [working EXCEPT ![Request(w).id] = newRow]
        /\ working'[Request(w).id] = newRow /\ row' = row
    BY <1>6, <1>9 DEF Write, CentralTypeOK
  <2>2. ReadStays'
    BY <1>3, <1>4, <1>9, <2>1 DEF ReadStays, Request, Stored
  <2>3. row[w] # NoRow /\ step[w] = "update" => Found(w) # NoRow
    BY <1>2 DEF ReadStays, Stored, Found
  <2>4. WorkingFits'
    BY <1>2, <1>3, <1>4, <1>9, <2>1, <2>3
    DEF WorkingFits, InTransaction, Writes, Found, Request
  <2> QED BY <1>5, <2>2, <2>4 DEF Handlers
<1>10. CASE MarkClaimed(w)
  <2>1. step[w] = "update" /\ step'[w] = "commit_claim"
    BY <1>10 DEF MarkClaimed, GoTo, CentralTypeOK
  <2>2. CASE Found(w) = NoRow
    BY <1>9, <1>10, <2>1, <2>2 DEF MarkClaimed
  <2>3. CASE Found(w) # NoRow
    <3>1. [Found(w) EXCEPT !.claimed = TRUE] \in Rows
          /\ [Found(w) EXCEPT !.claimed = TRUE].claimed
      BY <1>7, <2>3 DEF Rows
    <3>2. [Found(w) EXCEPT !.claimed = TRUE] # NoRow
      BY <3>1, ServerAssumption DEF Rows
    <3>3. Write(w, [Found(w) EXCEPT !.claimed = TRUE])
      BY <1>10, <2>3 DEF MarkClaimed
    <3> HIDE DEF Write
    <3> QED BY <1>9, <2>1, <3>1, <3>2, <3>3
  <2> QED BY <2>2, <2>3
<1>11. CASE Insert(w)
  <2> DEFINE new == [content |-> Request(w).content,
                     claimed |-> Found(w) # NoRow /\ Found(w).claimed]
  <2>1. step[w] = "insert" /\ step'[w] = "commit_insert"
    BY <1>11 DEF Insert, GoTo, CentralTypeOK
  <2>2. Request(w).content \in Contents
    BY <1>6, <2>1 DEF StepFits, Request, Tasks, Requests
  <2>3. new \in Rows
    BY <1>7, <2>2 DEF Rows
  <2>4. new # NoRow
    BY <2>3, ServerAssumption DEF Rows
  <2>5. Write(w, new)
    BY <1>11 DEF Insert
  <2> HIDE DEF new
  <2> QED BY <1>9, <2>1, <2>4, <2>5
<1> QED BY <1>8, <1>10, <1>11

\* get_transfers_metadata closes its first transaction with nothing written.
LEMMA CommitReadHandlers ==
    ASSUME CentralInv, NEW w \in Threads, CommitRead(w)
    PROVE  Handlers'
<1> USE DEF CentralInv, HandlerInv, CommitRead, HandlerGoesOn, callerVars
<1>1. step[w] = "commit_read" /\ step[w] \in InTransaction \ Writes
  BY DEF InTransaction, Writes
<1>2. live = {w} /\ working = table /\ (\A u \in Threads \ {w} : step[u] \notin InTransaction)
  BY <1>1, OnlyLive DEF WorkingFits
<1>3. live' = {} /\ table' = table /\ working' = table
  BY <1>2 DEF Close
<1>4. step'[w] = "begin_claim" /\ (\A u \in Threads \ {w} : step'[u] = step[u])
  BY DEF GoTo, CentralTypeOK
<1>5. \A u \in Threads : step'[u] \notin InTransaction
  BY <1>2, <1>4 DEF InTransaction, Writes
<1>6. OneTransaction'
  BY <1>3 DEF OneTransaction
<1>7. ReadStays'
  BY <1>1, <1>3, <1>4 DEF ReadStays, Request, Stored
<1>8. WorkingFits'
  BY <1>2, <1>3, <1>5 DEF WorkingFits, InTransaction, Writes
<1> QED BY <1>6, <1>7, <1>8 DEF Handlers

\* When the process starts again, no handler is in a transaction.
LEMMA StartAgainHandlers ==
    ASSUME NEW committed, StartAgain(committed), CentralInv
    PROVE  Handlers'
<1>1. \A w \in Threads : step'[w] = "idle"
  BY DEF StartAgain
<1>2. live' = {} /\ table' = working'
  BY DEF StartAgain
<1> QED BY <1>1, <1>2 DEF Handlers, OneTransaction, WorkingFits, ReadStays, InTransaction,
                          Writes

\* A broken connection takes back what was not committed.
LEMMA DisconnectHandlers ==
    ASSUME CentralInv, Disconnect
    PROVE  Handlers'
BY DEF CentralInv, HandlerInv, Disconnect, callerVars, Handlers, OneTransaction,
       WorkingFits, ReadStays, Request, Stored, Found

\* No step of the server brings two transactions, or a transaction and what its
\* handler has read and written, out of step.
LEMMA ServerHandlers ==
    ASSUME NoRace, CentralInv, ServerStep
    PROVE  Handlers'
<1>1. ASSUME NEW w \in Threads, Accept(w)
      PROVE  Handlers'
  BY <1>1, AcceptHandlers
<1>2. ASSUME NEW w \in Threads, BeginTransaction(w)
      PROVE  Handlers'
  BY <1>2, BeginHandlers
<1>3. ASSUME NEW w \in Threads, DatabaseThrows(w)
      PROVE  Handlers'
  <2>1. PICK committed \in InDoubt(w) : Close(w, committed)
    BY <1>3 DEF DatabaseThrows
  <2>2. Respond(w, Caught(Request(w).kind, step[w]))
    BY <1>3 DEF DatabaseThrows
  <2>3. CASE step[w] \in InTransaction
    <3>1. live = {w} /\ committed \in {table, working}
      BY <2>1, <2>3, OnlyLive, InDoubtTables
    <3> QED BY <2>1, <2>2, <3>1, ReturnHandlers
  <2>4. CASE step[w] \notin InTransaction
    <3>1. w \notin live /\ committed = table
      BY <2>1, <2>4 DEF CentralInv, HandlerInv, NoLeftovers, InDoubt, InTransaction, Writes
    <3>2. UNCHANGED databaseVars
      BY <2>1, <3>1 DEF Close, databaseVars
    <3> QED BY <2>2, <3>1, <3>2, LeaveHandlers
  <2> QED BY <2>3, <2>4
<1>4. ASSUME NEW w \in Threads, Lookup(w) \/ CommitClaim(w) \/ CommitInsert(w)
      PROVE  Handlers'
  <2>1. live = {w}
    BY <1>4, OnlyLive DEF Lookup, CommitClaim, CommitInsert, InTransaction, Writes
  <2>2. CASE Lookup(w)
    <3>1. PICK reply : Respond(w, reply)
      BY <2>2 DEF Lookup
    <3> QED BY <2>1, <2>2, <3>1, ReturnHandlers DEF Lookup
  <2>3. CASE CommitClaim(w)
    <3>1. PICK reply : Respond(w, reply)
      BY <2>3 DEF CommitClaim
    <3> QED BY <2>1, <2>3, <3>1, ReturnHandlers DEF CommitClaim
  <2>4. CASE CommitInsert(w)
    <3>1. PICK reply : Respond(w, reply)
      BY <2>4 DEF CommitInsert
    <3> QED BY <2>1, <2>4, <3>1, ReturnHandlers DEF CommitInsert
  <2> QED BY <1>4, <2>2, <2>3, <2>4
<1>5. ASSUME NEW w \in Threads, ReadRow(w) \/ MarkClaimed(w) \/ Insert(w)
      PROVE  Handlers'
  BY <1>5, GoOnHandlers
<1>6. ASSUME NEW w \in Threads, CommitRead(w)
      PROVE  Handlers'
  BY <1>6, CommitReadHandlers
<1>7. ASSUME NEW w \in Threads, PostSignal(w) \/ GetSignal(w)
      PROVE  Handlers'
  <2>1. w \notin live
    BY <1>7 DEF PostSignal, GetSignal, CentralInv, HandlerInv, NoLeftovers, 
         InTransaction, Writes
  <2>2. \E reply : Respond(w, reply)
    BY <1>7 DEF PostSignal, GetSignal
  <2>3. UNCHANGED databaseVars
    BY <1>7 DEF PostSignal, GetSignal
  <2> QED BY <2>1, <2>2, <2>3, LeaveHandlers
<1>8. ASSUME NEW committed, StartAgain(committed)
      PROVE  Handlers'
  BY <1>8, StartAgainHandlers
<1> QED
  BY <1>1, <1>2, <1>3, <1>4, <1>5, <1>6, <1>7, <1>8, DisconnectHandlers
  DEF ServerStep, Step, Restart, RunsOffTheEnd

-----------------------------------------------------------------------------
(* Answers, if threads do not race.                                          *)

\* The answers that say something of the database.
AnswersHold == CreatedMeansStored /\ TrueMeansStored /\ MetadataMeansClaimed

\* What is new in an answer has to hold in the new table; what is old still does.
LEMMA AnswersStay ==
    ASSUME CentralInv, RowsKept,
           \A p \in Callers :
               \/ call'[p] = call[p] /\ answer'[p] = answer[p]
               \/ answer'[p].status \notin {200, 201}
               \/ /\ Answered(p, "register", Reply(201, ""))' => Stored(call[p].id)'
                  /\ Answered(p, "lookup", Reply(200, "True"))' => Stored(call[p].id)'
                  /\ (call[p].kind = "getfile" /\ answer[p].status = 200
                         /\ answer[p].body # "")'
                        => Stored(call[p].id)' /\ table'[call'[p].id].claimed
    PROVE  AnswersHold'
<1> USE DEF CentralInv, HandlerInv
<1>1. \A p \in Callers :
          call[p].kind \in {"register", "lookup", "getfile"} => call[p].id \in Ids
  <2> SUFFICES ASSUME NEW p \in Callers,
                      call[p].kind \in {"register", "lookup", "getfile"}
               PROVE  call[p].id \in Ids
    OBVIOUS
  <2>1. call[p] # NoRequest
    <3>1. NoRequest.kind = "none"
      BY DEF NoRequest
    <3> QED BY <3>1
  <2>2. call[p] \in Requests
    BY <2>1 DEF CentralTypeOK
  <2> QED BY <2>2 DEF Requests
<1>2. \A id \in Ids : Kept(table[id], table'[id])
  BY DEF RowsKept
<1>3. ASSUME NEW p \in Callers, call'[p] = call[p], answer'[p] = answer[p]
      PROVE  /\ Answered(p, "register", Reply(201, ""))' => Stored(call[p].id)'
             /\ Answered(p, "lookup", Reply(200, "True"))' => Stored(call[p].id)'
             /\ (call[p].kind = "getfile" /\ answer[p].status = 200
                    /\ answer[p].body # "")'
                   => Stored(call[p].id)' /\ table'[call'[p].id].claimed
  <2>1. /\ Answered(p, "register", Reply(201, ""))' => Stored(call[p].id)
        /\ Answered(p, "lookup", Reply(200, "True"))' => Stored(call[p].id)
    BY <1>3, ZenonT(60) DEF CreatedMeansStored, TrueMeansStored, Answered
  <2>2. (call[p].kind = "getfile" /\ answer[p].status = 200 /\ answer[p].body # "")'
           => Stored(call[p].id) /\ table[call[p].id].claimed
    <3>1. (call[p].kind = "getfile" /\ answer[p].status = 200 /\ answer[p].body # "")
              => Stored(call[p].id) /\ table[call[p].id].claimed
      BY DEF MetadataMeansClaimed
    <3> HIDE DEF CentralInv, HandlerInv
    <3> QED BY <1>3, <3>1
  <2>3. call[p].kind \in {"register", "lookup", "getfile"} /\ Stored(call[p].id)
           => /\ table'[call[p].id] # NoRow
              /\ table[call[p].id].claimed => table'[call[p].id].claimed
    BY <1>1, <1>2 DEF Kept, Stored
  <2> QED BY <1>3, <2>1, <2>2, <2>3 DEF Answered, Stored
<1>4. ASSUME NEW p \in Callers, answer'[p].status \notin {200, 201}
      PROVE  /\ ~Answered(p, "register", Reply(201, ""))'
             /\ ~Answered(p, "lookup", Reply(200, "True"))'
             /\ answer'[p].status # 200
  <2>1. Reply(201, "").status = 201 /\ Reply(200, "True").status = 200
    BY DEF Reply
  <2> QED BY <1>4, <2>1, ZenonT(60) DEF Answered
<1>5. CreatedMeansStored' /\ TrueMeansStored'
  BY <1>3, <1>4 DEF CreatedMeansStored, TrueMeansStored
<1>6. MetadataMeansClaimed'
  BY <1>3, <1>4 DEF MetadataMeansClaimed
<1> QED BY <1>5, <1>6 DEF AnswersHold

\* A caller learns nothing by calling, or by giving up.
LEMMA CallerAnswers ==
    ASSUME CentralInv, CallerStep, RowsKept
    PROVE  AnswersHold'
<1>1. Waiting.status = 1 /\ NoResponse.status = 0
  BY DEF Waiting, NoResponse, Reply
<1>2. ASSUME NEW p \in Callers, NEW request \in Requests,
             Call(p, request) \/ CallRefused(p, request)
      PROVE  AnswersHold'
  <2>1. answer'[p] \in {Waiting, NoResponse}
        /\ (\A q \in Callers \ {p} : call'[q] = call[q] /\ answer'[q] = answer[q])
    BY <1>2 DEF Call, CallRefused, CentralInv, HandlerInv, CentralTypeOK
  <2>2. \A q \in Callers : \/ call'[q] = call[q] /\ answer'[q] = answer[q]
                          \/ answer'[q].status \notin {200, 201}
    BY <1>1, <2>1
  <2> QED BY <2>2, AnswersStay
<1>3. ASSUME NEW p \in Callers, GiveUp(p)
      PROVE  AnswersHold'
  <2>1. answer'[p] = NoResponse
        /\ (\A q \in Callers \ {p} : call'[q] = call[q] /\ answer'[q] = answer[q])
    BY <1>3 DEF GiveUp, CentralInv, HandlerInv, CentralTypeOK
  <2>2. \A q \in Callers : \/ call'[q] = call[q] /\ answer'[q] = answer[q]
                          \/ answer'[q].status \notin {200, 201}
    BY <1>1, <2>1
  <2> QED BY <2>2, AnswersStay
<1> QED BY <1>2, <1>3 DEF CallerStep

\* A reply must be right about the row of the request that it answers.
LEMMA RespondAnswers ==
    ASSUME CentralInv, RowsKept, NEW w \in Threads, task[w] \in Tasks,
           NEW reply, Respond(w, reply),
           Request(w).kind = "register" /\ reply = Reply(201, "")
               => table'[Request(w).id] # NoRow,
           Request(w).kind = "lookup" /\ reply = Reply(200, "True")
               => table'[Request(w).id] # NoRow,
           Request(w).kind = "getfile" /\ reply.status = 200 /\ reply.body # ""
               => table'[Request(w).id] # NoRow /\ table'[Request(w).id].claimed
    PROVE  AnswersHold'
<1>1. ASSUME NEW p \in Callers, p # task[w].caller
      PROVE  call'[p] = call[p] /\ answer'[p] = answer[p]
  BY <1>1 DEF Respond
<1>2. ASSUME NEW p \in Callers, p = task[w].caller
      PROVE  call'[p] = Request(w) /\ answer'[p] = reply
  <2>1. call[p] = Request(w)
    BY <1>2, ServerAssumption DEF CentralInv, HandlerInv, OneTaskPerCall, Awaits, Request
  <2> QED BY <1>2, <2>1 DEF Respond
<1>3. ASSUME NEW p \in Callers, p = task[w].caller
      PROVE  /\ Answered(p, "register", Reply(201, ""))' => Stored(call[p].id)'
             /\ Answered(p, "lookup", Reply(200, "True"))' => Stored(call[p].id)'
             /\ (call[p].kind = "getfile" /\ answer[p].status = 200
                    /\ answer[p].body # "")'
                   => Stored(call[p].id)' /\ table'[call'[p].id].claimed
  BY <1>2, <1>3, ZenonT(60) DEF Answered, Stored
<1> QED BY <1>1, <1>3, AnswersStay

\* The commits, the lookup and the failures answer what the database bears out.
LEMMA ServerAnswers ==
    ASSUME CentralInv, ServerStep, RowsKept
    PROVE  AnswersHold'
<1> USE DEF CentralInv, HandlerInv
<1>1. ASSUME NEW w \in Threads, DatabaseThrows(w)
      PROVE  AnswersHold'
  <2> DEFINE reply == Caught(Request(w).kind, step[w])
  <2>1. Respond(w, reply) /\ task[w] \in Tasks
    BY <1>1 DEF DatabaseThrows, StepFits, Constructors, InTransaction, Writes
  <2>2. /\ Request(w).kind # "lookup" => reply.status = 200 /\ reply.body = ""
        /\ Request(w).kind = "lookup" => reply.body # "True"
    BY DEF Caught, Empty, Reply
  <2>3. Reply(201, "").status = 201 /\ Reply(200, "True").body = "True"
    BY DEF Reply
  <2> HIDE DEF reply
  <2>4. ASSUME Request(w).kind = "register" /\ reply = Reply(201, "")
        PROVE  FALSE
    <3>1. reply.status = 201
      BY <2>3, <2>4
    <3>2. reply.status = 200
      BY <2>2, <2>4
    <3> QED BY <3>1, <3>2
  <2>5. ~(Request(w).kind = "lookup" /\ reply = Reply(200, "True"))
    BY <2>2, <2>3
  <2>6. ~(Request(w).kind = "getfile" /\ reply.status = 200 /\ reply.body # "")
    BY <2>2
  <2> HIDE DEF CentralInv, HandlerInv
  <2> QED BY <2>1, <2>4, <2>5, <2>6, RespondAnswers
<1>2. ASSUME NEW w \in Threads, Lookup(w)
      PROVE  AnswersHold'
  <2> DEFINE reply == Reply(200, IF Found(w) # NoRow THEN "True" ELSE "False")
  <2>1. Respond(w, reply) /\ task[w] \in Tasks /\ Request(w).kind = "lookup"
    BY <1>2 DEF Lookup, StepFits
  <2>2. working = table /\ table' = table
    BY <1>2 DEF Lookup, WorkingFits, InTransaction, Writes, Close
  <2>3. reply = Reply(200, "True") => Found(w) # NoRow
    BY DEF Reply
  <2> HIDE DEF reply, CentralInv
  <2> QED BY <2>1, <2>2, <2>3, RespondAnswers DEF Found
<1>3. ASSUME NEW w \in Threads, CommitClaim(w)
      PROVE  AnswersHold'
  <2> DEFINE reply == IF row[w] = NoRow THEN Empty ELSE Reply(200, row[w].content)
  <2>1. Respond(w, reply) /\ task[w] \in Tasks /\ Request(w).kind = "getfile"
    BY <1>3 DEF CommitClaim, StepFits
  <2>2. table' = working /\ (row[w] # NoRow => Found(w) # NoRow /\ Found(w).claimed)
    BY <1>3 DEF CommitClaim, WorkingFits, Close
  <2>3. row[w] = NoRow => reply.body = ""
    BY DEF Empty, Reply
  <2> HIDE DEF reply, CentralInv
  <2> QED BY <2>1, <2>2, <2>3, RespondAnswers DEF Found
<1>4. ASSUME NEW w \in Threads, CommitInsert(w)
      PROVE  AnswersHold'
  <2>1. Respond(w, Reply(201, "")) /\ task[w] \in Tasks /\ Request(w).kind = "register"
    BY <1>4 DEF CommitInsert, StepFits
  <2>2. table' = working /\ Found(w) # NoRow
    BY <1>4 DEF CommitInsert, WorkingFits, Close
  <2> HIDE DEF CentralInv, HandlerInv
  <2> QED BY <2>1, <2>2, RespondAnswers DEF Found
<1>5. ASSUME NEW w \in Threads, PostSignal(w) \/ GetSignal(w)
      PROVE  AnswersHold'
  <2>1. task[w] \in Tasks /\ Request(w).kind \in {"post_signal", "get_signal"}
    BY <1>5 DEF PostSignal, GetSignal, StepFits
  <2>2. PICK reply : Respond(w, reply)
    BY <1>5 DEF PostSignal, GetSignal
  <2> HIDE DEF CentralInv, HandlerInv
  <2> QED BY <2>1, <2>2, RespondAnswers
<1>6. ASSUME UNCHANGED callerVars
      PROVE  AnswersHold'
  BY <1>6, AnswersStay DEF callerVars
<1>7. ASSUME NEW w \in Threads, Accept(w) \/ BeginTransaction(w) \/ ReadRow(w)
                 \/ CommitRead(w) \/ MarkClaimed(w) \/ Insert(w)
      PROVE  AnswersHold'
  BY <1>6, <1>7 DEF Accept, BeginTransaction, ReadRow, CommitRead, MarkClaimed, Insert,
                    Write, HandlerGoesOn
<1>8. ASSUME NEW committed, StartAgain(committed)
      PROVE  AnswersHold'
  <2>1. NoResponse.status = 0
    BY DEF NoResponse, Reply
  <2>2. \A p \in Callers : /\ call'[p] = call[p]
                           /\ answer'[p] = answer[p] \/ answer'[p] = NoResponse
    BY <1>8 DEF StartAgain
  <2>3. \A q \in Callers : \/ call'[q] = call[q] /\ answer'[q] = answer[q]
                          \/ answer'[q].status \notin {200, 201}
    BY <2>1, <2>2
  <2> HIDE DEF CentralInv, HandlerInv
  <2> QED BY <2>3, AnswersStay
<1>9. ASSUME Disconnect
      PROVE  AnswersHold'
  BY <1>6, <1>9 DEF Disconnect
<1> QED BY <1>1, <1>2, <1>3, <1>4, <1>5, <1>7, <1>8, <1>9
        DEF ServerStep, Step, Restart, RunsOffTheEnd

-----------------------------------------------------------------------------
(* The theorems, if threads do not race.                                     *)

\* Before the first request, nothing is read, written or answered.
LEMMA InitInv == CentralInit => CentralInv
<1> SUFFICES ASSUME CentralInit PROVE CentralInv
  OBVIOUS
<1> USE DEF CentralInit
<1>1. OneTransaction /\ ReadStays /\ WorkingFits
  BY DEF OneTransaction, ReadStays, WorkingFits, InTransaction, Writes
<1>2. CreatedMeansStored /\ TrueMeansStored /\ MetadataMeansClaimed
  BY DEF CreatedMeansStored, TrueMeansStored, MetadataMeansClaimed, Answered, NoRequest
<1> QED BY <1>1, <1>2, InitHandlers DEF CentralInv

\* Every step keeps the invariant.
LEMMA NextInv ==
    ASSUME NoRace, CentralInv, CentralNext \/ UNCHANGED centralVars
    PROVE  CentralInv'
<1>1. HandlerInv' /\ RowsKept
  BY NextHandlers, RowsAreKept DEF CentralInv
<1>2. CASE CallerStep
  <2>1. Handlers' /\ AnswersHold'
    BY <1>1, <1>2, CallerHandlers, CallerAnswers
  <2> QED BY <1>1, <2>1 DEF CentralInv, Handlers, AnswersHold
<1>3. CASE ServerStep
  <2>1. Handlers' /\ AnswersHold'
    BY <1>1, <1>3, ServerHandlers, ServerAnswers
  <2> QED BY <1>1, <2>1 DEF CentralInv, Handlers, AnswersHold
<1>4. CASE UNCHANGED centralVars
  <2> USE <1>4 DEF CentralInv, centralVars, serverVars, databaseVars, callerVars
  <2>1. OneTransaction' /\ WorkingFits' /\ ReadStays'
    BY DEF OneTransaction, WorkingFits, ReadStays, Request, Found, Stored
  <2>2. CreatedMeansStored' /\ TrueMeansStored' /\ MetadataMeansClaimed'
    BY DEF CreatedMeansStored, TrueMeansStored, MetadataMeansClaimed, Answered, Stored
  <2> QED BY <1>1, <2>1, <2>2
<1> QED BY <1>2, <1>3, <1>4 DEF CentralNext

\* The invariant holds in every state of the server, if its threads do not race.
THEOREM CentralInvAlways == NoRace => (CentralSpec => []CentralInv)
<1> SUFFICES ASSUME NoRace PROVE CentralSpec => []CentralInv
  OBVIOUS
<1>1. CentralInv /\ [CentralNext]_centralVars => CentralInv'
  BY NextInv
<1> QED BY <1>1, InitInv, PTL DEF CentralSpec

\* POST /register: status 201 means that the row is in the table.
THEOREM CreatedIsStored == NoRace => (CentralSpec => []CreatedMeansStored)
<1>1. CentralInv => CreatedMeansStored
  BY DEF CentralInv
<1> QED BY <1>1, CentralInvAlways, PTL

\* GET /lookup: "True" means that the row is in the table.
THEOREM TrueIsStored == NoRace => (CentralSpec => []TrueMeansStored)
<1>1. CentralInv => TrueMeansStored
  BY DEF CentralInv
<1> QED BY <1>1, CentralInvAlways, PTL

\* GET /getfile: a body means that the row is there, and is claimed.
THEOREM MetadataIsClaimed == NoRace => (CentralSpec => []MetadataMeansClaimed)
<1>1. CentralInv => MetadataMeansClaimed
  BY DEF CentralInv
<1> QED BY <1>1, CentralInvAlways, PTL
=============================================================================
