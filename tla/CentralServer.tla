---------------------------- MODULE CentralServer ----------------------------
(***************************************************************************)
(* The rendezvous server (central_server/): callers post requests to it, a *)
(* pool of worker threads handles them, and all the threads share one      *)
(* connection to the database, which can have one transaction at a time.   *)
(* Signals are kept in memory.                                             *)
(***************************************************************************)
EXTENDS Naturals, Sequences

CONSTANTS
    Callers,     \* processes that call the server
    Nobody,      \* in place of a caller that has stopped listening
    Threads,     \* worker threads of the HTTP server
    Ids,         \* transfer ids
    Contents,    \* what a row, or a signal, may hold
    NoRow,       \* in place of a row that is not there
    NoSignal,    \* in place of a signal that is not there
    Kinds,       \* the kinds of request that are made
    MaxJobs,     \* bound on the requests that wait for a thread
    Failures,    \* what goes wrong: "database", "restart", "caller"
    Racing       \* TRUE: two threads may be inside pqxx::connection at once

ASSUME ServerAssumption ==
    /\ Nobody \notin Callers
    /\ NoRow \notin [content : Contents, claimed : BOOLEAN]
    /\ NoSignal \notin Contents
    /\ "" \notin Contents
    /\ Kinds \subseteq {"lookup", "getfile", "register", "post_signal", "get_signal"}
    /\ MaxJobs \in Nat
    /\ Failures \subseteq {"database", "restart", "caller"}
    /\ Racing \in BOOLEAN

VARIABLES
    table,          \* the committed rows of transfers
    working,        \* the rows as the session of the connection sees them
    connection,     \* "open", or "broken" for good
    live,           \* threads whose transaction object is registered with it
    signal_store,   \* static std::map signal_store
    jobs,           \* requests that wait for a thread, oldest first
    task,           \* the request that a thread handles
    step,           \* where its handler stands
    row,            \* what its query has read
    call,           \* a caller's last request
    answer          \* and what came of it

databaseVars == <<table, working, connection, live>>
serverVars == <<databaseVars, signal_store, jobs, task, step, row>>
callerVars == <<call, answer>>
centralVars == <<serverVars, callerVars>>

Rows == [content : Contents, claimed : BOOLEAN]
Requests ==
    [kind : Kinds \cap {"lookup", "getfile", "get_signal"}, id : Ids]
        \cup [kind : Kinds \cap {"register", "post_signal"}, id : Ids, content : Contents]
Tasks == [caller : Callers \cup {Nobody}, request : Requests]
NoRequest == [kind |-> "none"]
NoTask == [caller |-> Nobody, request |-> NoRequest]

\* Steps of a handler: a constructor of a transaction object, and the calls on it.
Constructors == {"begin", "begin_claim"}
Writes == {"commit_claim", "commit_insert"}
InTransaction == {"query", "commit_read", "update", "insert"} \cup Writes
Steps == {"idle", "signal"} \cup Constructors \cup InTransaction

\* Answers are a status and a body; 0 when no response came, 1 while it is awaited.
Reply(status, body) == [status |-> status, body |-> body]
Waiting == Reply(1, "")
NoResponse == Reply(0, "")
Empty == Reply(200, "")

-----------------------------------------------------------------------------
(* Callers.                                                                  *)

Idle(p) == answer[p] # Waiting

\* p sends a request; the accepted socket is queued for the thread pool.
Call(p, request) ==
    /\ Idle(p)
    /\ Len(jobs) < MaxJobs
    /\ call' = [call EXCEPT ![p] = request]
    /\ answer' = [answer EXCEPT ![p] = Waiting]
    /\ jobs' = Append(jobs, [caller |-> p, request |-> request])
    /\ UNCHANGED <<databaseVars, signal_store, task, step, row>>

\* p cannot reach the server.
CallRefused(p, request) ==
    /\ "caller" \in Failures
    /\ Idle(p)
    /\ call' = [call EXCEPT ![p] = request]
    /\ answer' = [answer EXCEPT ![p] = NoResponse]
    /\ UNCHANGED serverVars

Orphan(t, p) == IF t.caller = p THEN [t EXCEPT !.caller = Nobody] ELSE t

\* p's request times out or its socket fails: the server goes on with it all the same.
GiveUp(p) ==
    /\ "caller" \in Failures
    /\ ~Idle(p)
    /\ answer' = [answer EXCEPT ![p] = NoResponse]
    /\ jobs' = [i \in DOMAIN jobs |-> Orphan(jobs[i], p)]
    /\ task' = [w \in Threads |-> Orphan(task[w], p)]
    /\ UNCHANGED <<databaseVars, signal_store, step, row, call>>

-----------------------------------------------------------------------------
(* Worker threads.                                                           *)

Request(w) == task[w].request

FirstStep(kind) == IF kind \in {"post_signal", "get_signal"} THEN "signal" ELSE "begin"

Accept(w) ==
    /\ step[w] = "idle"
    /\ jobs # <<>>
    /\ task' = [task EXCEPT ![w] = Head(jobs)]
    /\ step' = [step EXCEPT ![w] = FirstStep(Head(jobs).request.kind)]
    /\ jobs' = Tail(jobs)
    /\ UNCHANGED <<databaseVars, signal_store, row, callerVars>>

GoTo(w, s) == step' = [step EXCEPT ![w] = s]

\* The handler of w returns; its caller, if it still listens, gets the response.
Respond(w, reply) ==
    /\ GoTo(w, "idle")
    /\ task' = [task EXCEPT ![w] = NoTask]
    /\ row' = [row EXCEPT ![w] = NoRow]
    /\ answer' = [p \in Callers |-> IF task[w].caller = p THEN reply ELSE answer[p]]
    /\ UNCHANGED <<jobs, call>>

HandlerGoesOn == UNCHANGED <<jobs, task, callerVars>>

\* Mutant of Caught: register sets its status before the try block.
CaughtAsCreated(kind, s) == IF kind = "register" THEN Reply(201, "") ELSE Empty

\* What the handler answers when a call of step s throws. Only lookup has none of
\* the constructors inside a try block: set_exception_handler answers for it.
Caught(kind, s) ==
    IF kind # "lookup" THEN Empty
    ELSE IF s \in Constructors THEN Reply(500, "") ELSE Reply(200, "False")

\* Mutant of Close: a transaction object that is never destroyed.
CloseWithoutEnd(w, committed) ==
    /\ table' = committed
    /\ working' = IF w \in live THEN committed ELSE working
    /\ UNCHANGED <<live, connection, signal_store>>

\* Mutant of Close: a session that is not rolled back.
CloseWithoutRollback(w, committed) ==
    /\ live' = live \ {w}
    /\ table' = committed
    /\ UNCHANGED <<working, connection, signal_store>>

\* The transaction object of w is gone, and the session is back at what is committed.
Close(w, committed) ==
    /\ live' = live \ {w}
    /\ table' = committed
    /\ working' = IF w \in live THEN committed ELSE working
    /\ UNCHANGED <<connection, signal_store>>

\* pqxx registers one transaction object per connection and sends BEGIN.
BeginTransaction(w) ==
    /\ step[w] \in Constructors
    /\ connection = "open"
    /\ live = {} \/ Racing
    /\ live' = live \cup {w}
    /\ GoTo(w, IF step[w] = "begin_claim" THEN "update"
               ELSE IF Request(w).kind = "register" THEN "insert" ELSE "query")
    /\ HandlerGoesOn
    /\ UNCHANGED <<table, working, connection, signal_store, row>>

\* What is committed if a commit fails whose outcome is not known.
InDoubt(w) == {table} \cup (IF step[w] \in Writes THEN {working} ELSE {})

\* Mutant of DatabaseThrows: a constructor waits until the connection is free.
DatabaseThrowsInside(w) ==
    /\ step[w] \in InTransaction
    /\ connection = "broken" \/ "database" \in Failures \/ (Racing /\ live \ {w} # {})
    /\ \E committed \in InDoubt(w) : Close(w, committed)
    /\ Respond(w, Caught(Request(w).kind, step[w]))

\* A call to the database throws: in a constructor, for one, because another
\* transaction is registered.
DatabaseThrows(w) ==
    /\ step[w] \in Constructors \cup InTransaction
    /\ \/ connection = "broken" \/ "database" \in Failures
       \/ step[w] \in Constructors /\ live # {}
       \/ Racing /\ live \ {w} # {}
    /\ \E committed \in InDoubt(w) : Close(w, committed)
    /\ Respond(w, Caught(Request(w).kind, step[w]))

\* What a SELECT by the request's id finds.
Found(w) == working[Request(w).id]

\* lookup_transfer: the destructor of the read transaction rolls it back.
Lookup(w) ==
    /\ step[w] = "query"
    /\ Request(w).kind = "lookup"
    /\ connection = "open"
    /\ Close(w, table)
    /\ Respond(w, Reply(200, IF Found(w) # NoRow THEN "True" ELSE "False"))

\* get_transfers_metadata reads the row and commits before it marks it claimed.
ReadRow(w) ==
    /\ step[w] = "query"
    /\ Request(w).kind = "getfile"
    /\ connection = "open"
    /\ row' = [row EXCEPT ![w] = Found(w)]
    /\ GoTo(w, "commit_read")
    /\ HandlerGoesOn
    /\ UNCHANGED <<databaseVars, signal_store>>

CommitRead(w) ==
    /\ step[w] = "commit_read"
    /\ connection = "open"
    /\ Close(w, working)
    /\ GoTo(w, "begin_claim")
    /\ HandlerGoesOn
    /\ UNCHANGED row

Write(w, newRow) ==
    /\ connection = "open"
    /\ working' = [working EXCEPT ![Request(w).id] = newRow]
    /\ HandlerGoesOn
    /\ UNCHANGED <<table, connection, live, signal_store, row>>

\* mark_transfer_claimed: UPDATE of no row is no error.
MarkClaimed(w) ==
    /\ step[w] = "update"
    /\ Write(w, IF Found(w) = NoRow THEN NoRow ELSE [Found(w) EXCEPT !.claimed = TRUE])
    /\ GoTo(w, "commit_claim")

\* Mutant of CommitClaim: mark_transfer_claimed without txn.commit().
CommitClaimNever(w) ==
    /\ step[w] = "commit_claim"
    /\ connection = "open"
    /\ Close(w, table)
    /\ Respond(w, IF row[w] = NoRow THEN Empty ELSE Reply(200, row[w].content))

\* to_transfer_row(r[0]) throws if the query found no row.
CommitClaim(w) ==
    /\ step[w] = "commit_claim"
    /\ connection = "open"
    /\ Close(w, working)
    /\ Respond(w, IF row[w] = NoRow THEN Empty ELSE Reply(200, row[w].content))

\* Mutant of Insert: the upsert sets claimed as well.
InsertUnclaimed(w) ==
    /\ step[w] = "insert"
    /\ Write(w, [content |-> Request(w).content, claimed |-> FALSE])
    /\ GoTo(w, "commit_insert")

\* Mutant of Insert: a table without the column claimed.
InsertWithoutFlag(w) ==
    /\ step[w] = "insert"
    /\ Write(w, [content |-> Request(w).content])
    /\ GoTo(w, "commit_insert")

\* register_transfers: an upsert that leaves the claimed flag of an old row alone.
Insert(w) ==
    /\ step[w] = "insert"
    /\ Write(w, [content |-> Request(w).content,
                 claimed |-> Found(w) # NoRow /\ Found(w).claimed])
    /\ GoTo(w, "commit_insert")

CommitInsert(w) ==
    /\ step[w] = "commit_insert"
    /\ connection = "open"
    /\ Close(w, working)
    /\ Respond(w, Reply(201, ""))

PostSignal(w) ==
    /\ step[w] = "signal"
    /\ Request(w).kind = "post_signal"
    /\ signal_store' = [signal_store EXCEPT ![Request(w).id] = Request(w).content]
    /\ Respond(w, Empty)
    /\ UNCHANGED databaseVars

\* Nothing ever removes a signal.
GetSignal(w) ==
    LET stored == signal_store[Request(w).id]
    IN  /\ step[w] = "signal"
        /\ Request(w).kind = "get_signal"
        /\ Respond(w, IF stored = NoSignal THEN Reply(404, "") ELSE Reply(200, stored))
        /\ UNCHANGED <<databaseVars, signal_store>>

Step(w) ==
    \/ Accept(w) \/ BeginTransaction(w) \/ DatabaseThrows(w)
    \/ Lookup(w) \/ ReadRow(w) \/ CommitRead(w) \/ MarkClaimed(w) \/ CommitClaim(w)
    \/ Insert(w) \/ CommitInsert(w) \/ PostSignal(w) \/ GetSignal(w)

-----------------------------------------------------------------------------
(* Failures of the process and of the connection.                            *)

\* Mutant of StartAgain: the callers do not learn that their connections are gone.
StartAgainSilently(committed) ==
    /\ table' = committed
    /\ working' = committed
    /\ connection' = "open"
    /\ live' = {}
    /\ signal_store' = [id \in Ids |-> NoSignal]
    /\ jobs' = <<>>
    /\ task' = [w \in Threads |-> NoTask]
    /\ step' = [w \in Threads |-> "idle"]
    /\ row' = [w \in Threads |-> NoRow]
    /\ UNCHANGED callerVars

\* The process ends and is started again: DB::init opens a new connection, and
\* what was not committed, the signals and the requests are gone.
StartAgain(committed) ==
    /\ table' = committed
    /\ working' = committed
    /\ connection' = "open"
    /\ live' = {}
    /\ signal_store' = [id \in Ids |-> NoSignal]
    /\ jobs' = <<>>
    /\ task' = [w \in Threads |-> NoTask]
    /\ step' = [w \in Threads |-> "idle"]
    /\ row' = [w \in Threads |-> NoRow]
    /\ answer' = [p \in Callers |-> IF Idle(p) THEN answer[p] ELSE NoResponse]
    /\ UNCHANGED call

Restart ==
    /\ "restart" \in Failures
    /\ \E committed \in {table} \cup UNION {InDoubt(w) : w \in Threads} :
           StartAgain(committed)

\* register_transfers is declared bool and has no return statement: having committed,
\* it may return to its caller, as above, or run on into whatever code follows it.
RunsOffTheEnd(w) ==
    /\ step[w] = "commit_insert"
    /\ connection = "open"
    /\ StartAgain(working)

\* The database goes away, and rolls back; nothing opens the connection again.
Disconnect ==
    /\ "database" \in Failures
    /\ connection = "open"
    /\ connection' = "broken"
    /\ working' = table
    /\ UNCHANGED <<table, live, signal_store, jobs, task, step, row, callerVars>>

-----------------------------------------------------------------------------

CentralInit ==
    /\ table = [id \in Ids |-> NoRow]
    /\ working = table
    /\ connection = "open"
    /\ live = {}
    /\ signal_store = [id \in Ids |-> NoSignal]
    /\ jobs = <<>>
    /\ task = [w \in Threads |-> NoTask]
    /\ step = [w \in Threads |-> "idle"]
    /\ row = [w \in Threads |-> NoRow]
    /\ call = [p \in Callers |-> NoRequest]
    /\ answer = [p \in Callers |-> NoResponse]

ServerStep == (\E w \in Threads : Step(w) \/ RunsOffTheEnd(w)) \/ Restart \/ Disconnect

CallerStep ==
    \E p \in Callers :
        \/ \E request \in Requests : Call(p, request) \/ CallRefused(p, request)
        \/ GiveUp(p)

CentralNext == ServerStep \/ CallerStep

CentralSpec == CentralInit /\ [][CentralNext]_centralVars

\* A worker thread that can go on does: the pool wakes it, and the database either
\* answers or fails.
CentralFairSpec == CentralSpec /\ \A w \in Threads : WF_centralVars(Step(w))

-----------------------------------------------------------------------------
(* Type invariant.                                                           *)

Answers ==
    [status : {0, 1, 200, 201, 404, 500}, body : Contents \cup {"", "True", "False"}]

\* Every variable keeps to the values its C++ counterpart can have.
CentralTypeOK ==
    /\ table \in [Ids -> Rows \cup {NoRow}]
    /\ working \in [Ids -> Rows \cup {NoRow}]
    /\ connection \in {"open", "broken"}
    /\ live \subseteq Threads
    /\ signal_store \in [Ids -> Contents \cup {NoSignal}]
    /\ jobs \in Seq(Tasks)
    /\ task \in [Threads -> Tasks \cup {NoTask}]
    /\ step \in [Threads -> Steps]
    /\ row \in [Threads -> Rows \cup {NoRow}]
    /\ call \in [Callers -> Requests \cup {NoRequest}]
    /\ answer \in [Callers -> Answers]

-----------------------------------------------------------------------------
(* Safety.                                                                   *)

Answered(p, kind, reply) == call[p].kind = kind /\ answer[p] = reply

Stored(id) == table[id] # NoRow

\* No way out of a handler leaves its transaction object registered, which would
\* refuse every later transaction, or leaves writes behind for a later commit.
NoLeftovers ==
    /\ live = {w \in Threads : step[w] \in InTransaction}
    /\ live = {} => working = table

\* A sender that is told "created" has its row in the database, for good, whatever
\* the other handlers on the connection did meanwhile. (Without a race.)
CreatedMeansStored ==
    \A p \in Callers : Answered(p, "register", Reply(201, "")) => Stored(call[p].id)

\* lookup never says "True" of a row that a failed registration had only written in
\* its transaction. (Without a race.)
TrueMeansStored ==
    \A p \in Callers : Answered(p, "lookup", Reply(200, "True")) => Stored(call[p].id)

\* A receiver that is given the metadata of a transfer has claimed it: the second
\* transaction of get_transfers_metadata did not get lost. (Without a race.)
MetadataMeansClaimed ==
    \A p \in Callers :
        (call[p].kind = "getfile" /\ answer[p].status = 200 /\ answer[p].body # "")
            => Stored(call[p].id) /\ table[call[p].id].claimed

\* p's call is in the queue, or a handler is at work on it.
Held(p) ==
    \/ \E i \in DOMAIN jobs : jobs[i].caller = p
    \/ \E w \in Threads : step[w] # "idle" /\ task[w].caller = p

\* No way through the server leaves a caller waiting for an answer that nobody will
\* give: not a throw, not a restart, not what becomes of the calls that it gave up.
NoCallForgotten == \A p \in Callers : ~Idle(p) => Held(p)

Kept(old, new) == old # NoRow => new # NoRow /\ (old.claimed => new.claimed)

\* Whatever fails, a stored row stays, and a claimed one stays claimed: the upsert of
\* a second registration keeps the flag.
RowsStay == [][\A id \in Ids : Kept(table[id], table'[id])]_centralVars

-----------------------------------------------------------------------------
(* The inductive invariants from which CentralProofs derives the above.      *)
(* HandlerInv is kept by threads that race as well, CentralInv is not.       *)

\* A handler is where the code for its request can be.
StepFits ==
    \A w \in Threads :
        LET kind == Request(w).kind
        IN  /\ step[w] # "idle" => task[w] \in Tasks
            /\ step[w] = "begin" => kind \in {"lookup", "getfile", "register"}
            /\ step[w] = "query" => kind \in {"lookup", "getfile"}
            /\ step[w] \in {"commit_read", "begin_claim", "update", "commit_claim"}
                  => kind = "getfile"
            /\ step[w] \in {"insert", "commit_insert"} => kind = "register"
            /\ step[w] = "signal" => kind \in {"post_signal", "get_signal"}

\* A task that has a caller is the call that this caller waits for.
Awaits(t) ==
    t.caller # Nobody => call[t.caller] = t.request /\ answer[t.caller] = Waiting

Apart(t, u) == t.caller = u.caller => t.caller = Nobody

\* And no two tasks have the same caller.
OneTaskPerCall ==
    /\ \A w \in Threads : Awaits(task[w])
    /\ \A i \in DOMAIN jobs : Awaits(jobs[i])
    /\ \A u, w \in Threads : u # w => Apart(task[u], task[w])
    /\ \A i, j \in DOMAIN jobs : i # j => Apart(jobs[i], jobs[j])
    /\ \A w \in Threads, i \in DOMAIN jobs : Apart(task[w], jobs[i])

\* What is written in a transaction, by one handler or by several, takes nothing back.
WorkingKeeps == \A id \in Ids : Kept(table[id], working[id])

HandlerInv ==
    /\ CentralTypeOK
    /\ NoLeftovers
    /\ StepFits
    /\ OneTaskPerCall
    /\ WorkingKeeps

OneTransaction == \A u, w \in live : u = w

\* What the one transaction has written so far, and what it has to have written when
\* it comes to its commit.
WorkingFits ==
    \A w \in Threads :
        /\ step[w] \in InTransaction \ Writes => working = table
        /\ (step[w] = "commit_insert" /\ connection = "open") => Found(w) # NoRow
        /\ (step[w] = "commit_claim" /\ connection = "open" /\ row[w] # NoRow)
              => Found(w) # NoRow /\ Found(w).claimed

\* A row that was read is still there.
ReadStays ==
    \A w \in Threads :
        step[w] \in {"commit_read", "begin_claim", "update", "commit_claim"}
            => (row[w] # NoRow => Stored(Request(w).id))

CentralInv ==
    /\ HandlerInv
    /\ OneTransaction
    /\ WorkingFits
    /\ ReadStays
    /\ CreatedMeansStored
    /\ TrueMeansStored
    /\ MetadataMeansClaimed

-----------------------------------------------------------------------------
(* Liveness.                                                                 *)

\* No request is left without an answer: no failure makes a handler wait for another.
EveryCallAnswered == \A p \in Callers : []<>Idle(p)
=============================================================================
