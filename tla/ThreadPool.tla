----------------------------- MODULE ThreadPool -----------------------------
(***************************************************************************)
(* The pool of worker threads behind the central server's listener: the    *)
(* queue of accepted connections, its mutex and its condition variable     *)
(* (httplib::ThreadPool). Everything under the mutex is one step, with the *)
(* wait on the condition variable, which releases it, at the end of one;   *)
(* a notification is outside of it.                                        *)
(***************************************************************************)
EXTENDS Naturals, Sequences

CONSTANTS
    Threads,          \* worker threads
    MaxQueued,        \* max_queued_requests_; 0, the default, is no limit
    MaxConnections    \* bound on the connections that are accepted

ASSUME PoolAssumption ==
    /\ Threads # {}
    /\ MaxQueued \in Nat
    /\ MaxConnections \in Nat

VARIABLES
    jobs_,        \* queued connections, numbered as they were accepted
    shutdown_,    \* no more will come
    listener,     \* where the listening thread stands
    accepted,     \* number of connections so far
    refused,      \* those for which there was no room
    worker,       \* where a worker thread stands
    fn,           \* the connection it serves, 0 for none
    served        \* those that have been served

poolVars == <<jobs_, shutdown_, listener, accepted, refused, worker, fn, served>>

-----------------------------------------------------------------------------
(* The listening thread.                                                     *)

Full == MaxQueued > 0 /\ Len(jobs_) >= MaxQueued

\* Mutant of Enqueue: no notify_one.
EnqueueSilently ==
    /\ listener = "accept"
    /\ accepted < MaxConnections
    /\ ~Full
    /\ accepted' = accepted + 1
    /\ jobs_' = Append(jobs_, accepted')
    /\ UNCHANGED <<shutdown_, listener, refused, worker, fn, served>>

\* listen_internal accepts a connection, and enqueue pushes it under the mutex.
Enqueue ==
    /\ listener = "accept"
    /\ accepted < MaxConnections
    /\ ~Full
    /\ accepted' = accepted + 1
    /\ jobs_' = Append(jobs_, accepted')
    /\ listener' = "notify"
    /\ UNCHANGED <<shutdown_, refused, worker, fn, served>>

\* Mutant of Refuse: the socket is left open.
RefuseSilently ==
    /\ listener = "accept"
    /\ accepted < MaxConnections
    /\ Full
    /\ accepted' = accepted + 1
    /\ UNCHANGED <<jobs_, shutdown_, listener, refused, worker, fn, served>>

\* enqueue returns false: the socket is closed.
Refuse ==
    /\ listener = "accept"
    /\ accepted < MaxConnections
    /\ Full
    /\ accepted' = accepted + 1
    /\ refused' = refused \cup {accepted'}
    /\ UNCHANGED <<jobs_, shutdown_, listener, worker, fn, served>>

Waiters == {w \in Threads : worker[w] = "waiting"}

\* notify_one wakes one of the threads that wait, if there are any.
NotifyOne ==
    /\ listener = "notify"
    /\ listener' = "accept"
    /\ IF Waiters = {} THEN worker' = worker
       ELSE \E w \in Waiters : worker' = [worker EXCEPT ![w] = "ready"]
    /\ UNCHANGED <<jobs_, shutdown_, accepted, refused, fn, served>>

\* accept fails, and shutdown sets the flag under the mutex.
Shutdown ==
    /\ listener = "accept"
    /\ shutdown_' = TRUE
    /\ listener' = "notify_all"
    /\ UNCHANGED <<jobs_, accepted, refused, worker, fn, served>>

\* Mutant of NotifyAll: notify_one.
NotifyAllButOne ==
    /\ listener = "notify_all"
    /\ listener' = "join"
    /\ IF Waiters = {} THEN worker' = worker
       ELSE \E w \in Waiters : worker' = [worker EXCEPT ![w] = "ready"]
    /\ UNCHANGED <<jobs_, shutdown_, accepted, refused, fn, served>>

NotifyAll ==
    /\ listener = "notify_all"
    /\ listener' = "join"
    /\ worker' = [w \in Threads |-> IF w \in Waiters THEN "ready" ELSE worker[w]]
    /\ UNCHANGED <<jobs_, shutdown_, accepted, refused, fn, served>>

\* Mutant of Join: the threads are detached.
JoinNone ==
    /\ listener = "join"
    /\ listener' = "returned"
    /\ UNCHANGED <<jobs_, shutdown_, accepted, refused, worker, fn, served>>

Join ==
    /\ listener = "join"
    /\ \A w \in Threads : worker[w] = "exited"
    /\ listener' = "returned"
    /\ UNCHANGED <<jobs_, shutdown_, accepted, refused, worker, fn, served>>

-----------------------------------------------------------------------------
(* A worker thread.                                                          *)

\* Mutant of TakeJob: a wait without the predicate, so that there may be no job.
TakeJobUnlooped(w) ==
    /\ worker[w] = "ready"
    /\ fn' = [fn EXCEPT ![w] = IF jobs_ = <<>> THEN 0 ELSE Head(jobs_)]
    /\ jobs_' = IF jobs_ = <<>> THEN jobs_ ELSE Tail(jobs_)
    /\ worker' = [worker EXCEPT ![w] = "running"]
    /\ UNCHANGED <<shutdown_, listener, accepted, refused, served>>

\* Mutant of TakeJob: no pop_front.
TakeJobKeeping(w) ==
    /\ worker[w] = "ready"
    /\ jobs_ # <<>>
    /\ fn' = [fn EXCEPT ![w] = Head(jobs_)]
    /\ worker' = [worker EXCEPT ![w] = "running"]
    /\ UNCHANGED <<jobs_, shutdown_, listener, accepted, refused, served>>

\* With the mutex, its predicate true, it takes the first job.
TakeJob(w) ==
    /\ worker[w] = "ready"
    /\ jobs_ # <<>>
    /\ fn' = [fn EXCEPT ![w] = Head(jobs_)]
    /\ jobs_' = Tail(jobs_)
    /\ worker' = [worker EXCEPT ![w] = "running"]
    /\ UNCHANGED <<shutdown_, listener, accepted, refused, served>>

\* Mutant of WaitForJob: the predicate of the wait does not look at the flag.
WaitForJobDeaf(w) ==
    /\ worker[w] = "ready"
    /\ jobs_ = <<>>
    /\ worker' = [worker EXCEPT ![w] = "waiting"]
    /\ UNCHANGED <<jobs_, shutdown_, listener, accepted, refused, fn, served>>

\* Its predicate false, it sleeps and lets go of the mutex.
WaitForJob(w) ==
    /\ worker[w] = "ready"
    /\ jobs_ = <<>> /\ ~shutdown_
    /\ worker' = [worker EXCEPT ![w] = "waiting"]
    /\ UNCHANGED <<jobs_, shutdown_, listener, accepted, refused, fn, served>>

\* Mutant of Exit: it does not wait until the queue is empty.
ExitAtOnce(w) ==
    /\ worker[w] = "ready"
    /\ shutdown_
    /\ worker' = [worker EXCEPT ![w] = "exited"]
    /\ UNCHANGED <<jobs_, shutdown_, listener, accepted, refused, fn, served>>

Exit(w) ==
    /\ worker[w] = "ready"
    /\ jobs_ = <<>> /\ shutdown_
    /\ worker' = [worker EXCEPT ![w] = "exited"]
    /\ UNCHANGED <<jobs_, shutdown_, listener, accepted, refused, fn, served>>

\* The connection has been served and closed.
FinishJob(w) ==
    /\ worker[w] = "running"
    /\ served' = served \cup {fn[w]}
    /\ fn' = [fn EXCEPT ![w] = 0]
    /\ worker' = [worker EXCEPT ![w] = "ready"]
    /\ UNCHANGED <<jobs_, shutdown_, listener, accepted, refused>>

\* A wait may end for no reason; the predicate is looked at again.
WakeSpuriously(w) ==
    /\ worker[w] = "waiting"
    /\ worker' = [worker EXCEPT ![w] = "ready"]
    /\ UNCHANGED <<jobs_, shutdown_, listener, accepted, refused, fn, served>>

-----------------------------------------------------------------------------

PoolInit ==
    /\ jobs_ = <<>>
    /\ shutdown_ = FALSE
    /\ listener = "accept"
    /\ accepted = 0
    /\ refused = {}
    /\ worker = [w \in Threads |-> "ready"]
    /\ fn = [w \in Threads |-> 0]
    /\ served = {}

ListenerGoesOn == NotifyOne \/ NotifyAll \/ Join
WorkerGoesOn(w) == TakeJob(w) \/ WaitForJob(w) \/ Exit(w) \/ FinishJob(w)

PoolNext ==
    \/ Enqueue \/ Refuse \/ Shutdown \/ ListenerGoesOn
    \/ \E w \in Threads : WorkerGoesOn(w) \/ WakeSpuriously(w)

PoolSpec == PoolInit /\ [][PoolNext]_poolVars

\* Threads that can run do. No connection has to come, no wait ends by itself.
PoolFairSpec ==
    /\ PoolSpec
    /\ WF_poolVars(ListenerGoesOn)
    /\ \A w \in Threads : WF_poolVars(WorkerGoesOn(w))

-----------------------------------------------------------------------------
(* Type invariant.                                                           *)

Connections == 1..MaxConnections

\* Every variable keeps to the values its C++ counterpart can have.
PoolTypeOK ==
    /\ jobs_ \in Seq(Connections)
    /\ shutdown_ \in BOOLEAN
    /\ listener \in {"accept", "notify", "notify_all", "join", "returned"}
    /\ accepted \in 0..MaxConnections
    /\ refused \subseteq Connections
    /\ worker \in [Threads -> {"ready", "waiting", "running", "exited"}]
    /\ fn \in [Threads -> Connections \cup {0}]
    /\ served \subseteq Connections

-----------------------------------------------------------------------------
(* Safety.                                                                   *)

Queued == {jobs_[i] : i \in DOMAIN jobs_}

\* No wakeup is lost: while a job is queued, some thread is at work and will look at
\* the queue again, or the notification is still to come.
NoLostWakeup ==
    jobs_ # <<>> => listener = "notify" \/ \E w \in Threads : worker[w] \in {"ready", "running"}

\* When shutdown has joined the threads, every connection that was accepted has been
\* served, those that were still queued when the flag was set too.
JoinedMeansServed ==
    listener = "returned" => 1..accepted \subseteq served \cup refused

\* shutdown sets the flag under the mutex before it wakes the threads, so that none
\* falls asleep after that: join waits for threads that are at work, or will exit.
NoSleepAfterShutdown ==
    listener \in {"join", "returned"} => \A w \in Threads : worker[w] # "waiting"

\* The inductive invariant from which PoolProofs derives the three above: threads exit
\* from an empty queue only, and every connection is somewhere, and none is that has
\* not been accepted.
ExitedFromEmpty ==
    \A w \in Threads : worker[w] = "exited" => shutdown_ /\ jobs_ = <<>>

ClosedAfterShutdown ==
    /\ shutdown_ <=> listener \in {"notify_all", "join", "returned"}
    /\ listener = "returned" => \A w \in Threads : worker[w] = "exited"

RunningServes == \A w \in Threads : worker[w] = "running" <=> fn[w] # 0

Somewhere(c) ==
    \/ c \in Queued \cup refused \cup served
    \/ \E w \in Threads : worker[w] = "running" /\ fn[w] = c

OnlyAccepted ==
    /\ \A c \in Queued \cup served : c <= accepted
    /\ \A w \in Threads : fn[w] <= accepted

PoolInv ==
    /\ PoolTypeOK
    /\ NoLostWakeup
    /\ NoSleepAfterShutdown
    /\ ExitedFromEmpty
    /\ ClosedAfterShutdown
    /\ RunningServes
    /\ \A c \in 1..accepted : Somewhere(c)
    /\ OnlyAccepted

Q == INSTANCE JobQueue WITH
    Jobs <- Connections,
    todo <- jobs_,
    doing <- fn,
    done <- served,
    open <- listener # "returned"

\* Every connection that is accepted is taken once, in the order they came in, and
\* served once; and shutdown returns only when all of them have been.
PoolIsQueue == Q!Spec

-----------------------------------------------------------------------------
(* Liveness.                                                                 *)

\* Every connection that is queued gets served, and a shutdown comes to its end.
EveryJobRuns == \A c \in Connections : c \in Queued ~> c \in served
ShutdownEnds == listener = "notify_all" ~> listener = "returned"
=============================================================================
