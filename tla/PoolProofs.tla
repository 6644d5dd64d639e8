----------------------------- MODULE PoolProofs -----------------------------
(***************************************************************************)
(* Proofs about ThreadPool, for any number of threads and connections.     *)
(***************************************************************************)
EXTENDS ThreadPool, TLAPS

\* What was not at the head of a queue is in the rest of it.
LEMMA TailKeeps ==
    ASSUME NEW S, NEW q \in Seq(S), q # << >>
    PROVE  \A i \in DOMAIN q : i = 1 \/ (i - 1 \in DOMAIN Tail(q) /\ Tail(q)[i - 1] = q[i])
OBVIOUS

\* Before the first connection, every thread looks at an empty queue.
LEMMA InitPoolInv == PoolInit => PoolInv
<1> SUFFICES ASSUME PoolInit PROVE PoolInv
  OBVIOUS
<1> USE DEF PoolInit
<1>1. PoolTypeOK
  <2>1. << >> \in Seq(Connections)
    OBVIOUS
  <2>2. accepted \in 0..MaxConnections
    BY PoolAssumption
  <2> QED BY <2>1, <2>2 DEF PoolTypeOK
<1>2. /\ NoLostWakeup /\ NoSleepAfterShutdown
      /\ ExitedFromEmpty /\ ClosedAfterShutdown /\ RunningServes
  BY DEF NoLostWakeup, NoSleepAfterShutdown, ExitedFromEmpty, ClosedAfterShutdown,
         RunningServes
<1>3. \A c \in 1..accepted : Somewhere(c)
  OBVIOUS
<1>4. OnlyAccepted
  BY DEF OnlyAccepted, Queued
<1> QED BY <1>1, <1>2, <1>3, <1>4 DEF PoolInv

\* A connection that was accepted before stays so.
LEMMA LaterAccepted ==
    ASSUME PoolInv, PoolTypeOK', accepted \in Nat, accepted' \in Nat, accepted <= accepted',
           Queued' \subseteq Queued \cup {accepted'}, UNCHANGED <<served, fn>>
    PROVE  OnlyAccepted'
<1>1. /\ \A c \in Queued \cup served : c \in Nat
      /\ \A w \in Threads : fn[w] \in Nat
  <2>1. Connections \cup {0} \subseteq Nat
    BY PoolAssumption DEF Connections
  <2>2. Queued \subseteq Connections
    BY DEF PoolInv, PoolTypeOK, Queued
  <2>3. served \subseteq Connections /\ fn \in [Threads -> Connections \cup {0}]
    BY DEF PoolInv, PoolTypeOK
  <2> QED BY <2>1, <2>2, <2>3
<1>2. \A c \in Queued' \cup served' : c <= accepted'
  BY <1>1 DEF PoolInv, OnlyAccepted
<1>3. \A w \in Threads : fn'[w] <= accepted'
  BY <1>1 DEF PoolInv, OnlyAccepted
<1> QED BY <1>2, <1>3 DEF OnlyAccepted

\* The steps of the listening thread keep the invariant.
LEMMA ListenerInv ==
    ASSUME PoolInv, Enqueue \/ Refuse \/ Shutdown \/ ListenerGoesOn
    PROVE  PoolInv'
<1> USE DEF PoolInv
<1>1. CASE Enqueue
  <2> USE <1>1 DEF Enqueue
  <2>1. accepted' \in Connections
    BY PoolAssumption DEF PoolTypeOK, Connections
  <2>2. PoolTypeOK'
    BY <2>1 DEF PoolTypeOK, Connections
  <2>3. /\ NoLostWakeup' /\ NoSleepAfterShutdown'
        /\ ClosedAfterShutdown' /\ RunningServes'
    BY DEF NoLostWakeup, NoSleepAfterShutdown, ClosedAfterShutdown, RunningServes
  <2>4. ExitedFromEmpty'
    BY DEF ExitedFromEmpty, ClosedAfterShutdown
  <2>5. Queued' = Queued \cup {accepted'}
    BY <2>1 DEF Queued, PoolTypeOK
  <2>6. \A c \in 1..accepted' : Somewhere(c)'
    <3>1. \A c \in 1..accepted' : c \in 1..accepted \/ c = accepted'
      BY DEF PoolTypeOK
    <3>2. \A c : Somewhere(c) => Somewhere(c)'
      BY <2>5 DEF Somewhere
    <3>3. \A c : c = accepted' => Somewhere(c)'
      BY <2>5 DEF Somewhere
    <3> QED BY <3>1, <3>2, <3>3
  <2>7. OnlyAccepted'
    <3>1. accepted <= accepted' /\ accepted \in Nat /\ accepted' \in Nat
      BY <2>1 DEF PoolTypeOK, Connections
    <3> QED BY <2>2, <2>5, <3>1, LaterAccepted
  <2> QED BY <2>2, <2>3, <2>4, <2>6, <2>7
<1>2. CASE Refuse
  <2> USE <1>2 DEF Refuse
  <2>1. accepted' \in Connections
    BY PoolAssumption DEF PoolTypeOK, Connections
  <2>2. PoolTypeOK'
    BY <2>1 DEF PoolTypeOK, Connections
  <2>3. /\ NoLostWakeup' /\ NoSleepAfterShutdown'
        /\ ClosedAfterShutdown' /\ ExitedFromEmpty' /\ RunningServes'
    BY DEF NoLostWakeup, NoSleepAfterShutdown, ClosedAfterShutdown, ExitedFromEmpty,
           RunningServes
  <2>4. \A c \in 1..accepted' : Somewhere(c)'
    <3>1. \A c \in 1..accepted' : c \in 1..accepted \/ c = accepted'
      BY DEF PoolTypeOK
    <3>2. \A c : Somewhere(c) => Somewhere(c)'
      BY DEF Somewhere, Queued
    <3>3. \A c : c = accepted' => Somewhere(c)'
      BY DEF Somewhere
    <3> QED BY <3>1, <3>2, <3>3
  <2>5. OnlyAccepted'
    <3>1. accepted <= accepted' /\ accepted \in Nat /\ accepted' \in Nat
      BY <2>1 DEF PoolTypeOK, Connections
    <3>2. Queued' = Queued
      BY DEF Queued
    <3> QED BY <2>2, <3>1, <3>2, LaterAccepted
  <2> QED BY <2>2, <2>3, <2>4, <2>5
<1>3. CASE NotifyOne \/ Shutdown \/ NotifyAll \/ Join
  <2> USE <1>3 DEF NotifyOne, Shutdown, NotifyAll, Join, Waiters
  <2>1. PoolTypeOK'
    BY DEF PoolTypeOK
  <2>2. \A w \in Threads : \/ worker'[w] = worker[w]
                           \/ worker[w] = "waiting" /\ worker'[w] = "ready"
    BY DEF PoolTypeOK
  <2>3. \A w \in Threads : worker'[w] = "exited" <=> worker[w] = "exited"
    BY <2>2
  <2>4. ExitedFromEmpty' /\ ClosedAfterShutdown' /\ RunningServes'
    BY <2>2, <2>3 DEF ExitedFromEmpty, ClosedAfterShutdown, RunningServes
  <2>5. NoSleepAfterShutdown'
    BY <2>2 DEF NoSleepAfterShutdown
  <2>6. NoLostWakeup'
    <3> SUFFICES ASSUME jobs_ # << >>, listener' # "notify"
                 PROVE  \E w \in Threads : worker'[w] \in {"ready", "running"}
      BY DEF NoLostWakeup
    <3>1. \A w \in Threads : worker[w] # "exited"
      BY DEF ExitedFromEmpty
    <3>2. CASE listener # "notify"
      BY <2>2, <3>2 DEF NoLostWakeup
    <3>3. CASE listener = "notify" /\ Waiters = {}
      <4>1. \A w \in Threads : worker[w] \in {"ready", "running"}
        BY <3>1, <3>3 DEF PoolTypeOK
      <4> QED BY <2>2, <4>1, PoolAssumption
    <3>4. CASE listener = "notify" /\ Waiters # {}
      <4>1. PICK w \in Waiters : worker' = [worker EXCEPT ![w] = "ready"]
        BY <3>4
      <4> QED BY <4>1 DEF PoolTypeOK
    <3> QED BY <3>2, <3>3, <3>4
  <2>7. \A c \in 1..accepted' : Somewhere(c)'
    <3>1. \A w \in Threads : worker[w] = "running" => worker'[w] = "running"
      BY <2>2
    <3> QED BY <3>1 DEF Somewhere, Queued
  <2>8. OnlyAccepted'
    BY DEF OnlyAccepted, Queued
  <2> QED BY <2>1, <2>4, <2>5, <2>6, <2>7, <2>8
<1> QED BY <1>1, <1>2, <1>3 DEF ListenerGoesOn

\* The steps of a worker thread keep the invariant.
LEMMA WorkerInv ==
    ASSUME PoolInv, NEW w \in Threads, WorkerGoesOn(w) \/ WakeSpuriously(w)
    PROVE  PoolInv'
<1> USE DEF PoolInv
<1>1. \A v \in Threads \ {w} : worker'[v] = worker[v] /\ fn'[v] = fn[v]
  BY DEF WorkerGoesOn, WakeSpuriously, TakeJob, WaitForJob, Exit, FinishJob, PoolTypeOK
<1>2. CASE TakeJob(w)
  <2>1. jobs_ # << >> /\ jobs_ \in Seq(Connections) /\ jobs_' = Tail(jobs_)
    BY <1>2 DEF TakeJob, PoolTypeOK
  <2>2. \A c \in Queued : c \in Queued' \/ c = jobs_[1]
    <3> HIDE DEF PoolInv
    <3>1. \A i \in DOMAIN jobs_ :
              i = 1 \/ (i - 1 \in DOMAIN jobs_' /\ jobs_'[i - 1] = jobs_[i])
      BY <2>1, TailKeeps
    <3> QED BY <3>1 DEF Queued
  <2> USE <1>2 DEF TakeJob
  <2>3. /\ worker'[w] = "running" /\ fn'[w] = jobs_[1] /\ 1 \in DOMAIN jobs_
        /\ jobs_[1] \in Connections /\ fn'[w] # 0
    <3>1. /\ worker'[w] = "running" /\ fn'[w] = jobs_[1] /\ 1 \in DOMAIN jobs_
          /\ jobs_[1] \in Connections
      BY DEF PoolTypeOK
    <3>2. 0 \notin Connections
      BY DEF Connections
    <3> QED BY <3>1, <3>2
  <2>4. PoolTypeOK'
    BY <2>3 DEF PoolTypeOK
  <2>5. /\ NoLostWakeup' /\ NoSleepAfterShutdown'
        /\ ExitedFromEmpty' /\ ClosedAfterShutdown' /\ RunningServes'
    BY <1>1, <2>3 DEF NoLostWakeup, NoSleepAfterShutdown, ExitedFromEmpty,
                      ClosedAfterShutdown, RunningServes
  <2>6. \A c \in 1..accepted' : Somewhere(c)'
    BY <1>1, <2>3, <2>2 DEF Somewhere
  <2>7. OnlyAccepted'
    <3>1. jobs_[1] \in Queued
      BY <2>3 DEF Queued
    <3>2. \A c \in Queued' : c \in Queued
      BY <2>1 DEF Queued
    <3> QED BY <1>1, <2>3, <3>1, <3>2 DEF OnlyAccepted
  <2> QED BY <2>4, <2>5, <2>6, <2>7
<1>3. CASE FinishJob(w)
  <2> USE <1>3 DEF FinishJob
  <2>1. worker'[w] = "ready" /\ fn'[w] = 0 /\ served' = served \cup {fn[w]}
    BY DEF PoolTypeOK
  <2>2. PoolTypeOK'
    <3>1. fn[w] \in Connections
      <4>1. fn[w] # 0
        BY DEF RunningServes
      <4> QED BY <4>1 DEF PoolTypeOK
    <3> QED BY <3>1 DEF PoolTypeOK
  <2>3. /\ NoLostWakeup' /\ NoSleepAfterShutdown'
        /\ ExitedFromEmpty' /\ ClosedAfterShutdown' /\ RunningServes'
    BY <1>1, <2>1 DEF NoLostWakeup, NoSleepAfterShutdown, ExitedFromEmpty,
                      ClosedAfterShutdown, RunningServes
  <2>4. \A c \in 1..accepted' : Somewhere(c)'
    BY <1>1, <2>1 DEF Somewhere, Queued
  <2>5. OnlyAccepted'
    <3>1. fn'[w] = 0 /\ accepted \in Nat
      BY DEF PoolTypeOK
    <3> QED BY <1>1, <2>1, <3>1 DEF OnlyAccepted, Queued
  <2> QED BY <2>2, <2>3, <2>4, <2>5
<1>4. CASE WaitForJob(w) \/ Exit(w) \/ WakeSpuriously(w)
  <2> USE <1>4 DEF WaitForJob, Exit, WakeSpuriously
  <2>1. /\ worker[w] # "running" /\ worker'[w] # "running"
        /\ worker'[w] = "exited" => shutdown_ /\ jobs_ = << >>
        /\ worker'[w] # "ready" => jobs_ = << >>
        /\ worker[w] # "exited"
        /\ listener \in {"join", "returned"} => worker'[w] # "waiting"
    BY DEF PoolTypeOK, ClosedAfterShutdown
  <2>2. PoolTypeOK'
    BY DEF PoolTypeOK
  <2>3. /\ NoLostWakeup' /\ NoSleepAfterShutdown'
        /\ ExitedFromEmpty' /\ ClosedAfterShutdown' /\ RunningServes'
    BY <1>1, <2>1 DEF NoLostWakeup, NoSleepAfterShutdown, ExitedFromEmpty,
                      ClosedAfterShutdown, RunningServes
  <2>4. \A c \in 1..accepted' : Somewhere(c)'
    BY <1>1, <2>1 DEF Somewhere, Queued
  <2>5. OnlyAccepted'
    BY DEF OnlyAccepted, Queued
  <2> QED BY <2>2, <2>3, <2>4, <2>5
<1> QED BY <1>2, <1>3, <1>4 DEF WorkerGoesOn

\* The invariant holds in every state of the pool.
LEMMA PoolInvAlways == PoolSpec => []PoolInv
<1>1. PoolInv /\ [PoolNext]_poolVars => PoolInv'
  <2>1. ASSUME PoolInv, UNCHANGED poolVars
        PROVE  PoolInv'
    BY <2>1 DEF PoolInv, poolVars, PoolTypeOK, NoLostWakeup,
                NoSleepAfterShutdown, ExitedFromEmpty,
                ClosedAfterShutdown, RunningServes, Somewhere, Queued, OnlyAccepted
  <2> QED BY <2>1, ListenerInv, WorkerInv DEF PoolNext
<1> QED BY <1>1, InitPoolInv, PTL DEF PoolSpec

\* The queue holds connections, and the threads and the listening thread stand where
\* the code has a place to stand.
THEOREM PoolTypes == PoolSpec => []PoolTypeOK
<1>1. PoolInv => PoolTypeOK
  BY DEF PoolInv
<1> QED BY <1>1, PoolInvAlways, PTL

\* ThreadPool::enqueue notifies after it has released the mutex, and one thread only:
\* even so a queued connection never waits while every thread sleeps.
THEOREM NeverLosesWakeup == PoolSpec => []NoLostWakeup
<1>1. PoolInv => NoLostWakeup
  BY DEF PoolInv
<1> QED BY <1>1, PoolInvAlways, PTL

\* ThreadPool::shutdown returns only when every accepted connection has been served.
THEOREM ShutdownDrains == PoolSpec => []JoinedMeansServed
<1>1. PoolInv => JoinedMeansServed
  <2> SUFFICES ASSUME PoolInv, listener = "returned", NEW c \in 1..accepted
               PROVE  c \in served \cup refused
    BY DEF JoinedMeansServed
  <2>1. \A w \in Threads : worker[w] = "exited"
    BY DEF PoolInv, ClosedAfterShutdown
  <2>2. Queued = {}
    BY <2>1, PoolAssumption DEF PoolInv, ExitedFromEmpty, Queued
  <2> QED BY <2>1, <2>2 DEF PoolInv, Somewhere
<1> QED BY <1>1, PoolInvAlways, PTL

\* ThreadPool::shutdown wakes every thread that sleeps, and none falls asleep again, so
\* that join never waits for a thread that nobody will wake.
THEOREM JoinFindsNoSleeper == PoolSpec => []NoSleepAfterShutdown
<1>1. PoolInv => NoSleepAfterShutdown
  BY DEF PoolInv
<1> QED BY <1>1, PoolInvAlways, PTL

-----------------------------------------------------------------------------
(* The pool implements JobQueue.                                             *)

\* JobQueue's variables, in the order of JobQueue!queueVars.
QueueView == <<jobs_, fn, served, listener # "returned">>

\* A connection that is accepted is a job that JobQueue has not seen.
LEMMA EnqueueSubmits ==
    ASSUME PoolInv, Enqueue
    PROVE  Q!Next
<1>1. /\ accepted' \in Connections /\ accepted' = accepted + 1
      /\ accepted \in Nat /\ 0 \notin Connections /\ Connections \subseteq Nat
  BY PoolAssumption DEF PoolInv, PoolTypeOK, Enqueue, Connections
<1>2. PICK c \in Connections : c = accepted'
  BY <1>1
<1>3. ASSUME Q!Known(c) PROVE FALSE
  <2>1. \A d \in Queued \cup served : d # c
    BY <1>1, <1>2 DEF PoolInv, OnlyAccepted
  <2>2. \A w \in Threads : fn[w] # c
    BY <1>1, <1>2 DEF PoolInv, OnlyAccepted
  <2> QED BY <1>3, <2>1, <2>2 DEF Q!Known, Queued
<1>4. Q!Submit(c)
  BY <1>2, <1>3 DEF Q!Submit, Enqueue
<1> QED BY <1>4 DEF Q!Next

LEMMA JoinCloses ==
    ASSUME PoolInv, Join
    PROVE  Q!Next
<1>1. \A w \in Threads : worker[w] = "exited"
  BY DEF Join
<1>2. jobs_ = << >>
  BY <1>1, PoolAssumption DEF PoolInv, ExitedFromEmpty
<1>3. \A w \in Threads : fn[w] = 0
  BY <1>1 DEF PoolInv, RunningServes
<1>4. Q!Close
  BY <1>2, <1>3 DEF Q!Close, Join
<1> QED BY <1>4 DEF Q!Next

LEMMA PoolStepIsQueues ==
    ASSUME PoolInv, [PoolNext]_poolVars
    PROVE  [Q!Next]_QueueView
<1>1. CASE Enqueue
  BY <1>1, EnqueueSubmits
<1>2. CASE Join
  BY <1>2, JoinCloses
<1>3. CASE Refuse \/ Shutdown \/ NotifyOne \/ NotifyAll \/ UNCHANGED poolVars
  BY <1>3 DEF Refuse, Shutdown, NotifyOne, NotifyAll, poolVars, QueueView
<1>4. ASSUME NEW w \in Threads, WorkerGoesOn(w) \/ WakeSpuriously(w)
      PROVE  [Q!Next]_QueueView
  <2>1. CASE TakeJob(w)
    <3>1. fn[w] = 0
      BY <2>1 DEF TakeJob, PoolInv, RunningServes
    <3>2. Q!Take(w)
      BY <2>1, <3>1 DEF TakeJob, Q!Take
    <3> QED BY <3>2 DEF Q!Next
  <2>2. CASE FinishJob(w)
    <3>1. fn[w] # 0
      BY <2>2 DEF FinishJob, PoolInv, RunningServes
    <3>2. Q!Complete(w)
      BY <2>2, <3>1 DEF FinishJob, Q!Complete
    <3> QED BY <3>2 DEF Q!Next
  <2>3. CASE WaitForJob(w) \/ Exit(w) \/ WakeSpuriously(w)
    BY <2>3 DEF WaitForJob, Exit, WakeSpuriously, QueueView
  <2> QED BY <1>4, <2>1, <2>2, <2>3 DEF WorkerGoesOn
<1> QED BY <1>1, <1>2, <1>3, <1>4 DEF PoolNext, ListenerGoesOn

\* httplib::ThreadPool is a queue: the worker threads take each accepted connection
\* once, in the order of enqueue, and shutdown leaves none.
THEOREM PoolImplementsQueue == PoolSpec => PoolIsQueue
<1>1. PoolInv /\ [PoolNext]_poolVars => [Q!Next]_QueueView
  BY PoolStepIsQueues
<1>2. PoolInit => Q!Init
  BY DEF PoolInit, Q!Init
<1> QED BY <1>1, <1>2, PoolInvAlways, PTL
        DEF PoolSpec, PoolIsQueue, Q!Spec, Q!queueVars, QueueView
=============================================================================
