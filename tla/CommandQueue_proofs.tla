-------------------------- MODULE CommandQueue_proofs --------------------------
(***************************************************************************)
(* Proofs about CommandQueue, for every number of jobs, callers and        *)
(* workers: it implements JobPool, so no job is executed twice or lost     *)
(* while the queue is open; no thread outlives the destructor; and the     *)
(* pool grows past its maximum by the callers and one worker at most.      *)
(***************************************************************************)
EXTENDS CommandQueue, SequenceTheorems, FiniteSetTheorems, TLAPS

Working(w) == wpc[w] \in {"serve", "follow"}

Pushes(t) == epc[t] = "push"

Settled == Enqueued \cup done \cup lost \cup refused

Handed(j) ==
  \/ j \in Settled
  \/ \E w \in Workers : Working(w) /\ job[w] = j
  \/ \E t \in Threads : Pushes(t) /\ ejob[t] = j

(* A job is in one place at most: with one thread on its way into a queue, *)
(* in one queue, with one worker, or in one of the histories.              *)
WithWorkers ==
  \A w \in Workers : Working(w) =>
    /\ job[w] # NoJob /\ job[w] \notin Settled
    /\ \A v \in Workers : Working(v) /\ job[v] = job[w] => v = w

WithThreads ==
  \A t \in Threads : Pushes(t) =>
    /\ ejob[t] # NoJob /\ ejob[t] \notin Settled
    /\ \A s \in Threads : Pushes(s) /\ ejob[s] = ejob[t] => s = t
    /\ \A w \in Workers : Working(w) => job[w] # ejob[t]

Apart ==
  /\ Enqueued \cap (done \cup lost \cup refused) = {}
  /\ done \cap (lost \cup refused) = {} /\ lost \cap refused = {}

(* The job another one enqueues is nowhere before that one has enqueued it. *)
FollowInv ==
  \A i \in Jobs : Follow[i] # NoJob /\ Handed(Follow[i]) =>
    i \in done \/ \E w \in Workers : wpc[w] = "follow" /\ job[w] = i

PlaceInv == WithWorkers /\ WithThreads /\ Apart /\ FollowInv

InPool(w) == \E i \in 1 .. Len(workers) : workers[i] = w

(* workers_ and the worker the control thread joins are the workers there  *)
(* are, each once.                                                         *)
WorkerInv ==
  /\ \A w \in Workers : wpc[w] # "none" <=> InPool(w) \/ w = victim
  /\ \A i, k \in 1 .. Len(workers) : workers[i] = workers[k] => i = k
  /\ ~InPool(victim)
  /\ cpc = "join" <=> victim # NoWorker

(* Who may be in enqueue() or in create_worker, and what the destructor    *)
(* has seen end.                                                           *)
ThreadInv ==
  /\ \A w \in Workers : epc[w] # "idle" => wpc[w] = "follow"
  /\ epc[control] # "idle" => cpc = "spawn"
  /\ dpc # "none" => \A t \in Callers : epc[t] = "idle"
  /\ dpc \in {"reap", "done"} => cpc = "gone"
  /\ dpc = "done" => workers = <<>>

IInv == TypeOK /\ PlaceInv /\ WorkerInv /\ ThreadInv

-----------------------------------------------------------------------------
LEMMA Initial == Init => IInv
<1> SUFFICES ASSUME Init PROVE IInv
  OBVIOUS
<1>. USE PoolAssumption DEF Init, Threads
<1>1. TypeOK
  BY DEF TypeOK, NoWorker
<1>2. PlaceInv
  BY DEF PlaceInv, WithWorkers, WithThreads, Apart, FollowInv, Handed, Settled,
         Enqueued, Working, Pushes
<1>3. WorkerInv /\ ThreadInv
  BY DEF WorkerInv, ThreadInv, InPool, NoWorker
<1>. QED
  BY <1>1, <1>2, <1>3 DEF IInv

(* Every step keeps the types, and the urgent jobs in their queue.         *)
LEMMA TypeStep ==
  ASSUME TypeOK, WithWorkers, WithThreads, [Next]_vars
  PROVE  TypeOK'
<1>. USE PoolAssumption DEF TypeOK, WithWorkers, WithThreads, Working, Pushes,
         Enqueued, Threads, NoWorker, vars, queues, pool, work, entry, ctl,
         fate
<1>1. ASSUME NEW t \in Callers, NEW j \in Jobs, CallEnqueue(t, j) PROVE TypeOK'
  BY <1>1 DEF CallEnqueue, BeginEnqueue
<1>2. ASSUME NEW t \in Threads, Push(t) PROVE TypeOK'
  BY <1>2 DEF Push, InUrgentQueue, NotifyOne
<1>3. ASSUME NEW t \in Threads, Count(t) PROVE TypeOK'
  BY <1>3 DEF Count
<1>4. ASSUME NEW t \in Threads, Create(t) PROVE TypeOK'
  BY <1>4 DEF Create, NextName
<1>5. ASSUME NEW t \in Threads, Store(t) PROVE TypeOK'
  BY <1>5 DEF Store
<1>6. ASSUME NEW w \in Workers, TestOn(w) PROVE TypeOK'
  BY <1>6 DEF TestOn
<1>7. ASSUME NEW w \in Workers, TestOff(w) PROVE TypeOK'
  BY <1>7 DEF TestOff
<1>8. ASSUME NEW w \in Workers, Take(w) PROVE TypeOK'
  BY <1>8 DEF Take, Looked, Taken
<1>9. ASSUME NEW w \in Workers, FindNone(w) PROVE TypeOK'
  BY <1>9 DEF FindNone
<1>10. ASSUME NEW w \in Workers, TimeOut(w) PROVE TypeOK'
  BY <1>10 DEF TimeOut, WaitEnds
<1>11. ASSUME NEW w \in Workers, RunFollow(w) PROVE TypeOK'
  BY <1>11 DEF RunFollow, BeginEnqueue
<1>12. ASSUME NEW w \in Workers, Finish(w) PROVE TypeOK'
  BY <1>12 DEF Finish
<1>13. CASE ControlEnds
  BY <1>13 DEF ControlEnds
<1>14. CASE DecideKill
  BY <1>14 DEF DecideKill
<1>15. CASE DecideSpawn
  BY <1>15 DEF DecideSpawn
<1>16. CASE Spawned
  BY <1>16 DEF Spawned
<1>17. CASE Kill
  <2>1. CASE workers = <<>>
    BY <1>17, <2>1 DEF Kill
  <2>2. CASE workers # <<>>
    <3>. DEFINE woken == [w \in Workers |-> IF wpc[w] = "wait" THEN "retake" ELSE wpc[w]]
    <3>1. /\ victim' = Head(workers) /\ workers' = Tail(workers)
          /\ num_workers' = Len(Tail(workers)) /\ wpc' = woken /\ cpc' = "join"
      BY <1>17, <2>2 DEF Kill
    <3>2. /\ hp_q' = hp_q /\ lp_q' = lp_q /\ job' = job /\ epc' = epc /\ ejob' = ejob
          /\ dpc' = dpc /\ done' = done /\ lost' = lost /\ refused' = refused
      BY <1>17 DEF Kill
    <3>3. Head(workers) \in Workers /\ Tail(workers) \in Seq(Workers)
      BY <2>2
    <3>4. victim' \in Workers /\ workers' \in Seq(Workers) /\ num_workers' \in Nat
      BY <3>1, <3>3
    <3>5. wpc' \in [Workers -> {"none", "test", "take", "take_low", "tired", "wait",
                               "retake", "retake_low", "serve", "follow", "gone"}]
      BY <3>1
    <3>. HIDE DEF TypeOK, woken
    <3>6. cpc' \in {"test", "consider", "spawn", "kill", "join", "gone"}
      BY <3>1
    <3>. QED
      BY <3>2, <3>4, <3>5, <3>6, Zenon DEF TypeOK
  <2>. QED
    BY <2>1, <2>2
<1>18. CASE Join
  BY <1>18 DEF Join
<1>19. CASE Destroy
  BY <1>19 DEF Destroy
<1>20. CASE Drain
  BY <1>20 DEF Drain, Taken
<1>21. CASE Drained
  BY <1>21 DEF Drained
<1>22. CASE LockWorkers
  BY <1>22 DEF LockWorkers, ControlJoined
<1>23. CASE Reap
  BY <1>23 DEF Reap
<1>24. CASE Destroyed
  BY <1>24 DEF Destroyed
<1>25. CASE UNCHANGED vars
  BY <1>25
<1>. QED
  BY <1>1, <1>2, <1>3, <1>4, <1>5, <1>6, <1>7, <1>8, <1>9, <1>10, <1>11,
     <1>12, <1>13, <1>14, <1>15, <1>16, <1>17, <1>18, <1>19, <1>20, <1>21,
     <1>22, <1>23, <1>24, <1>25 DEF Next, Enqueue, Work, Control, Destructor

(* The steps that move no job: nothing is added to a queue or taken from   *)
(* it, and no worker begins or ends to serve.                              *)
Quiet ==
  /\ UNCHANGED <<queues, job, ejob, fate>>
  /\ \A w \in Workers : /\ wpc'[w] = "serve" <=> wpc[w] = "serve"
                        /\ wpc'[w] = "follow" <=> wpc[w] = "follow"
  /\ \A t \in Threads : Pushes(t)' <=> Pushes(t)

Loud ==
  \/ \E t \in Callers, j \in Jobs : CallEnqueue(t, j)
  \/ \E t \in Threads : Push(t)
  \/ \E w \in Workers : Take(w) \/ RunFollow(w) \/ Finish(w)
  \/ Drain \/ Destroyed

LEMMA QuietSteps ==
  ASSUME TypeOK, ThreadInv, [Next]_vars
  PROVE  Quiet \/ Loud
<1>. USE PoolAssumption DEF TypeOK, ThreadInv, Quiet, Pushes, vars, queues, pool, work, entry,
         ctl, fate
<1>1. ASSUME NEW t \in Threads, Count(t) PROVE Quiet
  BY <1>1 DEF Count
<1>2. ASSUME NEW t \in Threads, Create(t) PROVE Quiet
  BY <1>2 DEF Create, NextName
<1>3. ASSUME NEW t \in Threads, Store(t) PROVE Quiet
  BY <1>3 DEF Store
<1>4. ASSUME NEW w \in Workers, TestOn(w) PROVE Quiet
  BY <1>4 DEF TestOn
<1>5. ASSUME NEW w \in Workers, TestOff(w) PROVE Quiet
  BY <1>5 DEF TestOff
<1>6. ASSUME NEW w \in Workers, FindNone(w) PROVE Quiet
  BY <1>6 DEF FindNone
<1>7. ASSUME NEW w \in Workers, TimeOut(w) PROVE Quiet
  BY <1>7 DEF TimeOut, WaitEnds
<1>8. ASSUME ControlEnds PROVE Quiet
  BY <1>8 DEF ControlEnds
<1>9. ASSUME DecideKill PROVE Quiet
  BY <1>9 DEF DecideKill
<1>10. ASSUME DecideSpawn PROVE Quiet
  BY <1>10 DEF DecideSpawn
<1>11. ASSUME Spawned PROVE Quiet
  BY <1>11 DEF Spawned
<1>12. ASSUME Kill PROVE Quiet
  BY <1>12 DEF Kill
<1>13. ASSUME Join PROVE Quiet
  BY <1>13 DEF Join
<1>14. ASSUME Destroy PROVE Quiet
  BY <1>14 DEF Destroy
<1>15. ASSUME Drained PROVE Quiet
  BY <1>15 DEF Drained
<1>16. ASSUME LockWorkers PROVE Quiet
  BY <1>16 DEF LockWorkers, ControlJoined
<1>17. ASSUME Reap PROVE Quiet
  BY <1>17 DEF Reap
<1>18. CASE UNCHANGED vars
  BY <1>18
<1>. QED
  BY <1>1, <1>2, <1>3, <1>4, <1>5, <1>6, <1>7, <1>8, <1>9, <1>10, <1>11,
     <1>12, <1>13, <1>14, <1>15, <1>16, <1>17, <1>18 DEF Loud, Next, Enqueue,
     Work, Control, Destructor

(* A worker takes its job out of the queue it finds it in.                 *)
LEMMA WorkersStep ==
  ASSUME TypeOK, ThreadInv, WithWorkers, WithThreads, Apart, FollowInv, [Next]_vars
  PROVE  WithWorkers'
<1>. USE PoolAssumption DEF TypeOK, WithWorkers, WithThreads, Apart,
         FollowInv, Handed, Offered, Serving, Pushing, Settled, Enqueued,
         Working, Pushes, Loud, Threads, queues, fate, entry, work, pool, ctl
<1>1. ASSUME NEW t \in Callers, NEW j \in Jobs, CallEnqueue(t, j) PROVE WithWorkers'
  BY <1>1 DEF CallEnqueue, BeginEnqueue
<1>2. ASSUME NEW t \in Threads, Push(t) PROVE WithWorkers'
  BY <1>2 DEF Push, InUrgentQueue, NotifyOne
<1>3. ASSUME NEW w \in Workers, Take(w) PROVE WithWorkers'
  BY <1>3 DEF Take, Looked, Taken
<1>4. ASSUME NEW w \in Workers, RunFollow(w) PROVE WithWorkers'
  BY <1>4 DEF RunFollow, BeginEnqueue
<1>5. ASSUME NEW w \in Workers, Finish(w) PROVE WithWorkers'
  BY <1>5 DEF Finish
<1>6. CASE Drain
  BY <1>6 DEF Drain, Taken
<1>7. CASE Destroyed
  BY <1>7 DEF Destroyed
<1>8. CASE Quiet
  BY <1>8 DEF Quiet
<1>. QED
  BY <1>1, <1>2, <1>3, <1>4, <1>5, <1>6, <1>7, <1>8, QuietSteps

(* A thread begins to enqueue only what nobody was handed before.          *)
LEMMA ThreadsStep ==
  ASSUME TypeOK, ThreadInv, WithWorkers, WithThreads, Apart, FollowInv, [Next]_vars
  PROVE  WithThreads'
<1>. USE PoolAssumption DEF TypeOK, WithWorkers, WithThreads, Apart,
         FollowInv, Handed, Offered, Serving, Pushing, Settled, Enqueued,
         Working, Pushes, Loud, Threads, queues, fate, entry, work, pool, ctl
<1>1. ASSUME NEW t \in Callers, NEW j \in Jobs, CallEnqueue(t, j) PROVE WithThreads'
  BY <1>1 DEF CallEnqueue, BeginEnqueue
<1>2. ASSUME NEW t \in Threads, Push(t) PROVE WithThreads'
  BY <1>2 DEF Push, InUrgentQueue, NotifyOne
<1>3. ASSUME NEW w \in Workers, Take(w) PROVE WithThreads'
  BY <1>3 DEF Take, Looked, Taken
<1>4. ASSUME NEW w \in Workers, RunFollow(w) PROVE WithThreads'
  BY <1>4 DEF RunFollow, BeginEnqueue
<1>5. ASSUME NEW w \in Workers, Finish(w) PROVE WithThreads'
  BY <1>5 DEF Finish
<1>6. CASE Drain
  BY <1>6 DEF Drain, Taken
<1>7. CASE Destroyed
  BY <1>7 DEF Destroyed
<1>8. CASE Quiet
  BY <1>8 DEF Quiet
<1>. QED
  BY <1>1, <1>2, <1>3, <1>4, <1>5, <1>6, <1>7, <1>8, QuietSteps

(* A job is settled once.                                                  *)
LEMMA ApartStep ==
  ASSUME TypeOK, ThreadInv, WithWorkers, WithThreads, Apart, FollowInv, [Next]_vars
  PROVE  Apart'
<1>. USE PoolAssumption DEF TypeOK, WithWorkers, WithThreads, Apart,
         FollowInv, Handed, Offered, Serving, Pushing, Settled, Enqueued,
         Working, Pushes, Loud, Threads, queues, fate, entry, work, pool, ctl
<1>1. ASSUME NEW t \in Callers, NEW j \in Jobs, CallEnqueue(t, j) PROVE Apart'
  BY <1>1 DEF CallEnqueue, BeginEnqueue
<1>2. ASSUME NEW t \in Threads, Push(t) PROVE Apart'
  BY <1>2 DEF Push, InUrgentQueue, NotifyOne
<1>3. ASSUME NEW w \in Workers, Take(w) PROVE Apart'
  BY <1>3 DEF Take, Looked, Taken
<1>4. ASSUME NEW w \in Workers, RunFollow(w) PROVE Apart'
  BY <1>4 DEF RunFollow, BeginEnqueue
<1>5. ASSUME NEW w \in Workers, Finish(w) PROVE Apart'
  BY <1>5 DEF Finish
<1>6. CASE Drain
  BY <1>6 DEF Drain, Taken
<1>7. CASE Destroyed
  BY <1>7 DEF Destroyed
<1>8. CASE Quiet
  BY <1>8 DEF Quiet
<1>. QED
  BY <1>1, <1>2, <1>3, <1>4, <1>5, <1>6, <1>7, <1>8, QuietSteps

(* Only the job it follows hands a job to the queue.                       *)
LEMMA FollowStep ==
  ASSUME TypeOK, ThreadInv, WithWorkers, WithThreads, Apart, FollowInv, [Next]_vars
  PROVE  FollowInv'
<1>. USE PoolAssumption DEF TypeOK, WithWorkers, WithThreads, Apart,
         FollowInv, Handed, Offered, Serving, Pushing, Settled, Enqueued,
         Working, Pushes, Loud, Threads, queues, fate, entry, work, pool, ctl
<1>1. ASSUME NEW t \in Callers, NEW j \in Jobs, CallEnqueue(t, j) PROVE FollowInv'
  <2>1. \A k \in Jobs : Handed(k)' => Handed(k) \/ k = j
    <3>1. CASE termination
      BY <1>1, <3>1 DEF CallEnqueue, BeginEnqueue
    <3>2. CASE ~termination
      <4>1. /\ epc' = [epc EXCEPT ![t] = "push"] /\ ejob' = [ejob EXCEPT ![t] = j]
            /\ UNCHANGED <<queues, work, fate>>
        BY <1>1, <3>2 DEF CallEnqueue, BeginEnqueue
      <4>2. \A s \in Threads : s # t => epc'[s] = epc[s] /\ ejob'[s] = ejob[s]
        BY <4>1
      <4>3. ejob'[t] = j
        BY <4>1
      <4>. QED
        BY <4>1, <4>2, <4>3
    <3>. QED
      BY <3>1, <3>2
  <2>2. (\A i \in Jobs : Follow[i] # j) /\ UNCHANGED <<done, wpc, job>>
    BY <1>1 DEF CallEnqueue
  <2>. QED
    BY <2>1, <2>2
<1>2. ASSUME NEW t \in Threads, Push(t) PROVE FollowInv'
  BY <1>2 DEF Push, InUrgentQueue, NotifyOne
<1>3. ASSUME NEW w \in Workers, Take(w) PROVE FollowInv'
  BY <1>3 DEF Take, Looked, Taken
<1>4. ASSUME NEW w \in Workers, RunFollow(w) PROVE FollowInv'
  BY <1>4 DEF RunFollow, BeginEnqueue
<1>5. ASSUME NEW w \in Workers, Finish(w) PROVE FollowInv'
  BY <1>5 DEF Finish
<1>6. CASE Drain
  BY <1>6 DEF Drain, Taken
<1>7. CASE Destroyed
  BY <1>7 DEF Destroyed
<1>8. CASE Quiet
  BY <1>8 DEF Quiet
<1>. QED
  BY <1>1, <1>2, <1>3, <1>4, <1>5, <1>6, <1>7, <1>8, QuietSteps

LEMMA HeadTail ==
  ASSUME workers \in Seq(Workers), workers # <<>>,
         \A i, k \in 1 .. Len(workers) : workers[i] = workers[k] => i = k
  PROVE  /\ Head(workers) \in Workers /\ InPool(Head(workers))
         /\ \A x : (\E i \in 1 .. Len(Tail(workers)) : Tail(workers)[i] = x)
                  <=> InPool(x) /\ x # Head(workers)
         /\ \A i, k \in 1 .. Len(Tail(workers)) :
              Tail(workers)[i] = Tail(workers)[k] => i = k
<1>1. /\ Len(workers) \in Nat /\ Len(workers) > 0
      /\ Len(Tail(workers)) = Len(workers) - 1
      /\ \A i \in 1 .. Len(workers) - 1 : Tail(workers)[i] = workers[i + 1]
      /\ Head(workers) = workers[1]
  BY EmptySeq, HeadTailProperties
<1>2. Head(workers) \in Workers /\ InPool(Head(workers))
  BY <1>1 DEF InPool
<1>3. \A i, k \in 1 .. Len(Tail(workers)) : Tail(workers)[i] = Tail(workers)[k] => i = k
  BY <1>1
<1>4. \A i \in 1 .. Len(workers) : i # 1 => i - 1 \in 1 .. Len(workers) - 1
  BY <1>1
<1>5. ASSUME NEW x
      PROVE  (\E i \in 1 .. Len(Tail(workers)) : Tail(workers)[i] = x)
             <=> InPool(x) /\ x # Head(workers)
  BY <1>1, <1>4 DEF InPool
<1>. QED
  BY <1>2, <1>3, <1>5

(* A new worker has a name of its own; one that is taken out of workers_   *)
(* is joined.                                                              *)
LEMMA WorkerStep ==
  ASSUME TypeOK, WorkerInv, [Next]_vars
  PROVE  WorkerInv'
<1>. USE PoolAssumption DEF TypeOK, WorkerInv, InPool, NoWorker, Threads,
         vars, queues, pool, work, entry, ctl, fate
<1>1. ASSUME NEW t \in Callers, NEW j \in Jobs, CallEnqueue(t, j) PROVE WorkerInv'
  BY <1>1 DEF CallEnqueue, BeginEnqueue
<1>2. ASSUME NEW t \in Threads, Push(t) PROVE WorkerInv'
  BY <1>2 DEF Push, InUrgentQueue, NotifyOne
<1>3. ASSUME NEW t \in Threads, Count(t) PROVE WorkerInv'
  BY <1>3 DEF Count
<1>4. ASSUME NEW t \in Threads, Create(t) PROVE WorkerInv'
  BY <1>4 DEF Create, NextName
<1>5. ASSUME NEW t \in Threads, Store(t) PROVE WorkerInv'
  BY <1>5 DEF Store
<1>6. ASSUME NEW w \in Workers, TestOn(w) PROVE WorkerInv'
  BY <1>6 DEF TestOn
<1>7. ASSUME NEW w \in Workers, TestOff(w) PROVE WorkerInv'
  BY <1>7 DEF TestOff
<1>8. ASSUME NEW w \in Workers, Take(w) PROVE WorkerInv'
  BY <1>8 DEF Take, Looked, Taken
<1>9. ASSUME NEW w \in Workers, FindNone(w) PROVE WorkerInv'
  BY <1>9 DEF FindNone
<1>10. ASSUME NEW w \in Workers, TimeOut(w) PROVE WorkerInv'
  BY <1>10 DEF TimeOut, WaitEnds
<1>11. ASSUME NEW w \in Workers, RunFollow(w) PROVE WorkerInv'
  BY <1>11 DEF RunFollow, BeginEnqueue
<1>12. ASSUME NEW w \in Workers, Finish(w) PROVE WorkerInv'
  BY <1>12 DEF Finish
<1>13. CASE ControlEnds
  BY <1>13 DEF ControlEnds
<1>14. CASE DecideKill
  BY <1>14 DEF DecideKill
<1>15. CASE DecideSpawn
  BY <1>15 DEF DecideSpawn
<1>16. CASE Spawned
  BY <1>16 DEF Spawned
<1>17. CASE Kill
  <2>1. CASE workers = <<>>
    BY <1>17, <2>1 DEF Kill
  <2>2. CASE workers # <<>>
    <3>1. /\ victim' = Head(workers) /\ workers' = Tail(workers) /\ cpc' = "join"
          /\ \A w \in Workers : wpc'[w] # "none" <=> wpc[w] # "none"
          /\ victim = NoWorker
      BY <1>17, <2>2 DEF Kill
    <3>2. /\ \A w \in Workers : InPool(w) <=> InPool(w)' \/ w = victim'
          /\ ~InPool(victim)' /\ victim' \in Workers
      BY <2>2, <3>1, HeadTail
    <3>3. \A i, k \in 1 .. Len(workers') : workers'[i] = workers'[k] => i = k
      BY <2>2, <3>1, HeadTail
    <3>. QED
      BY <3>1, <3>2, <3>3
  <2>. QED
    BY <2>1, <2>2
<1>18. CASE Join
  BY <1>18 DEF Join
<1>19. CASE Destroy
  BY <1>19 DEF Destroy
<1>20. CASE Drain
  BY <1>20 DEF Drain, Taken
<1>21. CASE Drained
  BY <1>21 DEF Drained
<1>22. CASE LockWorkers
  BY <1>22 DEF LockWorkers, ControlJoined
<1>23. CASE Reap
  <2>1. /\ workers # <<>> /\ workers' = Tail(workers)
        /\ wpc' = [wpc EXCEPT ![Head(workers)] = "none"]
        /\ UNCHANGED <<victim, cpc>>
    BY <1>23 DEF Reap
  <2>2. /\ \A w : InPool(w)' <=> InPool(w) /\ w # Head(workers)
        /\ InPool(Head(workers))
    BY <2>1, HeadTail
  <2>3. \A i, k \in 1 .. Len(workers') : workers'[i] = workers'[k] => i = k
    BY <2>1, HeadTail
  <2>. HIDE DEF InPool
  <2>4. \A w \in Workers : wpc'[w] # "none" <=> wpc[w] # "none" /\ w # Head(workers)
    BY <2>1
  <2>. QED
    BY <2>1, <2>2, <2>3, <2>4
<1>24. CASE Destroyed
  BY <1>24 DEF Destroyed
<1>25. CASE UNCHANGED vars
  BY <1>25
<1>. QED
  BY <1>1, <1>2, <1>3, <1>4, <1>5, <1>6, <1>7, <1>8, <1>9, <1>10, <1>11,
     <1>12, <1>13, <1>14, <1>15, <1>16, <1>17, <1>18, <1>19, <1>20, <1>21,
     <1>22, <1>23, <1>24, <1>25 DEF Next, Enqueue, Work, Control, Destructor

(* A worker is in enqueue() only in a job, the control thread in           *)
(* create_worker only when it creates one.                                 *)
LEMMA ThreadStep ==
  ASSUME TypeOK, WorkerInv, ThreadInv, [Next]_vars
  PROVE  ThreadInv'
<1>. USE PoolAssumption DEF TypeOK, WorkerInv, ThreadInv, InPool, NoWorker,
         Threads, termination, vars, queues, pool, work, entry, ctl, fate
<1>1. ASSUME NEW t \in Callers, NEW j \in Jobs, CallEnqueue(t, j) PROVE ThreadInv'
  BY <1>1 DEF CallEnqueue, BeginEnqueue
<1>2. ASSUME NEW t \in Threads, Push(t) PROVE ThreadInv'
  BY <1>2 DEF Push, InUrgentQueue, NotifyOne
<1>3. ASSUME NEW t \in Threads, Count(t) PROVE ThreadInv'
  BY <1>3 DEF Count
<1>4. ASSUME NEW t \in Threads, Create(t) PROVE ThreadInv'
  <2>1. PICK w \in Workers : wpc[w] = "none" /\ wpc' = [wpc EXCEPT ![w] = "test"]
    BY <1>4 DEF Create, NextName
  <2>2. epc[t] = "create" /\ epc' = [epc EXCEPT ![t] = "store"]
    BY <1>4 DEF Create
  <2>3. UNCHANGED <<cpc, dpc>>
    BY <1>4 DEF Create
  <2>4. dpc # "done"
    <3>1. ASSUME dpc = "done" PROVE cpc = "gone" /\ (\A v : ~InPool(v)) /\ victim = NoWorker
      BY <3>1
    <3>2. ASSUME dpc = "done", t \in Workers PROVE FALSE
      BY <3>1, <3>2, <2>2
    <3>3. ASSUME dpc = "done", t \in Callers \cup {control} PROVE FALSE
      BY <3>1, <3>3, <2>2
    <3>. QED
      BY <3>2, <3>3
  <2>. QED
    BY <2>1, <2>2, <2>3, <2>4
<1>5. ASSUME NEW t \in Threads, Store(t) PROVE ThreadInv'
  BY <1>5 DEF Store
<1>6. ASSUME NEW w \in Workers, TestOn(w) PROVE ThreadInv'
  BY <1>6 DEF TestOn
<1>7. ASSUME NEW w \in Workers, TestOff(w) PROVE ThreadInv'
  BY <1>7 DEF TestOff
<1>8. ASSUME NEW w \in Workers, Take(w) PROVE ThreadInv'
  BY <1>8 DEF Take, Looked, Taken
<1>9. ASSUME NEW w \in Workers, FindNone(w) PROVE ThreadInv'
  BY <1>9 DEF FindNone
<1>10. ASSUME NEW w \in Workers, TimeOut(w) PROVE ThreadInv'
  BY <1>10 DEF TimeOut, WaitEnds
<1>11. ASSUME NEW w \in Workers, RunFollow(w) PROVE ThreadInv'
  BY <1>11 DEF RunFollow, BeginEnqueue
<1>12. ASSUME NEW w \in Workers, Finish(w) PROVE ThreadInv'
  BY <1>12 DEF Finish
<1>13. CASE ControlEnds
  BY <1>13 DEF ControlEnds
<1>14. CASE DecideKill
  BY <1>14 DEF DecideKill
<1>15. CASE DecideSpawn
  BY <1>15 DEF DecideSpawn
<1>16. CASE Spawned
  BY <1>16 DEF Spawned
<1>17. CASE Kill
  BY <1>17 DEF Kill
<1>18. CASE Join
  BY <1>18 DEF Join
<1>19. CASE Destroy
  BY <1>19 DEF Destroy
<1>20. CASE Drain
  BY <1>20 DEF Drain, Taken
<1>21. CASE Drained
  BY <1>21 DEF Drained
<1>22. CASE LockWorkers
  BY <1>22 DEF LockWorkers, ControlJoined
<1>23. CASE Reap
  BY <1>23 DEF Reap
<1>24. CASE Destroyed
  BY <1>24 DEF Destroyed
<1>25. CASE UNCHANGED vars
  BY <1>25
<1>. QED
  BY <1>1, <1>2, <1>3, <1>4, <1>5, <1>6, <1>7, <1>8, <1>9, <1>10, <1>11,
     <1>12, <1>13, <1>14, <1>15, <1>16, <1>17, <1>18, <1>19, <1>20, <1>21,
     <1>22, <1>23, <1>24, <1>25 DEF Next, Enqueue, Work, Control, Destructor

-----------------------------------------------------------------------------
LEMMA Invariant == Spec => []IInv
<1>1. IInv /\ [Next]_vars => IInv'
  BY TypeStep, WorkersStep, ThreadsStep, ApartStep, FollowStep, WorkerStep, ThreadStep
     DEF IInv, PlaceInv
<1>. QED
  BY <1>1, Initial, PTL DEF Spec

(* Every variable keeps its type; an urgent job is never in the other      *)
(* queue.                                                                  *)
THEOREM TypeCorrect == Spec => []TypeOK
<1>1. IInv => TypeOK
  BY DEF IInv
<1>. QED
  BY <1>1, Invariant, PTL

(* When the destructor returns the control thread and every worker have    *)
(* been joined, and nobody is in enqueue().                                *)
THEOREM DestructorLeavesNobody == Spec => []NothingOutlives
<1>1. IInv => NothingOutlives
  <2> SUFFICES ASSUME IInv, dpc = "done" PROVE NothingOutlives
    BY DEF NothingOutlives
  <2>. USE DEF IInv, TypeOK, ThreadInv
  <2>1. cpc = "gone" /\ workers = <<>>
    OBVIOUS
  <2>2. \A w \in Workers : wpc[w] = "none"
    BY <2>1, PoolAssumption DEF WorkerInv, InPool, NoWorker
  <2>3. \A t \in Threads : epc[t] = "idle"
    BY <2>1, <2>2 DEF Threads
  <2>. QED
    BY <2>1, <2>2, <2>3 DEF NothingOutlives
<1>. QED
  BY <1>1, Invariant, PTL

-----------------------------------------------------------------------------
LEMMA PoolInitial == Init => Pool!Init
  BY DEF Init, Pool!Init, Enqueued, Serving, termination

(* Every step of the queue is a step of JobPool or none.                   *)
LEMMA PoolStep ==
  ASSUME IInv, [Next]_vars
  PROVE  [Pool!Next]_(Pool!vars)
<1>. USE PoolAssumption DEF IInv, TypeOK, PlaceInv, Working, Pushes, Settled,
         Enqueued, Serving, Threads, queues, entry, fate
<1>1. ASSUME NEW t \in Callers, NEW j \in Jobs, CallEnqueue(t, j)
      PROVE  UNCHANGED Pool!vars
  BY <1>1 DEF CallEnqueue, BeginEnqueue, Pool!vars, termination, work
<1>2. ASSUME NEW t \in Threads, Push(t)
      PROVE  Pool!Next
  <2>1. PICK j \in Jobs : j = ejob[t]
    BY <1>2 DEF Push, WithThreads
  <2>2. j \notin Enqueued \cup Serving \cup done \cup lost
    BY <1>2, <2>1 DEF Push, WithThreads
  <2>3. Enqueued' = Enqueued \cup {j}
    BY <1>2, <2>1 DEF Push, InUrgentQueue
  <2>4. Serving' = Serving /\ UNCHANGED <<done, lost, termination>>
    BY <1>2 DEF Push, NotifyOne, termination
  <2>5. Pool!Accept(j)
    BY <2>2, <2>3, <2>4 DEF Pool!Accept
  <2>. QED
    BY <2>5 DEF Pool!Next
<1>3. ASSUME NEW w \in Workers, Take(w)
      PROVE  Pool!Next
  <2>1. PICK j \in Jobs : j = job'[w]
    BY <1>3 DEF Take, Looked
  <2>2. j \in Enqueued /\ Enqueued' = Enqueued \ {j}
    BY <1>3, <2>1 DEF Take, Taken, Looked
  <2>3. Serving' = Serving \cup {j}
    BY <1>3, <2>1 DEF Take, Looked, WithWorkers
  <2>4. UNCHANGED <<done, lost, termination>>
    BY <1>3 DEF Take, termination
  <2>5. Pool!Begin(j)
    BY <2>2, <2>3, <2>4 DEF Pool!Begin
  <2>. QED
    BY <2>5 DEF Pool!Next
<1>4. ASSUME NEW w \in Workers, RunFollow(w)
      PROVE  UNCHANGED Pool!vars
  BY <1>4 DEF RunFollow, BeginEnqueue, Pool!vars, termination
<1>5. ASSUME NEW w \in Workers, Finish(w)
      PROVE  Pool!Next
  <2>1. PICK j \in Jobs : j = job[w]
    BY <1>5 DEF Finish, WithWorkers
  <2>2. j \in Serving /\ Serving' = Serving \ {j}
    BY <1>5, <2>1 DEF Finish, WithWorkers
  <2>3. done' = done \cup {j} /\ UNCHANGED <<Enqueued, lost, termination>>
    BY <1>5, <2>1 DEF Finish, termination
  <2>4. Pool!Finish(j)
    BY <2>2, <2>3 DEF Pool!Finish
  <2>. QED
    BY <2>4 DEF Pool!Next
<1>6. CASE Drain
  <2>1. PICK j \in Enqueued : Taken(j) /\ lost' = lost \cup {j}
    BY <1>6 DEF Drain
  <2>2. Enqueued' = Enqueued \ {j} /\ UNCHANGED <<Serving, done, termination>>
    BY <1>6, <2>1 DEF Drain, Taken, termination, work
  <2>3. Pool!GiveUp({j})
    BY <1>6, <2>1, <2>2 DEF Drain, Pool!GiveUp, termination
  <2>. QED
    BY <2>3 DEF Pool!Next
<1>7. CASE Destroyed
  <2>1. Pool!GiveUp(Enqueued)
    BY <1>7 DEF Destroyed, Pool!GiveUp, termination, work
  <2>. QED
    BY <2>1 DEF Pool!Next
<1>8. CASE Quiet
  <2>1. UNCHANGED <<Enqueued, Serving, done, lost>>
    BY <1>8 DEF Quiet
  <2>2. termination => termination'
    BY DEF termination, Next, Enqueue, Work, Control, Destructor, vars, pool, work, ctl,
         CallEnqueue, Push, Count, Create, Store, TestOn, TestOff, Take, FindNone,
         TimeOut, RunFollow, Finish, ControlEnds, DecideKill, DecideSpawn, Spawned,
         Kill, Join, Destroy, Drain, Drained, LockWorkers, Reap, Destroyed
  <2>. QED
    BY <2>1, <2>2 DEF Pool!Next, Pool!Close, Pool!vars, termination
<1>. QED
  BY <1>1, <1>2, <1>3, <1>4, <1>5, <1>6, <1>7, <1>8, QuietSteps DEF Loud

(* The queue does what JobPool promises: a job that was accepted is        *)
(* executed once, by one worker, and dropped only when the queue is being  *)
(* destroyed.                                                              *)
THEOREM QueueImplementsPool == Spec => ImplementsJobPool
<1>. QED
  BY Invariant, PoolInitial, PoolStep, PTL DEF Spec, ImplementsJobPool, Pool!Spec
-----------------------------------------------------------------------------
(* The size of the pool.  Whoever is at "create" adds a worker sooner or    *)
(* later, so what is bounded is the workers there are and those to come.   *)

Creating(t) == epc[t] \in {"create", "store"}

Creators == {t \in Threads : epc[t] = "create"}

(* The count lags behind while the thread that holds the lock stores it.   *)
CountInv ==
  /\ \A t, u \in Threads : epc[t] = "store" /\ epc[u] = "store" => t = u
  /\ dpc = "reap" => \A t \in Threads : epc[t] # "store"
  /\ (\A t \in Threads : epc[t] # "store") => Len(workers) = num_workers
  /\ (\E t \in Threads : epc[t] = "store") => Len(workers) = num_workers + 1

(* Of the workers one creates another at most, beside the one the control  *)
(* thread joins: a job sees no worker only when its own is the first, and  *)
(* not counted yet, or has been taken out.                                 *)
OneCreator ==
  \A v, w \in Workers :
    Creating(v) /\ Creating(w) /\ v # victim /\ w # victim => v = w

CreatorsBounded ==
  /\ IsFiniteSet(Creators)
  /\ Len(workers) + Cardinality(Creators) <= MaxWorkers + Cardinality(Callers) + 1

SizeInv == CountInv /\ OneCreator /\ CreatorsBounded

LEMMA SizeInitial == Init => SizeInv
<1> SUFFICES ASSUME Init PROVE SizeInv
  OBVIOUS
<1>1. Creators = {} /\ \A t \in Threads : ~Creating(t) /\ epc[t] # "store"
  BY DEF Init, Creators, Creating
<1>2. Len(workers) = 0 /\ num_workers = 0 /\ dpc = "none"
  BY DEF Init
<1>3. IsFiniteSet(Creators) /\ Cardinality(Creators) = 0
  BY <1>1, FS_EmptySet
<1>4. Cardinality(Callers) \in Nat /\ MaxWorkers \in Nat
  BY PoolAssumption, CallersAssumption, FS_CardinalityType
<1>. QED
  BY <1>1, <1>2, <1>3, <1>4 DEF SizeInv, CountInv, OneCreator, CreatorsBounded, Threads

(* How many threads a set holds of which all but one or two are callers.   *)
LEMMA CallersOnly ==
  ASSUME NEW D, D \subseteq Callers
  PROVE  /\ IsFiniteSet(D) /\ Cardinality(D) \in Nat
         /\ Cardinality(D) <= Cardinality(Callers)
BY CallersAssumption, FS_Subset, FS_CardinalityType

LEMMA CallersAndOne ==
  ASSUME NEW x, NEW D, D \subseteq Callers \cup {x}
  PROVE  /\ IsFiniteSet(D) /\ Cardinality(D) \in Nat
         /\ Cardinality(D) <= Cardinality(Callers) + 1
<1>1. IsFiniteSet(Callers) /\ Cardinality(Callers) \in Nat
  BY CallersAssumption, FS_CardinalityType
<1>2. /\ IsFiniteSet(Callers \cup {x})
      /\ Cardinality(Callers \cup {x}) \in {Cardinality(Callers), Cardinality(Callers) + 1}
  BY <1>1, FS_AddElement
<1>3. IsFiniteSet(D) /\ Cardinality(D) <= Cardinality(Callers \cup {x})
  BY <1>2, FS_Subset
<1>4. Cardinality(D) \in Nat
  BY <1>3, FS_CardinalityType
<1>. QED
  BY <1>1, <1>2, <1>3, <1>4

LEMMA AllButOneAndOne ==
  ASSUME NEW u \in Callers, NEW x, NEW D, D \subseteq (Callers \ {u}) \cup {x}
  PROVE  /\ IsFiniteSet(D) /\ Cardinality(D) \in Nat
         /\ Cardinality(D) <= Cardinality(Callers)
<1>1. IsFiniteSet(Callers) /\ Cardinality(Callers) \in Nat
  BY CallersAssumption, FS_CardinalityType
<1>2. /\ IsFiniteSet(Callers \ {u})
      /\ Cardinality(Callers \ {u}) = Cardinality(Callers) - 1
  BY <1>1, FS_RemoveElement
<1>3. /\ IsFiniteSet((Callers \ {u}) \cup {x})
      /\ Cardinality((Callers \ {u}) \cup {x})
           \in {Cardinality(Callers) - 1, Cardinality(Callers)}
  BY <1>1, <1>2, FS_AddElement
<1>4. IsFiniteSet(D) /\ Cardinality(D) <= Cardinality((Callers \ {u}) \cup {x})
  BY <1>3, FS_Subset
<1>5. Cardinality(D) \in Nat
  BY <1>4, FS_CardinalityType
<1>. QED
  BY <1>1, <1>3, <1>4, <1>5

LEMMA AllButOneAndTwo ==
  ASSUME NEW u \in Callers, NEW x, NEW y, NEW D, D \subseteq (Callers \ {u}) \cup {x, y}
  PROVE  /\ IsFiniteSet(D) /\ Cardinality(D) \in Nat
         /\ Cardinality(D) <= Cardinality(Callers) + 1
<1>1. /\ IsFiniteSet(D \ {y}) /\ Cardinality(D \ {y}) \in Nat
      /\ Cardinality(D \ {y}) <= Cardinality(Callers)
  BY AllButOneAndOne, D \ {y} \subseteq (Callers \ {u}) \cup {x}
<1>2. /\ IsFiniteSet((D \ {y}) \cup {y})
      /\ Cardinality((D \ {y}) \cup {y}) = Cardinality(D \ {y}) + 1
  BY <1>1, FS_AddElement
<1>3. IsFiniteSet(D) /\ Cardinality(D) <= Cardinality((D \ {y}) \cup {y})
  BY <1>2, FS_Subset, D \subseteq (D \ {y}) \cup {y}
<1>4. Cardinality(D) \in Nat
  BY <1>3, FS_CardinalityType
<1>5. Cardinality(Callers) \in Nat
  BY CallersAssumption, FS_CardinalityType
<1>. QED
  BY <1>1, <1>2, <1>3, <1>4, <1>5

LEMMA OneMoreCreator ==
  ASSUME NEW C, NEW D, NEW x, D \subseteq C \cup {x},
         IsFiniteSet(C), Cardinality(C) \in Nat
  PROVE  /\ IsFiniteSet(D) /\ Cardinality(D) \in Nat
         /\ Cardinality(D) <= Cardinality(C) + 1
<1>1. /\ IsFiniteSet(C \cup {x})
      /\ Cardinality(C \cup {x}) \in {Cardinality(C), Cardinality(C) + 1}
  BY FS_AddElement
<1>2. IsFiniteSet(D) /\ Cardinality(D) <= Cardinality(C \cup {x})
  BY <1>1, FS_Subset
<1>3. Cardinality(D) \in Nat
  BY <1>2, FS_CardinalityType
<1>. QED
  BY <1>1, <1>2, <1>3

(* Who can be in enqueue() while the count is zero, beside the callers: the *)
(* control thread or the worker it joins, and the worker not counted yet.  *)
LEMMA BusyAtZero ==
  ASSUME IInv, SizeInv, num_workers = 0
  PROVE  \E x, y :
           /\ \A t \in Threads : epc[t] # "idle" => t \in Callers \cup {x, y}
           /\ \A w \in Workers : epc[w] # "idle" /\ w # victim => w = y
           /\ \/ Len(workers) = 0 /\ y = x
              \/ Len(workers) = 1 /\ \E t \in Threads : epc[t] = "store"
<1>. USE PoolAssumption DEF IInv, TypeOK, WorkerInv, ThreadInv, InPool, SizeInv, CountInv
<1>1. \A w \in Workers : epc[w] # "idle" /\ w # victim => InPool(w)
  OBVIOUS
<1>2. PICK x : x = IF victim = NoWorker THEN control ELSE victim
  OBVIOUS
<1>3. \A t \in Threads : epc[t] # "idle" => t \in Callers \/ t = x \/ InPool(t)
  <2>1. NoWorker \notin Workers
    BY DEF NoWorker
  <2>2. epc[control] # "idle" => x = control
    BY <1>2
  <2>3. \A w \in Workers : w = victim => w = x
    BY <1>2, <2>1
  <2>. QED
    BY <1>1, <2>2, <2>3 DEF Threads
<1>4. CASE \A t \in Threads : epc[t] # "store"
  <2>1. Len(workers) = 0
    BY <1>4
  <2>2. \A w : ~InPool(w)
    BY <2>1
  <2>. HIDE DEF IInv, TypeOK, WorkerInv, ThreadInv, SizeInv, CountInv, InPool
  <2>3. \A t \in Threads : epc[t] # "idle" => t \in Callers \cup {x, x}
    BY <1>3, <2>2
  <2>4. \A w \in Workers : epc[w] # "idle" /\ w # victim => w = x
    BY <1>1, <2>2
  <2>. QED
    BY <2>1, <2>3, <2>4
<1>5. CASE \E t \in Threads : epc[t] = "store"
  <2>1. Len(workers) = 1
    BY <1>5
  <2>2. PICK y : y = workers[1]
    OBVIOUS
  <2>3. \A w : InPool(w) => w = y
    BY <2>1, <2>2
  <2>. HIDE DEF IInv, TypeOK, WorkerInv, ThreadInv, SizeInv, CountInv, InPool
  <2>4. \A t \in Threads : epc[t] # "idle" => t \in Callers \cup {x, y}
    BY <1>3, <2>3
  <2>5. \A w \in Workers : epc[w] # "idle" /\ w # victim => w = y
    BY <1>1, <2>3
  <2>. QED
    BY <1>5, <2>1, <2>4, <2>5
<1>. QED
  BY <1>4, <1>5

(* The steps that change nothing the size of the pool depends on.          *)
Still ==
  /\ UNCHANGED <<workers, num_workers, victim>>
  /\ \A t \in Threads : /\ epc'[t] = "create" <=> epc[t] = "create"
                        /\ epc'[t] = "store" <=> epc[t] = "store"
  /\ dpc' = "reap" => dpc = "reap" \/ WorkersUnlocked

Sizing ==
  \/ \E t \in Threads : Create(t) \/ Store(t) \/ (Count(t) /\ num_workers = 0)
  \/ (DecideSpawn /\ MaySpawn) \/ Kill \/ Join \/ Reap

LEMMA StillSteps ==
  ASSUME TypeOK, ThreadInv, [Next]_vars
  PROVE  Still \/ Sizing
<1>. USE PoolAssumption DEF TypeOK, ThreadInv, Still, vars, queues, pool, work, entry,
         ctl, fate, Threads
<1>1. ASSUME NEW t \in Callers, NEW j \in Jobs, CallEnqueue(t, j) PROVE Still
  BY <1>1 DEF CallEnqueue, BeginEnqueue
<1>2. ASSUME NEW t \in Threads, Push(t) PROVE Still
  BY <1>2 DEF Push
<1>3. ASSUME NEW t \in Threads, Count(t), num_workers # 0 PROVE Still
  BY <1>3 DEF Count
<1>4. ASSUME NEW w \in Workers, TestOn(w) PROVE Still
  BY <1>4 DEF TestOn
<1>5. ASSUME NEW w \in Workers, TestOff(w) PROVE Still
  BY <1>5 DEF TestOff
<1>6. ASSUME NEW w \in Workers, Take(w) PROVE Still
  BY <1>6 DEF Take
<1>7. ASSUME NEW w \in Workers, FindNone(w) PROVE Still
  BY <1>7 DEF FindNone
<1>8. ASSUME NEW w \in Workers, TimeOut(w) PROVE Still
  BY <1>8 DEF TimeOut
<1>9. ASSUME NEW w \in Workers, RunFollow(w) PROVE Still
  BY <1>9 DEF RunFollow, BeginEnqueue
<1>10. ASSUME NEW w \in Workers, Finish(w) PROVE Still
  BY <1>10 DEF Finish
<1>11. CASE ControlEnds
  BY <1>11 DEF ControlEnds
<1>12. CASE DecideKill
  BY <1>12 DEF DecideKill
<1>13. ASSUME DecideSpawn PROVE Still \/ MaySpawn
  BY <1>13 DEF DecideSpawn
<1>14. CASE Spawned
  BY <1>14 DEF Spawned
<1>15. CASE Destroy
  BY <1>15 DEF Destroy
<1>16. CASE Drain
  BY <1>16 DEF Drain
<1>17. CASE Drained
  BY <1>17 DEF Drained
<1>18. CASE LockWorkers
  BY <1>18 DEF LockWorkers
<1>19. CASE Destroyed
  BY <1>19 DEF Destroyed
<1>20. CASE UNCHANGED vars
  BY <1>20
<1>. HIDE DEF TypeOK, ThreadInv, Still, vars, Threads
<1>21. ASSUME NEW t \in Threads, Enqueue(t) PROVE Still \/ Sizing
  <2>1. CASE Push(t)
    BY <1>2, <2>1
  <2>2. CASE Count(t)
    BY <1>3, <2>2 DEF Sizing
  <2>3. CASE Create(t) \/ Store(t)
    BY <2>3 DEF Sizing
  <2>. QED
    BY <1>21, <2>1, <2>2, <2>3 DEF Enqueue
<1>22. (\E w \in Workers : Work(w)) => Still
  BY <1>4, <1>5, <1>6, <1>7, <1>8, <1>9, <1>10 DEF Work
<1>. QED
  BY <1>1, <1>11, <1>12, <1>13, <1>14, <1>15, <1>16, <1>17, <1>18, <1>19, <1>20, <1>21, <1>22
     DEF Sizing, Next, Control, Destructor

LEMMA StillKeeps ==
  ASSUME SizeInv, Still
  PROVE  SizeInv'
<1>1. CountInv'
  BY DEF Still, SizeInv, CountInv, WorkersUnlocked
<1>2. OneCreator'
  BY DEF Still, SizeInv, OneCreator, Creating, Threads
<1>3. Creators' = Creators
  BY DEF Still, Creators, Threads
<1>4. CreatorsBounded'
  BY <1>3 DEF Still, SizeInv, CreatorsBounded
<1>. QED
  BY <1>1, <1>2, <1>4 DEF SizeInv

(* The count: it is only out of step while the lock is held.               *)
LEMMA CountStep ==
  ASSUME TypeOK, ThreadInv, CountInv, Sizing
  PROVE  CountInv'
<1>. USE PoolAssumption DEF TypeOK, CountInv, WorkersUnlocked, Threads, pool, entry, ctl,
         queues, work, fate
<1>1. ASSUME NEW t \in Threads, Create(t) PROVE CountInv'
  <2>1. /\ epc' = [epc EXCEPT ![t] = "store"] /\ dpc # "reap" /\ dpc' = dpc
        /\ num_workers' = num_workers /\ \A u \in Threads : epc[u] # "store"
    BY <1>1 DEF Create
  <2>2. PICK w \in Workers : workers' = Append(workers, w)
    BY <1>1 DEF Create
  <2>3. Len(workers') = Len(workers) + 1
    BY <2>2
  <2>. QED
    BY <2>1, <2>3
<1>2. ASSUME NEW t \in Threads, Store(t) PROVE CountInv'
  BY <1>2 DEF Store
<1>3. ASSUME NEW t \in Threads, Count(t), num_workers = 0 PROVE CountInv'
  BY <1>3 DEF Count
<1>4. ASSUME DecideSpawn, MaySpawn PROVE CountInv'
  BY <1>4 DEF DecideSpawn, ThreadInv
<1>5. CASE Kill
  <2>1. /\ UNCHANGED <<epc, dpc>>
        /\ \/ workers' = workers /\ num_workers' = num_workers
           \/ num_workers' = Len(workers')
        /\ \A t \in Threads : epc[t] # "store"
    BY <1>5 DEF Kill
  <2>. QED
    BY <2>1
<1>6. CASE Join
  BY <1>6 DEF Join
<1>7. CASE Reap
  <2>1. UNCHANGED <<epc, dpc>> /\ num_workers' = Len(workers') /\ dpc = "reap"
    BY <1>7 DEF Reap
  <2>. QED
    BY <2>1
<1>. QED
  BY <1>1, <1>2, <1>3, <1>4, <1>5, <1>6, <1>7 DEF Sizing

(* A second worker is at "create" only while the control thread joins the  *)
(* first.                                                                  *)
LEMMA OneCreatorStep ==
  ASSUME IInv, SizeInv, Sizing
  PROVE  OneCreator'
<1>. USE PoolAssumption DEF IInv, TypeOK, WorkerInv, ThreadInv, SizeInv, OneCreator,
         Creating, Threads, entry, ctl, pool, NoWorker
<1>1. ASSUME NEW t \in Threads, Create(t) PROVE OneCreator'
  BY <1>1 DEF Create
<1>2. ASSUME NEW t \in Threads, Store(t) PROVE OneCreator'
  BY <1>2 DEF Store
<1>3. ASSUME NEW t \in Threads, Count(t), num_workers = 0 PROVE OneCreator'
  <2>1. PICK y : \A w \in Workers : epc[w] # "idle" /\ w # victim => w = y
    BY <1>3, BusyAtZero
  <2>2. /\ victim' = victim
        /\ \A w \in Workers : epc'[w] # "idle" => epc[w] # "idle"
    BY <1>3 DEF Count
  <2>. QED
    BY <2>1, <2>2
<1>4. ASSUME DecideSpawn, MaySpawn PROVE OneCreator'
  BY <1>4 DEF DecideSpawn
<1>5. CASE Kill
  <2>1. victim = NoWorker /\ epc' = epc
    BY <1>5 DEF Kill
  <2>2. \A w \in Workers : w # victim
    BY <2>1
  <2>. QED
    BY <2>1, <2>2
<1>6. CASE Join
  <2>1. victim \in Workers /\ ~Creating(victim) /\ epc' = epc
    BY <1>6 DEF Join
  <2>. QED
    BY <2>1
<1>7. CASE Reap
  BY <1>7 DEF Reap
<1>. QED
  BY <1>1, <1>2, <1>3, <1>4, <1>5, <1>6, <1>7 DEF Sizing

(* The thread that finds the count zero is one of few that can.            *)
LEMMA CountBounded ==
  ASSUME IInv, SizeInv, NEW t \in Threads, Count(t), num_workers = 0
  PROVE  CreatorsBounded'
<1>1. PICK x, y :
        /\ \A u \in Threads : epc[u] # "idle" => u \in Callers \cup {x, y}
        /\ \/ Len(workers) = 0 /\ y = x
           \/ Len(workers) = 1 /\ \E u \in Threads : epc[u] = "store"
  BY BusyAtZero
<1>2. Creators' = Creators \cup {t} /\ epc[t] = "count" /\ workers' = workers
  BY PoolAssumption DEF IInv, TypeOK, Count, Creators, Threads, pool
<1>3. \A u \in Creators' : epc[u] \in {"create", "count"} /\ u \in Callers \cup {x, y}
  BY <1>1, <1>2 DEF Creators
<1>4. Cardinality(Callers) \in Nat /\ MaxWorkers \in Nat \ {0}
  BY PoolAssumption, CallersAssumption, FS_CardinalityType
<1>5. CASE Len(workers) = 0 /\ y = x
  <2>1. Creators' \subseteq Callers \cup {x}
    BY <1>3, <1>5
  <2>2. /\ IsFiniteSet(Creators') /\ Cardinality(Creators') \in Nat
        /\ Cardinality(Creators') <= Cardinality(Callers) + 1
    BY <2>1, CallersAndOne
  <2>. QED
    BY <1>2, <1>4, <1>5, <2>2 DEF CreatorsBounded
<1>6. ASSUME Len(workers) = 1, NEW u \in Threads, epc[u] = "store"
      PROVE  CreatorsBounded'
  <2>1. /\ IsFiniteSet(Creators') /\ Cardinality(Creators') \in Nat
        /\ Cardinality(Creators') <= Cardinality(Callers) + 1
    <3>1. u \notin Creators' /\ u \in Callers \cup {x, y}
      BY <1>1, <1>3, <1>6
    <3>2. CASE u \in Callers
      <4>1. Creators' \subseteq (Callers \ {u}) \cup {x, y}
        BY <1>3, <3>1
      <4>. QED
        BY <3>2, <4>1, AllButOneAndTwo
    <3>3. CASE u = x
      <4>1. Creators' \subseteq Callers \cup {y}
        BY <1>3, <3>1, <3>3
      <4>. QED
        BY <4>1, CallersAndOne
    <3>4. CASE u = y
      <4>1. Creators' \subseteq Callers \cup {x}
        BY <1>3, <3>1, <3>4
      <4>. QED
        BY <4>1, CallersAndOne
    <3>. QED
      BY <3>1, <3>2, <3>3, <3>4
  <2>. QED
    BY <1>2, <1>4, <1>6, <2>1 DEF CreatorsBounded
<1>. QED
  BY <1>1, <1>5, <1>6

(* The control thread adds one to a pool that is not full, as far as it is *)
(* counted.                                                                *)
LEMMA SpawnBounded ==
  ASSUME IInv, SizeInv, DecideSpawn, MaySpawn
  PROVE  CreatorsBounded'
<1>1. /\ cpc = "consider" /\ workers' = workers /\ num_workers < MaxWorkers
      /\ victim = NoWorker /\ epc[control] = "idle"
      /\ epc' = [epc EXCEPT ![control] = "create"] \/ epc' = epc
  BY DEF DecideSpawn, MaySpawn, pool, entry, IInv, WorkerInv, ThreadInv, TypeOK
<1>2. Creators' \subseteq Creators \cup {control}
  BY <1>1 DEF Creators, Threads, IInv, TypeOK
<1>3. /\ Cardinality(Callers) \in Nat /\ MaxWorkers \in Nat /\ num_workers \in Nat
      /\ Len(workers) \in Nat
  BY PoolAssumption, CallersAssumption, FS_CardinalityType DEF IInv, TypeOK
<1>4. \A v, w \in Workers : Creating(v) /\ Creating(w) => v = w
  BY <1>1, PoolAssumption DEF SizeInv, OneCreator, NoWorker
<1>5. \A u \in Creators : u \in Callers \/ (u \in Workers /\ Creating(u))
  BY <1>1 DEF Creators, Creating, Threads
<1>6. CASE \A u \in Threads : epc[u] # "store"
  <2>1. Len(workers) = num_workers
    BY <1>6 DEF SizeInv, CountInv
  <2>2. PICK x : \A w \in Workers : Creating(w) => w = x
    BY <1>4
  <2>3. IsFiniteSet(Creators) /\ Cardinality(Creators) \in Nat
        /\ Cardinality(Creators) <= Cardinality(Callers) + 1
    BY <1>5, <2>2, CallersAndOne, Creators \subseteq Callers \cup {x}
  <2>4. /\ IsFiniteSet(Creators') /\ Cardinality(Creators') \in Nat
        /\ Cardinality(Creators') <= Cardinality(Creators) + 1
    BY <1>2, <2>3, OneMoreCreator
  <2>. QED
    BY <1>1, <1>3, <2>1, <2>3, <2>4 DEF CreatorsBounded
<1>7. ASSUME NEW u \in Threads, epc[u] = "store" PROVE CreatorsBounded'
  <2>1. Len(workers) = num_workers + 1
    BY <1>7 DEF SizeInv, CountInv
  <2>2. u \notin Creators /\ (u \in Callers \/ (u \in Workers /\ Creating(u)))
    BY <1>1, <1>7 DEF Creators, Creating, Threads
  <2>3. /\ IsFiniteSet(Creators) /\ Cardinality(Creators) \in Nat
        /\ Cardinality(Creators) <= Cardinality(Callers)
    <3>1. CASE u \in Callers
      <4>1. PICK x : \A w \in Workers : Creating(w) => w = x
        BY <1>4
      <4>2. Creators \subseteq (Callers \ {u}) \cup {x}
        BY <1>5, <2>2, <4>1
      <4>. QED
        BY <3>1, <4>2, AllButOneAndOne
    <3>2. CASE u \in Workers /\ Creating(u)
      <4>1. Creators \subseteq Callers
        BY <1>4, <1>5, <2>2, <3>2
      <4>. QED
        BY <4>1, CallersOnly
    <3>. QED
      BY <2>2, <3>1, <3>2
  <2>4. /\ IsFiniteSet(Creators') /\ Cardinality(Creators') \in Nat
        /\ Cardinality(Creators') <= Cardinality(Creators) + 1
    BY <1>2, <2>3, OneMoreCreator
  <2>. QED
    BY <1>1, <1>3, <2>1, <2>3, <2>4 DEF CreatorsBounded
<1>. QED
  BY <1>6, <1>7

LEMMA BoundStep ==
  ASSUME IInv, SizeInv, Sizing
  PROVE  CreatorsBounded'
<1>. USE DEF SizeInv, CreatorsBounded
<1>0. /\ Cardinality(Callers) \in Nat /\ MaxWorkers \in Nat
      /\ Cardinality(Creators) \in Nat /\ Len(workers) \in Nat
  BY PoolAssumption, CallersAssumption, FS_CardinalityType DEF IInv, TypeOK
<1>1. ASSUME NEW t \in Threads, Create(t) PROVE CreatorsBounded'
  <2>1. /\ t \in Creators /\ Creators' = Creators \ {t}
    BY <1>1, PoolAssumption DEF Create, Creators, IInv, TypeOK, Threads
  <2>2. IsFiniteSet(Creators') /\ Cardinality(Creators') = Cardinality(Creators) - 1
    BY <2>1, FS_RemoveElement
  <2>3. PICK w \in Workers : workers' = Append(workers, w)
    BY <1>1 DEF Create
  <2>4. Len(workers') = Len(workers) + 1
    BY <2>3 DEF IInv, TypeOK
  <2>. QED
    BY <1>0, <2>2, <2>4
<1>2. ASSUME NEW t \in Threads, Store(t) PROVE CreatorsBounded'
  <2>1. Creators' = Creators /\ workers' = workers
    BY <1>2, PoolAssumption DEF Store, Creators, IInv, TypeOK, Threads
  <2>. QED
    BY <2>1
<1>3. ASSUME Kill \/ Reap PROVE CreatorsBounded'
  <2>1. Creators' = Creators /\ (workers' = workers \/ (workers # <<>> /\ workers' = Tail(workers)))
    BY <1>3 DEF Kill, Reap, Creators, entry, pool
  <2>2. workers # <<>> => Len(Tail(workers)) = Len(workers) - 1
    BY DEF IInv, TypeOK
  <2>. QED
    BY <1>0, <2>1, <2>2
<1>4. CASE Join
  BY <1>4 DEF Join, Creators, entry, pool
<1>. QED
  BY <1>1, <1>2, <1>3, <1>4, CountBounded, SpawnBounded DEF Sizing

(* The pool never exceeds its maximum by more than the threads that may be *)
(* in enqueue() when it is empty.                                          *)
THEOREM PoolStaysBounded == Spec => []PoolBounded
<1>1. IInv /\ SizeInv /\ [Next]_vars => SizeInv'
  <2> SUFFICES ASSUME IInv, SizeInv, [Next]_vars PROVE SizeInv'
    OBVIOUS
  <2>1. CASE Still
    BY <2>1, StillKeeps
  <2>2. CASE Sizing
    BY <2>2, CountStep, OneCreatorStep, BoundStep DEF IInv, SizeInv
  <2>. QED
    BY <2>1, <2>2, StillSteps DEF IInv
<1>2. IInv /\ SizeInv => PoolBounded
  <2> SUFFICES ASSUME IInv, SizeInv PROVE PoolBounded
    OBVIOUS
  <2>1. /\ Cardinality(Creators) \in Nat /\ Len(workers) \in Nat
        /\ Cardinality(Callers) \in Nat /\ MaxWorkers \in Nat
    BY PoolAssumption, CallersAssumption, FS_CardinalityType DEF IInv, TypeOK, SizeInv, CreatorsBounded
  <2>. QED
    BY <2>1 DEF SizeInv, CreatorsBounded, PoolBounded
<1>. QED
  BY <1>1, <1>2, Invariant, SizeInitial, PTL DEF Spec
=============================================================================
