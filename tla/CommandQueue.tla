----------------------------- MODULE CommandQueue -----------------------------
(***************************************************************************)
(* The command queue every network job of the runtime goes through: two    *)
(* queues of jobs, worker threads that take jobs from them, a control      *)
(* thread that creates and kills workers by the load, callers of enqueue() *)
(* that create a worker when they see none, and the destructor, which      *)
(* drops the jobs left and joins every thread.                             *)
(*                                                                         *)
(* The queues are the vendored lock-free ones.  They keep the order of one *)
(* producer, which nothing relies on with several consumers: here they are *)
(* sets.  The measured load is an average of samples; it may be anything.  *)
(***************************************************************************)
EXTENDS Naturals, Sequences, FiniteSets

CONSTANTS
  Jobs,         \* the jobs; each is enqueued once
  Urgent,       \* those enqueued with enqueue_urgent()
  Follow,       \* Follow[j]: the job that j enqueues while it runs, or NoJob
  NoJob,
  Callers,      \* threads that enqueue jobs, other than the workers
  Workers,      \* names for worker_thread objects: bounds how many there are
  control,      \* the control thread
  MaxWorkers, MinWorkers

ASSUME PoolAssumption ==
  /\ Urgent \subseteq Jobs /\ NoJob \notin Jobs
  /\ Follow \in [Jobs -> Jobs \cup {NoJob}]
  /\ \A i, k \in Jobs : Follow[i] = Follow[k] /\ Follow[i] # NoJob => i = k
  /\ Workers \subseteq Nat \ {0}
  /\ Callers \cap Workers = {} /\ control \notin Callers \cup Workers
  /\ MaxWorkers \in Nat \ {0} /\ MinWorkers \in 0 .. MaxWorkers

ASSUME CallersAssumption == IsFiniteSet(Callers)

VARIABLES
  hp_q, lp_q,     \* the jobs in the two queues
  workers,        \* workers_: the workers by age
  num_workers,    \* num_workers_: its length, when it was last stored
  wpc, job,       \* where a worker is in its loop, the job it serves
  epc, ejob,      \* where a thread is in enqueue(), and with which job
  cpc, victim,    \* where the control thread is, the worker it joins
  dpc,            \* where the destructor is
  done,           \* history: the jobs served
  lost, refused   \* history: the jobs dropped with the queue, and turned away

queues == <<hp_q, lp_q>>
pool   == <<workers, num_workers>>
work   == <<wpc, job>>
entry  == <<epc, ejob>>
ctl    == <<cpc, victim>>
fate   == <<done, lost, refused>>
vars   == <<queues, pool, work, entry, ctl, dpc, fate>>

NoWorker == 0

Threads == Callers \cup Workers \cup {control}

Init ==
  /\ hp_q = {} /\ lp_q = {}
  /\ workers = <<>> /\ num_workers = 0
  /\ wpc = [w \in Workers |-> "none"] /\ job = [w \in Workers |-> NoJob]
  /\ epc = [t \in Threads |-> "idle"] /\ ejob = [t \in Threads |-> NoJob]
  /\ cpc = "test" /\ victim = NoWorker
  /\ dpc = "none"
  /\ done = {} /\ lost = {} /\ refused = {}

-----------------------------------------------------------------------------
(* What the threads see. *)

termination == dpc # "none"
Enqueued == hp_q \cup lp_q
Serving == {job[w] : w \in {v \in Workers : wpc[v] \in {"serve", "follow"}}}
Pushing == {ejob[t] : t \in {u \in Threads : epc[u] = "push"}}
Offered == Enqueued \cup Serving \cup Pushing \cup done \cup lost \cup refused

(* workers_mtp_ is held between the two statements of create_worker and    *)
(* while the destructor joins the workers.                                 *)
WorkersUnlocked ==
  dpc # "reap" /\ \A t \in Threads : epc[t] # "store"

-----------------------------------------------------------------------------
(* enqueue() and enqueue_urgent(), in a caller or in the job of a worker.  *)

BeginEnqueue(t, j) ==
  IF termination
  THEN refused' = refused \cup {j} /\ UNCHANGED entry
  ELSE /\ epc' = [epc EXCEPT ![t] = "push"]
       /\ ejob' = [ejob EXCEPT ![t] = j]
       /\ UNCHANGED refused

CallEnqueue(t, j) ==
  /\ dpc = "none" /\ epc[t] = "idle"
  /\ j \notin Offered /\ \A i \in Jobs : Follow[i] # j
  /\ BeginEnqueue(t, j)
  /\ UNCHANGED <<queues, pool, work, ctl, dpc, done, lost>>

NotifyOne ==
  LET waiting == {w \in Workers : wpc[w] = "wait"} IN
  IF waiting = {} THEN UNCHANGED wpc
  ELSE \E w \in waiting : wpc' = [wpc EXCEPT ![w] = "retake"]

InUrgentQueueNever(j) == FALSE
InUrgentQueue(j) == j \in Urgent

(* One worker is notified; one that is "tired", on its way to the wait,     *)
(* misses it.                                                              *)
Push(t) ==
  /\ epc[t] = "push"
  /\ IF InUrgentQueue(ejob[t])
     THEN hp_q' = hp_q \cup {ejob[t]} /\ UNCHANGED lp_q
     ELSE lp_q' = lp_q \cup {ejob[t]} /\ UNCHANGED hp_q
  /\ epc' = [epc EXCEPT ![t] = "count"]
  /\ ejob' = [ejob EXCEPT ![t] = NoJob]
  /\ NotifyOne
  /\ UNCHANGED <<pool, job, ctl, dpc, fate>>

Count(t) ==
  /\ epc[t] = "count"
  /\ epc' = [epc EXCEPT ![t] = IF num_workers = 0 THEN "create" ELSE "idle"]
  /\ UNCHANGED <<queues, pool, work, ejob, ctl, dpc, fate>>

(* create_worker: the thread of the new worker runs before the count is    *)
(* stored.                                                                 *)
NextName(w) ==
  wpc[w] = "none" /\ \A v \in Workers : wpc[v] = "none" => w <= v

Create(t) ==
  /\ epc[t] = "create" /\ WorkersUnlocked
  /\ \E w \in Workers :
       /\ NextName(w)
       /\ workers' = Append(workers, w)
       /\ wpc' = [wpc EXCEPT ![w] = "test"]
  /\ epc' = [epc EXCEPT ![t] = "store"]
  /\ UNCHANGED <<queues, num_workers, job, ejob, ctl, dpc, fate>>

Store(t) ==
  /\ epc[t] = "store"
  /\ num_workers' = Len(workers)
  /\ epc' = [epc EXCEPT ![t] = "idle"]
  /\ UNCHANGED <<queues, workers, work, ejob, ctl, dpc, fate>>

Enqueue(t) == Push(t) \/ Count(t) \/ Create(t) \/ Store(t)

-----------------------------------------------------------------------------
(* A worker thread. *)

ToldByControl(w) == w = victim
Told(w) == termination \/ w = victim

TestOn(w) ==
  /\ wpc[w] = "test" /\ ~Told(w)
  /\ wpc' = [wpc EXCEPT ![w] = "take"]
  /\ UNCHANGED <<queues, pool, job, entry, ctl, dpc, fate>>

TestOff(w) ==
  /\ wpc[w] = "test" /\ Told(w)
  /\ wpc' = [wpc EXCEPT ![w] = "gone"]
  /\ UNCHANGED <<queues, pool, job, entry, ctl, dpc, fate>>

(* dequeue() looks for an urgent job, then for another; when it finds none *)
(* it waits, looks a second time, and goes back to the loop.               *)
TakenAndKept(j) == UNCHANGED queues
Taken(j) ==
  \/ j \in hp_q /\ hp_q' = hp_q \ {j} /\ UNCHANGED lp_q
  \/ j \in lp_q /\ lp_q' = lp_q \ {j} /\ UNCHANGED hp_q

Looked(w) ==
  CASE wpc[w] \in {"take", "retake"}         -> hp_q
    [] wpc[w] \in {"take_low", "retake_low"} -> lp_q
    [] OTHER                                 -> {}

GivesUp(w) == wpc[w] = "retake" /\ termination

Take(w) ==
  /\ ~GivesUp(w)
  /\ \E j \in Looked(w) : Taken(j) /\ job' = [job EXCEPT ![w] = j]
  /\ wpc' = [wpc EXCEPT ![w] = "serve"]
  /\ UNCHANGED <<pool, entry, ctl, dpc, fate>>

FindNone(w) ==
  /\ wpc[w] \in {"take", "take_low", "tired", "retake", "retake_low"}
  /\ Looked(w) = {} \/ GivesUp(w)
  /\ wpc' = [wpc EXCEPT ![w] =
       CASE wpc[w] = "take"       -> "take_low"
         [] wpc[w] = "take_low"   -> "tired"
         [] wpc[w] = "tired"      -> "wait"
         [] wpc[w] = "retake"     -> IF termination THEN "test" ELSE "retake_low"
         [] wpc[w] = "retake_low" -> "test"]
  /\ UNCHANGED <<queues, pool, job, entry, ctl, dpc, fate>>

(* The wait ends after 250 ms, notified or not. *)
WaitEndsNotified(w) == wpc[w] = "wait" /\ termination
WaitEnds(w) == wpc[w] = "wait"

TimeOut(w) ==
  /\ WaitEnds(w)
  /\ wpc' = [wpc EXCEPT ![w] = "retake"]
  /\ UNCHANGED <<queues, pool, job, entry, ctl, dpc, fate>>

(* The job enqueues the one that follows it. *)
RunFollow(w) ==
  /\ wpc[w] = "serve" /\ Follow[job[w]] # NoJob
  /\ BeginEnqueue(w, Follow[job[w]])
  /\ wpc' = [wpc EXCEPT ![w] = "follow"]
  /\ UNCHANGED <<queues, pool, job, ctl, dpc, done, lost>>

(* The job returns or throws: either is the end of it. *)
Finish(w) ==
  /\ \/ wpc[w] = "serve" /\ Follow[job[w]] = NoJob
     \/ wpc[w] = "follow" /\ epc[w] = "idle"
  /\ done' = done \cup {job[w]}
  /\ job' = [job EXCEPT ![w] = NoJob]
  /\ wpc' = [wpc EXCEPT ![w] = "test"]
  /\ UNCHANGED <<queues, pool, entry, ctl, dpc, lost, refused>>

Work(w) ==
  \/ TestOn(w) \/ TestOff(w) \/ Take(w) \/ FindNone(w) \/ TimeOut(w)
  \/ RunFollow(w) \/ Finish(w)

-----------------------------------------------------------------------------
(* The control thread.  It decides by the counts it reads, and acts later. *)
(* The load may allow a killing, and call for a worker, at any moment.     *)

MayKill ==
  /\ num_workers > 0
  /\ \/ num_workers > MaxWorkers
     \/ termination
     \/ num_workers > MinWorkers /\ ~(num_workers = 1 /\ Enqueued # {})

MustKill == num_workers > 0 /\ (num_workers > MaxWorkers \/ termination)

(* min(3 * sqrt(n), n), cut to an integer. *)
WorkersForWorks(n) == CHOOSE k \in 0 .. n :
  k * k <= 9 * n /\ (k < n => (k + 1) * (k + 1) > 9 * n)

MustSpawn ==
  /\ ~termination
  /\ \/ num_workers < MinWorkers
     \/ /\ num_workers < MaxWorkers
        /\ \/ num_workers = 0 /\ Enqueued # {}
           \/ num_workers < WorkersForWorks(Cardinality(Enqueued))

(* A high load is a reason too, below the maximum. *)
MaySpawnUnbounded == ~termination
MaySpawn == ~termination /\ num_workers < MaxWorkers

ControlEnds ==
  /\ cpc = "test" /\ termination
  /\ cpc' = "gone"
  /\ UNCHANGED <<queues, pool, work, entry, victim, dpc, fate>>

DecideKill ==
  /\ cpc = "test" /\ ~termination
  /\ cpc' \in (IF MayKill THEN {"kill"} ELSE {})
              \cup (IF MustKill THEN {} ELSE {"consider"})
  /\ UNCHANGED <<queues, pool, work, entry, victim, dpc, fate>>

DecideSpawn ==
  /\ cpc = "consider"
  /\ \/ MaySpawn /\ cpc' = "spawn" /\ epc' = [epc EXCEPT ![control] = "create"]
     \/ ~MustSpawn /\ cpc' = "test" /\ UNCHANGED epc
  /\ UNCHANGED <<queues, pool, work, ejob, victim, dpc, fate>>

Spawned ==
  /\ cpc = "spawn" /\ epc[control] = "idle"
  /\ cpc' = "test"
  /\ UNCHANGED <<queues, pool, work, entry, victim, dpc, fate>>

(* kill_someone: the oldest worker is taken out, told, and joined. *)
Kill ==
  /\ cpc = "kill" /\ WorkersUnlocked
  /\ IF workers = <<>>
     THEN cpc' = "test" /\ UNCHANGED <<pool, wpc, victim>>
     ELSE /\ victim' = Head(workers)
          /\ workers' = Tail(workers) /\ num_workers' = Len(Tail(workers))
          /\ wpc' = [w \in Workers |-> IF wpc[w] = "wait" THEN "retake" ELSE wpc[w]]
          /\ cpc' = "join"
  /\ UNCHANGED <<queues, job, entry, dpc, fate>>

Join ==
  /\ cpc = "join" /\ wpc[victim] = "gone"
  /\ wpc' = [wpc EXCEPT ![victim] = "none"]
  /\ victim' = NoWorker
  /\ cpc' = "test"
  /\ UNCHANGED <<queues, pool, job, entry, dpc, fate>>

Control ==
  ControlEnds \/ DecideKill \/ DecideSpawn \/ Spawned \/ Kill \/ Join

-----------------------------------------------------------------------------
(* The destructor, called when no caller is in enqueue() and none calls it *)
(* any more; jobs still may. *)

Destroy ==
  /\ dpc = "none" /\ \A t \in Callers : epc[t] = "idle"
  /\ dpc' = "drain"
  /\ UNCHANGED <<queues, pool, work, entry, ctl, fate>>

Drain ==
  /\ dpc = "drain"
  /\ \E j \in Enqueued : Taken(j) /\ lost' = lost \cup {j}
  /\ UNCHANGED <<pool, work, entry, ctl, dpc, done, refused>>

Drained ==
  /\ dpc = "drain" /\ Enqueued = {}
  /\ wpc' = [w \in Workers |-> IF wpc[w] = "wait" THEN "retake" ELSE wpc[w]]
  /\ dpc' = "wait"
  /\ UNCHANGED <<queues, pool, job, entry, ctl, fate>>

ControlForgotten == TRUE
ControlJoined == cpc = "gone"

LockWorkers ==
  /\ dpc = "wait" /\ ControlJoined /\ WorkersUnlocked
  /\ dpc' = "reap"
  /\ UNCHANGED <<queues, pool, work, entry, ctl, fate>>

Reap ==
  /\ dpc = "reap" /\ workers # <<>>
  /\ wpc[Head(workers)] = "gone"
  /\ wpc' = [wpc EXCEPT ![Head(workers)] = "none"]
  /\ workers' = Tail(workers) /\ num_workers' = Len(Tail(workers))
  /\ UNCHANGED <<queues, job, entry, ctl, dpc, fate>>

(* The members go: what is left in the queues goes with them. *)
Destroyed ==
  /\ dpc = "reap" /\ workers = <<>>
  /\ dpc' = "done"
  /\ lost' = lost \cup Enqueued /\ hp_q' = {} /\ lp_q' = {}
  /\ UNCHANGED <<pool, work, entry, ctl, done, refused>>

Destructor == Drain \/ Drained \/ LockWorkers \/ Reap \/ Destroyed

-----------------------------------------------------------------------------
Next ==
  \/ \E t \in Callers, j \in Jobs : CallEnqueue(t, j)
  \/ \E t \in Threads : Enqueue(t)
  \/ \E w \in Workers : Work(w)
  \/ Control
  \/ Destroy \/ Destructor

Spec == Init /\ [][Next]_vars

(* Every thread goes on when it can, jobs end, and workers that are        *)
(* created are not for ever killed before they have run: the runtime sets  *)
(* a second between two killings.  Nothing makes the callers call.         *)
FairSpec ==
  /\ Spec
  /\ \A t \in Threads : WF_vars(Enqueue(t))
  /\ \A w \in Workers : WF_vars(Work(w))
  /\ SF_vars(\E w \in Workers : TestOn(w))
  /\ WF_vars(Control)
  /\ WF_vars(Destructor)

-----------------------------------------------------------------------------
(* The variables hold what their declarations in the code allow. *)
TypeOK ==
  /\ hp_q \subseteq Urgent /\ lp_q \subseteq Jobs \ Urgent
  /\ workers \in Seq(Workers) /\ num_workers \in Nat
  /\ wpc \in [Workers -> {"none", "test", "take", "take_low", "tired", "wait", "retake", "retake_low",
                     "serve", "follow", "gone"}]
  /\ job \in [Workers -> Jobs \cup {NoJob}]
  /\ epc \in [Threads -> {"idle", "push", "count", "create", "store"}]
  /\ ejob \in [Threads -> Jobs \cup {NoJob}]
  /\ cpc \in {"test", "consider", "spawn", "kill", "join", "gone"}
  /\ victim \in Workers \cup {NoWorker}
  /\ dpc \in {"none", "drain", "wait", "reap", "done"}
  /\ done \subseteq Jobs /\ lost \subseteq Jobs /\ refused \subseteq Jobs

(* However many threads find the pool empty at the same moment, each adds  *)
(* one worker at most: the pool exceeds its maximum by no more than the    *)
(* threads that may be in enqueue() when it is empty.                      *)
PoolBounded == Len(workers) <= MaxWorkers + Cardinality(Callers) + 1

(* No thread is left when the destructor returns: none has the queue, its  *)
(* locks or a worker in its hands.                                         *)
NothingOutlives ==
  dpc = "done" =>
    /\ cpc = "gone"
    /\ \A w \in Workers : wpc[w] = "none"
    /\ \A t \in Threads : epc[t] = "idle"

(* Every job accepted is executed exactly once, or dropped when the queue  *)
(* is destroyed: see JobPool.                                              *)
Pool == INSTANCE JobPool WITH
  pending <- Enqueued, running <- Serving, closed <- termination

ImplementsJobPool == Pool!Spec

(* A job that is in a queue is served unless the queue is destroyed: also  *)
(* when its notification is missed, when the worker it was left to is      *)
(* killed, and when there is no worker.                                    *)
EveryJobServed ==
  \A j \in Jobs : j \in Enqueued ~> j \in done \/ termination

(* The destructor joins a worker, with workers_mtp_ held, whose job is     *)
(* about to create a worker and waits for that lock: the job has read a    *)
(* count of zero before the count of its own worker was stored.            *)
JoinsItsWaiter ==
  /\ dpc = "reap" /\ workers # <<>>
  /\ epc[Head(workers)] = "create"

(* The destructor returns, whatever the jobs, the workers and the control  *)
(* thread are doing when it is called, unless it runs into that deadlock.  *)
DestructorReturns == dpc = "drain" ~> dpc = "done" \/ JoinsItsWaiter
=============================================================================
