--------------------------- MODULE RuntimeLifecycle ---------------------------
(***************************************************************************)
(* The life of a runtime as its host program drives it: starting worker    *)
(* threads (run_mt), stopping them (stop_mt, set_single_thread_mode, the   *)
(* destructor), waiting for them (wait) and executing cells in the host's  *)
(* own thread (run_cycle).  What the worker threads do with the cells is   *)
(* the subject of CellScheduler; here a worker tests the flags, executes a *)
(* body and tests the flags again.  A body may call exit(), throw, or call *)
(* hardware_concurrency(), which needs the lock of the thread list.        *)
(***************************************************************************)
EXTENDS Naturals, FiniteSets

CONSTANTS
  Workers,       \* names for worker threads
  ThreadCount,   \* how many of them run_mt starts: thrd_cnt
  Hosts,         \* threads of the host program
  Calls,         \* Calls[h]: the calls host h may make
  WritersFirst,  \* whether a waiting writer holds up readers of a shared_mutex
  None           \* no host, no worker

CallNames == {"run_mt", "stop_mt", "wait", "run_cycle", "set_single", "set_multi",
              "destroy"}

ASSUME LifecycleAssumption ==
  /\ IsFiniteSet(Workers)
  /\ ThreadCount \in 1 .. Cardinality(Workers)
  /\ Calls \in [Hosts -> SUBSET CallNames]
  /\ WritersFirst \in BOOLEAN
  /\ Workers \cap Hosts = {}
  /\ None \notin Workers \cup Hosts

VARIABLES
  thread_mode,            \* thread_mode_: none, single or multi
  threads,                \* threads_
  joined,                 \* the members of threads that are no longer joinable
  wpc,                    \* what each worker thread does
  call,                   \* the call each host is in
  hpc,                    \* how far it is
  target,                 \* the thread a host is joining
  writer,                 \* the host that holds threads_mtp_ exclusively
  readers,                \* the hosts that hold threads_mtp_ shared
  termination_requested,  \* termination_requested_
  failure,                \* failure_
  destroyed               \* ~runtime() has run

lock  == <<writer, readers>>
flags == <<termination_requested, failure>>
host  == <<call, hpc, target>>
pool  == <<threads, joined>>
vars  == <<thread_mode, pool, wpc, host, lock, flags, destroyed>>

Init ==
  /\ thread_mode = "none"
  /\ threads = {} /\ joined = {}
  /\ wpc = [w \in Workers |-> "unborn"]
  /\ call = [h \in Hosts |-> "none"]
  /\ hpc = [h \in Hosts |-> "idle"]
  /\ target = [h \in Hosts |-> None]
  /\ writer = None /\ readers = {}
  /\ termination_requested = FALSE /\ failure = FALSE
  /\ destroyed = FALSE

StoppingOnFailure == failure
Stopping == termination_requested \/ failure

-----------------------------------------------------------------------------
(* threads_mtp_ is a std::shared_mutex.  The host that waits for it        *)
(* exclusively is one at "lock"; the standard leaves open whether readers  *)
(* overtake it.                                                            *)

CanWrite == writer = None /\ readers = {}
CanReadAnyway == TRUE
CanRead ==
  /\ writer = None
  /\ WritersFirst => \A h \in Hosts : hpc[h] # "lock"

At(h, place) == hpc[h] = place
Go(h, place) == hpc' = [hpc EXCEPT ![h] = place]

(* The call ends; the guards on the lock are destroyed with it. *)
Leave(h) ==
  /\ hpc' = [hpc EXCEPT ![h] = "idle"]
  /\ call' = [call EXCEPT ![h] = "none"]

ReleaseWriter == writer' = None /\ UNCHANGED readers
ReleaseReader(h) == readers' = readers \ {h} /\ UNCHANGED writer

-----------------------------------------------------------------------------
(* A host starts a call.  run_mt and stop_mt begin with the lock,          *)
(* set_single_thread_mode with stop_mt, the destructor with terminate()    *)
(* and stop_mt; it is the last call of all.                                *)

Begin(h, name) ==
  /\ At(h, "idle") /\ ~destroyed
  /\ name \in Calls[h]
  /\ call' = [call EXCEPT ![h] = name]
  /\ UNCHANGED <<thread_mode, pool, wpc, target, lock, failure, destroyed>>

BeginLocked(h) ==
  /\ \E name \in {"run_mt", "stop_mt", "set_single"} : Begin(h, name)
  /\ Go(h, "lock")
  /\ UNCHANGED termination_requested

BeginDestroy(h) ==
  /\ \A g \in Hosts : At(g, "idle")
  /\ Begin(h, "destroy")
  /\ Go(h, "lock")
  /\ termination_requested' = TRUE

BeginWait(h) ==
  /\ Begin(h, "wait")
  /\ Go(h, "mode")
  /\ UNCHANGED termination_requested

BeginCycle(h) ==
  /\ Begin(h, "run_cycle")
  /\ Go(h, "test")
  /\ UNCHANGED termination_requested

SetMultiThreadMode(h) ==
  /\ At(h, "idle") /\ ~destroyed
  /\ "set_multi" \in Calls[h]
  /\ thread_mode' = "multi"
  /\ UNCHANGED <<pool, wpc, host, lock, flags, destroyed>>

LockUnique(h) ==
  /\ At(h, "lock")
  /\ CanWrite
  /\ writer' = h
  /\ Go(h, IF call[h] = "run_mt" THEN "start" ELSE "stop")
  /\ UNCHANGED <<thread_mode, pool, wpc, call, target, readers, flags, destroyed>>

-----------------------------------------------------------------------------
(* run_mt *)

MayStart == thread_mode # "single" /\ threads = {}

(* "set multi thread mode first", or threads_ is not empty: in both cases  *)
(* nothing is started; the second leaves the mode set.                     *)
StartRefused(h) ==
  /\ At(h, "start")
  /\ ~MayStart
  /\ thread_mode' = IF thread_mode = "none" THEN "multi" ELSE thread_mode
  /\ Leave(h)
  /\ ReleaseWriter
  /\ UNCHANGED <<pool, wpc, target, flags, destroyed>>

(* unfail(), unterminate() *)
StartAccepted(h) ==
  /\ At(h, "start")
  /\ MayStart
  /\ thread_mode' = "multi"
  /\ termination_requested' = FALSE /\ failure' = FALSE
  /\ Go(h, "spawn")
  /\ UNCHANGED <<pool, wpc, call, target, lock, destroyed>>

Spawn(h) ==
  /\ At(h, "spawn")
  /\ Cardinality(threads) < ThreadCount
  /\ LET w == CHOOSE w \in Workers : w \notin threads IN
       /\ threads' = threads \cup {w}
       /\ wpc' = [wpc EXCEPT ![w] = "test"]
  /\ UNCHANGED <<thread_mode, joined, host, lock, flags, destroyed>>

SpawnDone(h) ==
  /\ At(h, "spawn")
  /\ Cardinality(threads) = ThreadCount
  /\ Leave(h)
  /\ ReleaseWriter
  /\ UNCHANGED <<thread_mode, pool, wpc, target, flags, destroyed>>

-----------------------------------------------------------------------------
(* stop_mt, also as the first part of set_single_thread_mode and of the    *)
(* destructor, which go on at "stopped".                                   *)

StopReturn(h) ==
  /\ ReleaseWriter
  /\ IF call[h] = "stop_mt" THEN Leave(h) ELSE Go(h, "stopped") /\ UNCHANGED call

StopNotMulti(h) ==
  /\ At(h, "stop")
  /\ thread_mode # "multi"
  /\ StopReturn(h)
  /\ UNCHANGED <<thread_mode, pool, wpc, target, flags, destroyed>>

StopMulti(h) ==
  /\ At(h, "stop")
  /\ thread_mode = "multi"
  /\ termination_requested' = TRUE
  /\ Go(h, "join")
  /\ UNCHANGED <<thread_mode, pool, wpc, call, target, lock, failure, destroyed>>

JoinableEnded == {w \in threads \ joined : wpc[w] = "gone"}
Joinable == threads \ joined

(* joinable() *)
JoinBegin(h) ==
  /\ At(h, "join") /\ target[h] = None
  /\ \E w \in Joinable : target' = [target EXCEPT ![h] = w]
  /\ UNCHANGED <<thread_mode, pool, wpc, call, hpc, lock, flags, destroyed>>

(* join() returns once the thread has ended. *)
JoinEnd(h) ==
  /\ At(h, "join") /\ target[h] # None
  /\ wpc[target[h]] = "gone"
  /\ joined' = joined \cup {target[h]}
  /\ target' = [target EXCEPT ![h] = None]
  /\ UNCHANGED <<thread_mode, threads, wpc, call, hpc, lock, flags, destroyed>>

AllJoined(h) == At(h, "join") /\ target[h] = None /\ Joinable = {}

ForgetThreads == threads' = {} /\ UNCHANGED joined
Forget == threads' = {} /\ joined' = {}

(* threads_.clear(), set_thread_mode_none() *)
StopJoined(h) ==
  /\ AllJoined(h) /\ call[h] # "wait"
  /\ Forget
  /\ wpc' = [w \in Workers |-> IF wpc[w] = "gone" THEN "unborn" ELSE wpc[w]]
  /\ thread_mode' = "none"
  /\ StopReturn(h)
  /\ UNCHANGED <<target, flags, destroyed>>

(* set_single_thread_mode: unterminate(), set_thread_mode_single() *)
SetSingleMode(h) ==
  /\ At(h, "stopped") /\ call[h] = "set_single"
  /\ termination_requested' = FALSE
  /\ thread_mode' = "single"
  /\ Leave(h)
  /\ UNCHANGED <<pool, wpc, target, lock, failure, destroyed>>

Destroy(h) ==
  /\ At(h, "stopped") /\ call[h] = "destroy"
  /\ destroyed' = TRUE
  /\ Leave(h)
  /\ UNCHANGED <<thread_mode, pool, wpc, target, lock, flags>>

-----------------------------------------------------------------------------
(* wait *)

WaitNotMulti(h) ==
  /\ At(h, "mode")
  /\ thread_mode # "multi"
  /\ Leave(h)
  /\ UNCHANGED <<thread_mode, pool, wpc, target, lock, flags, destroyed>>

WaitMulti(h) ==
  /\ At(h, "mode")
  /\ thread_mode = "multi"
  /\ Go(h, "poll")
  /\ UNCHANGED <<thread_mode, pool, wpc, call, target, lock, flags, destroyed>>

(* The polling loop ends with a flag or with the time the host gave it. *)
PollEnds(h) ==
  /\ At(h, "poll")
  /\ CanRead
  /\ readers' = readers \cup {h}
  /\ Go(h, "check")
  /\ UNCHANGED <<thread_mode, pool, wpc, call, target, writer, flags, destroyed>>

WaitJoins(h) ==
  /\ At(h, "check")
  /\ Stopping
  /\ Go(h, "join")
  /\ UNCHANGED <<thread_mode, pool, wpc, call, target, lock, flags, destroyed>>

WaitTimedOut(h) ==
  /\ At(h, "check")
  /\ ~Stopping
  /\ Leave(h)
  /\ ReleaseReader(h)
  /\ UNCHANGED <<thread_mode, pool, wpc, target, flags, destroyed>>

(* The joined threads stay in threads_: only stop_mt clears it. *)
WaitJoined(h) ==
  /\ AllJoined(h) /\ call[h] = "wait"
  /\ Leave(h)
  /\ ReleaseReader(h)
  /\ UNCHANGED <<thread_mode, pool, wpc, target, flags, destroyed>>

-----------------------------------------------------------------------------
(* run_cycle, which takes no lock: the mode is read, then set. *)

MayCycleInAnyMode == ~termination_requested
MayCycle == ~termination_requested /\ thread_mode # "multi"

CycleRefused(h) ==
  /\ At(h, "test")
  /\ ~MayCycle
  /\ Leave(h)
  /\ UNCHANGED <<thread_mode, pool, wpc, target, lock, flags, destroyed>>

CycleAccepted(h) ==
  /\ At(h, "test")
  /\ MayCycle
  /\ Go(h, IF thread_mode = "none" THEN "set" ELSE "cycle")
  /\ UNCHANGED <<thread_mode, pool, wpc, call, target, lock, flags, destroyed>>

CycleSetMode(h) ==
  /\ At(h, "set")
  /\ thread_mode' = "single"
  /\ Go(h, "cycle")
  /\ UNCHANGED <<pool, wpc, call, target, lock, flags, destroyed>>

(* The cells are executed; one of them may call exit(), and an exception   *)
(* goes to the host without setting a flag.                                *)
CycleEnd(h) ==
  /\ At(h, "cycle")
  /\ termination_requested' \in {termination_requested, TRUE}
  /\ Leave(h)
  /\ UNCHANGED <<thread_mode, pool, wpc, target, lock, failure, destroyed>>

(* terminate(), from any thread and at any time. *)
Terminate ==
  /\ ~destroyed
  /\ termination_requested' = TRUE
  /\ UNCHANGED <<thread_mode, pool, wpc, host, lock, failure, destroyed>>

-----------------------------------------------------------------------------
(* The worker threads. *)

WorkerGo(w, place) == wpc' = [wpc EXCEPT ![w] = place]

Test(w) ==
  /\ wpc[w] = "test"
  /\ WorkerGo(w, IF Stopping THEN "gone" ELSE "body")
  /\ UNCHANGED <<thread_mode, pool, host, lock, flags, destroyed>>

BodyEnds(w) ==
  /\ wpc[w] = "body"
  /\ WorkerGo(w, "test")
  /\ termination_requested' \in {termination_requested, TRUE}
  /\ UNCHANGED <<thread_mode, pool, host, lock, failure, destroyed>>

BodyThrows(w) ==
  /\ wpc[w] = "body"
  /\ WorkerGo(w, "gone")
  /\ failure' = TRUE
  /\ UNCHANGED <<thread_mode, pool, host, lock, termination_requested, destroyed>>

(* hardware_concurrency() counts the threads under a shared lock. *)
BodyAsks(w) ==
  /\ wpc[w] = "body"
  /\ WorkerGo(w, "ask")
  /\ UNCHANGED <<thread_mode, pool, host, lock, flags, destroyed>>

Answered(w) ==
  /\ wpc[w] = "ask"
  /\ CanRead
  /\ WorkerGo(w, "test")
  /\ UNCHANGED <<thread_mode, pool, host, lock, flags, destroyed>>

-----------------------------------------------------------------------------
Start(h) == BeginLocked(h) \/ BeginDestroy(h) \/ BeginWait(h) \/ BeginCycle(h)

Continue(h) ==
  \/ LockUnique(h)
  \/ StartRefused(h) \/ StartAccepted(h) \/ Spawn(h) \/ SpawnDone(h)
  \/ StopNotMulti(h) \/ StopMulti(h) \/ JoinBegin(h) \/ JoinEnd(h) \/ StopJoined(h)
  \/ SetSingleMode(h) \/ Destroy(h)
  \/ WaitNotMulti(h) \/ WaitMulti(h) \/ PollEnds(h) \/ WaitJoins(h) \/ WaitTimedOut(h)
  \/ WaitJoined(h)
  \/ CycleRefused(h) \/ CycleAccepted(h) \/ CycleSetMode(h) \/ CycleEnd(h)

Worker(w) == Test(w) \/ BodyEnds(w) \/ BodyThrows(w) \/ BodyAsks(w) \/ Answered(w)

Next ==
  \/ \E h \in Hosts : Start(h) \/ Continue(h) \/ SetMultiThreadMode(h)
  \/ \E w \in Workers : Worker(w)
  \/ Terminate

Spec == Init /\ [][Next]_vars

(* A thread inside a call or in its loop keeps running; a host need not    *)
(* call anything.  A host that waits for a lock which is free again and    *)
(* again gets it: the others leave it free between their calls.            *)
FairSpec ==
  /\ Spec
  /\ \A h \in Hosts : WF_vars(Continue(h)) /\ SF_vars(LockUnique(h)) /\ SF_vars(PollEnds(h))
  /\ \A w \in Workers : WF_vars(Worker(w))

-----------------------------------------------------------------------------
Places == {"idle", "lock", "start", "spawn", "stop", "join", "stopped", "mode", "poll",
           "check", "test", "set", "cycle"}

(* Every variable holds what its declaration in the code allows. *)
TypeOK ==
  /\ thread_mode \in {"none", "single", "multi"}
  /\ threads \subseteq Workers
  /\ joined \subseteq threads
  /\ wpc \in [Workers -> {"unborn", "test", "body", "ask", "gone"}]
  /\ call \in [Hosts -> CallNames \cup {"none"}]
  /\ hpc \in [Hosts -> Places]
  /\ target \in [Hosts -> Workers \cup {None}]
  /\ writer \in Hosts \cup {None}
  /\ readers \subseteq Hosts
  /\ termination_requested \in BOOLEAN
  /\ failure \in BOOLEAN
  /\ destroyed \in BOOLEAN

Alive == {w \in Workers : wpc[w] \in {"test", "body", "ask"}}

(* While worker threads run, the mode says so: run_cycle and stop_mt       *)
(* decide by the mode alone.                                               *)
ThreadsImplyMulti == Alive # {} => thread_mode = "multi"

(* A cell is never executed by run_cycle and by a worker thread at once:   *)
(* run_cycle does not try_lock the cells.                                  *)
CycleRunsAlone == (\E h \in Hosts : At(h, "cycle")) => Alive = {}

(* No thread is joined twice, and no two hosts join the same one.          *)
JoinedOnce ==
  \A h \in Hosts : target[h] # None =>
    /\ target[h] \in Joinable
    /\ \A g \in Hosts \ {h} : target[g] # target[h]

(* After the destructor no worker touches the runtime. *)
NothingOutlivesRuntime == destroyed => Alive = {} /\ threads = {}

InCall(h, name) == call[h] = name

(* A body waits for a lock while a host joins the threads. *)
Deadlocked ==
  \E h \in Hosts, w \in Workers : At(h, "join") /\ wpc[w] = "ask" /\ ~CanRead

(* The calls that wait for threads return (stop_mt, set_single_thread_mode *)
(* and the destructor join them, wait joins them once a flag is set) in    *)
(* every case but the deadlock with hardware_concurrency().                *)
CallsReturnUnlessDeadlocked ==
  \A h \in Hosts : \A name \in {"stop_mt", "set_single", "destroy", "wait"} :
    InCall(h, name) ~> ~InCall(h, name) \/ Deadlocked

(* stop_mt and the destructor return, whatever the bodies call. *)
StopReturns ==
  \A h \in Hosts : \A name \in {"stop_mt", "destroy"} :
    InCall(h, name) ~> ~InCall(h, name)
=============================================================================
