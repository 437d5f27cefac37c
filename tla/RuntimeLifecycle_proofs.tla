------------------------ MODULE RuntimeLifecycle_proofs ------------------------
(***************************************************************************)
(* Proofs about RuntimeLifecycle, for every number of worker threads and   *)
(* of hosts: types, and, when one host drives the runtime and one at most  *)
(* waits for it, that no thread is joined twice, that run_cycle and the    *)
(* worker threads never execute cells at once, and that no thread outlives *)
(* the runtime.                                                            *)
(***************************************************************************)
EXTENDS RuntimeLifecycle, FiniteSetTheorems, TLAPS

(* Only one host does more than wait. *)
OneDriver ==
  \A g, h \in Hosts : \A m \in Calls[g], n \in Calls[h] :
    m # "wait" /\ n # "wait" => g = h

OneWaiter == \A g, h \in Hosts : "wait" \in Calls[g] /\ "wait" \in Calls[h] => g = h

Stoppers == {"stop_mt", "set_single", "destroy"}

TypeInv ==
  /\ thread_mode \in {"none", "single", "multi"}
  /\ threads \subseteq Workers
  /\ wpc \in [Workers -> {"unborn", "test", "body", "ask", "gone"}]
  /\ call \in [Hosts -> CallNames \cup {"none"}]
  /\ hpc \in [Hosts -> Places]
  /\ target \in [Hosts -> Workers \cup {None}]
  /\ writer \in Hosts \cup {None}
  /\ readers \subseteq Hosts
  /\ termination_requested \in BOOLEAN
  /\ failure \in BOOLEAN
  /\ destroyed \in BOOLEAN

(* The place of a host tells which call it is in. *)
CallInv ==
  \A h \in Hosts :
    /\ hpc[h] = "idle" <=> call[h] = "none"
    /\ call[h] # "none" => call[h] \in Calls[h]
    /\ hpc[h] = "lock" => call[h] \in Stoppers \cup {"run_mt"}
    /\ hpc[h] \in {"start", "spawn"} => call[h] = "run_mt"
    /\ hpc[h] = "stop" => call[h] \in Stoppers
    /\ hpc[h] = "stopped" => call[h] \in Stoppers \ {"stop_mt"}
    /\ hpc[h] = "join" => call[h] \in Stoppers \cup {"wait"}
    /\ hpc[h] \in {"mode", "poll", "check"} => call[h] = "wait"
    /\ hpc[h] \in {"test", "set", "cycle"} => call[h] = "run_cycle"

Excludes(h) ==
  \/ hpc[h] \in {"start", "spawn", "stop"}
  \/ hpc[h] = "join" /\ call[h] # "wait"

Shares(h) ==
  \/ hpc[h] = "check"
  \/ hpc[h] = "join" /\ call[h] = "wait"

(* Who holds threads_mtp_, and that it is a readers-writer lock. *)
LockInv ==
  /\ writer # None => readers = {}
  /\ \A h \in Hosts : (writer = h <=> Excludes(h)) /\ (h \in readers <=> Shares(h))

(* A host joins a member of threads_, which keeps every thread that was    *)
(* started; a thread that was joined has ended.                            *)
ThreadInv ==
  /\ joined \subseteq {w \in threads : wpc[w] = "gone"}
  /\ \A w \in Workers : w \in threads <=> wpc[w] # "unborn"
  /\ \A h \in Hosts : target[h] # None => hpc[h] = "join" /\ target[h] \in threads

(* The mode is multi while there are threads; in the places that rely on   *)
(* it there are none, and after the destructor only a wait can be left.    *)
ModeInv ==
  /\ threads # {} => thread_mode = "multi"
  /\ \A h \in Hosts :
       /\ hpc[h] = "spawn" => thread_mode = "multi"
       /\ hpc[h] \in {"set", "cycle", "stopped"} => threads = {}
  /\ destroyed => threads = {} /\ \A h \in Hosts : call[h] \in {"none", "wait"}

IInv == TypeInv /\ CallInv /\ LockInv /\ ThreadInv

-----------------------------------------------------------------------------
(* run_mt counts the threads it has started, so it can start another.     *)
LEMMA SpareWorker ==
  ASSUME threads \subseteq Workers, Cardinality(threads) < ThreadCount
  PROVE  \E w \in Workers : w \notin threads
<1>1. Cardinality(Workers) \in Nat /\ ThreadCount <= Cardinality(Workers)
  BY LifecycleAssumption, FS_CardinalityType
<1>2. threads # Workers
  BY <1>1, LifecycleAssumption
<1>. QED
  BY <1>2

LEMMA Initial == Init => IInv /\ ModeInv /\ JoinedOnce
<1> SUFFICES ASSUME Init PROVE IInv /\ ModeInv /\ JoinedOnce
  OBVIOUS
<1>. USE LifecycleAssumption DEF Init
<1>1. TypeInv /\ CallInv
  BY DEF TypeInv, CallInv, Places, CallNames, Stoppers
<1>2. LockInv /\ ThreadInv
  BY DEF LockInv, Excludes, Shares, ThreadInv
<1>3. ModeInv /\ JoinedOnce
  BY DEF ModeInv, JoinedOnce
<1>. QED
  BY <1>1, <1>2, <1>3 DEF IInv

(* Every step keeps the types. A thread to start is left in Workers, as    *)
(* fewer than ThreadCount were started.                                    *)
LEMMA TypeStep ==
  ASSUME TypeInv, ThreadInv, [Next]_vars
  PROVE  TypeInv'
<1>. USE LifecycleAssumption DEF TypeInv, Places, CallNames, ThreadInv, pool,
         host, lock, flags
<1>1. CASE UNCHANGED <<thread_mode, threads, wpc, call, hpc, target,
                       writer, readers, termination_requested, failure, destroyed>>
  BY <1>1
<1>2. ASSUME NEW h \in Hosts, BeginLocked(h) PROVE TypeInv'
  BY <1>2 DEF BeginLocked, Begin, At, Go
<1>3. ASSUME NEW h \in Hosts, BeginDestroy(h) PROVE TypeInv'
  BY <1>3 DEF BeginDestroy, Begin, At, Go
<1>4. ASSUME NEW h \in Hosts, BeginWait(h) PROVE TypeInv'
  BY <1>4 DEF BeginWait, Begin, At, Go
<1>5. ASSUME NEW h \in Hosts, BeginCycle(h) PROVE TypeInv'
  BY <1>5 DEF BeginCycle, Begin, At, Go
<1>6. ASSUME NEW h \in Hosts, SetMultiThreadMode(h) PROVE TypeInv'
  BY <1>6 DEF SetMultiThreadMode, At
<1>7. ASSUME NEW h \in Hosts, LockUnique(h) PROVE TypeInv'
  BY <1>7 DEF LockUnique, At, Go, CanWrite
<1>8. ASSUME NEW h \in Hosts, StartRefused(h) PROVE TypeInv'
  BY <1>8 DEF StartRefused, At, Leave, ReleaseWriter, MayStart
<1>9. ASSUME NEW h \in Hosts, StartAccepted(h) PROVE TypeInv'
  BY <1>9 DEF StartAccepted, At, Go, MayStart
<1>10. ASSUME NEW h \in Hosts, Spawn(h) PROVE TypeInv'
  <2>. DEFINE w == CHOOSE w \in Workers : w \notin threads
  <2>1. w \in Workers /\ w \notin threads
    BY <1>10, SpareWorker DEF Spawn
  <2>2. /\ threads' = threads \cup {w} /\ wpc' = [wpc EXCEPT ![w] = "test"]
        /\ UNCHANGED <<thread_mode, joined, host, lock, flags, destroyed>>
    BY <1>10 DEF Spawn
  <2>. HIDE DEF w
  <2>. QED
    BY <2>1, <2>2
<1>11. ASSUME NEW h \in Hosts, SpawnDone(h) PROVE TypeInv'
  BY <1>11 DEF SpawnDone, At, Leave, ReleaseWriter
<1>12. ASSUME NEW h \in Hosts, StopNotMulti(h) PROVE TypeInv'
  BY <1>12 DEF StopNotMulti, At, StopReturn, Go, Leave, ReleaseWriter
<1>13. ASSUME NEW h \in Hosts, StopMulti(h) PROVE TypeInv'
  BY <1>13 DEF StopMulti, At, Go
<1>14. ASSUME NEW h \in Hosts, JoinBegin(h) PROVE TypeInv'
  BY <1>14 DEF JoinBegin, At, Joinable
<1>15. ASSUME NEW h \in Hosts, JoinEnd(h) PROVE TypeInv'
  BY <1>15 DEF JoinEnd, At
<1>16. ASSUME NEW h \in Hosts, StopJoined(h) PROVE TypeInv'
  BY <1>16 DEF StopJoined, StopReturn, AllJoined, Forget, Go, Leave,
     ReleaseWriter, At, Joinable
<1>17. ASSUME NEW h \in Hosts, SetSingleMode(h) PROVE TypeInv'
  BY <1>17 DEF SetSingleMode, At, Leave
<1>18. ASSUME NEW h \in Hosts, Destroy(h) PROVE TypeInv'
  BY <1>18 DEF Destroy, At, Leave
<1>19. ASSUME NEW h \in Hosts, WaitNotMulti(h) PROVE TypeInv'
  BY <1>19 DEF WaitNotMulti, At, Leave
<1>20. ASSUME NEW h \in Hosts, WaitMulti(h) PROVE TypeInv'
  BY <1>20 DEF WaitMulti, At, Go
<1>21. ASSUME NEW h \in Hosts, PollEnds(h) PROVE TypeInv'
  BY <1>21 DEF PollEnds, At, Go, CanRead
<1>22. ASSUME NEW h \in Hosts, WaitJoins(h) PROVE TypeInv'
  BY <1>22 DEF WaitJoins, At, Go, Stopping
<1>23. ASSUME NEW h \in Hosts, WaitTimedOut(h) PROVE TypeInv'
  BY <1>23 DEF WaitTimedOut, At, Leave, ReleaseReader, Stopping
<1>24. ASSUME NEW h \in Hosts, WaitJoined(h) PROVE TypeInv'
  BY <1>24 DEF WaitJoined, Leave, ReleaseReader, AllJoined, At, Joinable
<1>25. ASSUME NEW h \in Hosts, CycleRefused(h) PROVE TypeInv'
  BY <1>25 DEF CycleRefused, At, Leave, MayCycle
<1>26. ASSUME NEW h \in Hosts, CycleAccepted(h) PROVE TypeInv'
  BY <1>26 DEF CycleAccepted, At, Go, MayCycle
<1>27. ASSUME NEW h \in Hosts, CycleSetMode(h) PROVE TypeInv'
  BY <1>27 DEF CycleSetMode, At, Go
<1>28. ASSUME NEW h \in Hosts, CycleEnd(h) PROVE TypeInv'
  BY <1>28 DEF CycleEnd, At, Leave
<1>29. ASSUME NEW w \in Workers, Test(w) PROVE TypeInv'
  BY <1>29 DEF Test, Stopping, WorkerGo
<1>30. ASSUME NEW w \in Workers, BodyEnds(w) PROVE TypeInv'
  BY <1>30 DEF BodyEnds, WorkerGo
<1>31. ASSUME NEW w \in Workers, BodyThrows(w) PROVE TypeInv'
  BY <1>31 DEF BodyThrows, WorkerGo
<1>32. ASSUME NEW w \in Workers, BodyAsks(w) PROVE TypeInv'
  BY <1>32 DEF BodyAsks, WorkerGo
<1>33. ASSUME NEW w \in Workers, Answered(w) PROVE TypeInv'
  BY <1>33 DEF Answered, CanRead, WorkerGo
<1>34. CASE Terminate
  BY <1>34 DEF Terminate
<1>. QED
  BY <1>1, <1>2, <1>3, <1>4, <1>5, <1>6, <1>7, <1>8, <1>9, <1>10, <1>11,
     <1>12, <1>13, <1>14, <1>15, <1>16, <1>17, <1>18, <1>19, <1>20, <1>21,
     <1>22, <1>23, <1>24, <1>25, <1>26, <1>27, <1>28, <1>29, <1>30, <1>31,
     <1>32, <1>33, <1>34 DEF Next, Start, Continue, Worker, vars, pool, host,
     lock, flags, Terminate

(* A call begins at its first place, goes from place to place, and leaves  *)
(* the host idle.                                                          *)
LEMMA CallStep ==
  ASSUME TypeInv, CallInv, [Next]_vars
  PROVE  CallInv'
<1>. USE LifecycleAssumption DEF TypeInv, CallInv, Stoppers, CallNames,
         Places, pool, host, lock, flags
<1>1. CASE UNCHANGED <<call, hpc>>
  BY <1>1
<1>2. ASSUME NEW h \in Hosts, BeginLocked(h) PROVE CallInv'
  BY <1>2 DEF BeginLocked, Begin, At, Go
<1>3. ASSUME NEW h \in Hosts, BeginDestroy(h) PROVE CallInv'
  BY <1>3 DEF BeginDestroy, Begin, At, Go
<1>4. ASSUME NEW h \in Hosts, BeginWait(h) PROVE CallInv'
  BY <1>4 DEF BeginWait, Begin, At, Go
<1>5. ASSUME NEW h \in Hosts, BeginCycle(h) PROVE CallInv'
  BY <1>5 DEF BeginCycle, Begin, At, Go
<1>6. ASSUME NEW h \in Hosts, LockUnique(h) PROVE CallInv'
  BY <1>6 DEF LockUnique, At, Go, CanWrite
<1>7. ASSUME NEW h \in Hosts, StartRefused(h) PROVE CallInv'
  BY <1>7 DEF StartRefused, At, Leave, ReleaseWriter, MayStart
<1>8. ASSUME NEW h \in Hosts, StartAccepted(h) PROVE CallInv'
  BY <1>8 DEF StartAccepted, At, Go, MayStart
<1>9. ASSUME NEW h \in Hosts, SpawnDone(h) PROVE CallInv'
  BY <1>9 DEF SpawnDone, At, Leave, ReleaseWriter
<1>10. ASSUME NEW h \in Hosts, StopNotMulti(h) PROVE CallInv'
  BY <1>10 DEF StopNotMulti, At, StopReturn, Go, Leave, ReleaseWriter
<1>11. ASSUME NEW h \in Hosts, StopMulti(h) PROVE CallInv'
  BY <1>11 DEF StopMulti, At, Go
<1>12. ASSUME NEW h \in Hosts, StopJoined(h) PROVE CallInv'
  BY <1>12 DEF StopJoined, StopReturn, AllJoined, Forget, Go, Leave,
     ReleaseWriter, At, Joinable
<1>13. ASSUME NEW h \in Hosts, SetSingleMode(h) PROVE CallInv'
  BY <1>13 DEF SetSingleMode, At, Leave
<1>14. ASSUME NEW h \in Hosts, Destroy(h) PROVE CallInv'
  BY <1>14 DEF Destroy, At, Leave
<1>15. ASSUME NEW h \in Hosts, WaitNotMulti(h) PROVE CallInv'
  BY <1>15 DEF WaitNotMulti, At, Leave
<1>16. ASSUME NEW h \in Hosts, WaitMulti(h) PROVE CallInv'
  BY <1>16 DEF WaitMulti, At, Go
<1>17. ASSUME NEW h \in Hosts, PollEnds(h) PROVE CallInv'
  BY <1>17 DEF PollEnds, At, Go, CanRead
<1>18. ASSUME NEW h \in Hosts, WaitJoins(h) PROVE CallInv'
  BY <1>18 DEF WaitJoins, At, Go, Stopping
<1>19. ASSUME NEW h \in Hosts, WaitTimedOut(h) PROVE CallInv'
  BY <1>19 DEF WaitTimedOut, At, Leave, ReleaseReader, Stopping
<1>20. ASSUME NEW h \in Hosts, WaitJoined(h) PROVE CallInv'
  BY <1>20 DEF WaitJoined, Leave, ReleaseReader, AllJoined, At, Joinable
<1>21. ASSUME NEW h \in Hosts, CycleRefused(h) PROVE CallInv'
  BY <1>21 DEF CycleRefused, At, Leave, MayCycle
<1>22. ASSUME NEW h \in Hosts, CycleAccepted(h) PROVE CallInv'
  BY <1>22 DEF CycleAccepted, At, Go, MayCycle
<1>23. ASSUME NEW h \in Hosts, CycleSetMode(h) PROVE CallInv'
  BY <1>23 DEF CycleSetMode, At, Go
<1>24. ASSUME NEW h \in Hosts, CycleEnd(h) PROVE CallInv'
  BY <1>24 DEF CycleEnd, At, Leave
<1>. QED
  BY <1>1, <1>2, <1>3, <1>4, <1>5, <1>6, <1>7, <1>8, <1>9, <1>10, <1>11,
     <1>12, <1>13, <1>14, <1>15, <1>16, <1>17, <1>18, <1>19, <1>20, <1>21,
     <1>22, <1>23, <1>24 DEF Next, Start, Continue, Worker, vars, pool, host,
     lock, flags, Terminate, SetMultiThreadMode, Spawn, JoinBegin, JoinEnd,
     Test, BodyEnds, BodyThrows, BodyAsks, Answered

(* The lock is taken on the way to the places that need it, and given back *)
(* on the way from them.                                                   *)
LEMMA LockStep ==
  ASSUME TypeInv, CallInv, LockInv, [Next]_vars
  PROVE  LockInv'
<1>. USE LifecycleAssumption DEF TypeInv, CallInv, LockInv, Excludes, Shares,
         Stoppers, pool, host, lock, flags
<1>1. CASE UNCHANGED <<call, hpc, writer, readers>>
  BY <1>1
<1>2. ASSUME NEW h \in Hosts, BeginLocked(h) PROVE LockInv'
  BY <1>2 DEF BeginLocked, Begin, At, Go
<1>3. ASSUME NEW h \in Hosts, BeginDestroy(h) PROVE LockInv'
  BY <1>3 DEF BeginDestroy, Begin, At, Go
<1>4. ASSUME NEW h \in Hosts, BeginWait(h) PROVE LockInv'
  BY <1>4 DEF BeginWait, Begin, At, Go
<1>5. ASSUME NEW h \in Hosts, BeginCycle(h) PROVE LockInv'
  BY <1>5 DEF BeginCycle, Begin, At, Go
<1>6. ASSUME NEW h \in Hosts, LockUnique(h) PROVE LockInv'
  BY <1>6 DEF LockUnique, At, Go, CanWrite
<1>7. ASSUME NEW h \in Hosts, StartRefused(h) PROVE LockInv'
  BY <1>7 DEF StartRefused, At, Leave, ReleaseWriter, MayStart
<1>8. ASSUME NEW h \in Hosts, StartAccepted(h) PROVE LockInv'
  BY <1>8 DEF StartAccepted, At, Go, MayStart
<1>9. ASSUME NEW h \in Hosts, SpawnDone(h) PROVE LockInv'
  BY <1>9 DEF SpawnDone, At, Leave, ReleaseWriter
<1>10. ASSUME NEW h \in Hosts, StopNotMulti(h) PROVE LockInv'
  BY <1>10 DEF StopNotMulti, At, StopReturn, Go, Leave, ReleaseWriter
<1>11. ASSUME NEW h \in Hosts, StopMulti(h) PROVE LockInv'
  BY <1>11 DEF StopMulti, At, Go
<1>12. ASSUME NEW h \in Hosts, StopJoined(h) PROVE LockInv'
  BY <1>12 DEF StopJoined, StopReturn, AllJoined, Forget, Go, Leave,
     ReleaseWriter, At, Joinable
<1>13. ASSUME NEW h \in Hosts, SetSingleMode(h) PROVE LockInv'
  BY <1>13 DEF SetSingleMode, At, Leave
<1>14. ASSUME NEW h \in Hosts, Destroy(h) PROVE LockInv'
  BY <1>14 DEF Destroy, At, Leave
<1>15. ASSUME NEW h \in Hosts, WaitNotMulti(h) PROVE LockInv'
  BY <1>15 DEF WaitNotMulti, At, Leave
<1>16. ASSUME NEW h \in Hosts, WaitMulti(h) PROVE LockInv'
  BY <1>16 DEF WaitMulti, At, Go
<1>17. ASSUME NEW h \in Hosts, PollEnds(h) PROVE LockInv'
  BY <1>17 DEF PollEnds, At, Go, CanRead
<1>18. ASSUME NEW h \in Hosts, WaitJoins(h) PROVE LockInv'
  BY <1>18 DEF WaitJoins, At, Go, Stopping
<1>19. ASSUME NEW h \in Hosts, WaitTimedOut(h) PROVE LockInv'
  BY <1>19 DEF WaitTimedOut, At, Leave, ReleaseReader, Stopping
<1>20. ASSUME NEW h \in Hosts, WaitJoined(h) PROVE LockInv'
  BY <1>20 DEF WaitJoined, Leave, ReleaseReader, AllJoined, At, Joinable
<1>21. ASSUME NEW h \in Hosts, CycleRefused(h) PROVE LockInv'
  BY <1>21 DEF CycleRefused, At, Leave, MayCycle
<1>22. ASSUME NEW h \in Hosts, CycleAccepted(h) PROVE LockInv'
  BY <1>22 DEF CycleAccepted, At, Go, MayCycle
<1>23. ASSUME NEW h \in Hosts, CycleSetMode(h) PROVE LockInv'
  BY <1>23 DEF CycleSetMode, At, Go
<1>24. ASSUME NEW h \in Hosts, CycleEnd(h) PROVE LockInv'
  BY <1>24 DEF CycleEnd, At, Leave
<1>. QED
  BY <1>1, <1>2, <1>3, <1>4, <1>5, <1>6, <1>7, <1>8, <1>9, <1>10, <1>11,
     <1>12, <1>13, <1>14, <1>15, <1>16, <1>17, <1>18, <1>19, <1>20, <1>21,
     <1>22, <1>23, <1>24 DEF Next, Start, Continue, Worker, vars, pool, host,
     lock, flags, Terminate, SetMultiThreadMode, Spawn, JoinBegin, JoinEnd,
     Test, BodyEnds, BodyThrows, BodyAsks, Answered

(* threads_ is cleared under the exclusive lock, when no other host joins  *)
(* one of its members and all of them have ended.                          *)
LEMMA ThreadStep ==
  ASSUME TypeInv, LockInv, ThreadInv, [Next]_vars
  PROVE  ThreadInv'
<1>. USE LifecycleAssumption DEF TypeInv, LockInv, ThreadInv, Excludes,
         Shares, pool, host, lock, flags
<1>1. CASE UNCHANGED <<threads, joined, wpc, hpc, target>>
  BY <1>1
<1>2. ASSUME NEW h \in Hosts, BeginLocked(h) PROVE ThreadInv'
  BY <1>2 DEF BeginLocked, Begin, At, Go
<1>3. ASSUME NEW h \in Hosts, BeginDestroy(h) PROVE ThreadInv'
  BY <1>3 DEF BeginDestroy, Begin, At, Go
<1>4. ASSUME NEW h \in Hosts, BeginWait(h) PROVE ThreadInv'
  BY <1>4 DEF BeginWait, Begin, At, Go
<1>5. ASSUME NEW h \in Hosts, BeginCycle(h) PROVE ThreadInv'
  BY <1>5 DEF BeginCycle, Begin, At, Go
<1>6. ASSUME NEW h \in Hosts, LockUnique(h) PROVE ThreadInv'
  BY <1>6 DEF LockUnique, At, Go, CanWrite
<1>7. ASSUME NEW h \in Hosts, StartRefused(h) PROVE ThreadInv'
  BY <1>7 DEF StartRefused, At, Leave, ReleaseWriter, MayStart
<1>8. ASSUME NEW h \in Hosts, StartAccepted(h) PROVE ThreadInv'
  BY <1>8 DEF StartAccepted, At, Go, MayStart
<1>9. ASSUME NEW h \in Hosts, Spawn(h) PROVE ThreadInv'
  <2>. DEFINE w == CHOOSE w \in Workers : w \notin threads
  <2>1. w \in Workers /\ w \notin threads
    BY <1>9, SpareWorker DEF Spawn
  <2>2. /\ threads' = threads \cup {w} /\ wpc' = [wpc EXCEPT ![w] = "test"]
        /\ UNCHANGED <<thread_mode, joined, host, lock, flags, destroyed>>
    BY <1>9 DEF Spawn
  <2>. HIDE DEF w
  <2>. QED
    BY <2>1, <2>2
<1>10. ASSUME NEW h \in Hosts, SpawnDone(h) PROVE ThreadInv'
  BY <1>10 DEF SpawnDone, At, Leave, ReleaseWriter
<1>11. ASSUME NEW h \in Hosts, StopNotMulti(h) PROVE ThreadInv'
  BY <1>11 DEF StopNotMulti, At, StopReturn, Go, Leave, ReleaseWriter
<1>12. ASSUME NEW h \in Hosts, StopMulti(h) PROVE ThreadInv'
  BY <1>12 DEF StopMulti, At, Go
<1>13. ASSUME NEW h \in Hosts, JoinBegin(h) PROVE ThreadInv'
  BY <1>13 DEF JoinBegin, At, Joinable
<1>14. ASSUME NEW h \in Hosts, JoinEnd(h) PROVE ThreadInv'
  BY <1>14 DEF JoinEnd, At
<1>15. ASSUME NEW h \in Hosts, StopJoined(h) PROVE ThreadInv'
  BY <1>15 DEF StopJoined, StopReturn, AllJoined, Forget, Go, Leave,
     ReleaseWriter, At, Joinable
<1>16. ASSUME NEW h \in Hosts, SetSingleMode(h) PROVE ThreadInv'
  BY <1>16 DEF SetSingleMode, At, Leave
<1>17. ASSUME NEW h \in Hosts, Destroy(h) PROVE ThreadInv'
  BY <1>17 DEF Destroy, At, Leave
<1>18. ASSUME NEW h \in Hosts, WaitNotMulti(h) PROVE ThreadInv'
  BY <1>18 DEF WaitNotMulti, At, Leave
<1>19. ASSUME NEW h \in Hosts, WaitMulti(h) PROVE ThreadInv'
  BY <1>19 DEF WaitMulti, At, Go
<1>20. ASSUME NEW h \in Hosts, PollEnds(h) PROVE ThreadInv'
  BY <1>20 DEF PollEnds, At, Go, CanRead
<1>21. ASSUME NEW h \in Hosts, WaitJoins(h) PROVE ThreadInv'
  BY <1>21 DEF WaitJoins, At, Go, Stopping
<1>22. ASSUME NEW h \in Hosts, WaitTimedOut(h) PROVE ThreadInv'
  BY <1>22 DEF WaitTimedOut, At, Leave, ReleaseReader, Stopping
<1>23. ASSUME NEW h \in Hosts, WaitJoined(h) PROVE ThreadInv'
  BY <1>23 DEF WaitJoined, Leave, ReleaseReader, AllJoined, At, Joinable
<1>24. ASSUME NEW h \in Hosts, CycleRefused(h) PROVE ThreadInv'
  BY <1>24 DEF CycleRefused, At, Leave, MayCycle
<1>25. ASSUME NEW h \in Hosts, CycleAccepted(h) PROVE ThreadInv'
  BY <1>25 DEF CycleAccepted, At, Go, MayCycle
<1>26. ASSUME NEW h \in Hosts, CycleSetMode(h) PROVE ThreadInv'
  BY <1>26 DEF CycleSetMode, At, Go
<1>27. ASSUME NEW h \in Hosts, CycleEnd(h) PROVE ThreadInv'
  BY <1>27 DEF CycleEnd, At, Leave
<1>28. ASSUME NEW w \in Workers, Test(w) PROVE ThreadInv'
  BY <1>28 DEF Test, Stopping, WorkerGo
<1>29. ASSUME NEW w \in Workers, BodyEnds(w) PROVE ThreadInv'
  BY <1>29 DEF BodyEnds, WorkerGo
<1>30. ASSUME NEW w \in Workers, BodyThrows(w) PROVE ThreadInv'
  BY <1>30 DEF BodyThrows, WorkerGo
<1>31. ASSUME NEW w \in Workers, BodyAsks(w) PROVE ThreadInv'
  BY <1>31 DEF BodyAsks, WorkerGo
<1>32. ASSUME NEW w \in Workers, Answered(w) PROVE ThreadInv'
  BY <1>32 DEF Answered, CanRead, WorkerGo
<1>. QED
  BY <1>1, <1>2, <1>3, <1>4, <1>5, <1>6, <1>7, <1>8, <1>9, <1>10, <1>11,
     <1>12, <1>13, <1>14, <1>15, <1>16, <1>17, <1>18, <1>19, <1>20, <1>21,
     <1>22, <1>23, <1>24, <1>25, <1>26, <1>27, <1>28, <1>29, <1>30, <1>31,
     <1>32 DEF Next, Start, Continue, Worker, vars, pool, host, lock, flags,
     Terminate, SetMultiThreadMode

(* Two hosts that join at once both hold the lock shared, so both are in   *)
(* wait.                                                                   *)
LEMMA OnceStep ==
  ASSUME OneWaiter, TypeInv, CallInv, LockInv, ThreadInv, JoinedOnce, [Next]_vars
  PROVE  JoinedOnce'
<1>. USE LifecycleAssumption DEF OneWaiter, TypeInv, CallInv, LockInv,
         ThreadInv, JoinedOnce, Joinable, Excludes, Shares, pool, host, lock,
         flags
<1>1. CASE UNCHANGED <<threads, joined, target>>
  BY <1>1
<1>2. ASSUME NEW h \in Hosts, Spawn(h) PROVE JoinedOnce'
  BY <1>2 DEF Spawn, At
<1>3. ASSUME NEW h \in Hosts, JoinBegin(h) PROVE JoinedOnce'
  BY <1>3 DEF JoinBegin, At, Joinable
<1>4. ASSUME NEW h \in Hosts, JoinEnd(h) PROVE JoinedOnce'
  BY <1>4 DEF JoinEnd, At
<1>5. ASSUME NEW h \in Hosts, StopJoined(h) PROVE JoinedOnce'
  BY <1>5 DEF StopJoined, StopReturn, AllJoined, Forget, Go, Leave,
     ReleaseWriter, At, Joinable
<1>. QED
  BY <1>1, <1>2, <1>3, <1>4, <1>5 DEF Next, Start, Continue, Worker, vars,
     pool, host, lock, flags, Terminate, BeginLocked, BeginDestroy, BeginWait,
     BeginCycle, SetMultiThreadMode, LockUnique, StartRefused, StartAccepted,
     SpawnDone, StopNotMulti, StopMulti, SetSingleMode, Destroy, WaitNotMulti,
     WaitMulti, PollEnds, WaitJoins, WaitTimedOut, WaitJoined, CycleRefused,
     CycleAccepted, CycleSetMode, CycleEnd, Test, BodyEnds, BodyThrows,
     BodyAsks, Answered, Begin

(* While the driver is in a place that relies on the mode nobody else      *)
(* changes the mode, starts a thread or clears threads_.                   *)
LEMMA ModeStep ==
  ASSUME OneDriver, TypeInv, CallInv, ThreadInv, ModeInv, [Next]_vars
  PROVE  ModeInv'
<1>. USE LifecycleAssumption DEF OneDriver, TypeInv, CallInv, ThreadInv,
         ModeInv, Stoppers, pool, host, lock, flags
<1>1. CASE UNCHANGED <<thread_mode, threads, hpc, call, destroyed>>
  BY <1>1
<1>2. ASSUME NEW h \in Hosts, BeginLocked(h) PROVE ModeInv'
  BY <1>2 DEF BeginLocked, Begin, At, Go
<1>3. ASSUME NEW h \in Hosts, BeginDestroy(h) PROVE ModeInv'
  BY <1>3 DEF BeginDestroy, Begin, At, Go
<1>4. ASSUME NEW h \in Hosts, BeginWait(h) PROVE ModeInv'
  BY <1>4 DEF BeginWait, Begin, At, Go
<1>5. ASSUME NEW h \in Hosts, BeginCycle(h) PROVE ModeInv'
  BY <1>5 DEF BeginCycle, Begin, At, Go
<1>6. ASSUME NEW h \in Hosts, SetMultiThreadMode(h) PROVE ModeInv'
  BY <1>6 DEF SetMultiThreadMode, At
<1>7. ASSUME NEW h \in Hosts, LockUnique(h) PROVE ModeInv'
  BY <1>7 DEF LockUnique, At, Go, CanWrite
<1>8. ASSUME NEW h \in Hosts, StartRefused(h) PROVE ModeInv'
  BY <1>8 DEF StartRefused, At, Leave, ReleaseWriter, MayStart
<1>9. ASSUME NEW h \in Hosts, StartAccepted(h) PROVE ModeInv'
  BY <1>9 DEF StartAccepted, At, Go, MayStart
<1>10. ASSUME NEW h \in Hosts, Spawn(h) PROVE ModeInv'
  BY <1>10 DEF Spawn, At
<1>11. ASSUME NEW h \in Hosts, SpawnDone(h) PROVE ModeInv'
  BY <1>11 DEF SpawnDone, At, Leave, ReleaseWriter
<1>12. ASSUME NEW h \in Hosts, StopNotMulti(h) PROVE ModeInv'
  BY <1>12 DEF StopNotMulti, At, StopReturn, Go, Leave, ReleaseWriter
<1>13. ASSUME NEW h \in Hosts, StopMulti(h) PROVE ModeInv'
  BY <1>13 DEF StopMulti, At, Go
<1>14. ASSUME NEW h \in Hosts, StopJoined(h) PROVE ModeInv'
  BY <1>14 DEF StopJoined, StopReturn, AllJoined, Forget, Go, Leave,
     ReleaseWriter, At, Joinable
<1>15. ASSUME NEW h \in Hosts, SetSingleMode(h) PROVE ModeInv'
  BY <1>15 DEF SetSingleMode, At, Leave
<1>16. ASSUME NEW h \in Hosts, Destroy(h) PROVE ModeInv'
  BY <1>16 DEF Destroy, At, Leave
<1>17. ASSUME NEW h \in Hosts, WaitNotMulti(h) PROVE ModeInv'
  BY <1>17 DEF WaitNotMulti, At, Leave
<1>18. ASSUME NEW h \in Hosts, WaitMulti(h) PROVE ModeInv'
  BY <1>18 DEF WaitMulti, At, Go
<1>19. ASSUME NEW h \in Hosts, PollEnds(h) PROVE ModeInv'
  BY <1>19 DEF PollEnds, At, Go, CanRead
<1>20. ASSUME NEW h \in Hosts, WaitJoins(h) PROVE ModeInv'
  BY <1>20 DEF WaitJoins, At, Go, Stopping
<1>21. ASSUME NEW h \in Hosts, WaitTimedOut(h) PROVE ModeInv'
  BY <1>21 DEF WaitTimedOut, At, Leave, ReleaseReader, Stopping
<1>22. ASSUME NEW h \in Hosts, WaitJoined(h) PROVE ModeInv'
  BY <1>22 DEF WaitJoined, Leave, ReleaseReader, AllJoined, At, Joinable
<1>23. ASSUME NEW h \in Hosts, CycleRefused(h) PROVE ModeInv'
  BY <1>23 DEF CycleRefused, At, Leave, MayCycle
<1>24. ASSUME NEW h \in Hosts, CycleAccepted(h) PROVE ModeInv'
  BY <1>24 DEF CycleAccepted, At, Go, MayCycle
<1>25. ASSUME NEW h \in Hosts, CycleSetMode(h) PROVE ModeInv'
  BY <1>25 DEF CycleSetMode, At, Go
<1>26. ASSUME NEW h \in Hosts, CycleEnd(h) PROVE ModeInv'
  BY <1>26 DEF CycleEnd, At, Leave
<1>. QED
  BY <1>1, <1>2, <1>3, <1>4, <1>5, <1>6, <1>7, <1>8, <1>9, <1>10, <1>11,
     <1>12, <1>13, <1>14, <1>15, <1>16, <1>17, <1>18, <1>19, <1>20, <1>21,
     <1>22, <1>23, <1>24, <1>25, <1>26 DEF Next, Start, Continue, Worker,
     vars, pool, host, lock, flags, Terminate, JoinBegin, JoinEnd, Test,
     BodyEnds, BodyThrows, BodyAsks, Answered

-----------------------------------------------------------------------------
LEMMA Invariant == Spec => []IInv
<1>1. Init => IInv
  BY Initial
<1>2. IInv /\ [Next]_vars => IInv'
  BY TypeStep, CallStep, LockStep, ThreadStep DEF IInv
<1>. QED
  BY <1>1, <1>2, PTL DEF Spec

(* Every variable keeps its type, and only members of threads_ count as    *)
(* joined, whatever the hosts call at once.                                *)
THEOREM TypeCorrect == Spec => []TypeOK
<1>1. IInv => TypeOK
  BY DEF IInv, TypeInv, ThreadInv, TypeOK
<1>. QED
  BY <1>1, Invariant, PTL

(* stop_mt and wait hold threads_mtp_ while they join, so no thread is     *)
(* joined twice; two waits would hold it shared, hence the assumption.     *)
THEOREM NoThreadJoinedTwice == OneWaiter => (Spec => []JoinedOnce)
<1> SUFFICES ASSUME OneWaiter PROVE Spec => []JoinedOnce
  OBVIOUS
<1>1. Init => JoinedOnce
  BY Initial
<1>2. IInv /\ JoinedOnce /\ [Next]_vars => JoinedOnce'
  BY OnceStep DEF IInv
<1>. QED
  BY <1>1, <1>2, Invariant, PTL DEF Spec

LEMMA ModeInvariant == OneDriver => (Spec => []ModeInv)
<1> SUFFICES ASSUME OneDriver PROVE Spec => []ModeInv
  OBVIOUS
<1>1. Init => ModeInv
  BY Initial
<1>2. IInv /\ ModeInv /\ [Next]_vars => ModeInv'
  BY ModeStep DEF IInv
<1>. QED
  BY <1>1, <1>2, Invariant, PTL DEF Spec

(* run_cycle, which does not try_lock the cells, never executes them       *)
(* beside a worker thread, if one host drives the runtime: the mode it     *)
(* reads without a lock is still what it was.                              *)
THEOREM CycleIsAlone == OneDriver => (Spec => []CycleRunsAlone)
<1>1. IInv /\ ModeInv => CycleRunsAlone
  BY DEF IInv, ThreadInv, ModeInv, CycleRunsAlone, Alive, At
<1>. QED
  BY <1>1, Invariant, ModeInvariant, PTL

(* stop_mt decides by the mode whether there are threads to join; it is    *)
(* multi as long as one of them runs.                                      *)
THEOREM ModeTellsOfThreads == OneDriver => (Spec => []ThreadsImplyMulti)
<1>1. IInv /\ ModeInv => ThreadsImplyMulti
  BY DEF IInv, ThreadInv, ModeInv, ThreadsImplyMulti, Alive
<1>. QED
  BY <1>1, Invariant, ModeInvariant, PTL

(* The destructor leaves no thread behind, and none is started after it.   *)
THEOREM DestructorJoins == OneDriver => (Spec => []NothingOutlivesRuntime)
<1>1. IInv /\ ModeInv => NothingOutlivesRuntime
  BY DEF IInv, ThreadInv, ModeInv, NothingOutlivesRuntime, Alive
<1>. QED
  BY <1>1, Invariant, ModeInvariant, PTL
=============================================================================
