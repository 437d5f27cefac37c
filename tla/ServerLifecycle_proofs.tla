------------------------ MODULE ServerLifecycle_proofs ------------------------
(***************************************************************************)
(* Proofs about ServerLifecycle, for every size of the pool: jobs find the *)
(* queue and the server they use, and publishing does not stop by itself,  *)
(* if the host is careful.                                                 *)
(***************************************************************************)
EXTENDS ServerLifecycle, TLAPS

Subscribers == queue["ext"] + at["ext_again"]

(* The host is past the point where stop_net_server has seen the           *)
(* publishing job end.                                                     *)
SubsOver ==
  {"close_queue", "stop_server", "wait_server", "stop_ext", "end_ext", "end_queue", "gone"}

HostPlaces ==
  {"idle", "start_subs", "make_server", "start_server", "server_started",
   "stop_subs", "wait_subs", "wait_ext", "ext_started"} \cup SubsOver

(* The variables that are no counters. *)
FlagInv ==
  /\ termination_requested \in BOOLEAN
  /\ cq \in {"none", "open", "closing"}
  /\ enabled \in BOOLEAN /\ running \in BOOLEAN /\ subscribed \in BOOLEAN
  /\ ppserver \in BOOLEAN /\ started \in BOOLEAN /\ terminating \in BOOLEAN
  /\ needed \in BOOLEAN /\ ext_enabled \in BOOLEAN /\ ext_started \in BOOLEAN
  /\ hpc \in HostPlaces /\ dying \in BOOLEAN
  /\ lapsed \in BOOLEAN /\ raced \in BOOLEAN /\ late \in BOOLEAN /\ stale \in BOOLEAN

(* The counters: no more jobs run than the pool has workers, and a queue   *)
(* that is not open is empty.                                              *)
CountInv ==
  /\ queue \in [Kinds -> Nat] /\ at \in [Stages -> Nat]
  /\ Busy <= PoolSize
  /\ cq # "open" => \A k \in Kinds : queue[k] = 0
  /\ hpc \in {"close_queue", "end_queue"} => cq # "open"

(* A termination was requested, or the runtime is being destroyed. *)
EndInv ==
  /\ termination_requested => lapsed
  /\ dying => termination_requested /\ hpc \in {"stop_subs", "wait_subs"} \cup SubsOver

(* There is one publishing job at most; while it runs its flag says so;    *)
(* publishing is enabled only while the queue is there.                    *)
PublishInv ==
  /\ Publishers <= 1
  /\ at["published"] + at["pub_again"] > 0 => running
  /\ hpc = "start_subs" => ~enabled /\ cq = "open" /\ Publishers = 0
  /\ enabled => cq = "open"
  /\ hpc \in {"wait_subs"} \cup SubsOver => ~enabled
  /\ hpc \in SubsOver => at["pub_again"] = 0

(* There is one subscribing job at most, and while it exists its flag is   *)
(* raised or about to be.                                                  *)
SubscribeInv ==
  /\ Subscribers <= 1
  /\ at["ext_again"] > 0 => ext_started
  /\ queue["ext"] > 0 => ext_started \/ hpc = "ext_started"
  /\ Subscribers > 0 \/ hpc = "wait_ext" => needed

(* There is one polling job at most, none when a server is about to be     *)
(* started, and then nothing is left of an earlier server.                 *)
PollInv ==
  /\ queue["poll"] <= 1
  /\ queue["poll"] > 0 => ServerExists /\ (started \/ hpc = "server_started")
  /\ hpc \in {"start_subs", "make_server"} => queue["poll"] = 0 /\ queue["input"] = 0
  /\ hpc = "start_server" => queue["poll"] = 0
  /\ hpc \in {"start_server", "server_started"} => ppserver

(* Until the program is terminated there is a publishing job while         *)
(* publishing is enabled.                                                  *)
LiveInv ==
  ~lapsed /\ enabled => Publishers > 0

(* A subscription made under a publishing job is cleared by that job,      *)
(* which stop_net_server waits for before it resets the pointer to the     *)
(* server: what is left then is late or stale.                             *)
SubscribedInv ==
  /\ subscribed => \/ stale \/ Publishers > 0
                   \/ hpc \in {"end_queue", "gone"}
  /\ subscribed /\ hpc \in SubsOver => late \/ stale
  /\ subscribed => ppserver \/ late \/ stale
  /\ enabled => ppserver \/ hpc = "make_server"

IInv ==
  /\ FlagInv /\ CountInv /\ EndInv /\ PublishInv /\ SubscribeInv /\ PollInv /\ LiveInv
  /\ SubscribedInv /\ QueueIsThere

-----------------------------------------------------------------------------
LEMMA Initial == Init => IInv
<1> SUFFICES ASSUME Init PROVE IInv
  OBVIOUS
<1>. USE ServerAssumption DEF Init, Kinds, Stages
<1>1. FlagInv /\ EndInv
  BY DEF FlagInv, EndInv, HostPlaces
<1>2. CountInv
  BY DEF CountInv, Busy
<1>3. PublishInv /\ SubscribeInv /\ PollInv /\ LiveInv /\ SubscribedInv
  BY DEF PublishInv, SubscribeInv, PollInv, LiveInv, SubscribedInv, Publishers, Subscribers,
         SubsOver
<1>4. QueueIsThere
  BY DEF QueueIsThere
<1>. QED
  BY <1>1, <1>2, <1>3, <1>4 DEF IInv

(* A step sets no variable to a value its type excludes.                   *)
LEMMA FlagStep ==
  ASSUME FlagInv, [Next]_vars
  PROVE  FlagInv'
<1>. USE DEF FlagInv, vars, jobs, subs, server, ext, host, ghosts, HostPlaces,
         SubsOver, Returned
<1>1. CASE Publish
  BY <1>1 DEF Publish
<1>2. CASE PublishGoesOn
  BY <1>2 DEF PublishGoesOn, PublishOn
<1>3. CASE PublishAgain
  BY <1>3 DEF PublishAgain
<1>4. CASE PublishEnds
  <2>1. /\ subscribed' \in BOOLEAN /\ running' \in BOOLEAN
        /\ late' \in BOOLEAN /\ stale' \in BOOLEAN
    BY <1>4, Zenon DEF PublishEnds
  <2>. QED
    BY <1>4, <2>1 DEF PublishEnds, PublishOn
<1>5. CASE Poll
  BY <1>5 DEF Poll, PollerFree
<1>6. CASE PollEnds
  <2>1. started' \in BOOLEAN
    BY <1>6, Zenon DEF PollEnds
  <2>. QED
    BY <1>6, <2>1 DEF PollEnds
<1>7. CASE Input
  <2>1. subscribed' \in BOOLEAN /\ stale' \in BOOLEAN
    BY <1>7, Zenon DEF Input
  <2>. QED
    BY <1>7, <2>1 DEF Input, MaySubscribe
<1>8. CASE StopJob
  BY <1>8 DEF StopJob
<1>9. CASE StopJobEnds
  BY <1>9 DEF StopJobEnds
<1>10. CASE ExtRun
  BY <1>10 DEF ExtRun, ExtOn
<1>11. CASE ExtAgain
  BY <1>11 DEF ExtAgain
<1>12. CASE StartSubs
  BY <1>12 DEF StartSubs, Quiet
<1>13. CASE StopSubs
  BY <1>13 DEF StopSubs
<1>14. CASE Load
  <2>1. ext_enabled' \in BOOLEAN
    BY <1>14, Zenon DEF Load
  <2>. QED
    BY <1>14, <2>1 DEF Load
<1>15. CASE Run
  <2>1. termination_requested' \in BOOLEAN
    BY <1>15, Zenon DEF Run
  <2>. QED
    BY <1>15, <2>1 DEF Run
<1>16. CASE Destroy
  BY <1>16 DEF Destroy
<1>17. CASE EnableSubs
  BY <1>17 DEF EnableSubs
<1>18. CASE MakeServer
  BY <1>18 DEF MakeServer
<1>19. CASE StartServer
  <2>1. terminating' \in BOOLEAN
    BY <1>19, Zenon DEF StartServer
  <2>. QED
    BY <1>19, <2>1 DEF StartServer
<1>20. CASE StartFails
  <2>1. terminating' \in BOOLEAN
    BY <1>20, Zenon DEF StartFails
  <2>. QED
    BY <1>20, <2>1 DEF StartFails
<1>21. CASE ServerStarted
  BY <1>21 DEF ServerStarted
<1>22. CASE DisableSubs
  <2>1. enabled' \in BOOLEAN
    BY <1>22, Zenon DEF DisableSubs
  <2>. QED
    BY <1>22, <2>1 DEF DisableSubs
<1>23. CASE SubsEnded
  <2>1. late' \in BOOLEAN /\ stale' \in BOOLEAN
    BY <1>23, Zenon DEF SubsEnded
  <2>. QED
    BY <1>23, <2>1 DEF SubsEnded, SubsStopped
<1>24. CASE QueueClosed
  BY <1>24 DEF QueueClosed
<1>25. CASE StopNoServer
  BY <1>25 DEF StopNoServer
<1>26. CASE StopServer
  <2>1. ppserver' \in BOOLEAN /\ terminating' \in BOOLEAN
    BY <1>26, Zenon DEF StopServer
  <2>. QED
    BY <1>26, <2>1 DEF StopServer
<1>27. CASE ServerGone
  <2>1. started' \in BOOLEAN
    BY <1>27, Zenon DEF ServerGone
  <2>. QED
    BY <1>27, <2>1 DEF ServerGone, ServerStopped
<1>28. CASE StartExt
  BY <1>28 DEF StartExt
<1>29. CASE ExtStarted
  BY <1>29 DEF ExtStarted
<1>30. CASE DisableExt
  <2>1. ext_enabled' \in BOOLEAN
    BY <1>30, Zenon DEF DisableExt
  <2>. QED
    BY <1>30, <2>1 DEF DisableExt
<1>31. CASE ExtEnded
  BY <1>31 DEF ExtEnded
<1>32. CASE Destroyed
  BY <1>32 DEF Destroyed
<1>33. CASE Terminate
  BY <1>33 DEF Terminate
<1>34. CASE UNCHANGED vars
  BY <1>34
<1>. QED
  BY <1>1, <1>2, <1>3, <1>4, <1>5, <1>6, <1>7, <1>8, <1>9, <1>10, <1>11, <1>12, <1>13, <1>14, <1>15, <1>16, <1>17, <1>18, <1>19, <1>20, <1>21, <1>22, <1>23, <1>24, <1>25, <1>26, <1>27, <1>28, <1>29, <1>30, <1>31, <1>32, <1>33, <1>34 DEF Next, Job, HostCalls, HostGoesOn

(* A job begins only while a worker is free, and nothing is added to a     *)
(* queue that is not open.                                                 *)
LEMMA CountStep ==
  ASSUME CountInv, [Next]_vars
  PROVE  CountInv'
<1>. USE ServerAssumption DEF CountInv, Returned, Busy, vars, jobs, subs,
         server, ext, host, ghosts, Begin, Dequeued, EnqueuedTo, From, To,
         Move, Kinds, Stages
<1>1. CASE Publish
  BY <1>1 DEF Publish
<1>2. CASE PublishGoesOn
  BY <1>2 DEF PublishGoesOn, PublishOn
<1>3. CASE PublishAgain
  BY <1>3 DEF PublishAgain
<1>4. CASE PublishEnds
  BY <1>4 DEF PublishEnds, PublishOn
<1>5. CASE Poll
  BY <1>5 DEF Poll, PollerFree
<1>6. CASE PollEnds
  BY <1>6 DEF PollEnds
<1>7. CASE Input
  BY <1>7 DEF Input, MaySubscribe
<1>8. CASE StopJob
  BY <1>8 DEF StopJob
<1>9. CASE StopJobEnds
  BY <1>9 DEF StopJobEnds
<1>10. CASE ExtRun
  BY <1>10 DEF ExtRun, ExtOn
<1>11. CASE ExtAgain
  BY <1>11 DEF ExtAgain
<1>12. CASE StartSubs
  BY <1>12 DEF StartSubs, Quiet
<1>13. CASE StopSubs
  BY <1>13 DEF StopSubs
<1>14. CASE Load
  BY <1>14 DEF Load
<1>15. CASE Run
  BY <1>15 DEF Run
<1>16. CASE Destroy
  BY <1>16 DEF Destroy
<1>17. CASE EnableSubs
  BY <1>17 DEF EnableSubs
<1>18. CASE MakeServer
  BY <1>18 DEF MakeServer
<1>19. CASE StartServer
  BY <1>19 DEF StartServer
<1>20. CASE StartFails
  BY <1>20 DEF StartFails
<1>21. CASE ServerStarted
  BY <1>21 DEF ServerStarted
<1>22. CASE DisableSubs
  BY <1>22 DEF DisableSubs
<1>23. CASE SubsEnded
  BY <1>23 DEF SubsEnded, SubsStopped
<1>24. CASE QueueClosed
  BY <1>24 DEF QueueClosed
<1>25. CASE StopNoServer
  BY <1>25 DEF StopNoServer
<1>26. CASE StopServer
  BY <1>26 DEF StopServer
<1>27. CASE ServerGone
  BY <1>27 DEF ServerGone, ServerStopped
<1>28. CASE StartExt
  BY <1>28 DEF StartExt
<1>29. CASE ExtStarted
  BY <1>29 DEF ExtStarted
<1>30. CASE DisableExt
  BY <1>30 DEF DisableExt
<1>31. CASE ExtEnded
  BY <1>31 DEF ExtEnded
<1>32. CASE Destroyed
  BY <1>32 DEF Destroyed
<1>33. CASE Terminate
  BY <1>33 DEF Terminate
<1>34. CASE UNCHANGED vars
  BY <1>34
<1>. QED
  BY <1>1, <1>2, <1>3, <1>4, <1>5, <1>6, <1>7, <1>8, <1>9, <1>10, <1>11, <1>12, <1>13, <1>14, <1>15, <1>16, <1>17, <1>18, <1>19, <1>20, <1>21, <1>22, <1>23, <1>24, <1>25, <1>26, <1>27, <1>28, <1>29, <1>30, <1>31, <1>32, <1>33, <1>34 DEF Next, Job, HostCalls, HostGoesOn

(* Nothing undoes the termination of a runtime that is being destroyed.    *)
LEMMA EndStep ==
  ASSUME EndInv, [Next]_vars
  PROVE  EndInv'
<1>. USE DEF EndInv, Returned, SubsOver, vars, jobs, subs, server, ext, host,
         ghosts
<1>1. CASE Publish
  BY <1>1 DEF Publish
<1>2. CASE PublishGoesOn
  BY <1>2 DEF PublishGoesOn, PublishOn
<1>3. CASE PublishAgain
  BY <1>3 DEF PublishAgain
<1>4. CASE PublishEnds
  BY <1>4 DEF PublishEnds, PublishOn
<1>5. CASE Poll
  BY <1>5 DEF Poll, PollerFree
<1>6. CASE PollEnds
  BY <1>6 DEF PollEnds
<1>7. CASE Input
  BY <1>7 DEF Input, MaySubscribe
<1>8. CASE StopJob
  BY <1>8 DEF StopJob
<1>9. CASE StopJobEnds
  BY <1>9 DEF StopJobEnds
<1>10. CASE ExtRun
  BY <1>10 DEF ExtRun, ExtOn
<1>11. CASE ExtAgain
  BY <1>11 DEF ExtAgain
<1>12. CASE StartSubs
  BY <1>12 DEF StartSubs, Quiet
<1>13. CASE StopSubs
  BY <1>13 DEF StopSubs
<1>14. CASE Load
  BY <1>14 DEF Load
<1>15. CASE Run
  BY <1>15 DEF Run
<1>16. CASE Destroy
  BY <1>16 DEF Destroy
<1>17. CASE EnableSubs
  BY <1>17 DEF EnableSubs
<1>18. CASE MakeServer
  BY <1>18 DEF MakeServer
<1>19. CASE StartServer
  BY <1>19 DEF StartServer
<1>20. CASE StartFails
  BY <1>20 DEF StartFails
<1>21. CASE ServerStarted
  BY <1>21 DEF ServerStarted
<1>22. CASE DisableSubs
  BY <1>22 DEF DisableSubs
<1>23. CASE SubsEnded
  BY <1>23 DEF SubsEnded, SubsStopped
<1>24. CASE QueueClosed
  BY <1>24 DEF QueueClosed
<1>25. CASE StopNoServer
  BY <1>25 DEF StopNoServer
<1>26. CASE StopServer
  BY <1>26 DEF StopServer
<1>27. CASE ServerGone
  BY <1>27 DEF ServerGone, ServerStopped
<1>28. CASE StartExt
  BY <1>28 DEF StartExt
<1>29. CASE ExtStarted
  BY <1>29 DEF ExtStarted
<1>30. CASE DisableExt
  BY <1>30 DEF DisableExt
<1>31. CASE ExtEnded
  BY <1>31 DEF ExtEnded
<1>32. CASE Destroyed
  BY <1>32 DEF Destroyed
<1>33. CASE Terminate
  BY <1>33 DEF Terminate
<1>34. CASE UNCHANGED vars
  BY <1>34
<1>. QED
  BY <1>1, <1>2, <1>3, <1>4, <1>5, <1>6, <1>7, <1>8, <1>9, <1>10, <1>11, <1>12, <1>13, <1>14, <1>15, <1>16, <1>17, <1>18, <1>19, <1>20, <1>21, <1>22, <1>23, <1>24, <1>25, <1>26, <1>27, <1>28, <1>29, <1>30, <1>31, <1>32, <1>33, <1>34 DEF Next, Job, HostCalls, HostGoesOn

(* A careful host makes a publishing job only when there is none.          *)
LEMMA PublishStep ==
  ASSUME Careful, CountInv, PublishInv, [Next]_vars
  PROVE  PublishInv'
<1>. USE DEF CountInv, PublishInv, Publishers, SubsOver, Returned, Busy, vars,
         jobs, subs, server, ext, host, ghosts, Begin, Dequeued, EnqueuedTo,
         From, To, Move, Kinds, Stages
<1>1. CASE Publish
  BY <1>1 DEF Publish
<1>2. CASE PublishGoesOn
  BY <1>2 DEF PublishGoesOn, PublishOn
<1>3. CASE PublishAgain
  BY <1>3 DEF PublishAgain
<1>4. CASE PublishEnds
  BY <1>4 DEF PublishEnds, PublishOn
<1>5. CASE Poll
  BY <1>5 DEF Poll, PollerFree
<1>6. CASE PollEnds
  BY <1>6 DEF PollEnds
<1>7. CASE Input
  BY <1>7 DEF Input, MaySubscribe
<1>8. CASE StopJob
  BY <1>8 DEF StopJob
<1>9. CASE StopJobEnds
  BY <1>9 DEF StopJobEnds
<1>10. CASE ExtRun
  BY <1>10 DEF ExtRun, ExtOn
<1>11. CASE ExtAgain
  BY <1>11 DEF ExtAgain
<1>12. CASE StartSubs
  BY <1>12 DEF StartSubs, Quiet
<1>13. CASE StopSubs
  BY <1>13 DEF StopSubs
<1>14. CASE Load
  BY <1>14 DEF Load
<1>15. CASE Run
  BY <1>15 DEF Run
<1>16. CASE Destroy
  BY <1>16 DEF Destroy
<1>17. CASE EnableSubs
  BY <1>17 DEF EnableSubs
<1>18. CASE MakeServer
  BY <1>18 DEF MakeServer
<1>19. CASE StartServer
  BY <1>19 DEF StartServer
<1>20. CASE StartFails
  BY <1>20 DEF StartFails
<1>21. CASE ServerStarted
  BY <1>21 DEF ServerStarted
<1>22. CASE DisableSubs
  BY <1>22 DEF DisableSubs
<1>23. CASE SubsEnded
  BY <1>23 DEF SubsEnded, SubsStopped
<1>24. CASE QueueClosed
  BY <1>24 DEF QueueClosed
<1>25. CASE StopNoServer
  BY <1>25 DEF StopNoServer
<1>26. CASE StopServer
  BY <1>26 DEF StopServer
<1>27. CASE ServerGone
  BY <1>27 DEF ServerGone, ServerStopped
<1>28. CASE StartExt
  BY <1>28 DEF StartExt
<1>29. CASE ExtStarted
  BY <1>29 DEF ExtStarted
<1>30. CASE DisableExt
  BY <1>30 DEF DisableExt
<1>31. CASE ExtEnded
  BY <1>31 DEF ExtEnded
<1>32. CASE Destroyed
  BY <1>32 DEF Destroyed
<1>33. CASE Terminate
  BY <1>33 DEF Terminate
<1>34. CASE UNCHANGED vars
  BY <1>34
<1>. QED
  BY <1>1, <1>2, <1>3, <1>4, <1>5, <1>6, <1>7, <1>8, <1>9, <1>10, <1>11, <1>12, <1>13, <1>14, <1>15, <1>16, <1>17, <1>18, <1>19, <1>20, <1>21, <1>22, <1>23, <1>24, <1>25, <1>26, <1>27, <1>28, <1>29, <1>30, <1>31, <1>32, <1>33, <1>34 DEF Next, Job, HostCalls, HostGoesOn

(* start_extcell_processing waits for the job to end before it makes       *)
(* another.                                                                *)
LEMMA SubscribeStep ==
  ASSUME CountInv, SubscribeInv, [Next]_vars
  PROVE  SubscribeInv'
<1>. USE DEF CountInv, SubscribeInv, Subscribers, Returned, vars, jobs, subs,
         server, ext, host, ghosts, Begin, Dequeued, EnqueuedTo, From, To,
         Move, Kinds, Stages
<1>1. CASE Publish
  BY <1>1 DEF Publish
<1>2. CASE PublishGoesOn
  BY <1>2 DEF PublishGoesOn, PublishOn
<1>3. CASE PublishAgain
  BY <1>3 DEF PublishAgain
<1>4. CASE PublishEnds
  BY <1>4 DEF PublishEnds, PublishOn
<1>5. CASE Poll
  BY <1>5 DEF Poll, PollerFree
<1>6. CASE PollEnds
  BY <1>6 DEF PollEnds
<1>7. CASE Input
  BY <1>7 DEF Input, MaySubscribe
<1>8. CASE StopJob
  BY <1>8 DEF StopJob
<1>9. CASE StopJobEnds
  BY <1>9 DEF StopJobEnds
<1>10. CASE ExtRun
  <2>1. CASE ExtOn
    BY <1>10, <2>1 DEF ExtRun
  <2>2. CASE ~ExtOn
    BY <1>10, <2>2 DEF ExtRun
  <2>. QED
    BY <2>1, <2>2
<1>11. CASE ExtAgain
  BY <1>11 DEF ExtAgain
<1>12. CASE StartSubs
  BY <1>12 DEF StartSubs, Quiet
<1>13. CASE StopSubs
  BY <1>13 DEF StopSubs
<1>14. CASE Load
  BY <1>14 DEF Load
<1>15. CASE Run
  BY <1>15 DEF Run
<1>16. CASE Destroy
  BY <1>16 DEF Destroy
<1>17. CASE EnableSubs
  BY <1>17 DEF EnableSubs
<1>18. CASE MakeServer
  BY <1>18 DEF MakeServer
<1>19. CASE StartServer
  BY <1>19 DEF StartServer
<1>20. CASE StartFails
  BY <1>20 DEF StartFails
<1>21. CASE ServerStarted
  BY <1>21 DEF ServerStarted
<1>22. CASE DisableSubs
  BY <1>22 DEF DisableSubs
<1>23. CASE SubsEnded
  BY <1>23 DEF SubsEnded, SubsStopped
<1>24. CASE QueueClosed
  BY <1>24 DEF QueueClosed
<1>25. CASE StopNoServer
  BY <1>25 DEF StopNoServer
<1>26. CASE StopServer
  BY <1>26 DEF StopServer
<1>27. CASE ServerGone
  BY <1>27 DEF ServerGone, ServerStopped
<1>28. CASE StartExt
  BY <1>28 DEF StartExt
<1>29. CASE ExtStarted
  BY <1>29 DEF ExtStarted
<1>30. CASE DisableExt
  BY <1>30 DEF DisableExt
<1>31. CASE ExtEnded
  BY <1>31 DEF ExtEnded
<1>32. CASE Destroyed
  BY <1>32 DEF Destroyed
<1>33. CASE Terminate
  BY <1>33 DEF Terminate
<1>34. CASE UNCHANGED vars
  BY <1>34
<1>. QED
  BY <1>1, <1>2, <1>3, <1>4, <1>5, <1>6, <1>7, <1>8, <1>9, <1>10, <1>11, <1>12, <1>13, <1>14, <1>15, <1>16, <1>17, <1>18, <1>19, <1>20, <1>21, <1>22, <1>23, <1>24, <1>25, <1>26, <1>27, <1>28, <1>29, <1>30, <1>31, <1>32, <1>33, <1>34 DEF Next, Job, HostCalls, HostGoesOn

(* A careful host starts a server only when the polling job of the last    *)
(* one is gone, and stop() waits for it.                                   *)
LEMMA PollStep ==
  ASSUME Careful, CountInv, PollInv, [Next]_vars
  PROVE  PollInv'
<1>. USE DEF CountInv, PollInv, ServerExists, Returned, vars, jobs, subs, server, ext, host,
         ghosts, Begin, Dequeued, EnqueuedTo, From, To, Move, Kinds, Stages
<1>1. CASE Publish
  BY <1>1 DEF Publish
<1>2. CASE PublishGoesOn
  BY <1>2 DEF PublishGoesOn, PublishOn
<1>3. CASE PublishAgain
  BY <1>3 DEF PublishAgain
<1>4. CASE PublishEnds
  BY <1>4 DEF PublishEnds, PublishOn
<1>5. CASE Poll
  BY <1>5 DEF Poll, PollerFree
<1>6. CASE PollEnds
  BY <1>6 DEF PollEnds
<1>7. CASE Input
  BY <1>7 DEF Input, MaySubscribe
<1>8. CASE StopJob
  BY <1>8 DEF StopJob
<1>9. CASE StopJobEnds
  BY <1>9 DEF StopJobEnds
<1>10. CASE ExtRun
  BY <1>10 DEF ExtRun, ExtOn
<1>11. CASE ExtAgain
  BY <1>11 DEF ExtAgain
<1>12. CASE StartSubs
  BY <1>12 DEF StartSubs, Quiet
<1>13. CASE StopSubs
  BY <1>13 DEF StopSubs
<1>14. CASE Load
  BY <1>14 DEF Load
<1>15. CASE Run
  BY <1>15 DEF Run
<1>16. CASE Destroy
  BY <1>16 DEF Destroy
<1>17. CASE EnableSubs
  BY <1>17 DEF EnableSubs
<1>18. CASE MakeServer
  BY <1>18 DEF MakeServer
<1>19. CASE StartServer
  BY <1>19 DEF StartServer
<1>20. CASE StartFails
  BY <1>20 DEF StartFails
<1>21. CASE ServerStarted
  BY <1>21 DEF ServerStarted
<1>22. CASE DisableSubs
  BY <1>22 DEF DisableSubs
<1>23. CASE SubsEnded
  BY <1>23 DEF SubsEnded, SubsStopped
<1>24. CASE QueueClosed
  BY <1>24 DEF QueueClosed
<1>25. CASE StopNoServer
  BY <1>25 DEF StopNoServer
<1>26. CASE StopServer
  BY <1>26 DEF StopServer
<1>27. CASE ServerGone
  BY <1>27 DEF ServerGone, ServerStopped
<1>28. CASE StartExt
  BY <1>28 DEF StartExt
<1>29. CASE ExtStarted
  BY <1>29 DEF ExtStarted
<1>30. CASE DisableExt
  BY <1>30 DEF DisableExt
<1>31. CASE ExtEnded
  BY <1>31 DEF ExtEnded
<1>32. CASE Destroyed
  BY <1>32 DEF Destroyed
<1>33. CASE Terminate
  BY <1>33 DEF Terminate
<1>34. CASE UNCHANGED vars
  BY <1>34
<1>. QED
  BY <1>1, <1>2, <1>3, <1>4, <1>5, <1>6, <1>7, <1>8, <1>9, <1>10, <1>11, <1>12, <1>13, <1>14, <1>15, <1>16, <1>17, <1>18, <1>19, <1>20, <1>21, <1>22, <1>23, <1>24, <1>25, <1>26, <1>27, <1>28, <1>29, <1>30, <1>31, <1>32, <1>33, <1>34 DEF Next, Job, HostCalls, HostGoesOn

(* Before the program is terminated the publishing job ends only when      *)
(* publishing has been disabled.                                           *)
LEMMA LiveStep ==
  ASSUME CountInv, EndInv, PublishInv, LiveInv, [Next]_vars
  PROVE  LiveInv'
<1>. USE DEF CountInv, EndInv, PublishInv, LiveInv, Publishers,
         SubsOver, Returned, Busy, vars, jobs, subs, server, ext, host,
         ghosts, Begin, Dequeued, EnqueuedTo, From, To, Move, Kinds, Stages
<1>1. CASE Publish
  BY <1>1 DEF Publish
<1>2. CASE PublishGoesOn
  BY <1>2 DEF PublishGoesOn, PublishOn
<1>3. CASE PublishAgain
  BY <1>3 DEF PublishAgain
<1>4. CASE PublishEnds
  BY <1>4 DEF PublishEnds, PublishOn
<1>5. CASE Poll
  BY <1>5 DEF Poll, PollerFree
<1>6. CASE PollEnds
  BY <1>6 DEF PollEnds
<1>7. CASE Input
  BY <1>7 DEF Input, MaySubscribe
<1>8. CASE StopJob
  BY <1>8 DEF StopJob
<1>9. CASE StopJobEnds
  BY <1>9 DEF StopJobEnds
<1>10. CASE ExtRun
  BY <1>10 DEF ExtRun, ExtOn
<1>11. CASE ExtAgain
  BY <1>11 DEF ExtAgain
<1>12. CASE StartSubs
  BY <1>12 DEF StartSubs, Quiet
<1>13. CASE StopSubs
  BY <1>13 DEF StopSubs
<1>14. CASE Load
  BY <1>14 DEF Load
<1>15. CASE Run
  BY <1>15 DEF Run
<1>16. CASE Destroy
  BY <1>16 DEF Destroy
<1>17. CASE EnableSubs
  BY <1>17 DEF EnableSubs
<1>18. CASE MakeServer
  BY <1>18 DEF MakeServer
<1>19. CASE StartServer
  BY <1>19 DEF StartServer
<1>20. CASE StartFails
  BY <1>20 DEF StartFails
<1>21. CASE ServerStarted
  BY <1>21 DEF ServerStarted
<1>22. CASE DisableSubs
  BY <1>22 DEF DisableSubs
<1>23. CASE SubsEnded
  BY <1>23 DEF SubsEnded, SubsStopped
<1>24. CASE QueueClosed
  BY <1>24 DEF QueueClosed
<1>25. CASE StopNoServer
  BY <1>25 DEF StopNoServer
<1>26. CASE StopServer
  BY <1>26 DEF StopServer
<1>27. CASE ServerGone
  BY <1>27 DEF ServerGone, ServerStopped
<1>28. CASE StartExt
  BY <1>28 DEF StartExt
<1>29. CASE ExtStarted
  BY <1>29 DEF ExtStarted
<1>30. CASE DisableExt
  BY <1>30 DEF DisableExt
<1>31. CASE ExtEnded
  BY <1>31 DEF ExtEnded
<1>32. CASE Destroyed
  BY <1>32 DEF Destroyed
<1>33. CASE Terminate
  BY <1>33 DEF Terminate
<1>34. CASE UNCHANGED vars
  BY <1>34
<1>. QED
  BY <1>1, <1>2, <1>3, <1>4, <1>5, <1>6, <1>7, <1>8, <1>9, <1>10, <1>11, <1>12, <1>13, <1>14, <1>15, <1>16, <1>17, <1>18, <1>19, <1>20, <1>21, <1>22, <1>23, <1>24, <1>25, <1>26, <1>27, <1>28, <1>29, <1>30, <1>31, <1>32, <1>33, <1>34 DEF Next, Job, HostCalls, HostGoesOn

(* Whoever subscribes finds a server; it is reset after the publishing job *)
(* has cleared the subscriptions, but for the late and the stale.          *)
LEMMA SubscribedStep ==
  ASSUME FlagInv, CountInv, PublishInv, PollInv, SubscribedInv, QueueIsThere, [Next]_vars
  PROVE  SubscribedInv'
<1>. USE DEF CountInv, PublishInv, PollInv, SubscribedInv, Publishers,
         SubsOver, Returned, Busy, vars, jobs, subs, server, ext, host,
         ghosts, Begin, Dequeued, EnqueuedTo, From, To, Move, Kinds, Stages
<1>1. CASE Publish
  BY <1>1 DEF Publish
<1>2. CASE PublishGoesOn
  BY <1>2 DEF PublishGoesOn, PublishOn
<1>3. CASE PublishAgain
  BY <1>3 DEF PublishAgain, QueueIsThere
<1>4. CASE PublishEnds
  BY <1>4 DEF PublishEnds, PublishOn
<1>5. CASE Poll
  BY <1>5 DEF Poll, PollerFree
<1>6. CASE PollEnds
  BY <1>6 DEF PollEnds
<1>7. CASE Input
  <2>1. /\ stale => stale'
        /\ Publishers = 0 => (subscribed' => subscribed \/ stale')
    BY <1>7, Zenon DEF Input
  <2>2. subscribed' => subscribed \/ (enabled /\ queue["input"] > 0)
    BY <1>7, Zenon DEF Input, MaySubscribe, Begin
  <2>3. Publishers' = Publishers /\ Publishers \in Nat /\ (Publishers > 0 \/ Publishers = 0)
    BY <1>7 DEF Input
  <2>4. UNCHANGED <<hpc, ppserver, late, enabled>>
    BY <1>7 DEF Input
  <2>. QED
    BY <2>1, <2>2, <2>3, <2>4
<1>8. CASE StopJob
  BY <1>8 DEF StopJob
<1>9. CASE StopJobEnds
  BY <1>9 DEF StopJobEnds
<1>10. CASE ExtRun
  BY <1>10 DEF ExtRun, ExtOn
<1>11. CASE ExtAgain
  BY <1>11 DEF ExtAgain
<1>12. CASE StartSubs
  BY <1>12 DEF StartSubs, Quiet
<1>13. CASE StopSubs
  BY <1>13 DEF StopSubs
<1>14. CASE Load
  BY <1>14 DEF Load
<1>15. CASE Run
  BY <1>15 DEF Run
<1>16. CASE Destroy
  BY <1>16 DEF Destroy
<1>17. CASE EnableSubs
  BY <1>17 DEF EnableSubs
<1>18. CASE MakeServer
  BY <1>18 DEF MakeServer
<1>19. CASE StartServer
  BY <1>19 DEF StartServer
<1>20. CASE StartFails
  BY <1>20 DEF StartFails
<1>21. CASE ServerStarted
  BY <1>21 DEF ServerStarted
<1>22. CASE DisableSubs
  BY <1>22 DEF DisableSubs
<1>23. CASE SubsEnded
  <2>1. /\ stale => stale'
        /\ late => late'
        /\ hpc = "wait_subs" /\ ~running /\ UNCHANGED <<subscribed, ppserver, enabled>>
        /\ hpc' \in {"stop_server", "close_queue"}
    BY <1>23, Zenon DEF SubsEnded, SubsStopped, subs, server
  <2>2. subscribed /\ queue["pub"] > 0 => late' \/ stale'
    BY <1>23, Zenon DEF SubsEnded
  <2>3. ~(at["published"] + at["pub_again"] > 0)
    BY <2>1, Zenon
  <2>4. Publishers > 0 => queue["pub"] > 0
    BY <2>3
  <2>5. hpc \notin {"end_queue", "gone"} \cup SubsOver
    BY <2>1
  <2>6. subscribed => late' \/ stale'
    BY <2>1, <2>2, <2>4, <2>5, Zenon
  <2>7. subscribed' <=> subscribed
    BY <2>1, Zenon
  <2>8. enabled' <=> enabled
    BY <2>1, Zenon
  <2>9. subscribed' => late' \/ stale'
    BY <2>6, <2>7, Zenon
  <2>10. subscribed' => stale' \/ Publishers' > 0 \/ hpc' \in {"end_queue", "gone"}
    <3>1. (subscribed /\ queue["pub"] > 0 => stale') \/ UNCHANGED <<queue, at>>
      BY <1>23, Zenon DEF SubsEnded
    <3>2. UNCHANGED <<queue, at>> => Publishers' = Publishers
      OBVIOUS
    <3>3. subscribed => stale \/ Publishers > 0
      BY <2>5, Zenon
    <3>. QED
      BY <2>1, <2>4, <2>7, <3>1, <3>2, <3>3, Zenon
  <2>11. ~enabled'
    BY <2>1, <2>8, Zenon
  <2>. QED
    BY <2>9, <2>10, <2>11, Zenon
<1>24. CASE QueueClosed
  BY <1>24 DEF QueueClosed
<1>25. CASE StopNoServer
  BY <1>25 DEF StopNoServer
<1>26. CASE StopServer
  BY <1>26 DEF StopServer
<1>27. CASE ServerGone
  BY <1>27 DEF ServerGone, ServerStopped
<1>28. CASE StartExt
  BY <1>28 DEF StartExt
<1>29. CASE ExtStarted
  BY <1>29 DEF ExtStarted
<1>30. CASE DisableExt
  BY <1>30 DEF DisableExt
<1>31. CASE ExtEnded
  BY <1>31 DEF ExtEnded
<1>32. CASE Destroyed
  BY <1>32 DEF Destroyed
<1>33. CASE Terminate
  BY <1>33 DEF Terminate
<1>34. CASE UNCHANGED vars
  BY <1>34
<1>. QED
  BY <1>1, <1>2, <1>3, <1>4, <1>5, <1>6, <1>7, <1>8, <1>9, <1>10, <1>11, <1>12, <1>13, <1>14, <1>15, <1>16, <1>17, <1>18, <1>19, <1>20, <1>21, <1>22, <1>23, <1>24, <1>25, <1>26, <1>27, <1>28, <1>29, <1>30, <1>31, <1>32, <1>33, <1>34 DEF Next, Job, HostCalls, HostGoesOn

(* When the queue is destroyed no job is about to enqueue itself.          *)
LEMMA QueueStep ==
  ASSUME CountInv, PublishInv, SubscribeInv, QueueIsThere, [Next]_vars
  PROVE  QueueIsThere'
<1>. USE DEF CountInv, PublishInv, SubscribeInv, QueueIsThere, Publishers,
         Subscribers, SubsOver, Returned, Busy, vars, jobs, subs, server, ext,
         host, ghosts, Begin, Dequeued, EnqueuedTo, From, To, Move, Kinds,
         Stages
<1>1. CASE Publish
  BY <1>1 DEF Publish
<1>2. CASE PublishGoesOn
  BY <1>2 DEF PublishGoesOn, PublishOn
<1>3. CASE PublishAgain
  BY <1>3 DEF PublishAgain
<1>4. CASE PublishEnds
  BY <1>4 DEF PublishEnds, PublishOn
<1>5. CASE Poll
  BY <1>5 DEF Poll, PollerFree
<1>6. CASE PollEnds
  BY <1>6 DEF PollEnds
<1>7. CASE Input
  BY <1>7 DEF Input, MaySubscribe
<1>8. CASE StopJob
  BY <1>8 DEF StopJob
<1>9. CASE StopJobEnds
  BY <1>9 DEF StopJobEnds
<1>10. CASE ExtRun
  BY <1>10 DEF ExtRun, ExtOn
<1>11. CASE ExtAgain
  BY <1>11 DEF ExtAgain
<1>12. CASE StartSubs
  BY <1>12 DEF StartSubs, Quiet
<1>13. CASE StopSubs
  BY <1>13 DEF StopSubs
<1>14. CASE Load
  BY <1>14 DEF Load
<1>15. CASE Run
  BY <1>15 DEF Run
<1>16. CASE Destroy
  BY <1>16 DEF Destroy
<1>17. CASE EnableSubs
  BY <1>17 DEF EnableSubs
<1>18. CASE MakeServer
  BY <1>18 DEF MakeServer
<1>19. CASE StartServer
  BY <1>19 DEF StartServer
<1>20. CASE StartFails
  BY <1>20 DEF StartFails
<1>21. CASE ServerStarted
  BY <1>21 DEF ServerStarted
<1>22. CASE DisableSubs
  BY <1>22 DEF DisableSubs
<1>23. CASE SubsEnded
  BY <1>23 DEF SubsEnded, SubsStopped
<1>24. CASE QueueClosed
  BY <1>24 DEF QueueClosed
<1>25. CASE StopNoServer
  BY <1>25 DEF StopNoServer
<1>26. CASE StopServer
  BY <1>26 DEF StopServer
<1>27. CASE ServerGone
  BY <1>27 DEF ServerGone, ServerStopped
<1>28. CASE StartExt
  BY <1>28 DEF StartExt
<1>29. CASE ExtStarted
  BY <1>29 DEF ExtStarted
<1>30. CASE DisableExt
  BY <1>30 DEF DisableExt
<1>31. CASE ExtEnded
  BY <1>31 DEF ExtEnded
<1>32. CASE Destroyed
  BY <1>32 DEF Destroyed
<1>33. CASE Terminate
  BY <1>33 DEF Terminate
<1>34. CASE UNCHANGED vars
  BY <1>34
<1>. QED
  BY <1>1, <1>2, <1>3, <1>4, <1>5, <1>6, <1>7, <1>8, <1>9, <1>10, <1>11, <1>12, <1>13, <1>14, <1>15, <1>16, <1>17, <1>18, <1>19, <1>20, <1>21, <1>22, <1>23, <1>24, <1>25, <1>26, <1>27, <1>28, <1>29, <1>30, <1>31, <1>32, <1>33, <1>34 DEF Next, Job, HostCalls, HostGoesOn

-----------------------------------------------------------------------------
(* Every variable keeps its type, no more jobs run at once than the pool   *)
(* has workers, and a queue that is gone is empty, whatever the host does. *)
THEOREM TypeCorrect == Spec => []TypeOK
<1>1. Init => FlagInv /\ CountInv
  BY Initial DEF IInv
<1>2. FlagInv /\ CountInv /\ [Next]_vars => (FlagInv /\ CountInv)'
  BY FlagStep, CountStep
<1>3. FlagInv /\ CountInv => TypeOK
  BY DEF FlagInv, CountInv, TypeOK
<1>. QED
  BY <1>1, <1>2, <1>3, PTL DEF Spec

LEMMA CarefulInvariant == Careful => (Spec => []IInv)
<1> SUFFICES ASSUME Careful PROVE Spec => []IInv
  OBVIOUS
<1>1. IInv /\ [Next]_vars => IInv'
  BY FlagStep, CountStep, EndStep, PublishStep, SubscribeStep, PollStep, LiveStep,
     SubscribedStep, QueueStep
     DEF IInv
<1>. QED
  BY <1>1, Initial, PTL DEF Spec

(* A job that enqueues itself finds the queue, which stop_net_server and   *)
(* the destructor reset: of every job that may still do so one of the two  *)
(* flags they wait for is raised.                                          *)
THEOREM JobsFindTheQueue == Careful => (Spec => []QueueIsThere)
<1>1. IInv => QueueIsThere
  BY DEF IInv
<1>. QED
  BY <1>1, CarefulInvariant, PTL

(* The polling job finds the UDP server, and so does the publishing job    *)
(* with somebody to publish to, unless it is the first pass and a stop has *)
(* not waited for it, or publishes to a subscription nobody has cleared.   *)
THEOREM JobsFindTheServer == Careful => (Spec => []ServerIsThere)
<1>1. IInv => ServerIsThere
  BY DEF IInv, PollInv, SubscribedInv, ServerIsThere
<1>. QED
  BY <1>1, CarefulInvariant, PTL

(* While publishing is enabled, and the program has not been terminated,   *)
(* there is a publishing job.                                              *)
THEOREM PublishingGoesOn == Careful => (Spec => []PublisherAlive)
<1>1. IInv => PublisherAlive
  BY DEF IInv, LiveInv, Publishers, PublisherAlive
<1>. QED
  BY <1>1, CarefulInvariant, PTL
=============================================================================
