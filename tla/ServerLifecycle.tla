---------------------------- MODULE ServerLifecycle ----------------------------
(***************************************************************************)
(* The network side of the runtime as a set of jobs on one command queue:  *)
(* the publishing job of the external-values server, the polling job of    *)
(* its UDP server and the subscribing job of the extern cells each enqueue *)
(* themselves again and again, beside jobs that handle a datagram and jobs *)
(* that stop the UDP server after a failure.  The host starts and stops    *)
(* the server, loads programs with extern cells and destroys the runtime.  *)
(*                                                                         *)
(* The queue is the one JobPool specifies: any job in it may be the next,  *)
(* at most PoolSize run at once, a job that is closed on is dropped.       *)
(***************************************************************************)
EXTENDS Naturals, FiniteSets

CONSTANTS
  PoolSize,   \* hardware_concurrency(): how many jobs run at once
  MaxErrors,  \* bound: failure jobs at a time
  Careful     \* whether the host starts the server only when nothing of it is left

ASSUME ServerAssumption ==
  PoolSize \in Nat \ {0} /\ MaxErrors \in Nat /\ Careful \in BOOLEAN

Kinds  == {"pub", "poll", "input", "stop", "ext"}
Stages == {"published", "pub_again", "ext_again", "stop_wait"}

VARIABLES
  termination_requested,
  cq,                     \* cq_: "none", "open", or "closing" in its destructor
  queue,                  \* how many jobs of a kind are in the queue
  at,                     \* how many running jobs are at a stage of theirs
  enabled, running,       \* pp_subs_functor_enabled_, pp_subs_functor_running_
  subscribed,             \* whether net_subs_ holds a subscription
  ppserver,               \* whether ppserver_ points to a server
  started, terminating,   \* its started_ and its terminable flag
  needed,                 \* ext_cells_processor_needed_
  ext_enabled, ext_started,  \* ext_cells_processor_enabled_ and _started_
  hpc,                    \* where the host is in its call
  dying,                  \* whether that call is the destructor
  lapsed,                 \* history: a termination was requested once
  raced,                  \* history: a flag was raised after its job had ended
  late,                   \* history: a stop did not wait for the queued first pass
  stale                   \* history: a subscription outlived the publishing job

jobs   == <<queue, at>>
subs   == <<enabled, running, subscribed>>
server == <<ppserver, started, terminating>>
ext    == <<needed, ext_enabled, ext_started>>
host   == <<hpc, dying>>
ghosts == <<lapsed, raced, late, stale>>
vars   == <<termination_requested, cq, jobs, subs, server, ext, host, ghosts>>

Init ==
  /\ termination_requested = FALSE
  /\ cq = "none"
  /\ queue = [k \in Kinds |-> 0] /\ at = [s \in Stages |-> 0]
  /\ enabled = FALSE /\ running = FALSE /\ subscribed = FALSE
  /\ ppserver = FALSE /\ started = FALSE /\ terminating = FALSE
  /\ needed = FALSE /\ ext_enabled = TRUE /\ ext_started = FALSE
  /\ hpc = "idle" /\ dying = FALSE
  /\ lapsed = FALSE /\ raced = FALSE /\ late = FALSE /\ stale = FALSE

-----------------------------------------------------------------------------
(* The queue. *)

Busy == at["published"] + at["pub_again"] + at["ext_again"] + at["stop_wait"]

BeginUnbounded(k) == queue[k] > 0
Begin(k) == queue[k] > 0 /\ Busy < PoolSize

Dequeued(k) == [queue EXCEPT ![k] = @ - 1]

(* enqueue() of a queue that is being destroyed does nothing. *)
EnqueuedTo(q, k) == IF cq = "open" THEN [q EXCEPT ![k] = @ + 1] ELSE q

From(s) == [at EXCEPT ![s] = @ - 1]
To(s)   == [at EXCEPT ![s] = @ + 1]
Move(s, t) == [at EXCEPT ![s] = @ - 1, ![t] = @ + 1]

-----------------------------------------------------------------------------
(* pp_subs_functor_: publish, then end or enqueue itself. *)

Publishers == queue["pub"] + at["published"] + at["pub_again"]

Publish ==
  /\ Begin("pub")
  /\ queue' = Dequeued("pub") /\ at' = To("published")
  /\ running' = TRUE
  /\ UNCHANGED <<termination_requested, cq, enabled, subscribed, server, ext, host, ghosts>>

PublishOnIgnoringStop == ~termination_requested
PublishOnToSomebody == ~termination_requested /\ enabled /\ subscribed
PublishOn == ~termination_requested /\ enabled

PublishGoesOn ==
  /\ at["published"] > 0 /\ PublishOn
  /\ at' = Move("published", "pub_again")
  /\ UNCHANGED <<termination_requested, cq, queue, subs, server, ext, host, ghosts>>

PublishAgain ==
  /\ at["pub_again"] > 0
  /\ at' = From("pub_again") /\ queue' = EnqueuedTo(queue, "pub")
  /\ UNCHANGED <<termination_requested, cq, subs, server, ext, host, ghosts>>

PublishEnds ==
  /\ at["published"] > 0 /\ ~PublishOn
  /\ at' = From("published")
  /\ subscribed' = FALSE /\ running' = FALSE
  /\ late' = FALSE /\ stale' = FALSE
  /\ UNCHANGED <<termination_requested, cq, queue, enabled, server, ext, host, lapsed, raced>>

-----------------------------------------------------------------------------
(* The UDP server's jobs. *)

(* start() holds the poller's lock until it returns. *)
PollerFree == hpc # "server_started"

(* worker_entry_: nothing, a datagram or an error, and once more. *)
Poll ==
  /\ Begin("poll") /\ ~terminating /\ PollerFree
  /\ \/ UNCHANGED queue
     \/ queue["input"] = 0 /\ queue' = [queue EXCEPT !["input"] = 1]
     \/ queue["stop"] + at["stop_wait"] < MaxErrors
        /\ queue' = [queue EXCEPT !["stop"] = @ + 1]
  /\ UNCHANGED <<termination_requested, cq, at, subs, server, ext, host, ghosts>>

PollEnds ==
  /\ Begin("poll") /\ terminating
  /\ queue' = Dequeued("poll")
  /\ started' = FALSE
  /\ UNCHANGED <<termination_requested, cq, at, subs, ppserver, terminating, ext, host, ghosts>>

(* process_input: a subscription, if the server lets it subscribe. *)
MaySubscribe == enabled

Input ==
  /\ Begin("input")
  /\ queue' = Dequeued("input")
  /\ \/ UNCHANGED <<subscribed, stale>>
     \/ /\ MaySubscribe
        /\ subscribed' = TRUE
        /\ stale' = (stale \/ Publishers = 0)
  /\ UNCHANGED <<termination_requested, cq, at, enabled, running, server, ext, host,
                 lapsed, raced, late>>

(* stop(), as a job: it waits for the polling job while it holds a worker. *)
StopJob ==
  /\ Begin("stop")
  /\ queue' = Dequeued("stop") /\ at' = To("stop_wait")
  /\ terminating' = TRUE
  /\ UNCHANGED <<termination_requested, cq, subs, ppserver, started, ext, host, ghosts>>

StopJobEnds ==
  /\ at["stop_wait"] > 0 /\ ~started
  /\ at' = From("stop_wait")
  /\ UNCHANGED <<termination_requested, cq, queue, subs, server, ext, host, ghosts>>

-----------------------------------------------------------------------------
(* ext_cells_processor_: subscribe, then end or enqueue itself. *)

ExtOnIgnoringTermination == ext_enabled
ExtOn == ~termination_requested /\ ext_enabled

ExtRun ==
  /\ Begin("ext")
  /\ queue' = Dequeued("ext")
  /\ ext_started' = ExtOn
  /\ at' = IF ExtOn THEN To("ext_again") ELSE at
  /\ UNCHANGED <<termination_requested, cq, subs, server, needed, ext_enabled, host, ghosts>>

ExtAgain ==
  /\ at["ext_again"] > 0
  /\ at' = From("ext_again") /\ queue' = EnqueuedTo(queue, "ext")
  /\ UNCHANGED <<termination_requested, cq, subs, server, ext, host, ghosts>>

-----------------------------------------------------------------------------
(* start_net_server. *)

(* The pool holds nothing of an earlier start. *)
Quiet ==
  /\ \A k \in Kinds \ {"ext"} : queue[k] = 0
  /\ \A s \in Stages \ {"ext_again"} : at[s] = 0

StartSubs ==
  /\ hpc = "idle" /\ (Careful => ~enabled /\ Quiet)
  /\ cq' = "open"
  /\ hpc' = "start_subs"
  /\ UNCHANGED <<termination_requested, jobs, subs, server, ext, dying, ghosts>>

EnableSubs ==
  /\ hpc = "start_subs"
  /\ enabled' = TRUE /\ queue' = EnqueuedTo(queue, "pub")
  /\ hpc' = "make_server"
  /\ UNCHANGED <<termination_requested, cq, at, running, subscribed, server, ext, dying, ghosts>>

MakeServer ==
  /\ hpc = "make_server"
  /\ ppserver' = TRUE
  /\ hpc' = IF started THEN "idle" ELSE "start_server"
  /\ UNCHANGED <<termination_requested, cq, jobs, subs, started, terminating, ext, dying, ghosts>>

StartServer ==
  /\ hpc = "start_server"
  /\ terminating' = FALSE
  /\ queue' = EnqueuedTo(queue, "poll")
  /\ hpc' = "server_started"
  /\ UNCHANGED <<termination_requested, cq, at, subs, ppserver, started, ext, dying, ghosts>>

(* The socket cannot be bound. *)
StartFails ==
  /\ hpc = "start_server"
  /\ terminating' = FALSE
  /\ hpc' = "idle"
  /\ UNCHANGED <<termination_requested, cq, jobs, subs, ppserver, started, ext, dying, ghosts>>

ServerStarted ==
  /\ hpc = "server_started"
  /\ started' = TRUE
  /\ raced' = (raced \/ queue["poll"] = 0)
  /\ hpc' = "idle"
  /\ UNCHANGED <<termination_requested, cq, jobs, subs, ppserver, terminating, ext, dying,
                 lapsed, late, stale>>

-----------------------------------------------------------------------------
(* stop_net_server. *)

StopSubs ==
  /\ hpc = "idle"
  /\ hpc' = "stop_subs"
  /\ UNCHANGED <<termination_requested, cq, jobs, subs, server, ext, dying, ghosts>>

DisableSubs ==
  /\ hpc = "stop_subs"
  /\ enabled' = FALSE
  /\ hpc' = "wait_subs"
  /\ UNCHANGED <<termination_requested, cq, jobs, running, subscribed, server, ext, dying, ghosts>>

SubsStoppedAtOnce == TRUE
SubsStopped == ~running

(* The flag is raised by the job itself: a first pass that is still in the *)
(* queue is not waited for.  It is dropped with the queue, with who has    *)
(* subscribed left behind, or runs later, if the queue is kept.            *)
SubsEnded ==
  /\ hpc = "wait_subs" /\ SubsStopped
  /\ IF needed \/ cq = "none"
     THEN /\ hpc' = "stop_server"
          /\ late' = (late \/ queue["pub"] > 0)
          /\ UNCHANGED <<cq, queue, stale>>
     ELSE /\ cq' = "closing" /\ queue' = [k \in Kinds |-> 0]
          /\ hpc' = "close_queue"
          /\ stale' = (stale \/ (subscribed /\ queue["pub"] > 0))
          /\ UNCHANGED late
  /\ UNCHANGED <<termination_requested, at, subs, server, ext, dying, lapsed, raced>>

QueueClosed ==
  /\ hpc = "close_queue" /\ Busy = 0
  /\ cq' = "none"
  /\ hpc' = "stop_server"
  /\ UNCHANGED <<termination_requested, jobs, subs, server, ext, dying, ghosts>>

Returned == IF dying THEN "stop_ext" ELSE "idle"

StopNoServer ==
  /\ hpc = "stop_server" /\ ~ppserver
  /\ hpc' = Returned
  /\ UNCHANGED <<termination_requested, cq, jobs, subs, server, ext, dying, ghosts>>

(* ppserver_.reset() clears the pointer before the destructor of the server *)
(* waits for its polling job.                                               *)
StopServer ==
  /\ hpc = "stop_server" /\ ppserver
  /\ terminating' = TRUE
  /\ ppserver' = FALSE
  /\ hpc' = "wait_server"
  /\ UNCHANGED <<termination_requested, cq, jobs, subs, started, ext, dying, ghosts>>

ServerStoppedAtOnce == TRUE
ServerStopped == ~started

ServerGone ==
  /\ hpc = "wait_server" /\ ServerStopped
  /\ started' = FALSE
  /\ hpc' = Returned
  /\ UNCHANGED <<termination_requested, cq, jobs, subs, ppserver, terminating, ext, dying, ghosts>>

-----------------------------------------------------------------------------
(* Loading a program with extern cells: start_extcell_processing. *)

Load ==
  /\ hpc = "idle"
  /\ needed' = TRUE
  /\ IF ext_started
     THEN UNCHANGED <<cq, ext_enabled, hpc>>
     ELSE cq' = "open" /\ ext_enabled' = FALSE /\ hpc' = "wait_ext"
  /\ UNCHANGED <<termination_requested, jobs, subs, server, ext_started, dying, ghosts>>

StartExt ==
  /\ hpc = "wait_ext" /\ ~ext_started
  /\ ext_enabled' = TRUE /\ queue' = EnqueuedTo(queue, "ext")
  /\ hpc' = "ext_started"
  /\ UNCHANGED <<termination_requested, cq, at, subs, server, needed, ext_started, dying, ghosts>>

ExtStarted ==
  /\ hpc = "ext_started"
  /\ ext_started' = TRUE
  /\ raced' = (raced \/ (queue["ext"] = 0 /\ at["ext_again"] = 0))
  /\ hpc' = "idle"
  /\ UNCHANGED <<termination_requested, cq, jobs, subs, server, needed, ext_enabled, dying,
                 lapsed, late, stale>>

-----------------------------------------------------------------------------
(* The program ends and is run again; the runtime is destroyed. *)

Terminate ==
  /\ ~dying
  /\ termination_requested' = TRUE /\ lapsed' = TRUE
  /\ UNCHANGED <<cq, jobs, subs, server, ext, host, raced, late, stale>>

Run ==
  /\ hpc = "idle"
  /\ termination_requested' = FALSE
  /\ UNCHANGED <<cq, jobs, subs, server, ext, host, ghosts>>

Destroy ==
  /\ hpc = "idle"
  /\ termination_requested' = TRUE /\ dying' = TRUE /\ lapsed' = TRUE
  /\ hpc' = "stop_subs"
  /\ UNCHANGED <<cq, jobs, subs, server, ext, raced, late, stale>>

DisableExt ==
  /\ hpc = "stop_ext"
  /\ ext_enabled' = FALSE
  /\ hpc' = "end_ext"
  /\ UNCHANGED <<termination_requested, cq, jobs, subs, server, needed, ext_started, dying, ghosts>>

(* The members go, among them the queue. *)
ExtEnded ==
  /\ hpc = "end_ext" /\ ~ext_started
  /\ cq' = IF cq = "none" THEN "none" ELSE "closing"
  /\ queue' = [k \in Kinds |-> 0]
  /\ hpc' = "end_queue"
  /\ UNCHANGED <<termination_requested, at, subs, server, ext, dying, ghosts>>

Destroyed ==
  /\ hpc = "end_queue" /\ Busy = 0
  /\ cq' = "none"
  /\ hpc' = "gone"
  /\ UNCHANGED <<termination_requested, jobs, subs, server, ext, dying, ghosts>>

-----------------------------------------------------------------------------
Job ==
  \/ Publish \/ PublishGoesOn \/ PublishAgain \/ PublishEnds
  \/ Poll \/ PollEnds \/ Input \/ StopJob \/ StopJobEnds \/ ExtRun \/ ExtAgain

HostCalls == StartSubs \/ StopSubs \/ Load \/ Run \/ Destroy

HostGoesOn ==
  \/ EnableSubs \/ MakeServer \/ StartServer \/ StartFails \/ ServerStarted
  \/ DisableSubs \/ SubsEnded \/ QueueClosed \/ StopNoServer \/ StopServer \/ ServerGone
  \/ StartExt \/ ExtStarted \/ DisableExt \/ ExtEnded \/ Destroyed

Next == Job \/ HostCalls \/ HostGoesOn \/ Terminate

Spec == Init /\ [][Next]_vars

(* A running job and a host inside a call go on, and the pool keeps no job *)
(* waiting for ever that could begin again and again.                      *)
FairSpec ==
  /\ Spec
  /\ WF_vars(HostGoesOn)
  /\ WF_vars(PublishGoesOn \/ PublishAgain \/ PublishEnds)
  /\ WF_vars(ExtAgain) /\ WF_vars(StopJobEnds)
  /\ SF_vars(Publish) /\ SF_vars(PollEnds) /\ SF_vars(ExtRun)

-----------------------------------------------------------------------------
(* The variables hold what their declarations in the code allow. *)
TypeOK ==
  /\ termination_requested \in BOOLEAN
  /\ cq \in {"none", "open", "closing"}
  /\ queue \in [Kinds -> Nat] /\ at \in [Stages -> Nat]
  /\ \A v \in {enabled, running, subscribed, ppserver, started, terminating,
               needed, ext_enabled, ext_started, dying, lapsed, raced, late, stale} : v \in BOOLEAN
  /\ Busy <= PoolSize
  /\ cq # "open" => \A k \in Kinds : queue[k] = 0

(* A job that enqueues itself through the runtime's pointer to the queue   *)
(* finds a queue there: stop_net_server waits for the publishing job       *)
(* before it resets that pointer.                                          *)
QueueIsThere ==
  at["pub_again"] + at["ext_again"] > 0 => cq = "open"

(* The server object: reset() clears the pointer first. *)
ServerExists == ppserver \/ hpc = "wait_server"

(* Nor do they find the UDP server destroyed: it lives until its polling   *)
(* job has run for the last time, and its pointer is set whenever the      *)
(* publishing job has somebody to publish to, but for two situations: the  *)
(* pass is the first one and a stop that did not wait for it has gone by   *)
(* (late); or start_net_server, called again, has not made the new server  *)
(* yet and the pass finds a subscription of the old one, made after the    *)
(* program had ended the publishing job or left when the queue was         *)
(* destroyed with the first pass in it (stale).                            *)
ServerIsThere ==
  /\ queue["poll"] > 0 => ServerExists
  /\ at["published"] > 0 /\ subscribed => ppserver \/ late \/ stale

(* While publishing is enabled the publishing job exists.  Only the end of *)
(* the program ends it for good: a program that is run again in the same   *)
(* runtime does not publish, though the server still answers.              *)
PublisherAlive ==
  enabled /\ ~lapsed /\ hpc # "start_subs" =>
    Publishers > 0

(* The ways a stop or the destructor does not return: the queue was        *)
(* destroyed while the UDP server's polling job was needed to end it; a    *)
(* flag was raised after the job that clears it had ended; every worker of *)
(* the pool is in a stop() that waits for the polling job.                 *)
QueueGoneFirst == started /\ cq # "open"
PoolExhausted  == at["stop_wait"] >= PoolSize /\ started

NetServerStops ==
  hpc \in {"stop_subs", "stop_ext"} ~>
    hpc \in {"idle", "gone"} \/ QueueGoneFirst \/ PoolExhausted \/ raced

(* When the program ends the jobs that enqueue themselves end. *)
PublisherGone  == Publishers = 0
SubscriberGone == queue["ext"] + at["ext_again"] = 0

ChainsEnd ==
  /\ termination_requested ~> ~termination_requested \/ PoolExhausted \/ PublisherGone
  /\ termination_requested ~> ~termination_requested \/ PoolExhausted \/ SubscriberGone
=============================================================================
