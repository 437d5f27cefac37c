-------------------------- MODULE MCRuntimeLifecycle --------------------------
(* Instances of RuntimeLifecycle for TLC. *)
EXTENDS RuntimeLifecycle, TLC

CONSTANTS main, watcher

(* The main thread of the host drives the runtime, another one waits. *)
WatchedCalls ==
  main :> {"run_mt", "stop_mt", "run_cycle", "set_single", "set_multi", "destroy"}
  @@ watcher :> {"wait"}

(* The documented host: start, and destroy when the flag is set. *)
SimpleCalls == main :> {"run_mt", "destroy"}
=============================================================================
