---------------------------- MODULE MCCommandQueue ----------------------------
(* An instance of CommandQueue for TLC: a job that enqueues another, an     *)
(* urgent one.                                                              *)
EXTENDS CommandQueue, TLC

CONSTANTS a, c

PairFollow == a :> c @@ c :> NoJob
=============================================================================
