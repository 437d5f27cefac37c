------------------------------- MODULE JobPool -------------------------------
(***************************************************************************)
(* What a command queue promises to those who hand it jobs: a job it has   *)
(* accepted is executed once, by somebody, and is given up only when the   *)
(* queue is being closed.                                                  *)
(***************************************************************************)
CONSTANT Jobs

VARIABLES pending, running, done, lost, closed

vars == <<pending, running, done, lost, closed>>

Init ==
  /\ pending = {} /\ running = {} /\ done = {} /\ lost = {}
  /\ closed = FALSE

(* An enqueue() that has seen the queue open may still accept a job after  *)
(* the queue was closed.                                                   *)
Accept(j) ==
  /\ j \notin pending \cup running \cup done \cup lost
  /\ pending' = pending \cup {j}
  /\ UNCHANGED <<running, done, lost, closed>>

Begin(j) ==
  /\ j \in pending
  /\ pending' = pending \ {j} /\ running' = running \cup {j}
  /\ UNCHANGED <<done, lost, closed>>

Finish(j) ==
  /\ j \in running
  /\ running' = running \ {j} /\ done' = done \cup {j}
  /\ UNCHANGED <<pending, lost, closed>>

Close ==
  /\ ~closed /\ closed' = TRUE
  /\ UNCHANGED <<pending, running, done, lost>>

GiveUp(S) ==
  /\ closed /\ S \subseteq pending
  /\ pending' = pending \ S /\ lost' = lost \cup S
  /\ UNCHANGED <<running, done, closed>>

Next ==
  \/ \E j \in Jobs : Accept(j) \/ Begin(j) \/ Finish(j)
  \/ Close
  \/ \E S \in SUBSET pending : GiveUp(S)

Spec == Init /\ [][Next]_vars
=============================================================================
