--------------------------- MODULE MCCellScheduler ---------------------------
(* Instances of CellScheduler for TLC: a ring of two cells, one of which    *)
(* also reads an input and the other a constant.                            *)
EXTENDS CellScheduler, TLC

CONSTANTS a, b, in

MCOrder == <<a, b>>

(* Scripts that do what a tidy script does not: they write their arguments, *)
(* return fields, stop the program and fail.                                *)
WildSources == a :> <<in>> @@ b :> <<>>
WildOps == a :> {"bump", "poke", "self", "exit"} @@ b :> {"new", "throw"}

(* Scripts that neither write their arguments nor return a field. *)
TidySources == a :> <<b>> @@ b :> <<a>>
TidyOps == a :> {"new"} @@ b :> {"store", "arg"}

(* A counter that returns its field, as in the documented seq_gen template, *)
(* and a cell that uses it.                                                 *)
CounterSources == a :> <<>> @@ b :> <<a>>
CounterOps == a :> {"bump", "self"} @@ b :> {"new"}

(* A cell that stops the program beside one that computes. *)
StopSources == [c \in Cells |-> <<>>]
StopOps == a :> {"exit"} @@ b :> {"new"}

(* The loop: bodies that call functions, fail and stop from within one, and *)
(* use what such a function yields.                                         *)
LoopSources == a :> <<>> @@ b :> <<Lit>>
LoopOps == a :> {"throw"} @@ b :> {"call", "halt", "relay", "store", "poke"}

Symmetry == Permutations(Threads)
=============================================================================
