----------------------------- MODULE MCStatements -----------------------------
(* All programs of one shape for TLC: a statement within a statement within *)
(* a statement, and a function                                              *)
(*   1: [2: [4: [6, 7], 5], 3]     8: [9, 10]                               *)
EXTENDS Statements

Tree == 1 .. 10
FirstOf == [n \in Tree |-> CASE n = 1 -> 2 [] n = 2 -> 4 [] n = 4 -> 6 [] n = 8 -> 9 [] OTHER -> n]
SecondOf == [n \in Tree |-> CASE n = 1 -> 3 [] n = 2 -> 5 [] n = 4 -> 7 [] n = 8 -> 10 [] OTHER -> n]

Inner  == {"compound", "if", "loop", "try"}
Leaves == {"do", "throw", "break", "continue", "return", "call"}

(* Below a loop its nesting is not empty. *)
Above == [n \in Tree |-> CASE n \in {2, 3} -> {1} [] n \in {4, 5} -> {1, 2}
                          [] n \in {6, 7} -> {1, 2, 4} [] OTHER -> {}]
NestedIn(k) == {n \in Tree : \E m \in Above[n] : k[m] = "loop"}

(* The programs the parser accepts; a loop has no second substatement.     *)
Legal(k) ==
  /\ Parsed(k)
  /\ \A n \in {1, 2, 4} : k[n] = "loop" => k[SecondOf[n]] = "do"

AllPrograms ==
  {k \in {[n \in Tree |->
            CASE n = 1 -> a [] n = 2 -> b [] n = 4 -> c
              [] n = 3 -> p [] n = 5 -> q [] n = 6 -> r [] n = 7 -> s
              [] n = 8 -> "if" [] n = 9 -> "return" [] n = 10 -> "do"] :
          a \in Inner, b \in Inner, c \in Inner,
          p \in Leaves, q \in Leaves, r \in Leaves, s \in Leaves} : Legal(k)}
=============================================================================
