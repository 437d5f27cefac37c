---------------------------- MODULE StructuredFlow ----------------------------
(***************************************************************************)
(* What the statements of a cell's body mean: break leaves the innermost   *)
(* loop, return the innermost function or the body, an exception goes to   *)
(* the innermost try.  A condition may hold or not, a plain statement may  *)
(* throw.  continue starts the loop's body once more: as in the program    *)
(* modelled, the condition is not evaluated and the increment skipped.     *)
(* exit(), which any expression may call, returns as soon as the statement *)
(* that evaluates the expression has nothing left to do but throw.         *)
(***************************************************************************)
EXTENDS Naturals, Sequences

CONSTANTS
  Nodes,           \* the statements
  First, Second,   \* the substatements of a statement
  Body, Function   \* the body of the cell, and that of the function it calls

VARIABLES
  kind,    \* what kind of statement each node is
  stack    \* the statements being executed, each with where it is

At(n, where) == [node |-> n, at |-> where]

Top == stack[Len(stack)]
Below(i) == SubSeq(stack, 1, i - 1)

Popped == Below(Len(stack))
Moved(where) == Append(Popped, At(Top.node, where))
Pushed(n, where) == Append(Moved(where), At(n, "start"))

(* Of the statements s, the innermost of the kind and at the place. *)
Innermost(s, k, where) ==
  LET S == {i \in 1 .. Len(s) : kind[s[i].node] = k /\ s[i].at = where}
  IN IF S = {} THEN 0 ELSE CHOOSE i \in S : \A j \in S : j <= i

AfterBreak == Below(Innermost(stack, "loop", "body"))

AfterContinue ==
  LET i == Innermost(stack, "loop", "body")
  IN SubSeq(stack, 1, i) \o <<At(First[stack[i].node], "start")>>

AfterReturn ==
  LET i == Innermost(stack, "call", "body") IN IF i = 0 THEN <<>> ELSE Below(i)

Thrown(s) ==
  LET i == Innermost(s, "try", "try") IN
  IF i = 0 THEN <<>>
  ELSE SubSeq(s, 1, i - 1) \o
         <<At(s[i].node, "catch"), At(Second[s[i].node], "start")>>

AfterThrow == Thrown(stack)

(* An exception that is thrown when exit() has been called in the same     *)
(* function.  A try there stops it, and the function returns: the catch is *)
(* not executed, unless it is itself a throw.  Beyond the function it is   *)
(* an exception like any other.                                            *)
Stops(i) ==
  /\ kind[stack[i].node] = "try" /\ stack[i].at = "try"
  /\ kind[Second[stack[i].node]] # "throw"

AfterExitAndThrow ==
  LET i == Innermost(stack, "call", "body") IN
  IF i = 0 \/ \E j \in i + 1 .. Len(stack) : Stops(j) THEN AfterReturn
  ELSE Thrown(Below(i))

-----------------------------------------------------------------------------
Running(k, where) == stack # <<>> /\ kind[Top.node] = k /\ Top.at = where

Throws == stack' = AfterThrow \/ stack' = AfterExitAndThrow

(* exit() is called in the expression of a statement that ends with it, or *)
(* that has chosen which statement comes next.                             *)
Exits == stack' = AfterReturn
ExitsBefore(n) == stack' = IF kind[n] = "throw" THEN AfterExitAndThrow ELSE AfterReturn

Do == Running("do", "start") /\ (stack' = Popped \/ Exits \/ Throws)

Throw == Running("throw", "start") /\ Throws

Break == Running("break", "start") /\ stack' = AfterBreak

Continue == Running("continue", "start") /\ stack' = AfterContinue

Return == Running("return", "start") /\ (stack' = AfterReturn \/ Throws)

(* The arguments come first: a function they exit before is not executed,  *)
(* and the caller goes on.                                                 *)
Call ==
  \/ /\ Running("call", "start")
     /\ \/ stack' = Pushed(Function, "body")
        \/ kind[Function] # "throw" /\ stack' = Popped
        \/ Throws
  \/ Running("call", "body") /\ stack' = Popped

Compound ==
  \/ Running("compound", "start") /\ stack' = Pushed(First[Top.node], "first")
  \/ Running("compound", "first") /\ stack' = Pushed(Second[Top.node], "second")
  \/ Running("compound", "second") /\ stack' = Popped

If ==
  \/ /\ Running("if", "start")
     /\ \/ stack' = Pushed(First[Top.node], "branch") \/ ExitsBefore(First[Top.node])
        \/ stack' = Pushed(Second[Top.node], "branch") \/ ExitsBefore(Second[Top.node])
        \/ Throws
  \/ Running("if", "branch") /\ stack' = Popped

(* The condition is evaluated before the body and after it. *)
Loop ==
  /\ Running("loop", "start") \/ Running("loop", "body")
  /\ \/ stack' = Pushed(First[Top.node], "body") \/ ExitsBefore(First[Top.node])
     \/ stack' = Popped \/ Exits
     \/ Throws

TryCatch ==
  \/ Running("try", "start") /\ stack' = Pushed(First[Top.node], "try")
  \/ (Running("try", "try") \/ Running("try", "catch")) /\ stack' = Popped

Next ==
  /\ \/ Do \/ Throw \/ Break \/ Continue \/ Return \/ Call
     \/ Compound \/ If \/ Loop \/ TryCatch
  /\ UNCHANGED kind

Init == stack = <<At(Body, "start")>>

Spec == Init /\ [][Next]_<<kind, stack>>
=============================================================================
