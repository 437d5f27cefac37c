------------------------------ MODULE Statements ------------------------------
(***************************************************************************)
(* The statements of a cell's body as the tree walker executes them: each  *)
(* exec() calls exec() of its substatements; break, continue and return    *)
(* set a flag in the execution context that every statement on the way out *)
(* looks at; an exception unwinds the calls.  exit() sets the flag of      *)
(* return too, from within an expression, which is evaluated to its end.   *)
(*                                                                         *)
(* A while and a for are both a "loop": they differ in what is evaluated   *)
(* with the condition.  A body may be any statement legal in its place.    *)
(***************************************************************************)
EXTENDS Naturals, Sequences, FiniteSets

CONSTANTS
  Nodes,           \* the statements
  First, Second,   \* the substatements of a statement
  Body, Function,  \* the body of the cell, and that of the function it calls
  Programs,        \* which kinds the statements may be of
  Nested(_)        \* the statements of a program the parser reads while its
                   \* loops_nesting_ is not empty

Kinds ==
  {"do", "throw", "break", "continue", "return", "call", "compound", "if", "loop", "try"}

(* What the parser accepts: a break or continue is in a loop.  It reads the *)
(* bodies of cells and functions with an empty nesting, and only a loop     *)
(* adds to the nesting of what it holds.                                    *)
Parsed(k) ==
  /\ k \in [Nodes -> Kinds]
  /\ Body \notin Nested(k) /\ Function \notin Nested(k)
  /\ \A n \in Nodes \ Nested(k) :
       /\ k[n] \notin {"break", "continue"}
       /\ k[n] \in {"compound", "if", "try"} =>
            First[n] \notin Nested(k) /\ Second[n] \notin Nested(k)

ASSUME StatementsAssumption ==
  /\ First \in [Nodes -> Nodes] /\ Second \in [Nodes -> Nodes]
  /\ Body \in Nodes /\ Function \in Nodes
  /\ \A k \in Programs : Parsed(k)

VARIABLES
  kind,       \* what kind of statement each node is
  stack,      \* the exec() calls, each with where it is
  jumps,      \* the flags break_, continue_ and return_requested_ that are set
  throwing,   \* whether an exception is on its way
  exited      \* history: the flag of return is set, and exit() has set it

flags == <<jumps, exited>>
vars  == <<kind, stack, flags, throwing>>

Init ==
  /\ kind \in Programs
  /\ stack = <<[node |-> Body, at |-> "start"]>>
  /\ jumps = {} /\ throwing = FALSE /\ exited = FALSE

Top == stack[Len(stack)]
Popped == SubSeq(stack, 1, Len(stack) - 1)
Moved(where) == Append(Popped, [node |-> Top.node, at |-> where])
Pushed(n, where) == Append(Moved(where), [node |-> n, at |-> "start"])

return_requested_only == "return" \in jumps
some_jump_requested == jumps # {}

(* The call on top is of that kind and there. *)
Running(k, where) ==
  stack # <<>> /\ ~throwing /\ kind[Top.node] = k /\ Top.at = where

Starts(k) == Running(k, "start") /\ ~some_jump_requested

(* Evaluating an expression: a call of exit() in it asks for a return.     *)
ReturnAsked == jumps \cup {"return"}

Evaluates ==
  \/ UNCHANGED flags
  \/ jumps' = ReturnAsked /\ exited' = TRUE

Throws == throwing' = TRUE /\ Evaluates /\ UNCHANGED <<kind, stack>>
Goes(s) == stack' = s /\ Evaluates /\ UNCHANGED <<kind, throwing>>

(* A step that evaluates nothing. *)
Steps(s) == stack' = s /\ UNCHANGED <<kind, flags, throwing>>

-----------------------------------------------------------------------------
Do == Starts("do") /\ (Goes(Popped) \/ Throws)

(* The only exec() that does not look at the flags. *)
Throw == Running("throw", "start") /\ Throws

Break ==
  /\ Starts("break")
  /\ jumps' = jumps \cup {"break"} /\ stack' = Popped
  /\ UNCHANGED <<kind, exited, throwing>>

Continue ==
  /\ Starts("continue")
  /\ jumps' = jumps \cup {"continue"} /\ stack' = Popped
  /\ UNCHANGED <<kind, exited, throwing>>

(* The value is evaluated first; whether that calls exit() is all the same *)
(* unless it throws.                                                       *)
Return ==
  /\ Starts("return")
  /\ \/ Throws
     \/ /\ jumps' = ReturnAsked /\ stack' = Popped
        /\ UNCHANGED <<kind, exited, throwing>>

(* A call of a user function, as a statement.  The flag of return is       *)
(* cleared whenever the function is left.                                  *)
ReturnForgotten == jumps
ReturnCleared == jumps \ {"return"}

Call == Starts("call") /\ (Goes(Pushed(Function, "body")) \/ Throws)

CallEnds ==
  /\ Running("call", "body")
  /\ jumps' = ReturnCleared /\ exited' = FALSE /\ stack' = Popped
  /\ UNCHANGED <<kind, throwing>>

Compound ==
  \/ Starts("compound") /\ Steps(Pushed(First[Top.node], "first"))
  \/ /\ Running("compound", "first")
     /\ ~some_jump_requested /\ Steps(Pushed(Second[Top.node], "second"))

If ==
  /\ Starts("if")
  /\ \/ Goes(Pushed(First[Top.node], "branch"))
     \/ Goes(Pushed(Second[Top.node], "branch"))
     \/ Throws

Condition ==
  Goes(Pushed(First[Top.node], "body")) \/ Goes(Popped) \/ Throws

BreakForgotten == jumps
BreakCleared == jumps \ {"break"}

(* After the body: return, continue and break are looked for in this order. *)
Loop ==
  \/ Starts("loop") /\ Condition
  \/ Running("loop", "body") /\ ~some_jump_requested /\ Condition
  \/ /\ Running("loop", "body") /\ "return" \notin jumps /\ "continue" \in jumps
     /\ jumps' = jumps \ {"continue"}
     /\ stack' = Pushed(First[Top.node], "body")
     /\ UNCHANGED <<kind, exited, throwing>>
  \/ /\ Running("loop", "body") /\ jumps = {"break"}
     /\ jumps' = BreakCleared /\ stack' = Popped
     /\ UNCHANGED <<kind, exited, throwing>>

TryCatch == Starts("try") /\ Steps(Pushed(First[Top.node], "try"))

(* What ends a call that has nothing left to do.  exec() of any statement  *)
(* but throw returns at once while a jump is requested.                    *)
Over ==
  \/ Running("compound", "first") /\ some_jump_requested
  \/ Running("compound", "second") \/ Running("if", "branch")
  \/ Running("loop", "body") /\ "return" \in jumps
  \/ Running("try", "try") \/ Running("try", "catch")
  \/ /\ \E k \in Kinds \ {"throw"} : Running(k, "start")
     /\ some_jump_requested

Leave == Over /\ Steps(Popped)

(* An exception leaves one call after another. *)
Caught == kind[Top.node] = "try" /\ Top.at = "try"

Unwind ==
  /\ stack # <<>> /\ throwing
  /\ IF Caught
     THEN stack' = Pushed(Second[Top.node], "catch") /\ throwing' = FALSE
     ELSE stack' = Popped /\ UNCHANGED throwing
  /\ IF kind[Top.node] = "call" /\ Top.at = "body"
     THEN jumps' = ReturnCleared /\ exited' = FALSE
     ELSE UNCHANGED flags
  /\ UNCHANGED kind

-----------------------------------------------------------------------------
Next ==
  \/ Do \/ Throw \/ Break \/ Continue \/ Return \/ Call \/ CallEnds
  \/ Compound \/ If \/ Loop \/ TryCatch \/ Leave \/ Unwind

Spec == Init /\ [][Next]_vars

-----------------------------------------------------------------------------
(* The variables hold what their declarations in the code allow. *)
TypeOK ==
  /\ kind \in [Nodes -> Kinds]
  /\ \A i \in 1 .. Len(stack) : stack[i].node \in Nodes
  /\ jumps \subseteq {"break", "continue", "return"} /\ Cardinality(jumps) <= 1
  /\ throwing \in BOOLEAN /\ exited \in BOOLEAN

(* A statement never begins, and an exception is never on its way, while a *)
(* jump is requested, but for a return that exit() has asked for in the    *)
(* same function: a catch is executed, and a throw does not skip it; and a *)
(* body that ended leaves no break or continue for the thread's next cell. *)
NothingPending ==
  /\ stack # <<>> /\ Top.at = "start" /\ jumps # {} => jumps = {"return"} /\ exited
  /\ throwing /\ jumps # {} => jumps = {"return"} /\ exited
  /\ stack = <<>> => jumps \subseteq {"return"}

(* The flags and the unwinding amount to the jumps StructuredFlow makes.   *)
Jumps(s) == INSTANCE StructuredFlow WITH stack <- s

(* A throw looks at no flag: it is on its way as soon as it is reached. *)
AboutToThrow == throwing \/ (stack # <<>> /\ kind[Top.node] = "throw" /\ Top.at = "start")

Structured ==
  CASE "break" \in jumps                    -> Jumps(stack)!AfterBreak
    [] "continue" \in jumps                 -> Jumps(stack)!AfterContinue
    [] "return" \in jumps /\ ~AboutToThrow  -> Jumps(stack)!AfterReturn
    [] "return" \in jumps /\ AboutToThrow   -> Jumps(stack)!AfterExitAndThrow
    [] jumps = {} /\ throwing               -> Jumps(stack)!AfterThrow
    [] OTHER                                -> stack

Flow == INSTANCE StructuredFlow WITH stack <- Structured

ImplementsStructuredFlow == Flow!Spec
=============================================================================
