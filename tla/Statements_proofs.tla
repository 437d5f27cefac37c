--------------------------- MODULE Statements_proofs ---------------------------
(***************************************************************************)
(* Proofs about Statements, for every program the parser accepts, whatever *)
(* its shape and however deep its calls: no jump outlives the statement it *)
(* is for, and the flags and the unwinding amount to structured jumps.     *)
(***************************************************************************)
EXTENDS Statements, FiniteSetTheorems, SequenceTheorems, WellFoundedInduction, TLAPS

Places == {"start", "body", "first", "second", "branch", "try", "catch"}
Frame  == [node : Nodes, at : Places]

(* Where a call may be while another runs on top of it. *)
InProgress ==
  {<<"call", "body">>, <<"compound", "first">>, <<"compound", "second">>,
   <<"if", "branch">>, <<"loop", "body">>, <<"try", "try">>, <<"try", "catch">>}

Marked(kd, s, i, k, where) == kd[s[i].node] = k /\ s[i].at = where

(* Below the i-th call, and within its function, a loop runs its body. *)
InLoop(kd, s, i) ==
  \E j \in 1 .. i - 1 :
    /\ Marked(kd, s, j, "loop", "body")
    /\ \A l \in j + 1 .. i - 1 : kd[s[l].node] # "call"

(* The calls on the stack: all but the last run another, and a statement   *)
(* that may hold a break or continue is in a loop.                         *)
SoundCalls(kd, s) ==
  \A i \in 1 .. Len(s) :
    /\ (i = Len(s) /\ s[i].at = "start") \/ <<kd[s[i].node], s[i].at>> \in InProgress
    /\ s[i].node \in Nested(kd) => InLoop(kd, s, i)

(* One jump is on its way at a time, a break or continue never without the *)
(* loop it is for.                                                         *)
SoundFlags(kd, s, f) ==
  /\ f \in {{}, {"break"}, {"continue"}, {"return"}}
  /\ f \in {{"break"}, {"continue"}} => InLoop(kd, s, Len(s) + 1)

(* Nothing is requested but what exit() may have asked for. *)
Exiting(f, e) == (f = {} /\ e = FALSE) \/ (f = {"return"} /\ e = TRUE)

(* So it is whenever a statement begins or an exception is on its way.     *)
ExitInv ==
  /\ exited \in BOOLEAN /\ (exited => jumps = {"return"})
  /\ throwing \/ (stack # <<>> /\ Top.at = "start") => Exiting(jumps, exited)

IInv ==
  /\ kind \in Programs
  /\ stack \in Seq(Frame)
  /\ SoundCalls(kind, stack)
  /\ SoundFlags(kind, stack, jumps)
  /\ throwing \in BOOLEAN
  /\ ExitInv

-----------------------------------------------------------------------------
(* The three things a step makes of the stack. *)

LEMMA PoppedFacts ==
  ASSUME NEW S, stack \in Seq(S), stack # <<>>
  PROVE  /\ Len(stack) \in Nat \ {0} /\ Top \in S
         /\ Popped \in Seq(S) /\ Len(Popped) = Len(stack) - 1
         /\ \A i \in 1 .. Len(stack) - 1 : Popped[i] = stack[i]
BY DEF Popped, Top

LEMMA PushedFacts ==
  ASSUME stack \in Seq(Frame), stack # <<>>, NEW n \in Nodes, NEW where \in Places
  PROVE  /\ Pushed(n, where) \in Seq(Frame)
         /\ Len(Pushed(n, where)) = Len(stack) + 1
         /\ \A i \in 1 .. Len(stack) - 1 : Pushed(n, where)[i] = stack[i]
         /\ Pushed(n, where)[Len(stack)] = [node |-> Top.node, at |-> where]
         /\ Pushed(n, where)[Len(stack) + 1] = [node |-> n, at |-> "start"]
<1>1. /\ Len(stack) \in Nat \ {0} /\ Top \in Frame
      /\ Popped \in Seq(Frame) /\ Len(Popped) = Len(stack) - 1
      /\ \A i \in 1 .. Len(stack) - 1 : Popped[i] = stack[i]
  BY PoppedFacts
<1>. DEFINE top == [node |-> Top.node, at |-> where]
            new == [node |-> n, at |-> "start"]
<1>2. top \in Frame /\ new \in Frame
  BY <1>1 DEF Frame, Places
<1>. HIDE DEF top, new
<1>3. /\ Append(Popped, top) \in Seq(Frame)
      /\ Len(Append(Popped, top)) = Len(stack)
      /\ \A i \in 1 .. Len(stack) - 1 : Append(Popped, top)[i] = stack[i]
      /\ Append(Popped, top)[Len(stack)] = top
  BY <1>1, <1>2
<1>4. Pushed(n, where) = Append(Append(Popped, top), new)
  BY DEF Pushed, Moved, top, new
<1>. QED
  BY <1>1, <1>2, <1>3, <1>4 DEF top, new

(* A loop encloses what is above it, up to the next function. *)
LEMMA InLoopOf ==
  ASSUME NEW kd, NEW s, NEW t, NEW i \in Nat, \A j \in 1 .. i - 1 : s[j] = t[j]
  PROVE  InLoop(kd, s, i) <=> InLoop(kd, t, i)
BY DEF InLoop, Marked

LEMMA InLoopAbove ==
  ASSUME NEW kd, NEW s, NEW i \in Nat \ {0}
  PROVE  InLoop(kd, s, i + 1) <=>
           \/ Marked(kd, s, i, "loop", "body")
           \/ InLoop(kd, s, i) /\ kd[s[i].node] # "call"
<1>1. ASSUME Marked(kd, s, i, "loop", "body") PROVE InLoop(kd, s, i + 1)
  BY <1>1 DEF InLoop
<1>2. ASSUME InLoop(kd, s, i), kd[s[i].node] # "call" PROVE InLoop(kd, s, i + 1)
  BY <1>2 DEF InLoop
<1>3. ASSUME InLoop(kd, s, i + 1), ~Marked(kd, s, i, "loop", "body")
      PROVE  InLoop(kd, s, i) /\ kd[s[i].node] # "call"
  BY <1>3 DEF InLoop
<1>. QED
  BY <1>1, <1>2, <1>3

LEMMA PopCalls ==
  ASSUME stack \in Seq(Frame), stack # <<>>, SoundCalls(kind, stack)
  PROVE  /\ SoundCalls(kind, Popped)
         /\ Popped # <<>> => Popped[Len(Popped)].at # "start"
         /\ \A i \in 1 .. Len(stack) : InLoop(kind, Popped, i) <=> InLoop(kind, stack, i)
<1>1. /\ Len(stack) \in Nat \ {0} /\ Popped \in Seq(Frame) /\ Len(Popped) = Len(stack) - 1
      /\ \A i \in 1 .. Len(stack) - 1 : Popped[i] = stack[i]
  BY PoppedFacts
<1>2. \A i \in 1 .. Len(stack) : InLoop(kind, Popped, i) <=> InLoop(kind, stack, i)
  BY <1>1, InLoopOf
<1>3. ASSUME NEW i \in 1 .. Len(stack) - 1
      PROVE  <<kind[stack[i].node], stack[i].at>> \in InProgress
  <2>1. i \in 1 .. Len(stack) /\ i # Len(stack)
    BY <1>1
  <2>. QED
    BY <2>1, Zenon DEF SoundCalls
<1>4. SoundCalls(kind, Popped)
  BY <1>1, <1>2, <1>3 DEF SoundCalls
<1>5. Popped # <<>> => Popped[Len(Popped)].at # "start"
  <2>1. Popped # <<>> => Len(Popped) \in 1 .. Len(stack) - 1
    BY <1>1
  <2>. QED
    BY <1>1, <1>3, <2>1 DEF InProgress
<1>. QED
  BY <1>2, <1>4, <1>5

LEMMA PushCalls ==
  ASSUME stack \in Seq(Frame), stack # <<>>, SoundCalls(kind, stack),
         NEW n \in Nodes, NEW where \in Places,
         <<kind[Top.node], where>> \in InProgress,
         n \in Nested(kind) =>
           \/ kind[Top.node] = "loop" /\ where = "body"
           \/ Top.node \in Nested(kind) /\ kind[Top.node] # "call"
  PROVE  SoundCalls(kind, Pushed(n, where))
<1>. DEFINE s == Pushed(n, where)
            h == Len(stack)
<1>1. /\ h \in Nat \ {0} /\ Len(s) = h + 1
      /\ \A i \in 1 .. h - 1 : s[i] = stack[i]
      /\ s[h].node = Top.node /\ s[h].at = where
      /\ s[h + 1].node = n /\ s[h + 1].at = "start"
  <2>1. h \in Nat \ {0}
    BY PoppedFacts
  <2>2. /\ Len(s) = h + 1 /\ \A i \in 1 .. h - 1 : s[i] = stack[i]
        /\ s[h] = [node |-> Top.node, at |-> where]
        /\ s[h + 1] = [node |-> n, at |-> "start"]
    BY PushedFacts
  <2>. HIDE DEF s, h
  <2>. QED
    BY <2>1, <2>2
<1>. HIDE DEF s
<1>2. \A i \in 1 .. h : InLoop(kind, s, i) <=> InLoop(kind, stack, i)
  BY <1>1, InLoopOf
<1>3. Top.node \in Nested(kind) => InLoop(kind, s, h)
  <2>1. h \in 1 .. h
    BY <1>1
  <2>2. stack[h].node \in Nested(kind) => InLoop(kind, stack, h)
    BY <2>1, Zenon DEF SoundCalls
  <2>. QED
    BY <1>2, <2>1, <2>2, Zenon DEF Top
<1>4. n \in Nested(kind) => InLoop(kind, s, h + 1)
  BY <1>1, <1>3, InLoopAbove DEF Marked
<1>5. ASSUME NEW i \in 1 .. h - 1
      PROVE  /\ <<kind[stack[i].node], stack[i].at>> \in InProgress
             /\ stack[i].node \in Nested(kind) => InLoop(kind, stack, i)
  <2>1. i \in 1 .. h /\ i # h
    BY <1>1
  <2>. QED
    BY <2>1, Zenon DEF SoundCalls
<1>6. ASSUME NEW i \in 1 .. h + 1
      PROVE  /\ (i = h + 1 /\ s[i].at = "start") \/ <<kind[s[i].node], s[i].at>> \in InProgress
             /\ s[i].node \in Nested(kind) => InLoop(kind, s, i)
  <2>1. CASE i \in 1 .. h - 1
    <3>1. s[i] = stack[i] /\ (InLoop(kind, s, i) <=> InLoop(kind, stack, i))
      BY <1>1, <1>2, <2>1
    <3>. QED
      BY <1>5, <2>1, <3>1, Zenon
  <2>2. CASE i = h
    BY <1>1, <1>3, <2>2
  <2>3. CASE i = h + 1
    BY <1>1, <1>4, <2>3
  <2>. QED
    BY <1>1, <2>1, <2>2, <2>3
<1>7. SoundCalls(kind, s)
  BY <1>1, <1>6 DEF SoundCalls
<1>. QED
  BY <1>7 DEF s

-----------------------------------------------------------------------------
(* The invariant. *)

LEMMA PopIInv ==
  ASSUME IInv, stack # <<>>, stack' = Popped, kind' = kind,
         jumps' \in {{}, {"break"}, {"continue"}, {"return"}},
         jumps' \in {{"break"}, {"continue"}} => InLoop(kind, stack, Len(stack)),
         throwing' \in BOOLEAN, throwing' => Exiting(jumps', exited'),
         exited' \in BOOLEAN, exited' => jumps' = {"return"}
  PROVE  IInv'
<1>1. /\ SoundCalls(kind, stack') /\ stack' \in Seq(Frame)
      /\ stack' # <<>> => stack'[Len(stack')].at # "start"
      /\ Len(stack') + 1 = Len(stack) /\ Len(stack) \in 1 .. Len(stack)
      /\ InLoop(kind, stack', Len(stack)) <=> InLoop(kind, stack, Len(stack))
  <2>1. /\ stack' \in Seq(Frame) /\ Len(stack) \in Nat \ {0} /\ Len(stack') = Len(stack) - 1
    BY PoppedFacts DEF IInv
  <2>2. Len(stack') + 1 = Len(stack) /\ Len(stack) \in 1 .. Len(stack)
    BY <2>1
  <2>3. /\ SoundCalls(kind, Popped) /\ (Popped # <<>> => Popped[Len(Popped)].at # "start")
        /\ InLoop(kind, Popped, Len(stack)) <=> InLoop(kind, stack, Len(stack))
    BY <2>2, PopCalls DEF IInv
  <2>. QED
    BY <2>1, <2>2, <2>3
<1>2. SoundFlags(kind, stack', jumps')
  BY <1>1, Zenon DEF SoundFlags
<1>3. ExitInv'
  BY <1>1, Zenon DEF ExitInv, Top
<1>. QED
  BY <1>1, <1>2, <1>3, Zenon DEF IInv

LEMMA PushIInv ==
  ASSUME IInv, stack # <<>>, NEW n \in Nodes, NEW where \in Places,
         <<kind[Top.node], where>> \in InProgress,
         n \in Nested(kind) =>
           \/ kind[Top.node] = "loop" /\ where = "body"
           \/ Top.node \in Nested(kind) /\ kind[Top.node] # "call",
         stack' = Pushed(n, where), kind' = kind, throwing' = FALSE,
         Exiting(jumps', exited')
  PROVE  IInv'
<1>1. SoundCalls(kind, stack')
  BY PushCalls, Zenon DEF IInv
<1>2. stack' \in Seq(Frame)
  BY PushedFacts, Zenon DEF IInv
<1>3. SoundFlags(kind, stack', jumps')
  BY DEF SoundFlags, Exiting
<1>4. ExitInv'
  BY DEF ExitInv, Exiting
<1>. QED
  BY <1>1, <1>2, <1>3, <1>4, Zenon DEF IInv

(* Evaluating an expression. *)
LEMMA Evaluated ==
  ASSUME Exiting(jumps, exited), Evaluates
  PROVE  Exiting(jumps', exited')
BY DEF Exiting, Evaluates, ReturnAsked, flags

LEMMA ExitingFlags ==
  ASSUME NEW f, NEW e, Exiting(f, e)
  PROVE  /\ f \in {{}, {"return"}} /\ f \notin {{"break"}, {"continue"}}
         /\ e \in BOOLEAN /\ (e => f = {"return"})
BY DEF Exiting

LEMMA ThrowIInv ==
  ASSUME IInv, Throws, Exiting(jumps, exited)
  PROVE  IInv'
<1>1. kind' = kind /\ stack' = stack /\ throwing' = TRUE /\ Exiting(jumps', exited')
  BY Evaluated DEF Throws
<1>2. SoundFlags(kind, stack, jumps') /\ ExitInv'
  BY <1>1, ExitingFlags, Zenon DEF SoundFlags, ExitInv
<1>. QED
  BY <1>1, <1>2, Zenon DEF IInv

(* The call on top, as a state of the invariant. *)
LEMMA TopFacts ==
  ASSUME IInv, stack # <<>>
  PROVE  /\ Top.node \in Nodes /\ Top.at \in Places
         /\ Top = [node |-> Top.node, at |-> Top.at]
         /\ Len(stack) \in Nat \ {0} /\ Len(stack) \in 1 .. Len(stack)
         /\ Top.at = "start" => Exiting(jumps, exited)
         /\ Top.at = "start" \/ <<kind[Top.node], Top.at>> \in InProgress
         /\ Top.node \in Nested(kind) => InLoop(kind, stack, Len(stack))
         /\ First[Top.node] \in Nodes /\ Second[Top.node] \in Nodes
         /\ Parsed(kind)
<1>1. Len(stack) \in Nat \ {0} /\ Top \in Frame
  BY PoppedFacts DEF IInv
<1>2. Len(stack) \in 1 .. Len(stack)
  BY <1>1
<1>3. /\ Top.at = "start" \/ <<kind[Top.node], Top.at>> \in InProgress
      /\ Top.node \in Nested(kind) => InLoop(kind, stack, Len(stack))
  BY <1>2, Zenon DEF IInv, SoundCalls, Top
<1>4. Top.at = "start" => Exiting(jumps, exited)
  BY Zenon DEF IInv, ExitInv
<1>5. /\ Top.node \in Nodes /\ Top.at \in Places
      /\ Top = [node |-> Top.node, at |-> Top.at]
  BY <1>1 DEF Frame
<1>6. /\ First[Top.node] \in Nodes /\ Second[Top.node] \in Nodes /\ Parsed(kind)
  BY <1>5, StatementsAssumption DEF IInv
<1>. QED
  BY <1>1, <1>2, <1>3, <1>4, <1>5, <1>6

(* A substatement of anything but a loop is in a loop only if that is.     *)
LEMMA Substatements ==
  ASSUME IInv, stack # <<>>, kind[Top.node] \in {"compound", "if", "try"}
  PROVE  /\ First[Top.node] \in Nested(kind) => Top.node \in Nested(kind)
         /\ Second[Top.node] \in Nested(kind) => Top.node \in Nested(kind)
BY TopFacts DEF Parsed

(* What is pending when the call on top looks at it. *)
LEMMA Pending ==
  ASSUME IInv, stack # <<>>
  PROVE  /\ jumps \in {{}, {"break"}, {"continue"}, {"return"}}
         /\ jumps \in {{"break"}, {"continue"}} =>
              \/ Marked(kind, stack, Len(stack), "loop", "body")
              \/ InLoop(kind, stack, Len(stack)) /\ kind[Top.node] # "call"
<1>1. Len(stack) \in Nat \ {0}
  BY TopFacts
<1>2. InLoop(kind, stack, Len(stack) + 1) =>
        \/ Marked(kind, stack, Len(stack), "loop", "body")
        \/ InLoop(kind, stack, Len(stack)) /\ kind[Top.node] # "call"
  BY <1>1, InLoopAbove DEF Top
<1>. QED
  BY <1>2 DEF IInv, SoundFlags

LEMMA Calm ==
  ASSUME IInv, ~throwing
  PROVE  throwing = FALSE
BY Zenon DEF IInv

(* A statement that finds nothing requested. *)
LEMMA Clear ==
  ASSUME IInv, jumps = {}
  PROVE  exited = FALSE /\ Exiting(jumps, exited)
<1>1. ~exited
  BY Zenon DEF IInv, ExitInv
<1>2. exited = FALSE
  BY <1>1, Zenon DEF IInv, ExitInv
<1>. QED
  BY <1>2 DEF Exiting

(* What it may do, apart from executing another. *)
LEMMA EndsIInv ==
  ASSUME IInv, stack # <<>>, ~throwing, jumps = {}, Goes(Popped) \/ Steps(Popped)
  PROVE  IInv'
<1>1. throwing = FALSE /\ Exiting(jumps, exited)
  BY Calm, Clear
<1>2. /\ stack' = Popped /\ kind' = kind /\ throwing' = FALSE
      /\ Evaluates \/ UNCHANGED <<jumps, exited>>
  BY <1>1 DEF Goes, Steps, flags
<1>3. Exiting(jumps', exited')
  BY <1>1, <1>2, Evaluated
<1>. QED
  BY <1>2, <1>3, ExitingFlags, PopIInv

(* It requests a jump. *)
LEMMA AsksIInv ==
  ASSUME IInv, stack # <<>>, ~throwing, jumps = {}, stack' = Popped,
         UNCHANGED <<kind, exited, throwing>>,
         jumps' \in {{"break"}, {"continue"}, {"return"}},
         jumps' \in {{"break"}, {"continue"}} => InLoop(kind, stack, Len(stack))
  PROVE  IInv'
<1>1. throwing' = FALSE /\ exited' = FALSE
  BY Calm, Clear
<1>. QED
  BY <1>1, PopIInv

LEMMA SimpleSteps ==
  ASSUME IInv, Do \/ Throw \/ Break \/ Continue \/ Return \/ Call \/ CallEnds
  PROVE  IInv'
<1>. USE DEF Starts, Running, some_jump_requested
<1>1. CASE Do
  BY <1>1, EndsIInv, Clear, ThrowIInv DEF Do
<1>2. CASE Throw
  BY <1>2, TopFacts, ThrowIInv DEF Throw
<1>3. CASE Break
  <2>1. /\ stack # <<>> /\ kind[Top.node] = "break" /\ jumps = {} /\ jumps' = {"break"}
        /\ stack' = Popped /\ UNCHANGED <<kind, exited, throwing>> /\ ~throwing
    BY <1>3 DEF Break
  <2>2. InLoop(kind, stack, Len(stack))
    BY <2>1, TopFacts DEF Parsed
  <2>. QED
    BY <2>1, <2>2, AsksIInv
<1>4. CASE Continue
  <2>1. /\ stack # <<>> /\ kind[Top.node] = "continue" /\ jumps = {} /\ jumps' = {"continue"}
        /\ stack' = Popped /\ UNCHANGED <<kind, exited, throwing>> /\ ~throwing
    BY <1>4 DEF Continue
  <2>2. InLoop(kind, stack, Len(stack))
    BY <2>1, TopFacts DEF Parsed
  <2>. QED
    BY <2>1, <2>2, AsksIInv
<1>5. CASE Return
  <2>1. stack # <<>> /\ ~throwing /\ jumps = {}
    BY <1>5 DEF Return
  <2>2. ASSUME jumps' = ReturnAsked, stack' = Popped, UNCHANGED <<kind, exited, throwing>>
        PROVE  IInv'
    <3>1. jumps' = {"return"}
      BY <2>1, <2>2 DEF ReturnAsked
    <3>. QED
      BY <2>1, <2>2, <3>1, AsksIInv
  <2>. QED
    BY <1>5, <2>1, <2>2, Clear, ThrowIInv DEF Return
<1>6. CASE Call
  <2>1. stack # <<>> /\ ~throwing /\ jumps = {} /\ kind[Top.node] = "call"
    BY <1>6 DEF Call
  <2>2. ASSUME Goes(Pushed(Function, "body")) PROVE IInv'
    <3>1. Function \in Nodes /\ Function \notin Nested(kind)
      BY <2>1, TopFacts, StatementsAssumption DEF Parsed
    <3>2. <<kind[Top.node], "body">> \in InProgress /\ "body" \in Places
      BY <2>1 DEF InProgress, Places
    <3>3. /\ stack' = Pushed(Function, "body") /\ kind' = kind /\ throwing' = FALSE
          /\ Exiting(jumps', exited')
      BY <2>1, <2>2, Calm, Clear, Evaluated DEF Goes
    <3>. QED
      BY <2>1, <3>1, <3>2, <3>3, PushIInv
  <2>. QED
    BY <1>6, <2>1, <2>2, Clear, ThrowIInv DEF Call
<1>7. CASE CallEnds
  <2>1. /\ stack # <<>> /\ ~throwing /\ kind[Top.node] = "call" /\ stack' = Popped
        /\ kind' = kind /\ throwing' = throwing /\ jumps' = jumps \ {"return"}
        /\ exited' = FALSE
    BY <1>7 DEF CallEnds, ReturnCleared
  <2>2. jumps \in {{}, {"return"}}
    BY <2>1, Pending DEF Marked, Top
  <2>3. jumps' = {}
    BY <2>1, <2>2
  <2>4. throwing' = FALSE
    BY <2>1, Calm
  <2>. QED
    BY <2>1, <2>3, <2>4, PopIInv
<1>. QED
  BY <1>1, <1>2, <1>3, <1>4, <1>5, <1>6, <1>7

(* A statement that is no loop executes one of its substatements. *)
LEMMA PushSubstatement ==
  ASSUME IInv, stack # <<>>, NEW n \in {First[Top.node], Second[Top.node]}, NEW where \in Places,
         kind[Top.node] \in {"compound", "if", "try"}, <<kind[Top.node], where>> \in InProgress,
         stack' = Pushed(n, where), kind' = kind, throwing' = FALSE, Exiting(jumps', exited')
  PROVE  IInv'
<1>1. n \in Nodes /\ (n \in Nested(kind) => Top.node \in Nested(kind))
  BY TopFacts, Substatements
<1>2. kind[Top.node] # "call"
  OBVIOUS
<1>. QED
  BY <1>1, <1>2, PushIInv

(* A loop executes its body, once more or for the first time. *)
LEMMA PushBody ==
  ASSUME IInv, stack # <<>>, kind[Top.node] = "loop",
         stack' = Pushed(First[Top.node], "body"), kind' = kind, throwing' = FALSE,
         Exiting(jumps', exited')
  PROVE  IInv'
<1>1. /\ First[Top.node] \in Nodes /\ "body" \in Places
      /\ <<kind[Top.node], "body">> \in InProgress
  BY TopFacts DEF Places, InProgress
<1>. QED
  BY <1>1, PushIInv

LEMMA CompoundSteps ==
  ASSUME IInv, Compound \/ If \/ TryCatch
  PROVE  IInv'
<1>. USE DEF Starts, Running, some_jump_requested
<1>1. stack # <<>> /\ ~throwing /\ jumps = {} /\ kind[Top.node] \in {"compound", "if", "try"}
  BY DEF Compound, If, TryCatch
<1>2. throwing = FALSE /\ Exiting(jumps, exited)
  BY <1>1, Calm, Clear
<1>3. CASE Throws
  BY <1>2, <1>3, ThrowIInv
<1>4. ASSUME NEW n \in {First[Top.node], Second[Top.node]}, NEW where \in Places,
             <<kind[Top.node], where>> \in InProgress,
             Goes(Pushed(n, where)) \/ Steps(Pushed(n, where))
      PROVE  IInv'
  <2>1. /\ stack' = Pushed(n, where) /\ kind' = kind /\ throwing' = FALSE
        /\ Evaluates \/ UNCHANGED <<jumps, exited>>
    BY <1>2, <1>4 DEF Goes, Steps, flags
  <2>2. Exiting(jumps', exited')
    BY <1>2, <2>1, Evaluated
  <2>. QED
    BY <1>1, <1>4, <2>1, <2>2, PushSubstatement
<1>5. CASE Compound
  BY <1>4, <1>5 DEF Compound, Places, InProgress
<1>6. CASE If
  BY <1>3, <1>4, <1>6 DEF If, Places, InProgress
<1>7. CASE TryCatch
  BY <1>4, <1>7 DEF TryCatch, Places, InProgress
<1>. QED
  BY <1>5, <1>6, <1>7

LEMMA LoopSteps ==
  ASSUME IInv, Loop
  PROVE  IInv'
<1>1. stack # <<>> /\ ~throwing /\ kind[Top.node] = "loop"
  BY DEF Loop, Starts, Running
<1>2. throwing = FALSE
  BY <1>1, Calm
<1>3. ASSUME Condition, jumps = {} PROVE IInv'
  <2>1. CASE Goes(Pushed(First[Top.node], "body"))
    <3>1. Exiting(jumps', exited')
      BY <1>3, <2>1, Clear, Evaluated DEF Goes
    <3>. QED
      BY <1>1, <1>2, <2>1, <3>1, PushBody DEF Goes
  <2>2. CASE Goes(Popped)
    BY <1>1, <1>3, <2>2, EndsIInv
  <2>3. CASE Throws
    BY <1>3, <2>3, Clear, ThrowIInv
  <2>. QED
    BY <1>3, <2>1, <2>2, <2>3 DEF Condition
<1>4. ASSUME "continue" \in jumps, jumps' = jumps \ {"continue"},
             stack' = Pushed(First[Top.node], "body"), UNCHANGED <<kind, exited, throwing>>
      PROVE  IInv'
  <2>1. jumps = {"continue"} /\ jumps' = {}
    BY <1>1, <1>4, Pending
  <2>2. exited = FALSE
    BY <2>1, Zenon DEF IInv, ExitInv
  <2>3. Exiting(jumps', exited')
    BY <1>4, <2>1, <2>2 DEF Exiting
  <2>. QED
    BY <1>1, <1>2, <1>4, <2>3, PushBody
<1>5. ASSUME jumps = {"break"}, jumps' = BreakCleared, stack' = Popped,
             UNCHANGED <<kind, exited, throwing>>
      PROVE  IInv'
  <2>1. jumps' = {}
    BY <1>5 DEF BreakCleared
  <2>2. jumps # {"return"}
    BY <1>5
  <2>3. ~exited' /\ exited' \in BOOLEAN
    BY <1>5, <2>2, Zenon DEF IInv, ExitInv
  <2>. QED
    BY <1>1, <1>2, <1>5, <2>1, <2>3, PopIInv
<1>. QED
  BY <1>3, <1>4, <1>5 DEF Loop, Starts, some_jump_requested

(* Nothing but a loop that a break or continue reaches stops it. *)
LEMMA LeaveKeeps ==
  ASSUME IInv, Over
  PROVE  /\ stack # <<>> /\ ~throwing
         /\ ~Marked(kind, stack, Len(stack), "call", "body")
         /\ Top.at = "start" => jumps = {"return"} /\ kind[Top.node] # "throw"
         /\ jumps \in {{"break"}, {"continue"}} =>
              ~Marked(kind, stack, Len(stack), "loop", "body") /\ kind[Top.node] # "call"
<1>1. stack # <<>> /\ ~throwing
  BY DEF Over, Running
<1>2. CASE /\ \E k \in Kinds \ {"throw"} : Running(k, "start")
           /\ some_jump_requested
  <2>1. Top.at = "start" /\ kind[Top.node] # "throw" /\ jumps # {}
    BY <1>2 DEF Running, some_jump_requested
  <2>2. jumps = {"return"}
    BY <1>1, <2>1, TopFacts DEF Exiting
  <2>. QED
    BY <1>1, <2>1, <2>2 DEF Marked, Top
<1>3. CASE \/ Running("compound", "first") \/ Running("compound", "second")
           \/ Running("if", "branch") \/ (Running("loop", "body") /\ "return" \in jumps)
           \/ Running("try", "try") \/ Running("try", "catch")
  BY <1>1, <1>3 DEF Running, Marked, Top
<1>. QED
  BY <1>2, <1>3 DEF Over

LEMMA LeaveSteps ==
  ASSUME IInv, Leave
  PROVE  IInv'
<1>1. /\ stack # <<>> /\ ~throwing
      /\ stack' = Popped /\ UNCHANGED <<kind, jumps, exited, throwing>>
  BY LeaveKeeps DEF Leave, Steps, flags
<1>2. jumps \in {{"break"}, {"continue"}} => InLoop(kind, stack, Len(stack))
  BY <1>1, LeaveKeeps, Pending DEF Leave
<1>3. throwing = FALSE /\ jumps \in {{}, {"break"}, {"continue"}, {"return"}}
  BY <1>1, Calm, Pending
<1>4. exited' \in BOOLEAN /\ (exited' => jumps' = {"return"})
  BY <1>1, Zenon DEF IInv, ExitInv
<1>. QED
  BY <1>1, <1>2, <1>3, <1>4, PopIInv

LEMMA UnwindSteps ==
  ASSUME IInv, Unwind
  PROVE  IInv'
<1>1. stack # <<>> /\ throwing = TRUE /\ kind' = kind /\ Exiting(jumps, exited)
  <2>1. stack # <<>> /\ throwing /\ kind' = kind
    BY DEF Unwind
  <2>. QED
    BY <2>1, Zenon DEF IInv, ExitInv
<1>2. Exiting(jumps', exited')
  <2>1. \/ jumps' = jumps \ {"return"} /\ exited' = FALSE
        \/ jumps' = jumps /\ exited' = exited
    BY DEF Unwind, ReturnCleared, flags
  <2>. QED
    BY <1>1, <2>1 DEF Exiting
<1>3. CASE Caught
  <2>1. /\ stack' = Pushed(Second[Top.node], "catch") /\ throwing' = FALSE
        /\ kind[Top.node] = "try"
    BY <1>3 DEF Unwind, Caught
  <2>2. "catch" \in Places /\ <<kind[Top.node], "catch">> \in InProgress
    BY <2>1 DEF Places, InProgress
  <2>. QED
    BY <1>1, <1>2, <2>1, <2>2, PushSubstatement
<1>4. CASE ~Caught
  <2>1. stack' = Popped /\ throwing' = TRUE
    BY <1>1, <1>4 DEF Unwind
  <2>. QED
    BY <1>1, <1>2, <2>1, ExitingFlags, PopIInv
<1>. QED
  BY <1>3, <1>4

LEMMA Initial == Init => IInv
<1> SUFFICES ASSUME Init PROVE IInv
  OBVIOUS
<1>1. /\ Len(stack) = 1 /\ stack[1].node = Body /\ stack[1].at = "start" /\ stack \in Seq(Frame)
      /\ jumps = {} /\ throwing = FALSE /\ exited = FALSE /\ kind \in Programs
  BY StatementsAssumption DEF Init, Frame, Places
<1>2. Body \notin Nested(kind)
  BY <1>1, StatementsAssumption DEF Parsed
<1>3. SoundCalls(kind, stack)
  <2>1. \A i \in 1 .. Len(stack) : i = Len(stack) /\ stack[i].node = Body /\ stack[i].at = "start"
    BY <1>1
  <2>. QED
    BY <1>2, <2>1, Zenon DEF SoundCalls
<1>4. SoundFlags(kind, stack, jumps)
  BY <1>1 DEF SoundFlags
<1>5. ExitInv
  BY <1>1 DEF ExitInv, Exiting
<1>. QED
  BY <1>1, <1>3, <1>4, <1>5 DEF IInv

LEMMA Invariant == Spec => []IInv
<1>1. IInv /\ [Next]_vars => IInv'
  <2> SUFFICES ASSUME IInv, [Next]_vars PROVE IInv'
    OBVIOUS
  <2>1. CASE UNCHANGED vars
    BY <2>1 DEF vars, flags, IInv, ExitInv, Top
  <2>. QED
    BY <2>1, SimpleSteps, CompoundSteps, LoopSteps, LeaveSteps, UnwindSteps DEF Next
<1>. QED
  BY <1>1, Initial, PTL DEF Spec

-----------------------------------------------------------------------------
(* Every call on the stack executes a statement, and of break, continue    *)
(* and return one at most is requested: none of the code that looks for    *)
(* the three flags ever has to choose.                                     *)
THEOREM TypeCorrect == Spec => []TypeOK
<1>1. IInv => TypeOK
  <2> SUFFICES ASSUME IInv PROVE TypeOK
    OBVIOUS
  <2>1. kind \in [Nodes -> Kinds] /\ throwing \in BOOLEAN /\ exited \in BOOLEAN
    BY StatementsAssumption, Zenon DEF IInv, Parsed, ExitInv
  <2>2. \A i \in 1 .. Len(stack) : stack[i].node \in Nodes
    <3>1. \A i \in 1 .. Len(stack) : stack[i] \in Frame
      BY DEF IInv
    <3>. QED
      BY <3>1 DEF Frame
  <2>3. jumps \in {{}, {"break"}, {"continue"}, {"return"}}
    BY DEF IInv, SoundFlags
  <2>4. Cardinality(jumps) <= 1
    <3>1. \A f : Cardinality({f}) = 1
      BY FS_Singleton
    <3>2. Cardinality({}) = 0
      BY FS_EmptySet
    <3>3. Cardinality(jumps) \in {0, 1}
      BY <2>3, <3>1, <3>2
    <3>. QED
      BY <3>3
  <2>5. jumps \subseteq {"break", "continue", "return"}
    BY <2>3
  <2>. QED
    BY <2>1, <2>2, <2>4, <2>5 DEF TypeOK
<1>. QED
  BY <1>1, Invariant, PTL

(* A statement begins, a catch included, and an exception is on its way,   *)
(* with nothing requested but a return that exit() has asked for; and no   *)
(* break or continue is left when the body has ended.                      *)
THEOREM NothingStaysPending == Spec => []NothingPending
<1>1. IInv => NothingPending
  <2> SUFFICES ASSUME IInv PROVE NothingPending
    OBVIOUS
  <2>1. stack = <<>> => jumps \subseteq {"return"}
    <3>1. ~InLoop(kind, <<>>, Len(<<>>) + 1)
      BY DEF InLoop
    <3>. QED
      BY <3>1 DEF IInv, SoundFlags
  <2>2. throwing \/ (stack # <<>> /\ Top.at = "start") => Exiting(jumps, exited)
    BY Zenon DEF IInv, ExitInv
  <2>3. Exiting(jumps, exited) /\ jumps # {} => jumps = {"return"} /\ exited
    BY DEF Exiting
  <2>. QED
    BY <2>1, <2>2, <2>3, Zenon DEF NothingPending
<1>. QED
  BY <1>1, Invariant, PTL

-----------------------------------------------------------------------------
(* Structured jumps.  The places StructuredFlow jumps to, of a stack.      *)

Marks(kd, s, k, where) == {i \in 1 .. Len(s) : Marked(kd, s, i, k, where)}

Innermost(kd, s, k, where) ==
  LET S == Marks(kd, s, k, where)
  IN IF S = {} THEN 0 ELSE CHOOSE i \in S : \A j \in S : j <= i

AfterBreak(kd, s) == SubSeq(s, 1, Innermost(kd, s, "loop", "body") - 1)

AfterContinue(kd, s) ==
  LET i == Innermost(kd, s, "loop", "body")
  IN SubSeq(s, 1, i) \o <<[node |-> First[s[i].node], at |-> "start"]>>

AfterReturn(kd, s) ==
  LET i == Innermost(kd, s, "call", "body")
  IN IF i = 0 THEN <<>> ELSE SubSeq(s, 1, i - 1)

AfterThrow(kd, s) ==
  LET i == Innermost(kd, s, "try", "try")
  IN IF i = 0 THEN <<>>
     ELSE SubSeq(s, 1, i - 1) \o
            <<[node |-> s[i].node, at |-> "catch"], [node |-> Second[s[i].node], at |-> "start"]>>

Stops(kd, s, i) == Marked(kd, s, i, "try", "try") /\ kd[Second[s[i].node]] # "throw"

AfterExitAndThrow(kd, s) ==
  LET i == Innermost(kd, s, "call", "body")
  IN IF i = 0 \/ \E j \in i + 1 .. Len(s) : Stops(kd, s, j) THEN AfterReturn(kd, s)
     ELSE AfterThrow(kd, SubSeq(s, 1, i - 1))

LEMMA JumpsOf ==
  /\ Jumps(stack)!AfterBreak = AfterBreak(kind, stack)
  /\ Jumps(stack)!AfterContinue = AfterContinue(kind, stack)
  /\ Jumps(stack)!AfterReturn = AfterReturn(kind, stack)
  /\ Jumps(stack)!AfterThrow = AfterThrow(kind, stack)
  /\ Jumps(stack)!AfterExitAndThrow = AfterExitAndThrow(kind, stack)
<1>1. /\ Jumps(stack)!AfterBreak = AfterBreak(kind, stack)
      /\ Jumps(stack)!AfterContinue = AfterContinue(kind, stack)
      /\ Jumps(stack)!AfterReturn = AfterReturn(kind, stack)
      /\ \A s : Jumps(stack)!Thrown(s) = AfterThrow(kind, s)
  BY DEF Jumps!AfterBreak, Jumps!AfterContinue, Jumps!AfterReturn, Jumps!Thrown,
         Jumps!Innermost, Jumps!Below, Jumps!At,
         AfterBreak, AfterContinue, AfterReturn, AfterThrow, Innermost, Marks, Marked
<1>2. Jumps(stack)!AfterThrow = AfterThrow(kind, stack)
  BY <1>1 DEF Jumps!AfterThrow
<1>3. Jumps(stack)!AfterExitAndThrow = AfterExitAndThrow(kind, stack)
  <2>1. Jumps(stack)!Innermost(stack, "call", "body") = Innermost(kind, stack, "call", "body")
    BY DEF Jumps!Innermost, Innermost, Marks, Marked
  <2>2. \A i : Jumps(stack)!Stops(i) <=> Stops(kind, stack, i)
    BY DEF Jumps!Stops, Stops, Marked
  <2>3. \A i : Jumps(stack)!Thrown(Jumps(stack)!Below(i)) = AfterThrow(kind, SubSeq(stack, 1, i - 1))
    BY <1>1 DEF Jumps!Below
  <2>. QED
    BY <1>1, <2>1, <2>2, <2>3 DEF Jumps!AfterExitAndThrow, AfterExitAndThrow
<1>. QED
  BY <1>1, <1>2, <1>3

(* What the flags and an exception on its way stand for. *)
JumpAhead ==
  /\ jumps = {"break"} => Structured = AfterBreak(kind, stack)
  /\ jumps = {"continue"} => Structured = AfterContinue(kind, stack)
  /\ jumps = {"return"} /\ ~AboutToThrow => Structured = AfterReturn(kind, stack)
  /\ jumps = {"return"} /\ AboutToThrow => Structured = AfterExitAndThrow(kind, stack)
  /\ jumps = {} /\ throwing => Structured = AfterThrow(kind, stack)
  /\ jumps = {} /\ ~throwing => Structured = stack

LEMMA StructuredIs == IInv => JumpAhead
<1> SUFFICES ASSUME IInv PROVE JumpAhead
  OBVIOUS
<1>1. jumps \in {{}, {"break"}, {"continue"}, {"return"}}
  BY DEF IInv, SoundFlags
<1>. QED
  BY <1>1, JumpsOf DEF Structured, JumpAhead

LEMMA StructuredIsNext == IInv' => JumpAhead'
BY StructuredIs, PTL

LEMMA GreatestMark ==
  ASSUME NEW n \in Nat, NEW S, S \subseteq 1 .. n, S # {}
  PROVE  \E i \in S : \A j \in S : j <= i
<1>. DEFINE D == {d \in 0 .. n : n - d \in S}
<1>1. D \subseteq Nat
  OBVIOUS
<1>2. \E d \in Nat : d \in D
  <2>1. PICK i \in S : TRUE
    BY Zenon
  <2>2. i \in Nat /\ i <= n
    OBVIOUS
  <2>3. n - i \in 0 .. n /\ n - (n - i) = i
    BY <2>2
  <2>4. n - i \in D
    BY <2>1, <2>3, Zenon
  <2>. QED
    BY <2>3, <2>4
<1>3. \A j \in S : n - j \in D
  OBVIOUS
<1>. HIDE DEF D
<1>4. PICK d \in D : \A c \in D : <<c, d>> \notin OpToRel(<, Nat)
  <2>1. D # {}
    BY <1>2, Zenon
  <2>. QED
    BY <1>1, <2>1, NatLessThanWellFounded, WFMin
<1>5. \A c \in D : ~(c < d)
  BY <1>1, <1>4 DEF OpToRel
<1>6. ASSUME NEW j \in S PROVE j <= n - d
  <2>1. n - j \in D /\ j \in 1 .. n /\ d \in Nat
    BY <1>1, <1>3
  <2>. QED
    BY <1>5, <2>1
<1>7. n - d \in S
  BY DEF D
<1>. QED
  BY <1>6, <1>7

LEMMA InnermostFacts ==
  ASSUME NEW S, NEW s \in Seq(S), NEW kd, NEW k, NEW where
  PROVE  \/ Innermost(kd, s, k, where) = 0 /\ Marks(kd, s, k, where) = {}
         \/ /\ Innermost(kd, s, k, where) \in 1 .. Len(s)
            /\ Innermost(kd, s, k, where) \in Marks(kd, s, k, where)
            /\ \A j \in Marks(kd, s, k, where) : j <= Innermost(kd, s, k, where)
<1>. DEFINE M == Marks(kd, s, k, where)
<1>1. CASE M = {}
  BY <1>1 DEF Innermost
<1>2. CASE M # {}
  <2>1. M \subseteq 1 .. Len(s) /\ Len(s) \in Nat
    BY DEF Marks
  <2>2. \E i \in M : \A j \in M : j <= i
    BY <1>2, <2>1, GreatestMark
  <2>3. Innermost(kd, s, k, where) = CHOOSE i \in M : \A j \in M : j <= i
    BY <1>2 DEF Innermost
  <2>. HIDE DEF M
  <2>4. Innermost(kd, s, k, where) \in M /\ \A j \in M : j <= Innermost(kd, s, k, where)
    BY <2>2, <2>3
  <2>. QED
    BY <2>1, <2>4 DEF M
<1>. QED
  BY <1>1, <1>2

LEMMA Shortened ==
  ASSUME NEW S, NEW s \in Seq(S), s # <<>>
  PROVE  /\ Len(s) \in Nat \ {0}
         /\ SubSeq(s, 1, Len(s) - 1) \in Seq(S)
         /\ Len(SubSeq(s, 1, Len(s) - 1)) = Len(s) - 1
         /\ \A i \in 1 .. Len(s) - 1 : SubSeq(s, 1, Len(s) - 1)[i] = s[i]
<1>1. Len(s) \in Nat \ {0} /\ \A i \in 1 .. Len(s) - 1 : s[i] \in S
  BY EmptySeq
<1>. DEFINE n == Len(s) - 1
<1>2. 1 \in Int /\ n \in Int /\ n \in Nat /\ \A i \in 1 .. n : s[i] \in S
  BY <1>1
<1>. HIDE DEF n
<1>3. /\ SubSeq(s, 1, n) \in Seq(S)
      /\ Len(SubSeq(s, 1, n)) = IF 1 <= n THEN n - 1 + 1 ELSE 0
      /\ \A i \in 1 .. n - 1 + 1 : SubSeq(s, 1, n)[i] = s[1 + i - 1]
  BY <1>2, SubSeqProperties
<1>4. Len(SubSeq(s, 1, n)) = n
  BY <1>2, <1>3
<1>5. ASSUME NEW i \in 1 .. n PROVE SubSeq(s, 1, n)[i] = s[i]
  <2>1. i \in 1 .. n - 1 + 1 /\ 1 + i - 1 = i
    BY <1>2
  <2>. QED
    BY <1>3, <2>1
<1>. QED
  BY <1>1, <1>3, <1>4, <1>5 DEF n

(* A call that is no mark may be left without changing what is innermost.  *)
LEMMA InnermostBelow ==
  ASSUME NEW S, NEW s \in Seq(S), s # <<>>, NEW kd, NEW k, NEW where,
         ~Marked(kd, s, Len(s), k, where)
  PROVE  Innermost(kd, SubSeq(s, 1, Len(s) - 1), k, where) = Innermost(kd, s, k, where)
<1>. DEFINE t == SubSeq(s, 1, Len(s) - 1)
<1>1. /\ Len(s) \in Nat \ {0} /\ Len(t) = Len(s) - 1
      /\ \A i \in 1 .. Len(s) - 1 : t[i] = s[i]
  BY Shortened
<1>. HIDE DEF t
<1>2. \A i \in 1 .. Len(s) - 1 : Marked(kd, t, i, k, where) <=> Marked(kd, s, i, k, where)
  BY <1>1 DEF Marked
<1>3. Marks(kd, t, k, where) = Marks(kd, s, k, where)
  BY <1>1, <1>2 DEF Marks
<1>4. Innermost(kd, t, k, where) = Innermost(kd, s, k, where)
  BY <1>3 DEF Innermost
<1>. QED
  BY <1>4 DEF t

LEMMA InnermostTop ==
  ASSUME NEW S, NEW s \in Seq(S), s # <<>>, NEW kd, NEW k, NEW where,
         Marked(kd, s, Len(s), k, where)
  PROVE  Innermost(kd, s, k, where) = Len(s)
<1>1. Len(s) \in Marks(kd, s, k, where) /\ Len(s) \in Nat
  BY DEF Marks
<1>. QED
  BY <1>1, InnermostFacts

LEMMA Prefixes ==
  ASSUME NEW S, NEW s \in Seq(S), NEW n \in Nat, n <= Len(s), NEW i \in 0 .. n
  PROVE  SubSeq(SubSeq(s, 1, n), 1, i) = SubSeq(s, 1, i)
OBVIOUS

(* Leaving a call that is not where a jump goes to does not change where. *)
LEMMA SameJumps ==
  ASSUME NEW s \in Seq(Frame), s # <<>>, NEW kd
  PROVE  LET t == SubSeq(s, 1, Len(s) - 1) IN
         /\ ~Marked(kd, s, Len(s), "loop", "body") => AfterBreak(kd, t) = AfterBreak(kd, s)
         /\ ~Marked(kd, s, Len(s), "loop", "body") /\ Marks(kd, s, "loop", "body") # {} =>
              AfterContinue(kd, t) = AfterContinue(kd, s)
         /\ ~Marked(kd, s, Len(s), "call", "body") => AfterReturn(kd, t) = AfterReturn(kd, s)
         /\ ~Marked(kd, s, Len(s), "try", "try") => AfterThrow(kd, t) = AfterThrow(kd, s)
         /\ ~Marked(kd, s, Len(s), "call", "body") /\ ~Stops(kd, s, Len(s)) =>
              AfterExitAndThrow(kd, t) = AfterExitAndThrow(kd, s)
<1>. DEFINE t == SubSeq(s, 1, Len(s) - 1)
            i(k, where) == Innermost(kd, s, k, where)
<1>1. ASSUME NEW k, NEW where, ~Marked(kd, s, Len(s), k, where)
      PROVE  /\ Innermost(kd, t, k, where) = i(k, where)
             /\ SubSeq(t, 1, i(k, where)) = SubSeq(s, 1, i(k, where))
             /\ SubSeq(t, 1, i(k, where) - 1) = SubSeq(s, 1, i(k, where) - 1)
             /\ i(k, where) # 0 => t[i(k, where)] = s[i(k, where)]
  <2>. DEFINE l == i(k, where)
  <2>1. Innermost(kd, t, k, where) = l
    BY <1>1, InnermostBelow
  <2>2. /\ t \in Seq(Frame) /\ Len(t) = Len(s) - 1 /\ Len(s) \in Nat \ {0}
        /\ \A j \in 1 .. Len(s) - 1 : t[j] = s[j]
    BY Shortened
  <2>3. l = 0 \/ l \in 1 .. Len(t)
    BY <2>1, <2>2, InnermostFacts
  <2>. HIDE DEF l
  <2>4. l # 0 => t[l] = s[l]
    BY <2>2, <2>3
  <2>5. SubSeq(t, 1, l) = SubSeq(s, 1, l)
    BY <2>2, <2>3, Prefixes
  <2>6. SubSeq(t, 1, l - 1) = SubSeq(s, 1, l - 1)
    <3>1. CASE l = 0
      <4>1. l - 1 \in Int /\ l - 1 < 1
        BY <3>1
      <4>. QED
        BY <4>1, SubSeqEmpty
    <3>2. CASE l # 0
      <4>1. l - 1 \in 0 .. Len(s) - 1 /\ Len(s) - 1 \in Nat /\ Len(s) - 1 <= Len(s)
        BY <2>2, <2>3, <3>2
      <4>. QED
        BY <4>1, Prefixes
    <3>. QED
      BY <3>1, <3>2
  <2>. QED
    BY <2>1, <2>4, <2>5, <2>6 DEF l
<1>2. ASSUME Marks(kd, s, "loop", "body") # {} PROVE i("loop", "body") # 0
  <2>1. i("loop", "body") \in Marks(kd, s, "loop", "body")
    BY <1>2, InnermostFacts
  <2>. QED
    BY <2>1 DEF Marks
<1>. HIDE DEF t
<1>3. ~Marked(kd, s, Len(s), "loop", "body") => AfterBreak(kd, t) = AfterBreak(kd, s)
  BY <1>1 DEF AfterBreak
<1>4. ~Marked(kd, s, Len(s), "loop", "body") /\ Marks(kd, s, "loop", "body") # {} =>
        AfterContinue(kd, t) = AfterContinue(kd, s)
  BY <1>1, <1>2 DEF AfterContinue
<1>5. ~Marked(kd, s, Len(s), "call", "body") => AfterReturn(kd, t) = AfterReturn(kd, s)
  BY <1>1 DEF AfterReturn
<1>6. ~Marked(kd, s, Len(s), "try", "try") => AfterThrow(kd, t) = AfterThrow(kd, s)
  BY <1>1 DEF AfterThrow
<1>7. ASSUME ~Marked(kd, s, Len(s), "call", "body"), ~Stops(kd, s, Len(s))
      PROVE  AfterExitAndThrow(kd, t) = AfterExitAndThrow(kd, s)
  <2>. DEFINE c == i("call", "body")
  <2>1. /\ Innermost(kd, t, "call", "body") = c
        /\ SubSeq(t, 1, c - 1) = SubSeq(s, 1, c - 1)
        /\ AfterReturn(kd, t) = AfterReturn(kd, s)
    BY <1>1, <1>5, <1>7
  <2>2. /\ Len(t) = Len(s) - 1 /\ Len(s) \in Nat \ {0}
        /\ \A j \in 1 .. Len(s) - 1 : t[j] = s[j]
    BY Shortened DEF t
  <2>3. c \in Nat
    BY InnermostFacts
  <2>. HIDE DEF c, i
  <2>4. \A j \in c + 1 .. Len(t) : Stops(kd, t, j) <=> Stops(kd, s, j)
    BY <2>2, <2>3 DEF Stops, Marked
  <2>5. \A j \in c + 1 .. Len(s) : j \in c + 1 .. Len(t) \/ j = Len(s)
    BY <2>2, <2>3
  <2>6. \A j \in c + 1 .. Len(t) : j \in c + 1 .. Len(s)
    BY <2>2, <2>3
  <2>7. (\E j \in c + 1 .. Len(t) : Stops(kd, t, j)) <=> (\E j \in c + 1 .. Len(s) : Stops(kd, s, j))
    BY <1>7, <2>4, <2>5, <2>6, Zenon
  <2>8. Innermost(kd, s, "call", "body") = c
    BY DEF c, i
  <2>. QED
    BY <2>1, <2>7, <2>8, Zenon DEF AfterExitAndThrow
<1>. QED
  BY <1>3, <1>4, <1>5, <1>6, <1>7 DEF t

(* A jump to the call on top. *)
LEMMA TopJumps ==
  ASSUME stack \in Seq(Frame), stack # <<>>
  PROVE  /\ Marked(kind, stack, Len(stack), "loop", "body") =>
              /\ AfterBreak(kind, stack) = Popped
              /\ AfterContinue(kind, stack) = Pushed(First[Top.node], "body")
         /\ Marked(kind, stack, Len(stack), "call", "body") => AfterReturn(kind, stack) = Popped
         /\ Marked(kind, stack, Len(stack), "try", "try") =>
              AfterThrow(kind, stack) = Pushed(Second[Top.node], "catch")
<1>1. /\ Len(stack) \in Nat \ {0} /\ Top \in Frame
      /\ Popped \in Seq(Frame) /\ Len(Popped) = Len(stack) - 1
      /\ \A i \in 1 .. Len(stack) - 1 : Popped[i] = stack[i]
  BY PoppedFacts
<1>2. \A k, where : Marked(kind, stack, Len(stack), k, where) =>
                      Innermost(kind, stack, k, where) = Len(stack)
  BY InnermostTop
<1>3. ASSUME Marked(kind, stack, Len(stack), "loop", "body") PROVE AfterBreak(kind, stack) = Popped
  BY <1>2, <1>3 DEF AfterBreak, Popped
<1>4. ASSUME Marked(kind, stack, Len(stack), "loop", "body")
      PROVE  AfterContinue(kind, stack) = Pushed(First[Top.node], "body")
  <2>1. Top = [node |-> Top.node, at |-> "body"]
    BY <1>1, <1>4 DEF Marked, Top, Frame
  <2>2. AfterContinue(kind, stack)
          = SubSeq(stack, 1, Len(stack)) \o <<[node |-> First[Top.node], at |-> "start"]>>
    BY <1>2, <1>4 DEF AfterContinue, Top
  <2>3. SubSeq(stack, 1, Len(stack)) = stack
    BY SubSeqFull
  <2>4. Append(Popped, Top) = stack
    BY <1>1 DEF Top
  <2>. DEFINE new == [node |-> First[Top.node], at |-> "start"]
  <2>5. Pushed(First[Top.node], "body") = Append(stack, new)
    BY <2>1, <2>4, Zenon DEF Pushed, Moved
  <2>6. AfterContinue(kind, stack) = stack \o <<new>>
    BY <2>2, <2>3, Zenon
  <2>7. stack \o <<new>> = Append(stack, new)
    <3>. HIDE DEF new
    <3>1. stack \in Seq(Frame \cup {new})
      OBVIOUS
    <3>. QED
      BY <3>1
  <2>. QED
    BY <2>5, <2>6, <2>7, Zenon
<1>5. ASSUME Marked(kind, stack, Len(stack), "call", "body") PROVE AfterReturn(kind, stack) = Popped
  BY <1>1, <1>2, <1>5 DEF AfterReturn, Popped
<1>6. ASSUME Marked(kind, stack, Len(stack), "try", "try")
      PROVE  AfterThrow(kind, stack) = Pushed(Second[Top.node], "catch")
  <2>. DEFINE top == [node |-> Top.node, at |-> "catch"]
              new == [node |-> Second[Top.node], at |-> "start"]
  <2>1. Innermost(kind, stack, "try", "try") = Len(stack) /\ Len(stack) # 0
    BY <1>1, <1>2, <1>6
  <2>2. AfterThrow(kind, stack) = Popped \o <<top, new>>
    BY <2>1, Zenon DEF AfterThrow, Popped, Top
  <2>3. Pushed(Second[Top.node], "catch") = Append(Append(Popped, top), new)
    BY Zenon DEF Pushed, Moved
  <2>4. Popped \o <<top, new>> = Append(Append(Popped, top), new)
    <3>. HIDE DEF top, new
    <3>. DEFINE E == Frame \cup {top, new}
    <3>1. Popped \in Seq(E) /\ top \in E /\ new \in E
      BY <1>1
    <3>. HIDE DEF E
    <3>. QED
      BY <3>1
  <2>. QED
    BY <2>2, <2>3, <2>4, Zenon
<1>. QED
  BY <1>3, <1>4, <1>5, <1>6

(* A jump out of a function by one that is called on top. *)
LEMMA TopCall ==
  ASSUME NEW s \in Seq(Frame), s # <<>>, NEW kd, Marked(kd, s, Len(s), "call", "body")
  PROVE  LET t == SubSeq(s, 1, Len(s) - 1) IN
         AfterReturn(kd, s) = t /\ AfterExitAndThrow(kd, s) = AfterThrow(kd, t)
<1>1. Innermost(kd, s, "call", "body") = Len(s)
  BY InnermostTop
<1>2. Len(s) \in Nat \ {0} /\ Len(s) + 1 .. Len(s) = {}
  BY Shortened
<1>3. Len(s) # 0 /\ ~\E j \in Len(s) + 1 .. Len(s) : Stops(kd, s, j)
  BY <1>2
<1>. QED
  BY <1>1, <1>3, Zenon DEF AfterReturn, AfterExitAndThrow

(* A try whose catch does nothing ends the exception, not the return. *)
LEMMA TopStops ==
  ASSUME NEW s \in Seq(Frame), s # <<>>, NEW kd, Stops(kd, s, Len(s))
  PROVE  AfterExitAndThrow(kd, s) = AfterReturn(kd, s)
<1>. DEFINE c == Innermost(kd, s, "call", "body")
<1>1. Len(s) \in Nat \ {0}
  BY Shortened
<1>2. ~Marked(kd, s, Len(s), "call", "body")
  BY DEF Stops, Marked
<1>3. c = 0 \/ (c \in 1 .. Len(s) /\ Marked(kd, s, c, "call", "body"))
  BY InnermostFacts DEF Marks
<1>. HIDE DEF c
<1>4. c = 0 \/ Len(s) \in c + 1 .. Len(s)
  BY <1>1, <1>2, <1>3
<1>5. c = 0 \/ \E j \in c + 1 .. Len(s) : Stops(kd, s, j)
  BY <1>4, Zenon
<1>. QED
  BY <1>5, Zenon DEF AfterExitAndThrow, c

(* Executing another statement does not change where they go, unless it is *)
(* the call of a function.                                                 *)
LEMMA PushedJumps ==
  ASSUME stack \in Seq(Frame), stack # <<>>, NEW n \in Nodes, NEW where \in Places
  PROVE  /\ kind[Top.node] = "call" /\ where = "body" =>
              /\ AfterReturn(kind, Pushed(n, where)) = Popped
              /\ AfterExitAndThrow(kind, Pushed(n, where)) = AfterThrow(kind, Popped)
         /\ kind[Top.node] # "call" =>
              AfterReturn(kind, Pushed(n, where)) = AfterReturn(kind, stack)
         /\ kind[Top.node] # "call" /\ (kind[Top.node] = "try" => kind[Second[Top.node]] = "throw") =>
              AfterExitAndThrow(kind, Pushed(n, where)) = AfterExitAndThrow(kind, stack)
<1>. DEFINE top == [node |-> Top.node, at |-> where]
            new == [node |-> n, at |-> "start"]
            m == Moved(where)
            s == Pushed(n, where)
<1>1. /\ Len(stack) \in Nat \ {0} /\ Top \in Frame
      /\ Popped \in Seq(Frame) /\ Len(Popped) = Len(stack) - 1
  BY PoppedFacts
<1>2. top \in Frame /\ new \in Frame /\ m = Append(Popped, top) /\ s = Append(m, new)
  BY <1>1 DEF Frame, Places, Moved, Pushed
<1>. HIDE DEF top, new, m, s
<1>3. /\ m \in Seq(Frame) /\ m # <<>> /\ SubSeq(m, 1, Len(m) - 1) = Popped /\ m[Len(m)] = top
  BY <1>1, <1>2
<1>4. /\ s \in Seq(Frame) /\ s # <<>> /\ SubSeq(s, 1, Len(s) - 1) = m /\ s[Len(s)] = new
  BY <1>2, <1>3
<1>5. /\ ~Marked(kind, s, Len(s), "call", "body") /\ ~Stops(kind, s, Len(s))
  BY <1>4 DEF Marked, Stops, new
<1>6. AfterReturn(kind, s) = AfterReturn(kind, m) /\ AfterExitAndThrow(kind, s) = AfterExitAndThrow(kind, m)
  BY <1>4, <1>5, SameJumps
<1>7. ASSUME kind[Top.node] = "call", where = "body"
      PROVE  AfterReturn(kind, s) = Popped /\ AfterExitAndThrow(kind, s) = AfterThrow(kind, Popped)
  <2>1. Marked(kind, m, Len(m), "call", "body")
    BY <1>3, <1>7 DEF Marked, top
  <2>. QED
    BY <1>3, <1>6, <2>1, TopCall
<1>8. SubSeq(stack, 1, Len(stack) - 1) = Popped /\ stack[Len(stack)] = Top
  BY DEF Popped, Top
<1>9. ASSUME kind[Top.node] # "call" PROVE AfterReturn(kind, s) = AfterReturn(kind, stack)
  <2>1. ~Marked(kind, m, Len(m), "call", "body") /\ ~Marked(kind, stack, Len(stack), "call", "body")
    BY <1>3, <1>8, <1>9 DEF Marked, top
  <2>. QED
    BY <1>3, <1>6, <1>8, <2>1, SameJumps
<1>10. ASSUME kind[Top.node] # "call", kind[Top.node] = "try" => kind[Second[Top.node]] = "throw"
       PROVE  AfterExitAndThrow(kind, s) = AfterExitAndThrow(kind, stack)
  <2>1. ~Marked(kind, m, Len(m), "call", "body") /\ ~Marked(kind, stack, Len(stack), "call", "body")
    BY <1>3, <1>8, <1>10 DEF Marked, top
  <2>2. ~Stops(kind, m, Len(m)) /\ ~Stops(kind, stack, Len(stack))
    BY <1>3, <1>8, <1>10 DEF Stops, Marked, top
  <2>. QED
    BY <1>3, <1>6, <1>8, <2>1, <2>2, SameJumps
<1>. QED
  BY <1>7, <1>9, <1>10 DEF s
-----------------------------------------------------------------------------
(* The steps, as StructuredFlow sees them. *)

LEMMA FlowView ==
  ASSUME Structured = stack
  PROVE  /\ \A k, where : Flow!Running(k, where) <=>
                           stack # <<>> /\ kind[Top.node] = k /\ Top.at = where
         /\ \A n, where : Flow!Pushed(n, where) = Pushed(n, where)
         /\ Flow!Popped = Popped /\ Flow!Top = Top
         /\ Flow!AfterBreak = AfterBreak(kind, stack)
         /\ Flow!AfterContinue = AfterContinue(kind, stack)
         /\ Flow!AfterReturn = AfterReturn(kind, stack)
         /\ Flow!AfterThrow = AfterThrow(kind, stack)
         /\ Flow!AfterExitAndThrow = AfterExitAndThrow(kind, stack)
<1>1. Flow!Popped = Popped /\ Flow!Top = Top
  BY DEF Flow!Popped, Flow!Below, Flow!Top, Popped, Top
<1>2. \A k, where : Flow!Running(k, where) <=>
                      stack # <<>> /\ kind[Top.node] = k /\ Top.at = where
  BY <1>1 DEF Flow!Running
<1>3. \A n, where : Flow!Pushed(n, where) = Pushed(n, where)
  BY <1>1 DEF Flow!Pushed, Flow!Moved, Flow!At, Pushed, Moved
<1>4. /\ Flow!AfterBreak = AfterBreak(kind, stack)
      /\ Flow!AfterContinue = AfterContinue(kind, stack)
      /\ Flow!AfterReturn = AfterReturn(kind, stack)
      /\ \A s : Flow!Thrown(s) = AfterThrow(kind, s)
  BY DEF Flow!AfterBreak, Flow!AfterContinue, Flow!AfterReturn, Flow!Thrown,
         Flow!Innermost, Flow!Below, Flow!At,
         AfterBreak, AfterContinue, AfterReturn, AfterThrow, Innermost, Marks, Marked
<1>5. Flow!AfterThrow = AfterThrow(kind, stack)
  BY <1>4 DEF Flow!AfterThrow
<1>6. Flow!AfterExitAndThrow = AfterExitAndThrow(kind, stack)
  <2>1. Flow!Innermost(stack, "call", "body") = Innermost(kind, stack, "call", "body")
    BY DEF Flow!Innermost, Innermost, Marks, Marked
  <2>2. \A i : Flow!Stops(i) <=> Stops(kind, stack, i)
    BY DEF Flow!Stops, Stops, Marked
  <2>3. \A i : Flow!Thrown(Flow!Below(i)) = AfterThrow(kind, SubSeq(stack, 1, i - 1))
    BY <1>4 DEF Flow!Below
  <2>. QED
    BY <1>4, <2>1, <2>2, <2>3 DEF Flow!AfterExitAndThrow, AfterExitAndThrow
<1>. QED
  BY <1>1, <1>2, <1>3, <1>4, <1>5, <1>6

(* The statement below the one that is left is not about to begin. *)
LEMMA Settled ==
  ASSUME IInv, stack # <<>>, stack' = Popped, kind' = kind, ~throwing'
  PROVE  ~AboutToThrow'
<1>1. Popped # <<>> => Popped[Len(Popped)].at # "start"
  BY PopCalls DEF IInv
<1>. QED
  BY <1>1 DEF AboutToThrow, Top

LEMMA Begun ==
  ASSUME IInv, stack # <<>>, NEW n \in Nodes, NEW where \in Places,
         stack' = Pushed(n, where), kind' = kind, ~throwing'
  PROVE  AboutToThrow' <=> kind[n] = "throw"
<1>1. /\ Len(stack) \in Nat \ {0} /\ Len(stack') = Len(stack) + 1
      /\ stack'[Len(stack) + 1] = [node |-> n, at |-> "start"]
  BY PushedFacts, PoppedFacts DEF IInv
<1>2. stack' # <<>> /\ Top' = [node |-> n, at |-> "start"]
  BY <1>1 DEF Top
<1>. QED
  BY <1>2 DEF AboutToThrow

(* A step of a cell in which nothing is pending: the abstract step does the *)
(* same, or a jump begins.                                                  *)
LEMMA PlainStep ==
  ASSUME IInv, IInv', ~throwing, jumps = {}, NEW s, Steps(s) \/ (Goes(s) /\ jumps' = {})
  PROVE  Structured = stack /\ Structured' = s
BY StructuredIs, StructuredIsNext DEF JumpAhead, Goes, Steps, flags

(* What an evaluation leaves of the flags. *)
LEMMA Asked ==
  ASSUME jumps = {}, Evaluates
  PROVE  jumps' = {} \/ jumps' = {"return"}
BY DEF Evaluates, ReturnAsked, flags

LEMMA ThrowStep ==
  ASSUME IInv, IInv', ~throwing, jumps = {}, Throws
  PROVE  Structured = stack /\ Flow!Throws
<1>1. Structured = stack
  BY StructuredIs DEF JumpAhead
<1>2. throwing' /\ AboutToThrow' /\ kind' = kind /\ stack' = stack
  BY DEF Throws, AboutToThrow
<1>3. jumps' = {} \/ jumps' = {"return"}
  BY Asked DEF Throws
<1>4. Structured' = AfterThrow(kind, stack) \/ Structured' = AfterExitAndThrow(kind, stack)
  BY <1>2, <1>3, StructuredIsNext DEF JumpAhead
<1>. QED
  BY <1>1, <1>4, FlowView DEF Flow!Throws

(* A return that is requested as a statement is left. *)
LEMMA ReturnStep ==
  ASSUME IInv, IInv', ~throwing', stack # <<>>, stack' = Popped, kind' = kind,
         jumps' = {"return"}, ~Marked(kind, stack, Len(stack), "call", "body")
  PROVE  Structured' = AfterReturn(kind, stack)
<1>1. Structured' = AfterReturn(kind, Popped)
  BY Settled, StructuredIsNext DEF JumpAhead
<1>. QED
  BY <1>1, SameJumps DEF Popped, IInv

(* A return that exit() requests before another statement is executed. *)
LEMMA ExitStep ==
  ASSUME IInv, IInv', ~throwing', stack # <<>>, NEW n \in Nodes, NEW where \in Places,
         kind[Top.node] \in {"if", "loop"}, stack' = Pushed(n, where), kind' = kind,
         jumps' = {"return"}
  PROVE  Structured' = IF kind[n] = "throw" THEN AfterExitAndThrow(kind, stack)
                       ELSE AfterReturn(kind, stack)
<1>1. Structured' = IF kind[n] = "throw" THEN AfterExitAndThrow(kind, Pushed(n, where))
                    ELSE AfterReturn(kind, Pushed(n, where))
  BY Begun, StructuredIsNext DEF JumpAhead
<1>. QED
  BY <1>1, PushedJumps DEF IInv

LEMMA JumpStep ==
  ASSUME IInv, IInv', ~throwing, ~throwing', jumps = {}, stack # <<>>, Top.at = "start",
         stack' = Popped, kind' = kind
  PROVE  /\ Structured = stack
         /\ jumps' = {"break"} => Structured' = AfterBreak(kind, stack)
         /\ jumps' = {"continue"} => Structured' = AfterContinue(kind, stack)
         /\ jumps' = {"return"} => Structured' = AfterReturn(kind, stack)
<1>1. Structured = stack
  BY StructuredIs DEF JumpAhead
<1>2. \A k : ~Marked(kind, stack, Len(stack), k, "body")
  BY DEF Marked, Top
<1>3. jumps' = {"break"} => Structured' = AfterBreak(kind, stack)
  BY <1>2, StructuredIsNext, SameJumps DEF JumpAhead, Popped, IInv
<1>4. jumps' = {"return"} => Structured' = AfterReturn(kind, stack)
  BY <1>2, ReturnStep
<1>5. ASSUME jumps' = {"continue"} PROVE Structured' = AfterContinue(kind, stack)
  <2>1. Marks(kind, stack, "loop", "body") # {}
    <3>1. stack' = SubSeq(stack, 1, Len(stack) - 1) /\ Len(stack') = Len(stack) - 1
          /\ Len(stack) \in Nat \ {0} /\ \A i \in 1 .. Len(stack) - 1 : stack'[i] = stack[i]
      BY PoppedFacts DEF IInv, Popped
    <3>2. InLoop(kind, stack', Len(stack') + 1)
      BY <1>5 DEF IInv, SoundFlags
    <3>. QED
      BY <3>1, <3>2 DEF InLoop, Marks, Marked
  <2>. QED
    BY <1>2, <1>5, <2>1, StructuredIsNext, SameJumps DEF JumpAhead, Popped, IInv
<1>. QED
  BY <1>1, <1>3, <1>4, <1>5

(* A jump or an exception passes through the call on top. *)
LEMMA PassingStep ==
  ASSUME IInv, IInv', stack # <<>>, stack' = Popped, UNCHANGED <<kind, jumps, throwing>>,
         \/ throwing /\ ~Caught /\ Exiting(jumps, exited)
         \/ /\ ~AboutToThrow /\ jumps # {}
            /\ jumps \in {{"break"}, {"continue"}} => ~Marked(kind, stack, Len(stack), "loop", "body"),
         jumps = {"return"} => ~Marked(kind, stack, Len(stack), "call", "body")
  PROVE  UNCHANGED <<kind, Structured>>
<1>1. CASE throwing /\ ~Caught /\ Exiting(jumps, exited)
  <2>1. /\ ~Marked(kind, stack, Len(stack), "try", "try")
        /\ ~Stops(kind, stack, Len(stack))
    BY <1>1 DEF Caught, Stops, Marked, Top
  <2>2. jumps \in {{}, {"return"}} /\ AboutToThrow /\ AboutToThrow'
    BY <1>1, ExitingFlags DEF AboutToThrow
  <2>3. CASE jumps = {}
    <3>1. AfterThrow(kind, Popped) = AfterThrow(kind, stack)
      BY <2>1, SameJumps DEF Popped, IInv
    <3>. QED
      BY <1>1, <2>3, <3>1, StructuredIs, StructuredIsNext DEF JumpAhead
  <2>4. CASE jumps = {"return"}
    <3>1. AfterExitAndThrow(kind, Popped) = AfterExitAndThrow(kind, stack)
      BY <2>1, <2>4, SameJumps DEF Popped, IInv
    <3>. QED
      BY <2>2, <2>4, <3>1, StructuredIs, StructuredIsNext DEF JumpAhead
  <2>. QED
    BY <2>2, <2>3, <2>4
<1>2. CASE /\ ~AboutToThrow /\ jumps # {}
           /\ jumps \in {{"break"}, {"continue"}} => ~Marked(kind, stack, Len(stack), "loop", "body")
  <2>1. jumps \in {{"break"}, {"continue"}, {"return"}} /\ ~throwing /\ ~throwing'
    BY <1>2 DEF IInv, SoundFlags, AboutToThrow
  <2>2. jumps = {"return"} => Structured' = AfterReturn(kind, stack)
    BY <2>1, ReturnStep
  <2>3. jumps = {"break"} => AfterBreak(kind, Popped) = AfterBreak(kind, stack)
    BY <1>2, SameJumps DEF Popped, IInv
  <2>4. ASSUME jumps = {"continue"} PROVE AfterContinue(kind, Popped) = AfterContinue(kind, stack)
    <3>1. InLoop(kind, stack, Len(stack) + 1) /\ Len(stack) \in Nat
      BY <2>4, TopFacts DEF IInv, SoundFlags
    <3>2. Marks(kind, stack, "loop", "body") # {}
      BY <3>1 DEF InLoop, Marks
    <3>. QED
      BY <1>2, <2>4, <3>2, SameJumps DEF Popped, IInv
  <2>. QED
    BY <1>2, <2>1, <2>2, <2>3, <2>4, StructuredIs, StructuredIsNext DEF JumpAhead
<1>. QED
  BY <1>1, <1>2

(* A jump reaches the call it is for. *)
LEMMA ArrivingStep ==
  ASSUME IInv, IInv', stack # <<>>, kind' = kind, ~throwing', jumps' = {},
         \/ /\ jumps = {"break"} /\ Marked(kind, stack, Len(stack), "loop", "body")
            /\ stack' = Popped
         \/ /\ jumps = {"continue"} /\ Marked(kind, stack, Len(stack), "loop", "body")
            /\ stack' = Pushed(First[Top.node], "body")
         \/ /\ jumps = {"return"} /\ Marked(kind, stack, Len(stack), "call", "body")
            /\ ~throwing /\ stack' = Popped
         \/ /\ throwing /\ jumps = {} /\ Caught /\ stack' = Pushed(Second[Top.node], "catch")
  PROVE  UNCHANGED <<kind, Structured>>
<1>1. Structured' = stack'
  BY StructuredIsNext DEF JumpAhead
<1>2. Structured = stack'
  <2>1. Caught => Marked(kind, stack, Len(stack), "try", "try")
    BY DEF Caught, Marked, Top
  <2>2. Marked(kind, stack, Len(stack), "call", "body") /\ ~throwing => ~AboutToThrow
    BY DEF Marked, AboutToThrow, Top
  <2>. QED
    BY <2>1, <2>2, StructuredIs, TopJumps DEF JumpAhead, IInv
<1>. QED
  BY <1>1, <1>2

-----------------------------------------------------------------------------
(* Every step is a step of StructuredFlow or leaves its state alone. *)

Refined == [Flow!Next]_<<kind, Structured>>

(* A statement that evaluates an expression and ends. *)
LEMMA EndsStep ==
  ASSUME IInv, IInv', stack # <<>>, ~throwing, jumps = {}, Goes(Popped), kind[Top.node] # "call"
  PROVE  Structured = stack /\ (Structured' = Popped \/ Structured' = AfterReturn(kind, stack))
<1>1. /\ stack' = Popped /\ kind' = kind /\ ~throwing' /\ (jumps' = {} \/ jumps' = {"return"})
  BY Asked DEF Goes
<1>2. ~Marked(kind, stack, Len(stack), "call", "body")
  BY DEF Marked, Top
<1>3. Structured = stack
  BY StructuredIs DEF JumpAhead
<1>. QED
  BY <1>1, <1>2, <1>3, PlainStep, ReturnStep

(* An if or a loop that evaluates its condition and executes a statement. *)
LEMMA ChoosesStep ==
  ASSUME IInv, IInv', stack # <<>>, ~throwing, jumps = {}, NEW n \in Nodes, NEW where \in Places,
         kind[Top.node] \in {"if", "loop"}, Goes(Pushed(n, where))
  PROVE  Structured = stack /\ (Structured' = Pushed(n, where) \/ Flow!ExitsBefore(n))
<1>1. /\ stack' = Pushed(n, where) /\ kind' = kind /\ ~throwing'
      /\ jumps' = {} \/ jumps' = {"return"}
  BY Asked DEF Goes
<1>2. Structured = stack
  BY StructuredIs DEF JumpAhead
<1>3. CASE jumps' = {}
  BY <1>2, <1>3, PlainStep
<1>4. CASE jumps' = {"return"}
  BY <1>1, <1>2, <1>4, ExitStep, FlowView DEF Flow!ExitsBefore
<1>. QED
  BY <1>1, <1>2, <1>3, <1>4

(* A throw that is reached with a return pending was on its way already. *)
LEMMA LateThrow ==
  ASSUME IInv, IInv', Throw, jumps = {"return"}
  PROVE  UNCHANGED <<kind, Structured>>
<1>1. AboutToThrow /\ AboutToThrow' /\ stack' = stack /\ kind' = kind
  BY DEF Throw, Throws, Running, AboutToThrow
<1>2. jumps' = {"return"}
  BY DEF Throw, Throws, Evaluates, ReturnAsked, flags
<1>. QED
  BY <1>1, <1>2, StructuredIs, StructuredIsNext DEF JumpAhead

LEMMA CallRefined ==
  ASSUME IInv, IInv', Call
  PROVE  Refined
<1>1. /\ stack # <<>> /\ ~throwing /\ jumps = {} /\ kind[Top.node] = "call" /\ Top.at = "start"
      /\ kind' = kind
  BY DEF Call, Starts, Running, some_jump_requested, Goes, Throws
<1>2. Structured = stack
  BY <1>1, StructuredIs DEF JumpAhead
<1>3. CASE Throws
  BY <1>1, <1>2, <1>3, ThrowStep, FlowView DEF Flow!Call, Flow!Next, Refined
<1>4. CASE Goes(Pushed(Function, "body"))
  <2>1. /\ stack' = Pushed(Function, "body") /\ ~throwing' /\ (jumps' = {} \/ jumps' = {"return"})
    BY <1>1, <1>4, Asked DEF Goes
  <2>2. Function \in Nodes /\ "body" \in Places
    BY StatementsAssumption DEF Places
  <2>3. CASE jumps' = {}
    <3>1. Structured' = Pushed(Function, "body")
      BY <1>1, <1>4, <2>3, PlainStep
    <3>. QED
      BY <1>1, <1>2, <3>1, FlowView DEF Flow!Call, Flow!Next, Refined
  <2>4. CASE jumps' = {"return"} /\ kind[Function] # "throw"
    <3>1. ~AboutToThrow'
      BY <1>1, <2>1, <2>2, <2>4, Begun
    <3>2. Structured' = Popped
      BY <1>1, <2>1, <2>2, <2>4, <3>1, StructuredIsNext, PushedJumps DEF JumpAhead, IInv
    <3>. QED
      BY <1>1, <1>2, <2>4, <3>2, FlowView DEF Flow!Call, Flow!Next, Refined
  <2>5. CASE jumps' = {"return"} /\ kind[Function] = "throw"
    <3>1. AboutToThrow'
      BY <1>1, <2>1, <2>2, <2>5, Begun
    <3>2. Structured' = AfterThrow(kind, Popped)
      BY <1>1, <2>1, <2>2, <2>5, <3>1, StructuredIsNext, PushedJumps DEF JumpAhead, IInv
    <3>3. ~Marked(kind, stack, Len(stack), "try", "try")
      BY <1>1 DEF Marked, Top
    <3>4. Structured' = AfterThrow(kind, stack)
      BY <1>1, <3>2, <3>3, SameJumps DEF Popped, IInv
    <3>. QED
      BY <1>1, <1>2, <3>4, FlowView DEF Flow!Call, Flow!Throws, Flow!Next, Refined
  <2>. QED
    BY <2>1, <2>3, <2>4, <2>5
<1>. QED
  BY <1>3, <1>4 DEF Call

LEMMA CallEndsRefined ==
  ASSUME IInv, IInv', CallEnds
  PROVE  Refined
<1>1. /\ stack # <<>> /\ ~throwing /\ ~throwing' /\ kind' = kind /\ stack' = Popped
      /\ kind[Top.node] = "call" /\ Top.at = "body" /\ jumps' = jumps \ {"return"}
      /\ Marked(kind, stack, Len(stack), "call", "body")
  BY DEF CallEnds, Running, ReturnCleared, Marked, Top
<1>2. jumps \in {{}, {"return"}} /\ jumps' = {}
  BY <1>1, Pending DEF Marked
<1>3. CASE jumps = {}
  <2>1. Structured = stack /\ Structured' = Popped
    BY <1>1, <1>2, <1>3, StructuredIs, StructuredIsNext DEF JumpAhead
  <2>. QED
    BY <1>1, <2>1, FlowView DEF Flow!Call, Flow!Next, Refined
<1>4. CASE jumps = {"return"}
  BY <1>1, <1>2, <1>4, ArrivingStep DEF Refined
<1>. QED
  BY <1>2, <1>3, <1>4

LEMMA SimpleRefined ==
  ASSUME IInv, IInv', Do \/ Throw \/ Break \/ Continue \/ Return
  PROVE  Refined
<1>. USE DEF Starts, Running, some_jump_requested
<1>1. CASE Do
  <2>1. /\ Structured = stack /\ kind' = kind
        /\ Structured' = Popped \/ Structured' = AfterReturn(kind, stack) \/ Flow!Throws
    BY <1>1, EndsStep, ThrowStep DEF Do, Goes, Throws
  <2>. QED
    BY <1>1, <2>1, FlowView DEF Do, Flow!Do, Flow!Exits, Flow!Next, Refined
<1>2. CASE Throw
  <2>1. jumps = {} \/ jumps = {"return"}
    BY <1>2, TopFacts DEF Throw, Exiting
  <2>2. CASE jumps = {}
    <3>1. Structured = stack /\ Flow!Throws /\ kind' = kind
      BY <1>2, <2>2, ThrowStep DEF Throw, Throws
    <3>. QED
      BY <1>2, <3>1, FlowView DEF Throw, Flow!Throw, Flow!Next, Refined
  <2>3. CASE jumps = {"return"}
    BY <1>2, <2>3, LateThrow DEF Refined
  <2>. QED
    BY <2>1, <2>2, <2>3
<1>3. CASE Break
  <2>1. jumps' = {"break"} /\ kind' = kind
    BY <1>3 DEF Break
  <2>2. Structured = stack /\ Structured' = AfterBreak(kind, stack)
    BY <1>3, <2>1, JumpStep DEF Break
  <2>. QED
    BY <1>3, <2>1, <2>2, FlowView DEF Break, Flow!Break, Flow!Next, Refined
<1>4. CASE Continue
  <2>1. jumps' = {"continue"} /\ kind' = kind
    BY <1>4 DEF Continue
  <2>2. Structured = stack /\ Structured' = AfterContinue(kind, stack)
    BY <1>4, <2>1, JumpStep DEF Continue
  <2>. QED
    BY <1>4, <2>1, <2>2, FlowView DEF Continue, Flow!Continue, Flow!Next, Refined
<1>5. CASE Return
  <2>1. Structured = stack /\ (Structured' = AfterReturn(kind, stack) \/ Flow!Throws) /\ kind' = kind
    <3>1. CASE Throws
      BY <1>5, <3>1, ThrowStep DEF Return, Throws
    <3>2. ASSUME jumps' = ReturnAsked, stack' = Popped, UNCHANGED <<kind, exited, throwing>>
          PROVE  Structured = stack /\ Structured' = AfterReturn(kind, stack) /\ kind' = kind
      <4>1. jumps' = {"return"}
        BY <1>5, <3>2 DEF Return, ReturnAsked
      <4>. QED
        BY <1>5, <3>2, <4>1, JumpStep DEF Return
    <3>. QED
      BY <1>5, <3>1, <3>2 DEF Return
  <2>. QED
    BY <1>5, <2>1, FlowView DEF Return, Flow!Return, Flow!Next, Refined
<1>. QED
  BY <1>1, <1>2, <1>3, <1>4, <1>5

LEMMA CompoundRefined ==
  ASSUME IInv, IInv', Compound \/ If \/ TryCatch
  PROVE  Refined
<1>. USE DEF Starts, Running, some_jump_requested
<1>1. CASE Compound
  <2>1. /\ Structured = stack /\ kind' = kind
        /\ \/ Top.at = "start" /\ Structured' = Pushed(First[Top.node], "first")
           \/ Top.at = "first" /\ Structured' = Pushed(Second[Top.node], "second")
    BY <1>1, PlainStep DEF Compound, Steps
  <2>. QED
    BY <1>1, <2>1, FlowView DEF Compound, Flow!Compound, Flow!Next, Refined
<1>2. CASE If
  <2>1. /\ stack # <<>> /\ ~throwing /\ jumps = {} /\ kind[Top.node] = "if" /\ Top.at = "start"
        /\ First[Top.node] \in Nodes /\ Second[Top.node] \in Nodes /\ "branch" \in Places
        /\ kind' = kind
    BY <1>2, TopFacts DEF If, Places, Goes, Throws
  <2>2. /\ Structured = stack
        /\ \/ Structured' = Pushed(First[Top.node], "branch") \/ Flow!ExitsBefore(First[Top.node])
           \/ Structured' = Pushed(Second[Top.node], "branch") \/ Flow!ExitsBefore(Second[Top.node])
           \/ Flow!Throws
    BY <1>2, <2>1, ChoosesStep, ThrowStep DEF If
  <2>. QED
    BY <2>1, <2>2, FlowView DEF Flow!If, Flow!Next, Refined
<1>3. CASE TryCatch
  <2>1. Structured = stack /\ kind' = kind /\ Structured' = Pushed(First[Top.node], "try")
    BY <1>3, PlainStep DEF TryCatch, Steps
  <2>. QED
    BY <1>3, <2>1, FlowView DEF TryCatch, Flow!TryCatch, Flow!Next, Refined
<1>. QED
  BY <1>1, <1>2, <1>3

LEMMA LoopRefined ==
  ASSUME IInv, IInv', Loop
  PROVE  Refined
<1>1. /\ stack # <<>> /\ ~throwing /\ kind[Top.node] = "loop" /\ Top.at \in {"start", "body"}
      /\ Top.at = "body" => Marked(kind, stack, Len(stack), "loop", "body")
  BY DEF Loop, Starts, Running, Marked, Top
<1>2. ASSUME Condition, jumps = {} PROVE Refined
  <2>1. First[Top.node] \in Nodes /\ "body" \in Places
    BY <1>1, TopFacts DEF Places
  <2>2. /\ Structured = stack /\ kind' = kind
        /\ \/ Structured' = Pushed(First[Top.node], "body") \/ Flow!ExitsBefore(First[Top.node])
           \/ Structured' = Popped \/ Structured' = AfterReturn(kind, stack)
           \/ Flow!Throws
    <3>1. CASE Goes(Pushed(First[Top.node], "body"))
      BY <1>1, <1>2, <2>1, <3>1, ChoosesStep DEF Goes
    <3>2. CASE Goes(Popped)
      BY <1>1, <1>2, <3>2, EndsStep DEF Goes
    <3>3. CASE Throws
      BY <1>1, <1>2, <3>3, ThrowStep DEF Throws
    <3>. QED
      BY <1>2, <3>1, <3>2, <3>3 DEF Condition
  <2>. QED
    BY <1>1, <2>2, FlowView DEF Flow!Loop, Flow!Exits, Flow!Next, Refined
<1>3. ASSUME Running("loop", "body"), "continue" \in jumps, jumps' = jumps \ {"continue"},
             stack' = Pushed(First[Top.node], "body"), UNCHANGED <<kind, throwing>>
      PROVE  Refined
  <2>1. jumps = {"continue"} /\ jumps' = {}
    BY <1>1, <1>3, Pending
  <2>. QED
    BY <1>1, <1>3, <2>1, ArrivingStep DEF Running, Refined
<1>4. ASSUME Running("loop", "body"), jumps = {"break"}, jumps' = BreakCleared, stack' = Popped,
             UNCHANGED <<kind, throwing>>
      PROVE  Refined
  <2>1. jumps' = {}
    BY <1>4 DEF BreakCleared
  <2>. QED
    BY <1>1, <1>4, <2>1, ArrivingStep DEF Running, Refined
<1>. QED
  BY <1>2, <1>3, <1>4 DEF Loop, Starts, some_jump_requested

LEMMA LeaveRefined ==
  ASSUME IInv, IInv', Leave
  PROVE  Refined
<1>1. /\ stack # <<>> /\ ~throwing /\ ~Marked(kind, stack, Len(stack), "call", "body")
      /\ stack' = Popped /\ UNCHANGED <<kind, jumps, throwing>>
      /\ Top.at = "start" => jumps = {"return"} /\ kind[Top.node] # "throw"
      /\ jumps \in {{"break"}, {"continue"}} => ~Marked(kind, stack, Len(stack), "loop", "body")
  BY LeaveKeeps DEF Leave, Steps, flags
<1>2. CASE jumps # {}
  <2>1. ~AboutToThrow
    BY <1>1 DEF AboutToThrow
  <2>. QED
    BY <1>1, <1>2, <2>1, PassingStep DEF Refined
<1>3. CASE jumps = {}
  <2>1. Structured = stack /\ Structured' = Popped
    BY <1>1, <1>3, PlainStep DEF Leave
  <2>2. \/ kind[Top.node] = "compound" /\ Top.at = "second"
        \/ kind[Top.node] = "if" /\ Top.at = "branch"
        \/ kind[Top.node] = "try" /\ Top.at \in {"try", "catch"}
    BY <1>3 DEF Leave, Over, Running, some_jump_requested
  <2>. QED
    BY <1>1, <2>1, <2>2, FlowView
       DEF Flow!Compound, Flow!If, Flow!TryCatch, Flow!Next, Refined
<1>. QED
  BY <1>2, <1>3

(* A try catches an exception that was thrown with a return pending. *)
LEMMA LateCatch ==
  ASSUME IInv, IInv', stack # <<>>, throwing, Caught, jumps = {"return"}, jumps' = {"return"},
         stack' = Pushed(Second[Top.node], "catch"), kind' = kind, ~throwing'
  PROVE  UNCHANGED <<kind, Structured>>
<1>1. /\ Second[Top.node] \in Nodes /\ "catch" \in Places
      /\ kind[Top.node] = "try" /\ Top.at = "try"
  BY TopFacts DEF Places, Caught
<1>2. AboutToThrow /\ (AboutToThrow' <=> kind[Second[Top.node]] = "throw")
  BY <1>1, Begun DEF AboutToThrow
<1>3. Structured = AfterExitAndThrow(kind, stack)
  BY <1>2, StructuredIs DEF JumpAhead
<1>4. CASE kind[Second[Top.node]] = "throw"
  <2>1. AfterExitAndThrow(kind, stack') = AfterExitAndThrow(kind, stack)
    BY <1>1, <1>4, PushedJumps DEF IInv
  <2>. QED
    BY <1>2, <1>3, <1>4, <2>1, StructuredIsNext DEF JumpAhead
<1>5. CASE kind[Second[Top.node]] # "throw"
  <2>1. AfterReturn(kind, stack') = AfterReturn(kind, stack)
    BY <1>1, PushedJumps DEF IInv
  <2>2. Stops(kind, stack, Len(stack))
    BY <1>1, <1>5 DEF Stops, Marked, Top
  <2>3. AfterExitAndThrow(kind, stack) = AfterReturn(kind, stack)
    BY <2>2, TopStops DEF IInv
  <2>. QED
    BY <1>2, <1>3, <1>5, <2>1, <2>3, StructuredIsNext DEF JumpAhead
<1>. QED
  BY <1>4, <1>5

(* An exception that was thrown with a return pending leaves the function. *)
LEMMA LateLeave ==
  ASSUME IInv, IInv', stack # <<>>, throwing, throwing', jumps = {"return"}, jumps' = {},
         Marked(kind, stack, Len(stack), "call", "body"), stack' = Popped, kind' = kind
  PROVE  UNCHANGED <<kind, Structured>>
<1>1. Structured = AfterExitAndThrow(kind, stack)
  BY StructuredIs DEF JumpAhead, AboutToThrow
<1>2. AfterExitAndThrow(kind, stack) = AfterThrow(kind, Popped)
  BY TopCall DEF IInv, Popped
<1>3. Structured' = AfterThrow(kind, Popped)
  BY StructuredIsNext DEF JumpAhead
<1>. QED
  BY <1>1, <1>2, <1>3

LEMMA UnwindRefined ==
  ASSUME IInv, IInv', Unwind
  PROVE  Refined
<1>1. stack # <<>> /\ throwing /\ kind' = kind /\ Exiting(jumps, exited)
  <2>1. stack # <<>> /\ throwing /\ kind' = kind
    BY DEF Unwind
  <2>. QED
    BY <2>1, Zenon DEF IInv, ExitInv
<1>2. jumps = {} \/ jumps = {"return"}
  BY <1>1, ExitingFlags
<1>3. CASE Caught
  <2>1. /\ stack' = Pushed(Second[Top.node], "catch") /\ ~throwing' /\ jumps' = jumps
    BY <1>3 DEF Unwind, Caught, flags
  <2>. QED
    BY <1>1, <1>2, <1>3, <2>1, ArrivingStep, LateCatch DEF Refined
<1>4. CASE ~Caught /\ Marked(kind, stack, Len(stack), "call", "body") /\ jumps = {"return"}
  <2>1. /\ stack' = Popped /\ throwing' = throwing /\ jumps' = {}
    BY <1>4 DEF Unwind, ReturnCleared, Marked, Top
  <2>. QED
    BY <1>1, <1>4, <2>1, LateLeave DEF Refined
<1>5. CASE ~Caught /\ ~(Marked(kind, stack, Len(stack), "call", "body") /\ jumps = {"return"})
  <2>1. /\ stack' = Popped /\ throwing' = throwing
        /\ jumps' = jumps
    BY <1>2, <1>5 DEF Unwind, ReturnCleared, Marked, Top, flags
  <2>. QED
    BY <1>1, <1>5, <2>1, PassingStep DEF Refined
<1>. QED
  BY <1>3, <1>4, <1>5

LEMMA NextRefined ==
  ASSUME IInv, IInv', [Next]_vars
  PROVE  Refined
<1>1. CASE UNCHANGED vars
  <2>1. /\ kind' = kind /\ stack' = stack /\ jumps' = jumps /\ throwing' = throwing
        /\ AboutToThrow' <=> AboutToThrow
    BY <1>1 DEF vars, flags, AboutToThrow, Top
  <2>2. jumps \in {{}, {"break"}, {"continue"}, {"return"}}
    BY DEF IInv, SoundFlags
  <2>3. UNCHANGED <<kind, Structured>>
    BY <2>1, <2>2, StructuredIs, StructuredIsNext DEF JumpAhead
  <2>. QED
    BY <2>3 DEF Refined
<1>. QED
  BY <1>1, SimpleRefined, CallRefined, CallEndsRefined, CompoundRefined, LoopRefined, LeaveRefined,
     UnwindRefined DEF Next

LEMMA InitRefined == Init => Flow!Init
<1> SUFFICES ASSUME Init PROVE Flow!Init
  OBVIOUS
<1>1. Structured = stack
  BY Initial, StructuredIs DEF Init, JumpAhead
<1>. QED
  BY <1>1 DEF Init, Flow!Init, Flow!At

(* The flags, the look every statement takes at them and the unwinding of   *)
(* the calls amount to structured jumps, for every program the parser       *)
(* accepts: a break leaves the innermost loop and no other, a return the    *)
(* innermost function, an exception is caught by the innermost try.         *)
THEOREM FlagsAreStructuredJumps == Spec => ImplementsStructuredFlow
<1>1. IInv /\ IInv' /\ [Next]_vars => [Flow!Next]_<<kind, Structured>>
  BY NextRefined DEF Refined
<1>. QED
  BY <1>1, InitRefined, Invariant, PTL DEF Spec, ImplementsStructuredFlow, Flow!Spec
=============================================================================
