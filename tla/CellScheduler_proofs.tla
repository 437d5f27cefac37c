------------------------ MODULE CellScheduler_proofs ------------------------
(***************************************************************************)
(* Proofs about CellScheduler for every set of threads and cells, every    *)
(* program and every bound.                                                *)
(***************************************************************************)
EXTENDS CellScheduler, TLAPS

-----------------------------------------------------------------------------
(* The constants. *)

(* The author of every value is a node or nobody, and there is a value.    *)
LEMMA UndefinedIsValue == Undefined \in Value
  BY ProgramAssumption DEF Undefined, Value

(* Each cell has a box for its fields and its constants, each node one for *)
(* the undefined value it starts with.                                     *)
LEMMA NodeBoxes ==
  ASSUME NEW n \in Nodes
  PROVE  InitBox(n) \in Box /\ SelfBox(n) \in Box /\ LitBox(n) \in Box
  BY DEF InitBox, SelfBox, LitBox, Box

(* The index of a cell stays within the array when it is advanced. *)
LEMMA IndexInRange ==
  ASSUME NEW i \in 0 .. Len(Order) - 1
  PROVE  /\ Order[i + 1] \in Cells
         /\ (i + 1) % Len(Order) \in 0 .. Len(Order) - 1
<1>1. Len(Order) \in Nat /\ Len(Order) > 0
  BY ProgramAssumption
<1>2. i + 1 \in 1 .. Len(Order)
  BY <1>1
<1>3. Order[i + 1] \in Cells
  BY <1>2, ProgramAssumption
<1>4. (i + 1) % Len(Order) \in 0 .. Len(Order) - 1
  BY <1>1
<1> QED
  BY <1>3, <1>4

(* A box make_shared returns is a box nobody points to. *)
LEMMA NewBoxIsFresh ==
  ASSUME FreshBoxes # {}
  PROVE  NewBox \in FreshBoxes /\ NewBox \in Box
  BY DEF NewBox, FreshBoxes, Box

(* Forgetting the boxes nobody points to leaves a heap. *)
LEMMA SettleType ==
  ASSUME NEW h \in [Box -> Value], Settle(h)
  PROVE  heap' \in [Box -> Value]
  BY UndefinedIsValue DEF Settle

(* A write of a value into a box leaves a heap. *)
LEMMA WriteBoxType ==
  ASSUME heap \in [Box -> Value], NEW b \in Box, NEW v \in Value, WriteBox(b, v)
  PROVE  heap' \in [Box -> Value]
<1>1. [heap EXCEPT ![b] = v] \in [Box -> Value]
  OBVIOUS
<1> QED
  BY <1>1, SettleType DEF WriteBox

(* What exit() leaves for the caller is a box, and what it holds a value. *)
LEMMA ResultBoxType ==
  ASSUME return_result \in [Threads -> Box \cup {NoBox}], NEW t \in Threads, HasResult(t)
  PROVE  ResultBox(t) \in Box
  BY NewBoxIsFresh DEF HasResult, ResultBox

LEMMA LastResultType ==
  ASSUME return_result \in [Threads -> Box \cup {NoBox}], heap \in [Box -> Value],
         NEW t \in Threads
  PROVE  LastResult(t) \in Value
  BY UndefinedIsValue DEF LastResult

-----------------------------------------------------------------------------
(* Type correctness.  What a thread publishes must be a box: TypeOK alone  *)
(* does not say so, as return_result may still be undefined.               *)

ResultDefined ==
  \A t \in Threads : pc[t] \in {"publish", "output"} => return_result[t] \in Box

(* A frame never holds more arguments than the cell has, and is empty      *)
(* between two executions.                                                 *)
FramesFit ==
  \A t \in Threads :
    /\ pc[t] = "exec" => Len(frame[t]) <= Len(Sources[cell[t]])
    /\ ~Holding(t) => frame[t] = <<>>

TypeInv == TypeOK /\ ResultDefined /\ FramesFit

LEMMA TypeInit == Init => TypeInv
<1> SUFFICES ASSUME Init PROVE TypeInv
  OBVIOUS
<1>1. 0 \in 0 .. Len(Order) - 1 /\ Order[1] \in Cells /\ 0 \in 0 .. MaxSteps
  BY ProgramAssumption
<1>2. val \in [Nodes -> Box] /\ outputs \in [Named -> Box]
  BY NodeBoxes, ProgramAssumption DEF Init, Nodes
<1>3. heap \in [Box -> Value]
  <2>1. ASSUME NEW b \in Box, b[1] = "lit" PROVE [Undefined EXCEPT !.by = b[2]] \in Value
    BY <2>1, UndefinedIsValue DEF Box, Value
  <2> QED
    BY <2>1, UndefinedIsValue DEF Init
<1>4. /\ pc \in [Threads -> Phases]
      /\ cell \in [Threads -> Cells]
      /\ frame \in [Threads -> Seq(Box)]
      /\ steps \in [Threads -> 0 .. MaxSteps]
      /\ return_result \in [Threads -> Box \cup {NoBox}]
  BY <1>1 DEF Init, Phases
<1>5. TypeOK
  BY <1>1, <1>2, <1>3, <1>4 DEF Init, TypeOK
<1> QED
  BY <1>5 DEF Init, TypeInv, ResultDefined, FramesFit, Holding, HoldingPhases

(* What an execution reads as an argument is a box. *)
LEMMA SourceBoxType ==
  ASSUME TypeOK, NEW c \in Cells, NEW i \in DOMAIN Sources[c]
  PROVE  SourceBox(c, i) \in Box
<1>1. Sources[c][i] \in Nodes \cup {Lit}
  BY ProgramAssumption
<1> QED
  BY <1>1, NodeBoxes DEF TypeOK, SourceBox, Nodes

LEMMA TypeStep == TypeInv /\ [Next]_vars => TypeInv'
<1> SUFFICES ASSUME TypeInv, [Next]_vars PROVE TypeInv'
  OBVIOUS
<1> USE DEF TypeInv, TypeOK, ResultDefined, FramesFit, Holding, HoldingPhases,
            Phases, Goto, control, data, flags
<1>1. MaxSteps \in Nat
  BY ProgramAssumption
<1>2. ASSUME NEW t \in Threads, Draw(t) PROVE TypeInv'
  BY <1>2, IndexInRange DEF Draw, NextIndex
<1>3. ASSUME NEW t \in Threads, Quit(t) PROVE TypeInv'
  BY <1>3 DEF Quit
<1>4. ASSUME NEW t \in Threads, Enter(t) PROVE TypeInv'
  <2>1. Len(frame[t]) <= Len(Sources[cell[t]])
    <3>1. Len(Sources[cell[t]]) \in Nat
      BY ProgramAssumption
    <3>2. frame[t] = <<>>
      BY <1>4 DEF Enter
    <3> QED
      BY <3>1, <3>2
  <2>2. steps' \in [Threads -> 0 .. MaxSteps] /\ locker' \subseteq Cells
    BY <1>1, <1>4 DEF Enter
  <2>3. TypeOK'
    BY <1>4, <2>2 DEF Enter
  <2>4. ResultDefined' /\ FramesFit'
    BY <1>4, <2>1 DEF Enter
  <2> QED
    BY <2>3, <2>4
<1>5. ASSUME NEW t \in Threads, Skip(t) PROVE TypeInv'
  BY <1>5 DEF Skip
<1>6. ASSUME NEW t \in Threads, ReadArg(t) PROVE TypeInv'
  <2>1. Len(frame[t]) + 1 \in DOMAIN Sources[cell[t]]
    BY <1>6, ProgramAssumption DEF ReadArg, ArgsRead
  <2>2. SourceBox(cell[t], Len(frame[t]) + 1) \in Box
    BY <2>1, SourceBoxType
  <2>3. Append(frame[t], SourceBox(cell[t], Len(frame[t]) + 1)) \in Seq(Box)
    BY <2>2
  <2>4. Len(frame'[t]) <= Len(Sources[cell[t]])
    BY <1>6, <2>1, <2>2, ProgramAssumption DEF ReadArg
  <2> QED
    BY <1>6, <2>3, <2>4 DEF ReadArg
<1>7. ASSUME NEW t \in Threads, BumpSelf(t) PROVE TypeInv'
  <2>1. ASSUME NEW m \in Marks PROVE [by |-> cell[t], mark |-> m] \in Value
    BY DEF Value, Nodes
  <2>2. FieldBox(t) \in Box
    BY NodeBoxes DEF FieldBox, Nodes
  <2>3. heap' \in [Box -> Value]
    BY <1>7, <2>1, <2>2, WriteBoxType DEF BumpSelf
  <2> QED
    BY <1>1, <1>7, <2>3 DEF BumpSelf, Step
<1>8. ASSUME NEW t \in Threads, StoreSelf(t) PROVE TypeInv'
  <2>1. ASSUME NEW i \in DOMAIN frame[t] PROVE heap[frame[t][i]] \in Value
    OBVIOUS
  <2>2. FieldBox(t) \in Box
    BY NodeBoxes DEF FieldBox, Nodes
  <2>3. heap' \in [Box -> Value]
    BY <1>8, <2>1, <2>2, WriteBoxType DEF StoreSelf
  <2> QED
    BY <1>1, <1>8, <2>3 DEF StoreSelf, Step
<1>9. ASSUME NEW t \in Threads, PokeArg(t) PROVE TypeInv'
  <2>1. ASSUME NEW m \in Marks PROVE [by |-> cell[t], mark |-> m] \in Value
    BY DEF Value, Nodes
  <2>2. ASSUME NEW i \in DOMAIN frame[t] PROVE frame[t][i] \in Box
    OBVIOUS
  <2>3. heap' \in [Box -> Value]
    BY <1>9, <2>1, <2>2, WriteBoxType DEF PokeArg
  <2> QED
    BY <1>1, <1>9, <2>3 DEF PokeArg, Step
<1>10. ASSUME NEW t \in Threads, ReturnNew(t) PROVE TypeInv'
  <2>1. ASSUME NEW m \in Marks PROVE [by |-> cell[t], mark |-> m] \in Value
    BY DEF Value, Nodes
  <2>2. NewBox \in Box
    BY <1>10, NewBoxIsFresh DEF ReturnNew
  <2>3. heap' \in [Box -> Value]
    BY <1>10, <2>1, <2>2, WriteBoxType DEF ReturnNew
  <2> QED
    BY <1>10, <2>2, <2>3 DEF ReturnNew, Return, SetReturnResult, May, Running
<1>11. ASSUME NEW t \in Threads, ReturnSelf(t) PROVE TypeInv'
  <2>1. FieldBox(t) \in Box
    BY NodeBoxes DEF FieldBox, Nodes
  <2>2. heap' \in [Box -> Value]
    BY <1>11, SettleType DEF ReturnSelf
  <2> QED
    BY <1>11, <2>1, <2>2 DEF ReturnSelf, Return, SetReturnResult, May, Running
<1>12. ASSUME NEW t \in Threads, ReturnArg(t) PROVE TypeInv'
  <2>1. heap' \in [Box -> Value]
    BY <1>12, SettleType DEF ReturnArg
  <2> QED
    BY <1>12, <2>1 DEF ReturnArg, Return, SetReturnResult, May, Running
<1>13. ASSUME NEW t \in Threads, ReturnLast(t), May(t, "exit") \/ May(t, "relay")
       PROVE  TypeInv'
  <2>1. ResultBox(t) \in Box
    BY <1>13, ResultBoxType DEF ReturnLast
  <2>2. heap' \in [Box -> Value]
    BY <1>13, <2>1, LastResultType, WriteBoxType DEF ReturnLast
  <2> QED
    BY <1>13, <2>1, <2>2 DEF ReturnLast, Return, SetReturnResult, May, Running
<1>25. ASSUME NEW t \in Threads, RelayStore(t) PROVE TypeInv'
  <2>1. FieldBox(t) \in Box
    BY NodeBoxes DEF FieldBox, Nodes
  <2>2. heap' \in [Box -> Value]
    BY <1>25, <2>1, LastResultType, WriteBoxType DEF RelayStore
  <2> QED
    BY <1>1, <1>25, <2>2 DEF RelayStore, Step
<1>26. ASSUME NEW t \in Threads, RelayPoke(t) PROVE TypeInv'
  <2>1. ASSUME NEW m \in Marks PROVE [by |-> cell[t], mark |-> m] \in Value
    BY DEF Value, Nodes
  <2>2. ResultBox(t) \in Box
    BY <1>26, ResultBoxType DEF RelayPoke
  <2>3. heap' \in [Box -> Value]
    BY <1>26, <2>1, <2>2, WriteBoxType DEF RelayPoke
  <2> QED
    BY <1>1, <1>26, <2>2, <2>3 DEF RelayPoke, SetReturnResult, Step, May, Running
<1>14. ASSUME NEW t \in Threads, Halt(t) PROVE TypeInv'
  BY <1>1, <1>14 DEF Halt, Step
<1>15. ASSUME NEW t \in Threads, FallOff(t) \/ Throw(t) PROVE TypeInv'
  BY <1>15 DEF FallOff, Throw, May, Running
<1>16. ASSUME NEW t \in Threads, Publish(t) PROVE TypeInv'
  <2>1. heap' \in [Box -> Value]
    BY <1>16, SettleType DEF Publish
  <2> QED
    BY <1>16, <2>1 DEF Publish, AfterPublish, Nodes
<1>17. ASSUME NEW t \in Threads, SetOutput(t) PROVE TypeInv'
  <2>1. heap' \in [Box -> Value]
    BY <1>17, SettleType DEF SetOutput
  <2> QED
    BY <1>17, <2>1 DEF SetOutput
<1>18. ASSUME NEW t \in Threads, Unlock(t) PROVE TypeInv'
  <2>1. heap' \in [Box -> Value]
    BY <1>18, SettleType DEF Unlock
  <2> QED
    BY <1>18, <2>1 DEF Unlock, Released
<1>19. ASSUME NEW t \in Threads, CallFunction(t) PROVE TypeInv'
  <2>1. PICK b \in Box : SetReturnResult(t, b)
    BY <1>19, NewBoxIsFresh, NodeBoxes DEF CallFunction, FieldBox, Nodes
  <2>2. ASSUME NEW m \in Marks PROVE [by |-> cell[t], mark |-> m] \in Value
    BY DEF Value, Nodes
  <2>3. heap' \in [Box -> Value]
    BY <1>19, <2>2, NewBoxIsFresh, SettleType, WriteBoxType DEF CallFunction
  <2> QED
    BY <1>1, <1>19, <2>1, <2>3 DEF CallFunction, SetReturnResult, Step
<1>20. ASSUME NEW t \in Threads, Fail(t) PROVE TypeInv'
  BY <1>20 DEF Fail
<1>21. ASSUME NEW n \in Inputs, SetInput(n) PROVE TypeInv'
  <2>1. ASSUME NEW m \in Marks PROVE [by |-> n, mark |-> m] \in Value
    BY DEF Value, Nodes
  <2>2. NewBox \in Box
    BY <1>21, NewBoxIsFresh DEF SetInput
  <2>3. heap' \in [Box -> Value]
    BY <1>21, <2>1, <2>2, WriteBoxType DEF SetInput
  <2> QED
    BY <1>21, <2>2, <2>3 DEF SetInput, Nodes
<1>22. ASSUME Terminate PROVE TypeInv'
  BY <1>22 DEF Terminate
<1>23. ASSUME Restart PROVE TypeInv'
  <2>1. heap' \in [Box -> Value]
    BY <1>23, SettleType DEF Restart
  <2>2. Order[1] \in Cells /\ 0 \in 0 .. MaxSteps
    BY ProgramAssumption
  <2>3. /\ pc' \in [Threads -> Phases]
        /\ cell' \in [Threads -> Cells]
        /\ steps' \in [Threads -> 0 .. MaxSteps]
        /\ return_result' \in [Threads -> Box \cup {NoBox}]
    BY <1>23, <2>2 DEF Restart
  <2>4. TypeOK'
    BY <1>23, <2>1, <2>3 DEF Restart
  <2>5. ResultDefined' /\ FramesFit'
    BY <1>23 DEF Restart
  <2> QED
    BY <2>4, <2>5
<1>24. ASSUME UNCHANGED vars PROVE TypeInv'
  BY <1>24 DEF vars
<1> QED
  BY <1>2, <1>3, <1>4, <1>5, <1>6, <1>7, <1>8, <1>9, <1>10, <1>11, <1>12, <1>13,
     <1>14, <1>15, <1>16, <1>17, <1>18, <1>20, <1>21, <1>22, <1>23, <1>24, <1>19,
     <1>25, <1>26
     DEF Next, Worker, Body, Host, Exit, RelayReturn

(* Every variable always has its type, in every run of every program.      *)
THEOREM TypeCorrect == Spec => []TypeOK
<1>1. TypeInv => TypeOK
  BY DEF TypeInv
<1> QED
  BY <1>1, TypeInit, TypeStep, PTL DEF Spec

-----------------------------------------------------------------------------
(* The locks of the cells.  Exclusion alone is not inductive: a thread may *)
(* enter a cell because locker_ is free, so locker_ must tell the truth.   *)

LockInv == MutualExclusion /\ LocksAreHeld

(* A step that takes and releases no lock. *)
Quiet ==
  /\ locker' = locker
  /\ \A t \in Threads : Holding(t)' <=> Holding(t)
  /\ \A t \in Threads : Holding(t) => cell[t]' = cell[t]

LEMMA QuietKeepsLocks == LockInv /\ Quiet => LockInv'
<1> SUFFICES ASSUME LockInv, Quiet PROVE LockInv'
  OBVIOUS
<1>1. MutualExclusion'
  BY DEF LockInv, MutualExclusion, Quiet
<1>2. \A c : c \in locker' <=> \E t \in Threads : Holding(t)' /\ cell[t]' = c
  BY DEF LockInv, LocksAreHeld, Quiet
<1>3. LocksAreHeld'
  BY <1>2 DEF LocksAreHeld
<1> QED
  BY <1>1, <1>3 DEF LockInv

LEMMA QuietSteps ==
  ASSUME TypeOK, NEW t \in Threads,
         \/ Draw(t) \/ Quit(t) \/ Skip(t) \/ ReadArg(t) \/ Body(t)
         \/ Publish(t) \/ SetOutput(t) \/ Fail(t)
  PROVE  Quiet
<1> USE DEF TypeOK, Quiet, Holding, HoldingPhases, Goto, control
<1>1. CASE Draw(t) \/ Quit(t) \/ Skip(t) \/ Fail(t)
  BY <1>1 DEF Draw, Quit, Skip, Fail
<1>2. CASE ReadArg(t)
  BY <1>2 DEF ReadArg
<1>3. CASE \/ BumpSelf(t) \/ StoreSelf(t) \/ PokeArg(t) \/ CallFunction(t) \/ Halt(t)
          \/ RelayStore(t) \/ RelayPoke(t)
  BY <1>3 DEF BumpSelf, StoreSelf, PokeArg, CallFunction, SetReturnResult, Halt, RelayStore,
              RelayPoke, Step
<1>4. CASE \/ ReturnNew(t) \/ ReturnSelf(t) \/ ReturnArg(t) \/ Exit(t)
          \/ RelayReturn(t)
  BY <1>4 DEF ReturnNew, ReturnSelf, ReturnArg, Exit, RelayReturn, ReturnLast, Return,
              SetReturnResult, May, Running
<1>5. CASE FallOff(t) \/ Throw(t)
  BY <1>5 DEF FallOff, Throw, May, Running
<1>6. CASE Publish(t) \/ SetOutput(t)
  BY <1>6 DEF Publish, SetOutput, AfterPublish
<1> QED
  BY <1>1, <1>2, <1>3, <1>4, <1>5, <1>6 DEF Body

LEMMA QuietHost ==
  ASSUME TypeOK, (\E n \in Inputs : SetInput(n)) \/ Terminate \/ Restart \/ UNCHANGED vars
  PROVE  Quiet
  BY DEF TypeOK, Quiet, Holding, HoldingPhases, SetInput, Terminate, Restart, control, vars

(* try_lock succeeds only on a cell nobody executes. *)
LEMMA EnterKeepsLocks ==
  ASSUME TypeOK, LockInv, NEW t \in Threads, Enter(t)
  PROVE  LockInv'
<1> USE DEF TypeOK, Holding, HoldingPhases, Goto
<1>1. \A u \in Threads : Holding(u)' <=> (u = t \/ Holding(u))
  BY DEF Enter
<1>2. cell' = cell /\ locker' = locker \cup {cell[t]}
  BY DEF Enter
<1>3. \A u \in Threads : Holding(u) => cell[u] # cell[t]
  BY DEF Enter, TryLock, LockInv, LocksAreHeld
<1>4. MutualExclusion'
  BY <1>1, <1>2, <1>3 DEF LockInv, MutualExclusion
<1>5. LocksAreHeld'
  BY <1>1, <1>2 DEF LockInv, LocksAreHeld
<1> QED
  BY <1>4, <1>5 DEF LockInv

(* unlock() frees a cell no other thread executes. *)
LEMMA UnlockKeepsLocks ==
  ASSUME TypeOK, LockInv, NEW t \in Threads, Unlock(t)
  PROVE  LockInv'
<1> USE DEF TypeOK, Holding, HoldingPhases, Goto
<1>1. \A u \in Threads : Holding(u)' <=> (u # t /\ Holding(u))
  BY DEF Unlock
<1>2. cell' = cell /\ locker' = locker \ {cell[t]}
  BY DEF Unlock, Released
<1>3. \A u \in Threads : u # t /\ Holding(u) => cell[u] # cell[t]
  BY DEF Unlock, LockInv, MutualExclusion
<1>4. MutualExclusion'
  BY <1>1, <1>2 DEF LockInv, MutualExclusion
<1>5. LocksAreHeld'
  BY <1>1, <1>2, <1>3 DEF LockInv, LocksAreHeld
<1> QED
  BY <1>4, <1>5 DEF LockInv

LEMMA LockStep == TypeInv /\ LockInv /\ [Next]_vars => LockInv'
<1> SUFFICES ASSUME TypeInv, LockInv, [Next]_vars PROVE LockInv'
  OBVIOUS
<1>1. TypeOK
  BY DEF TypeInv
<1>2. ASSUME NEW t \in Threads, Worker(t) PROVE LockInv'
  BY <1>1, <1>2, QuietSteps, QuietKeepsLocks, EnterKeepsLocks, UnlockKeepsLocks DEF Worker
<1>3. CASE Host \/ UNCHANGED vars
  BY <1>1, <1>3, QuietHost, QuietKeepsLocks DEF Host
<1> QED
  BY <1>2, <1>3 DEF Next

LEMMA LocksAlways == Spec => [](TypeInv /\ LockInv)
<1>1. Init => LockInv
  BY DEF Init, LockInv, MutualExclusion, LocksAreHeld, Holding, HoldingPhases
<1> QED
  BY <1>1, TypeInit, TypeStep, LockStep, PTL DEF Spec

(* No two threads ever execute one cell at the same time, whatever the     *)
(* number of threads and cells and whatever the bodies do.                 *)
THEOREM Exclusion == Spec => []MutualExclusion
<1>1. LockInv => MutualExclusion
  BY DEF LockInv
<1> QED
  BY <1>1, LocksAlways, PTL

(* No lock is lost and none is released twice: locker_ is held exactly     *)
(* while a thread executes the cell, also after exit() and exceptions.     *)
THEOREM NoLostLock == Spec => []LocksAreHeld
<1>1. LockInv => LocksAreHeld
  BY DEF LockInv
<1> QED
  BY <1>1, LocksAlways, PTL

-----------------------------------------------------------------------------
(* The named outputs.  While a thread is between set_value and set_output  *)
(* the output lags behind the value by the result the thread still holds.  *)

OutputFollows ==
  /\ \A t \in Threads : pc[t] = "output" => val[cell[t]] = return_result[t]
  /\ \A c \in Named :
       (\A t \in Threads : pc[t] = "output" => cell[t] # c) => outputs[c] = val[c]

(* A step that neither publishes nor writes an output. *)
OutputIdle ==
  /\ outputs' = outputs
  /\ \A c \in Cells : val'[c] = val[c]
  /\ \A t \in Threads : pc'[t] = "output" <=> pc[t] = "output"
  /\ \A t \in Threads :
       pc[t] = "output" => cell'[t] = cell[t] /\ return_result'[t] = return_result[t]

LEMMA IdleKeepsOutputs == TypeOK /\ OutputFollows /\ OutputIdle => OutputFollows'
<1> SUFFICES ASSUME TypeOK, OutputFollows, OutputIdle PROVE OutputFollows'
  OBVIOUS
<1>1. Named \subseteq Cells
  BY ProgramAssumption
<1>2. \A t \in Threads : cell[t] \in Cells
  BY DEF TypeOK
<1>3. \A t \in Threads : pc'[t] = "output" => val'[cell'[t]] = return_result'[t]
  BY <1>2 DEF OutputFollows, OutputIdle
<1>4. ASSUME NEW c \in Named, \A t \in Threads : pc'[t] = "output" => cell'[t] # c
      PROVE  outputs'[c] = val'[c]
  BY <1>1, <1>4 DEF OutputFollows, OutputIdle
<1> QED
  BY <1>3, <1>4 DEF OutputFollows

LEMMA IdleSteps ==
  ASSUME TypeOK, NEW t \in Threads,
         \/ Draw(t) \/ Quit(t) \/ Enter(t) \/ Skip(t) \/ ReadArg(t) \/ Body(t)
         \/ Unlock(t) \/ Fail(t)
  PROVE  OutputIdle
<1> USE DEF TypeOK, OutputIdle, Goto, control, data
<1>1. CASE Draw(t) \/ Quit(t) \/ Enter(t) \/ Skip(t) \/ Fail(t)
  BY <1>1 DEF Draw, Quit, Enter, Skip, Fail
<1>2. CASE ReadArg(t)
  BY <1>2 DEF ReadArg
<1>3. CASE BumpSelf(t) \/ StoreSelf(t) \/ PokeArg(t) \/ Halt(t) \/ RelayStore(t)
  BY <1>3 DEF BumpSelf, StoreSelf, PokeArg, Halt, RelayStore, Step
<1>4. CASE CallFunction(t) \/ RelayPoke(t)
  <2>1. UNCHANGED <<pc, cell, val, outputs>> /\ pc[t] # "output"
    BY <1>4 DEF CallFunction, RelayPoke, Step, May, Running
  <2>2. \A u \in Threads \ {t} : return_result'[u] = return_result[u]
    BY <1>4 DEF CallFunction, RelayPoke, SetReturnResult
  <2> QED
    BY <2>1, <2>2
<1>5. CASE \/ ReturnNew(t) \/ ReturnSelf(t) \/ ReturnArg(t) \/ Exit(t)
          \/ RelayReturn(t)
  BY <1>5 DEF ReturnNew, ReturnSelf, ReturnArg, Exit, RelayReturn, ReturnLast, Return,
              SetReturnResult, May, Running
<1>6. CASE FallOff(t) \/ Throw(t)
  BY <1>6 DEF FallOff, Throw, May, Running
<1>7. CASE Unlock(t)
  BY <1>7 DEF Unlock
<1> QED
  BY <1>1, <1>2, <1>3, <1>5, <1>6, <1>7, <1>4 DEF Body

LEMMA IdleHost ==
  ASSUME TypeOK, Host \/ UNCHANGED vars
  PROVE  OutputIdle
<1> USE DEF TypeOK, OutputIdle, control, data
<1>1. CASE \E n \in Inputs : SetInput(n)
  <2>1. PICK n \in Inputs : SetInput(n)
    BY <1>1
  <2>2. \A c \in Cells : c # n
    BY ProgramAssumption
  <2> QED
    BY <2>1, <2>2 DEF SetInput, Nodes
<1>2. CASE Terminate \/ Restart \/ UNCHANGED vars
  BY <1>2 DEF Terminate, Restart, vars
<1> QED
  BY <1>1, <1>2 DEF Host

LEMMA OutputStep == TypeInv /\ LockInv /\ OutputFollows /\ [Next]_vars => OutputFollows'
<1> SUFFICES ASSUME TypeInv, LockInv, OutputFollows, [Next]_vars PROVE OutputFollows'
  OBVIOUS
<1>1. TypeOK
  BY DEF TypeInv
<1>2. ASSUME NEW t \in Threads, Publish(t) PROVE OutputFollows'
  <2>1. \A u \in Threads \ {t} : pc[u] = "output" => cell[u] # cell[t]
    BY <1>2 DEF Publish, LockInv, MutualExclusion, Holding, HoldingPhases
  <2>2. /\ \A u \in Threads \ {t} : pc'[u] = pc[u]
        /\ pc'[t] = AfterPublish(t) /\ pc[t] = "publish"
        /\ cell' = cell /\ return_result' = return_result /\ outputs' = outputs
        /\ \A n \in Nodes : val'[n] = IF n = cell[t] THEN return_result[t] ELSE val[n]
    BY <1>1, <1>2 DEF Publish, Goto, TypeOK
  <2>3. cell \in [Threads -> Cells]
    BY <1>1 DEF TypeOK
  <2>4. \A u \in Threads : (pc[u] = "output")' => val'[cell'[u]] = return_result'[u]
    BY <2>1, <2>2, <2>3 DEF OutputFollows, Nodes
  <2>5. ASSUME NEW c \in Named, \A u \in Threads : pc'[u] = "output" => cell'[u] # c
        PROVE  outputs'[c] = val'[c]
    <3>1. cell[t] # c
      BY <2>2, <2>5 DEF AfterPublish
    <3>2. \A u \in Threads : pc[u] = "output" => cell[u] # c
      BY <2>2, <2>5
    <3>3. outputs[c] = val[c]
      BY <3>2 DEF OutputFollows
    <3>4. c \in Nodes
      BY ProgramAssumption DEF Nodes
    <3> QED
      BY <2>2, <3>1, <3>3, <3>4
  <2> QED
    BY <2>4, <2>5 DEF OutputFollows
<1>3. ASSUME NEW t \in Threads, SetOutput(t) PROVE OutputFollows'
  <2>1. \A u \in Threads \ {t} : pc[u] = "output" => cell[u] # cell[t]
    BY <1>3 DEF SetOutput, LockInv, MutualExclusion, Holding, HoldingPhases
  <2>2. /\ \A u \in Threads \ {t} : pc'[u] = pc[u]
        /\ pc'[t] = "unlock" /\ pc[t] = "output"
        /\ cell' = cell /\ return_result' = return_result /\ val' = val
        /\ \A c \in Named : outputs'[c] = IF c = cell[t] THEN return_result[t] ELSE outputs[c]
    BY <1>1, <1>3 DEF SetOutput, Goto, TypeOK
  <2> QED
    BY <2>1, <2>2 DEF OutputFollows
<1>4. ASSUME NEW t \in Threads, Worker(t), ~Publish(t), ~SetOutput(t) PROVE OutputFollows'
  BY <1>1, <1>4, IdleSteps, IdleKeepsOutputs DEF Worker
<1>5. CASE Host \/ UNCHANGED vars
  BY <1>1, <1>5, IdleHost, IdleKeepsOutputs
<1> QED
  BY <1>2, <1>3, <1>4, <1>5 DEF Next

(* Whenever no thread executes a cell, its named output and its value are  *)
(* the same box.                                                           *)
THEOREM OutputsAgree == Spec => []OutputAgrees
<1>1. Init => OutputFollows
  BY ProgramAssumption DEF Init, OutputFollows, Nodes
<1>2. LockInv /\ OutputFollows => OutputAgrees
  BY DEF LockInv, LocksAreHeld, OutputFollows, OutputAgrees, Holding, HoldingPhases
<1> QED
  BY <1>1, <1>2, OutputStep, LocksAlways, PTL DEF Spec

-----------------------------------------------------------------------------
(* Programs whose bodies neither write an argument nor return a field.     *)
(* Nothing then ever points to the box of a field: neither a published     *)
(* value, nor an output, nor an argument, nor a result.                    *)

TidyProgram == \A c \in Cells : Ops[c] \cap {"poke", "self"} = {}

FieldsHidden == \A c \in Cells : ~Reachable(SelfBox(c))

LEMMA FieldIsNoOtherBox ==
  ASSUME NEW c \in Cells
  PROVE  /\ \A n : SelfBox(c) # InitBox(n) /\ SelfBox(c) # LitBox(n)
         /\ \A b \in FreshBoxes : SelfBox(c) # b
         /\ \A d \in Cells : d # c => SelfBox(c) # SelfBox(d)
         /\ SelfBox(c) # NoBox
<1>1. \A b \in FreshBoxes : b[1] = "new"
  BY DEF FreshBoxes
<1>2. SelfBox(c) \in Box
  BY NodeBoxes DEF Nodes
<1> QED
  BY <1>1, <1>2, BoxAssumption DEF SelfBox, InitBox, LitBox

(* What every step may add to the boxes somebody points to. *)
LEMMA FieldsHiddenStep ==
  TidyProgram /\ TypeInv /\ FieldsHidden /\ [Next]_vars => FieldsHidden'
<1> SUFFICES ASSUME TidyProgram, TypeInv, FieldsHidden, [Next]_vars,
                    NEW c \in Cells
             PROVE  ~Reachable(SelfBox(c))'
  BY DEF FieldsHidden
<1> DEFINE B == SelfBox(c)
<1>1. /\ \A n \in Nodes : val[n] # B
      /\ \A d \in Named : outputs[d] # B
      /\ \A t \in Threads : return_result[t] # B
      /\ \A t \in Threads : \A i \in DOMAIN frame[t] : frame[t][i] # B
  BY DEF FieldsHidden, Reachable
<1>2. TypeOK
  BY DEF TypeInv
<1>3. FreshBoxes # {} => NewBox # B
  BY NewBoxIsFresh, FieldIsNoOtherBox
<1>4. SUFFICES /\ \A n \in Nodes : val'[n] # B
               /\ \A d \in Named : outputs'[d] # B
               /\ \A t \in Threads : return_result'[t] # B
               /\ \A t \in Threads : \A i \in DOMAIN frame'[t] : frame'[t][i] # B
  BY DEF Reachable
<1> HIDE DEF B
<1> USE DEF TypeOK, control, data
<1>5. ASSUME NEW t \in Threads, Draw(t) \/ Quit(t) \/ Enter(t) \/ Skip(t) \/ Fail(t)
      PROVE  UNCHANGED <<val, outputs, return_result, frame>>
  BY <1>5 DEF Draw, Quit, Enter, Skip, Fail
<1>6. ASSUME NEW t \in Threads, BumpSelf(t) \/ StoreSelf(t) \/ PokeArg(t) \/ Halt(t)
                                 \/ RelayStore(t) \/ FallOff(t) \/ Throw(t)
      PROVE  UNCHANGED <<val, outputs, return_result, frame>>
  BY <1>6 DEF BumpSelf, StoreSelf, PokeArg, Halt, RelayStore, FallOff, Throw
<1>7. CASE UNCHANGED <<val, outputs, return_result, frame>>
  BY <1>1, <1>7
<1>8. ASSUME NEW t \in Threads, ReadArg(t)
      PROVE  \A i \in DOMAIN frame'[t] : frame'[t][i] # B
  <2>1. Len(frame[t]) + 1 \in DOMAIN Sources[cell[t]]
    BY <1>8, ProgramAssumption DEF TypeInv, FramesFit, ReadArg, ArgsRead
  <2>2. SourceBox(cell[t], Len(frame[t]) + 1) # B
    <3>1. Sources[cell[t]][Len(frame[t]) + 1] \in Nodes \cup {Lit}
      BY <1>2, <2>1, ProgramAssumption
    <3>2. LitBox(cell[t]) # B
      BY FieldIsNoOtherBox DEF B
    <3> QED
      BY <1>1, <3>1, <3>2 DEF SourceBox
  <2>3. frame'[t] = Append(frame[t], SourceBox(cell[t], Len(frame[t]) + 1))
    BY <1>2, <1>8 DEF ReadArg
  <2> QED
    BY <1>1, <1>2, <2>2, <2>3
<1>9. ASSUME NEW t \in Threads, CallFunction(t) \/ ReturnNew(t) \/ ReturnSelf(t)
                                 \/ ReturnArg(t) \/ Exit(t) \/ RelayReturn(t)
      PROVE  /\ UNCHANGED <<val, outputs, frame>>
             /\ \E b : b # B /\ return_result' = [return_result EXCEPT ![t] = b]
  <2>1. cell[t] \in Cells
    BY <1>2
  <2>2. ~ReturnSelf(t)
    BY <2>1 DEF ReturnSelf, May, TidyProgram
  <2>3. ReturnNew(t) => \E b : b # B /\ SetReturnResult(t, b)
    BY <1>3 DEF ReturnNew, Return
  <2>4. ReturnArg(t) => \E b : b # B /\ SetReturnResult(t, b)
    BY <1>1 DEF ReturnArg, Return
  <2>5. Exit(t) \/ RelayReturn(t) => \E b : b # B /\ SetReturnResult(t, b)
    <3>1. ReturnLast(t) => ResultBox(t) # B
      BY <1>1, <1>3 DEF ReturnLast, HasResult, ResultBox
    <3> QED
      BY <3>1 DEF Exit, RelayReturn, ReturnLast, Return
  <2>6. CallFunction(t) => \E b : b # B /\ SetReturnResult(t, b)
    BY <1>1, <1>3, <2>1 DEF CallFunction, TidyProgram
  <2>7. PICK b : b # B /\ SetReturnResult(t, b)
    BY <1>9, <2>2, <2>3, <2>4, <2>5, <2>6
  <2>8. return_result' = [return_result EXCEPT ![t] = b]
    BY <2>7 DEF SetReturnResult
  <2>9. UNCHANGED <<val, outputs, frame>>
    BY <1>9 DEF CallFunction, ReturnNew, ReturnSelf, ReturnArg, Exit, RelayReturn, ReturnLast
  <2> QED
    BY <2>7, <2>8, <2>9
<1>10. ASSUME NEW t \in Threads, Body(t) \/ ReadArg(t)
       PROVE  /\ \A n \in Nodes : val'[n] # B
              /\ \A d \in Named : outputs'[d] # B
              /\ \A u \in Threads : return_result'[u] # B
              /\ \A u \in Threads : \A i \in DOMAIN frame'[u] : frame'[u][i] # B
  <2>1. CASE ReadArg(t)
    BY <1>1, <1>2, <1>8, <2>1 DEF ReadArg
  <2>2. CASE \/ CallFunction(t) \/ ReturnNew(t) \/ ReturnSelf(t) \/ ReturnArg(t)
             \/ Exit(t) \/ RelayReturn(t)
    BY <1>1, <1>2, <1>9, <2>2
  <2>3. ~RelayPoke(t)
    BY <1>2 DEF RelayPoke, May, TidyProgram
  <2> QED
    BY <1>1, <1>6, <1>10, <2>1, <2>2, <2>3 DEF Body
<1>11. CASE \E t \in Threads : Publish(t) \/ SetOutput(t)
  BY <1>1, <1>2, <1>11 DEF Publish, SetOutput
<1>12. CASE \E t \in Threads : Unlock(t)
  BY <1>1, <1>2, <1>12, FieldIsNoOtherBox DEF Unlock, B
<1>13. CASE \E n \in Inputs : SetInput(n)
  BY <1>1, <1>2, <1>3, <1>13 DEF SetInput
<1>14. CASE Restart
  BY <1>1, <1>2, <1>14, FieldIsNoOtherBox DEF Restart, B
<1>15. CASE Terminate \/ UNCHANGED vars
  BY <1>1, <1>15 DEF Terminate, vars
<1> QED
  BY <1>5, <1>7, <1>10, <1>11, <1>12, <1>13, <1>14, <1>15 DEF Next, Worker, Host

LEMMA FieldsHiddenInit == Init => FieldsHidden
  BY FieldIsNoOtherBox DEF Init, FieldsHidden, Reachable

LEMMA TidyAlways == ASSUME TidyProgram PROVE Spec => [](TypeInv /\ LockInv /\ FieldsHidden)
<1>1. FieldsHidden /\ TypeInv /\ [Next]_vars => FieldsHidden'
  BY FieldsHiddenStep
<1> QED
  BY <1>1, FieldsHiddenInit, LocksAlways, PTL DEF Spec

(* If no body writes an argument or returns a field, then no thread ever   *)
(* writes a box that another thread, the host or the subscription server   *)
(* may be reading.                                                         *)
THEOREM TidyProgramsDoNotRace ==
  ASSUME TidyProgram
  PROVE  Spec => []NoDataRace
<1>1. TypeInv /\ LockInv /\ FieldsHidden => NoDataRace
  <2> SUFFICES ASSUME TypeInv, LockInv, FieldsHidden, NEW t \in Threads
               PROVE  /\ \A u \in Threads \ {t} : MayWrite(t) \cap MayRead(u) = {}
                      /\ MayWrite(t) \cap Published = {}
    BY DEF NoDataRace, NoRaceAmongThreads
  <2>1. \A u \in Threads : cell[u] \in Cells
    BY DEF TypeInv, TypeOK
  <2>2. MayWrite(t) \subseteq {SelfBox(cell[t])}
    BY <2>1 DEF MayWrite, TidyProgram
  <2>3. ~Reachable(SelfBox(cell[t]))
    BY <2>1 DEF FieldsHidden
  <2>4. SelfBox(cell[t]) \notin Published
    BY <2>3 DEF Published, Reachable
  <2>5. ASSUME NEW u \in Threads \ {t}, NEW b \in MayWrite(t), b \in MayRead(u)
        PROVE  FALSE
    <3>1. cell[u] # cell[t]
      BY <2>5 DEF MayWrite, MayRead, Running, LockInv, MutualExclusion, Holding, HoldingPhases
    <3>2. SelfBox(cell[u]) # SelfBox(cell[t])
      BY <3>1 DEF SelfBox
    <3>3. \A i \in DOMAIN frame[u] : frame[u][i] # SelfBox(cell[t])
      BY <2>3 DEF Reachable
    <3>4. SelfBox(cell[t]) \notin Relayed(u)
      BY <2>3 DEF Reachable, Relayed
    <3> QED
      BY <2>2, <2>5, <3>2, <3>3, <3>4 DEF MayRead
  <2> QED
    BY <2>2, <2>4, <2>5
<1> QED
  BY <1>1, TidyAlways, PTL

(* exit() writes no box that was there before: return_result_ stays what   *)
(* it is, or points to a box of its own.                                   *)
LEMMA ReturnLastKeeps ==
  ASSUME heap \in [Box -> Value], NEW t \in Threads, ReturnLast(t),
         NEW b \in Box, \A h : Settle(h) => heap'[b] = h[b],
         FreshBoxes # {} => NewBox # b
  PROVE  heap'[b] = heap[b]
<1>1. heap'[b] = [heap EXCEPT ![ResultBox(t)] = LastResult(t)][b]
  BY DEF ReturnLast, WriteBox
<1>2. CASE return_result[t] = NoBox
  BY <1>1, <1>2 DEF ReturnLast, HasResult, ResultBox
<1>3. CASE return_result[t] # NoBox
  BY <1>1, <1>3 DEF ResultBox, LastResult
<1> QED
  BY <1>2, <1>3

(* A step of a tidy program writes fields and new boxes, and forgets boxes *)
(* nobody points to: every other box keeps what it holds.                  *)
LEMMA OtherBoxesKeep ==
  ASSUME TidyProgram, TypeInv, [Next]_vars,
         NEW b \in Box, b[1] # "new" \/ Reachable(b)',
         FreshBoxes # {} => NewBox # b, \A c \in Cells : SelfBox(c) # b
  PROVE  heap'[b] = heap[b]
<1>1. \A h : Settle(h) => heap'[b] = h[b]
  BY DEF Settle
<1>2. \A x, v : x # b /\ WriteBox(x, v) => heap'[b] = heap[b]
  <2> SUFFICES ASSUME NEW x, NEW v, x # b, WriteBox(x, v)
               PROVE  heap'[b] = heap[b]
    OBVIOUS
  <2>1. DOMAIN heap = Box
    BY DEF TypeInv, TypeOK
  <2>2. heap'[b] = [heap EXCEPT ![x] = v][b]
    BY <1>1 DEF WriteBox
  <2> QED
    BY <2>1, <2>2
<1>3. Settle(heap) \/ UNCHANGED heap => heap'[b] = heap[b]
  BY <1>1
<1>4. FreshBoxes # {} => NewBox # b
  OBVIOUS
<1>5. \A t \in Threads : FieldBox(t) # b
  BY DEF FieldBox, TypeInv, TypeOK
<1>6. ASSUME NEW t \in Threads, Body(t) PROVE heap'[b] = heap[b]
  <2>1. ~PokeArg(t) /\ ~RelayPoke(t)
    BY DEF PokeArg, RelayPoke, May, TidyProgram, TypeInv, TypeOK
  <2>2. CASE BumpSelf(t) \/ StoreSelf(t) \/ RelayStore(t)
    BY <1>2, <1>5, <2>2 DEF BumpSelf, StoreSelf, RelayStore
  <2>3. CASE ReturnNew(t)
    BY <1>2, <1>4, <2>3 DEF ReturnNew
  <2>4. CASE ReturnSelf(t) \/ ReturnArg(t)
    BY <1>3, <2>4 DEF ReturnSelf, ReturnArg
  <2>5. CASE CallFunction(t)
    BY <1>2, <1>3, <1>4, <2>5 DEF CallFunction
  <2>7. CASE Exit(t) \/ RelayReturn(t)
    BY <1>1, <1>4, <2>7, ReturnLastKeeps DEF TypeInv, TypeOK, Exit, RelayReturn
  <2>6. CASE Halt(t) \/ FallOff(t) \/ Throw(t)
    BY <1>3, <2>6 DEF Halt, FallOff, Throw, data
  <2> QED
    BY <1>6, <2>1, <2>2, <2>3, <2>4, <2>5, <2>6, <2>7 DEF Body
<1>7. ASSUME NEW t \in Threads, Worker(t), ~Body(t) PROVE heap'[b] = heap[b]
  BY <1>3, <1>7 DEF Worker, Draw, Quit, Enter, Skip, ReadArg, Publish, SetOutput,
                    Unlock, Fail, data
<1>8. ASSUME NEW m \in Inputs, SetInput(m) PROVE heap'[b] = heap[b]
  BY <1>2, <1>4, <1>8 DEF SetInput
<1>9. ASSUME Terminate \/ Restart \/ UNCHANGED vars PROVE heap'[b] = heap[b]
  BY <1>3, <1>9 DEF Terminate, Restart, data, vars
<1> QED
  BY <1>6, <1>7, <1>8, <1>9 DEF Next, Host

(* So a box somebody points to before and after the step keeps its value, *)
LEMMA ReachedBoxesKeep ==
  ASSUME TidyProgram, TypeInv, FieldsHidden, [Next]_vars,
         NEW b \in Box, Reachable(b), Reachable(b)'
  PROVE  heap'[b] = heap[b]
<1>1. FreshBoxes # {} => NewBox # b
  BY NewBoxIsFresh DEF FreshBoxes
<1>2. \A c \in Cells : SelfBox(c) # b
  BY DEF FieldsHidden
<1> QED
  BY <1>1, <1>2, OtherBoxesKeep

(* and so does a published box, while it is the value of its node. *)
LEMMA PublishedBoxesKeep ==
  ASSUME TidyProgram, TypeInv, FieldsHidden, [Next]_vars,
         NEW n \in Nodes, val'[n] = val[n]
  PROVE  heap'[val[n]] = heap[val[n]]
<1>1. PICK b \in Box : b = val[n]
  BY DEF TypeInv, TypeOK
<1>2. Reachable(b) /\ Reachable(b)'
  BY <1>1 DEF Reachable
<1> QED
  BY <1>1, <1>2, ReachedBoxesKeep

(* In a step that does not publish a value of c, the value of c stays. *)
LEMMA OnlyPublishMovesValue ==
  ASSUME TypeInv, [Next]_vars, NEW c \in Cells,
         ~\E t \in Threads : cell[t] = c /\ Publish(t)
  PROVE  val'[c] = val[c]
<1> USE DEF TypeInv, TypeOK, data
<1>1. c \in Nodes
  BY DEF Nodes
<1>2. ASSUME NEW t \in Threads, Publish(t) PROVE val'[c] = val[c]
  BY <1>1, <1>2 DEF Publish
<1>3. ASSUME NEW t \in Threads, Worker(t), ~Publish(t) PROVE val'[c] = val[c]
  BY <1>3 DEF Worker, Body, Draw, Quit, Enter, Skip, ReadArg, BumpSelf, StoreSelf, PokeArg,
              CallFunction, ReturnNew, ReturnSelf, ReturnArg, Exit, Halt, RelayReturn, ReturnLast,
              RelayStore, RelayPoke, Throw, FallOff, SetOutput, Unlock, Fail
<1>4. ASSUME NEW n \in Inputs, SetInput(n) PROVE val'[c] = val[c]
  BY <1>1, <1>4, ProgramAssumption DEF SetInput
<1>5. CASE Terminate \/ Restart \/ UNCHANGED vars
  BY <1>5 DEF Terminate, Restart, vars
<1> QED
  BY <1>2, <1>3, <1>4, <1>5 DEF Next, Host

(* If no body writes an argument or returns a field, the value of a cell   *)
(* changes in no step but the set_value of a thread executing the cell.    *)
THEOREM TidyValuesAreStable ==
  ASSUME TidyProgram
  PROVE  Spec => PublishedStable
<1>1. TypeInv /\ LockInv /\ FieldsHidden /\ [Next]_vars =>
        [\A c \in Cells : heap'[val'[c]] # heap[val[c]] =>
           \E t \in Threads : cell[t] = c /\ pc[t] = "publish" /\ pc'[t] # "publish"]_vars
  <2> SUFFICES ASSUME TypeInv, FieldsHidden, [Next]_vars, NEW c \in Cells,
                      heap'[val'[c]] # heap[val[c]]
               PROVE  \E t \in Threads : cell[t] = c /\ pc[t] = "publish" /\ pc'[t] # "publish"
    OBVIOUS
  <2>1. PICK t \in Threads : cell[t] = c /\ Publish(t)
    BY OnlyPublishMovesValue, PublishedBoxesKeep DEF Nodes
  <2> QED
    BY <2>1 DEF Publish, Goto, AfterPublish, TypeInv, TypeOK
<1> QED
  BY <1>1, TidyAlways, PTL DEF Spec, PublishedStable

-----------------------------------------------------------------------------
(* The fields of cells, and what cells that compute their values publish.  *)

(* A field is written by a step of the body of its own cell only. *)
LEMMA FieldsKeep ==
  ASSUME TidyProgram, TypeInv, [Next]_vars, NEW c \in Cells,
         ~\E t \in Threads : cell[t] = c /\ (BumpSelf(t) \/ StoreSelf(t) \/ RelayStore(t))
  PROVE  heap'[SelfBox(c)] = heap[SelfBox(c)]
<1>. DEFINE b == SelfBox(c)
<1>1. b \in Box /\ b[1] = "self"
  BY NodeBoxes DEF Nodes, SelfBox
<1>2. \A h : Settle(h) => heap'[b] = h[b]
  BY <1>1 DEF Settle
<1>3. \A x, v : x # b /\ WriteBox(x, v) => heap'[b] = heap[b]
  BY <1>1, <1>2 DEF WriteBox, TypeInv, TypeOK
<1>4. Settle(heap) \/ UNCHANGED heap => heap'[b] = heap[b]
  BY <1>2
<1>5. FreshBoxes # {} => NewBox # b
  BY <1>1, NewBoxIsFresh DEF FreshBoxes
<1>6. \A t \in Threads : cell[t] # c => FieldBox(t) # b
  BY DEF FieldBox, SelfBox
<1>. HIDE DEF b
<1>7. ASSUME NEW t \in Threads, Body(t) PROVE heap'[b] = heap[b]
  <2>1. ~PokeArg(t) /\ ~RelayPoke(t)
    BY DEF PokeArg, RelayPoke, May, TidyProgram, TypeInv, TypeOK
  <2>2. CASE BumpSelf(t) \/ StoreSelf(t) \/ RelayStore(t)
    BY <1>3, <1>6, <2>2 DEF BumpSelf, StoreSelf, RelayStore
  <2>3. CASE ReturnNew(t)
    BY <1>3, <1>5, <2>3 DEF ReturnNew
  <2>4. CASE ReturnSelf(t) \/ ReturnArg(t)
    BY <1>4, <2>4 DEF ReturnSelf, ReturnArg
  <2>5. CASE CallFunction(t)
    BY <1>3, <1>4, <1>5, <2>5 DEF CallFunction
  <2>7. CASE Exit(t) \/ RelayReturn(t)
    BY <1>1, <1>2, <1>5, <2>7, ReturnLastKeeps DEF TypeInv, TypeOK, Exit, RelayReturn
  <2>6. CASE Halt(t) \/ FallOff(t) \/ Throw(t)
    BY <1>4, <2>6 DEF Halt, FallOff, Throw, data
  <2> QED
    BY <1>7, <2>1, <2>2, <2>3, <2>4, <2>5, <2>6, <2>7 DEF Body
<1>8. ASSUME NEW t \in Threads, Worker(t), ~Body(t) PROVE heap'[b] = heap[b]
  BY <1>4, <1>8 DEF Worker, Draw, Quit, Enter, Skip, ReadArg, Publish, SetOutput,
                    Unlock, Fail, data
<1>9. ASSUME NEW m \in Inputs, SetInput(m) PROVE heap'[b] = heap[b]
  BY <1>3, <1>5, <1>9 DEF SetInput
<1>10. ASSUME Terminate \/ Restart \/ UNCHANGED vars PROVE heap'[b] = heap[b]
  BY <1>4, <1>10 DEF Terminate, Restart, data, vars
<1>11. heap'[b] = heap[b]
  BY <1>7, <1>8, <1>9, <1>10 DEF Next, Host
<1> QED
  BY <1>11 DEF b

(* If no body writes an argument or returns a field, this.f changes only   *)
(* while a thread executes the cell this stands for.                       *)
THEOREM TidyFieldsArePrivate ==
  ASSUME TidyProgram
  PROVE  Spec => FieldsPrivate
<1>1. TypeInv /\ [Next]_vars =>
        [\A c \in Cells : heap'[SelfBox(c)] # heap[SelfBox(c)] =>
           \E t \in Threads : Holding(t) /\ cell[t] = c]_vars
  <2> SUFFICES ASSUME TypeInv, [Next]_vars, NEW c \in Cells,
                      heap'[SelfBox(c)] # heap[SelfBox(c)]
               PROVE  \E t \in Threads : Holding(t) /\ cell[t] = c
    OBVIOUS
  <2>1. PICK t \in Threads : cell[t] = c /\ (BumpSelf(t) \/ StoreSelf(t) \/ RelayStore(t))
    BY FieldsKeep
  <2> QED
    BY <2>1 DEF BumpSelf, StoreSelf, RelayStore, May, Running, Holding, HoldingPhases
<1> QED
  BY <1>1, LocksAlways, PTL DEF Spec, FieldsPrivate

(* A program, besides, in which no body calls exit() itself or uses the    *)
(* value of a call in which a function does.  A function may still call    *)
(* exit() where its value is not used.                                     *)
NoExit == \A c \in Cells : Ops[c] \cap {"exit", "relay"} = {}

(* What a thread is about to publish: a value the body computed, or the    *)
(* box of an argument it has read.                                         *)
ResultIsOwn ==
  \A t \in Threads : pc[t] = "publish" =>
    /\ ArgsRead(t)
    /\ \/ heap[return_result[t]].by = cell[t]
       \/ /\ "arg" \in Ops[cell[t]]
          /\ \E i \in DOMAIN frame[t] : return_result[t] = frame[t][i]

LEMMA ResultIsOwnStep ==
  ASSUME TidyProgram, NoExit, TypeInv, FieldsHidden, ResultIsOwn, [Next]_vars
  PROVE  ResultIsOwn'
<1> SUFFICES ASSUME NEW t \in Threads, pc'[t] = "publish"
             PROVE  /\ ArgsRead(t)'
                    /\ \/ heap'[return_result'[t]].by = cell'[t]
                       \/ /\ "arg" \in Ops[cell'[t]]
                          /\ \E i \in DOMAIN frame'[t] : return_result'[t] = frame'[t][i]
  BY DEF ResultIsOwn
<1>. USE DEF TypeInv, TypeOK, control, data
<1>1. CASE ReturnNew(t)
  <2>1. PICK m \in Marks : WriteBox(NewBox, [by |-> cell[t], mark |-> m])
    BY <1>1 DEF ReturnNew
  <2>2. return_result'[t] = NewBox /\ UNCHANGED <<cell, frame>> /\ ArgsRead(t)
    BY <1>1 DEF ReturnNew, Return, SetReturnResult, May, Running
  <2>3. PICK n \in Box : n = NewBox
    BY <1>1, NewBoxIsFresh DEF ReturnNew
  <2>4. Reachable(n)'
    BY <2>2, <2>3 DEF Reachable
  <2>5. heap'[n] = [heap EXCEPT ![n] = [by |-> cell[t], mark |-> m]][n]
    BY <2>1, <2>3, <2>4 DEF WriteBox, Settle
  <2>6. heap'[return_result'[t]].by = cell'[t]
    BY <2>2, <2>3, <2>5
  <2>. QED
    BY <2>2, <2>6 DEF ArgsRead
<1>2. CASE ReturnArg(t)
  BY <1>2 DEF ReturnArg, Return, SetReturnResult, May, Running, ArgsRead
<1>3. CASE pc[t] = "publish" /\ UNCHANGED <<cell[t], frame[t], return_result[t]>>
  <2>1. PICK b \in Box : b = return_result[t]
    BY <1>3 DEF ResultDefined
  <2>2. Reachable(b) /\ Reachable(b)'
    BY <1>3, <2>1 DEF Reachable
  <2>3. heap'[b] = heap[b]
    BY <2>2, ReachedBoxesKeep
  <2>. QED
    BY <1>3, <2>1, <2>3 DEF ResultIsOwn, ArgsRead
<1>4. ASSUME NEW u \in Threads, Worker(u)
      PROVE  ReturnNew(t) \/ ReturnArg(t)
             \/ (pc[t] = "publish" /\ UNCHANGED <<cell[t], frame[t], return_result[t]>>)
  <2>1. ~ReturnSelf(u) /\ ~Exit(u) /\ ~RelayReturn(u) /\ ~RelayStore(u) /\ ~RelayPoke(u)
    BY DEF ReturnSelf, Exit, RelayReturn, RelayStore, RelayPoke, May, TidyProgram, NoExit
  <2>2. CASE ReturnNew(u) \/ ReturnArg(u)
    BY <2>2 DEF ReturnNew, ReturnArg, Return, Goto, SetReturnResult
  <2>3. CASE Draw(u) \/ Quit(u) \/ Enter(u) \/ Skip(u) \/ ReadArg(u) \/ Fail(u)
    BY <2>3 DEF Draw, Quit, Enter, Skip, ReadArg, Fail, Goto
  <2>4. CASE BumpSelf(u) \/ StoreSelf(u) \/ PokeArg(u) \/ Halt(u) \/ Throw(u) \/ FallOff(u)
    BY <2>4 DEF BumpSelf, StoreSelf, PokeArg, Halt, Throw, FallOff, Step, Goto
  <2>5. CASE CallFunction(u)
    <3>1. pc[u] = "exec" /\ UNCHANGED <<pc, cell, frame>>
      BY <2>5 DEF CallFunction, May, Running, Step
    <3>2. u # t => return_result'[t] = return_result[t]
      BY <2>5 DEF CallFunction, SetReturnResult
    <3>. QED
      BY <3>1, <3>2
  <2>6. CASE Publish(u) \/ SetOutput(u)
    BY <2>6 DEF Publish, SetOutput, Goto, AfterPublish
  <2>7. CASE Unlock(u)
    BY <2>7 DEF Unlock, Goto
  <2>. QED
    BY <1>4, <2>1, <2>2, <2>3, <2>4, <2>5, <2>6, <2>7 DEF Worker, Body
<1>5. CASE \E n \in Inputs : SetInput(n)
  BY <1>3, <1>5 DEF SetInput
<1>6. CASE Terminate \/ UNCHANGED vars
  BY <1>3, <1>6 DEF Terminate, vars
<1>7. ~Restart
  BY DEF Restart
<1>. QED
  BY <1>1, <1>2, <1>3, <1>4, <1>5, <1>6, <1>7 DEF Next, Host

LEMMA ResultsAlwaysOwn ==
  ASSUME TidyProgram, NoExit
  PROVE  Spec => [](TypeInv /\ LockInv /\ FieldsHidden /\ ResultIsOwn)
<1>1. Init => ResultIsOwn
  BY DEF Init, ResultIsOwn
<1>2. TypeInv /\ FieldsHidden /\ ResultIsOwn /\ [Next]_vars => ResultIsOwn'
  BY ResultIsOwnStep
<1> QED
  BY <1>1, <1>2, TidyAlways, PTL DEF Spec

(* If, besides, no body calls exit() or uses the value of a function that  *)
(* does, a cell that returns only what it computes never shows the value   *)
(* of another cell.                                                        *)
THEOREM TidyValuesAreOwn ==
  ASSUME TidyProgram, NoExit
  PROVE  Spec => []OwnValues
<1>1. Init => OwnValues
  <2> SUFFICES ASSUME Init, NEW c \in Cells PROVE heap[val[c]].by = Nobody
    BY DEF OwnValues
  <2>1. val[c] = <<"init", c>> /\ <<"init", c>> \in Box
    BY DEF Init, Nodes, InitBox, Box
  <2>2. <<"init", c>>[1] # "lit"
    OBVIOUS
  <2>3. heap[<<"init", c>>] = Undefined
    BY <2>1, <2>2 DEF Init
  <2> QED
    BY <2>1, <2>3 DEF Undefined
<1>2. TypeInv /\ FieldsHidden /\ ResultIsOwn /\ OwnValues /\ [Next]_vars => OwnValues'
  <2> SUFFICES ASSUME TypeInv, FieldsHidden, ResultIsOwn, OwnValues, [Next]_vars,
                      NEW c \in Cells, Ops[c] \cap {"self", "arg"} = {}
               PROVE  heap'[val'[c]].by \in {c, Nobody}
    BY DEF OwnValues
  <2>1. CASE \E t \in Threads : cell[t] = c /\ Publish(t)
    <3>1. PICK t \in Threads : cell[t] = c /\ Publish(t)
      BY <2>1
    <3>2. PICK b \in Box : b = return_result[t]
      BY <3>1 DEF Publish, TypeInv, ResultDefined
    <3>3. val'[c] = b /\ UNCHANGED return_result
      BY <3>1, <3>2 DEF Publish, TypeInv, TypeOK, Nodes
    <3>4. Reachable(b) /\ Reachable(b)'
      BY <3>2, <3>3 DEF Reachable
    <3>5. heap'[b] = heap[b]
      BY <3>4, ReachedBoxesKeep
    <3>6. heap[b].by = c
      BY <3>1, <3>2 DEF ResultIsOwn, Publish
    <3>. QED
      BY <3>3, <3>5, <3>6
  <2>2. CASE ~\E t \in Threads : cell[t] = c /\ Publish(t)
    <3>1. val'[c] = val[c] /\ c \in Nodes
      BY <2>2, OnlyPublishMovesValue DEF Nodes
    <3>2. heap'[val[c]] = heap[val[c]]
      BY <3>1, PublishedBoxesKeep
    <3>. QED
      BY <3>1, <3>2 DEF OwnValues
  <2>. QED
    BY <2>1, <2>2
<1> QED
  BY <1>1, <1>2, ResultsAlwaysOwn, PTL DEF Spec
=============================================================================
