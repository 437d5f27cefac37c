-------------------------- MODULE CellActors_proofs --------------------------
(***************************************************************************)
(* The threads, locks and boxes of CellScheduler implement the actors of   *)
(* CellActors, for every program whose bodies neither write an argument,   *)
(* return a field nor call exit(), and for every number of threads, cells  *)
(* and boxes.                                                              *)
(***************************************************************************)
EXTENDS CellScheduler_proofs

-----------------------------------------------------------------------------
(* What the actors see, cell by cell. *)

PhaseOf(t) == IF pc[t] \in {"exec", "publish"} THEN "work" ELSE "done"
Contents(t) == [i \in DOMAIN frame[t] |-> heap[frame[t][i]]]

Executes(t, c) == Holding(t) /\ cell[t] = c
Idle(c) == \A t \in Threads : ~Executes(t, c)

(* The actor of a cell shows what the thread that executes it is doing. *)
LEMMA ActorOfHolder ==
  MutualExclusion =>
    \A t \in Threads : \A c \in Cells : Executes(t, c) =>
      ActorPhase(c) = PhaseOf(t) /\ ActorSeen(c) = Contents(t)
<1> SUFFICES ASSUME MutualExclusion, NEW t \in Threads, NEW c \in Cells, Executes(t, c)
             PROVE  ActorPhase(c) = PhaseOf(t) /\ ActorSeen(c) = Contents(t)
  OBVIOUS
<1>1. t \in Holders(c) /\ \A u \in Holders(c) : u = t
  BY DEF Executes, Holders, MutualExclusion
<1>2. Holder(c) = t
  BY <1>1 DEF Holder
<1> QED
  BY <1>1, <1>2 DEF ActorPhase, ActorSeen, PhaseOf, Contents

LEMMA ActorAtRest ==
  \A c \in Cells : Idle(c) => ActorPhase(c) = "rest" /\ ActorSeen(c) = <<>>
<1> SUFFICES ASSUME NEW c \in Cells, Idle(c)
             PROVE  ActorPhase(c) = "rest" /\ ActorSeen(c) = <<>>
  OBVIOUS
<1>1. Holders(c) = {}
  BY DEF Idle, Executes, Holders
<1> QED
  BY <1>1 DEF ActorPhase, ActorSeen

(* Both, before and after a step. *)
Views ==
  \A c \in Cells :
    /\ \A t \in Threads : Executes(t, c) =>
         ActorPhase(c) = PhaseOf(t) /\ ActorSeen(c) = Contents(t)
    /\ Idle(c) => ActorPhase(c) = "rest" /\ ActorSeen(c) = <<>>

LEMMA LockedViews == LockInv => Views
  BY ActorOfHolder, ActorAtRest DEF LockInv, Views

(* The constant argument of a cell keeps the value it was compiled to. *)
ConstantsHold == \A c \in Cells : heap[LitBox(c)] = Actors!Constant(c)

LEMMA ConstantsInit == Init => ConstantsHold
<1> SUFFICES ASSUME Init, NEW c \in Cells PROVE heap[LitBox(c)] = Actors!Constant(c)
  BY DEF ConstantsHold
<1>1. LitBox(c) \in Box /\ LitBox(c)[1] = "lit" /\ LitBox(c)[2] = c
  BY NodeBoxes DEF LitBox, Nodes
<1>2. heap[LitBox(c)] = [Undefined EXCEPT !.by = c]
  BY <1>1 DEF Init
<1> QED
  BY <1>2 DEF Undefined, Actors!Constant, Actors!Undefined

LEMMA ConstantsStep ==
  TidyProgram /\ TypeInv /\ ConstantsHold /\ [Next]_vars => ConstantsHold'
<1> SUFFICES ASSUME TidyProgram, TypeInv, ConstantsHold, [Next]_vars, NEW c \in Cells
             PROVE  heap'[LitBox(c)] = Actors!Constant(c)
  BY DEF ConstantsHold, Actors!Constant, Actors!Undefined
<1>1. PICK b \in Box : b = LitBox(c)
  BY NodeBoxes DEF Nodes
<1>2. b[1] = "lit" /\ \A d \in Cells : SelfBox(d) # b
  BY <1>1 DEF LitBox, SelfBox
<1>3. FreshBoxes # {} => NewBox # b
  BY <1>2, NewBoxIsFresh DEF FreshBoxes
<1>4. heap'[b] = heap[b]
  BY <1>2, <1>3, OtherBoxesKeep
<1> QED
  BY <1>1, <1>4 DEF ConstantsHold

(* What the step of the actors is derived from. *)
TidyInv == TypeInv /\ LockInv /\ FieldsHidden /\ ResultIsOwn /\ ConstantsHold

LEMMA TidyInvAlways ==
  ASSUME TidyProgram, NoExit
  PROVE  Spec => []TidyInv
<1>1. Init => ConstantsHold
  BY ConstantsInit
<1>2. TypeInv /\ ConstantsHold /\ [Next]_vars => ConstantsHold'
  BY ConstantsStep
<1> QED
  BY <1>1, <1>2, ResultsAlwaysOwn, PTL DEF Spec, TidyInv

-----------------------------------------------------------------------------
(* Cells whose actor does nothing in a step. *)

Same(c) == ActorPhase(c)' = ActorPhase(c) /\ ActorSeen(c)' = ActorSeen(c)

(* What a frame points to keeps its value as long as the frame does. *)
LEMMA ContentsKeep ==
  ASSUME TidyProgram, TidyInv, [Next]_vars,
         NEW t \in Threads, frame'[t] = frame[t]
  PROVE  Contents(t)' = Contents(t)
<1>1. ASSUME NEW i \in DOMAIN frame[t] PROVE heap'[frame[t][i]] = heap[frame[t][i]]
  <2>1. PICK b \in Box : b = frame[t][i]
    BY DEF TidyInv, TypeInv, TypeOK
  <2>2. Reachable(b) /\ Reachable(b)'
    BY <2>1 DEF Reachable
  <2> QED
    BY <2>1, <2>2, ReachedBoxesKeep DEF TidyInv
<1> QED
  BY <1>1 DEF Contents

LEMMA HolderKeeps ==
  ASSUME TidyProgram, TidyInv, [Next]_vars, Views', NEW c \in Cells, NEW t \in Threads,
         Executes(t, c), Executes(t, c)', frame'[t] = frame[t], PhaseOf(t)' = PhaseOf(t)
  PROVE  Same(c)
<1>1. ActorPhase(c) = PhaseOf(t) /\ ActorSeen(c) = Contents(t)
  BY LockedViews DEF TidyInv, Views
<1>2. ActorPhase(c)' = PhaseOf(t)' /\ ActorSeen(c)' = Contents(t)'
  BY DEF Views
<1> QED
  BY <1>1, <1>2, ContentsKeep DEF Same

LEMMA RestKeeps ==
  ASSUME TidyInv, Views', NEW c \in Cells, Idle(c), Idle(c)'
  PROVE  Same(c)
  BY LockedViews DEF TidyInv, Views, Same

(* A thread changes nothing of what the other threads are doing. *)
LEMMA StepsAreLocal ==
  ASSUME TypeOK, NEW t \in Threads, Worker(t), NEW u \in Threads, u # t
  PROVE  pc'[u] = pc[u] /\ cell'[u] = cell[u] /\ frame'[u] = frame[u]
<1> USE DEF TypeOK, Goto, control, data
<1>1. CASE Draw(t) \/ Quit(t) \/ Enter(t) \/ Skip(t) \/ ReadArg(t)
  BY <1>1 DEF Draw, Quit, Enter, Skip, ReadArg
<1>2. CASE \/ BumpSelf(t) \/ StoreSelf(t) \/ PokeArg(t) \/ CallFunction(t) \/ Halt(t)
          \/ RelayStore(t) \/ RelayPoke(t)
  BY <1>2 DEF BumpSelf, StoreSelf, PokeArg, CallFunction, Halt, RelayStore, RelayPoke, Step
<1>3. CASE ReturnNew(t) \/ ReturnSelf(t) \/ ReturnArg(t) \/ Exit(t) \/ RelayReturn(t)
  BY <1>3 DEF ReturnNew, ReturnSelf, ReturnArg, Exit, RelayReturn, ReturnLast, Return
<1>4. CASE Throw(t) \/ FallOff(t) \/ Publish(t) \/ SetOutput(t) \/ Unlock(t) \/ Fail(t)
  BY <1>4 DEF Throw, FallOff, Publish, SetOutput, Unlock, Fail
<1> QED
  BY <1>1, <1>2, <1>3, <1>4 DEF Worker, Body

LEMMA OtherCellsKeep ==
  ASSUME TidyProgram, TidyInv, [Next]_vars, Views', NEW t \in Threads, Worker(t),
         NEW c \in Cells, ~Executes(t, c), ~Executes(t, c)'
  PROVE  Same(c)
<1>1. CASE \E u \in Threads \ {t} : Executes(u, c)
  <2>1. PICK u \in Threads \ {t} : Executes(u, c)
    BY <1>1
  <2>2. pc'[u] = pc[u] /\ cell'[u] = cell[u] /\ frame'[u] = frame[u]
    BY StepsAreLocal DEF TidyInv, TypeInv
  <2>3. Executes(u, c)' /\ PhaseOf(u)' = PhaseOf(u)
    BY <2>1, <2>2 DEF Executes, Holding, PhaseOf
  <2> QED
    BY <2>1, <2>2, <2>3, HolderKeeps
<1>2. CASE ~\E u \in Threads \ {t} : Executes(u, c)
  <2>1. \A u \in Threads \ {t} :
          pc'[u] = pc[u] /\ cell'[u] = cell[u] /\ frame'[u] = frame[u]
    BY StepsAreLocal DEF TidyInv, TypeInv
  <2>2. Idle(c) /\ Idle(c)'
    BY <1>2, <2>1 DEF Idle, Executes, Holding
  <2> QED
    BY <2>2, RestKeeps
<1> QED
  BY <1>1, <1>2

(* A thread that keeps its cell, its frame and its phase moves no actor. *)
LEMMA QuietThread ==
  ASSUME TidyProgram, TidyInv, [Next]_vars, Views', NEW t \in Threads, Worker(t),
         Holding(t)' <=> Holding(t),
         Holding(t) => /\ cell'[t] = cell[t]
                       /\ frame'[t] = frame[t]
                       /\ PhaseOf(t)' = PhaseOf(t)
  PROVE  \A c \in Cells : Same(c)
<1> SUFFICES ASSUME NEW c \in Cells PROVE Same(c)
  OBVIOUS
<1>1. CASE Executes(t, c)
  <2>1. Executes(t, c)'
    BY <1>1 DEF Executes
  <2> QED
    BY <1>1, <2>1, HolderKeeps DEF Executes
<1>2. CASE ~Executes(t, c)
  <2>1. ~Executes(t, c)'
    BY <1>2 DEF Executes
  <2> QED
    BY <1>2, <2>1, OtherCellsKeep
<1> QED
  BY <1>1, <1>2

(* A step of the host moves no actor either. *)
LEMMA QuietHosts ==
  ASSUME TidyProgram, TidyInv, [Next]_vars, Views', Host \/ UNCHANGED vars
  PROVE  \A c \in Cells : Same(c)
<1> SUFFICES ASSUME NEW c \in Cells PROVE Same(c)
  OBVIOUS
<1>1. CASE Restart
  <2>1. \A t \in Threads : ~Holding(t) /\ ~Holding(t)'
    BY <1>1 DEF Restart, Holding, HoldingPhases
  <2> QED
    BY <2>1, RestKeeps DEF Idle, Executes
<1>2. CASE ~Restart
  <2>1. pc' = pc /\ cell' = cell /\ frame' = frame
    BY <1>2 DEF Host, SetInput, Terminate, vars, control, data
  <2>2. CASE Idle(c)
    <3>1. Idle(c)'
      BY <2>1, <2>2 DEF Idle, Executes, Holding
    <3> QED
      BY <2>2, <3>1, RestKeeps
  <2>3. CASE ~Idle(c)
    <3>1. PICK t \in Threads : Executes(t, c)
      BY <2>3 DEF Idle
    <3>2. Executes(t, c)' /\ PhaseOf(t)' = PhaseOf(t)
      BY <2>1, <3>1 DEF Executes, Holding, PhaseOf
    <3> QED
      BY <2>1, <3>1, <3>2, HolderKeeps
  <2> QED
    BY <2>2, <2>3
<1> QED
  BY <1>1, <1>2

-----------------------------------------------------------------------------
(* Every step of the threads as a step of the actors. *)

FieldsStay == \A c \in Cells : heap'[SelfBox(c)] = heap[SelfBox(c)]
ValuesStay == \A n \in Nodes : heap'[val'[n]] = heap[val[n]]

(* The variables of the actors. *)
phaseA == [c \in Cells |-> ActorPhase(c)]
seenA  == [c \in Cells |-> ActorSeen(c)]
fieldA == [c \in Cells |-> heap[SelfBox(c)]]
valueA == [n \in Nodes |-> heap[val[n]]]

LEMMA ValuesKeep ==
  ASSUME TidyProgram, TidyInv, [Next]_vars, val' = val
  PROVE  ValuesStay
  BY PublishedBoxesKeep DEF TidyInv, ValuesStay

LEMMA ActorsRest ==
  ASSUME \A c \in Cells : Same(c), FieldsStay, ValuesStay
  PROVE  UNCHANGED Actors!avars
<1>1. phaseA' = phaseA /\ seenA' = seenA
  BY DEF Same, phaseA, seenA
<1>2. fieldA' = fieldA /\ valueA' = valueA
  BY DEF FieldsStay, ValuesStay, fieldA, valueA
<1> QED
  BY <1>1, <1>2 DEF Actors!avars, phaseA, seenA, fieldA, valueA

(* Drawing an index, a call of a function, a return and the output of a    *)
(* cell are steps of the thread alone.                                     *)
LEMMA ThreadAlone ==
  ASSUME TidyProgram, NoExit, TidyInv, [Next]_vars, Views', FieldsStay, NEW t \in Threads,
         \/ Draw(t) \/ Quit(t) \/ Skip(t) \/ CallFunction(t) \/ Halt(t)
         \/ ReturnNew(t) \/ ReturnArg(t) \/ SetOutput(t) \/ Fail(t)
  PROVE  UNCHANGED Actors!avars
<1> USE DEF TidyInv, TypeInv, TypeOK, Holding, HoldingPhases, PhaseOf, Goto, control, data
<1>1. Worker(t)
  BY DEF Worker, Body
<1>2. val' = val /\ (Holding(t)' <=> Holding(t)) /\
      (Holding(t) => /\ cell'[t] = cell[t]
                     /\ frame'[t] = frame[t]
                     /\ PhaseOf(t)' = PhaseOf(t))
  <2>1. CASE Draw(t) \/ Quit(t) \/ Skip(t)
    BY <2>1 DEF Draw, Quit, Skip
  <2>2. CASE CallFunction(t) \/ Halt(t)
    BY <2>2 DEF CallFunction, Halt, Step
  <2>3. CASE ReturnNew(t) \/ ReturnArg(t)
    BY <2>3 DEF ReturnNew, ReturnArg, Return, May, Running
  <2>4. CASE SetOutput(t) \/ Fail(t)
    BY <2>4 DEF SetOutput, Fail
  <2> QED
    BY <2>1, <2>2, <2>3, <2>4
<1>3. \A c \in Cells : Same(c)
  BY <1>1, <1>2, QuietThread
<1> QED
  BY <1>2, <1>3, ValuesKeep, ActorsRest

(* try_lock begins an execution. *)
LEMMA EnterBegins ==
  ASSUME TidyProgram, TidyInv, [Next]_vars, Views', FieldsStay,
         NEW t \in Threads, Enter(t), NEW c \in Cells, c = cell[t]
  PROVE  Actors!Begin(c)
<1>1. /\ cell' = cell /\ frame' = frame /\ val' = val
      /\ pc[t] = "try" /\ pc'[t] = "exec"
  BY DEF Enter, Goto, TidyInv, TypeInv, TypeOK, data
<1>2. Idle(c) /\ Executes(t, c)' /\ PhaseOf(t)' = "work"
  BY <1>1 DEF Enter, TryLock, TidyInv, LockInv, LocksAreHeld, Idle, Executes,
              Holding, HoldingPhases, PhaseOf
<1>3. frame[t] = <<>>
  BY <1>1 DEF TidyInv, TypeInv, FramesFit, Holding, HoldingPhases
<1>4. Contents(t)' = <<>>
  BY <1>1, <1>3 DEF Contents
<1>5. \A d \in Cells \ {c} : Same(d)
  BY <1>1, OtherCellsKeep DEF Worker, Executes
<1>6. /\ ActorPhase(c) = "rest" /\ ActorSeen(c) = <<>>
      /\ ActorPhase(c)' = "work" /\ ActorSeen(c)' = <<>>
  BY <1>1, <1>2, <1>4, LockedViews DEF TidyInv, Views
<1>7. phaseA' = [phaseA EXCEPT ![c] = "work"] /\ seenA' = seenA
  BY <1>5, <1>6 DEF Same, phaseA, seenA
<1>8. fieldA' = fieldA /\ valueA' = valueA
  BY <1>1, ValuesKeep DEF FieldsStay, ValuesStay, fieldA, valueA
<1> QED
  BY <1>1, <1>6, <1>7, <1>8 DEF Actors!Begin, phaseA, seenA, fieldA, valueA

(* The values of a sequence of boxes. *)
LEMMA ValuesOfBoxes ==
  ASSUME NEW s \in Seq(Box), NEW h \in [Box -> Value]
  PROVE  /\ [i \in DOMAIN s |-> h[s[i]]] \in Seq(Value)
         /\ Len([i \in DOMAIN s |-> h[s[i]]]) = Len(s)
         /\ DOMAIN [i \in DOMAIN s |-> h[s[i]]] = DOMAIN s
  OBVIOUS

LEMMA ValuesOfOneMore ==
  ASSUME NEW s \in Seq(Box), NEW b \in Box, NEW h \in [Box -> Value]
  PROVE  [i \in DOMAIN Append(s, b) |-> h[Append(s, b)[i]]]
           = Append([i \in DOMAIN s |-> h[s[i]]], h[b])
<1>1. DOMAIN Append(s, b) = 1 .. Len(s) + 1
  OBVIOUS
<1>2. \A i \in 1 .. Len(s) + 1 :
        Append(s, b)[i] = IF i = Len(s) + 1 THEN b ELSE s[i]
  OBVIOUS
<1>3. \A i \in 1 .. Len(s) + 1 :
        Append([j \in DOMAIN s |-> h[s[j]]], h[b])[i]
          = IF i = Len(s) + 1 THEN h[b] ELSE h[s[i]]
  BY ValuesOfBoxes
<1>4. DOMAIN Append([j \in DOMAIN s |-> h[s[j]]], h[b]) = 1 .. Len(s) + 1
  BY ValuesOfBoxes
<1>5. Append([j \in DOMAIN s |-> h[s[j]]], h[b]) \in Seq(Value)
  BY ValuesOfBoxes
<1> QED
  BY <1>1, <1>2, <1>3, <1>4, <1>5

(* What a thread that executes a cell makes of its actor. *)
LEMMA WorkingActor ==
  ASSUME TidyInv, NEW t \in Threads, NEW c \in Cells, Executes(t, c)
  PROVE  /\ ActorPhase(c) = PhaseOf(t)
         /\ ActorSeen(c) = Contents(t)
         /\ Contents(t) \in Seq(Value)
         /\ Len(Contents(t)) = Len(frame[t])
         /\ DOMAIN Contents(t) = DOMAIN frame[t]
<1>1. frame[t] \in Seq(Box) /\ heap \in [Box -> Value]
  BY DEF TidyInv, TypeInv, TypeOK
<1>2. PICK s \in Seq(Box) : s = frame[t]
  BY <1>1
<1>3. PICK h \in [Box -> Value] : h = heap
  BY <1>1
<1>4. Contents(t) = [i \in DOMAIN s |-> h[s[i]]]
  BY <1>2, <1>3 DEF Contents
<1> QED
  BY <1>2, <1>4, ValuesOfBoxes, LockedViews DEF TidyInv, Views

(* The value of an argument is the constant or the value of the source. *)
LEMMA SourceValue ==
  ASSUME TidyInv, NEW c \in Cells, NEW i \in DOMAIN Sources[c]
  PROVE  heap[SourceBox(c, i)] = IF Sources[c][i] = Lit THEN Actors!Constant(c)
                                 ELSE valueA[Sources[c][i]]
<1>1. Sources[c][i] \in Nodes \cup {Lit}
  BY ProgramAssumption
<1> QED
  BY <1>1 DEF SourceBox, valueA, TidyInv, ConstantsHold

(* Reading an argument is observing the value of its source. *)
LEMMA ReadObserves ==
  ASSUME TidyProgram, TidyInv, [Next]_vars, Views', FieldsStay,
         NEW t \in Threads, ReadArg(t), NEW c \in Cells, c = cell[t]
  PROVE  Actors!Observe(c)
<1> DEFINE k == Len(frame[t]) + 1
<1>1. /\ pc[t] = "exec" /\ pc' = pc /\ cell' = cell /\ val' = val /\ heap' = heap
      /\ frame'[t] = Append(frame[t], SourceBox(c, k))
  BY DEF ReadArg, control, TidyInv, TypeInv, TypeOK
<1>2. frame[t] \in Seq(Box) /\ heap \in [Box -> Value] /\ k \in DOMAIN Sources[c]
  <2>1. Len(frame[t]) <= Len(Sources[c]) /\ Len(frame[t]) # Len(Sources[c])
    BY <1>1 DEF ReadArg, ArgsRead, TidyInv, TypeInv, FramesFit
  <2>2. frame[t] \in Seq(Box) /\ heap \in [Box -> Value]
    BY DEF TidyInv, TypeInv, TypeOK
  <2>3. Sources[c] \in Seq(Nodes \cup {Lit})
    BY ProgramAssumption
  <2> QED
    BY <2>1, <2>2, <2>3
<1>3. Executes(t, c) /\ Executes(t, c)' /\ PhaseOf(t) = "work" /\ PhaseOf(t)' = "work"
  BY <1>1 DEF Executes, Holding, HoldingPhases, PhaseOf
<1>4. SourceBox(c, k) \in Box
  BY <1>2, SourceBoxType DEF TidyInv, TypeInv
<1>5. Contents(t)' = Append(Contents(t), heap[SourceBox(c, k)])
  <2>1. PICK s \in Seq(Box), b \in Box, h \in [Box -> Value] :
          s = frame[t] /\ b = SourceBox(c, k) /\ h = heap
    BY <1>2, <1>4
  <2>2. Contents(t) = [i \in DOMAIN s |-> h[s[i]]]
    BY <2>1 DEF Contents
  <2>3. Contents(t)' = [i \in DOMAIN Append(s, b) |-> h[Append(s, b)[i]]]
    BY <1>1, <2>1 DEF Contents
  <2>4. [i \in DOMAIN Append(s, b) |-> h[Append(s, b)[i]]]
          = Append([i \in DOMAIN s |-> h[s[i]]], h[b])
    BY ValuesOfOneMore, Zenon
  <2>5. Contents(t)' = Append(Contents(t), h[b])
    BY <2>2, <2>3, <2>4, Zenon
  <2> QED
    BY <2>1, <2>5, Zenon
<1>6. \A d \in Cells \ {c} : Same(d)
  BY <1>1, OtherCellsKeep DEF Worker, Executes
<1>7. /\ ActorPhase(c) = "work" /\ ActorPhase(c)' = "work"
      /\ Len(ActorSeen(c)) = Len(frame[t])
      /\ ActorSeen(c)' = Append(ActorSeen(c), heap[SourceBox(c, k)])
  BY <1>3, <1>5, WorkingActor DEF Views
<1>8. phaseA' = phaseA
      /\ seenA' = [seenA EXCEPT ![c] = Append(@, heap[SourceBox(c, k)])]
  BY <1>6, <1>7 DEF Same, phaseA, seenA
<1>9. fieldA' = fieldA /\ valueA' = valueA
  BY <1>1 DEF fieldA, valueA
<1>10. phaseA[c] = "work" /\ Len(seenA[c]) = Len(frame[t]) /\ Len(seenA[c]) < Len(Sources[c])
  <2>1. Sources[c] \in Seq(Nodes \cup {Lit})
    BY ProgramAssumption
  <2> QED
    BY <1>2, <1>7, <2>1 DEF phaseA, seenA
<1>11. heap[SourceBox(c, k)] = IF Sources[c][k] = Lit THEN Actors!Constant(c)
                               ELSE valueA[Sources[c][k]]
  BY <1>2, SourceValue
<1> QED
  BY <1>8, <1>9, <1>10, <1>11 DEF Actors!Observe, phaseA, seenA, fieldA, valueA

(* A thread that runs the body of a cell has its actor ready. *)
LEMMA RunningIsReady ==
  ASSUME TidyInv, NEW t \in Threads, Running(t), NEW c \in Cells, c = cell[t]
  PROVE  Executes(t, c) /\ Actors!Ready(c)
<1>1. Executes(t, c) /\ PhaseOf(t) = "work" /\ Len(frame[t]) = Len(Sources[c])
  BY DEF Running, ArgsRead, Executes, Holding, HoldingPhases, PhaseOf
<1>2. ActorPhase(c) = "work" /\ Len(ActorSeen(c)) = Len(Sources[c])
  BY <1>1, WorkingActor
<1> QED
  BY <1>1, <1>2 DEF Actors!Ready

(* What it takes from an argument the actor has observed. *)
LEMMA ArgumentIsObserved ==
  ASSUME TidyInv, NEW t \in Threads, NEW c \in Cells, Executes(t, c),
         NEW i \in DOMAIN frame[t]
  PROVE  heap[frame[t][i]] \in Actors!Observed(c)
<1>1. ActorSeen(c) = Contents(t) /\ DOMAIN Contents(t) = DOMAIN frame[t]
  BY WorkingActor
<1>2. Contents(t)[i] = heap[frame[t][i]]
  BY DEF Contents
<1>3. seenA[c] = ActorSeen(c)
  BY DEF seenA
<1> QED
  BY <1>1, <1>2, <1>3 DEF Actors!Observed, seenA

(* What it computes carries the name of the cell. *)
LEMMA ResultIsComputed ==
  ASSUME NEW c \in Cells, NEW v \in Value, v.by = c
  PROVE  v \in Actors!Computed(c)
  BY DEF Actors!Computed, Actors!Value, Actors!Nodes, Value, Nodes

LEMMA FieldWritten ==
  ASSUME TypeInv, NEW c \in Cells, NEW v, WriteBox(SelfBox(c), v)
  PROVE  /\ heap'[SelfBox(c)] = v
         /\ \A d \in Cells \ {c} : heap'[SelfBox(d)] = heap[SelfBox(d)]
<1>1. DOMAIN heap = Box
  BY DEF TypeInv, TypeOK
<1>2. \A d \in Cells : SelfBox(d) \in Box /\ SelfBox(d)[1] # "new"
  BY NodeBoxes DEF SelfBox, Nodes
<1>3. \A d \in Cells : heap'[SelfBox(d)] = [heap EXCEPT ![SelfBox(c)] = v][SelfBox(d)]
  BY <1>2 DEF WriteBox, Settle
<1>4. \A d \in Cells \ {c} : SelfBox(d) # SelfBox(c)
  BY DEF SelfBox
<1> QED
  BY <1>1, <1>2, <1>3, <1>4

(* this.f = ... and ++this.f are the actor's memory. *)
LEMMA FieldRemembers ==
  ASSUME TidyProgram, TidyInv, [Next]_vars, Views',
         NEW t \in Threads, BumpSelf(t) \/ StoreSelf(t), NEW c \in Cells, c = cell[t]
  PROVE  Actors!Remember(c)
<1>1. /\ pc' = pc /\ cell' = cell /\ frame' = frame /\ val' = val /\ Running(t)
  BY DEF BumpSelf, StoreSelf, Step, May
<1>2. \A d \in Cells : Same(d)
  BY <1>1, QuietThread DEF Worker, Body, Holding, PhaseOf
<1>3. phaseA' = phaseA /\ seenA' = seenA
  BY <1>2 DEF Same, phaseA, seenA
<1>4. valueA' = valueA
  BY <1>1, ValuesKeep DEF ValuesStay, valueA
<1>5. Executes(t, c) /\ Actors!Ready(c)
  BY <1>1, RunningIsReady
<1>6. PICK v \in Actors!Computed(c) \cup Actors!Observed(c) : WriteBox(SelfBox(c), v)
  <2>1. CASE BumpSelf(t)
    <3>1. PICK m \in Marks : WriteBox(SelfBox(c), [by |-> c, mark |-> m])
      BY <2>1 DEF BumpSelf, FieldBox
    <3>2. [by |-> c, mark |-> m] \in Value
      BY DEF Value, Nodes
    <3> QED
      BY <3>1, <3>2, ResultIsComputed
  <2>2. CASE StoreSelf(t)
    <3>1. PICK i \in DOMAIN frame[t] : WriteBox(SelfBox(c), heap[frame[t][i]])
      BY <2>2 DEF StoreSelf, FieldBox
    <3> QED
      BY <1>5, <3>1, ArgumentIsObserved
  <2> QED
    BY <2>1, <2>2
<1>7. fieldA' = [fieldA EXCEPT ![c] = v]
  BY <1>6, FieldWritten DEF fieldA, TidyInv
<1> QED
  BY <1>3, <1>4, <1>5, <1>7 DEF Actors!Remember, phaseA, seenA, fieldA, valueA

(* set_value publishes. *)
LEMMA PublishPublishes ==
  ASSUME TidyProgram, TidyInv, [Next]_vars, Views', FieldsStay,
         NEW t \in Threads, Publish(t), NEW c \in Cells, c = cell[t]
  PROVE  Actors!Publish(c)
<1>1. /\ pc[t] = "publish" /\ pc'[t] \in {"output", "unlock"} /\ cell' = cell
      /\ frame' = frame /\ return_result' = return_result
      /\ val' = [val EXCEPT ![c] = return_result[t]]
  BY DEF Publish, Goto, AfterPublish, TidyInv, TypeInv, TypeOK
<1>2. PICK b \in Box : b = return_result[t]
  BY <1>1 DEF TidyInv, TypeInv, ResultDefined
<1>3. heap'[b] = heap[b]
  <2>1. Reachable(b) /\ Reachable(b)'
    BY <1>1, <1>2 DEF Reachable
  <2> QED
    BY <2>1, ReachedBoxesKeep DEF TidyInv
<1>4. Executes(t, c) /\ Executes(t, c)' /\ PhaseOf(t) = "work" /\ PhaseOf(t)' = "done"
  BY <1>1 DEF Executes, Holding, HoldingPhases, PhaseOf
<1>5. heap[b] \in Actors!Computed(c) \cup Actors!Observed(c)
  <2>1. heap[b] \in Value
    BY DEF TidyInv, TypeInv, TypeOK
  <2>2. CASE heap[b].by = c
    BY <2>1, <2>2, ResultIsComputed
  <2>3. CASE \E i \in DOMAIN frame[t] : b = frame[t][i]
    BY <1>4, <2>3, ArgumentIsObserved
  <2> QED
    BY <1>1, <1>2, <2>2, <2>3 DEF TidyInv, ResultIsOwn
<1>6. \A d \in Cells \ {c} : Same(d)
  BY <1>1, OtherCellsKeep DEF Worker, Executes
<1>7. Contents(t)' = Contents(t)
  BY <1>1, ContentsKeep
<1>8. /\ ActorPhase(c) = "work" /\ ActorPhase(c)' = "done"
      /\ ActorSeen(c)' = ActorSeen(c) /\ Len(ActorSeen(c)) = Len(frame[t])
  BY <1>4, <1>7, WorkingActor DEF Views
<1>9. Actors!Ready(c)
  <2>1. Len(frame[t]) = Len(Sources[c])
    BY <1>1 DEF TidyInv, ResultIsOwn, ArgsRead
  <2> QED
    BY <1>8, <2>1 DEF Actors!Ready
<1>10. phaseA' = [phaseA EXCEPT ![c] = "done"] /\ seenA' = seenA /\ fieldA' = fieldA
  BY <1>6, <1>8 DEF Same, FieldsStay, phaseA, seenA, fieldA
<1>11. valueA' = [valueA EXCEPT ![c] = heap[b]]
  <2>1. \A n \in Nodes \ {c} : val'[n] = val[n] /\ heap'[val[n]] = heap[val[n]]
    BY <1>1, PublishedBoxesKeep DEF TidyInv, TypeInv, TypeOK
  <2>2. c \in Nodes /\ heap'[val'[c]] = heap[b]
    BY <1>1, <1>2, <1>3 DEF Nodes, TidyInv, TypeInv, TypeOK
  <2> QED
    BY <2>1, <2>2 DEF valueA
<1> QED
  BY <1>5, <1>9, <1>10, <1>11 DEF Actors!Publish, phaseA, seenA, fieldA, valueA

(* A body that ends without a result abandons the execution. *)
LEMMA EndingAbandons ==
  ASSUME TidyProgram, TidyInv, [Next]_vars, Views', FieldsStay,
         NEW t \in Threads, FallOff(t) \/ Throw(t), NEW c \in Cells, c = cell[t]
  PROVE  Actors!Abandon(c)
<1>1. /\ Running(t) /\ pc'[t] \in {"unlock", "unwind"} /\ cell' = cell
      /\ frame' = frame /\ val' = val
  BY DEF FallOff, Throw, May, Goto, data, TidyInv, TypeInv, TypeOK
<1>2. Executes(t, c) /\ Actors!Ready(c)
  BY <1>1, RunningIsReady
<1>3. Executes(t, c)' /\ PhaseOf(t)' = "done"
  BY <1>1 DEF Executes, Holding, HoldingPhases, PhaseOf
<1>4. \A d \in Cells \ {c} : Same(d)
  BY <1>1, OtherCellsKeep DEF Worker, Body, Executes
<1>5. ActorPhase(c)' = "done" /\ ActorSeen(c)' = ActorSeen(c)
  BY <1>1, <1>2, <1>3, ContentsKeep, WorkingActor DEF Views
<1>6. phaseA' = [phaseA EXCEPT ![c] = "done"] /\ seenA' = seenA
  BY <1>4, <1>5 DEF Same, phaseA, seenA
<1>7. fieldA' = fieldA /\ valueA' = valueA
  BY <1>1, ValuesKeep DEF FieldsStay, ValuesStay, fieldA, valueA
<1> QED
  BY <1>2, <1>6, <1>7 DEF Actors!Abandon, phaseA, seenA, fieldA, valueA

(* unlock() lets the actor rest. *)
LEMMA UnlockRests ==
  ASSUME TidyProgram, TidyInv, [Next]_vars, Views', FieldsStay,
         NEW t \in Threads, Unlock(t), NEW c \in Cells, c = cell[t]
  PROVE  Actors!Rest(c)
<1>1. /\ pc[t] \in {"unlock", "unwind"} /\ pc'[t] \in {"draw", "fail"}
      /\ cell' = cell /\ val' = val
  BY DEF Unlock, Goto, TidyInv, TypeInv, TypeOK
<1>2. Executes(t, c) /\ PhaseOf(t) = "done"
  BY <1>1 DEF Executes, Holding, HoldingPhases, PhaseOf
<1>3. \A u \in Threads : ~Executes(u, c)'
  <2>1. ~Executes(t, c)'
    BY <1>1 DEF Executes, Holding, HoldingPhases
  <2>2. ASSUME NEW u \in Threads \ {t} PROVE ~Executes(u, c)'
    <3>1. ~Executes(u, c)
      BY <1>2 DEF Executes, TidyInv, LockInv, MutualExclusion
    <3>2. pc'[u] = pc[u] /\ cell'[u] = cell[u]
      BY StepsAreLocal DEF Worker, TidyInv, TypeInv
    <3> QED
      BY <3>1, <3>2 DEF Executes, Holding
  <2> QED
    BY <2>1, <2>2
<1>4. /\ ActorPhase(c) = "done"
      /\ ActorPhase(c)' = "rest" /\ ActorSeen(c)' = <<>>
  BY <1>2, <1>3, WorkingActor DEF Views, Idle
<1>5. \A d \in Cells \ {c} : Same(d)
  BY <1>1, OtherCellsKeep DEF Worker, Executes
<1>6. phaseA' = [phaseA EXCEPT ![c] = "rest"] /\ seenA' = [seenA EXCEPT ![c] = <<>>]
  BY <1>4, <1>5 DEF Same, phaseA, seenA
<1>7. fieldA' = fieldA /\ valueA' = valueA
  BY <1>1, ValuesKeep DEF FieldsStay, ValuesStay, fieldA, valueA
<1>8. phaseA[c] = "done"
  BY <1>4 DEF phaseA
<1> QED
  BY <1>6, <1>7, <1>8 DEF Actors!Rest, phaseA, seenA, fieldA, valueA

(* set_input gives an input a value of its own. *)
LEMMA SetInputSets ==
  ASSUME TidyProgram, TidyInv, [Next]_vars, Views', FieldsStay,
         NEW m \in Inputs, SetInput(m)
  PROVE  Actors!ASetInput(m)
<1>1. PICK b \in Box : b = NewBox /\ b \in FreshBoxes
  BY NewBoxIsFresh DEF SetInput
<1>2. m \in Nodes /\ val' = [val EXCEPT ![m] = b]
  BY <1>1 DEF SetInput, Nodes
<1>3. PICK a \in Marks : WriteBox(b, [by |-> m, mark |-> a])
  BY <1>1 DEF SetInput
<1>4. heap'[b] = [by |-> m, mark |-> a]
  <2>1. Reachable(b)'
    BY <1>2 DEF Reachable, TidyInv, TypeInv, TypeOK
  <2>2. heap'[b] = [heap EXCEPT ![b] = [by |-> m, mark |-> a]][b]
    BY <1>3, <2>1 DEF WriteBox, Settle
  <2> QED
    BY <2>2 DEF TidyInv, TypeInv, TypeOK
<1>5. valueA' = [valueA EXCEPT ![m] = [by |-> m, mark |-> a]]
  <2>1. \A n \in Nodes \ {m} : val'[n] = val[n] /\ heap'[val[n]] = heap[val[n]]
    BY <1>2, PublishedBoxesKeep DEF TidyInv, TypeInv, TypeOK
  <2>2. heap'[val'[m]] = [by |-> m, mark |-> a]
    BY <1>2, <1>4 DEF TidyInv, TypeInv, TypeOK
  <2> QED
    BY <1>2, <2>1, <2>2 DEF valueA
<1>6. \A c \in Cells : Same(c)
  BY QuietHosts DEF Host
<1>7. phaseA' = phaseA /\ seenA' = seenA /\ fieldA' = fieldA
  BY <1>6 DEF Same, FieldsStay, phaseA, seenA, fieldA
<1>8. [by |-> m, mark |-> a] \in Actors!Value
  BY <1>2 DEF Actors!Value, Actors!Nodes, Nodes
<1> QED
  BY <1>5, <1>7, <1>8 DEF Actors!ASetInput, phaseA, seenA, fieldA, valueA

-----------------------------------------------------------------------------
LEMMA ActorsInit == Init => Actors!AInit
<1> SUFFICES ASSUME Init PROVE Actors!AInit
  OBVIOUS
<1>1. \A c \in Cells : Idle(c)
  BY DEF Init, Idle, Executes, Holding, HoldingPhases
<1>2. phaseA = [c \in Cells |-> "rest"] /\ seenA = [c \in Cells |-> <<>>]
  BY <1>1, ActorAtRest DEF phaseA, seenA
<1>3. \A b \in Box : b[1] # "lit" => heap[b] = Undefined
  BY DEF Init
<1>4. \A c \in Cells : heap[SelfBox(c)] = Undefined
  BY <1>3, NodeBoxes DEF SelfBox, Nodes
<1>5. \A n \in Nodes : heap[val[n]] = Undefined
  <2> SUFFICES ASSUME NEW n \in Nodes PROVE heap[val[n]] = Undefined
    OBVIOUS
  <2>1. PICK b \in Box : b = InitBox(n)
    BY NodeBoxes
  <2>2. b[1] = "init" /\ val[n] = b
    BY <2>1 DEF Init, InitBox
  <2> QED
    BY <1>3, <2>2
<1>6. fieldA = [c \in Cells |-> Undefined] /\ valueA = [n \in Nodes |-> Undefined]
  BY <1>4, <1>5 DEF fieldA, valueA
<1> QED
  BY <1>2, <1>6 DEF Actors!AInit, Actors!Undefined, Actors!Nodes, Undefined, Nodes,
                    phaseA, seenA, fieldA, valueA

LEMMA ActorsStep ==
  ASSUME TidyProgram, NoExit, TidyInv, TidyInv', [Next]_vars
  PROVE  [Actors!ANext]_(Actors!avars)
<1>1. LockInv' => Views'
  BY LockedViews, PTL
<1>2. Views'
  BY <1>1 DEF TidyInv
<1>3. CASE \E t \in Threads : BumpSelf(t) \/ StoreSelf(t)
  <2>1. PICK t \in Threads : BumpSelf(t) \/ StoreSelf(t)
    BY <1>3
  <2>2. PICK c \in Cells : c = cell[t]
    BY DEF TidyInv, TypeInv, TypeOK
  <2> QED
    BY <1>2, <2>1, <2>2, FieldRemembers DEF Actors!ANext
<1>4. CASE ~\E t \in Threads : BumpSelf(t) \/ StoreSelf(t)
  <2>5. \A t \in Threads : ~RelayStore(t)
    BY DEF RelayStore, May, NoExit, TidyInv, TypeInv, TypeOK
  <2>1. FieldsStay
    BY <1>4, <2>5, FieldsKeep DEF FieldsStay, TidyInv
  <2>2. ASSUME NEW t \in Threads, Worker(t) PROVE [Actors!ANext]_(Actors!avars)
    <3>1. PICK c \in Cells : c = cell[t]
      BY DEF TidyInv, TypeInv, TypeOK
    <3>2. /\ ~PokeArg(t) /\ ~ReturnSelf(t) /\ ~Exit(t)
          /\ ~RelayReturn(t) /\ ~RelayStore(t) /\ ~RelayPoke(t)
      BY <3>1 DEF PokeArg, ReturnSelf, Exit, RelayReturn, RelayStore, RelayPoke, May,
                  TidyProgram, NoExit
    <3>3. CASE \/ Draw(t) \/ Quit(t) \/ Skip(t) \/ CallFunction(t) \/ Halt(t)
               \/ ReturnNew(t) \/ ReturnArg(t) \/ SetOutput(t) \/ Fail(t)
      BY <1>2, <2>1, <3>3, ThreadAlone
    <3>4. CASE Enter(t)
      BY <1>2, <2>1, <3>1, <3>4, EnterBegins DEF Actors!ANext
    <3>5. CASE ReadArg(t)
      BY <1>2, <2>1, <3>1, <3>5, ReadObserves DEF Actors!ANext
    <3>6. CASE Publish(t)
      BY <1>2, <2>1, <3>1, <3>6, PublishPublishes DEF Actors!ANext
    <3>7. CASE FallOff(t) \/ Throw(t)
      BY <1>2, <2>1, <3>1, <3>7, EndingAbandons DEF Actors!ANext
    <3>8. CASE Unlock(t)
      BY <1>2, <2>1, <3>1, <3>8, UnlockRests DEF Actors!ANext
    <3> QED
      BY <1>4, <2>2, <3>2, <3>3, <3>4, <3>5, <3>6, <3>7, <3>8 DEF Worker, Body
  <2>3. CASE \E m \in Inputs : SetInput(m)
    BY <1>2, <2>1, <2>3, SetInputSets DEF Actors!ANext
  <2>4. CASE Terminate \/ Restart \/ UNCHANGED vars
    <3>1. \A c \in Cells : Same(c)
      BY <1>2, <2>4, QuietHosts DEF Host
    <3>2. val' = val
      BY <2>4 DEF Terminate, Restart, vars, data
    <3> QED
      BY <2>1, <3>1, <3>2, ValuesKeep, ActorsRest
  <2> QED
    BY <2>2, <2>3, <2>4 DEF Next, Host
<1> QED
  BY <1>3, <1>4

(* Every behaviour of the threads of a tidy program in which no body calls *)
(* exit() or uses the value of a function that does is one of independent  *)
(* actors: an execution works on the values it observed, and what it       *)
(* publishes is one value, computed or observed.                           *)
THEOREM ThreadsImplementActors ==
  ASSUME TidyProgram, NoExit
  PROVE  Spec => ImplementsActors
<1>1. TidyInv /\ TidyInv' /\ [Next]_vars => [Actors!ANext]_(Actors!avars)
  BY ActorsStep
<1> QED
  BY <1>1, ActorsInit, TidyInvAlways, PTL DEF Spec, ImplementsActors, Actors!ASpec
=============================================================================
