---------------------------- MODULE CellScheduler ----------------------------
(***************************************************************************)
(* The multi-threaded execution of a TealScript graph: the worker threads  *)
(* started by runtime::run_mt, the worker cells they take turns to         *)
(* execute, and the values that flow between the cells.                    *)
(*                                                                         *)
(* A value (class valbox) is a shared pointer to a box: copying a value    *)
(* copies the pointer, and the assignment and increment operators of a     *)
(* script write the box in place.  The model therefore keeps the boxes     *)
(* (variable heap) apart from the places that point to them: the published *)
(* value of a cell, the outputs, the arguments in a thread's stack frame   *)
(* and the return_result_ of a thread's execution_context.                 *)
(*                                                                         *)
(* The body of a cell is abstracted to the set Ops[c] of the kinds of step *)
(* it may take; an execution takes any of them, at most MaxSteps times,    *)
(* before it returns or falls off its end.                                 *)
(***************************************************************************)
EXTENDS Naturals, Sequences, FiniteSets

CONSTANTS
  Threads,   \* the worker threads: runtime::threads_
  Cells,     \* the worker cells: runtime::worker_cells_
  Inputs,    \* the input cells, written by the host only
  Order,     \* worker_cells_flat_array_: the cells in the order they are drawn
  Sources,   \* Sources[c]: where each argument of c comes from
  Ops,       \* Ops[c]: the kinds of step the body of c may take
  MaxSteps,  \* bound: steps of one execution before it must return
  Named,     \* the cells that also write a named output
  Lit,       \* the source of an argument given as a constant expression
  Nobody,    \* the author of an undefined value
  NoBox,     \* a return_result_ nothing was returned into yet
  Slots,     \* names for the boxes an execution allocates
  Marks      \* what distinguishes two values of one author

Nodes == Cells \cup Inputs

OpKinds == {"bump", "store", "poke", "new", "self", "arg", "call", "exit", "halt",
            "relay", "throw"}

ASSUME ProgramAssumption ==
  /\ Cells \cap Inputs = {}
  /\ Lit \notin Nodes /\ Nobody \notin Nodes
  /\ Order \in Seq(Cells) /\ Order # <<>>
  /\ \A c \in Cells : \E i \in DOMAIN Order : Order[i] = c
  /\ Sources \in [Cells -> Seq(Nodes \cup {Lit})]
  /\ Ops \in [Cells -> SUBSET OpKinds]
  /\ MaxSteps \in Nat
  /\ Named \subseteq Cells
  /\ Marks # {}

-----------------------------------------------------------------------------
(* Boxes and what they hold. *)

Box == ({"init", "self", "lit"} \X Nodes) \cup ({"new"} \X Slots)

ASSUME BoxAssumption == NoBox \notin Box

Value == [by : Nodes \cup {Nobody}, mark : Marks]

InitBox(n) == <<"init", n>>
SelfBox(c) == <<"self", c>>
LitBox(c)  == <<"lit", c>>

Undefined == [by |-> Nobody, mark |-> CHOOSE m \in Marks : TRUE]

VARIABLES
  pc,                     \* where each worker thread is in its loop
  cell,                   \* the cell each thread drew last
  worker_cells_index,     \* worker_cells_flat_array_index_ % worker_cells_cnt
  locker,                 \* the cells whose locker_ is held
  frame,                  \* the arguments a thread has read: a sequence of boxes
  steps,                  \* body steps the current execution has taken
  return_result,          \* return_result_ of the thread's execution_context
  val,                    \* val_ of every worker and input cell: a box
  outputs,                \* outputs_ of the named cells: a box
  heap,                   \* what every box holds
  termination_requested,  \* termination_requested_
  failure                 \* failure_

control == <<pc, cell, worker_cells_index, locker, steps>>
data    == <<frame, return_result, val, outputs, heap>>
flags   == <<termination_requested, failure>>
vars    == <<control, data, flags>>

Phases == {"draw", "try", "exec", "publish", "output", "unlock", "unwind",
           "fail", "gone"}

(* The phases in which a thread holds the locker_ of the cell it drew. *)
HoldingPhases == {"exec", "publish", "output", "unlock", "unwind"}

Holding(t) == pc[t] \in HoldingPhases

Reachable(b) ==
  \/ \E n \in Nodes : val[n] = b
  \/ \E c \in Named : outputs[c] = b
  \/ \E t \in Threads : return_result[t] = b
  \/ \E t \in Threads : \E i \in DOMAIN frame[t] : frame[t][i] = b

(* A box make_shared may return: no shared pointer refers to it.  Which of  *)
(* them is returned does not matter.                                        *)
FreshBoxes == {b \in {"new"} \X Slots : ~Reachable(b)}
NewBox == CHOOSE b \in FreshBoxes : TRUE

(* The heap after a step: h, less the boxes whose last pointer has gone. *)
Settle(h) ==
  heap' = [b \in Box |-> IF b[1] = "new" /\ ~Reachable(b)' THEN Undefined ELSE h[b]]

-----------------------------------------------------------------------------
Init ==
  /\ pc = [t \in Threads |-> "draw"]
  /\ cell = [t \in Threads |-> Order[1]]
  /\ worker_cells_index = 0
  /\ locker = {}
  /\ frame = [t \in Threads |-> <<>>]
  /\ steps = [t \in Threads |-> 0]
  /\ return_result = [t \in Threads |-> NoBox]
  /\ val = [n \in Nodes |-> InitBox(n)]
  /\ outputs = [c \in Named |-> InitBox(c)]
  /\ heap = [b \in Box |->
               IF b[1] = "lit" THEN [Undefined EXCEPT !.by = b[2]] ELSE Undefined]
  /\ termination_requested = FALSE
  /\ failure = FALSE

Goto(t, phase) == pc' = [pc EXCEPT ![t] = phase]

(* The condition of the loop. *)
KeepGoingUnlessFailed == ~failure
KeepGoing == ~termination_requested /\ ~failure

(* The next index is taken from a counter all threads share. *)
NextIndexSkipping == (worker_cells_index + 2) % Len(Order)
NextIndexUnwrapped == worker_cells_index + 1
NextIndex == (worker_cells_index + 1) % Len(Order)

Draw(t) ==
  /\ pc[t] = "draw"
  /\ KeepGoing
  /\ cell' = [cell EXCEPT ![t] = Order[worker_cells_index + 1]]
  /\ worker_cells_index' = NextIndex
  /\ Goto(t, "try")
  /\ UNCHANGED <<locker, steps, data, flags>>

Quit(t) ==
  /\ pc[t] = "draw"
  /\ ~KeepGoing
  /\ Goto(t, "gone")
  /\ UNCHANGED <<cell, worker_cells_index, locker, steps, data, flags>>

TryLockBlind(c) == TRUE
TryLock(c) == c \notin locker

(* try_lock succeeds: the cell is this thread's until it unlocks it. *)
Enter(t) ==
  /\ pc[t] = "try"
  /\ TryLock(cell[t])
  /\ locker' = locker \cup {cell[t]}
  /\ steps' = [steps EXCEPT ![t] = 0]
  /\ Goto(t, "exec")
  /\ UNCHANGED <<cell, worker_cells_index, data, flags>>

(* try_lock fails: another thread is executing the cell; go on. *)
Skip(t) ==
  /\ pc[t] = "try"
  /\ ~TryLock(cell[t])
  /\ Goto(t, "draw")
  /\ UNCHANGED <<cell, worker_cells_index, locker, steps, data, flags>>

-----------------------------------------------------------------------------
(* Arguments are read one at a time, each under the val_mtp_ of its source. *)

SourceFieldBox(c, i) ==
  IF Sources[c][i] = Lit THEN LitBox(c) ELSE SelfBox(Sources[c][i])

SourceBox(c, i) ==
  IF Sources[c][i] = Lit THEN LitBox(c) ELSE val[Sources[c][i]]

ArgsRead(t) == Len(frame[t]) = Len(Sources[cell[t]])

ReadArg(t) ==
  /\ pc[t] = "exec"
  /\ ~ArgsRead(t)
  /\ frame' = [frame EXCEPT ![t] = Append(@, SourceBox(cell[t], Len(@) + 1))]
  /\ UNCHANGED <<control, return_result, val, outputs, heap, flags>>

-----------------------------------------------------------------------------
(* The body. *)

Running(t) == pc[t] = "exec" /\ ArgsRead(t)

May(t, op) == Running(t) /\ op \in Ops[cell[t]]

Step(t) ==
  /\ steps[t] < MaxSteps
  /\ steps' = [steps EXCEPT ![t] = @ + 1]
  /\ UNCHANGED <<pc, cell, worker_cells_index, locker>>

(* An assignment or increment writes the box its left side points to. *)
WriteBox(b, v) == Settle([heap EXCEPT ![b] = v])

(* set_self_fields: this.f is a field of the cell the thread drew. *)
FieldBoxAtIndex(t) == SelfBox(Order[worker_cells_index + 1])
FieldBox(t) == SelfBox(cell[t])

(* ++this.f *)
BumpSelf(t) ==
  /\ May(t, "bump")
  /\ Step(t)
  /\ UNCHANGED <<frame, return_result, val, outputs, flags>>
  /\ \E m \in Marks : WriteBox(FieldBox(t), [by |-> cell[t], mark |-> m])

(* this.f = a: the contents are copied, not the pointer. *)
StoreIntoArg(t) ==
  /\ May(t, "store")
  /\ Step(t)
  /\ UNCHANGED <<frame, return_result, val, outputs, flags>>
  /\ \E i \in DOMAIN frame[t] : WriteBox(frame[t][i], heap[FieldBox(t)])

StoreSelf(t) ==
  /\ May(t, "store")
  /\ Step(t)
  /\ UNCHANGED <<frame, return_result, val, outputs, flags>>
  /\ \E i \in DOMAIN frame[t] : WriteBox(FieldBox(t), heap[frame[t][i]])

(* a = e, ++a: an argument is a box of somebody else. *)
PokeArg(t) ==
  /\ May(t, "poke")
  /\ Step(t)
  /\ UNCHANGED <<frame, return_result, val, outputs, flags>>
  /\ \E i \in DOMAIN frame[t], m \in Marks :
        WriteBox(frame[t][i], [by |-> cell[t], mark |-> m])

SetReturnResult(t, b) == return_result' = [return_result EXCEPT ![t] = b]

(* A script function returns through the return_result_ of its caller; the *)
(* body goes on.  What it returns is new, or a box the body passed to it.  *)
CallFunction(t) ==
  /\ May(t, "call")
  /\ Step(t)
  /\ UNCHANGED <<frame, val, outputs, flags>>
  /\ \/ /\ FreshBoxes # {}
        /\ SetReturnResult(t, NewBox)
        /\ \E m \in Marks : WriteBox(NewBox, [by |-> cell[t], mark |-> m])
     \/ /\ "self" \in Ops[cell[t]]
        /\ SetReturnResult(t, FieldBox(t))
        /\ Settle(heap)
     \/ /\ "arg" \in Ops[cell[t]]
        /\ \E i \in DOMAIN frame[t] : SetReturnResult(t, frame[t][i])
        /\ Settle(heap)

Return(t, b) == SetReturnResult(t, b) /\ Goto(t, "publish")

(* return e, where e computes a new value *)
ReturnNew(t) ==
  /\ May(t, "new")
  /\ FreshBoxes # {}
  /\ Return(t, NewBox)
  /\ UNCHANGED <<cell, worker_cells_index, locker, steps, frame, val, outputs, flags>>
  /\ \E m \in Marks : WriteBox(NewBox, [by |-> cell[t], mark |-> m])

(* return this.f: the box of the field itself *)
ReturnSelf(t) ==
  /\ May(t, "self")
  /\ Return(t, FieldBox(t))
  /\ UNCHANGED <<cell, worker_cells_index, locker, steps, frame, val, outputs, flags>>
  /\ Settle(heap)

(* return a: the box the argument points to *)
ReturnArg(t) ==
  /\ May(t, "arg")
  /\ \E i \in DOMAIN frame[t] : Return(t, frame[t][i])
  /\ UNCHANGED <<cell, worker_cells_index, locker, steps, frame, val, outputs, flags>>
  /\ Settle(heap)

(* exit() requests a return but leaves return_result_ as the last return on *)
(* this thread left it, in this execution (of a function) or an earlier one *)
(* (perhaps of another cell): undefined, in a box of its own, at first.     *)
HasResult(t) == return_result[t] # NoBox \/ FreshBoxes # {}
ResultBox(t) == IF return_result[t] = NoBox THEN NewBox ELSE return_result[t]
LastResult(t) == IF return_result[t] = NoBox THEN Undefined ELSE heap[return_result[t]]

ReturnLast(t) ==
  /\ HasResult(t)
  /\ Return(t, ResultBox(t))
  /\ termination_requested' = TRUE
  /\ UNCHANGED <<cell, worker_cells_index, locker, steps, frame, val, outputs, failure>>
  /\ WriteBox(ResultBox(t), LastResult(t))

Exit(t) == May(t, "exit") /\ ReturnLast(t)

(* exit() inside a script function: leaving the function clears the return *)
(* request and the body of the cell goes on.  This body makes no use of    *)
(* the value of the call.                                                  *)
Halt(t) ==
  /\ May(t, "halt")
  /\ Step(t)
  /\ termination_requested' = TRUE
  /\ UNCHANGED <<data, failure>>

(* The value of a call during which exit() was called, by the function or  *)
(* in an argument, is that return_result_ again (user_function_selector_). *)
(* A body may return it, copy its contents into a field, or write its box  *)
(* (++f()), which may be the value another cell published.                 *)
RelayReturn(t) == May(t, "relay") /\ ReturnLast(t)

RelayStore(t) ==
  /\ May(t, "relay") /\ May(t, "store")
  /\ Step(t)
  /\ termination_requested' = TRUE
  /\ UNCHANGED <<frame, return_result, val, outputs, failure>>
  /\ WriteBox(FieldBox(t), LastResult(t))

RelayPoke(t) ==
  /\ May(t, "relay") /\ May(t, "poke")
  /\ HasResult(t)
  /\ Step(t)
  /\ termination_requested' = TRUE
  /\ SetReturnResult(t, ResultBox(t))
  /\ UNCHANGED <<frame, val, outputs, failure>>
  /\ \E m \in Marks : WriteBox(ResultBox(t), [by |-> cell[t], mark |-> m])

(* The body ends without a return: nothing is published. *)
FallOff(t) ==
  /\ Running(t)
  /\ Goto(t, "unlock")
  /\ UNCHANGED <<cell, worker_cells_index, locker, steps, data, flags>>

(* An exception leaves the loop; shut_on_destroy unlocks the cell first. *)
Throw(t) ==
  /\ May(t, "throw")
  /\ Goto(t, "unwind")
  /\ UNCHANGED <<cell, worker_cells_index, locker, steps, data, flags>>

-----------------------------------------------------------------------------
(* After the body: publish, write the output, unlock. *)

AfterPublishMute(t) == "unlock"
AfterPublish(t) == IF cell[t] \in Named THEN "output" ELSE "unlock"

PublishAtIndex(t) ==
  /\ pc[t] = "publish"
  /\ val' = [val EXCEPT ![Order[worker_cells_index + 1]] = return_result[t]]
  /\ Goto(t, AfterPublish(t))
  /\ UNCHANGED <<cell, worker_cells_index, locker, steps, frame, return_result, outputs, flags>>
  /\ Settle(heap)

Publish(t) ==
  /\ pc[t] = "publish"
  /\ val' = [val EXCEPT ![cell[t]] = return_result[t]]
  /\ Goto(t, AfterPublish(t))
  /\ UNCHANGED <<cell, worker_cells_index, locker, steps, frame, return_result, outputs, flags>>
  /\ Settle(heap)

SetOutput(t) ==
  /\ pc[t] = "output"
  /\ outputs' = [outputs EXCEPT ![cell[t]] = return_result[t]]
  /\ Goto(t, "unlock")
  /\ UNCHANGED <<cell, worker_cells_index, locker, steps, frame, return_result, val, flags>>
  /\ Settle(heap)

(* What no later step can read is forgotten here: the frame, which the code *)
(* clears before its next use, and return_result_ unless some cell may call *)
(* exit() in its body, or use the value of a function that does: the steps  *)
(* that read the result of an earlier execution.                            *)
ResultsLinger == \E c \in Cells : Ops[c] \cap {"exit", "relay"} # {}

(* shut_on_destroy releases the lock however the body was left. *)
ReleasedOnReturn(t) == IF pc[t] = "unlock" THEN locker \ {cell[t]} ELSE locker
Released(t) == locker \ {cell[t]}

Unlock(t) ==
  /\ pc[t] \in {"unlock", "unwind"}
  /\ locker' = Released(t)
  /\ frame' = [frame EXCEPT ![t] = <<>>]
  /\ Goto(t, IF pc[t] = "unlock" THEN "draw" ELSE "fail")
  /\ return_result' = IF ResultsLinger THEN return_result
                      ELSE [return_result EXCEPT ![t] = NoBox]
  /\ UNCHANGED <<cell, worker_cells_index, steps, val, outputs, flags>>
  /\ Settle(heap)

Fail(t) ==
  /\ pc[t] = "fail"
  /\ failure' = TRUE
  /\ Goto(t, "gone")
  /\ UNCHANGED <<cell, worker_cells_index, locker, steps, data, termination_requested>>

-----------------------------------------------------------------------------
(* The host. *)

SetInput(n) ==
  /\ FreshBoxes # {}
  /\ val' = [val EXCEPT ![n] = NewBox]
  /\ UNCHANGED <<control, frame, return_result, outputs, flags>>
  /\ \E m \in Marks : WriteBox(NewBox, [by |-> n, mark |-> m])

Terminate ==
  /\ termination_requested' = TRUE
  /\ UNCHANGED <<control, data, failure>>

(* stop_mt joined every thread; run_mt starts new ones, each with an       *)
(* execution_context of its own.  Cells, fields and the index stay; the     *)
(* counters of the dead threads go with them.                               *)
Restart ==
  /\ \A t \in Threads : pc[t] = "gone"
  /\ pc' = [t \in Threads |-> "draw"]
  /\ cell' = [t \in Threads |-> Order[1]]
  /\ steps' = [t \in Threads |-> 0]
  /\ return_result' = [t \in Threads |-> NoBox]
  /\ termination_requested' = FALSE
  /\ failure' = FALSE
  /\ UNCHANGED <<worker_cells_index, locker, frame, val, outputs>>
  /\ Settle(heap)

-----------------------------------------------------------------------------
Body(t) ==
  \/ BumpSelf(t) \/ StoreSelf(t) \/ PokeArg(t) \/ CallFunction(t)
  \/ ReturnNew(t) \/ ReturnSelf(t) \/ ReturnArg(t)
  \/ Exit(t) \/ Halt(t) \/ RelayReturn(t) \/ RelayStore(t) \/ RelayPoke(t)
  \/ Throw(t) \/ FallOff(t)

Worker(t) ==
  \/ Draw(t) \/ Quit(t) \/ Enter(t) \/ Skip(t) \/ ReadArg(t) \/ Body(t)
  \/ Publish(t) \/ SetOutput(t) \/ Unlock(t) \/ Fail(t)

Host == (\E n \in Inputs : SetInput(n)) \/ Terminate \/ Restart

Next == (\E t \in Threads : Worker(t)) \/ Host

Spec == Init /\ [][Next]_vars

(* Every worker thread keeps running; nothing is assumed of the host. *)
FairSpec == Spec /\ \A t \in Threads : WF_vars(Worker(t))
-----------------------------------------------------------------------------
(* Every variable holds what its declaration in the code allows. *)
TypeOK ==
  /\ pc \in [Threads -> Phases]
  /\ cell \in [Threads -> Cells]
  /\ worker_cells_index \in 0 .. Len(Order) - 1
  /\ locker \subseteq Cells
  /\ frame \in [Threads -> Seq(Box)]
  /\ steps \in [Threads -> 0 .. MaxSteps]
  /\ return_result \in [Threads -> Box \cup {NoBox}]
  /\ val \in [Nodes -> Box]
  /\ outputs \in [Named -> Box]
  /\ heap \in [Box -> Value]
  /\ termination_requested \in BOOLEAN
  /\ failure \in BOOLEAN

(* No cell is executed by two threads at once, so that its fields have one *)
(* user at a time (try_lock in the loop of run_mt).                        *)
MutualExclusion ==
  \A t, u \in Threads : t # u /\ Holding(t) /\ Holding(u) => cell[t] # cell[u]

(* A cell is locked exactly while some thread executes it: returning,      *)
(* falling off the end, exit() and exceptions all give the lock back, and  *)
(* a thread only gives back a lock it holds.                               *)
LocksAreHeld == locker = {cell[t] : t \in {u \in Threads : Holding(u)}}

(* Between two executions of a cell its named output shows the same value  *)
(* as the cell: set_value and set_output happen under one lock.            *)
OutputAgrees == \A c \in Named \ locker : outputs[c] = val[c]

(* What a body step of t may write in place, and what it may read. *)
Relayed(t) ==
  IF "relay" \in Ops[cell[t]] THEN {return_result[t]} \ {NoBox} ELSE {}

MayWrite(t) ==
  IF ~Running(t) THEN {}
  ELSE (IF Ops[cell[t]] \cap {"bump", "store"} = {} THEN {} ELSE {SelfBox(cell[t])})
       \cup (IF "poke" \in Ops[cell[t]]
             THEN {frame[t][i] : i \in DOMAIN frame[t]} \cup Relayed(t) ELSE {})

MayRead(t) ==
  IF ~Running(t) THEN {}
  ELSE {SelfBox(cell[t])} \cup {frame[t][i] : i \in DOMAIN frame[t]} \cup Relayed(t)

(* What everybody else may read at any moment: the host through            *)
(* get_output, the subscription server through value().                    *)
Published == {val[n] : n \in Nodes} \cup {outputs[c] : c \in Named}

(* No thread writes a box another thread may be reading: the locks of the  *)
(* cells protect the fields and the pointers, never the boxes.             *)
NoRaceAmongThreads ==
  \A t \in Threads : \A u \in Threads \ {t} : MayWrite(t) \cap MayRead(u) = {}

(* The same, and no thread writes a box the host or the subscription       *)
(* server may be reading.                                                  *)
NoDataRace ==
  NoRaceAmongThreads /\ \A t \in Threads : MayWrite(t) \cap Published = {}

(* The value of a cell changes only when a thread that executed the cell   *)
(* publishes a result (set_value), never under the hands of its readers.   *)
PublishedStable ==
  [][\A c \in Cells : heap'[val'[c]] # heap[val[c]] =>
       \E t \in Threads : cell[t] = c /\ pc[t] = "publish" /\ pc'[t] # "publish"]_vars

(* The fields of a cell (this.f) change only while the cell is executed.   *)
FieldsPrivate ==
  [][\A c \in Cells : heap'[SelfBox(c)] # heap[SelfBox(c)] =>
       \E t \in Threads : Holding(t) /\ cell[t] = c]_vars

(* A cell that only returns what it computes never shows a value another   *)
(* cell computed: return_result_ is a thread's, and the thread executes    *)
(* all cells in turn.  exit() reads it without a return before: a program  *)
(* in which some body calls exit(), or uses the value of a function that   *)
(* does, may break this.                                                   *)
OwnValues ==
  \A c \in Cells : Ops[c] \cap {"self", "arg"} = {} =>
    heap[val[c]].by \in {c, Nobody}

Stopping == termination_requested \/ failure

(* While the threads run every cell is executed again and again.           *)
EveryCellServed ==
  \A c \in Cells :
    []<>(Stopping \/ \E t \in Threads : pc[t] = "exec" /\ cell[t] = c)

(* After terminate(), exit() or an exception every thread leaves its loop. *)
WorkersStop == \A t \in Threads : Stopping ~> pc[t] = "gone"

-----------------------------------------------------------------------------
(* The threads, locks and boxes implement one actor per cell (CellActors)  *)
(* when no script writes an argument, returns a field, calls exit() in the *)
(* body of a cell or uses the value of a function that calls it.           *)

Holders(c) == {t \in Threads : Holding(t) /\ cell[t] = c}
Holder(c) == CHOOSE t \in Holders(c) : TRUE

ActorPhase(c) ==
  IF Holders(c) = {} THEN "rest"
  ELSE IF pc[Holder(c)] \in {"exec", "publish"} THEN "work" ELSE "done"

ActorSeen(c) ==
  IF Holders(c) = {} THEN <<>>
  ELSE [i \in DOMAIN frame[Holder(c)] |-> heap[frame[Holder(c)][i]]]

Actors == INSTANCE CellActors WITH
  phase <- [c \in Cells |-> ActorPhase(c)],
  seen  <- [c \in Cells |-> ActorSeen(c)],
  field <- [c \in Cells |-> heap[SelfBox(c)]],
  value <- [n \in Nodes |-> heap[val[n]]]

(* Every step of the threads is a step of the actors, or none: a value     *)
(* read into a stack frame or published stays what it was when it was read *)
(* or published, and no two executions of a cell overlap.                  *)
ImplementsActors == Actors!ASpec
=============================================================================
