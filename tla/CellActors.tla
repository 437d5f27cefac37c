------------------------------ MODULE CellActors ------------------------------
(***************************************************************************)
(* What a TealScript graph promises its author: every worker cell is an    *)
(* actor that runs by itself, one execution after another.  An execution   *)
(* observes the current value of each of its sources, may change the       *)
(* fields of its own cell, and publishes at most one value.  Values are    *)
(* values: nothing that was observed or published changes afterwards.      *)
(* There are no threads, locks or boxes here.                              *)
(***************************************************************************)
EXTENDS Naturals, Sequences

CONSTANTS Cells, Inputs, Sources, Lit, Nobody, Marks

Nodes == Cells \cup Inputs
Value == [by : Nodes \cup {Nobody}, mark : Marks]

VARIABLES
  phase,   \* phase[c]: "rest", "work" or, once c has published, "done"
  seen,    \* the values the current execution of c has observed
  field,   \* the field of each cell
  value    \* the published value of each node

avars == <<phase, seen, field, value>>

Undefined == [by |-> Nobody, mark |-> CHOOSE m \in Marks : TRUE]
Constant(c) == [Undefined EXCEPT !.by = c]

AInit ==
  /\ phase = [c \in Cells |-> "rest"]
  /\ seen = [c \in Cells |-> <<>>]
  /\ field = [c \in Cells |-> Undefined]
  /\ value = [n \in Nodes |-> Undefined]

Begin(c) ==
  /\ phase[c] = "rest"
  /\ phase' = [phase EXCEPT ![c] = "work"]
  /\ UNCHANGED <<seen, field, value>>

Observe(c) ==
  /\ phase[c] = "work"
  /\ Len(seen[c]) < Len(Sources[c])
  /\ LET source == Sources[c][Len(seen[c]) + 1] IN
       seen' = [seen EXCEPT ![c] =
                  Append(@, IF source = Lit THEN Constant(c) ELSE value[source])]
  /\ UNCHANGED <<phase, field, value>>

Observed(c) == {seen[c][i] : i \in DOMAIN seen[c]}
Computed(c) == {v \in Value : v.by = c}

Ready(c) == phase[c] = "work" /\ Len(seen[c]) = Len(Sources[c])

Remember(c) ==
  /\ Ready(c)
  /\ \E v \in Computed(c) \cup Observed(c) : field' = [field EXCEPT ![c] = v]
  /\ UNCHANGED <<phase, seen, value>>

Publish(c) ==
  /\ Ready(c)
  /\ \E v \in Computed(c) \cup Observed(c) : value' = [value EXCEPT ![c] = v]
  /\ phase' = [phase EXCEPT ![c] = "done"]
  /\ UNCHANGED <<seen, field>>

(* An execution may end without publishing, by falling off its end or by   *)
(* an exception.                                                           *)
Abandon(c) ==
  /\ Ready(c)
  /\ phase' = [phase EXCEPT ![c] = "done"]
  /\ UNCHANGED <<seen, field, value>>

Rest(c) ==
  /\ phase[c] = "done"
  /\ phase' = [phase EXCEPT ![c] = "rest"]
  /\ seen' = [seen EXCEPT ![c] = <<>>]
  /\ UNCHANGED <<field, value>>

ASetInput(n) ==
  /\ \E v \in Value : v.by = n /\ value' = [value EXCEPT ![n] = v]
  /\ UNCHANGED <<phase, seen, field>>

ANext ==
  \/ \E c \in Cells : Begin(c) \/ Observe(c) \/ Remember(c) \/ Publish(c)
                      \/ Abandon(c) \/ Rest(c)
  \/ \E n \in Inputs : ASetInput(n)

ASpec == AInit /\ [][ANext]_avars
=============================================================================
