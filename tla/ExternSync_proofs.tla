--------------------------- MODULE ExternSync_proofs ---------------------------
(***************************************************************************)
(* Proofs about ExternSync, for every set of cells, extern cells and       *)
(* connections and every bound: its types, and that an extern cell shows   *)
(* only values its remote cell had.                                        *)
(***************************************************************************)
EXTENDS ExternSync, FiniteSetTheorems, TLAPS

AllValues == {Undefined} \cup {Value(n, k) : n \in Cells, k \in 0 .. MaxVersion}

Entries == [alias : Aliases, sent : AllValues \cup {NotSent}]

(* What a cell has had up to now, and what a name without a cell answers. *)
Had(n) ==
  IF n \in Cells THEN {Undefined} \cup {Value(n, k) : k \in 0 .. version[n]} ELSE {Undefined}

(* An entry is of an extern cell for that name, and remembers one of the   *)
(* name's values.                                                          *)
EntriesMatch ==
  \A c \in Conns, n \in Names :
    \/ subs[c][n] = NoSub
    \/ /\ subs[c][n] \in Entries
       /\ RemoteOf[subs[c][n].alias] = n
       /\ subs[c][n].sent \in Values(n) \cup {NotSent}

(* What is on its way: requests for extern cells, and values that the      *)
(* remote cell of the extern cell they are meant for had.                  *)
Honest(m) ==
  /\ m.conn \in Conns /\ m.alias \in Aliases
  /\ m.kind = "pub" => m.value \in Had(RemoteOf[m.alias])

NetHonest ==
  /\ IsFiniteSet(net) /\ Cardinality(net) <= NetSize
  /\ \A m \in net : Honest(m)

CellsHonest ==
  /\ cell \in [Aliases -> AllValues]
  /\ \A a \in Aliases : cell[a] \in Had(RemoteOf[a])

Typed ==
  /\ version \in [Cells -> 0 .. MaxVersion]
  /\ subs \in [Conns -> [Names -> Entries \cup {NoSub}]]
  /\ conn \in Conns \cup {NoConn}

IInv == Typed /\ EntriesMatch /\ NetHonest /\ CellsHonest

-----------------------------------------------------------------------------
LEMMA Initial == Init => IInv
<1> SUFFICES ASSUME Init PROVE IInv
  OBVIOUS
<1> USE SyncAssumption
<1>1. Typed
  BY DEF Init, Typed
<1>2. EntriesMatch
  BY DEF Init, EntriesMatch
<1>3. NetHonest
  BY FS_EmptySet DEF Init, NetHonest
<1>4. CellsHonest
  BY DEF Init, CellsHonest, AllValues, Had
<1>. QED
  BY <1>1, <1>2, <1>3, <1>4 DEF IInv

(* The network with one datagram more, if there is room, or one less. *)
LEMMA NetGrows ==
  ASSUME NetHonest, Room, NEW m, Honest(m)'
  PROVE  LET N == net \cup {m} IN IsFiniteSet(N) /\ Cardinality(N) <= NetSize
<1>1. IsFiniteSet(net) /\ Cardinality(net) \in Nat /\ NetSize \in Nat
  BY FS_CardinalityType, SyncAssumption DEF NetHonest
<1>2. IsFiniteSet(net \cup {m})
  BY <1>1, FS_AddElement
<1>3. Cardinality(net \cup {m}) \in {Cardinality(net), Cardinality(net) + 1}
  BY <1>1, FS_AddElement
<1>4. Cardinality(net) < NetSize
  BY DEF Room
<1>. QED
  BY <1>1, <1>2, <1>3, <1>4

LEMMA NetShrinks ==
  ASSUME NetHonest, NEW m \in net
  PROVE  IsFiniteSet(net \ {m}) /\ Cardinality(net \ {m}) <= NetSize
<1>1. IsFiniteSet(net) /\ Cardinality(net) \in Nat /\ NetSize \in Nat
  BY FS_CardinalityType, SyncAssumption DEF NetHonest
<1>2. IsFiniteSet(net \ {m}) /\ Cardinality(net \ {m}) = Cardinality(net) - 1
  BY <1>1, FS_RemoveElement
<1>. QED
  BY <1>1, <1>2 DEF NetHonest

(* What a cell had it still has had. *)
LEMMA HadStays ==
  ASSUME Typed, [Next]_vars, NEW n
  PROVE  Had(n) \subseteq Had(n)'
<1>1. CASE version' = version
  BY <1>1 DEF Had
<1>2. CASE \E k \in Cells : Change(k)
  BY <1>2 DEF Had, Change, Typed
<1>3. version' = version \/ \E k \in Cells : Change(k)
  BY DEF Next, vars, server, client, Ask, Expire, Publish, Restart, Deliver, Lose,
         Handle, Subscribe, Show
<1>. QED
  BY <1>1, <1>2, <1>3

LEMMA HonestStays ==
  ASSUME Typed, [Next]_vars, NEW m, Honest(m)
  PROVE  Honest(m)'
BY HadStays DEF Honest

(* A step that leaves the network, the cells or the entries alone. *)
LEMMA NetSame ==
  ASSUME Typed, [Next]_vars, NetHonest, UNCHANGED net
  PROVE  NetHonest'
BY HonestStays DEF NetHonest

LEMMA CellsSame ==
  ASSUME Typed, [Next]_vars, CellsHonest, UNCHANGED cell
  PROVE  CellsHonest'
BY HadStays DEF CellsHonest

LEMMA EntriesSame ==
  ASSUME EntriesMatch, UNCHANGED subs
  PROVE  EntriesMatch'
BY DEF EntriesMatch, Values

(* The network takes up an honest datagram. *)
LEMMA NetTakes ==
  ASSUME Typed, [Next]_vars, NetHonest, Room, NEW m, Honest(m)', net' = net \cup {m}
  PROVE  NetHonest'
BY NetGrows, HonestStays DEF NetHonest

LEMMA NetLoses ==
  ASSUME Typed, [Next]_vars, NetHonest, NEW m \in net, net' = net \ {m}
  PROVE  NetHonest'
BY NetShrinks, HonestStays DEF NetHonest

-----------------------------------------------------------------------------
(* The inductive step, one action at a time. *)

LEMMA AskStep == ASSUME IInv, NEW a \in Aliases, Ask(a) PROVE IInv'
<1>0. [Next]_vars
  BY DEF Next
<1>1. PICK c \in Conns : conn' = c /\ net' = net \cup {Request(c, a)}
  BY DEF Ask
<1>2. Room /\ UNCHANGED <<version, subs, cell>>
  BY DEF Ask, server
<1>3. Honest(Request(c, a))'
  BY DEF Honest, Request
<1>4. Typed'
  BY <1>1, <1>2 DEF IInv, Typed
<1>. QED
  BY <1>0, <1>1, <1>2, <1>3, <1>4, NetTakes, CellsSame, EntriesSame DEF IInv

LEMMA ChangeStep == ASSUME IInv, NEW n \in Cells, Change(n) PROVE IInv'
<1>0. [Next]_vars
  BY DEF Next
<1>1. UNCHANGED <<subs, cell, conn, net>>
  BY DEF Change, client
<1>2. Typed'
  BY <1>1, SyncAssumption DEF IInv, Typed, Change
<1>. QED
  BY <1>0, <1>1, <1>2, NetSame, CellsSame, EntriesSame DEF IInv

LEMMA ExpireStep == ASSUME IInv, NEW c \in Conns, Expire(c) PROVE IInv'
<1>0. [Next]_vars
  BY DEF Next
<1>1. UNCHANGED <<version, cell, conn, net>>
  BY DEF Expire, client
<1>2. Typed'
  BY <1>1 DEF IInv, Typed, Expire
<1>3. EntriesMatch'
  BY DEF IInv, Typed, EntriesMatch, Expire, Values
<1>. QED
  BY <1>0, <1>1, <1>2, <1>3, NetSame, CellsSame DEF IInv

LEMMA RestartStep == ASSUME IInv, Restart PROVE IInv'
<1>0. [Next]_vars
  BY DEF Next
<1>1. UNCHANGED <<version, cell, conn, net>>
  BY DEF Restart, client
<1>2. Typed'
  BY <1>1 DEF IInv, Typed, Restart
<1>3. EntriesMatch'
  BY DEF EntriesMatch, Restart
<1>. QED
  BY <1>0, <1>1, <1>2, <1>3, NetSame, CellsSame DEF IInv

(* The value sent is the one its cell has, and goes to the extern cell     *)
(* the entry is of, which is one for that name.                            *)
LEMMA PublishStep ==
  ASSUME IInv, NEW c \in Conns, NEW n \in Names, Publish(c, n) PROVE IInv'
<1>0. [Next]_vars
  BY DEF Next
<1>1. Room /\ UNCHANGED <<version, cell, conn>>
  BY DEF Publish, client
<1>2. /\ subs[c][n] \in Entries
      /\ RemoteOf[subs[c][n].alias] = n
  BY DEF Publish, IInv, EntriesMatch
<1>3. PICK a \in Aliases : a = subs[c][n].alias
  BY <1>2 DEF Entries
<1>4. CASE n \in Cells
  <2>1. version[n] \in 0 .. MaxVersion
    BY <1>4 DEF IInv, Typed
  <2>2. PICK v : v = Current(n)
    OBVIOUS
  <2>3. v \in AllValues /\ v \in Values(n)
    BY <1>4, <2>1, <2>2 DEF Current, AllValues, Values
  <2>4. v \in Had(n)'
    BY <1>1, <1>4, <2>1, <2>2 DEF Current, Had
  <2>5. subs' = [subs EXCEPT ![c][n].sent = v] /\ net' = net \cup {Answer(c, a, v)}
    BY <1>3, <1>4, <2>2 DEF Publish
  <2>6. Honest(Answer(c, a, v))'
    BY <1>2, <1>3, <2>4 DEF Honest, Answer
  <2>7. [subs[c][n] EXCEPT !.sent = v] \in Entries
    BY <1>2, <2>3 DEF Entries
  <2>8. Typed'
    BY <1>1, <2>5, <2>7 DEF IInv, Typed
  <2>9. EntriesMatch'
    BY <1>2, <2>3, <2>5, <2>7 DEF IInv, Typed, EntriesMatch, Values, Entries
  <2>. QED
    BY <1>0, <1>1, <2>5, <2>6, <2>8, <2>9, NetTakes, CellsSame DEF IInv
<1>5. CASE n \notin Cells
  <2>1. UNCHANGED subs /\ net' = net \cup {Answer(c, a, Undefined)}
    BY <1>3, <1>5 DEF Publish
  <2>2. Honest(Answer(c, a, Undefined))'
    BY <1>2, <1>3, <1>5 DEF Honest, Answer, Had
  <2>3. Typed'
    BY <1>1, <2>1 DEF IInv, Typed
  <2>. QED
    BY <1>0, <1>1, <2>1, <2>2, <2>3, NetTakes, CellsSame, EntriesSame DEF IInv
<1>. QED
  BY <1>4, <1>5

LEMMA LoseStep == ASSUME IInv, NEW m \in net, Lose(m) PROVE IInv'
<1>0. [Next]_vars
  BY DEF Next
<1>1. net' = net \ {m} /\ UNCHANGED <<version, subs, cell, conn>>
  BY DEF Lose, server, client
<1>2. Typed'
  BY <1>1 DEF IInv, Typed
<1>. QED
  BY <1>0, <1>1, <1>2, NetLoses, CellsSame, EntriesSame DEF IInv

LEMMA SubscribeStep ==
  ASSUME IInv, NEW m \in net, Subscribe(m), net' = net \ {m} PROVE IInv'
<1>0. [Next]_vars
  BY DEF Next, Deliver, Handle
<1>1. UNCHANGED <<version, cell, conn>>
  BY DEF Subscribe, client
<1>2. m.conn \in Conns /\ m.alias \in Aliases /\ RemoteOf[m.alias] \in Names
  BY DEF IInv, NetHonest, Honest, Names
<1>3. /\ Entry(m.conn, m.alias) \in Entries
      /\ Entry(m.conn, m.alias).alias = m.alias
      /\ Entry(m.conn, m.alias).sent = NotSent
  BY <1>2 DEF Entry, Entries
<1>4. subs' = [subs EXCEPT ![m.conn][RemoteOf[m.alias]] = Entry(m.conn, m.alias)]
  BY DEF Subscribe
<1>5. Typed'
  BY <1>1, <1>2, <1>3, <1>4 DEF IInv, Typed
<1>6. EntriesMatch'
  BY <1>2, <1>3, <1>4 DEF IInv, Typed, EntriesMatch, Values
<1>. QED
  BY <1>0, <1>1, <1>5, <1>6, NetLoses, CellsSame DEF IInv

LEMMA ShowStep ==
  ASSUME IInv, NEW m \in net, Show(m), net' = net \ {m} PROVE IInv'
<1>0. [Next]_vars
  BY DEF Next, Deliver, Handle
<1>1. UNCHANGED <<version, subs, conn>> /\ cell' = [cell EXCEPT ![m.alias] = m.value]
  BY DEF Show, server, Stored
<1>2. m.alias \in Aliases /\ m.value \in Had(RemoteOf[m.alias])
  BY DEF Show, IInv, NetHonest, Honest
<1>3. m.value \in AllValues
  <2>1. CASE RemoteOf[m.alias] \in Cells
    <3>1. version[RemoteOf[m.alias]] \in 0 .. MaxVersion
      BY <2>1 DEF IInv, Typed
    <3>. QED
      BY <1>2, <2>1, <3>1, SyncAssumption DEF Had, AllValues
  <2>2. CASE RemoteOf[m.alias] \notin Cells
    BY <1>2, <2>2 DEF Had, AllValues
  <2>. QED
    BY <2>1, <2>2
<1>4. Typed'
  BY <1>1 DEF IInv, Typed
<1>5. CellsHonest'
  BY <1>1, <1>2, <1>3 DEF IInv, CellsHonest, Had
<1>. QED
  BY <1>0, <1>1, <1>4, <1>5, NetLoses, EntriesSame DEF IInv

LEMMA Inductive == IInv /\ [Next]_vars => IInv'
<1> SUFFICES ASSUME IInv, [Next]_vars PROVE IInv'
  OBVIOUS
<1>1. CASE UNCHANGED vars
  <2>1. UNCHANGED <<version, subs, cell, conn, net>>
    BY <1>1 DEF vars, server, client
  <2>2. Typed'
    BY <2>1 DEF IInv, Typed
  <2>. QED
    BY <2>1, <2>2, NetSame, CellsSame, EntriesSame DEF IInv
<1>2. CASE Next
  <2>1. ASSUME NEW m \in net, Deliver(m) PROVE IInv'
    BY <2>1, SubscribeStep, ShowStep DEF Deliver, Handle
  <2>. QED
    BY <1>2, <2>1, AskStep, ChangeStep, ExpireStep, RestartStep, PublishStep, LoseStep
       DEF Next
<1>. QED
  BY <1>1, <1>2

-----------------------------------------------------------------------------
(* Every variable keeps its type, and the network its bound. *)
THEOREM TypeCorrect == Spec => []TypeOK
<1>1. IInv => TypeOK
  BY DEF IInv, Typed, EntriesMatch, Entries, CellsHonest, NetHonest, TypeOK
<1>. QED
  BY <1>1, Initial, Inductive, PTL DEF Spec

(* An extern cell shows nothing but values its remote cell had: whatever   *)
(* is lost, late or out of order, and whoever subscribes under which name. *)
THEOREM OnlyRemoteValues == Spec => []ShowsRemote
<1>1. IInv => ShowsRemote
  BY DEF IInv, CellsHonest, Had, ShowsRemote
<1>. QED
  BY <1>1, Initial, Inductive, PTL DEF Spec
=============================================================================
