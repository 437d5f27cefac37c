------------------------------ MODULE ExternSync ------------------------------
(***************************************************************************)
(* The extern cells of one node and the cells of another that they show.   *)
(* Every five seconds the subscribing job of the first node asks for each  *)
(* of its extern cells; the publishing job of the second one sends the     *)
(* value of each cell it was asked for when it has not sent that value.    *)
(* The requests and the values travel in datagrams that are lost, late or  *)
(* out of order, and the jobs that handle them run in any order; the       *)
(* server is stopped and started, the client opens new connections, the    *)
(* server drops silent ones.                                               *)
(***************************************************************************)
EXTENDS Naturals, FiniteSets

CONSTANTS
  Cells,         \* the names of the server's cells
  Aliases,       \* the names of the client's extern cells
  RemoteOf,      \* remote_var_name() of an extern cell
  Conns,         \* names for connections, that is client ports
  NoConn,
  MaxVersion,    \* bound: how often a cell changes
  NetSize        \* bound: datagrams on their way

ASSUME SyncAssumption ==
  /\ NoConn \notin Conns
  /\ MaxVersion \in Nat /\ NetSize \in Nat \ {0}

Names == {RemoteOf[a] : a \in Aliases}

(* A value is the cell that had it and how often that cell had changed.    *)
Undefined == [of |-> "undefined", version |-> 0]
NotSent   == [of |-> "not sent", version |-> 0]
Value(n, k) == [of |-> n, version |-> k]

NoSub == [alias |-> "none", sent |-> NotSent]

VARIABLES
  version,   \* of a server's cell: how often it has changed
  subs,      \* net_subs_: connection -> name -> alias and last sent value
  cell,      \* the client's extern cells
  conn,      \* the client's connection to the server
  net        \* the datagrams on their way

server == <<version, subs>>
client == <<cell, conn>>
vars == <<server, client, net>>

Init ==
  /\ version = [n \in Cells |-> 0]
  /\ subs = [c \in Conns |-> [n \in Names |-> NoSub]]
  /\ cell = [a \in Aliases |-> Undefined]
  /\ conn = NoConn
  /\ net = {}

Current(n) == Value(n, version[n])

Room == Cardinality(net) < NetSize

Request(c, a) == [kind |-> "sub", conn |-> c, alias |-> a]
Answer(c, a, v) == [kind |-> "pub", conn |-> c, alias |-> a, value |-> v]

-----------------------------------------------------------------------------
(* The client. *)

(* A new client has a port of its own. *)
Fresh(c) ==
  /\ \A n \in Names : subs[c][n] = NoSub
  /\ \A m \in net : m.conn # c

(* Every five seconds.  get_connected_client takes a connection without    *)
(* data for more than 10 seconds for a broken one and opens another.  Time *)
(* is not part of the state, so that a connection may be taken for broken  *)
(* at any request.  When one cannot be opened nothing is sent, as when the *)
(* request is lost.                                                        *)
Ask(a) ==
  /\ Room
  /\ \E c \in Conns :
       /\ c = conn \/ Fresh(c)
       /\ conn' = c
       /\ net' = net \cup {Request(c, a)}
  /\ UNCHANGED <<server, cell>>

(* "pub": the extern cell of that name is set. *)
StoredInAll(m) == [a \in Aliases |-> m.value]
Stored(m) == [cell EXCEPT ![m.alias] = m.value]

Show(m) ==
  /\ m.kind = "pub"
  /\ cell' = Stored(m)
  /\ UNCHANGED <<server, conn>>

-----------------------------------------------------------------------------
(* The server. *)

Change(n) ==
  /\ version[n] < MaxVersion
  /\ version' = [version EXCEPT ![n] = @ + 1]
  /\ UNCHANGED <<subs, client, net>>

(* subscribe(): names_[name] = {alias, {}, 0}. *)
EntryKeepingSent(c, a) == [alias |-> a, sent |-> subs[c][RemoteOf[a]].sent]
EntryOfUndefined(c, a) == [alias |-> a, sent |-> Undefined]
Entry(c, a) == [alias |-> a, sent |-> NotSent]

Subscribe(m) ==
  /\ m.kind = "sub"
  /\ subs' = [subs EXCEPT ![m.conn][RemoteOf[m.alias]] = Entry(m.conn, m.alias)]
  /\ UNCHANGED <<version, client>>

(* One entry of the publishing job's pass: a value not sent yet is recorded *)
(* as sent and sent; a name without a cell is answered again and again.     *)
Publish(c, n) ==
  /\ subs[c][n] # NoSub /\ Room
  /\ IF n \in Cells
     THEN /\ subs[c][n].sent # Current(n)
          /\ subs' = [subs EXCEPT ![c][n].sent = Current(n)]
          /\ net' = net \cup {Answer(c, subs[c][n].alias, Current(n))}
     ELSE /\ net' = net \cup {Answer(c, subs[c][n].alias, Undefined)}
          /\ UNCHANGED subs
  /\ UNCHANGED <<version, client>>

(* A connection was silent for ten seconds: at any moment, time is not     *)
(* part of the state.                                                      *)
Expire(c) ==
  /\ \E n \in Names : subs[c][n] # NoSub
  /\ subs' = [subs EXCEPT ![c] = [n \in Names |-> NoSub]]
  /\ UNCHANGED <<version, client, net>>

(* The server is stopped and started again.  The requests that come in the *)
(* meantime are among those that are lost.                                 *)
Restart ==
  /\ subs' = [c \in Conns |-> [n \in Names |-> NoSub]]
  /\ UNCHANGED <<version, client, net>>

-----------------------------------------------------------------------------
(* The network and the pools of both nodes. *)

Handle(m) == Subscribe(m) \/ Show(m)

Deliver(m) == Handle(m) /\ net' = net \ {m}

Lose(m) == net' = net \ {m} /\ UNCHANGED <<server, client>>

DeliverFor(k, n) ==
  \E m \in net : m.kind = k /\ RemoteOf[m.alias] = n /\ Deliver(m)

Next ==
  \/ \E a \in Aliases : Ask(a)
  \/ \E n \in Cells : Change(n)
  \/ \E c \in Conns : Expire(c) \/ \E n \in Names : Publish(c, n)
  \/ Restart
  \/ \E m \in net : Deliver(m) \/ Lose(m)

Spec == Init /\ [][Next]_vars

(* Jobs go on, a connection the client has left expires, and the network   *)
(* does not stay full.  A cell the server has is asked for again and       *)
(* again; requests for it that are sent again and again are delivered      *)
(* again and again, so are its values, and an entry made again and again   *)
(* is published now and then.                                              *)
FairSpec ==
  /\ Spec
  /\ WF_vars(\E c \in Conns \ {conn} : Expire(c))
  /\ WF_vars(\E m \in net : Lose(m))
  /\ \A n \in Cells :
       /\ SF_vars(\E a \in Aliases : RemoteOf[a] = n /\ Ask(a))
       /\ SF_vars(DeliverFor("sub", n)) /\ SF_vars(DeliverFor("pub", n))
       /\ SF_vars(\E c \in Conns : Publish(c, n))

-----------------------------------------------------------------------------
(* The variables hold what their declarations in the code allow. *)
Values(n) == IF n \in Cells THEN {Value(n, k) : k \in 0 .. MaxVersion} ELSE {Undefined}

TypeOK ==
  /\ version \in [Cells -> 0 .. MaxVersion]
  /\ \A c \in Conns, n \in Names :
       \/ subs[c][n] = NoSub
       \/ /\ subs[c][n].alias \in Aliases
          /\ subs[c][n].sent \in Values(n) \cup {NotSent}
  /\ DOMAIN cell = Aliases
  /\ conn \in Conns \cup {NoConn}
  /\ Cardinality(net) <= NetSize

(* An extern cell never shows what its remote cell did not have: the value *)
(* of another cell, or one from its future.                                *)
ShowsRemote ==
  \A a \in Aliases :
    \/ cell[a] = Undefined
    \/ /\ RemoteOf[a] \in Cells
       /\ \E k \in 0 .. version[RemoteOf[a]] : cell[a] = Value(RemoteOf[a], k)

Shown(n) == \E a \in Aliases : RemoteOf[a] = n /\ cell[a] = Current(n)

(* Once the cells of the server rest, an extern cell comes to show the     *)
(* value of its remote cell and keeps it, whatever was lost or reordered,  *)
(* however often the server restarted or the client changed connections;   *)
(* of several extern cells for one remote cell, one at least does: the     *)
(* server remembers a single alias for a name.                             *)
Converges == \A n \in Cells : <>[]Shown(n)
=============================================================================
