---------------------------- MODULE PacketTransfer ----------------------------
(***************************************************************************)
(* One direction of a UDP connection: the threads of the sending side      *)
(* share a packets_muxer, which cuts messages into packets and hands them  *)
(* out in turn; the network loses, duplicates and reorders packets; the    *)
(* packets_demuxer of the receiving side collects them by the identifier   *)
(* of their message.  The bytes of a packet are the pair of the message    *)
(* they come from and their place in it: its piece.                        *)
(***************************************************************************)
EXTENDS Naturals, FiniteSets, FiniteSetsExt, Functions

CONSTANTS
  Messages,   \* the messages, each handed to send() once
  Length,     \* Length[m]: the number of packets m fills
  Senders,    \* threads that call send()
  IdCount,    \* how many identifiers there are: 2^16 in the code
  IdsAge      \* whether an identifier is used again only when no packet or
              \* buffer of its last use is left

ASSUME TransferAssumption ==
  /\ Length \in [Messages -> Nat \ {0}]
  /\ IdCount \in Nat \ {0}
  /\ IdsAge \in BOOLEAN

Ids == 0 .. IdCount - 1

VARIABLES
  stream_id_gen,     \* stream_id_gen_: the next identifier
  out_buffers,       \* out_buffers_: identifier -> message and next packet
  out_buffers_key,   \* out_buffers_key_: the identifier to serve next
  spc,               \* where each sender is in send()
  chunk,             \* the packet a sender has fetched and not yet sent
  open,              \* sock_fd_ of the sending side is open
  network,           \* the packets in flight
  in_buffers,        \* in_buffers_: identifier -> packet number -> piece
  sent,              \* the messages handed to send()
  delivered,         \* what add_data returned: the pieces, by their numbers
  dropped,           \* history: messages that lost a packet
  overtook           \* history: overtook[n]: messages served since n was

muxer   == <<stream_id_gen, out_buffers, out_buffers_key>>
sender  == <<spc, chunk, open>>
demuxer == <<in_buffers, delivered>>
vars    == <<muxer, sender, network, demuxer, sent, dropped, overtook>>

Piece  == Messages \X Nat
Packet == [id : Ids, no : Nat, total : Nat, piece : Piece]

(* A message as the receiving side gives it to its user. *)
Whole(m) == [i \in 0 .. Length[m] - 1 |-> <<m, i>>]

Init ==
  /\ stream_id_gen = 0
  /\ out_buffers = <<>> /\ out_buffers_key = 0
  /\ spc = [s \in Senders |-> "idle"]
  /\ chunk = [s \in Senders |-> <<>>]
  /\ open = TRUE
  /\ network = {}
  /\ in_buffers = <<>>
  /\ sent = {} /\ delivered = {} /\ dropped = {}
  /\ overtook = [m \in Messages |-> {}]

-----------------------------------------------------------------------------
(* The sending side. *)

(* insert_or_assign and erase of a map. *)
With(f, key, value) ==
  [k \in DOMAIN f \cup {key} |-> IF k = key THEN value ELSE f[k]]

Without(f, keys) == Restrict(f, DOMAIN f \ keys)

(* What is left of the last use of an identifier. *)
InUse(k) ==
  \/ k \in DOMAIN out_buffers \cup DOMAIN in_buffers
  \/ \E p \in network : p.id = k
  \/ \E s \in Senders : spc[s] = "transmit" /\ chunk[s].id = k

NextIdUnwrapped == stream_id_gen + 1
NextId == (stream_id_gen + 1) % IdCount

(* add_message: insert_or_assign replaces a message that has the key. *)
AddMessage(s, m) ==
  /\ spc[s] = "idle" /\ m \notin sent
  /\ IdsAge => ~InUse(stream_id_gen)
  /\ out_buffers' = With(out_buffers, stream_id_gen, [msg |-> m, packet_no |-> 0])
  /\ stream_id_gen' = NextId
  /\ sent' = sent \cup {m}
  /\ spc' = [spc EXCEPT ![s] = "fetch"]
  /\ UNCHANGED <<out_buffers_key, chunk, open, network, demuxer, dropped, overtook>>

(* The message served is the one remembered, or the first. *)
Served(k) ==
  IF out_buffers_key \in DOMAIN out_buffers THEN k = out_buffers_key
  ELSE \A j \in DOMAIN out_buffers : k <= j

(* The message served next is the one behind it, 0 (the first) if it was   *)
(* the last.                                                               *)
StayOn(k) == k
NextKey(k) ==
  LET behind == {j \in DOMAIN out_buffers : j > k} IN
  IF behind = {} THEN 0 ELSE Min(behind)

PackedWithNewestId(k) ==
  LET message == out_buffers[k] IN
  [id |-> stream_id_gen, no |-> message.packet_no, total |-> Length[message.msg],
   piece |-> <<message.msg, message.packet_no>>]
Packed(k) ==
  LET message == out_buffers[k] IN
  [id |-> k, no |-> message.packet_no, total |-> Length[message.msg],
   piece |-> <<message.msg, message.packet_no>>]

(* One packet leaves the buffer, and the buffer when it was its last. *)
AdvancedEarly(k) ==
  IF out_buffers[k].packet_no + 1 >= Length[out_buffers[k].msg] - 1
  THEN Without(out_buffers, {k})
  ELSE [out_buffers EXCEPT ![k].packet_no = @ + 1]
Advanced(k) ==
  IF out_buffers[k].packet_no + 1 = Length[out_buffers[k].msg]
  THEN Without(out_buffers, {k})
  ELSE [out_buffers EXCEPT ![k].packet_no = @ + 1]

Pending == {out_buffers[k].msg : k \in DOMAIN out_buffers}

FetchOutChunk(s) ==
  /\ spc[s] = "fetch"
  /\ \E k \in DOMAIN out_buffers :
       LET m == out_buffers[k].msg IN
       /\ Served(k)
       /\ chunk' = [chunk EXCEPT ![s] = Packed(k)]
       /\ out_buffers' = Advanced(k)
       /\ out_buffers_key' = NextKey(k)
       /\ overtook' = [n \in Messages |->
                         IF n = m THEN {}
                         ELSE IF n \in Pending THEN overtook[n] \cup {m}
                         ELSE overtook[n]]
  /\ spc' = [spc EXCEPT ![s] = "transmit"]
  /\ UNCHANGED <<stream_id_gen, open, network, demuxer, sent, dropped>>

(* send() returns when the muxer is empty, whosever packets it sent. *)
SendReturns(s) ==
  /\ spc[s] = "fetch"
  /\ DOMAIN out_buffers = {}
  /\ spc' = [spc EXCEPT ![s] = "idle"]
  /\ UNCHANGED <<muxer, chunk, open, network, demuxer, sent, dropped, overtook>>

AfterTransmitDone == "idle"
AfterTransmit == "fetch"

Transmit(s) ==
  /\ spc[s] = "transmit" /\ open
  /\ network' = network \cup {chunk[s]}
  /\ spc' = [spc EXCEPT ![s] = AfterTransmit]
  /\ chunk' = [chunk EXCEPT ![s] = <<>>]
  /\ UNCHANGED <<muxer, open, demuxer, sent, dropped, overtook>>

(* sendto fails, once the socket is closed always: it is closed, and the   *)
(* packet and all that the muxer holds stay behind.                        *)
SendFails(s) ==
  /\ spc[s] = "transmit"
  /\ open' = FALSE
  /\ spc' = [spc EXCEPT ![s] = "idle"]
  /\ chunk' = [chunk EXCEPT ![s] = <<>>]
  /\ dropped' = dropped \cup {chunk[s].piece[1]}
  /\ UNCHANGED <<muxer, network, demuxer, sent, overtook>>

-----------------------------------------------------------------------------
(* The network and the receiving side. *)

Lose(p) ==
  /\ network' = network \ {p}
  /\ dropped' = dropped \cup {p.piece[1]}
  /\ UNCHANGED <<muxer, sender, demuxer, sent, overtook>>

Appended(buffers, p) ==
  With(IF p.id \in DOMAIN buffers THEN buffers[p.id] ELSE <<>>, p.no, p.piece)

CompleteWithLast(frags, total) == total - 1 \in DOMAIN frags
Complete(frags, total) == Cardinality(DOMAIN frags) = total

(* A complete message leaves its buffer; one of a single packet never has  *)
(* one.                                                                    *)
AddData(p, stale) ==
  LET kept  == Without(in_buffers, stale)
      frags == Appended(kept, p) IN
  \/ /\ p.total = 1
     /\ delivered' = delivered \cup {[i \in {p.no} |-> p.piece]}
     /\ in_buffers' = kept
  \/ /\ p.total > 1
     /\ Complete(frags, p.total)
     /\ delivered' = delivered \cup {frags}
     /\ in_buffers' = Without(kept, {p.id})
  \/ /\ p.total > 1
     /\ ~Complete(frags, p.total)
     /\ delivered' = delivered
     /\ in_buffers' = With(kept, p.id, frags)

MessagesIn(k) == {in_buffers[k][i][1] : i \in DOMAIN in_buffers[k]}

(* set_incoming_data: buffers that are too old go first; any may be. *)
Receive(p) ==
  /\ \E stale \in SUBSET DOMAIN in_buffers :
       /\ AddData(p, stale)
       /\ dropped' = dropped \cup UNION {MessagesIn(k) : k \in stale}
  /\ UNCHANGED <<muxer, sender, sent, overtook>>

(* A packet arrives for the last time, or comes again. *)
ReceiveLast(p)  == Receive(p) /\ network' = network \ {p}
ReceiveEarly(p) == Receive(p) /\ UNCHANGED network

-----------------------------------------------------------------------------
Send(s) == FetchOutChunk(s) \/ SendReturns(s) \/ Transmit(s) \/ SendFails(s)

Next ==
  \/ \E s \in Senders : Send(s) \/ \E m \in Messages : AddMessage(s, m)
  \/ \E p \in network : Lose(p) \/ ReceiveLast(p) \/ ReceiveEarly(p)

Spec == Init /\ [][Next]_vars

(* A thread in send() goes on, and what the network does not lose arrives. *)
FairSpec ==
  /\ Spec
  /\ \A s \in Senders : WF_vars(Send(s))
  /\ WF_vars(\E p \in network : ReceiveLast(p))

-----------------------------------------------------------------------------
(* The variables hold what their declarations in the code allow. *)
TypeOK ==
  /\ stream_id_gen \in Ids /\ out_buffers_key \in Ids
  /\ DOMAIN out_buffers \subseteq Ids
  /\ \A k \in DOMAIN out_buffers :
       out_buffers[k] \in [msg : Messages, packet_no : Nat]
  /\ spc \in [Senders -> {"idle", "fetch", "transmit"}]
  /\ \A s \in Senders : spc[s] = "transmit" => chunk[s] \in Packet
  /\ open \in BOOLEAN
  /\ network \subseteq Packet
  /\ DOMAIN in_buffers \subseteq Ids
  /\ \A k \in DOMAIN in_buffers :
       DOMAIN in_buffers[k] \subseteq Nat /\ \A i \in DOMAIN in_buffers[k] : in_buffers[k][i] \in Piece
  /\ sent \subseteq Messages /\ dropped \subseteq Messages
  /\ overtook \in [Messages -> SUBSET Messages]

(* What the receiving side gives to its user is a message that was sent,   *)
(* whole and in order, whatever the network loses, repeats or reorders:    *)
(* packets of different messages never end up in one.                      *)
Integrity == \A d \in delivered : \E m \in sent : d = Whole(m)

(* At the receiving side an identifier stands for one message: a buffer    *)
(* collects the pieces of one, and the packets that are still on their way *)
(* to that buffer are of the same.                                         *)
OneMessagePerId ==
  /\ \A k \in DOMAIN in_buffers : \A i, j \in DOMAIN in_buffers[k] :
       in_buffers[k][i][1] = in_buffers[k][j][1]
  /\ \A p, q \in network : p.id = q.id => p.piece[1] = q.piece[1]
  /\ \A p \in network : p.id \in DOMAIN in_buffers =>
       \A i \in DOMAIN in_buffers[p.id] : in_buffers[p.id][i][1] = p.piece[1]

(* When every send() has returned nothing is left in the muxer: a packet   *)
(* that another thread's message waits for is sent by whoever fetches it.  *)
NothingLeftBehind ==
  open /\ (\A s \in Senders : spc[s] = "idle") => DOMAIN out_buffers = {}

(* No head-of-line blocking: between two packets of a message every other  *)
(* message that waits gets a packet out.                                   *)
TakesTurns ==
  [][\A m, n \in Messages :
       m \in overtook[n] /\ n \in Pending /\ n \in Pending' =>
         ~\E s \in Senders : spc[s] = "fetch" /\ spc'[s] = "transmit" /\ chunk'[s].piece[1] = m]_vars

(* A message of which no packet is lost arrives, if the socket stays open. *)
ArrivesUnlessDropped ==
  \A m \in Messages :
    m \in sent ~> Whole(m) \in delivered \/ m \in dropped \/ ~open
=============================================================================
