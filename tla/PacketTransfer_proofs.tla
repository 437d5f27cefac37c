------------------------ MODULE PacketTransfer_proofs ------------------------
(***************************************************************************)
(* Proofs about PacketTransfer for every set of messages, every length,    *)
(* every number of threads and of identifiers.                             *)
(***************************************************************************)
EXTENDS PacketTransfer, FiniteSetTheorems, WellFoundedInduction, TLAPS

(* Whose message identifier k stands for, anywhere between the muxer and   *)
(* the demuxer.                                                            *)
UsedBy(k, m) ==
  \/ k \in DOMAIN out_buffers /\ out_buffers[k].msg = m
  \/ \E s \in Senders : spc[s] = "transmit" /\ chunk[s].id = k /\ chunk[s].piece[1] = m
  \/ \E p \in network : p.id = k /\ p.piece[1] = m
  \/ k \in DOMAIN in_buffers /\ \E i \in DOMAIN in_buffers[k] : in_buffers[k][i][1] = m

(* An identifier stands for one message at a time. *)
OneUser == \A k, m, n : UsedBy(k, m) /\ UsedBy(k, n) => m = n

(* A packet carries the piece of a sent message its header names. *)
Genuine(p) ==
  \E m \in sent :
    /\ p.no \in 0 .. Length[m] - 1
    /\ p.total = Length[m]
    /\ p.piece = <<m, p.no>>

SoundMuxer ==
  \A k \in DOMAIN out_buffers :
    /\ out_buffers[k] = [msg |-> out_buffers[k].msg, packet_no |-> out_buffers[k].packet_no]
    /\ out_buffers[k].msg \in sent
    /\ out_buffers[k].packet_no \in 0 .. Length[out_buffers[k].msg] - 1

SoundChunks  == \A s \in Senders : spc[s] = "transmit" => Genuine(chunk[s])
SoundNetwork == \A p \in network : Genuine(p)

SoundDemuxer ==
  \A k \in DOMAIN in_buffers : \A i \in DOMAIN in_buffers[k] :
    \E m \in sent : i \in 0 .. Length[m] - 1 /\ in_buffers[k][i] = <<m, i>>

Control ==
  /\ sent \subseteq Messages
  /\ spc \in [Senders -> {"idle", "fetch", "transmit"}]
  /\ DOMAIN chunk = Senders

IInv ==
  /\ Control
  /\ OneUser
  /\ SoundMuxer
  /\ SoundChunks
  /\ SoundNetwork
  /\ SoundDemuxer
  /\ Integrity

-----------------------------------------------------------------------------
(* The empty map, and a map without some of its keys. *)

LEMMA EmptyMap == DOMAIN <<>> = {}
  OBVIOUS

LEMMA WithoutFacts ==
  ASSUME NEW f, NEW S
  PROVE  /\ DOMAIN Without(f, S) = DOMAIN f \ S
         /\ \A z \in DOMAIN f \ S : Without(f, S)[z] = f[z]
  BY DEF Without, Restrict

(* The fragments of one message that has all its packets are the message:  *)
(* Length[m] packet numbers below Length[m] are all of them.               *)
LEMMA AllFragments ==
  ASSUME NEW m \in Messages, NEW D, NEW f,
         f = [i \in D |-> f[i]],
         \A i \in D : i \in 0 .. Length[m] - 1 /\ f[i] = <<m, i>>,
         Cardinality(D) = Length[m]
  PROVE  f = Whole(m)
<1>1. Length[m] \in Nat /\ Length[m] > 0
  BY TransferAssumption
<1>2. IsFiniteSet(0 .. Length[m] - 1) /\ Cardinality(0 .. Length[m] - 1) = Length[m]
  <2>1. 0 \in Int /\ Length[m] - 1 \in Int /\ ~(0 > Length[m] - 1)
    BY <1>1
  <2>2. /\ IsFiniteSet(0 .. Length[m] - 1)
        /\ Cardinality(0 .. Length[m] - 1) = (Length[m] - 1) - 0 + 1
    BY <2>1, FS_Interval
  <2> QED
    BY <1>1, <2>2
<1>3. D \in SUBSET (0 .. Length[m] - 1)
  OBVIOUS
<1>4. D = 0 .. Length[m] - 1
  BY <1>2, <1>3, FS_Subset
<1>5. f = [i \in 0 .. Length[m] - 1 |-> <<m, i>>]
  BY <1>4
<1> QED
  BY <1>5 DEF Whole

-----------------------------------------------------------------------------
(* Every step but that of add_message only hands an identifier on. *)
LEMMA HandedOn ==
  ASSUME OneUser, \A k, m : UsedBy(k, m)' => UsedBy(k, m)
  PROVE  OneUser'
  BY DEF OneUser

LEMMA InitIInv == Init => IInv
  BY EmptyMap DEF Init, IInv, Control, OneUser, UsedBy, SoundMuxer, SoundChunks,
     SoundNetwork, SoundDemuxer, Integrity

(* add_message takes an identifier nothing is left of. *)
LEMMA AddMessageIInv ==
  ASSUME IInv, IdsAge, NEW s \in Senders, NEW m \in Messages, AddMessage(s, m)
  PROVE  IInv'
<1> USE DEF IInv
<1> DEFINE id == stream_id_gen
<1>0. /\ ~InUse(id) /\ spc[s] = "idle"
      /\ out_buffers' = With(out_buffers, id, [msg |-> m, packet_no |-> 0])
      /\ spc' = [spc EXCEPT ![s] = "fetch"]
      /\ sent' = sent \cup {m}
      /\ chunk' = chunk /\ network' = network
      /\ in_buffers' = in_buffers /\ delivered' = delivered
  BY DEF AddMessage, demuxer
<1>1. /\ DOMAIN out_buffers' = DOMAIN out_buffers \cup {id}
      /\ out_buffers'[id] = [msg |-> m, packet_no |-> 0]
      /\ \A k \in DOMAIN out_buffers : k # id => out_buffers'[k] = out_buffers[k]
  BY <1>0 DEF With
<1>2. Control'
  BY <1>0 DEF Control
<1>7. \A t \in Senders : spc'[t] = "transmit" => spc[t] = "transmit"
  BY <1>0 DEF Control
<1>3. OneUser'
  <2>1. \A k, n : UsedBy(k, n)' => UsedBy(k, n) \/ (k = id /\ n = m)
    BY <1>0, <1>1, <1>7 DEF UsedBy
  <2>2. \A n : ~UsedBy(id, n)
    BY <1>0 DEF UsedBy, InUse
  <2> QED
    BY <2>1, <2>2 DEF OneUser
<1>4. SoundMuxer'
  <2>1. 0 \in 0 .. Length[m] - 1
    BY TransferAssumption
  <2> QED
    BY <1>0, <1>1, <2>1 DEF SoundMuxer
<1>5. SoundChunks'
  BY <1>0, <1>7 DEF SoundChunks, Genuine
<1>6. SoundNetwork' /\ SoundDemuxer' /\ Integrity'
  BY <1>0 DEF SoundNetwork, SoundDemuxer, Integrity, Genuine
<1> QED
  BY <1>2, <1>3, <1>4, <1>5, <1>6

(* fetch_out_chunk moves one packet of a message from the muxer to a       *)
(* thread.                                                                 *)
LEMMA FetchOutChunkIInv ==
  ASSUME IInv, NEW s \in Senders, FetchOutChunk(s)
  PROVE  IInv'
<1> USE DEF IInv
<1>1. PICK k \in DOMAIN out_buffers :
        chunk' = [chunk EXCEPT ![s] = Packed(k)] /\ out_buffers' = Advanced(k)
  BY DEF FetchOutChunk
<1>0. /\ spc' = [spc EXCEPT ![s] = "transmit"]
      /\ sent' = sent /\ network' = network
      /\ in_buffers' = in_buffers /\ delivered' = delivered
  BY DEF FetchOutChunk, demuxer
<1> DEFINE b == out_buffers[k]
<1>2. /\ b = [msg |-> b.msg, packet_no |-> b.packet_no]
      /\ b.msg \in sent /\ b.msg \in Messages
      /\ b.packet_no \in 0 .. Length[b.msg] - 1
      /\ Length[b.msg] \in Nat
  BY TransferAssumption DEF SoundMuxer, Control
<1>3. /\ chunk'[s] = [id |-> k, no |-> b.packet_no, total |-> Length[b.msg],
                      piece |-> <<b.msg, b.packet_no>>]
      /\ \A t \in Senders : t # s => chunk'[t] = chunk[t]
  BY <1>1 DEF Packed, Control
<1>4. /\ DOMAIN out_buffers' \subseteq DOMAIN out_buffers
      /\ \A j \in DOMAIN out_buffers' : j # k => out_buffers'[j] = out_buffers[j]
      /\ k \in DOMAIN out_buffers' =>
           /\ out_buffers'[k] = [msg |-> b.msg, packet_no |-> b.packet_no + 1]
           /\ b.packet_no + 1 # Length[b.msg]
  <2>1. CASE b.packet_no + 1 = Length[b.msg]
    <3>1. out_buffers' = Without(out_buffers, {k})
      BY <1>1, <2>1 DEF Advanced
    <3> QED
      BY <3>1 DEF Without, Restrict
  <2>2. CASE b.packet_no + 1 # Length[b.msg]
    <3>1. out_buffers' = [out_buffers EXCEPT ![k].packet_no = @ + 1]
      BY <1>1, <2>2 DEF Advanced
    <3> QED
      BY <1>2, <2>2, <3>1
  <2> QED
    BY <2>1, <2>2
<1>5. Control'
  BY <1>0, <1>1 DEF Control
<1>10. \A t \in Senders : t # s => spc'[t] = spc[t]
  BY <1>0, <1>1 DEF Control
<1>6. OneUser'
  <2> SUFFICES ASSUME NEW j, NEW n, UsedBy(j, n)'
               PROVE  UsedBy(j, n)
    BY HandedOn
  <2>1. CASE j \in DOMAIN out_buffers' /\ out_buffers'[j].msg = n
    BY <1>2, <1>4, <2>1 DEF UsedBy
  <2>2. CASE \E t \in Senders : spc'[t] = "transmit" /\ chunk'[t].id = j /\ chunk'[t].piece[1] = n
    <3> PICK t \in Senders : spc'[t] = "transmit" /\ chunk'[t].id = j /\ chunk'[t].piece[1] = n
      BY <2>2
    <3>1. CASE t = s
      BY <1>3, <3>1 DEF UsedBy
    <3>2. CASE t # s
      BY <1>3, <1>10, <3>2 DEF UsedBy
    <3> QED
      BY <3>1, <3>2
  <2>3. CASE \/ \E p \in network' : p.id = j /\ p.piece[1] = n
             \/ /\ j \in DOMAIN in_buffers'
                /\ \E i \in DOMAIN in_buffers'[j] : in_buffers'[j][i][1] = n
    BY <1>0, <2>3 DEF UsedBy
  <2> QED
    BY <2>1, <2>2, <2>3 DEF UsedBy
<1>7. SoundMuxer'
  BY <1>0, <1>2, <1>4 DEF SoundMuxer
<1>8. SoundChunks'
  <2>1. Genuine(chunk[s])'
    BY <1>0, <1>2, <1>3 DEF Genuine
  <2> QED
    BY <1>0, <1>3, <1>10, <2>1 DEF SoundChunks, Genuine
<1>9. SoundNetwork' /\ SoundDemuxer' /\ Integrity'
  BY <1>0 DEF SoundNetwork, SoundDemuxer, Integrity, Genuine
<1> QED
  BY <1>5, <1>6, <1>7, <1>8, <1>9

(* The other steps of a thread pass its packet on or drop it. *)
LEMMA SendIInv ==
  ASSUME IInv, NEW s \in Senders, SendReturns(s) \/ Transmit(s) \/ SendFails(s)
  PROVE  IInv'
<1> USE DEF IInv
<1>1. /\ sent' = sent
      /\ \E next \in {"idle", "fetch"} : spc' = [spc EXCEPT ![s] = next]
      /\ chunk' = chunk \/ chunk' = [chunk EXCEPT ![s] = <<>>]
      /\ \/ network' = network
         \/ spc[s] = "transmit" /\ network' = network \cup {chunk[s]}
      /\ out_buffers' = out_buffers /\ in_buffers' = in_buffers /\ delivered' = delivered
  BY DEF SendReturns, Transmit, SendFails, AfterTransmit, muxer, demuxer
<1>4. Control'
  BY <1>1 DEF Control
<1>2. /\ out_buffers' = out_buffers /\ in_buffers' = in_buffers
      /\ sent' = sent /\ delivered' = delivered
      /\ \A t \in Senders : spc'[t] = "transmit" => (spc[t] = "transmit" /\ chunk'[t] = chunk[t])
      /\ \A p \in network' : p \notin network => spc[s] = "transmit" /\ p = chunk[s]
  BY <1>1 DEF Control
<1>3. OneUser'
  BY <1>2, HandedOn DEF UsedBy
<1>5. SoundMuxer' /\ SoundChunks' /\ SoundNetwork' /\ SoundDemuxer' /\ Integrity'
  BY <1>2 DEF SoundMuxer, SoundChunks, SoundNetwork, SoundDemuxer, Integrity, Genuine
<1> QED
  BY <1>3, <1>4, <1>5

LEMMA LoseIInv ==
  ASSUME IInv, NEW p \in network, Lose(p)
  PROVE  IInv'
<1> USE DEF IInv, Lose, muxer, sender, demuxer
<1>1. OneUser'
  BY HandedOn DEF UsedBy
<1>2. Control' /\ SoundMuxer' /\ SoundChunks' /\ SoundNetwork' /\ SoundDemuxer' /\ Integrity'
  BY DEF Control, SoundMuxer, SoundChunks, SoundNetwork, SoundDemuxer, Integrity, Genuine
<1> QED
  BY <1>1, <1>2

-----------------------------------------------------------------------------
(* The receiving side. *)

(* The buffer a packet is added to holds pieces of its message only.       *)
LEMMA FragmentsOfOneMessage ==
  ASSUME IInv, NEW p \in network, NEW stale
  PROVE  LET frags == Appended(Without(in_buffers, stale), p) IN
         \E m \in sent :
           /\ p.total = Length[m] /\ p.piece = <<m, p.no>> /\ p.no \in 0 .. Length[m] - 1
           /\ frags = [i \in DOMAIN frags |-> frags[i]]
           /\ \A i \in DOMAIN frags : i \in 0 .. Length[m] - 1 /\ frags[i] = <<m, i>>
<1> DEFINE kept  == Without(in_buffers, stale)
           old   == IF p.id \in DOMAIN kept THEN kept[p.id] ELSE <<>>
           frags == Appended(kept, p)
<1>1. PICK m \in sent :
        p.total = Length[m] /\ p.piece = <<m, p.no>> /\ p.no \in 0 .. Length[m] - 1
  BY DEF IInv, SoundNetwork, Genuine
<1>2. UsedBy(p.id, m)
  BY <1>1 DEF UsedBy
<1>3. \A i \in DOMAIN old : i \in 0 .. Length[m] - 1 /\ old[i] = <<m, i>>
  <2> SUFFICES ASSUME NEW i \in DOMAIN old
               PROVE  i \in 0 .. Length[m] - 1 /\ old[i] = <<m, i>>
    OBVIOUS
  <2>1. p.id \in DOMAIN in_buffers /\ old = in_buffers[p.id]
    BY EmptyMap DEF Without, Restrict
  <2>2. PICK n \in sent : i \in 0 .. Length[n] - 1 /\ old[i] = <<n, i>>
    BY <2>1 DEF IInv, SoundDemuxer
  <2>3. UsedBy(p.id, n)
    BY <2>1, <2>2 DEF UsedBy
  <2>4. m = n
    BY <1>2, <2>3 DEF IInv, OneUser
  <2> QED
    BY <2>2, <2>4
<1>4. frags = [i \in DOMAIN old \cup {p.no} |-> IF i = p.no THEN p.piece ELSE old[i]]
  BY DEF Appended, With
<1>5. /\ frags = [i \in DOMAIN frags |-> frags[i]]
      /\ \A i \in DOMAIN frags : i \in 0 .. Length[m] - 1 /\ frags[i] = <<m, i>>
  <2> HIDE DEF frags, old
  <2> QED
    BY <1>1, <1>3, <1>4
<1> QED
  BY <1>1, <1>5

(* What a packet completes is the message: a message of one packet, or the *)
(* Length[m] fragments of one of more.                                     *)
LEMMA DeliveredWhole ==
  ASSUME IInv, NEW p \in network, NEW stale, AddData(p, stale)
  PROVE  \A d \in delivered' : d \in delivered \/ \E m \in sent : d = Whole(m)
<1> DEFINE frags == Appended(Without(in_buffers, stale), p)
<1>1. PICK m \in sent :
        /\ p.total = Length[m] /\ p.piece = <<m, p.no>> /\ p.no \in 0 .. Length[m] - 1
        /\ frags = [i \in DOMAIN frags |-> frags[i]]
        /\ \A i \in DOMAIN frags : i \in 0 .. Length[m] - 1 /\ frags[i] = <<m, i>>
  BY FragmentsOfOneMessage
<1>2. m \in Messages
  BY DEF IInv, Control
<1>3. CASE p.total = 1 /\ delivered' = delivered \cup {[i \in {p.no} |-> p.piece]}
  <2>1. p.no = 0 /\ 0 .. Length[m] - 1 = {0}
    BY <1>1, <1>3
  <2>2. [i \in {p.no} |-> p.piece] = Whole(m)
    BY <1>1, <2>1 DEF Whole
  <2> QED
    BY <1>3, <2>2
<1>4. CASE Complete(frags, p.total) /\ delivered' = delivered \cup {frags}
  <2>1. Cardinality(DOMAIN frags) = Length[m]
    BY <1>1, <1>4 DEF Complete
  <2>2. frags = Whole(m)
    <3> HIDE DEF frags
    <3> QED
      BY <1>1, <1>2, <2>1, AllFragments
  <2> QED
    BY <1>4, <2>2
<1>5. CASE delivered' = delivered
  BY <1>5
<1> QED
  BY <1>3, <1>4, <1>5 DEF AddData

(* A packet moves its piece from the network into its buffer. *)
LEMMA ReceiveIInv ==
  ASSUME IInv, NEW p \in network, ReceiveLast(p) \/ ReceiveEarly(p)
  PROVE  IInv'
<1> USE DEF IInv
<1>1. PICK stale : AddData(p, stale)
  BY DEF ReceiveLast, ReceiveEarly, Receive
<1>2. /\ out_buffers' = out_buffers /\ spc' = spc /\ chunk' = chunk /\ sent' = sent
      /\ network' \subseteq network
  BY DEF ReceiveLast, ReceiveEarly, Receive, muxer, sender
<1> DEFINE kept  == Without(in_buffers, stale)
           frags == Appended(kept, p)
<1>3. PICK m \in sent :
        /\ p.total = Length[m] /\ p.piece = <<m, p.no>> /\ p.no \in 0 .. Length[m] - 1
        /\ frags = [i \in DOMAIN frags |-> frags[i]]
        /\ \A i \in DOMAIN frags : i \in 0 .. Length[m] - 1 /\ frags[i] = <<m, i>>
  BY FragmentsOfOneMessage
<1>4. \A k \in DOMAIN in_buffers' :
        \/ k \in DOMAIN in_buffers /\ in_buffers'[k] = in_buffers[k]
        \/ k = p.id /\ in_buffers'[k] = frags
  <2> HIDE DEF frags, IInv
  <2>1. /\ DOMAIN kept = DOMAIN in_buffers \ stale
        /\ \A k \in DOMAIN in_buffers \ stale : kept[k] = in_buffers[k]
    BY WithoutFacts, Zenon
  <2>2. CASE in_buffers' = kept
    BY <2>1, <2>2
  <2>3. CASE in_buffers' = Without(kept, {p.id})
    <3> HIDE DEF kept
    <3> QED
      BY <2>1, <2>3 DEF Without, Restrict
  <2>4. CASE in_buffers' = With(kept, p.id, frags)
    <3> HIDE DEF kept
    <3> QED
      BY <2>1, <2>4 DEF With
  <2>5. in_buffers' \in {kept, Without(kept, {p.id}), With(kept, p.id, frags)}
    BY <1>1 DEF AddData, frags
  <2> QED
    BY <2>2, <2>3, <2>4, <2>5
<1>5. OneUser'
  <2> SUFFICES ASSUME NEW k, NEW n, UsedBy(k, n)'
               PROVE  UsedBy(k, n)
    BY HandedOn
  <2>1. CASE k \in DOMAIN in_buffers' /\ \E i \in DOMAIN in_buffers'[k] : in_buffers'[k][i][1] = n
    <3>1. CASE in_buffers'[k] = in_buffers[k] /\ k \in DOMAIN in_buffers
      BY <2>1, <3>1 DEF UsedBy
    <3>2. CASE k = p.id /\ in_buffers'[k] = frags
      <4>1. n = m
        <5> HIDE DEF frags
        <5> QED
          BY <1>3, <2>1, <3>2
      <4> QED
        BY <1>3, <3>2, <4>1 DEF UsedBy
    <3> QED
      BY <1>4, <2>1, <3>1, <3>2
  <2>2. CASE ~(k \in DOMAIN in_buffers' /\ \E i \in DOMAIN in_buffers'[k] : in_buffers'[k][i][1] = n)
    BY <1>2, <2>2 DEF UsedBy
  <2> QED
    BY <2>1, <2>2
<1>6. SoundDemuxer'
  <2> HIDE DEF frags
  <2> QED
    BY <1>2, <1>3, <1>4 DEF SoundDemuxer
<1>7. Integrity'
  BY <1>1, <1>2, DeliveredWhole DEF Integrity
<1>8. Control' /\ SoundMuxer' /\ SoundChunks' /\ SoundNetwork'
  BY <1>2 DEF Control, SoundMuxer, SoundChunks, SoundNetwork, Genuine
<1> QED
  BY <1>5, <1>6, <1>7, <1>8

-----------------------------------------------------------------------------
LEMMA NextIInv ==
  ASSUME IInv, IdsAge, [Next]_vars
  PROVE  IInv'
<1>1. CASE UNCHANGED vars
  <2>1. /\ out_buffers' = out_buffers /\ spc' = spc /\ chunk' = chunk /\ network' = network
        /\ in_buffers' = in_buffers /\ sent' = sent /\ delivered' = delivered
    BY <1>1 DEF vars, muxer, sender, demuxer
  <2>2. OneUser'
    BY <2>1, HandedOn DEF IInv, UsedBy
  <2> QED
    BY <2>1, <2>2 DEF IInv, Control, SoundMuxer, SoundChunks, SoundNetwork,
       SoundDemuxer, Integrity, Genuine
<1>2. CASE Next
  <2>1. ASSUME NEW s \in Senders, Send(s) PROVE IInv'
    BY <2>1, FetchOutChunkIInv, SendIInv DEF Send
  <2>2. ASSUME NEW s \in Senders, NEW m \in Messages, AddMessage(s, m) PROVE IInv'
    BY <2>2, AddMessageIInv
  <2>3. ASSUME NEW p \in network, Lose(p) PROVE IInv'
    BY <2>3, LoseIInv
  <2>4. ASSUME NEW p \in network, ReceiveLast(p) \/ ReceiveEarly(p) PROVE IInv'
    BY <2>4, ReceiveIInv
  <2> QED
    BY <1>2, <2>1, <2>2, <2>3, <2>4 DEF Next
<1> QED
  BY <1>1, <1>2

LEMMA SafeTransfer == IdsAge => (Spec => []IInv)
<1> SUFFICES ASSUME IdsAge
             PROVE  Spec => []IInv
  OBVIOUS
<1>1. IInv /\ [Next]_vars => IInv'
  BY NextIInv
<1> QED
  BY <1>1, InitIInv, PTL DEF Spec

(* What arrives is what was sent: whatever the network loses, repeats or   *)
(* reorders, and however the threads of the sending side interleave, the   *)
(* receiving side gives its user only whole messages, in order, none mixed *)
(* from two - if an identifier is used again only when nothing is left of  *)
(* its last use.                                                           *)
THEOREM MessagesArriveWhole == IdsAge => (Spec => []Integrity)
<1>1. IInv => Integrity
  BY DEF IInv
<1> QED
  BY <1>1, SafeTransfer, PTL

(* Under the same assumption an identifier stands for one message at the   *)
(* receiving side, in its buffers and on the way to them.                  *)
THEOREM IdsDoNotMix == IdsAge => (Spec => []OneMessagePerId)
<1>1. ASSUME OneUser PROVE OneMessagePerId
  <2>1. ASSUME NEW k \in DOMAIN in_buffers,
               NEW i \in DOMAIN in_buffers[k], NEW j \in DOMAIN in_buffers[k]
        PROVE  in_buffers[k][i][1] = in_buffers[k][j][1]
    BY <1>1 DEF OneUser, UsedBy
  <2>2. ASSUME NEW p \in network, NEW q \in network, p.id = q.id
        PROVE  p.piece[1] = q.piece[1]
    BY <1>1, <2>2 DEF OneUser, UsedBy
  <2>3. ASSUME NEW p \in network, p.id \in DOMAIN in_buffers,
               NEW i \in DOMAIN in_buffers[p.id]
        PROVE  in_buffers[p.id][i][1] = p.piece[1]
    BY <1>1, <2>3 DEF OneUser, UsedBy
  <2> QED
    BY <2>1, <2>2, <2>3 DEF OneMessagePerId
<1>2. IInv => OneMessagePerId
  BY <1>1 DEF IInv
<1> QED
  BY <1>2, SafeTransfer, PTL

(* The invariant of the sending side alone. *)
SendersPresent ==
  /\ spc \in [Senders -> {"idle", "fetch", "transmit"}]
  /\ NothingLeftBehind

(* No packet stays in the muxer when every send() has returned: whatever   *)
(* the number of threads, as long as the socket is open some thread that   *)
(* is still in send() will fetch what is left.  It needs no assumption     *)
(* about identifiers.                                                      *)
THEOREM SendersEmptyTheMuxer == Spec => []NothingLeftBehind
<1>1. Init => SendersPresent
  BY EmptyMap DEF Init, SendersPresent, NothingLeftBehind
<1>2. SendersPresent /\ [Next]_vars => SendersPresent'
  <2> SUFFICES ASSUME SendersPresent, [Next]_vars
               PROVE  SendersPresent'
    OBVIOUS
  <2> USE DEF SendersPresent, NothingLeftBehind
  <2>1. ASSUME NEW s \in Senders, NEW m \in Messages, AddMessage(s, m)
        PROVE  SendersPresent'
    BY <2>1 DEF AddMessage
  <2>2. ASSUME NEW s \in Senders, FetchOutChunk(s)
        PROVE  SendersPresent'
    BY <2>2 DEF FetchOutChunk
  <2>3. ASSUME NEW s \in Senders, SendReturns(s)
        PROVE  SendersPresent'
    BY <2>3 DEF SendReturns, muxer
  <2>4. ASSUME NEW s \in Senders, Transmit(s)
        PROVE  SendersPresent'
    BY <2>4 DEF Transmit, AfterTransmit
  <2>5. ASSUME NEW s \in Senders, SendFails(s)
        PROVE  SendersPresent'
    BY <2>5 DEF SendFails
  <2>6. ASSUME NEW p \in network, Lose(p) \/ ReceiveLast(p) \/ ReceiveEarly(p)
        PROVE  SendersPresent'
    BY <2>6 DEF Lose, ReceiveLast, ReceiveEarly, Receive, muxer, sender
  <2>7. CASE UNCHANGED vars
    BY <2>7 DEF vars, muxer, sender
  <2> QED
    BY <2>1, <2>2, <2>3, <2>4, <2>5, <2>6, <2>7 DEF Next, Send
<1>3. SendersPresent => NothingLeftBehind
  BY DEF SendersPresent
<1> QED
  BY <1>1, <1>2, <1>3, PTL DEF Spec

-----------------------------------------------------------------------------
(* Types. *)

TypeInv == TypeOK /\ DOMAIN chunk = Senders

LEMMA LeastKey ==
  ASSUME NEW S, S \subseteq Nat, S # {}
  PROVE  Min(S) \in S /\ \A y \in S : Min(S) <= y
<1>1. PICK x \in S : \A y \in S : <<y, x>> \notin OpToRel(<, Nat)
  BY NatLessThanWellFounded, WFMin
<1>2. \A y \in S : ~(y < x)
  BY <1>1 DEF OpToRel
<1>3. \A y \in S : x =< y
  BY <1>2
<1>. QED
  BY <1>3 DEF Min

LEMMA FetchOutChunkType ==
  ASSUME TypeInv, NEW s \in Senders, FetchOutChunk(s)
  PROVE  TypeInv'
<1>. USE DEF TypeInv, TypeOK, Ids
<1>1. PICK k \in DOMAIN out_buffers :
        /\ chunk' = [chunk EXCEPT ![s] = Packed(k)] /\ out_buffers' = Advanced(k)
        /\ out_buffers_key' = NextKey(k)
        /\ overtook' = [n \in Messages |->
                          IF n = out_buffers[k].msg THEN {}
                          ELSE IF n \in Pending THEN overtook[n] \cup {out_buffers[k].msg}
                          ELSE overtook[n]]
  BY DEF FetchOutChunk
<1>2. /\ spc' = [spc EXCEPT ![s] = "transmit"]
      /\ UNCHANGED <<stream_id_gen, open, network, in_buffers, delivered, sent, dropped>>
  BY DEF FetchOutChunk, demuxer
<1>3. /\ k \in Ids /\ out_buffers[k].msg \in Messages /\ out_buffers[k].packet_no \in Nat
      /\ Length[out_buffers[k].msg] \in Nat
  BY TransferAssumption
<1>4. Packed(k) \in Packet
  BY <1>3 DEF Packed, Packet, Piece
<1>5. \A t \in Senders : spc'[t] = "transmit" => chunk'[t] \in Packet
  BY <1>1, <1>2, <1>4
<1>6. out_buffers_key' \in Ids
  <2>. DEFINE behind == {j \in DOMAIN out_buffers : j > k}
  <2>1. behind \subseteq Nat
    BY TransferAssumption
  <2>2. behind # {} => Min(behind) \in Ids
    BY <2>1, LeastKey, TransferAssumption
  <2>3. 0 \in Ids
    BY TransferAssumption
  <2>. QED
    BY <1>1, <2>2, <2>3 DEF NextKey
<1>7. /\ DOMAIN out_buffers' \subseteq Ids
      /\ \A j \in DOMAIN out_buffers' : out_buffers'[j] \in [msg : Messages, packet_no : Nat]
  <2>1. CASE out_buffers' = Without(out_buffers, {k})
    BY <2>1 DEF Without, Restrict
  <2>2. CASE out_buffers' = [out_buffers EXCEPT ![k].packet_no = @ + 1]
    BY <1>3, <2>2
  <2>. QED
    BY <1>1, <2>1, <2>2 DEF Advanced
<1>8. overtook' \in [Messages -> SUBSET Messages]
  BY <1>1, <1>3
<1>9. DOMAIN chunk' = Senders /\ spc' \in [Senders -> {"idle", "fetch", "transmit"}]
  BY <1>1, <1>2
<1>. QED
  BY <1>2, <1>5, <1>6, <1>7, <1>8, <1>9

LEMMA AddMessageType ==
  ASSUME TypeInv, NEW s \in Senders, NEW m \in Messages, AddMessage(s, m)
  PROVE  TypeInv'
<1>. USE DEF TypeInv, TypeOK, Ids, AddMessage, demuxer
<1>1. stream_id_gen' \in Ids
  BY TransferAssumption DEF NextId
<1>2. /\ DOMAIN out_buffers' \subseteq Ids
      /\ \A k \in DOMAIN out_buffers' : out_buffers'[k] \in [msg : Messages, packet_no : Nat]
  BY DEF With
<1>3. /\ spc' \in [Senders -> {"idle", "fetch", "transmit"}]
      /\ \A t \in Senders : spc'[t] = "transmit" => chunk'[t] \in Packet
  OBVIOUS
<1>. QED
  BY <1>1, <1>2, <1>3

LEMMA OtherSendType ==
  ASSUME TypeInv, NEW s \in Senders, SendReturns(s) \/ Transmit(s) \/ SendFails(s)
  PROVE  TypeInv'
<1>. USE DEF TypeInv, TypeOK, muxer, demuxer
<1>1. CASE SendReturns(s)
  BY <1>1 DEF SendReturns
<1>2. CASE Transmit(s)
  BY <1>2 DEF Transmit, AfterTransmit
<1>3. CASE SendFails(s)
  <2>1. chunk[s].piece[1] \in Messages
    BY <1>3 DEF SendFails, Packet, Piece
  <2>. QED
    BY <1>3, <2>1 DEF SendFails
<1>. QED
  BY <1>1, <1>2, <1>3

LEMMA ReceiveType ==
  ASSUME TypeInv, NEW p \in network, ReceiveLast(p) \/ ReceiveEarly(p)
  PROVE  TypeInv'
<1>. USE DEF TypeInv, TypeOK
<1>1. PICK stale \in SUBSET DOMAIN in_buffers :
        /\ AddData(p, stale)
        /\ dropped' = dropped \cup UNION {MessagesIn(k) : k \in stale}
  BY DEF ReceiveLast, ReceiveEarly, Receive
<1>2. /\ UNCHANGED <<muxer, sender, sent, overtook>>
      /\ network' \subseteq network
  BY DEF ReceiveLast, ReceiveEarly, Receive
<1>3. p.id \in Ids /\ p.no \in Nat /\ p.piece \in Piece
  BY DEF Packet
<1>4. dropped' \subseteq Messages
  BY <1>1 DEF MessagesIn, Piece
<1>. DEFINE kept  == Without(in_buffers, stale)
            frags == Appended(kept, p)
<1>5. /\ DOMAIN kept = DOMAIN in_buffers \ stale
      /\ \A k \in DOMAIN kept : kept[k] = in_buffers[k]
  BY DEF Without, Restrict
<1>6. DOMAIN frags \subseteq Nat /\ \A i \in DOMAIN frags : frags[i] \in Piece
  <2>. HIDE DEF kept
  <2>. QED
    BY <1>3, <1>5, EmptyMap DEF Appended, With
<1>7. in_buffers' \in {kept, Without(kept, {p.id}), With(kept, p.id, frags)}
  BY <1>1 DEF AddData
<1>8. /\ DOMAIN in_buffers' \subseteq Ids
      /\ \A k \in DOMAIN in_buffers' :
           /\ DOMAIN in_buffers'[k] \subseteq Nat
           /\ \A i \in DOMAIN in_buffers'[k] : in_buffers'[k][i] \in Piece
  <2>. HIDE DEF kept, frags
  <2>1. CASE in_buffers' = kept
    BY <1>5, <2>1
  <2>2. CASE in_buffers' = Without(kept, {p.id})
    BY <1>5, <2>2 DEF Without, Restrict
  <2>3. CASE in_buffers' = With(kept, p.id, frags)
    BY <1>3, <1>5, <1>6, <2>3 DEF With
  <2>. QED
    BY <1>7, <2>1, <2>2, <2>3
<1>. QED
  BY <1>2, <1>4, <1>8 DEF muxer, sender

LEMMA TypeInvariant == Spec => []TypeInv
<1>1. Init => TypeInv
  BY EmptyMap, TransferAssumption DEF Init, TypeInv, TypeOK, Ids
<1>2. TypeInv /\ [Next]_vars => TypeInv'
  <2> SUFFICES ASSUME TypeInv, [Next]_vars
               PROVE  TypeInv'
    OBVIOUS
  <2>1. ASSUME NEW p \in network, Lose(p) PROVE TypeInv'
    BY <2>1 DEF Lose, TypeInv, TypeOK, Packet, Piece, muxer, sender, demuxer
  <2>2. CASE UNCHANGED vars
    BY <2>2 DEF vars, TypeInv, TypeOK, muxer, sender, demuxer
  <2>. QED
    BY <2>1, <2>2, FetchOutChunkType, AddMessageType, OtherSendType, ReceiveType
       DEF Next, Send
<1>. QED
  BY <1>1, <1>2, PTL DEF Spec

(* Every variable keeps its type, with or without a reuse of identifiers:  *)
(* the identifier made next and the key served next stay in their range.   *)
THEOREM TypeCorrect == Spec => []TypeOK
<1>1. TypeInv => TypeOK
  BY DEF TypeInv
<1>. QED
  BY <1>1, TypeInvariant, PTL

-----------------------------------------------------------------------------
(* Turns.  From the key served next the packets are taken in the order of  *)
(* the keys, and from the first key again: i comes before j.               *)
Before(i, j) ==
  \/ i < j /\ ~(i < out_buffers_key /\ out_buffers_key <= j)
  \/ j < out_buffers_key /\ out_buffers_key <= i

(* A message that was served since another was is behind that one.         *)
TurnInv ==
  /\ out_buffers_key # 0 => out_buffers_key \in DOMAIN out_buffers
  /\ \A i, j \in DOMAIN out_buffers : out_buffers[i].msg = out_buffers[j].msg => i = j
  /\ \A i \in DOMAIN out_buffers : out_buffers[i].msg \in sent
  /\ \A n \in Messages : overtook[n] \subseteq sent /\ (n \notin sent => overtook[n] = {})
  /\ \A i, j \in DOMAIN out_buffers :
       out_buffers[j].msg \in overtook[out_buffers[i].msg] => i # j /\ Before(i, j)

(* Fetching a packet moves the key to the next message, and the message    *)
(* fetched from to the end.                                                *)
LEMMA NextKeyFacts ==
  ASSUME TypeOK, NEW k \in DOMAIN out_buffers
  PROVE  \/ NextKey(k) = 0 /\ \A j \in DOMAIN out_buffers : j <= k
         \/ /\ NextKey(k) \in DOMAIN out_buffers /\ k < NextKey(k)
            /\ \A j \in DOMAIN out_buffers : k < j => NextKey(k) <= j
<1>1. DOMAIN out_buffers \subseteq Nat
  BY TransferAssumption DEF TypeOK, Ids
<1>. DEFINE behind == {j \in DOMAIN out_buffers : j > k}
<1>2. CASE behind = {}
  BY <1>1, <1>2 DEF NextKey
<1>3. CASE behind # {}
  <2>1. NextKey(k) = Min(behind)
    BY <1>3 DEF NextKey
  <2>2. Min(behind) \in behind /\ \A j \in behind : Min(behind) <= j
    BY <1>1, <1>3, LeastKey
  <2>. QED
    BY <1>1, <2>1, <2>2
<1>. QED
  BY <1>2, <1>3


LEMMA FetchTurn ==
  ASSUME TypeOK, TurnInv, NEW s \in Senders, FetchOutChunk(s)
  PROVE  TurnInv'
<1>1. PICK k \in DOMAIN out_buffers :
        /\ Served(k)
        /\ out_buffers' = Advanced(k)
        /\ out_buffers_key' = NextKey(k)
        /\ overtook' = [n \in Messages |->
                          IF n = out_buffers[k].msg THEN {}
                          ELSE IF n \in Pending THEN overtook[n] \cup {out_buffers[k].msg}
                          ELSE overtook[n]]
  BY DEF FetchOutChunk
<1>2. sent' = sent
  BY DEF FetchOutChunk
<1>3. /\ DOMAIN out_buffers \subseteq Nat /\ out_buffers_key \in Nat
      /\ \A j \in DOMAIN out_buffers : out_buffers[j].msg \in Messages
  BY TransferAssumption DEF TypeOK, Ids
<1>4. /\ DOMAIN out_buffers' = DOMAIN out_buffers \/ DOMAIN out_buffers' = DOMAIN out_buffers \ {k}
      /\ \A j \in DOMAIN out_buffers' : out_buffers'[j].msg = out_buffers[j].msg
  <2>1. CASE out_buffers' = Without(out_buffers, {k})
    BY <2>1 DEF Without, Restrict
  <2>2. CASE out_buffers' = [out_buffers EXCEPT ![k].packet_no = @ + 1]
    <3>1. \A j \in DOMAIN out_buffers : out_buffers[j] \in [msg : Messages, packet_no : Nat]
      BY DEF TypeOK
    <3>. QED
      BY <2>2, <3>1
  <2>. QED
    BY <1>1, <2>1, <2>2 DEF Advanced
<1>5. /\ out_buffers_key' = 0 /\ (\A j \in DOMAIN out_buffers : j <= k)
      \/ /\ out_buffers_key' \in DOMAIN out_buffers' /\ k < out_buffers_key'
         /\ \A j \in DOMAIN out_buffers : k < j => out_buffers_key' <= j
  BY <1>1, <1>3, <1>4, NextKeyFacts
<1>6. IF out_buffers_key \in DOMAIN out_buffers THEN k = out_buffers_key
      ELSE out_buffers_key = 0 /\ \A j \in DOMAIN out_buffers : k <= j
  BY <1>1 DEF Served, TurnInv
<1>7. ASSUME NEW i \in DOMAIN out_buffers', NEW j \in DOMAIN out_buffers',
             out_buffers'[j].msg \in overtook'[out_buffers'[i].msg]
      PROVE  i # j /\ Before(i, j)'
  <2>1. /\ i \in DOMAIN out_buffers /\ j \in DOMAIN out_buffers
        /\ out_buffers[j].msg \in overtook'[out_buffers[i].msg]
    BY <1>4, <1>7
  <2>2. /\ out_buffers[i].msg # out_buffers[k].msg
        /\ out_buffers[j].msg \in overtook[out_buffers[i].msg] \cup {out_buffers[k].msg}
    BY <1>1, <1>3, <2>1
  <2>3. i # k /\ (j = k \/ (j # k /\ Before(i, j) /\ i # j))
    BY <2>1, <2>2 DEF TurnInv
  <2>4. i \in Nat /\ j \in Nat /\ k \in Nat /\ i # k /\ i # j
    BY <1>3, <2>1, <2>3
  <2>5. out_buffers_key' = 0 => i < k /\ j <= k
    BY <1>3, <1>5, <2>1, <2>4
  <2>6. out_buffers_key' # 0 =>
          /\ out_buffers_key' \in Nat /\ k < out_buffers_key'
          /\ k < i => out_buffers_key' <= i
          /\ k < j => out_buffers_key' <= j
    BY <1>3, <1>4, <1>5, <2>1
  <2>7. CASE j = k
    BY <2>4, <2>5, <2>6, <2>7 DEF Before
  <2>8. CASE j # k
    <3>1. Before(i, j)
      BY <2>3, <2>8
    <3>2. i < j \/ (out_buffers_key = k /\ j < k /\ k < i)
      BY <1>3, <1>6, <2>1, <2>4, <2>8, <3>1 DEF Before
    <3>3. out_buffers_key = k \/ (k < i /\ k < j)
      BY <1>6, <2>1, <2>4, <2>8
    <3>. QED
      BY <1>3, <2>4, <2>5, <2>6, <2>8, <3>1, <3>2, <3>3 DEF Before
  <2>. QED
    BY <2>4, <2>7, <2>8
<1>8. \A n \in Messages : overtook'[n] \subseteq sent /\ (n \notin sent => overtook'[n] = {})
  BY <1>1 DEF TurnInv, Pending
<1>9. /\ out_buffers_key' # 0 => out_buffers_key' \in DOMAIN out_buffers'
      /\ \A i, j \in DOMAIN out_buffers' : out_buffers'[i].msg = out_buffers'[j].msg => i = j
      /\ \A i \in DOMAIN out_buffers' : out_buffers'[i].msg \in sent
  BY <1>4, <1>5 DEF TurnInv
<1>. QED
  BY <1>2, <1>7, <1>8, <1>9 DEF TurnInv

LEMMA AddTurn ==
  ASSUME TypeOK, TurnInv, NEW s \in Senders, NEW m \in Messages, AddMessage(s, m)
  PROVE  TurnInv'
<1>. DEFINE g == stream_id_gen
<1>1. /\ m \notin sent /\ sent' = sent \cup {m}
      /\ out_buffers' = With(out_buffers, g, [msg |-> m, packet_no |-> 0])
      /\ overtook' = overtook /\ out_buffers_key' = out_buffers_key
  BY DEF AddMessage
<1>2. /\ DOMAIN out_buffers' = DOMAIN out_buffers \cup {g}
      /\ \A j \in DOMAIN out_buffers' :
           out_buffers'[j].msg = IF j = g THEN m ELSE out_buffers[j].msg
  BY <1>1 DEF With
<1>3. \A n \in Messages : m \notin overtook[n] /\ overtook[m] = {}
  BY <1>1 DEF TurnInv
<1>4. \A j \in DOMAIN out_buffers : out_buffers[j].msg \in Messages
  BY DEF TypeOK
<1>5. ASSUME NEW i \in DOMAIN out_buffers', NEW j \in DOMAIN out_buffers',
             out_buffers'[j].msg \in overtook'[out_buffers'[i].msg]
      PROVE  i # j /\ Before(i, j)'
  <2>1. i # g /\ j # g
    BY <1>1, <1>2, <1>3, <1>4, <1>5
  <2>. QED
    BY <1>1, <1>2, <1>5, <2>1 DEF TurnInv, Before
<1>6. /\ out_buffers_key' # 0 => out_buffers_key' \in DOMAIN out_buffers'
      /\ \A i, j \in DOMAIN out_buffers' : out_buffers'[i].msg = out_buffers'[j].msg => i = j
      /\ \A i \in DOMAIN out_buffers' : out_buffers'[i].msg \in sent'
  BY <1>1, <1>2 DEF TurnInv
<1>7. \A n \in Messages : overtook'[n] \subseteq sent' /\ (n \notin sent' => overtook'[n] = {})
  BY <1>1 DEF TurnInv
<1>. QED
  BY <1>5, <1>6, <1>7 DEF TurnInv

(* The other steps leave the muxer and the histories alone, and no thread  *)
(* begins to transmit in them.                                             *)
OutsideMuxer ==
  /\ UNCHANGED <<out_buffers, out_buffers_key, overtook, sent>>
  /\ \A s \in Senders : spc'[s] = "transmit" => spc[s] = "transmit"

LEMMA MuxerSteps ==
  ASSUME TypeOK, [Next]_vars
  PROVE  \/ \E s \in Senders : FetchOutChunk(s)
         \/ \E s \in Senders, m \in Messages : AddMessage(s, m)
         \/ OutsideMuxer
<1>. USE DEF OutsideMuxer, muxer, sender
<1>1. ASSUME NEW s \in Senders, SendReturns(s) \/ Transmit(s) \/ SendFails(s)
      PROVE  OutsideMuxer
  BY <1>1 DEF SendReturns, Transmit, SendFails, AfterTransmit, TypeOK
<1>2. ASSUME NEW p \in network, Lose(p) \/ ReceiveLast(p) \/ ReceiveEarly(p)
      PROVE  OutsideMuxer
  BY <1>2 DEF Lose, ReceiveLast, ReceiveEarly, Receive
<1>3. CASE UNCHANGED vars
  BY <1>3 DEF vars
<1>. HIDE DEF OutsideMuxer
<1>. QED
  BY <1>1, <1>2, <1>3 DEF Next, Send

LEMMA TurnInvariant == Spec => [](TypeInv /\ TurnInv)
<1>1. Init => TurnInv
  BY EmptyMap DEF Init, TurnInv
<1>2. TypeInv /\ TurnInv /\ [Next]_vars => TurnInv'
  <2> SUFFICES ASSUME TypeInv, TurnInv, [Next]_vars
               PROVE  TurnInv'
    OBVIOUS
  <2>1. CASE OutsideMuxer
    BY <2>1 DEF OutsideMuxer, TurnInv, Before
  <2>. QED
    BY <2>1, FetchTurn, AddTurn, MuxerSteps DEF TypeInv
<1>. QED
  BY <1>1, <1>2, TypeInvariant, PTL DEF Spec

(* Between two packets of a message every other message that waits gets a  *)
(* packet out: whichever threads fetch them, whatever is added meanwhile,  *)
(* and also when an identifier in use is given to another message.         *)
THEOREM NoHeadOfLineBlocking == Spec => TakesTurns
<1>1. ASSUME TypeInv, TurnInv, [Next]_vars, NEW m \in Messages, NEW n \in Messages,
             m \in overtook[n], n \in Pending, NEW s \in Senders,
             spc[s] = "fetch", spc'[s] = "transmit", chunk'[s].piece[1] = m
      PROVE  FALSE
  <2>1. PICK r \in Senders : FetchOutChunk(r)
    <3>1. ~OutsideMuxer
      BY <1>1 DEF OutsideMuxer
    <3>2. ASSUME NEW t \in Senders, NEW l \in Messages, AddMessage(t, l) PROVE FALSE
      BY <1>1, <3>2 DEF AddMessage, TypeInv, TypeOK
    <3>. QED
      BY <1>1, <3>1, <3>2, MuxerSteps DEF TypeInv
  <2>2. r = s
    BY <1>1, <2>1 DEF FetchOutChunk, TypeInv, TypeOK
  <2>3. PICK k \in DOMAIN out_buffers : Served(k) /\ chunk' = [chunk EXCEPT ![s] = Packed(k)]
    BY <2>1, <2>2 DEF FetchOutChunk
  <2>4. out_buffers[k].msg = m
    BY <1>1, <2>3 DEF Packed, TypeInv
  <2>5. PICK i \in DOMAIN out_buffers : out_buffers[i].msg = n
    BY <1>1 DEF Pending
  <2>6. i # k /\ Before(i, k)
    BY <1>1, <2>4, <2>5 DEF TurnInv
  <2>7. DOMAIN out_buffers \subseteq Nat /\ out_buffers_key \in Nat
    BY <1>1, TransferAssumption DEF TypeInv, TypeOK, Ids
  <2>. QED
    BY <1>1, <2>3, <2>6, <2>7 DEF Before, Served, TurnInv
<1>2. TypeInv /\ TurnInv /\ [Next]_vars =>
        (\A m, n \in Messages :
          m \in overtook[n] /\ n \in Pending /\ n \in Pending' =>
            ~\E s \in Senders : spc[s] = "fetch" /\ spc'[s] = "transmit" /\ chunk'[s].piece[1] = m)
  BY <1>1
<1>. QED
  BY <1>2, TurnInvariant, PTL DEF Spec, TakesTurns
=============================================================================
