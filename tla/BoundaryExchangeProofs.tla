------------------------- MODULE BoundaryExchangeProofs -------------------------
(***************************************************************************)
(* Proofs about BoundaryExchange for any set of ranks and any number of    *)
(* rounds.                                                                 *)
(*                                                                         *)
(* The argument follows one value.  The device executes its queue in       *)
(* order, and at most one update is queued, so that a gather finds the     *)
(* values of the exchange its rank is in (edge = round).  A posted send    *)
(* keeps those bytes, the messages between two ranks are consecutive       *)
(* rounds, and a receive brings the round it was posted in.  A scatter is  *)
(* queued before the update of its round, so the update reads that value.  *)
(***************************************************************************)
EXTENDS BoundaryExchange, SequenceTheorems, TLAPS

Ops == {Op(name) : name \in {"gather", "interior", "shell", "whole"}}
         \union {HostToDevice(q) : q \in Ranks}
         \union {Scatter(q, s) : q \in Ranks, s \in Slots}

\* The last operation of an exchange on the device: it makes the next values.
IsUpdate(op) == op.op \in {"shell", "whole"}
\* An operation that reads or writes received bytes.
IsReceive(op) == op.op \in {"h2d", "scatter"}

\* What is queued on a device.
Places(s) == 1..Len(s)
HasUpdate(s) == \E i \in Places(s) : IsUpdate(s[i])
HasGather(s) == \E i \in Places(s) : s[i].op = "gather"
Uses(s, q, slot) == \E i \in Places(s) : IsReceive(s[i]) /\ s[i].peer = q /\ s[i].slot = slot

\* In a queue the receive operations of an exchange come before its update,
\* there is one update at most, and the gather of the next exchange follows it.
Ordered(s) ==
  \A i, j \in Places(s) : IsUpdate(s[j]) =>
    /\ IsReceive(s[i]) => i < j
    /\ IsUpdate(s[i]) => i = j
    /\ s[i].op = "gather" => j < i

-----------------------------------------------------------------------------
(* The inductive invariant.                                                  *)

PeerMap(m, S) == DOMAIN m = Ranks /\ \A r \in Ranks : m[r] \in [Peers(r) -> S]

HostType ==
  /\ setting \in [Ranks -> Setting]
  /\ transport \in {"none", "pinned", "device"}
  /\ waitall \in BOOLEAN
  /\ pc \in [Ranks -> {"idle", "fence", "launch", "ready", "overlap", "wait"}]
  /\ round \in [Ranks -> Nat]
  /\ warm \in [Ranks -> BOOLEAN]
  /\ next \in [Ranks -> Slots]
  /\ mode \in [Ranks -> [cold : BOOLEAN, eager : BOOLEAN, slot : Slots]]
  /\ inner \in [Ranks -> BOOLEAN]
  /\ error \in [Ranks -> BOOLEAN]
  /\ aborted \in BOOLEAN

DeviceType ==
  /\ stream \in [Ranks -> Seq(Ops)]
  /\ edge \in [Ranks -> Nat]
  /\ sendDevice \in [Ranks -> Nat]
  /\ sendHost \in [Ranks -> Nat]
  /\ PeerMap(halo, Nat) /\ PeerMap(used, Nat)
  /\ PeerMap(recvHost, Nat) /\ PeerMap(recvDevice, [Slots -> Nat])

MpiType ==
  /\ PeerMap(sendReq, {"none", "posted", "done"})
  /\ PeerMap(recvReq, {"none", "posted", "done", "drained"})
  /\ PeerMap(wire, Seq(Nat))

\* Where the host thread is tells what its requests can be.
HostInv(r) ==
  /\ transport = "none" => pc[r] = "idle"
  /\ transport # "device" => mode[r].slot = 0
  /\ \A q \in Peers(r) :
       /\ \/ pc[r] \in {"idle", "fence"}
          \/ pc[r] \in {"launch", "ready"} /\ ~ mode[r].eager
          => recvReq[r][q] = "none"
       /\ pc[r] \in {"idle", "fence", "launch", "ready"} => sendReq[r][q] = "none"
       /\ recvReq[r][q] = "drained" => pc[r] = "wait"

\* A queue holds the rest of one exchange, and the values on the device are
\* those of the round the host is in unless the update is still queued.
QueueInv(r) ==
  /\ Ordered(stream[r])
  /\ HasGather(stream[r]) => pc[r] = "ready"
  /\ HasUpdate(stream[r]) => \/ pc[r] \in {"idle", "fence", "launch"}
                             \/ pc[r] = "ready" /\ HasGather(stream[r])
  /\ edge[r] = IF HasUpdate(stream[r]) THEN round[r] - 1 ELSE round[r]

\* The send bytes are the values of the round once the gather has run.
SendInv(r) ==
  /\ pc[r] = "ready" => HasGather(stream[r]) \/ sendDevice[r] = round[r]
  /\ pc[r] \in {"overlap", "wait"} =>
       /\ sendDevice[r] = round[r]
       /\ transport = "pinned" => sendHost[r] = round[r]

\* The bytes of a running receive.
Bytes(r, q) == IF transport = "pinned" THEN recvHost[r][q] ELSE recvDevice[r][q][mode[r].slot]

\* A scatter of the queue s that is for the peer q.
Scatters(s, q) == \E i \in Places(s), slot \in Slots : s[i] = Scatter(q, slot)

\* The queue s carries the value v from the bytes of the peer q to the halo:
\* a copy finds it in host memory, and a scatter in its slot on the device
\* unless a copy comes before it.
Carries(s, q, pinned, slots, v) ==
  \A i \in Places(s) :
    /\ s[i] = HostToDevice(q) => pinned = v
    /\ \A slot \in Slots : s[i] = Scatter(q, slot) =>
         \/ slot = 0 /\ \E k \in 1..(i - 1) : s[k] = HostToDevice(q)
         \/ slots[slot] = v

\* From the receive to the halo: the value of the round is in the bytes, and
\* then either on its way through the queue or in the halo.
ReceiveInv(r, q) ==
  /\ pc[r] \notin {"idle", "fence"} /\ recvReq[r][q] # "drained"
       => ~ Uses(stream[r], q, mode[r].slot)
  /\ recvReq[r][q] = "done" => Bytes(r, q) = round[r]
  /\ Carries(stream[r], q, recvHost[r][q], recvDevice[r][q], edge[r])
  /\ \/ pc[r] = "wait" /\ recvReq[r][q] = "drained" /\ ~ error[r]
     \/ HasUpdate(stream[r])
     => Scatters(stream[r], q) \/ halo[r][q] = edge[r]

\* The messages from q to r are the rounds q has sent and r has not received.
Sent(q, r) == round[q] + IF sendReq[q][r] = "done" THEN 1 ELSE 0
Got(r, q) == round[r] + IF recvReq[r][q] \in {"done", "drained"} THEN 1 ELSE 0

WireInv(q, r) ==
  /\ Len(wire[q][r]) = Sent(q, r) - Got(r, q)
  /\ \A i \in 1..Len(wire[q][r]) : wire[q][r][i] = Got(r, q) + i - 1

Inv ==
  /\ HostType /\ DeviceType /\ MpiType
  /\ \A r \in Ranks : HostInv(r) /\ QueueInv(r) /\ SendInv(r)
  /\ \A r \in Ranks : \A q \in Peers(r) : ReceiveInv(r, q) /\ WireInv(r, q)

-----------------------------------------------------------------------------
(* Queues.                                                                   *)

(* An operation is known by its name: there is one gather, and a receive     *)
(* operation is a copy or a scatter for a peer and a slot.                   *)
LEMMA OpFacts ==
  ASSUME NEW op \in Ops
  PROVE  /\ op.op \in {"gather", "interior", "shell", "whole", "h2d", "scatter"}
         /\ op.op = "gather" => op = Op("gather")
         /\ op.op = "h2d" => op.peer \in Ranks /\ op.slot = 0 /\ op = HostToDevice(op.peer)
         /\ op.op = "scatter" =>
              op.peer \in Ranks /\ op.slot \in Slots /\ op = Scatter(op.peer, op.slot)
BY DEF Ops, Op, HostToDevice, Scatter, Slots

(* The operations the host enqueues, and their fields.                       *)
LEMMA OpsMembers ==
  /\ \A name \in {"gather", "interior", "shell", "whole"} :
       Op(name) \in Ops /\ Op(name).op = name
  /\ \A q \in Ranks : /\ HostToDevice(q) \in Ops /\ HostToDevice(q).op = "h2d"
                      /\ HostToDevice(q).peer = q /\ HostToDevice(q).slot = 0
  /\ \A q \in Ranks, s \in Slots :
       /\ Scatter(q, s) \in Ops /\ Scatter(q, s).op = "scatter"
       /\ Scatter(q, s).peer = q /\ Scatter(q, s).slot = s
<1>1. ASSUME NEW name \in {"gather", "interior", "shell", "whole"}
      PROVE  Op(name) \in Ops /\ Op(name).op = name
  BY DEF Ops, Op
<1>2. ASSUME NEW q \in Ranks
      PROVE  /\ HostToDevice(q) \in Ops /\ HostToDevice(q).op = "h2d"
             /\ HostToDevice(q).peer = q /\ HostToDevice(q).slot = 0
  BY DEF Ops, HostToDevice
<1>3. ASSUME NEW q \in Ranks, NEW s \in Slots
      PROVE  /\ Scatter(q, s) \in Ops /\ Scatter(q, s).op = "scatter"
             /\ Scatter(q, s).peer = q /\ Scatter(q, s).slot = s
  BY DEF Ops, Scatter
<1> QED
  BY <1>1, <1>2, <1>3

(* What appending an element does to a sequence.                             *)
LEMMA AppendFacts ==
  ASSUME NEW S, NEW s \in Seq(S), NEW e \in S
  PROVE  /\ Append(s, e) \in Seq(S)
         /\ Len(Append(s, e)) = Len(s) + 1
         /\ \A i \in 1..Len(s) : Append(s, e)[i] = s[i]
         /\ Append(s, e)[Len(s) + 1] = e
         /\ s \o <<e>> = Append(s, e)
         /\ s \o (<<>> \o <<e>>) = Append(s, e)
         /\ Len(s) \in Nat
<1>1. s \o <<e>> = Append(s, e)
  BY AppendIsConcat
<1>2. <<>> \o <<e>> = <<e>>
  BY ConcatEmptySeq, <<e>> \in Seq(S)
<1> QED
  BY <1>1, <1>2, AppendProperties, LenProperties

(* Appending two elements at once is appending one and then the other.       *)
LEMMA AppendTwo ==
  ASSUME NEW S, NEW s \in Seq(S), NEW a \in S, NEW b \in S
  PROVE  s \o (<<a>> \o <<b>>) = Append(Append(s, a), b)
<1>1. <<a>> \in Seq(S) /\ <<b>> \in Seq(S)
  OBVIOUS
<1>2. s \o (<<a>> \o <<b>>) = (s \o <<a>>) \o <<b>>
  BY <1>1, ConcatAssociative
<1>3. s \o <<a>> = Append(s, a) /\ Append(s, a) \in Seq(S)
  BY AppendFacts
<1> QED
  BY <1>2, <1>3, AppendFacts

(* What taking the first element does to a sequence.                         *)
LEMMA TailFacts ==
  ASSUME NEW S, NEW s \in Seq(S), s # <<>>
  PROVE  /\ Tail(s) \in Seq(S)
         /\ Len(s) \in Nat /\ Len(s) >= 1
         /\ Len(Tail(s)) = Len(s) - 1
         /\ \A i \in 1..(Len(s) - 1) : Tail(s)[i] = s[i + 1]
         /\ Head(s) = s[1] /\ s[1] \in S
<1>1. Len(s) \in Nat \ {0}
  BY EmptySeq
<1> QED
  BY <1>1, HeadTailProperties, ElementOfSeq

(* The queue after one more operation: what it holds, and its order.         *)
LEMMA QueueAppend ==
  ASSUME NEW s \in Seq(Ops), NEW e \in Ops, Ordered(s),
         IsUpdate(e) => ~ HasUpdate(s) /\ ~ HasGather(s),
         IsReceive(e) => ~ HasUpdate(s)
  PROVE  /\ Append(s, e) \in Seq(Ops)
         /\ Ordered(Append(s, e))
         /\ HasUpdate(Append(s, e)) <=> HasUpdate(s) \/ IsUpdate(e)
         /\ HasGather(Append(s, e)) <=> HasGather(s) \/ e.op = "gather"
         /\ \A q, slot : Uses(Append(s, e), q, slot) <=>
              Uses(s, q, slot) \/ (IsReceive(e) /\ e.peer = q /\ e.slot = slot)
<1> DEFINE t == Append(s, e)
<1>1. /\ t \in Seq(Ops) /\ Len(t) = Len(s) + 1 /\ Len(s) \in Nat
      /\ \A i \in 1..Len(s) : t[i] = s[i]
      /\ t[Len(s) + 1] = e
  BY AppendFacts
<1> HIDE DEF t
<1>2. Places(t) = Places(s) \union {Len(s) + 1} /\ Len(s) + 1 \notin Places(s)
  BY <1>1 DEF Places
<1>3. HasUpdate(t) <=> HasUpdate(s) \/ IsUpdate(e)
  BY <1>1, <1>2 DEF HasUpdate, Places
<1>4. HasGather(t) <=> HasGather(s) \/ e.op = "gather"
  BY <1>1, <1>2 DEF HasGather, Places
<1>5. \A q, slot : Uses(t, q, slot) <=>
        Uses(s, q, slot) \/ (IsReceive(e) /\ e.peer = q /\ e.slot = slot)
  BY <1>1, <1>2 DEF Uses, Places
<1>6. Ordered(t)
  <2> SUFFICES ASSUME NEW i \in Places(t), NEW j \in Places(t), IsUpdate(t[j])
               PROVE  /\ IsReceive(t[i]) => i < j
                      /\ IsUpdate(t[i]) => i = j
                      /\ t[i].op = "gather" => j < i
    BY DEF Ordered
  <2>1. CASE i \in Places(s) /\ j \in Places(s)
    BY <2>1, <1>1 DEF Ordered, Places
  <2>2. CASE i \in Places(s) /\ j = Len(s) + 1
    BY <2>2, <1>1 DEF HasUpdate, HasGather, Places
  <2>3. CASE i = Len(s) + 1 /\ j \in Places(s)
    BY <2>3, <1>1 DEF HasUpdate, Places
  <2>4. CASE i = Len(s) + 1 /\ j = Len(s) + 1
    BY <2>4, <1>1 DEF IsUpdate, IsReceive
  <2> QED
    BY <1>2, <2>1, <2>2, <2>3, <2>4
<1> QED
  BY <1>1, <1>3, <1>4, <1>5, <1>6 DEF t

(* The queue after its oldest operation.  After an update nothing of its     *)
(* exchange is left, and a gather finds no update before it.                 *)
LEMMA QueueTail ==
  ASSUME NEW s \in Seq(Ops), s # <<>>, Ordered(s)
  PROVE  /\ Tail(s) \in Seq(Ops) /\ Ordered(Tail(s))
         /\ HasUpdate(s) <=> IsUpdate(Head(s)) \/ HasUpdate(Tail(s))
         /\ HasGather(s) <=> Head(s).op = "gather" \/ HasGather(Tail(s))
         /\ \A q, slot : Uses(Tail(s), q, slot) => Uses(s, q, slot)
         /\ IsUpdate(Head(s)) =>
              /\ ~ HasUpdate(Tail(s))
              /\ \A i \in Places(Tail(s)) : ~ IsReceive(Tail(s)[i])
              /\ \A i \in Places(s) : ~ IsReceive(s[i])
         /\ Head(s).op = "gather" => ~ HasUpdate(s)
<1> DEFINE t == Tail(s)
<1>1. /\ t \in Seq(Ops) /\ Len(s) \in Nat /\ Len(s) >= 1 /\ Len(t) = Len(s) - 1
      /\ \A i \in 1..(Len(s) - 1) : t[i] = s[i + 1]
      /\ Head(s) = s[1] /\ s[1] \in Ops
  BY TailFacts
<1> HIDE DEF t
<1>2. /\ 1 \in Places(s)
      /\ \A i \in Places(t) : i + 1 \in Places(s) /\ t[i] = s[i + 1] /\ i >= 1
      /\ \A i \in Places(s) : i = 1 \/ (i - 1 \in Places(t) /\ t[i - 1] = s[i])
  BY <1>1 DEF Places
<1>3. HasUpdate(s) <=> IsUpdate(s[1]) \/ HasUpdate(t)
  BY <1>2 DEF HasUpdate
<1>4. HasGather(s) <=> s[1].op = "gather" \/ HasGather(t)
  BY <1>2 DEF HasGather
<1>5. \A q, slot : Uses(t, q, slot) => Uses(s, q, slot)
  BY <1>2 DEF Uses
<1>6. Ordered(t)
  <2> SUFFICES ASSUME NEW i \in Places(t), NEW j \in Places(t), IsUpdate(t[j])
               PROVE  /\ IsReceive(t[i]) => i < j
                      /\ IsUpdate(t[i]) => i = j
                      /\ t[i].op = "gather" => j < i
    BY DEF Ordered
  <2>1. i \in Nat /\ j \in Nat
    BY DEF Places
  <2>2. /\ IsReceive(s[i + 1]) => i + 1 < j + 1
        /\ IsUpdate(s[i + 1]) => i + 1 = j + 1
        /\ s[i + 1].op = "gather" => j + 1 < i + 1
    BY <1>2 DEF Ordered
  <2> QED
    BY <1>2, <2>1, <2>2
<1>7. ASSUME IsUpdate(s[1])
      PROVE  /\ ~ HasUpdate(t)
             /\ \A i \in Places(s) : ~ IsReceive(s[i])
  <2>1. \A i \in Places(s) : /\ IsReceive(s[i]) => i < 1
                             /\ IsUpdate(s[i]) => i = 1
    BY <1>7, <1>2 DEF Ordered
  <2> QED
    BY <2>1, <1>2 DEF HasUpdate, Places
<1>8. s[1].op = "gather" => ~ HasUpdate(s)
  BY <1>2 DEF Ordered, HasUpdate, Places
<1> QED
  BY <1>1, <1>2, <1>3, <1>4, <1>5, <1>6, <1>7, <1>8 DEF t

-----------------------------------------------------------------------------
(* Steps.                                                                    *)

(* What the invariant says of one rank by itself, and the part of the state  *)
(* it speaks of.                                                             *)
RankInv(r) == /\ HostInv(r) /\ QueueInv(r) /\ SendInv(r)
              /\ \A q \in Peers(r) : ReceiveInv(r, q)

DeviceOf(r) == <<stream[r], edge[r], halo[r], sendDevice[r], sendHost[r],
                 recvDevice[r], recvHost[r]>>
RankOf(r) == <<pc[r], round[r], mode[r], error[r], sendReq[r], recvReq[r], DeviceOf(r)>>

(* A step that leaves a rank alone keeps what holds of it.                   *)
LEMMA RankFrame ==
  ASSUME NEW r, RankInv(r), UNCHANGED <<transport, RankOf(r)>>
  PROVE  RankInv(r)'
<1> USE DEF RankInv, RankOf, DeviceOf
<1>1. HostInv(r)'
  BY DEF HostInv
<1>2. QueueInv(r)'
  BY DEF QueueInv
<1>3. SendInv(r)'
  BY DEF SendInv
<1>4. ASSUME NEW q \in Peers(r) PROVE ReceiveInv(r, q)'
  <2>1. ReceiveInv(r, q)
    OBVIOUS
  <2> QED
    BY <2>1 DEF ReceiveInv, Bytes
<1> QED
  BY <1>1, <1>2, <1>3, <1>4

(* A step that changes neither the messages of two ranks nor their counts    *)
(* keeps what holds of their messages.                                       *)
LEMMA WireFrame ==
  ASSUME NEW q, NEW r, WireInv(q, r), Sent(q, r)' = Sent(q, r), Got(r, q)' = Got(r, q),
         wire'[q][r] = wire[q][r]
  PROVE  WireInv(q, r)'
BY DEF WireInv

(* The invariant in the parts its proof keeps.                               *)
LEMMA InvParts ==
  Inv <=> /\ HostType /\ DeviceType /\ MpiType
          /\ \A r \in Ranks : RankInv(r)
          /\ \A r \in Ranks : \A q \in Peers(r) : WireInv(r, q)
BY DEF Inv, RankInv

(* A step of one rank that leaves the transport and the messages alone keeps *)
(* the invariant if it keeps the types, what holds of that rank and its      *)
(* counts of messages.                                                       *)
LEMMA StepOfRank ==
  ASSUME Inv, NEW r \in Ranks, HostType', DeviceType', MpiType', RankInv(r)',
         UNCHANGED <<transport, wire>>,
         \A p \in Ranks \ {r} : UNCHANGED RankOf(p),
         \A q \in Peers(r) : UNCHANGED <<Sent(r, q), Got(r, q)>>
  PROVE  Inv'
<1>1. ASSUME NEW p \in Ranks PROVE RankInv(p)'
  BY <1>1, InvParts, RankFrame
<1>2. ASSUME NEW p \in Ranks, NEW q \in Peers(p) PROVE WireInv(p, q)'
  <2>1. UNCHANGED <<Sent(p, q), Got(q, p)>>
    BY DEF Peers, Sent, Got, RankOf
  <2> QED
    BY <2>1, InvParts, WireFrame
<1> QED
  BY <1>1, <1>2 DEF Inv, RankInv

(* The agreed transport is set before any rank has begun an exchange.        *)
LEMMA NegotiateStep ==
  ASSUME Inv, NegotiateTransport
  PROVE  Inv'
<1> USE DEF NegotiateTransport, host, fieldsOnDevice, buffers, mpi
<1>1. HostType' /\ DeviceType' /\ MpiType'
  <2>1. setting' \in [Ranks -> Setting]
    BY DEF Setting
  <2>2. /\ transport' \in {"none", "pinned", "device"}
        /\ waitall' \in BOOLEAN /\ aborted' \in BOOLEAN
    BY DEF Inv, HostType
  <2>3. HostType'
    BY <2>1, <2>2 DEF Inv, HostType
  <2> QED
    BY <2>3 DEF Inv, DeviceType, MpiType
<1>2. ASSUME NEW r \in Ranks PROVE RankInv(r)'
  <2>1. HostInv(r) /\ QueueInv(r) /\ SendInv(r) /\ pc[r] = "idle"
    BY DEF Inv, HostInv
  <2>2. HostInv(r)'
    BY <2>1 DEF HostInv
  <2>3. QueueInv(r)' /\ SendInv(r)'
    BY <2>1 DEF QueueInv, SendInv
  <2>4. ASSUME NEW q \in Peers(r) PROVE ReceiveInv(r, q)'
    <3>1. ReceiveInv(r, q) /\ recvReq[r][q] = "none"
      BY <2>1 DEF Inv, HostInv
    <3> QED
      BY <3>1 DEF ReceiveInv
  <2> QED
    BY <2>2, <2>3, <2>4 DEF RankInv
<1>3. ASSUME NEW r \in Ranks, NEW q \in Peers(r) PROVE WireInv(r, q)'
  <2>1. WireInv(r, q)
    BY DEF Inv
  <2> QED
    BY <2>1 DEF WireInv, Sent, Got
<1> QED
  BY <1>1, <1>2, <1>3, InvParts DEF Inv, RankInv

(* An exchange begins with no request and nothing of it in the queue.        *)
LEMMA BeginStep ==
  ASSUME Inv, NEW r \in Ranks, Begin(r)
  PROVE  Inv'
<1> USE DEF Begin, Running, negotiation, fieldsOnDevice, buffers, mpi
<1>1. HostType' /\ DeviceType' /\ MpiType'
  <2>1. HostType'
    <3>1. next' \in [Ranks -> Slots]
      BY DEF Inv, HostType, Slots
    <3>2. mode' \in [Ranks -> [cold : BOOLEAN, eager : BOOLEAN, slot : Slots]]
      BY DEF Inv, HostType, Slots
    <3> QED
      BY <3>1, <3>2 DEF Inv, HostType
  <2> QED
    BY <2>1 DEF Inv, DeviceType, MpiType
<1>2. pc[r] = "idle" /\ pc'[r] = "fence"
  BY DEF Inv, HostType
<1>3. transport # "device" => mode'[r].slot = 0
  BY DEF Inv, HostType
<1>4. RankInv(r)'
  <2>1. RankInv(r)
    BY InvParts
  <2>2. HostInv(r)'
    BY <1>2, <1>3, <2>1 DEF RankInv, HostInv
  <2>3. QueueInv(r)' /\ SendInv(r)'
    BY <1>2, <2>1 DEF RankInv, QueueInv, SendInv
  <2>4. ASSUME NEW q \in Peers(r) PROVE ReceiveInv(r, q)'
    <3>1. ReceiveInv(r, q) /\ recvReq[r][q] = "none"
      BY <1>2, <2>1 DEF RankInv, HostInv
    <3> QED
      BY <1>2, <3>1 DEF ReceiveInv
  <2> QED
    BY <2>2, <2>3, <2>4 DEF RankInv
<1>5. \A p \in Ranks \ {r} : UNCHANGED RankOf(p)
  BY DEF RankOf, DeviceOf, Inv, HostType
<1>6. \A q \in Peers(r) : UNCHANGED <<Sent(r, q), Got(r, q)>>
  BY DEF Sent, Got
<1> QED
  BY <1>1, <1>4, <1>5, <1>6, StepOfRank

(* The types of one rank's components.                                       *)
LEMMA RankTypes ==
  ASSUME Inv, NEW r \in Ranks
  PROVE  /\ pc[r] \in {"idle", "fence", "launch", "ready", "overlap", "wait"}
         /\ round[r] \in Nat /\ mode[r].slot \in Slots /\ mode[r].eager \in BOOLEAN
         /\ stream[r] \in Seq(Ops) /\ edge[r] \in Nat
         /\ sendDevice[r] \in Nat /\ sendHost[r] \in Nat
         /\ \A q \in Peers(r) :
              /\ halo[r][q] \in Nat /\ recvHost[r][q] \in Nat
              /\ \A s \in Slots : recvDevice[r][q][s] \in Nat
              /\ sendReq[r][q] \in {"none", "posted", "done"}
              /\ recvReq[r][q] \in {"none", "posted", "done", "drained"}
              /\ wire[r][q] \in Seq(Nat)
BY DEF Inv, HostType, DeviceType, MpiType, PeerMap

(* The fence: nothing left in the queue uses the slot that is received into. *)
LEMMA FenceStep ==
  ASSUME Inv, NEW r \in Ranks, Fence(r)
  PROVE  Inv'
<1> USE DEF Fence, Running, negotiation, fieldsOnDevice, buffers, mpi
<1>1. /\ PeerMap(recvReq', {"none", "posted", "done", "drained"})
      /\ \A q \in Peers(r) : recvReq'[r][q] = IF mode[r].eager THEN "posted" ELSE recvReq[r][q]
      /\ \A p \in Ranks \ {r} : recvReq'[p] = recvReq[p]
  <2>1. PeerMap(recvReq, {"none", "posted", "done", "drained"})
    BY DEF Inv, MpiType
  <2>2. CASE mode[r].eager
    <3>1. recvReq' = [recvReq EXCEPT ![r] = [q \in Peers(r) |-> "posted"]]
      BY <2>2
    <3> QED
      BY <2>1, <2>2, <3>1 DEF PeerMap
  <2>3. CASE ~ mode[r].eager
    BY <2>1, <2>3
  <2> QED
    BY <2>2, <2>3
<1>2. HostType' /\ DeviceType' /\ MpiType'
  BY <1>1 DEF Inv, HostType, DeviceType, MpiType
<1>3. pc[r] = "fence" /\ pc'[r] = "launch" /\ RankInv(r)
  BY InvParts DEF Inv, HostType
<1>4. \A q \in Peers(r) : recvReq[r][q] = "none" /\ sendReq[r][q] = "none"
  BY <1>3 DEF RankInv, HostInv
<1>5. RankInv(r)'
  <2>1. HostInv(r)'
    BY <1>1, <1>3, <1>4 DEF RankInv, HostInv
  <2>2. QueueInv(r)' /\ SendInv(r)'
    BY <1>3 DEF RankInv, QueueInv, SendInv
  <2>3. ASSUME NEW q \in Peers(r) PROVE ReceiveInv(r, q)'
    <3>1. ~ Uses(stream[r], q, mode[r].slot)
      <4> SUFFICES ASSUME NEW i \in Places(stream[r]), IsReceive(stream[r][i]),
                          stream[r][i].slot = mode[r].slot
                   PROVE  FALSE
        BY DEF Uses
      <4>1. stream[r][i] \in Queued(r)
        BY RankTypes, LenProperties DEF Queued, Places
      <4> QED
        BY <4>1 DEF ReceiveIdle, IsReceive
    <3>2. ReceiveInv(r, q)
      BY <1>3 DEF RankInv
    <3> QED
      BY <1>1, <1>3, <1>4, <3>1, <3>2 DEF ReceiveInv, Bytes
  <2> QED
    BY <2>1, <2>2, <2>3 DEF RankInv
<1>6. \A p \in Ranks \ {r} : UNCHANGED RankOf(p)
  BY <1>1 DEF RankOf, DeviceOf, Inv, HostType
<1>7. \A q \in Peers(r) : UNCHANGED <<Sent(r, q), Got(r, q)>>
  BY <1>1, <1>4 DEF Sent, Got
<1> QED
  BY <1>2, <1>5, <1>6, <1>7, StepOfRank

(* One more operation in a queue: what it carries to the halo.               *)
LEMMA CarriesAppend ==
  ASSUME NEW s \in Seq(Ops), NEW e \in Ops, NEW q, NEW pinned, NEW slots, NEW v,
         Carries(s, q, pinned, slots, v),
         e = HostToDevice(q) => pinned = v,
         \A slot \in Slots : e = Scatter(q, slot) =>
           \/ slot = 0 /\ \E k \in Places(s) : s[k] = HostToDevice(q)
           \/ slots[slot] = v
  PROVE  /\ Carries(Append(s, e), q, pinned, slots, v)
         /\ Scatters(Append(s, e), q) <=>
              Scatters(s, q) \/ \E slot \in Slots : e = Scatter(q, slot)
         /\ Append(s, e)[Len(s) + 1] = e
         /\ Len(s) + 1 \in Places(Append(s, e))
<1> DEFINE t == Append(s, e)
<1>1. /\ Len(t) = Len(s) + 1 /\ Len(s) \in Nat
      /\ \A i \in 1..Len(s) : t[i] = s[i]
      /\ t[Len(s) + 1] = e
  BY AppendFacts
<1> HIDE DEF t
<1>2. Places(t) = Places(s) \union {Len(s) + 1}
  BY <1>1 DEF Places
<1>3. Scatters(t, q) <=> Scatters(s, q) \/ \E slot \in Slots : e = Scatter(q, slot)
  BY <1>1, <1>2 DEF Scatters, Places
<1>4. Carries(t, q, pinned, slots, v)
  <2> SUFFICES ASSUME NEW i \in Places(t)
               PROVE  /\ t[i] = HostToDevice(q) => pinned = v
                      /\ \A slot \in Slots : t[i] = Scatter(q, slot) =>
                           \/ slot = 0 /\ \E k \in 1..(i - 1) : t[k] = HostToDevice(q)
                           \/ slots[slot] = v
    BY DEF Carries
  <2>1. CASE i \in Places(s)
    BY <2>1, <1>1 DEF Carries, Places
  <2>2. CASE i = Len(s) + 1
    BY <2>2, <1>1 DEF Places
  <2> QED
    BY <2>1, <2>2, <1>2
<1> QED
  BY <1>1, <1>2, <1>3, <1>4 DEF t

(* A launch queues an operation that neither uses received bytes nor makes   *)
(* new values: what is queued, and what it carries, stays as it was.         *)
LEMMA LaunchFacts ==
  ASSUME Inv, NEW r \in Ranks, NEW name \in {"gather", "interior"},
         stream' = Enqueue(r, <<Op(name)>>)
  PROVE  /\ stream' \in [Ranks -> Seq(Ops)]
         /\ \A p \in Ranks \ {r} : stream'[p] = stream[p]
         /\ Ordered(stream'[r])
         /\ HasUpdate(stream'[r]) <=> HasUpdate(stream[r])
         /\ HasGather(stream'[r]) <=> HasGather(stream[r]) \/ name = "gather"
         /\ \A q, slot : Uses(stream'[r], q, slot) <=> Uses(stream[r], q, slot)
         /\ \A q \in Peers(r) :
              /\ Carries(stream'[r], q, recvHost[r][q], recvDevice[r][q], edge[r])
              /\ Scatters(stream'[r], q) <=> Scatters(stream[r], q)
<1>1. stream[r] \in Seq(Ops) /\ Op(name) \in Ops /\ Op(name).op = name
  BY RankTypes, OpsMembers
<1>2. stream[r] \o <<Op(name)>> = Append(stream[r], Op(name))
  BY <1>1, AppendFacts
<1>3. Ordered(stream[r])
  BY DEF Inv, QueueInv
<1>4. /\ Append(stream[r], Op(name)) \in Seq(Ops)
      /\ Ordered(Append(stream[r], Op(name)))
      /\ HasUpdate(Append(stream[r], Op(name))) <=> HasUpdate(stream[r])
      /\ HasGather(Append(stream[r], Op(name))) <=> HasGather(stream[r]) \/ name = "gather"
      /\ \A q, slot : Uses(Append(stream[r], Op(name)), q, slot) <=> Uses(stream[r], q, slot)
  BY <1>1, <1>3, QueueAppend DEF IsUpdate, IsReceive
<1>5. ASSUME NEW q \in Peers(r)
      PROVE  /\ Carries(Append(stream[r], Op(name)), q, recvHost[r][q], recvDevice[r][q], edge[r])
             /\ Scatters(Append(stream[r], Op(name)), q) <=> Scatters(stream[r], q)
  <2>1. Op(name) # HostToDevice(q) /\ \A slot \in Slots : Op(name) # Scatter(q, slot)
    BY DEF Op, HostToDevice, Scatter
  <2>2. Carries(stream[r], q, recvHost[r][q], recvDevice[r][q], edge[r])
    BY DEF Inv, ReceiveInv
  <2> QED
    BY <1>1, <2>1, <2>2, CarriesAppend
<1>6. /\ stream'[r] = Append(stream[r], Op(name))
      /\ \A p \in Ranks \ {r} : stream'[p] = stream[p]
      /\ stream' \in [Ranks -> Seq(Ops)]
  BY <1>2, <1>4 DEF Enqueue, Inv, DeviceType
<1> QED
  BY <1>4, <1>5, <1>6

(* The gather is queued behind whatever is left of the previous exchange.    *)
LEMMA LaunchStep ==
  ASSUME Inv, NEW r \in Ranks, Launch(r)
  PROVE  Inv'
<1> USE DEF Launch, Running, negotiation, fieldsOnDevice, buffers, mpi
<1>1. /\ stream' \in [Ranks -> Seq(Ops)]
      /\ \A p \in Ranks \ {r} : stream'[p] = stream[p]
      /\ Ordered(stream'[r])
      /\ HasUpdate(stream'[r]) <=> HasUpdate(stream[r])
      /\ HasGather(stream'[r])
      /\ \A q, slot : Uses(stream'[r], q, slot) <=> Uses(stream[r], q, slot)
      /\ \A q \in Peers(r) :
           /\ Carries(stream'[r], q, recvHost[r][q], recvDevice[r][q], edge[r])
           /\ Scatters(stream'[r], q) <=> Scatters(stream[r], q)
  BY LaunchFacts
<1>2. HostType' /\ DeviceType' /\ MpiType'
  BY <1>1 DEF Inv, HostType, DeviceType, MpiType
<1>3. pc[r] = "launch" /\ pc'[r] = "ready" /\ RankInv(r)
  BY InvParts DEF Inv, HostType
<1>4. RankInv(r)'
  <2>1. HostInv(r)'
    BY <1>3 DEF RankInv, HostInv
  <2>2. QueueInv(r)' /\ SendInv(r)'
    BY <1>1, <1>3 DEF RankInv, QueueInv, SendInv
  <2>3. ASSUME NEW q \in Peers(r) PROVE ReceiveInv(r, q)'
    <3>1. ReceiveInv(r, q)
      BY <1>3 DEF RankInv
    <3> QED
      BY <1>1, <1>3, <3>1 DEF ReceiveInv, Bytes
  <2> QED
    BY <2>1, <2>2, <2>3 DEF RankInv
<1>5. \A p \in Ranks \ {r} : UNCHANGED RankOf(p)
  BY <1>1 DEF RankOf, DeviceOf, Inv, HostType
<1>6. \A q \in Peers(r) : UNCHANGED <<Sent(r, q), Got(r, q)>>
  BY DEF Sent, Got
<1> QED
  BY <1>2, <1>4, <1>5, <1>6, StepOfRank

(* The gather has run when the sends are posted: their bytes are the values  *)
(* of the round, and MPI has not started to write what is received.          *)
LEMMA PostRequestsStep ==
  ASSUME Inv, NEW r \in Ranks, PostRequests(r)
  PROVE  Inv'
<1> USE DEF PostRequests, Running, negotiation, fieldsOnDevice
<1>1. /\ PeerMap(recvReq', {"none", "posted", "done", "drained"})
      /\ \A q \in Peers(r) : recvReq'[r][q] = IF mode[r].eager THEN recvReq[r][q] ELSE "posted"
      /\ \A p \in Ranks \ {r} : recvReq'[p] = recvReq[p]
  <2>1. PeerMap(recvReq, {"none", "posted", "done", "drained"})
    BY DEF Inv, MpiType
  <2>2. CASE ~ mode[r].eager
    <3>1. recvReq' = [recvReq EXCEPT ![r] = [q \in Peers(r) |-> "posted"]]
      BY <2>2
    <3> QED
      BY <2>1, <2>2, <3>1 DEF PeerMap
  <2>3. CASE mode[r].eager
    BY <2>1, <2>3
  <2> QED
    BY <2>2, <2>3
<1>2. /\ PeerMap(sendReq', {"none", "posted", "done"})
      /\ \A q \in Peers(r) : sendReq'[r][q] = "posted"
      /\ \A p \in Ranks \ {r} : sendReq'[p] = sendReq[p]
  <2>1. PeerMap(sendReq, {"none", "posted", "done"})
    BY DEF Inv, MpiType
  <2>2. sendReq' = [sendReq EXCEPT ![r] = [q \in Peers(r) |-> "posted"]]
    OBVIOUS
  <2> QED
    BY <2>1, <2>2 DEF PeerMap
<1>3. /\ sendHost' \in [Ranks -> Nat]
      /\ sendHost'[r] = IF transport = "pinned" THEN sendDevice[r] ELSE sendHost[r]
      /\ \A p \in Ranks \ {r} : sendHost'[p] = sendHost[p]
  BY DEF Inv, DeviceType
<1>4. /\ pc' \in [Ranks -> {"idle", "fence", "launch", "ready", "overlap", "wait"}]
      /\ pc[r] = "ready" /\ pc'[r] \in {"overlap", "wait"}
      /\ \A p \in Ranks \ {r} : pc'[p] = pc[p]
  BY DEF Inv, HostType
<1>5. RankInv(r)
  BY InvParts
<1>6. HostType' /\ DeviceType' /\ MpiType'
  BY <1>1, <1>2, <1>3, <1>4 DEF Inv, HostType, DeviceType, MpiType
<1>7. ~ HasGather(stream[r])
  <2> SUFFICES ASSUME NEW i \in Places(stream[r]), stream[r][i].op = "gather" PROVE FALSE
    BY DEF HasGather
  <2>1. /\ stream[r] \in Seq(Ops) /\ stream[r][i] \in Ops /\ stream[r] # <<>>
        /\ stream[r][i] \in Queued(r)
    BY RankTypes, LenProperties, EmptySeq DEF Queued, Places
  <2>2. Op("gather") \in Queued(r)
    BY <2>1, OpFacts
  <2> QED
    BY <2>1, <2>2 DEF SendReady
<1>8. \A q \in Peers(r) :
        /\ sendReq[r][q] = "none" /\ recvReq[r][q] # "drained"
        /\ ~ mode[r].eager => recvReq[r][q] = "none"
  BY <1>4, <1>5 DEF RankInv, HostInv
<1>9. RankInv(r)'
  <2>1. HostInv(r)'
    <3>1. transport = "none" => FALSE
      BY <1>4, <1>5 DEF RankInv, HostInv
    <3> QED
      BY <1>1, <1>2, <1>4, <1>5, <1>8, <3>1 DEF RankInv, HostInv
  <2>2. QueueInv(r)'
    BY <1>4, <1>5, <1>7 DEF RankInv, QueueInv
  <2>3. SendInv(r)'
    BY <1>3, <1>4, <1>5, <1>7 DEF RankInv, SendInv
  <2>4. ASSUME NEW q \in Peers(r) PROVE ReceiveInv(r, q)'
    <3>1. ReceiveInv(r, q) /\ recvReq'[r][q] \in {recvReq[r][q], "posted"}
      BY <1>1, <1>5 DEF RankInv
    <3> QED
      BY <1>4, <1>8, <3>1 DEF ReceiveInv, Bytes
  <2> QED
    BY <2>1, <2>2, <2>3, <2>4 DEF RankInv
<1>10. \A p \in Ranks \ {r} : UNCHANGED RankOf(p)
  BY <1>1, <1>2, <1>3, <1>4 DEF RankOf, DeviceOf
<1>11. \A q \in Peers(r) : UNCHANGED <<Sent(r, q), Got(r, q)>>
  BY <1>1, <1>2, <1>8 DEF Sent, Got
<1> QED
  BY <1>6, <1>9, <1>10, <1>11, StepOfRank

(* The interior is updated without any boundary value.                       *)
LEMMA OverlapStep ==
  ASSUME Inv, NEW r \in Ranks, Overlap(r)
  PROVE  Inv'
<1> USE DEF Overlap, Running, negotiation, fieldsOnDevice, buffers, mpi
<1>1. pc[r] = "overlap" /\ pc'[r] = "wait" /\ RankInv(r)
  BY InvParts DEF Inv, HostType
<1>2. /\ stream' \in [Ranks -> Seq(Ops)]
      /\ \A p \in Ranks \ {r} : stream'[p] = stream[p]
      /\ Ordered(stream'[r])
      /\ HasUpdate(stream'[r]) <=> HasUpdate(stream[r])
      /\ HasGather(stream'[r]) <=> HasGather(stream[r])
      /\ \A q, slot : Uses(stream'[r], q, slot) <=> Uses(stream[r], q, slot)
      /\ \A q \in Peers(r) :
           /\ Carries(stream'[r], q, recvHost[r][q], recvDevice[r][q], edge[r])
           /\ Scatters(stream'[r], q) <=> Scatters(stream[r], q)
  <2>1. CASE stream' = Enqueue(r, <<Op("interior")>>)
    BY <2>1, LaunchFacts
  <2>2. CASE stream' = stream
    BY <2>2, <1>1 DEF Inv, DeviceType, RankInv, QueueInv, ReceiveInv
  <2> QED
    BY <2>1, <2>2
<1>3. HostType' /\ DeviceType' /\ MpiType'
  BY <1>2 DEF Inv, HostType, DeviceType, MpiType
<1>4. RankInv(r)'
  <2>1. HostInv(r)'
    BY <1>1 DEF RankInv, HostInv
  <2>2. QueueInv(r)' /\ SendInv(r)'
    BY <1>1, <1>2 DEF RankInv, QueueInv, SendInv
  <2>3. ASSUME NEW q \in Peers(r) PROVE ReceiveInv(r, q)'
    <3>1. ReceiveInv(r, q) /\ recvReq[r][q] # "drained"
      BY <1>1 DEF RankInv, HostInv
    <3> QED
      BY <1>1, <1>2, <3>1 DEF ReceiveInv, Bytes
  <2> QED
    BY <2>1, <2>2, <2>3 DEF RankInv
<1>5. \A p \in Ranks \ {r} : UNCHANGED RankOf(p)
  BY <1>2 DEF RankOf, DeviceOf, Inv, HostType
<1>6. \A q \in Peers(r) : UNCHANGED <<Sent(r, q), Got(r, q)>>
  BY DEF Sent, Got
<1> QED
  BY <1>3, <1>4, <1>5, <1>6, StepOfRank

\* The values on their way to the halo of r, if its queue were s.
CarriesAll(r, s) == \A p \in Peers(r) :
  Carries(s, p, recvHost[r][p], recvDevice[r][p], edge[r])

(* An operation that a callback queues for the peer q concerns no other      *)
(* peer, and carries q's value if its source holds that value.               *)
LEMMA ReceiveAppend ==
  ASSUME NEW r \in Ranks, NEW q \in Peers(r), NEW s \in Seq(Ops),
         Ordered(s), ~ HasUpdate(s), CarriesAll(r, s),
         NEW e \in Ops, IsReceive(e), e.peer = q,
         e = HostToDevice(q) => recvHost[r][q] = edge[r],
         \A slot \in Slots : e = Scatter(q, slot) =>
           \/ slot = 0 /\ \E k \in Places(s) : s[k] = HostToDevice(q)
           \/ recvDevice[r][q][slot] = edge[r]
  PROVE  /\ Append(s, e) \in Seq(Ops)
         /\ Ordered(Append(s, e)) /\ ~ HasUpdate(Append(s, e))
         /\ HasGather(Append(s, e)) <=> HasGather(s)
         /\ \A p \in Peers(r) \ {q} : \A slot : Uses(Append(s, e), p, slot) <=> Uses(s, p, slot)
         /\ CarriesAll(r, Append(s, e))
         /\ \A p \in Peers(r) : Scatters(s, p) => Scatters(Append(s, e), p)
         /\ \A slot \in Slots : e = Scatter(q, slot) => Scatters(Append(s, e), q)
<1>1. ~ IsUpdate(e) /\ e.op # "gather"
  BY DEF IsReceive, IsUpdate
<1>2. /\ Append(s, e) \in Seq(Ops)
      /\ Ordered(Append(s, e)) /\ ~ HasUpdate(Append(s, e))
      /\ HasGather(Append(s, e)) <=> HasGather(s)
      /\ \A p \in Peers(r) \ {q} : \A slot : Uses(Append(s, e), p, slot) <=> Uses(s, p, slot)
  BY <1>1, QueueAppend
<1>3. ASSUME NEW p \in Peers(r)
      PROVE  /\ Carries(Append(s, e), p, recvHost[r][p], recvDevice[r][p], edge[r])
             /\ Scatters(Append(s, e), p) <=>
                  Scatters(s, p) \/ \E slot \in Slots : e = Scatter(p, slot)
             /\ Append(s, e)[Len(s) + 1] = e
             /\ Len(s) + 1 \in Places(Append(s, e))
  <2>1. p \in Ranks /\ (e = HostToDevice(p) => p = q)
    BY OpsMembers DEF Peers
  <2>2. \A slot \in Slots : e = Scatter(p, slot) => p = q
    BY <2>1, OpsMembers
  <2>3. Carries(s, p, recvHost[r][p], recvDevice[r][p], edge[r])
    BY DEF CarriesAll
  <2>4. e = HostToDevice(p) => recvHost[r][p] = edge[r]
    BY <2>1
  <2>5. \A slot \in Slots : e = Scatter(p, slot) =>
          \/ slot = 0 /\ \E k \in Places(s) : s[k] = HostToDevice(p)
          \/ recvDevice[r][p][slot] = edge[r]
    BY <2>2
  <2> QED
    BY <2>3, <2>4, <2>5, CarriesAppend
<1> QED
  BY <1>2, <1>3 DEF CarriesAll

(* What a callback for the peer q leaves in the queue.                       *)
LEMMA CallbackQueue ==
  ASSUME Inv, NEW r \in Ranks, NEW q \in Peers(r), ReceiveCallback(r, q)
  PROVE  /\ stream'[r] \in Seq(Ops)
         /\ Ordered(stream'[r]) /\ ~ HasUpdate(stream'[r]) /\ ~ HasGather(stream'[r])
         /\ \A p \in Peers(r) \ {q} : \A slot :
              Uses(stream'[r], p, slot) <=> Uses(stream[r], p, slot)
         /\ CarriesAll(r, stream'[r])
         /\ \A p \in Peers(r) : Scatters(stream[r], p) => Scatters(stream'[r], p)
         /\ ~ error'[r] => ~ error[r] /\ Scatters(stream'[r], q)
<1> DEFINE s == stream[r]
           h == HostToDevice(q)
           c == Scatter(q, mode[r].slot)
<1>1. /\ s \in Seq(Ops) /\ q \in Ranks /\ mode[r].slot \in Slots
      /\ h \in Ops /\ IsReceive(h) /\ h.peer = q /\ h # c
      /\ c \in Ops /\ IsReceive(c) /\ c.peer = q
  BY RankTypes, OpsMembers DEF IsReceive, Peers, Scatter, HostToDevice
<1>2. /\ \A slot \in Slots : c = Scatter(q, slot) => slot = mode[r].slot
      /\ \A slot \in Slots : h # Scatter(q, slot)
  BY <1>1 DEF Scatter, HostToDevice
<1>3. RankInv(r) /\ pc[r] = "wait" /\ recvReq[r][q] = "done"
  BY InvParts DEF ReceiveCallback, Running
<1>4. Ordered(s) /\ ~ HasUpdate(s) /\ ~ HasGather(s) /\ edge[r] = round[r]
  BY <1>3 DEF RankInv, QueueInv
<1>5. CarriesAll(r, s) /\ Bytes(r, q) = edge[r]
  BY <1>3, <1>4 DEF RankInv, ReceiveInv, CarriesAll
<1>6. transport \in {"pinned", "device"} /\ (transport = "pinned" => mode[r].slot = 0)
  BY <1>3 DEF RankInv, HostInv, Inv, HostType
<1>8. \A ops : Enqueue(r, ops)[r] = s \o ops
  BY DEF Enqueue, Inv, DeviceType
<1>9. s \o <<>> = s
  BY <1>1, ConcatEmptySeq
<1>10. error \in [Ranks -> BOOLEAN]
  BY DEF Inv, HostType
<1> HIDE DEF s, h, c
<1>11. CASE stream'[r] = s /\ error'[r]
  BY <1>11, <1>1, <1>4, <1>5 DEF s
<1>12. ASSUME transport = "pinned"
       PROVE  /\ Append(s, h) \in Seq(Ops)
              /\ Ordered(Append(s, h)) /\ ~ HasUpdate(Append(s, h))
              /\ HasGather(Append(s, h)) <=> HasGather(s)
              /\ \A p \in Peers(r) \ {q} : \A slot : Uses(Append(s, h), p, slot) <=> Uses(s, p, slot)
              /\ CarriesAll(r, Append(s, h))
              /\ \A p \in Peers(r) : Scatters(s, p) => Scatters(Append(s, h), p)
              /\ \E k \in Places(Append(s, h)) : Append(s, h)[k] = h
  <2>1. recvHost[r][q] = edge[r]
    BY <1>12, <1>5 DEF Bytes
  <2>2. \A slot \in Slots : h = Scatter(q, slot) => recvDevice[r][q][slot] = edge[r]
    BY <1>2
  <2>3. /\ Append(s, h) \in Seq(Ops)
        /\ Ordered(Append(s, h)) /\ ~ HasUpdate(Append(s, h))
        /\ HasGather(Append(s, h)) <=> HasGather(s)
        /\ \A p \in Peers(r) \ {q} : \A slot : Uses(Append(s, h), p, slot) <=> Uses(s, p, slot)
        /\ CarriesAll(r, Append(s, h))
        /\ \A p \in Peers(r) : Scatters(s, p) => Scatters(Append(s, h), p)
    BY <2>1, <2>2, <1>1, <1>4, <1>5, ReceiveAppend
  <2>4. Len(s) + 1 \in Places(Append(s, h)) /\ Append(s, h)[Len(s) + 1] = h
    BY <1>1, AppendFacts DEF Places
  <2> QED
    BY <2>3, <2>4
<1>13. CASE transport = "pinned" /\ stream'[r] = s \o <<h>> /\ error'[r]
  <2>1. stream'[r] = Append(s, h)
    BY <1>13, <1>1, AppendFacts
  <2> QED
    BY <2>1, <1>13, <1>12, <1>4 DEF s
<1>14. CASE transport = "pinned" /\ stream'[r] = s \o (<<h>> \o <<c>>) /\ ~ error[r]
  <2>1. stream'[r] = Append(Append(s, h), c)
    BY <1>14, <1>1, AppendTwo
  <2>2. \A slot \in Slots : c = Scatter(q, slot) =>
          slot = 0 /\ \E k \in Places(Append(s, h)) : Append(s, h)[k] = HostToDevice(q)
    BY <1>14, <1>12, <1>2, <1>6 DEF h
  <2>3. c # HostToDevice(q)
    BY <1>1 DEF h
  <2>4. c = Scatter(q, mode[r].slot)
    BY DEF c
  <2> DEFINE u == Append(s, h)
  <2>5. /\ u \in Seq(Ops) /\ Ordered(u) /\ ~ HasUpdate(u) /\ ~ HasGather(u)
        /\ CarriesAll(r, u)
        /\ \A slot \in Slots : c = Scatter(q, slot) =>
              slot = 0 /\ \E k \in Places(u) : u[k] = HostToDevice(q)
        /\ \A p \in Peers(r) \ {q} : \A slot : Uses(u, p, slot) <=> Uses(s, p, slot)
        /\ \A p \in Peers(r) : Scatters(s, p) => Scatters(u, p)
        /\ stream'[r] = Append(u, c)
    BY <2>1, <2>2, <1>12, <1>4, <1>14
  <2> HIDE DEF u
  <2>6. /\ Append(u, c) \in Seq(Ops)
        /\ Ordered(Append(u, c)) /\ ~ HasUpdate(Append(u, c))
        /\ HasGather(Append(u, c)) <=> HasGather(u)
        /\ \A p \in Peers(r) \ {q} : \A slot : Uses(Append(u, c), p, slot) <=> Uses(u, p, slot)
        /\ CarriesAll(r, Append(u, c))
        /\ \A p \in Peers(r) : Scatters(u, p) => Scatters(Append(u, c), p)
        /\ Scatters(Append(u, c), q)
    BY <2>3, <2>4, <2>5, <1>1, ReceiveAppend
  <2> QED
    BY <2>5, <2>6, <1>14 DEF s
<1>15. CASE transport = "device" /\ stream'[r] = s \o (<<>> \o <<c>>) /\ ~ error[r]
  <2>1. stream'[r] = Append(s, c)
    BY <1>15, <1>1, AppendFacts
  <2>2. \A slot \in Slots : c = Scatter(q, slot) => recvDevice[r][q][slot] = edge[r]
    BY <1>15, <1>2, <1>5 DEF Bytes
  <2>3. c # HostToDevice(q)
    BY <1>1 DEF h
  <2>4. c = Scatter(q, mode[r].slot)
    BY DEF c
  <2>5. /\ Append(s, c) \in Seq(Ops)
        /\ Ordered(Append(s, c)) /\ ~ HasUpdate(Append(s, c))
        /\ HasGather(Append(s, c)) <=> HasGather(s)
        /\ \A p \in Peers(r) \ {q} : \A slot : Uses(Append(s, c), p, slot) <=> Uses(s, p, slot)
        /\ CarriesAll(r, Append(s, c))
        /\ \A p \in Peers(r) : Scatters(s, p) => Scatters(Append(s, c), p)
        /\ Scatters(Append(s, c), q)
    BY <2>2, <2>3, <2>4, <1>1, <1>4, <1>5, ReceiveAppend
  <2> QED
    BY <2>1, <2>5, <1>4, <1>15 DEF s
<1>16. \/ stream'[r] = s /\ error'[r]
       \/ transport = "pinned" /\ stream'[r] = s \o <<h>> /\ error'[r]
       \/ transport = "pinned" /\ stream'[r] = s \o (<<h>> \o <<c>>) /\ ~ error[r]
       \/ transport = "device" /\ stream'[r] = s \o (<<>> \o <<c>>) /\ ~ error[r]
  <2>1. CASE error[r] /\ UNCHANGED <<stream, error>>
    BY <2>1 DEF s
  <2>2. CASE /\ ~ error[r]
             /\ stream' = Enqueue(r, (IF transport = "pinned" THEN <<h>> ELSE <<>>) \o <<c>>)
    BY <2>2, <1>6, <1>8
  <2>3. CASE /\ ~ error[r] /\ error' = [error EXCEPT ![r] = TRUE]
             /\ stream' \in {stream, Enqueue(r, IF transport = "pinned" THEN <<h>> ELSE <<>>)}
    BY <2>3, <1>6, <1>8, <1>9, <1>10 DEF s
  <2> QED
    BY <2>1, <2>2, <2>3 DEF ReceiveCallback, h, c
<1> QED
  BY <1>11, <1>13, <1>14, <1>15, <1>16

(* A callback hands the received value to the queue, or remembers an error.  *)
LEMMA CallbackStep ==
  ASSUME Inv, NEW r \in Ranks, NEW q \in Peers(r), ReceiveCallback(r, q)
  PROVE  Inv'
<1>1. /\ pc[r] = "wait" /\ recvReq[r][q] = "done"
      /\ recvReq' = [recvReq EXCEPT ![r][q] = "drained"]
      /\ \E ops : stream' \in {stream, Enqueue(r, ops)}
      /\ error' \in {error, [error EXCEPT ![r] = TRUE]}
      /\ UNCHANGED <<negotiation, pc, round, warm, next, mode, inner,
                     fieldsOnDevice, buffers, sendReq, wire, aborted>>
  BY DEF ReceiveCallback, Running
<1>2. /\ stream'[r] \in Seq(Ops)
      /\ Ordered(stream'[r]) /\ ~ HasUpdate(stream'[r]) /\ ~ HasGather(stream'[r])
      /\ \A p \in Peers(r) \ {q} : \A slot :
           Uses(stream'[r], p, slot) <=> Uses(stream[r], p, slot)
      /\ CarriesAll(r, stream'[r])
      /\ \A p \in Peers(r) : Scatters(stream[r], p) => Scatters(stream'[r], p)
      /\ ~ error'[r] => ~ error[r] /\ Scatters(stream'[r], q)
  BY CallbackQueue
<1>3. /\ stream' \in [Ranks -> Seq(Ops)]
      /\ \A p \in Ranks \ {r} : stream'[p] = stream[p]
  BY <1>1, <1>2 DEF Inv, DeviceType, Enqueue
<1>4. /\ error' \in [Ranks -> BOOLEAN]
      /\ \A p \in Ranks \ {r} : error'[p] = error[p]
  BY <1>1 DEF Inv, HostType
<1>5. /\ PeerMap(recvReq', {"none", "posted", "done", "drained"})
      /\ recvReq'[r][q] = "drained"
      /\ \A p \in Peers(r) \ {q} : recvReq'[r][p] = recvReq[r][p]
      /\ \A p \in Ranks \ {r} : recvReq'[p] = recvReq[p]
  <2>1. PeerMap(recvReq, {"none", "posted", "done", "drained"})
    BY DEF Inv, MpiType
  <2> QED
    BY <1>1, <2>1 DEF PeerMap
<1> USE DEF negotiation, fieldsOnDevice, buffers
<1>6. HostType' /\ DeviceType' /\ MpiType'
  BY <1>1, <1>3, <1>4, <1>5 DEF Inv, HostType, DeviceType, MpiType
<1>7. RankInv(r)
  BY InvParts
<1>8. RankInv(r)'
  <2>1. HostInv(r)'
    BY <1>1, <1>5, <1>7 DEF RankInv, HostInv
  <2>2. QueueInv(r)' /\ SendInv(r)'
    BY <1>1, <1>2, <1>7 DEF RankInv, QueueInv, SendInv
  <2>3. ASSUME NEW p \in Peers(r) PROVE ReceiveInv(r, p)'
    <3>1. ReceiveInv(r, p)
      BY <1>7 DEF RankInv
    <3>2. Carries(stream'[r], p, recvHost[r][p], recvDevice[r][p], edge[r])
      BY <1>2 DEF CarriesAll
    <3>3. CASE p = q
      BY <1>1, <1>2, <1>5, <3>2, <3>3 DEF ReceiveInv
    <3>4. CASE p # q
      BY <1>1, <1>2, <1>5, <3>1, <3>2, <3>4 DEF ReceiveInv, Bytes
    <3> QED
      BY <3>3, <3>4
  <2> QED
    BY <2>1, <2>2, <2>3 DEF RankInv
<1>9. \A p \in Ranks \ {r} : UNCHANGED RankOf(p)
  BY <1>1, <1>3, <1>4, <1>5 DEF RankOf, DeviceOf
<1>10. \A p \in Peers(r) : UNCHANGED <<Sent(r, p), Got(r, p)>>
  BY <1>1, <1>5 DEF Sent, Got
<1> QED
  BY <1>1, <1>6, <1>8, <1>9, <1>10, StepOfRank

(* The exchange ends: the update is queued behind every scatter.             *)
LEMMA FinishStep ==
  ASSUME Inv, NEW r \in Ranks, Finish(r)
  PROVE  Inv'
<1> USE DEF Finish, Running, negotiation, fieldsOnDevice, buffers
<1> DEFINE s == stream[r]
           e == Op(IF inner[r] THEN "shell" ELSE "whole")
<1>1. s \in Seq(Ops) /\ e \in Ops /\ e.op \in {"shell", "whole"} /\ round[r] \in Nat
  BY RankTypes, OpsMembers
<1>2. stream' = [stream EXCEPT ![r] = s \o <<e>>]
  BY DEF Enqueue
<1>3. \A q \in Peers(r) : e # HostToDevice(q) /\ \A slot \in Slots : e # Scatter(q, slot)
  BY DEF Op, HostToDevice, Scatter
<1>4. RankInv(r) /\ pc[r] = "wait" /\ ~ error[r]
  BY InvParts
<1>5. \A q \in Peers(r) : sendReq[r][q] = "done" /\ recvReq[r][q] = "drained"
  BY DEF RequestsDrained
<1>6. s \o <<e>> = Append(s, e)
  BY <1>1, AppendFacts
<1>7. Ordered(s) /\ ~ HasUpdate(s) /\ ~ HasGather(s) /\ edge[r] = round[r]
  BY <1>4 DEF RankInv, QueueInv
<1> HIDE DEF s, e
<1>8. /\ Append(s, e) \in Seq(Ops) /\ Ordered(Append(s, e))
      /\ HasUpdate(Append(s, e)) /\ ~ HasGather(Append(s, e))
  BY <1>1, <1>7, QueueAppend DEF IsUpdate, IsReceive
<1>9. /\ stream' \in [Ranks -> Seq(Ops)] /\ stream'[r] = Append(s, e)
      /\ \A p \in Ranks \ {r} : stream'[p] = stream[p]
  BY <1>2, <1>6, <1>8 DEF Inv, DeviceType
<1>10. /\ PeerMap(sendReq', {"none", "posted", "done"})
       /\ \A q \in Peers(r) : sendReq'[r][q] = "none"
       /\ \A p \in Ranks \ {r} : sendReq'[p] = sendReq[p]
  <2>1. /\ PeerMap(sendReq, {"none", "posted", "done"})
        /\ sendReq' = [sendReq EXCEPT ![r] = [q \in Peers(r) |-> "none"]]
    BY DEF Inv, MpiType
  <2> QED
    BY <2>1 DEF PeerMap
<1>11. /\ PeerMap(recvReq', {"none", "posted", "done", "drained"})
       /\ \A q \in Peers(r) : recvReq'[r][q] = "none"
       /\ \A p \in Ranks \ {r} : recvReq'[p] = recvReq[p]
  <2>1. /\ PeerMap(recvReq, {"none", "posted", "done", "drained"})
        /\ recvReq' = [recvReq EXCEPT ![r] = [q \in Peers(r) |-> "none"]]
    BY DEF Inv, MpiType
  <2> QED
    BY <2>1 DEF PeerMap
<1>12. /\ pc'[r] = "idle" /\ round'[r] = round[r] + 1 /\ mode'[r].slot = 0
       /\ \A p \in Ranks \ {r} : UNCHANGED <<pc[p], round[p], mode[p]>>
  BY DEF Inv, HostType
<1>13. HostType' /\ DeviceType' /\ MpiType'
  <2>1. mode' \in [Ranks -> [cold : BOOLEAN, eager : BOOLEAN, slot : Slots]]
    BY DEF Inv, HostType, Slots
  <2>2. next' \in [Ranks -> Slots]
    BY DEF Inv, HostType, Slots
  <2>3. HostType'
    BY <2>1, <2>2, <1>1 DEF Inv, HostType
  <2> QED
    BY <2>3, <1>9, <1>10, <1>11 DEF Inv, DeviceType, MpiType
<1>14. RankInv(r)'
  <2>1. HostInv(r)'
    BY <1>4, <1>10, <1>11, <1>12 DEF RankInv, HostInv
  <2>2. QueueInv(r)' /\ SendInv(r)'
    <3>1. edge'[r] = round'[r] - 1
      BY <1>1, <1>7, <1>12
    <3> QED
      BY <3>1, <1>8, <1>9, <1>12 DEF QueueInv, SendInv
  <2>3. ASSUME NEW q \in Peers(r) PROVE ReceiveInv(r, q)'
    <3>1. Scatters(s, q) \/ halo[r][q] = edge[r]
      BY <1>4, <1>5 DEF RankInv, ReceiveInv, s
    <3>2. Carries(s, q, recvHost[r][q], recvDevice[r][q], edge[r])
      BY <1>4 DEF RankInv, ReceiveInv, s
    <3>3. /\ Carries(Append(s, e), q, recvHost[r][q], recvDevice[r][q], edge[r])
          /\ Scatters(Append(s, e), q) <=> Scatters(s, q)
      BY <1>1, <1>3, <3>2, CarriesAppend
    <3> QED
      BY <1>9, <1>11, <1>12, <3>1, <3>3 DEF ReceiveInv
  <2> QED
    BY <2>1, <2>2, <2>3 DEF RankInv
<1>15. \A p \in Ranks \ {r} : UNCHANGED RankOf(p)
  BY <1>9, <1>10, <1>11, <1>12 DEF RankOf, DeviceOf
<1>16. \A q \in Peers(r) : UNCHANGED <<Sent(r, q), Got(r, q)>>
  BY <1>1, <1>5, <1>10, <1>11, <1>12 DEF Sent, Got
<1> QED
  BY <1>13, <1>14, <1>15, <1>16, StepOfRank

(* What the device changes when it executes its oldest operation.            *)
LEMMA ExecuteFacts ==
  ASSUME Inv, NEW r \in Ranks, Execute(r), NEW op, op = Head(stream[r])
  PROVE  /\ op \in Ops /\ stream[r] # <<>>
         /\ stream' \in [Ranks -> Seq(Ops)] /\ stream'[r] = Tail(stream[r])
         /\ sendDevice' \in [Ranks -> Nat]
         /\ sendDevice'[r] = IF op.op = "gather" THEN edge[r] ELSE sendDevice[r]
         /\ edge' \in [Ranks -> Nat]
         /\ edge'[r] = IF IsUpdate(op) THEN edge[r] + 1 ELSE edge[r]
         /\ PeerMap(recvDevice', [Slots -> Nat])
         /\ \A q \in Peers(r), slot \in Slots :
              recvDevice'[r][q][slot] = IF op = HostToDevice(q) /\ slot = 0
                                        THEN recvHost[r][q] ELSE recvDevice[r][q][slot]
         /\ PeerMap(halo', Nat) /\ PeerMap(used', Nat)
         /\ \A q \in Peers(r) :
              halo'[r][q] = IF op.op = "scatter" /\ op.peer = q
                            THEN recvDevice[r][q][op.slot] ELSE halo[r][q]
         /\ \A p \in Ranks \ {r} :
              UNCHANGED <<stream[p], sendDevice[p], edge[p], recvDevice[p], halo[p]>>
         /\ UNCHANGED <<negotiation, host, sendHost, recvHost, mpi, aborted>>
<1>1. /\ stream[r] # <<>> /\ stream' = [stream EXCEPT ![r] = Tail(stream[r])]
      /\ UNCHANGED <<negotiation, host, sendHost, recvHost, mpi, aborted>>
  BY DEF Execute
<1>2. /\ sendDevice' = IF op.op = "gather"
                       THEN [sendDevice EXCEPT ![r] = edge[r]] ELSE sendDevice
      /\ recvDevice' = IF op.op = "h2d"
                       THEN [recvDevice EXCEPT ![r][op.peer][op.slot] = recvHost[r][op.peer]]
                       ELSE recvDevice
      /\ halo' = IF op.op = "scatter"
                 THEN [halo EXCEPT ![r][op.peer] = recvDevice[r][op.peer][op.slot]]
                 ELSE halo
      /\ edge' = IF IsUpdate(op) THEN [edge EXCEPT ![r] = edge[r] + 1] ELSE edge
      /\ used' = IF IsUpdate(op) THEN [used EXCEPT ![r] = halo[r]] ELSE used
  BY DEF Execute, IsUpdate
<1>3. stream[r] \in Seq(Ops) /\ op \in Ops /\ Tail(stream[r]) \in Seq(Ops)
  BY <1>1, RankTypes, TailFacts
<1>4. /\ stream' \in [Ranks -> Seq(Ops)] /\ stream'[r] = Tail(stream[r])
      /\ \A p \in Ranks \ {r} : stream'[p] = stream[p]
  BY <1>1, <1>3 DEF Inv, DeviceType
<1>5. /\ sendDevice' \in [Ranks -> Nat]
      /\ sendDevice'[r] = IF op.op = "gather" THEN edge[r] ELSE sendDevice[r]
      /\ \A p \in Ranks \ {r} : sendDevice'[p] = sendDevice[p]
  BY <1>2 DEF Inv, DeviceType
<1>6. /\ edge' \in [Ranks -> Nat]
      /\ edge'[r] = IF IsUpdate(op) THEN edge[r] + 1 ELSE edge[r]
      /\ \A p \in Ranks \ {r} : edge'[p] = edge[p]
  BY <1>2 DEF Inv, DeviceType
<1>7. PeerMap(used', Nat)
  BY <1>2 DEF Inv, DeviceType, PeerMap
<1>8. /\ PeerMap(recvDevice', [Slots -> Nat])
      /\ \A q \in Peers(r), slot \in Slots :
           recvDevice'[r][q][slot] = IF op = HostToDevice(q) /\ slot = 0
                                     THEN recvHost[r][q] ELSE recvDevice[r][q][slot]
      /\ \A p \in Ranks \ {r} : recvDevice'[p] = recvDevice[p]
  <2>1. PeerMap(recvDevice, [Slots -> Nat]) /\ PeerMap(recvHost, Nat)
    BY DEF Inv, DeviceType
  <2>2. \A q \in Peers(r) : q \in Ranks
    BY DEF Peers
  <2>3. CASE op.op = "h2d"
    <3>1. PICK c \in Ranks : op = HostToDevice(c) /\ op.peer = c /\ op.slot = 0
      BY <1>3, <2>3, OpFacts
    <3>2. \A q \in Ranks : op = HostToDevice(q) => q = c
      BY <3>1, OpsMembers
    <3>3. recvDevice' = [recvDevice EXCEPT ![r][c][0] = recvHost[r][c]]
      BY <1>2, <2>3, <3>1
    <3>4. /\ DOMAIN recvDevice = Ranks /\ recvDevice[r] \in [Peers(r) -> [Slots -> Nat]]
          /\ \A q \in Peers(r) : recvHost[r][q] \in Nat
      BY <2>1 DEF PeerMap
    <3>5. /\ \A p \in Ranks \ {r} : recvDevice'[p] = recvDevice[p]
          /\ DOMAIN recvDevice' = Ranks
          /\ recvDevice'[r] = [recvDevice[r] EXCEPT ![c][0] = recvHost[r][c]]
      BY <3>3, <3>4
    <3>6. /\ recvDevice'[r] \in [Peers(r) -> [Slots -> Nat]]
          /\ \A q \in Peers(r), slot \in Slots :
               recvDevice'[r][q][slot] = IF q = c /\ slot = 0
                                         THEN recvHost[r][q] ELSE recvDevice[r][q][slot]
      <4>1. ASSUME NEW q \in Peers(r)
            PROVE  recvDevice'[r][q] = IF q = c THEN [recvDevice[r][q] EXCEPT ![0] = recvHost[r][q]]
                                                ELSE recvDevice[r][q]
        BY <3>4, <3>5
      <4>2. ASSUME NEW q \in Peers(r)
            PROVE  /\ recvDevice'[r][q] \in [Slots -> Nat]
                   /\ \A slot \in Slots :
                        recvDevice'[r][q][slot] = IF q = c /\ slot = 0
                                                  THEN recvHost[r][q] ELSE recvDevice[r][q][slot]
        <5>1. recvDevice[r][q] \in [Slots -> Nat] /\ recvHost[r][q] \in Nat
          BY <3>4
        <5> QED
          BY <4>1, <5>1 DEF Slots
      <4>3. recvDevice'[r] = [q \in Peers(r) |-> recvDevice'[r][q]]
        BY <3>4, <3>5
      <4> QED
        BY <4>2, <4>3
    <3>7. PeerMap(recvDevice', [Slots -> Nat])
      BY <2>1, <3>5, <3>6 DEF PeerMap
    <3> QED
      BY <2>2, <3>1, <3>2, <3>5, <3>6, <3>7
  <2>4. CASE op.op # "h2d"
    BY <1>2, <2>1, <2>2, <2>4, OpsMembers
  <2> QED
    BY <2>3, <2>4
<1>9. /\ PeerMap(halo', Nat)
      /\ \A q \in Peers(r) :
           halo'[r][q] = IF op.op = "scatter" /\ op.peer = q
                         THEN recvDevice[r][q][op.slot] ELSE halo[r][q]
      /\ \A p \in Ranks \ {r} : halo'[p] = halo[p]
  <2>1. PeerMap(recvDevice, [Slots -> Nat]) /\ PeerMap(halo, Nat)
    BY DEF Inv, DeviceType
  <2>2. CASE op.op = "scatter"
    <3>1. op.peer \in Ranks /\ op.slot \in Slots
      BY <1>3, <2>2, OpFacts
    <3>2. halo' = [halo EXCEPT ![r][op.peer] = recvDevice[r][op.peer][op.slot]]
      BY <1>2, <2>2
    <3>3. /\ DOMAIN halo = Ranks /\ halo[r] \in [Peers(r) -> Nat]
          /\ \A q \in Peers(r) : recvDevice[r][q] \in [Slots -> Nat]
      BY <2>1 DEF PeerMap
    <3>4. /\ \A p \in Ranks \ {r} : halo'[p] = halo[p]
          /\ DOMAIN halo' = Ranks
          /\ halo'[r] = [halo[r] EXCEPT ![op.peer] = recvDevice[r][op.peer][op.slot]]
      BY <3>2, <3>3
    <3>5. /\ halo'[r] \in [Peers(r) -> Nat]
          /\ \A q \in Peers(r) : halo'[r][q] = IF op.peer = q
                                               THEN recvDevice[r][q][op.slot] ELSE halo[r][q]
      <4>1. ASSUME NEW q \in Peers(r)
            PROVE  /\ halo'[r][q] = IF op.peer = q
                                    THEN recvDevice[r][q][op.slot] ELSE halo[r][q]
                   /\ halo'[r][q] \in Nat
        <5>1. recvDevice[r][q] \in [Slots -> Nat] /\ halo[r][q] \in Nat
          BY <3>3
        <5>2. halo'[r][q] = IF op.peer = q THEN recvDevice[r][op.peer][op.slot] ELSE halo[r][q]
          BY <3>3, <3>4
        <5> QED
          BY <3>1, <5>1, <5>2
      <4>2. halo'[r] = [q \in Peers(r) |-> halo'[r][q]]
        BY <3>3, <3>4
      <4> QED
        BY <4>1, <4>2
    <3>6. PeerMap(halo', Nat)
      BY <2>1, <3>4, <3>5 DEF PeerMap
    <3> QED
      BY <2>2, <3>4, <3>5, <3>6
  <2>3. CASE op.op # "scatter"
    BY <1>2, <2>1, <2>3
  <2> QED
    BY <2>2, <2>3
<1> QED
  BY <1>1, <1>3, <1>4, <1>5, <1>6, <1>7, <1>8, <1>9

(* The oldest operation of a queue: the source of a copy, or of a scatter,   *)
(* holds the value, and a scatter that is left is the oldest or a later one. *)
LEMMA CarriesHead ==
  ASSUME NEW s \in Seq(Ops), s # <<>>, NEW q, NEW pinned, NEW slots, NEW v,
         Carries(s, q, pinned, slots, v)
  PROVE  /\ Head(s) = HostToDevice(q) => pinned = v
         /\ \A slot \in Slots : Head(s) = Scatter(q, slot) => slots[slot] = v
         /\ Scatters(s, q) =>
              Scatters(Tail(s), q) \/ \E slot \in Slots : Head(s) = Scatter(q, slot)
<1>1. /\ Len(s) \in Nat /\ Len(s) >= 1 /\ Len(Tail(s)) = Len(s) - 1
      /\ \A i \in 1..(Len(s) - 1) : Tail(s)[i] = s[i + 1]
      /\ Head(s) = s[1]
  BY TailFacts
<1>2. /\ 1 \in Places(s)
      /\ \A i \in Places(s) : i = 1 \/ (i - 1 \in Places(Tail(s)) /\ Tail(s)[i - 1] = s[i])
  BY <1>1 DEF Places
<1>3. Head(s) = HostToDevice(q) => pinned = v
  BY <1>1, <1>2 DEF Carries
<1>4. \A slot \in Slots : Head(s) = Scatter(q, slot) => slots[slot] = v
  BY <1>1, <1>2 DEF Carries
<1>5. Scatters(s, q) =>
        Scatters(Tail(s), q) \/ \E slot \in Slots : Head(s) = Scatter(q, slot)
  BY <1>1, <1>2, ZenonT(40) DEF Scatters
<1> QED
  BY <1>3, <1>4, <1>5

(* The rest of a queue carries what the whole carried: an executed copy has  *)
(* put the value on the device.                                              *)
LEMMA CarriesTail ==
  ASSUME NEW s \in Seq(Ops), s # <<>>, NEW q, NEW pinned, NEW slots, NEW moved, NEW v,
         Carries(s, q, pinned, slots, v),
         \A slot \in Slots : \/ moved[slot] = slots[slot]
                             \/ Head(s) = HostToDevice(q) /\ moved[slot] = pinned,
         Head(s) = HostToDevice(q) => moved[0] = pinned
  PROVE  Carries(Tail(s), q, pinned, moved, v)
<1> DEFINE t == Tail(s)
<1>1. /\ Len(s) \in Nat /\ Len(s) >= 1 /\ Len(t) = Len(s) - 1
      /\ \A i \in 1..(Len(s) - 1) : t[i] = s[i + 1]
      /\ Head(s) = s[1]
  BY TailFacts
<1> HIDE DEF t
<1>2. Head(s) = HostToDevice(q) => pinned = v
  BY CarriesHead
<1>3. Carries(t, q, pinned, moved, v)
  <2> SUFFICES ASSUME NEW i \in Places(t)
               PROVE  /\ t[i] = HostToDevice(q) => pinned = v
                      /\ \A slot \in Slots : t[i] = Scatter(q, slot) =>
                           \/ slot = 0 /\ \E k \in 1..(i - 1) : t[k] = HostToDevice(q)
                           \/ moved[slot] = v
    BY DEF Carries
  <2>1. i \in 1..(Len(s) - 1) /\ i + 1 \in Places(s) /\ t[i] = s[i + 1]
    BY <1>1 DEF Places
  <2>2. t[i] = HostToDevice(q) => pinned = v
    BY <2>1 DEF Carries
  <2>3. ASSUME NEW slot \in Slots, t[i] = Scatter(q, slot)
        PROVE  \/ slot = 0 /\ \E k \in 1..(i - 1) : t[k] = HostToDevice(q)
               \/ moved[slot] = v
    <3>1. CASE slots[slot] = v
      BY <3>1, <1>2
    <3>2. CASE slot = 0 /\ \E k \in 1..((i + 1) - 1) : s[k] = HostToDevice(q)
      <4>1. PICK k \in 1..i : s[k] = HostToDevice(q)
        BY <2>1, <3>2
      <4>2. CASE k = 1
        BY <4>1, <4>2, <3>2, <1>1, <1>2
      <4>3. CASE k # 1
        <5>1. k - 1 \in 1..(i - 1) /\ k - 1 \in 1..(Len(s) - 1) /\ (k - 1) + 1 = k
          BY <4>3, <2>1, <1>1
        <5>2. t[k - 1] = s[k]
          BY <5>1, <1>1
        <5> QED
          BY <3>2, <4>1, <5>1, <5>2
      <4> QED
        BY <4>2, <4>3
    <3> QED
      BY <2>1, <2>3, <3>1, <3>2 DEF Carries
  <2> QED
    BY <2>2, <2>3
<1> QED
  BY <1>3 DEF t

(* The same for the queue of a device, when it executes its oldest operation. *)
LEMMA CarriesExecuted ==
  ASSUME Inv, NEW r \in Ranks, Execute(r), NEW q \in Peers(r)
  PROVE  /\ Carries(Tail(stream[r]), q, recvHost[r][q], recvDevice'[r][q], edge[r])
         /\ \A slot \in Slots :
              Head(stream[r]) = Scatter(q, slot) => recvDevice[r][q][slot] = edge[r]
         /\ Scatters(stream[r], q) =>
              \/ Scatters(Tail(stream[r]), q)
              \/ \E slot \in Slots : Head(stream[r]) = Scatter(q, slot)
<1>1. stream[r] \in Seq(Ops) /\ stream[r] # <<>>
  BY RankTypes DEF Execute
<1>2. Carries(stream[r], q, recvHost[r][q], recvDevice[r][q], edge[r])
  BY DEF Inv, ReceiveInv
<1>3. \A slot \in Slots :
        recvDevice'[r][q][slot] = IF Head(stream[r]) = HostToDevice(q) /\ slot = 0
                                  THEN recvHost[r][q] ELSE recvDevice[r][q][slot]
  BY ExecuteFacts
<1>4. \A slot \in Slots :
        \/ recvDevice'[r][q][slot] = recvDevice[r][q][slot]
        \/ Head(stream[r]) = HostToDevice(q) /\ recvDevice'[r][q][slot] = recvHost[r][q]
  BY <1>3
<1>5. Head(stream[r]) = HostToDevice(q) => recvDevice'[r][q][0] = recvHost[r][q]
  BY <1>3 DEF Slots
<1>6. Carries(Tail(stream[r]), q, recvHost[r][q], recvDevice'[r][q], edge[r])
  BY <1>1, <1>2, <1>4, <1>5, CarriesTail
<1> QED
  BY <1>1, <1>2, <1>6, CarriesHead

(* The device executes an operation.                                         *)
LEMMA ExecuteStep ==
  ASSUME Inv, NEW r \in Ranks, Execute(r)
  PROVE  Inv'
<1> DEFINE op == Head(stream[r])
           t == Tail(stream[r])
<1>1. /\ op \in Ops /\ stream[r] # <<>>
      /\ stream' \in [Ranks -> Seq(Ops)] /\ stream'[r] = t
      /\ sendDevice' \in [Ranks -> Nat]
      /\ sendDevice'[r] = IF op.op = "gather" THEN edge[r] ELSE sendDevice[r]
      /\ edge' \in [Ranks -> Nat]
      /\ edge'[r] = IF IsUpdate(op) THEN edge[r] + 1 ELSE edge[r]
      /\ PeerMap(recvDevice', [Slots -> Nat])
      /\ \A q \in Peers(r), slot \in Slots :
           recvDevice'[r][q][slot] = IF op = HostToDevice(q) /\ slot = 0
                                     THEN recvHost[r][q] ELSE recvDevice[r][q][slot]
      /\ PeerMap(halo', Nat) /\ PeerMap(used', Nat)
      /\ \A q \in Peers(r) :
           halo'[r][q] = IF op.op = "scatter" /\ op.peer = q
                         THEN recvDevice[r][q][op.slot] ELSE halo[r][q]
      /\ \A p \in Ranks \ {r} :
           UNCHANGED <<stream[p], sendDevice[p], edge[p], recvDevice[p], halo[p]>>
      /\ UNCHANGED <<negotiation, host, sendHost, recvHost, mpi, aborted>>
  BY ExecuteFacts
<1>2. stream[r] \in Seq(Ops) /\ RankInv(r) /\ edge[r] \in Nat /\ round[r] \in Nat
  BY RankTypes, InvParts
<1>3. /\ t \in Seq(Ops) /\ Ordered(t)
      /\ HasUpdate(stream[r]) <=> IsUpdate(op) \/ HasUpdate(t)
      /\ HasGather(stream[r]) <=> op.op = "gather" \/ HasGather(t)
      /\ \A q, slot : Uses(t, q, slot) => Uses(stream[r], q, slot)
      /\ IsUpdate(op) => /\ ~ HasUpdate(t)
                         /\ \A i \in Places(t) : ~ IsReceive(t[i])
      /\ op.op = "gather" => ~ HasUpdate(stream[r])
  BY <1>1, <1>2, QueueTail DEF RankInv, QueueInv
<1> HIDE DEF t
<1> USE DEF negotiation, host, mpi
<1>4. HostType' /\ DeviceType' /\ MpiType'
  BY <1>1 DEF Inv, HostType, DeviceType, MpiType
<1>5. RankInv(r)'
  <2>1. HostInv(r)'
    BY <1>1, <1>2 DEF RankInv, HostInv
  <2>2. QueueInv(r)'
    BY <1>1, <1>2, <1>3 DEF RankInv, QueueInv
  <2>3. SendInv(r)'
    BY <1>1, <1>2, <1>3 DEF RankInv, QueueInv, SendInv
  <2>4. ASSUME NEW q \in Peers(r) PROVE ReceiveInv(r, q)'
    <3>1. ReceiveInv(r, q) /\ HostInv(r) /\ QueueInv(r)
      BY <1>2 DEF RankInv
    <3>2. pc[r] \notin {"idle", "fence"} /\ recvReq[r][q] # "drained"
            => ~ Uses(stream'[r], q, mode[r].slot) /\ ~ Uses(stream[r], q, mode[r].slot)
      BY <1>1, <1>3, <3>1 DEF ReceiveInv
    <3>3. recvReq[r][q] = "done" => Bytes(r, q)' = round[r]
      <4> SUFFICES ASSUME recvReq[r][q] = "done" PROVE Bytes(r, q)' = round[r]
        OBVIOUS
      <4>1. ~ Uses(stream[r], q, mode[r].slot) /\ mode[r].slot \in Slots
        BY <3>1, <3>2, RankTypes DEF HostInv
      <4>2. op = HostToDevice(q) => mode[r].slot # 0
        <5>1. 1 \in Places(stream[r]) /\ stream[r][1] = op
          BY <1>1, <1>2, TailFacts DEF Places
        <5>2. q \in Ranks
          BY DEF Peers
        <5> QED
          BY <4>1, <5>1, <5>2, OpsMembers DEF Uses, IsReceive
      <4>3. Bytes(r, q) = round[r]
        BY <3>1 DEF ReceiveInv
      <4> QED
        BY <1>1, <4>1, <4>2, <4>3 DEF Bytes
    <3>4. /\ Carries(t, q, recvHost[r][q], recvDevice'[r][q], edge[r])
          /\ \A slot \in Slots : op = Scatter(q, slot) => recvDevice[r][q][slot] = edge[r]
          /\ Scatters(stream[r], q) =>
               Scatters(t, q) \/ \E slot \in Slots : op = Scatter(q, slot)
      BY CarriesExecuted DEF t
    <3>5. Carries(t, q, recvHost[r][q], recvDevice'[r][q], edge'[r])
      <4>1. CASE IsUpdate(op)
        <5>1. q \in Ranks
          BY DEF Peers
        <5>2. \A i \in Places(t) : /\ t[i] # HostToDevice(q)
                                   /\ \A slot \in Slots : t[i] # Scatter(q, slot)
          BY <1>3, <4>1, <5>1, OpsMembers DEF IsReceive
        <5> QED
          BY <5>2 DEF Carries
      <4>2. CASE ~ IsUpdate(op)
        BY <1>1, <3>4, <4>2
      <4> QED
        BY <4>1, <4>2
    <3>6. \/ pc[r] = "wait" /\ recvReq[r][q] = "drained" /\ ~ error[r]
          \/ HasUpdate(t)
          => Scatters(t, q) \/ halo'[r][q] = edge'[r]
      <4> SUFFICES ASSUME \/ pc[r] = "wait" /\ recvReq[r][q] = "drained" /\ ~ error[r]
                          \/ HasUpdate(t)
                   PROVE  Scatters(t, q) \/ halo'[r][q] = edge'[r]
        OBVIOUS
      <4>1. ~ IsUpdate(op) /\ edge'[r] = edge[r]
        BY <1>1, <1>3, <3>1 DEF QueueInv
      <4>2. Scatters(stream[r], q) \/ halo[r][q] = edge[r]
        BY <1>3, <3>1 DEF ReceiveInv
      <4>3. CASE op.op = "scatter" /\ op.peer = q
        <5>1. op.slot \in Slots /\ op = Scatter(q, op.slot)
          BY <1>1, <4>3, OpFacts
        <5> QED
          BY <1>1, <3>4, <4>1, <4>3, <5>1
      <4>4. CASE ~ (op.op = "scatter" /\ op.peer = q)
        <5>1. q \in Ranks
          BY DEF Peers
        <5>2. \A slot \in Slots : op # Scatter(q, slot)
          BY <4>4, <5>1, OpsMembers
        <5>3. halo'[r][q] = halo[r][q]
          BY <1>1, <4>4
        <5> QED
          BY <3>4, <4>1, <4>2, <5>2, <5>3
      <4> QED
        BY <4>3, <4>4
    <3> QED
      BY <1>1, <3>2, <3>3, <3>5, <3>6 DEF ReceiveInv
  <2> QED
    BY <2>1, <2>2, <2>3, <2>4 DEF RankInv
<1>6. \A p \in Ranks \ {r} : UNCHANGED RankOf(p)
  BY <1>1 DEF RankOf, DeviceOf
<1>7. \A q \in Peers(r) : UNCHANGED <<Sent(r, q), Got(r, q)>>
  BY <1>1 DEF Sent, Got
<1> QED
  BY <1>1, <1>4, <1>5, <1>6, <1>7, StepOfRank

(* A sent message is the next round: a posted send reads the bytes the       *)
(* gather of its exchange wrote.                                             *)
LEMMA TransmitStep ==
  ASSUME Inv, NEW r \in Ranks, NEW q \in Peers(r), Transmit(r, q)
  PROVE  Inv'
<1> DEFINE w == wire[r][q]
           v == IF transport = "pinned" THEN sendHost[r] ELSE sendDevice[r]
<1>1. /\ sendReq[r][q] = "posted"
      /\ wire' = [wire EXCEPT ![r][q] = Append(w, v)]
      /\ sendReq' = [sendReq EXCEPT ![r][q] = "done"]
      /\ UNCHANGED <<negotiation, host, stream, fieldsOnDevice, buffers, recvReq, aborted>>
  BY DEF Transmit
<1>2. RankInv(r) /\ round[r] \in Nat /\ w \in Seq(Nat)
  BY InvParts, RankTypes
<1>3. v = round[r] /\ pc[r] \in {"overlap", "wait"}
  <2>1. pc[r] \in {"overlap", "wait"}
    BY <1>1, <1>2, RankTypes DEF RankInv, HostInv
  <2> QED
    BY <1>2, <2>1 DEF RankInv, SendInv
<1>4. /\ Append(w, v) \in Seq(Nat) /\ Len(Append(w, v)) = Len(w) + 1 /\ Len(w) \in Nat
      /\ \A i \in 1..Len(w) : Append(w, v)[i] = w[i]
      /\ Append(w, v)[Len(w) + 1] = v
  BY <1>2, <1>3, AppendFacts
<1> HIDE DEF w, v
<1>5. /\ PeerMap(wire', Seq(Nat))
      /\ wire'[r][q] = Append(w, v)
      /\ \A p \in Peers(r) \ {q} : wire'[r][p] = wire[r][p]
      /\ \A p \in Ranks \ {r} : wire'[p] = wire[p]
  <2>1. PeerMap(wire, Seq(Nat))
    BY DEF Inv, MpiType
  <2> QED
    BY <1>1, <1>4, <2>1 DEF PeerMap
<1>6. /\ PeerMap(sendReq', {"none", "posted", "done"})
      /\ sendReq'[r][q] = "done"
      /\ \A p \in Peers(r) \ {q} : sendReq'[r][p] = sendReq[r][p]
      /\ \A p \in Ranks \ {r} : sendReq'[p] = sendReq[p]
  <2>1. PeerMap(sendReq, {"none", "posted", "done"})
    BY DEF Inv, MpiType
  <2> QED
    BY <1>1, <2>1 DEF PeerMap
<1> USE DEF negotiation, host, fieldsOnDevice, buffers
<1>7. HostType' /\ DeviceType' /\ MpiType'
  BY <1>1, <1>5, <1>6 DEF Inv, HostType, DeviceType, MpiType
<1>8. ASSUME NEW p \in Ranks PROVE RankInv(p)'
  <2>1. CASE p # r
    BY <1>1, <1>6, <2>1, InvParts, RankFrame DEF RankOf, DeviceOf
  <2>2. CASE p = r
    <3>1. HostInv(r)'
      BY <1>1, <1>2, <1>3, <1>6 DEF RankInv, HostInv
    <3>2. QueueInv(r)' /\ SendInv(r)'
      BY <1>1, <1>2 DEF RankInv, QueueInv, SendInv
    <3>3. ASSUME NEW c \in Peers(r) PROVE ReceiveInv(r, c)'
      <4>1. ReceiveInv(r, c)
        BY <1>2 DEF RankInv
      <4> QED
        BY <1>1, <4>1 DEF ReceiveInv, Bytes
    <3> QED
      BY <2>2, <3>1, <3>2, <3>3 DEF RankInv
  <2> QED
    BY <2>1, <2>2
<1>9. ASSUME NEW a \in Ranks, NEW b \in Peers(a) PROVE WireInv(a, b)'
  <2>1. WireInv(a, b) /\ UNCHANGED Got(b, a)
    BY <1>1 DEF Inv, Got
  <2>2. CASE a = r /\ b = q
    <3>1. Got(q, r) \in Nat /\ Sent(r, q) = round[r] /\ Sent(r, q)' = round[r] + 1
      <4>1. q \in Ranks
        BY DEF Peers
      <4> QED
        BY <1>1, <1>2, <1>6, <4>1, RankTypes DEF Got, Sent
    <3>2. /\ Len(w) = Sent(r, q) - Got(q, r)
          /\ \A i \in 1..Len(w) : w[i] = Got(q, r) + i - 1
      BY <2>1, <2>2 DEF WireInv, w
    <3>3. Len(wire'[r][q]) = Sent(r, q)' - Got(q, r)'
      BY <1>2, <1>4, <1>5, <2>1, <2>2, <3>1, <3>2
    <3>4. ASSUME NEW i \in 1..Len(wire'[r][q])
          PROVE  wire'[r][q][i] = Got(q, r)' + i - 1
      <4>1. CASE i \in 1..Len(w)
        BY <1>4, <1>5, <2>1, <2>2, <3>2, <4>1
      <4>2. CASE i = Len(w) + 1
        BY <1>2, <1>3, <1>4, <1>5, <2>1, <2>2, <3>1, <3>2, <4>2, SMTT(20)
      <4> QED
        BY <1>4, <1>5, <4>1, <4>2
    <3> QED
      BY <2>2, <3>3, <3>4 DEF WireInv
  <2>3. CASE ~ (a = r /\ b = q)
    <3>1. UNCHANGED <<wire[a][b], sendReq[a][b]>>
      BY <1>5, <1>6, <2>3
    <3> QED
      BY <1>1, <2>1, <3>1, WireFrame DEF Sent
  <2> QED
    BY <2>2, <2>3
<1> QED
  BY <1>7, <1>8, <1>9, InvParts DEF Inv, RankInv

(* A received message is the round the receive was posted in, and MPI writes *)
(* it where nothing in the queue looks.                                      *)
LEMMA DeliverStep ==
  ASSUME Inv, NEW r \in Ranks, NEW q \in Peers(r), Deliver(r, q)
  PROVE  Inv'
<1> DEFINE w == wire[q][r]
           m == mode[r].slot
<1>1. /\ recvReq[r][q] = "posted" /\ w # <<>>
      /\ IF transport = "pinned"
         THEN recvHost' = [recvHost EXCEPT ![r][q] = Head(w)] /\ UNCHANGED recvDevice
         ELSE recvDevice' = [recvDevice EXCEPT ![r][q][m] = Head(w)] /\ UNCHANGED recvHost
      /\ wire' = [wire EXCEPT ![q][r] = Tail(w)]
      /\ recvReq' = [recvReq EXCEPT ![r][q] = "done"]
      /\ UNCHANGED <<negotiation, host, stream, fieldsOnDevice, sendDevice, sendHost,
                     sendReq, aborted>>
  BY DEF Deliver
<1>2. q \in Ranks /\ r \in Peers(q) /\ q # r
  BY DEF Peers
<1>3. /\ RankInv(r) /\ ReceiveInv(r, q) /\ WireInv(q, r)
      /\ round[r] \in Nat /\ round[q] \in Nat /\ m \in Slots /\ w \in Seq(Nat)
  BY <1>2, InvParts, RankTypes DEF Inv
<1>4. /\ Tail(w) \in Seq(Nat) /\ Len(w) \in Nat /\ Len(w) >= 1 /\ Len(Tail(w)) = Len(w) - 1
      /\ \A i \in 1..(Len(w) - 1) : Tail(w)[i] = w[i + 1]
      /\ Head(w) = w[1] /\ Head(w) \in Nat
  BY <1>1, <1>3, TailFacts
<1>5. Got(r, q) = round[r]
  BY <1>1 , <1>3 DEF Got
<1>6. Head(w) = round[r]
  <2>1. w[1] = Got(r, q) + 1 - 1
    BY <1>3, <1>4 DEF WireInv, w
  <2> QED
    BY <1>3, <1>4, <1>5, <2>1
<1> HIDE DEF w, m
<1>7. /\ PeerMap(wire', Seq(Nat))
      /\ wire'[q][r] = Tail(w)
      /\ \A p \in Peers(q) \ {r} : wire'[q][p] = wire[q][p]
      /\ \A p \in Ranks \ {q} : wire'[p] = wire[p]
  <2>1. PeerMap(wire, Seq(Nat))
    BY DEF Inv, MpiType
  <2> QED
    BY <1>1, <1>2, <1>4, <2>1 DEF PeerMap
<1>8. /\ PeerMap(recvReq', {"none", "posted", "done", "drained"})
      /\ recvReq'[r][q] = "done"
      /\ \A p \in Peers(r) \ {q} : recvReq'[r][p] = recvReq[r][p]
      /\ \A p \in Ranks \ {r} : recvReq'[p] = recvReq[p]
  <2>1. PeerMap(recvReq, {"none", "posted", "done", "drained"})
    BY DEF Inv, MpiType
  <2> QED
    BY <1>1, <2>1 DEF PeerMap
<1>9. /\ PeerMap(recvHost', Nat)
      /\ recvHost'[r][q] = IF transport = "pinned" THEN round[r] ELSE recvHost[r][q]
      /\ \A p \in Peers(r) \ {q} : recvHost'[r][p] = recvHost[r][p]
      /\ \A p \in Ranks \ {r} : recvHost'[p] = recvHost[p]
  <2>1. PeerMap(recvHost, Nat)
    BY DEF Inv, DeviceType
  <2>2. CASE transport = "pinned"
    <3>1. recvHost' = [recvHost EXCEPT ![r][q] = round[r]]
      BY <1>1, <1>6, <2>2
    <3> QED
      BY <1>3, <2>1, <2>2, <3>1 DEF PeerMap
  <2>3. CASE transport # "pinned"
    BY <1>1, <2>1, <2>3
  <2> QED
    BY <2>2, <2>3
<1>10. /\ PeerMap(recvDevice', [Slots -> Nat])
       /\ \A slot \in Slots :
            recvDevice'[r][q][slot] = IF transport # "pinned" /\ slot = m
                                      THEN round[r] ELSE recvDevice[r][q][slot]
       /\ \A p \in Peers(r) \ {q} : recvDevice'[r][p] = recvDevice[r][p]
       /\ \A p \in Ranks \ {r} : recvDevice'[p] = recvDevice[p]
  <2>1. PeerMap(recvDevice, [Slots -> Nat])
    BY DEF Inv, DeviceType
  <2>2. CASE transport = "pinned"
    BY <1>1, <2>1, <2>2
  <2>3. CASE transport # "pinned"
    <3>1. recvDevice' = [recvDevice EXCEPT ![r][q][m] = round[r]]
      BY <1>1, <1>6, <2>3
    <3>2. DOMAIN recvDevice = Ranks /\ \A p \in Ranks : recvDevice[p] \in [Peers(p) -> [Slots -> Nat]]
      BY <2>1 DEF PeerMap
    <3>3. /\ recvDevice'[r] = [recvDevice[r] EXCEPT ![q] = [recvDevice[r][q] EXCEPT ![m] = round[r]]]
          /\ \A p \in Ranks \ {r} : recvDevice'[p] = recvDevice[p]
          /\ DOMAIN recvDevice' = Ranks
      BY <3>1, <3>2
    <3>4. recvDevice[r][q] \in [Slots -> Nat]
      BY <3>2
    <3>5. [recvDevice[r][q] EXCEPT ![m] = round[r]] \in [Slots -> Nat]
      BY <1>3, <3>4
    <3>6. /\ recvDevice'[r] \in [Peers(r) -> [Slots -> Nat]]
          /\ recvDevice'[r][q] = [recvDevice[r][q] EXCEPT ![m] = round[r]]
          /\ \A p \in Peers(r) \ {q} : recvDevice'[r][p] = recvDevice[r][p]
      BY <3>2, <3>3, <3>5
    <3>7. PeerMap(recvDevice', [Slots -> Nat])
      BY <3>2, <3>3, <3>6 DEF PeerMap
    <3> QED
      BY <1>3, <2>3, <3>3, <3>4, <3>6, <3>7
  <2> QED
    BY <2>2, <2>3
<1> USE DEF negotiation, host, fieldsOnDevice
<1>11. HostType' /\ DeviceType' /\ MpiType'
  BY <1>1, <1>7, <1>8, <1>9, <1>10 DEF Inv, HostType, DeviceType, MpiType
<1>12. pc[r] \notin {"idle", "fence"} /\ transport # "none"
  BY <1>1, <1>3 DEF RankInv, HostInv
<1>13. RankInv(r)'
  <2>1. HostInv(r)'
    BY <1>1, <1>3, <1>8 DEF RankInv, HostInv
  <2>2. QueueInv(r)' /\ SendInv(r)'
    BY <1>1, <1>3 DEF RankInv, QueueInv, SendInv
  <2>3. ASSUME NEW p \in Peers(r) PROVE ReceiveInv(r, p)'
    <3>1. ReceiveInv(r, p)
      BY <1>3 DEF RankInv
    <3>2. CASE p # q
      BY <1>1, <1>8, <1>9, <1>10, <3>1, <3>2 DEF ReceiveInv, Bytes
    <3>3. CASE p = q
      <4>1. ~ Uses(stream[r], q, m)
        BY <1>1, <1>3, <1>12 DEF ReceiveInv, m
      <4>2. Bytes(r, q)' = round[r]
        BY <1>1, <1>3, <1>9, <1>10 DEF Bytes, m
      <4>3. Carries(stream[r], q, recvHost[r][q], recvDevice[r][q], edge[r])
        BY <1>3 DEF ReceiveInv
      <4>4. Carries(stream[r], q, recvHost'[r][q], recvDevice'[r][q], edge[r])
        <5> SUFFICES ASSUME NEW i \in Places(stream[r])
                     PROVE  /\ stream[r][i] = HostToDevice(q) => recvHost'[r][q] = edge[r]
                            /\ \A slot \in Slots : stream[r][i] = Scatter(q, slot) =>
                                 \/ /\ slot = 0
                                    /\ \E k \in 1..(i - 1) : stream[r][k] = HostToDevice(q)
                                 \/ recvDevice'[r][q][slot] = edge[r]
          BY DEF Carries
        <5>1. /\ stream[r][i] = HostToDevice(q) => m # 0
              /\ stream[r][i] # Scatter(q, m)
          BY <1>2, <1>3, <4>1, OpsMembers DEF Uses, IsReceive
        <5>2. transport = "pinned" => m = 0
          BY <1>3 DEF RankInv, HostInv, m
        <5>3. stream[r][i] = HostToDevice(q) => recvHost'[r][q] = edge[r]
          BY <1>9, <4>3, <5>1, <5>2 DEF Carries
        <5>4. \A slot \in Slots : stream[r][i] = Scatter(q, slot) =>
                \/ slot = 0 /\ \E k \in 1..(i - 1) : stream[r][k] = HostToDevice(q)
                \/ recvDevice'[r][q][slot] = edge[r]
          BY <1>10, <4>3, <5>1 DEF Carries
        <5> QED
          BY <5>3, <5>4
      <4> QED
        BY <1>1, <1>8, <3>1, <3>3, <4>1, <4>2, <4>4 DEF ReceiveInv, m
    <3> QED
      BY <3>2, <3>3
  <2> QED
    BY <2>1, <2>2, <2>3 DEF RankInv
<1>14. ASSUME NEW p \in Ranks PROVE RankInv(p)'
  <2>1. CASE p # r
    BY <1>1, <1>8, <1>9, <1>10, <2>1, InvParts, RankFrame DEF RankOf, DeviceOf
  <2> QED
    BY <1>13, <2>1
<1>15. ASSUME NEW a \in Ranks, NEW b \in Peers(a) PROVE WireInv(a, b)'
  <2>1. WireInv(a, b) /\ UNCHANGED Sent(a, b) /\ b \in Ranks /\ a \in Peers(b)
    BY <1>1 DEF Inv, Sent, Peers
  <2>2. CASE a = q /\ b = r
    <3>1. Got(r, q)' = round[r] + 1 /\ Sent(q, r) \in Nat
      BY <1>1, <1>3, <1>8 DEF Got, Sent
    <3>2. /\ Len(w) = Sent(q, r) - round[r]
          /\ \A i \in 1..Len(w) : w[i] = round[r] + i - 1
      BY <1>3, <1>5 DEF WireInv, w
    <3>3. Len(wire'[q][r]) = Sent(q, r)' - Got(r, q)'
      BY <1>3, <1>4, <1>7, <2>1, <2>2, <3>1, <3>2
    <3>4. ASSUME NEW i \in 1..Len(wire'[q][r])
          PROVE  wire'[q][r][i] = Got(r, q)' + i - 1
      <4>1. i \in 1..(Len(w) - 1) /\ i + 1 \in 1..Len(w)
        BY <1>4, <1>7
      <4>2. wire'[q][r][i] = w[i + 1] /\ w[i + 1] = round[r] + (i + 1) - 1
        BY <1>4, <1>7, <3>2, <4>1
      <4>3. i \in Int /\ round[r] \in Int
        BY <1>3, <1>4, <4>1
      <4>4. round[r] + (i + 1) - 1 = (round[r] + 1) + i - 1
        BY <4>3
      <4> QED
        BY <3>1, <4>2, <4>4
    <3> QED
      BY <2>2, <3>3, <3>4 DEF WireInv
  <2>3. CASE ~ (a = q /\ b = r)
    <3>1. UNCHANGED <<wire[a][b], recvReq[b][a]>>
      BY <1>7, <1>8, <2>1, <2>3
    <3> QED
      BY <1>1, <2>1, <3>1, WireFrame DEF Got
  <2> QED
    BY <2>2, <2>3
<1> QED
  BY <1>11, <1>14, <1>15, InvParts DEF Inv, RankInv

(* No step breaks the invariant.                                             *)
LEMMA NextInv ==
  ASSUME Inv, [Next]_vars
  PROVE  Inv'
<1>1. CASE NegotiateTransport
  BY <1>1, NegotiateStep
<1>2. ASSUME NEW r \in Ranks, Begin(r) PROVE Inv'
  BY <1>2, BeginStep
<1>3. ASSUME NEW r \in Ranks, HostStep(r) PROVE Inv'
  <2>1. CASE Fence(r)
    BY <2>1, FenceStep
  <2>2. CASE Launch(r)
    BY <2>2, LaunchStep
  <2>3. CASE PostRequests(r)
    BY <2>3, PostRequestsStep
  <2>4. CASE Overlap(r)
    BY <2>4, OverlapStep
  <2>5. CASE Finish(r)
    BY <2>5, FinishStep
  <2>6. ASSUME NEW q \in Peers(r), ReceiveCallback(r, q) PROVE Inv'
    BY <2>6, CallbackStep
  <2> QED
    BY <1>3, <2>1, <2>2, <2>3, <2>4, <2>5, <2>6 DEF HostStep
<1>4. ASSUME UNCHANGED <<negotiation, host, stream, fieldsOnDevice, buffers, mpi>>,
             aborted' \in BOOLEAN
      PROVE  Inv'
  <2> USE DEF negotiation, host, fieldsOnDevice, buffers, mpi
  <2>1. HostType' /\ DeviceType' /\ MpiType'
    BY <1>4 DEF Inv, HostType, DeviceType, MpiType
  <2>2. ASSUME NEW r \in Ranks PROVE RankInv(r)'
    BY <1>4, InvParts, RankFrame DEF RankOf, DeviceOf
  <2>3. ASSUME NEW r \in Ranks, NEW q \in Peers(r) PROVE WireInv(r, q)'
    BY <1>4, InvParts, WireFrame DEF Sent, Got
  <2> QED
    BY <2>1, <2>2, <2>3, InvParts DEF Inv, RankInv
<1>5. ASSUME NEW r \in Ranks, Fail(r) PROVE Inv'
  BY <1>4, <1>5 DEF Fail
<1>6. ASSUME NEW r \in Ranks, Execute(r) PROVE Inv'
  BY <1>6, ExecuteStep
<1>7. ASSUME NEW r \in Ranks, NEW q \in Peers(r), Transmit(r, q) PROVE Inv'
  BY <1>7, TransmitStep
<1>8. ASSUME NEW r \in Ranks, NEW q \in Peers(r), Deliver(r, q) PROVE Inv'
  BY <1>8, DeliverStep
<1>9. CASE UNCHANGED vars
  BY <1>4, <1>9 DEF vars, Inv, HostType
<1> QED
  BY <1>1, <1>2, <1>3, <1>5, <1>6, <1>7, <1>8, <1>9 DEF Next, Ended

(* Before the negotiation nothing is queued, posted or sent.                 *)
LEMMA InitInv ==
  ASSUME Init
  PROVE  Inv
<1> USE DEF Init
<1>1. HostType
  BY DEF HostType, Slots
<1>2. /\ PeerMap(halo, Nat) /\ PeerMap(used, Nat) /\ PeerMap(recvHost, Nat)
      /\ PeerMap(recvDevice, [Slots -> Nat])
  BY DEF PeerMap
<1>3. DeviceType
  BY <1>2, EmptySeq DEF DeviceType
<1>4. MpiType
  BY EmptySeq DEF MpiType, PeerMap
<1>5. /\ Places(<<>>) = {} /\ ~ HasUpdate(<<>>) /\ ~ HasGather(<<>>) /\ Ordered(<<>>)
      /\ \A q, slot : ~ Uses(<<>>, q, slot)
      /\ \A q, pinned, slots, v : Carries(<<>>, q, pinned, slots, v)
  <2>1. Places(<<>>) = {}
    BY DEF Places
  <2> QED
    BY <2>1 DEF HasUpdate, HasGather, Ordered, Uses, Carries
<1>6. ASSUME NEW r \in Ranks PROVE RankInv(r)
  <2>1. HostInv(r)
    BY DEF HostInv
  <2>2. QueueInv(r) /\ SendInv(r)
    BY <1>5 DEF QueueInv, SendInv
  <2>3. ASSUME NEW q \in Peers(r) PROVE ReceiveInv(r, q)
    BY <1>5 DEF ReceiveInv
  <2> QED
    BY <2>1, <2>2, <2>3 DEF RankInv
<1>7. ASSUME NEW r \in Ranks, NEW q \in Peers(r) PROVE WireInv(r, q)
  <2>1. r \in Peers(q) /\ q \in Ranks
    BY DEF Peers
  <2> QED
    BY <2>1, EmptySeq DEF WireInv, Sent, Got
<1> QED
  BY <1>1, <1>3, <1>4, <1>6, <1>7, InvParts

(* The invariant holds of every behaviour.                                   *)
THEOREM Invariance == Spec => []Inv
<1>1. Init => Inv
  BY InitInv
<1>2. Inv /\ [Next]_vars => Inv'
  BY NextInv
<1> QED
  BY <1>1, <1>2, PTL DEF Spec

-----------------------------------------------------------------------------
(* What follows for the properties of BoundaryExchange.                      *)

(* While MPI may write received bytes, or has written bytes no callback has  *)
(* seen, no operation queued on the device reads or writes them, for any     *)
(* number of ranks: the fence in boundary_exchange_synchronize is enough.    *)
THEOREM ReceiveBuffers == Spec => []ReceiveBytesAreFree
<1>1. ASSUME Inv PROVE ReceiveBytesAreFree
  <2> SUFFICES ASSUME NEW r \in Ranks, NEW q \in Peers(r),
                      recvReq[r][q] \in {"posted", "done"}, NEW op \in Queued(r),
                      op.op \in {"h2d", "scatter"}, op.peer = q, op.slot = mode[r].slot
               PROVE  FALSE
    BY DEF ReceiveBytesAreFree
  <2>1. RankInv(r) /\ ReceiveInv(r, q)
    BY <1>1, InvParts DEF RankInv
  <2>2. pc[r] \notin {"idle", "fence"}
    BY <2>1 DEF RankInv, HostInv
  <2>3. ~ Uses(stream[r], q, mode[r].slot)
    BY <2>1, <2>2 DEF ReceiveInv
  <2>4. PICK i \in Places(stream[r]) : op = stream[r][i]
    BY <1>1, RankTypes, LenProperties DEF Queued, Places
  <2> QED
    BY <2>3, <2>4 DEF Uses, IsReceive
<1> QED
  BY <1>1, Invariance, PTL

(* While MPI may read the bytes of a send, no gather that would change them  *)
(* is queued, and they are the values of the exchange the rank is in.        *)
THEOREM SendBuffers == Spec => []SendBytesAreStable
<1>1. ASSUME Inv PROVE SendBytesAreStable
  <2> SUFFICES ASSUME NEW r \in Ranks, NEW q \in Peers(r), sendReq[r][q] = "posted"
               PROVE  /\ Op("gather") \notin Queued(r)
                      /\ (IF transport = "pinned" THEN sendHost[r] ELSE sendDevice[r]) = round[r]
    BY DEF SendBytesAreStable
  <2>1. RankInv(r) /\ pc[r] \in {"overlap", "wait"}
    BY <1>1, InvParts, RankTypes DEF RankInv, HostInv
  <2>2. ~ HasGather(stream[r])
    BY <2>1 DEF RankInv, QueueInv
  <2>3. Op("gather") \notin Queued(r)
    <3> SUFFICES ASSUME Op("gather") \in Queued(r) PROVE FALSE
      OBVIOUS
    <3>1. PICK i \in Places(stream[r]) : stream[r][i] = Op("gather")
      BY <1>1, RankTypes, LenProperties DEF Queued, Places
    <3> QED
      BY <2>2, <3>1, OpsMembers DEF HasGather
  <2> QED
    BY <2>1, <2>3 DEF RankInv, SendInv
<1> QED
  BY <1>1, Invariance, PTL

(* An update uses the halo values of its own step: when the device executes  *)
(* it, every halo value is the rank's own number of updates, and no peer is  *)
(* behind.                                                                   *)
LEMMA UpdateIsCurrent ==
  ASSUME Inv, NEW r \in Ranks, stream[r] # <<>>, IsUpdate(Head(stream[r])),
         NEW q \in Peers(r)
  PROVE  halo[r][q] = edge[r] /\ edge[q] >= edge[r]
<1>1. /\ q \in Ranks /\ r \in Peers(q)
      /\ RankInv(r) /\ ReceiveInv(r, q) /\ RankInv(q) /\ WireInv(q, r)
  BY InvParts DEF RankInv, Peers
<1>2. /\ stream[r] \in Seq(Ops) /\ round[r] \in Nat /\ round[q] \in Nat
      /\ edge[r] \in Nat /\ edge[q] \in Nat /\ wire[q][r] \in Seq(Nat)
      /\ sendReq[q][r] \in {"none", "posted", "done"}
  BY <1>1, RankTypes
<1>3. /\ HasUpdate(stream[r])
      /\ \A i \in Places(stream[r]) : ~ IsReceive(stream[r][i])
  BY <1>1, <1>2, QueueTail DEF RankInv, QueueInv
<1>4. ~ Scatters(stream[r], q)
  BY <1>1, <1>3, OpsMembers DEF Scatters, IsReceive
<1>5. halo[r][q] = edge[r] /\ edge[r] = round[r] - 1
  BY <1>1, <1>3, <1>4 DEF RankInv, ReceiveInv, QueueInv
<1>6. Sent(q, r) >= Got(r, q) /\ Got(r, q) >= round[r]
  <2>1. Len(wire[q][r]) \in Nat /\ Len(wire[q][r]) = Sent(q, r) - Got(r, q)
    BY <1>1, <1>2, LenProperties DEF WireInv
  <2> QED
    BY <1>2, <2>1 DEF Sent, Got
<1>7. CASE sendReq[q][r] = "done"
  <2>1. ~ HasUpdate(stream[q])
    BY <1>1, <1>7 DEF RankInv, QueueInv, HostInv
  <2>2. edge[q] = round[q]
    BY <1>1, <2>1 DEF RankInv, QueueInv
  <2>3. round[q] + 1 >= Got(r, q) /\ Got(r, q) \in Int
    BY <1>2, <1>6, <1>7 DEF Sent, Got
  <2> QED
    BY <1>2, <1>5, <1>6, <2>2, <2>3
<1>8. CASE sendReq[q][r] # "done"
  <2>1. edge[q] >= round[q] - 1
    BY <1>1, <1>2 DEF RankInv, QueueInv
  <2> QED
    BY <1>2, <1>5, <1>6, <1>8, <2>1 DEF Sent, Got
<1> QED
  BY <1>7, <1>8

(* The exchange implements HaloLockstep: no update of any rank uses halo     *)
(* values of another step, whatever the transport, the completion policy,    *)
(* the overlap, and the order in which messages travel and callbacks run.    *)
THEOREM Lockstepped == Spec => ExchangeKeepsLockstep
<1>1. Init => Lockstep!Init
  BY DEF Init, Lockstep!Init, Peers, Lockstep!Peers
<1>2. ASSUME Inv, [Next]_vars
      PROVE  [\E r \in Ranks : Lockstep!Update(r)]_<<edge, used>>
  <2>1. ASSUME NEW r \in Ranks, Execute(r), IsUpdate(Head(stream[r]))
        PROVE  Lockstep!Update(r)
    <3>1. \A q \in Peers(r) : halo[r][q] = edge[r] /\ edge[q] >= edge[r]
      BY <1>2, <2>1, UpdateIsCurrent DEF Execute
    <3>2. halo[r] = [q \in Peers(r) |-> edge[r]]
      BY <1>2, <3>1 DEF Inv, DeviceType, PeerMap
    <3>3. edge' = [edge EXCEPT ![r] = @ + 1] /\ used' = [used EXCEPT ![r] = halo[r]]
      BY <2>1 DEF Execute, IsUpdate
    <3> QED
      BY <3>1, <3>2, <3>3 DEF Lockstep!Update, Lockstep!Peers, Peers
  <2>2. ASSUME NEW r \in Ranks, Execute(r), ~ IsUpdate(Head(stream[r]))
        PROVE  UNCHANGED <<edge, used>>
    BY <2>2 DEF Execute, IsUpdate
  <2>3. ASSUME \A r \in Ranks : ~ Execute(r) PROVE UNCHANGED <<edge, used>>
    <3>1. CASE UNCHANGED vars
      BY <3>1 DEF vars, fieldsOnDevice
    <3>2. CASE NegotiateTransport
      BY <3>2 DEF NegotiateTransport, fieldsOnDevice
    <3>3. ASSUME NEW r \in Ranks, Begin(r) \/ HostStep(r) \/ Fail(r)
          PROVE  UNCHANGED <<edge, used>>
      BY <3>3 DEF Begin, HostStep, Fail, Fence, Launch, PostRequests, Overlap, Finish,
                  ReceiveCallback, fieldsOnDevice
    <3>4. ASSUME NEW r \in Ranks, NEW q \in Peers(r), Transmit(r, q) \/ Deliver(r, q)
          PROVE  UNCHANGED <<edge, used>>
      BY <3>4 DEF Transmit, Deliver, fieldsOnDevice
    <3> QED
      BY <1>2, <2>3, <3>1, <3>2, <3>3, <3>4 DEF Next, Ended
  <2> QED
    BY <2>1, <2>2, <2>3
<1> QED
  BY <1>1, <1>2, Invariance, PTL DEF Spec, ExchangeKeepsLockstep, Lockstep!Spec

(* The reductions of the negotiation: a setting of some rank that bounds the *)
(* settings of all of them.                                                  *)
LEMMA Reductions ==
  ASSUME NEW f \in [Ranks -> -1..2]
  PROVE  /\ \E r \in Ranks : Least(f) = f[r]
         /\ \A r \in Ranks : Least(f) <= f[r]
         /\ \E r \in Ranks : Greatest(f) = f[r]
         /\ \A r \in Ranks : Greatest(f) >= f[r]
<1> DEFINE F == {f[r] : r \in Ranks}
<1>1. PICK p \in Ranks : TRUE
  BY RanksAssumption
<1>2. \A r \in Ranks : f[r] \in {-1, 0, 1, 2}
  OBVIOUS
<1>3. \E x \in F : \A r \in Ranks : x <= f[r]
  <2>1. \/ \E r \in Ranks : f[r] = -1
        \/ \E r \in Ranks : f[r] = 0 /\ \A q \in Ranks : f[q] # -1
        \/ \E r \in Ranks : f[r] = 1 /\ \A q \in Ranks : f[q] \notin {-1, 0}
        \/ \A q \in Ranks : f[q] = 2
    BY <1>2
  <2> QED
    BY <1>1, <1>2, <2>1
<1>4. \E x \in F : \A r \in Ranks : x >= f[r]
  <2>1. \/ \E r \in Ranks : f[r] = 2
        \/ \E r \in Ranks : f[r] = 1 /\ \A q \in Ranks : f[q] # 2
        \/ \E r \in Ranks : f[r] = 0 /\ \A q \in Ranks : f[q] \notin {1, 2}
        \/ \A q \in Ranks : f[q] = -1
    BY <1>2
  <2> QED
    BY <1>1, <1>2, <2>1
<1>5. Least(f) \in F /\ \A r \in Ranks : Least(f) <= f[r]
  BY <1>3 DEF Least
<1>6. Greatest(f) \in F /\ \A r \in Ranks : Greatest(f) >= f[r]
  BY <1>4 DEF Greatest
<1> QED
  BY <1>5, <1>6

(* The transport and the completion policy of a job are what every rank      *)
(* asked for, and its communicator can do: any number of ranks that differ   *)
(* in their settings are refused together.                                   *)
THEOREM Negotiation == Spec => NegotiationHonoursRequests
<1>1. ASSUME Inv, [Next]_vars, transport' # transport
      PROVE  \A r \in Ranks :
               /\ setting[r].request = 0 => transport' = "pinned"
               /\ setting[r].request = 2 => transport' = "device"
               /\ transport' = "device" => setting[r].aware
               /\ waitall' = (setting[r].policy = 1)
  <2>1. NegotiateTransport
    <3>1. ASSUME NEW r \in Ranks, Begin(r) \/ HostStep(r) \/ Fail(r) \/ Execute(r)
          PROVE  UNCHANGED transport
      BY <3>1 DEF Begin, HostStep, Fail, Execute, Fence, Launch, PostRequests, Overlap, Finish,
                  ReceiveCallback, negotiation
    <3>2. ASSUME NEW r \in Ranks, NEW q \in Peers(r), Transmit(r, q) \/ Deliver(r, q)
          PROVE  UNCHANGED transport
      BY <3>2 DEF Transmit, Deliver, negotiation
    <3>3. CASE UNCHANGED vars
      BY <1>1, <3>3 DEF vars, negotiation
    <3> QED
      BY <1>1, <3>1, <3>2, <3>3 DEF Next, Ended
  <2>2. /\ TransportsCompatible /\ CompletionAgreed
        /\ transport' = IF UseDeviceBuffers THEN "device" ELSE "pinned"
        /\ waitall' = (Greatest(Policies) = 1)
    BY <1>1, <2>1 DEF NegotiateTransport
  <2>3. setting \in [Ranks -> Setting]
    BY <1>1 DEF Inv, HostType
  <2>4. Requests \in [Ranks -> -1..2] /\ Policies \in [Ranks -> -1..2]
    BY <2>3 DEF Setting, Requests, Policies
  <2>5. /\ \E r \in Ranks : Least(Requests) = Requests[r]
        /\ \A r \in Ranks : Least(Requests) <= Requests[r] /\ Greatest(Requests) >= Requests[r]
        /\ \E r \in Ranks : Greatest(Requests) = Requests[r]
    BY <2>4, Reductions
  <2>6. \A r \in Ranks : Least(Policies) <= Policies[r] /\ Greatest(Policies) >= Policies[r]
    BY <2>4, Reductions
  <2>7. Least(Policies) \in -1..2 /\ Greatest(Policies) \in -1..2
    BY <2>4, Reductions
  <2>8. Least(Requests) \in -1..2 /\ Greatest(Requests) \in -1..2
    BY <2>4, <2>5
  <2> SUFFICES ASSUME NEW r \in Ranks
               PROVE  /\ setting[r].request = 0 => transport' = "pinned"
                      /\ setting[r].request = 2 => transport' = "device"
                      /\ transport' = "device" => setting[r].aware
                      /\ waitall' = (setting[r].policy = 1)
    OBVIOUS
  <2>9. Requests[r] = setting[r].request /\ Policies[r] = setting[r].policy
    BY DEF Requests, Policies
  <2>10. Requests[r] \in -1..2 /\ Policies[r] \in -1..2
    BY <2>4
  <2>11. Policies[r] = Greatest(Policies)
    BY <2>2, <2>6, <2>7, <2>10 DEF CompletionAgreed
  <2>12. CASE UseDeviceBuffers
    <3>1. EveryRankAware
      BY <2>2, <2>12 DEF UseDeviceBuffers, TransportsCompatible
    <3>2. Requests[r] # 0
      <4>1. Least(Requests) # 0 /\ Least(Requests) >= 0
        BY <2>2, <2>12 DEF UseDeviceBuffers, TransportsCompatible
      <4>2. Least(Requests) <= Requests[r]
        BY <2>5
      <4> QED
        BY <2>8, <2>10, <4>1, <4>2
    <3> QED
      BY <2>2, <2>9, <2>11, <2>12, <3>1, <3>2 DEF EveryRankAware
  <2>13. CASE ~ UseDeviceBuffers
    <3>1. Requests[r] # 2
      BY <2>5, <2>8, <2>10, <2>13 DEF UseDeviceBuffers
    <3> QED
      BY <2>2, <2>9, <2>11, <2>13, <3>1
  <2> QED
    BY <2>12, <2>13
<1> QED
  BY <1>1, Invariance, PTL DEF Spec, NegotiationHonoursRequests
=============================================================================
