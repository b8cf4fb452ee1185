-------------------------- MODULE ClientLink_proofs --------------------------
(***************************************************************************)
(* ClientLink implements SaleFeed and keeps the properties TLC checks of   *)
(* it, for any number of sales, connections, heartbeats, resets and late   *)
(* answers.  The invariants are proved in layers: each rests on those      *)
(* proved before it.                                                       *)
(***************************************************************************)
EXTENDS ClientLink, SequenceTheorems, FiniteSetTheorems, TLAPS

(***************************************************************************)
(* The first layer: types, the order of the records, and what a thread's   *)
(* place in its code says of the variables it uses there.                  *)
(***************************************************************************)

\* The records that are confirmed or in the sender's hands are a prefix of
\* those made; the queue holds the others, in order.
Taken == IF record = 0 THEN Len(acked) ELSE Len(acked) + 1

InOrder ==
  /\ record # 0 => record = Len(acked) + 1
  /\ Len(queue) = made - Taken
  /\ \A i \in 1 .. Len(queue) : queue[i] = Taken + i

Control ==
  /\ (record = 0) <=> (pc["sender"] = "idle")
  /\ pc["heartbeat"] # "check"
  /\ \A t \in Threads : pc[t] = "reading" => reading[t] # 0

LinkInv == LinkTypeOK /\ InOrder /\ Control

LEMMA LinkInvInit == Init => LinkInv
<1> SUFFICES ASSUME Init PROVE LinkInv
  OBVIOUS
<1>1. LinkTypeOK
  <2>1. /\ 0 \in 0 .. MaxSales /\ 0 \in 0 .. MAX_RETRIES /\ 1 \in 0 .. MaxConns
        /\ 0 \in 0 .. MaxConns /\ 0 \in 0 .. MaxResets /\ 0 \in 0 .. MaxTimeouts
        /\ 0 \in 0 .. MaxBeats /\ 0 \in 0 .. 0
    BY LinkConstants
  <2>2. << >> \in Seq(1 .. 0) /\ << >> \in Seq(0 .. 0) /\ << >> \in Seq({"ACK", "COMMAND"})
    OBVIOUS
  <2>3. "idle" \in PcValues /\ {} \in SUBSET Conns
    BY DEF PcValues
  <2> QED  BY <2>1, <2>2, <2>3 DEF Init, LinkTypeOK
<1>2. Taken = 0 /\ Len(acked) = 0 /\ Len(queue) = 0 /\ made = 0 /\ record = 0
  BY DEF Init, Taken
<1>3. InOrder
  BY <1>2 DEF InOrder
<1>4. Control
  BY DEF Init, Control, Threads
<1> QED  BY <1>1, <1>3, <1>4 DEF LinkInv

\* Numbers the types imply.
LEMMA LinkNumbers ==
  ASSUME LinkInv
  PROVE  /\ made \in Nat /\ made <= MaxSales /\ MaxSales \in Nat
         /\ record \in Nat /\ record <= made
         /\ queue \in Seq(1 .. made) /\ Len(queue) \in Nat
         /\ acked \in Seq(1 .. made) /\ Len(acked) \in Nat
         /\ Taken \in Nat /\ Taken <= made
         /\ sock # 0 => sock \in Conns
         /\ \A t \in Threads : pc[t] = "reading" => reading[t] \in Conns
<1>1. /\ made \in Nat /\ made <= MaxSales /\ MaxSales \in Nat
      /\ record \in Nat /\ record <= made
      /\ queue \in Seq(1 .. made) /\ acked \in Seq(1 .. made)
  BY LinkConstants DEF LinkInv, LinkTypeOK
<1>2. Len(queue) \in Nat /\ Len(acked) \in Nat
  BY <1>1, LenProperties
<1>3. Taken \in Nat
  BY <1>2 DEF Taken
<1>4. Len(queue) = made - Taken
  BY DEF LinkInv, InOrder
<1>5. sock # 0 => sock \in Conns
  BY LinkConstants DEF LinkInv, LinkTypeOK, Conns
<1>6. \A t \in Threads : pc[t] = "reading" => reading[t] \in Conns
  BY LinkConstants DEF LinkInv, LinkTypeOK, Control, Conns
<1> QED  BY <1>1, <1>2, <1>3, <1>4, <1>5, <1>6

\* What is on the wire.
LEMMA WireTypes ==
  ASSUME LinkInv, NEW c \in Conns
  PROVE  /\ up[c] \in Seq(0 .. made) /\ Len(up[c]) \in Nat
         /\ \A i \in 1 .. Len(up[c]) : up[c][i] \in 0 .. made
         /\ down[c] \in Seq({"ACK", "COMMAND"}) /\ Len(down[c]) \in Nat
         /\ handling[c] \in 0 .. made
<1>1. /\ up[c] \in Seq(0 .. made) /\ down[c] \in Seq({"ACK", "COMMAND"})
      /\ handling[c] \in 0 .. made
  BY DEF LinkInv, LinkTypeOK
<1> QED  BY <1>1, LenProperties, ElementOfSeq

-----------------------------------------------------------------------------
(* The queue: MakeSale, Dequeue, Requeue, Delivered. *)

LEMMA MakeSaleInOrder ==
  ASSUME LinkInv, MakeSale
  PROVE  InOrder' /\ queue' \in Seq(1 .. made') /\ acked' \in Seq(1 .. made')
<1>1. made' = made + 1 /\ made \in Nat /\ UNCHANGED <<record, acked>>
  BY LinkNumbers DEF MakeSale
<1>2. /\ queue \in Seq(1 .. made') /\ acked' \in Seq(1 .. made')
      /\ made' \in 1 .. made'
  BY <1>1, LinkNumbers, SeqMonotonic
<1>3. queue' = Append(queue, made')
  BY DEF MakeSale
<1>4. /\ queue' \in Seq(1 .. made') /\ Len(queue') = Len(queue) + 1
      /\ \A i \in 1 .. Len(queue) : queue'[i] = queue[i]
      /\ queue'[Len(queue) + 1] = made'
  BY <1>2, <1>3, AppendProperties
<1>5. Taken' = Taken /\ Taken \in Nat /\ Len(queue) \in Nat
  BY <1>1, LinkNumbers DEF Taken
<1>6. Len(queue) = made - Taken /\ \A i \in 1 .. Len(queue) : queue[i] = Taken + i
  BY DEF LinkInv, InOrder
<1>7. ASSUME NEW i \in 1 .. Len(queue') PROVE queue'[i] = Taken' + i
  <2>1. CASE i = Len(queue) + 1
    BY <2>1, <1>1, <1>4, <1>5, <1>6
  <2>2. CASE i # Len(queue) + 1
    <3>1. i \in 1 .. Len(queue)
      BY <2>2, <1>4, <1>5
    <3> QED  BY <3>1, <1>4, <1>5, <1>6
  <2> QED  BY <2>1, <2>2
<1>8. Len(queue') = made' - Taken'
  BY <1>1, <1>4, <1>5, <1>6
<1>9. record # 0 => record = Len(acked) + 1
  BY DEF LinkInv, InOrder
<1> QED  BY <1>1, <1>2, <1>4, <1>7, <1>8, <1>9 DEF InOrder

LEMMA DequeueInOrder ==
  ASSUME LinkInv, Dequeue
  PROVE  InOrder' /\ queue' \in Seq(1 .. made) /\ record' \in 1 .. made
<1>1. /\ pc["sender"] = "idle" /\ queue # << >>
      /\ record' = Head(queue) /\ queue' = Tail(queue) /\ UNCHANGED <<made, acked>>
  BY DEF Dequeue
<1>2. /\ record = 0 /\ Taken = Len(acked)
      /\ Len(queue) = made - Taken /\ \A i \in 1 .. Len(queue) : queue[i] = Taken + i
  BY <1>1 DEF LinkInv, InOrder, Control, Taken
<1>3. queue \in Seq(1 .. made) /\ Len(queue) \in Nat /\ Len(acked) \in Nat /\ made \in Nat
  BY LinkNumbers
<1>4. /\ queue' \in Seq(1 .. made) /\ record' \in 1 .. made /\ Len(queue') = Len(queue) - 1
      /\ \A i \in 1 .. Len(queue') : queue'[i] = queue[i + 1]
  BY <1>1, <1>3, HeadTailProperties
<1>5. Len(queue) > 0
  BY <1>1, <1>3, EmptySeq
<1>6. record' = Len(acked') + 1
  BY <1>1, <1>2, <1>3, <1>5
<1>7. Taken' = Len(acked) + 1
  BY <1>1, <1>4 DEF Taken
<1>8. \A i \in 1 .. Len(queue') : queue'[i] = Taken' + i
  BY <1>2, <1>3, <1>4, <1>5, <1>7
<1>9. Len(queue') = made' - Taken'
  BY <1>1, <1>2, <1>3, <1>4, <1>7
<1> QED  BY <1>1, <1>4, <1>6, <1>8, <1>9 DEF InOrder

LEMMA RequeueInOrder ==
  ASSUME LinkInv, record # 0, Requeue, UNCHANGED <<made, acked>>
  PROVE  InOrder' /\ queue' \in Seq(1 .. made) /\ record' = 0 /\ attempt' = 0
<1>1. queue' = <<record>> \o queue /\ record' = 0 /\ attempt' = 0
  BY DEF Requeue
<1>2. /\ record = Len(acked) + 1 /\ Taken = Len(acked) + 1
      /\ Len(queue) = made - Taken /\ \A i \in 1 .. Len(queue) : queue[i] = Taken + i
  BY DEF LinkInv, InOrder, Taken
<1>3. /\ record \in 1 .. made /\ queue \in Seq(1 .. made) /\ Len(queue) \in Nat
      /\ Len(acked) \in Nat /\ made \in Nat
  BY LinkNumbers
<1>4. <<record>> \in Seq(1 .. made) /\ Len(<<record>>) = 1 /\ <<record>>[1] = record
  BY <1>3
<1>5. /\ queue' \in Seq(1 .. made) /\ Len(queue') = 1 + Len(queue)
      /\ \A i \in 1 .. 1 + Len(queue) :
           queue'[i] = IF i <= 1 THEN <<record>>[i] ELSE queue[i - 1]
  BY <1>1, <1>3, <1>4, ConcatProperties
<1>6. Taken' = Len(acked)
  BY <1>1 DEF Taken
<1>7. ASSUME NEW i \in 1 .. Len(queue') PROVE queue'[i] = Taken' + i
  <2>1. CASE i = 1
    <3>1. queue'[1] = <<record>>[1]
      BY <1>3, <1>5
    <3> QED  BY <3>1, <2>1, <1>2, <1>3, <1>4, <1>6
  <2>2. CASE i # 1
    <3>1. i \in Nat /\ i - 1 \in 1 .. Len(queue) /\ queue'[i] = queue[i - 1]
      BY <2>2, <1>3, <1>5
    <3>2. queue[i - 1] = Len(acked) + 1 + (i - 1)
      BY <3>1, <1>2
    <3> QED  BY <3>1, <3>2, <1>3, <1>6
  <2> QED  BY <2>1, <2>2
<1>8. Len(queue') = made' - Taken'
  BY <1>2, <1>3, <1>5, <1>6
<1> QED  BY <1>1, <1>5, <1>7, <1>8 DEF InOrder

LEMMA DeliveredInOrder ==
  ASSUME LinkInv, record # 0, Delivered, UNCHANGED made
  PROVE  /\ InOrder' /\ acked' \in Seq(1 .. made) /\ queue' \in Seq(1 .. made)
         /\ Len(acked') = Len(acked) + 1 /\ record = Len(acked) + 1
         /\ \A i \in 1 .. Len(acked) : acked'[i] = acked[i]
         /\ acked'[Len(acked')] = record
<1>1. acked' = Append(acked, record) /\ record' = 0 /\ UNCHANGED queue
  BY DEF Delivered
<1>2. /\ record = Len(acked) + 1 /\ Taken = Len(acked) + 1
      /\ Len(queue) = made - Taken /\ \A i \in 1 .. Len(queue) : queue[i] = Taken + i
  BY DEF LinkInv, InOrder, Taken
<1>3. record \in 1 .. made /\ acked \in Seq(1 .. made) /\ queue' \in Seq(1 .. made)
  BY <1>1, LinkNumbers
<1>4. /\ acked' \in Seq(1 .. made) /\ Len(acked') = Len(acked) + 1
      /\ \A i \in 1 .. Len(acked) : acked'[i] = acked[i]
      /\ acked'[Len(acked')] = record
  BY <1>1, <1>3, AppendProperties
<1>5. Taken' = Taken
  BY <1>1, <1>2, <1>4 DEF Taken
<1> QED  BY <1>1, <1>2, <1>3, <1>4, <1>5 DEF InOrder

\* send_sale goes on or gives up.
LEMMA NextAttemptInv ==
  ASSUME LinkInv, pc["sender"] # "idle", NextAttempt, UNCHANGED <<made, acked>>
  PROVE  /\ InOrder' /\ queue' \in Seq(1 .. made) /\ record' \in 0 .. made
         /\ attempt' \in 0 .. MAX_RETRIES
         /\ pc' \in [Threads -> PcValues] /\ pc'["heartbeat"] = pc["heartbeat"]
         /\ pc'["sender"] \in {"send", "idle"}
         /\ (record' = 0) <=> (pc'["sender"] = "idle")
<1>0. /\ record # 0 /\ attempt \in 0 .. MAX_RETRIES /\ pc \in [Threads -> PcValues]
      /\ MAX_RETRIES \in Nat
  BY LinkConstants DEF LinkInv, Control, LinkTypeOK
<1>1. CASE attempt < MAX_RETRIES
  <2>1. /\ attempt' = attempt + 1 /\ pc' = [pc EXCEPT !["sender"] = "send"]
        /\ UNCHANGED <<queue, record>>
    BY <1>1 DEF NextAttempt, Goto
  <2>2. InOrder'
    BY <2>1 DEF LinkInv, InOrder, Taken
  <2>3. /\ pc' \in [Threads -> PcValues] /\ pc'["sender"] = "send"
        /\ pc'["heartbeat"] = pc["heartbeat"]
    BY <2>1, <1>0 DEF PcValues, Threads
  <2>4. attempt' \in 0 .. MAX_RETRIES
    BY <2>1, <1>0, <1>1
  <2> QED  BY <2>1, <2>2, <2>3, <2>4, <1>0, LinkNumbers
<1>2. CASE ~(attempt < MAX_RETRIES)
  <2>1. Requeue /\ pc' = [pc EXCEPT !["sender"] = "idle"]
    BY <1>2 DEF NextAttempt, Goto
  <2>2. /\ pc' \in [Threads -> PcValues] /\ pc'["sender"] = "idle"
        /\ pc'["heartbeat"] = pc["heartbeat"]
    BY <2>1, <1>0 DEF PcValues, Threads
  <2> QED  BY <2>1, <2>2, <1>0, RequeueInOrder, LinkNumbers
<1> QED  BY <1>1, <1>2

-----------------------------------------------------------------------------
(* The first layer is kept by every step. *)

\* Steps that leave the queue and the sender's place alone.
LEMMA OrderUnchanged ==
  ASSUME InOrder, UNCHANGED <<made, queue, record, acked>>
  PROVE  InOrder'
BY DEF InOrder, Taken

LEMMA MakeSaleInv == ASSUME LinkInv, MakeSale PROVE LinkInv'
<1>1. made' = made + 1 /\ made < MaxSales /\ made \in Nat
  BY LinkNumbers DEF MakeSale
<1>2. LinkTypeOK'
  <2>1. 0 .. made \subseteq 0 .. made' /\ made' \in 0 .. MaxSales
    BY <1>1, LinkNumbers
  <2>2. \A c \in Conns : up[c] \in Seq(0 .. made')
    BY <2>1, WireTypes, SeqMonotonic
  <2>3. up \in [Conns -> Seq(0 .. made')]
    BY <2>2 DEF LinkInv, LinkTypeOK
  <2> QED  BY <2>1, <2>3, MakeSaleInOrder
           DEF MakeSale, LinkInv, LinkTypeOK, sockVars, threadVars, wireVars, serverVars, counters
<1>3. Control'
  BY DEF MakeSale, LinkInv, Control, threadVars
<1> QED  BY <1>2, <1>3, MakeSaleInOrder DEF LinkInv

LEMMA DequeueInv == ASSUME LinkInv, Dequeue PROVE LinkInv'
<1>1. /\ pc' = [pc EXCEPT !["sender"] = "check"]
      /\ UNCHANGED <<made, attempt, acked, sockVars, recv_lock, reading, wireVars,
                     serverVars, counters>>
  BY DEF Dequeue, Goto
<1>2. pc' \in [Threads -> PcValues]
  BY <1>1 DEF LinkInv, LinkTypeOK, PcValues
<1>3. LinkTypeOK'
  <2>1. record' \in 0 .. made
    BY DequeueInOrder, LinkNumbers
  <2> QED  BY <1>1, <1>2, <2>1, DequeueInOrder
           DEF LinkInv, LinkTypeOK, sockVars, wireVars, serverVars, counters
<1>4. Control'
  BY <1>1, DequeueInOrder DEF LinkInv, LinkTypeOK, Control, Threads
<1> QED  BY <1>3, <1>4, DequeueInOrder DEF LinkInv

LEMMA StartSendingInv == ASSUME LinkInv, StartSending PROVE LinkInv'
<1>1. /\ pc["sender"] = "check" /\ record # 0
      /\ UNCHANGED <<made, acked, sockVars, recv_lock, reading, wireVars, serverVars, counters>>
  BY DEF StartSending, LinkInv, Control
<1>2. CASE connected
  <2>1. /\ attempt' = 1 /\ pc' = [pc EXCEPT !["sender"] = "send"]
        /\ UNCHANGED <<queue, record>>
    BY <1>2 DEF StartSending, Goto
  <2>2. attempt' \in 0 .. MAX_RETRIES
    BY <2>1, LinkConstants
  <2>5. pc' \in [Threads -> PcValues]
    BY <2>1 DEF LinkInv, LinkTypeOK, PcValues
  <2>3. LinkTypeOK'
    BY <1>1, <2>1, <2>2, <2>5 DEF LinkInv, LinkTypeOK, sockVars, wireVars, serverVars, counters
  <2>4. Control'
    BY <1>1, <2>1 DEF LinkInv, LinkTypeOK, Control, Threads
  <2> QED  BY <1>1, <2>1, <2>3, <2>4, OrderUnchanged DEF LinkInv
<1>3. CASE ~connected
  <2>1. Requeue /\ pc' = [pc EXCEPT !["sender"] = "idle"]
    BY <1>3 DEF StartSending, Goto
  <2>2. pc' \in [Threads -> PcValues]
    BY <2>1 DEF LinkInv, LinkTypeOK, PcValues
  <2>3. InOrder' /\ queue' \in Seq(1 .. made) /\ record' = 0 /\ attempt' = 0
    BY <1>1, <2>1, RequeueInOrder
  <2>4. record' \in 0 .. made /\ attempt' \in 0 .. MAX_RETRIES
    BY <2>3, LinkNumbers, LinkConstants
  <2>5. LinkTypeOK'
    BY <1>1, <2>2, <2>3, <2>4 DEF LinkInv, LinkTypeOK, sockVars, wireVars, serverVars, counters
  <2>6. Control'
    BY <1>1, <2>1, <2>3 DEF LinkInv, LinkTypeOK, Control, Threads
  <2> QED  BY <2>3, <2>5, <2>6 DEF LinkInv
<1> QED  BY <1>2, <1>3

LEMMA BeatInv == ASSUME LinkInv, Beat PROVE LinkInv'
<1>1. /\ pc' = [pc EXCEPT !["heartbeat"] = "send"] /\ beats' = beats + 1 /\ beats < MaxBeats
      /\ UNCHANGED <<queueVars, sockVars, recv_lock, reading, wireVars, serverVars,
                     resets, timeouts>>
  BY DEF Beat, Goto
<1>2. pc' \in [Threads -> PcValues]
  BY <1>1 DEF LinkInv, LinkTypeOK, PcValues
<1>5. beats' \in 0 .. MaxBeats
  <2>1. beats \in 0 .. MaxBeats /\ MaxBeats \in Nat
    BY LinkConstants DEF LinkInv, LinkTypeOK
  <2> QED  BY <2>1, <1>1
<1>3. LinkTypeOK'
  BY <1>1, <1>2, <1>5 DEF LinkInv, LinkTypeOK, queueVars, sockVars, wireVars, serverVars
<1>4. Control'
  BY <1>1 DEF LinkInv, LinkTypeOK, Control, Threads, queueVars
<1> QED  BY <1>1, <1>3, <1>4, OrderUnchanged DEF LinkInv, queueVars

\* A thread moves on without touching the queue.
LEMMA MovesOn ==
  ASSUME LinkInv, NEW t \in Threads, pc[t] # "idle",
         NEW label \in PcValues \ {"idle", "check"}, Goto(t, label),
         UNCHANGED queueVars, label # "reading" => UNCHANGED reading,
         label = "reading" => sock # 0 /\ reading' = [reading EXCEPT ![t] = sock]
  PROVE  InOrder' /\ Control' /\ pc' \in [Threads -> PcValues]
<1>1. /\ pc' = [pc EXCEPT ![t] = label] /\ UNCHANGED <<made, queue, record, acked>>
      /\ t \in {"sender", "heartbeat"}
  BY DEF Goto, queueVars, Threads
<1>2. pc' \in [Threads -> PcValues]
  BY <1>1 DEF LinkInv, LinkTypeOK
<1>3. Control'
  BY <1>1 DEF LinkInv, LinkTypeOK, Control, Threads
<1> QED  BY <1>1, <1>2, <1>3, OrderUnchanged DEF LinkInv

LEMMA SendRawInv == ASSUME LinkInv, NEW t \in Threads, SendRaw(t) PROVE LinkInv'
<1>1. /\ pc[t] = "send" /\ sock # 0 /\ Goto(t, "await")
      /\ up' = [up EXCEPT ![sock] = Append(@, Message(t))]
      /\ UNCHANGED <<queueVars, sockVars, recv_lock, reading, conn, down, serverVars, counters>>
  BY DEF SendRaw
<1>2. InOrder' /\ Control' /\ pc' \in [Threads -> PcValues]
  BY <1>1, MovesOn DEF PcValues
<1>3. Message(t) \in 0 .. made /\ sock \in Conns
  BY <1>1, LinkNumbers DEF Message, HEARTBEAT
<1>4. Append(up[sock], Message(t)) \in Seq(0 .. made)
  BY <1>3, WireTypes, AppendProperties
<1>5. up' \in [Conns -> Seq(0 .. made)]
  BY <1>1, <1>4 DEF LinkInv, LinkTypeOK
<1>6. LinkTypeOK'
  BY <1>1, <1>2, <1>5 DEF LinkInv, LinkTypeOK, queueVars, sockVars, serverVars, counters
<1> QED  BY <1>2, <1>6 DEF LinkInv

LEMMA SendFailsInv == ASSUME LinkInv, NEW t \in Threads, SendFails(t) PROVE LinkInv'
<1>1. /\ pc[t] = "send" /\ Goto(t, IF t = "sender" THEN "disconnect" ELSE "await")
      /\ UNCHANGED <<queueVars, sockVars, recv_lock, reading, wireVars, serverVars, counters>>
  BY DEF SendFails
<1>2. InOrder' /\ Control' /\ pc' \in [Threads -> PcValues]
  BY <1>1, MovesOn DEF PcValues
<1>3. LinkTypeOK'
  BY <1>1, <1>2 DEF LinkInv, LinkTypeOK, queueVars, sockVars, wireVars, serverVars, counters
<1> QED  BY <1>2, <1>3 DEF LinkInv

LEMMA AwaitAckInv == ASSUME LinkInv, NEW t \in Threads, AwaitAck(t) PROVE LinkInv'
<1>1. /\ pc[t] = "await" /\ Goto(t, "armed") /\ recv_lock' = t
      /\ UNCHANGED <<queueVars, sockVars, reading, wireVars, serverVars, counters>>
  BY DEF AwaitAck
<1>2. InOrder' /\ Control' /\ pc' \in [Threads -> PcValues]
  BY <1>1, MovesOn DEF PcValues
<1>3. LinkTypeOK'
  BY <1>1, <1>2 DEF LinkInv, LinkTypeOK, queueVars, sockVars, wireVars, serverVars, counters
<1> QED  BY <1>2, <1>3 DEF LinkInv

LEMMA RecvInv == ASSUME LinkInv, NEW t \in Threads, Recv(t) PROVE LinkInv'
<1>1. /\ pc[t] = "armed" /\ sock # 0 /\ Goto(t, "reading")
      /\ reading' = [reading EXCEPT ![t] = sock]
      /\ UNCHANGED <<queueVars, sockVars, recv_lock, wireVars, serverVars, counters>>
  BY DEF Recv
<1>2. InOrder' /\ Control' /\ pc' \in [Threads -> PcValues]
  BY <1>1, MovesOn DEF PcValues
<1>3. reading' \in [Threads -> 0 .. MaxConns]
  BY <1>1 DEF LinkInv, LinkTypeOK
<1>4. LinkTypeOK'
  BY <1>1, <1>2, <1>3 DEF LinkInv, LinkTypeOK, queueVars, sockVars, wireVars, serverVars, counters
<1> QED  BY <1>2, <1>4 DEF LinkInv

\* Taking the first message off what the server has written.
LEMMA DownTail ==
  ASSUME LinkInv, NEW c \in Conns, down[c] # << >>, down' = [down EXCEPT ![c] = Tail(@)]
  PROVE  down' \in [Conns -> Seq({"ACK", "COMMAND"})]
<1>1. Tail(down[c]) \in Seq({"ACK", "COMMAND"})
  BY WireTypes, HeadTailProperties
<1> QED  BY <1>1 DEF LinkInv, LinkTypeOK

LEMMA ReadAckInv == ASSUME LinkInv, NEW t \in Threads, ReadAck(t) PROVE LinkInv'
<1>1. /\ pc[t] = "reading" /\ down[reading[t]] # << >>
      /\ down' = [down EXCEPT ![reading[t]] = Tail(@)]
      /\ recv_lock' = "free" /\ reading' = [reading EXCEPT ![t] = 0]
      /\ pc' = [pc EXCEPT ![t] = "idle"]
      /\ UNCHANGED <<made, sockVars, conn, up, serverVars, counters>>
      /\ reading[t] \in Conns
  BY LinkNumbers DEF ReadAck, Goto
<1>2. down' \in [Conns -> Seq({"ACK", "COMMAND"})]
  BY <1>1, DownTail
<1>3. pc' \in [Threads -> PcValues] /\ reading' \in [Threads -> 0 .. MaxConns]
  <2>1. 0 \in 0 .. MaxConns /\ "idle" \in PcValues
    BY LinkConstants DEF PcValues
  <2> QED  BY <2>1, <1>1 DEF LinkInv, LinkTypeOK
<1>4. /\ InOrder' /\ acked' \in Seq(1 .. made) /\ queue' \in Seq(1 .. made)
      /\ record' \in 0 .. made /\ attempt' \in 0 .. MAX_RETRIES
      /\ t = "sender" => record' = 0
      /\ t # "sender" => record' = record
  <2>1. CASE t = "sender"
    <3>1. record # 0 /\ Delivered
      BY <2>1, <1>1 DEF ReadAck, LinkInv, Control
    <3>2. record' = 0 /\ attempt' = 0
      BY <3>1 DEF Delivered
    <3>3. record' \in 0 .. made /\ attempt' \in 0 .. MAX_RETRIES
      BY <3>2, LinkNumbers, LinkConstants
    <3> QED  BY <2>1, <3>1, <3>2, <3>3, <1>1, DeliveredInOrder
  <2>2. CASE t # "sender"
    <3>1. UNCHANGED <<queue, acked, record, attempt>>
      BY <2>2 DEF ReadAck
    <3> QED  BY <2>2, <3>1, <1>1, OrderUnchanged DEF LinkInv, LinkTypeOK
  <2> QED  BY <2>1, <2>2
<1>5. LinkTypeOK'
  BY <1>1, <1>2, <1>3, <1>4 DEF LinkInv, LinkTypeOK, sockVars, serverVars, counters
<1>6. Control'
  BY <1>1, <1>4 DEF LinkInv, LinkTypeOK, Control, Threads
<1> QED  BY <1>4, <1>5, <1>6 DEF LinkInv

LEMMA ReadCommandInv == ASSUME LinkInv, NEW t \in Threads, ReadCommand(t) PROVE LinkInv'
<1>1. /\ pc[t] = "reading" /\ down[reading[t]] # << >>
      /\ down' = [down EXCEPT ![reading[t]] = Tail(@)]
      /\ reading' = [reading EXCEPT ![t] = 0]
      /\ pc' = [pc EXCEPT ![t] = "await"]
      /\ UNCHANGED <<queueVars, sockVars, recv_lock, conn, up, serverVars, counters>>
      /\ reading[t] \in Conns
  BY LinkNumbers DEF ReadCommand, Goto
<1>2. down' \in [Conns -> Seq({"ACK", "COMMAND"})]
  BY <1>1, DownTail
<1>3. pc' \in [Threads -> PcValues] /\ reading' \in [Threads -> 0 .. MaxConns]
  <2>1. 0 \in 0 .. MaxConns /\ "await" \in PcValues
    BY LinkConstants DEF PcValues
  <2> QED  BY <2>1, <1>1 DEF LinkInv, LinkTypeOK
<1>4. LinkTypeOK'
  BY <1>1, <1>2, <1>3 DEF LinkInv, LinkTypeOK, queueVars, sockVars, serverVars, counters
<1>5. Control'
  BY <1>1 DEF LinkInv, LinkTypeOK, Control, Threads, queueVars
<1> QED  BY <1>1, <1>4, <1>5, OrderUnchanged DEF LinkInv, queueVars

LEMMA WaitFailsInv ==
  ASSUME LinkInv, NEW t \in Threads, pc[t] = "reading", WaitFails(t),
         timeouts' \in 0 .. MaxTimeouts, UNCHANGED <<resets, beats>>
  PROVE  LinkInv'
<1>1. /\ recv_lock' = "free" /\ reading' = [reading EXCEPT ![t] = 0]
      /\ UNCHANGED <<made, acked, sockVars, wireVars, serverVars>>
  BY DEF WaitFails
<1>2. reading' \in [Threads -> 0 .. MaxConns]
  <2>1. 0 \in 0 .. MaxConns
    BY LinkConstants
  <2> QED  BY <2>1, <1>1 DEF LinkInv, LinkTypeOK
<1>3. CASE t = "sender"
  <2>1. NextAttempt /\ pc["sender"] # "idle"
    BY <1>3 DEF WaitFails
  <2>2. /\ InOrder' /\ queue' \in Seq(1 .. made) /\ record' \in 0 .. made
        /\ attempt' \in 0 .. MAX_RETRIES
        /\ pc' \in [Threads -> PcValues] /\ pc'["heartbeat"] = pc["heartbeat"]
        /\ pc'["sender"] \in {"send", "idle"}
        /\ (record' = 0) <=> (pc'["sender"] = "idle")
    BY <2>1, <1>1, NextAttemptInv
  <2>3. LinkTypeOK'
    BY <1>1, <1>2, <2>2 DEF LinkInv, LinkTypeOK, sockVars, wireVars, serverVars
  <2>4. Control'
    BY <1>1, <1>3, <2>2 DEF LinkInv, LinkTypeOK, Control, Threads
  <2> QED  BY <2>2, <2>3, <2>4 DEF LinkInv
<1>4. CASE t # "sender"
  <2>1. UNCHANGED <<queue, record, attempt>> /\ t = "heartbeat"
    BY <1>4 DEF WaitFails, Threads
  <2>2. PICK label \in {"idle", "disconnect"} : pc' = [pc EXCEPT ![t] = label]
    BY <1>4 DEF WaitFails, Goto
  <2>3. pc' \in [Threads -> PcValues]
    BY <2>2 DEF LinkInv, LinkTypeOK, PcValues
  <2>4. LinkTypeOK'
    BY <1>1, <1>2, <2>1, <2>3 DEF LinkInv, LinkTypeOK, sockVars, wireVars, serverVars
  <2>5. Control'
    BY <1>1, <2>1, <2>2 DEF LinkInv, LinkTypeOK, Control, Threads
  <2> QED  BY <1>1, <2>1, <2>4, <2>5, OrderUnchanged DEF LinkInv
<1> QED  BY <1>3, <1>4

LEMMA ReadFailsInv == ASSUME LinkInv, NEW t \in Threads, ReadFails(t) PROVE LinkInv'
<1>1. timeouts' \in 0 .. MaxTimeouts /\ UNCHANGED <<resets, beats>>
  BY DEF ReadFails, counters, LinkInv, LinkTypeOK
<1> QED  BY <1>1, WaitFailsInv DEF ReadFails

LEMMA ReadTimesOutInv == ASSUME LinkInv, NEW t \in Threads, ReadTimesOut(t) PROVE LinkInv'
<1>1. timeouts' \in 0 .. MaxTimeouts
  <2>1. timeouts \in 0 .. MaxTimeouts /\ MaxTimeouts \in Nat
    BY LinkConstants DEF LinkInv, LinkTypeOK
  <2> QED  BY <2>1 DEF ReadTimesOut
<1> QED  BY <1>1, WaitFailsInv DEF ReadTimesOut

LEMMA DisconnectInv == ASSUME LinkInv, NEW t \in Threads, Disconnect(t) PROVE LinkInv'
<1>1. /\ pc[t] = "disconnect" /\ Goto(t, IF sock = 0 THEN "connect" ELSE "close")
      /\ connected' = FALSE
      /\ UNCHANGED <<queueVars, sock, recv_lock, reading, wireVars, serverVars, counters>>
  BY DEF Disconnect
<1>2. InOrder' /\ Control' /\ pc' \in [Threads -> PcValues]
  BY <1>1, MovesOn DEF PcValues
<1>3. LinkTypeOK'
  BY <1>1, <1>2 DEF LinkInv, LinkTypeOK, queueVars, wireVars, serverVars, counters
<1> QED  BY <1>2, <1>3 DEF LinkInv

LEMMA CloseSockInv == ASSUME LinkInv, NEW t \in Threads, CloseSock(t) PROVE LinkInv'
<1>1. /\ pc[t] = "close" /\ sock # 0 /\ Goto(t, "clear")
      /\ conn' = [conn EXCEPT ![sock] = "closed"] /\ down' = [down EXCEPT ![sock] = << >>]
      /\ UNCHANGED <<queueVars, sockVars, recv_lock, reading, up, serverVars, counters>>
  BY DEF CloseSock
<1>2. InOrder' /\ Control' /\ pc' \in [Threads -> PcValues]
  BY <1>1, MovesOn DEF PcValues
<1>3. << >> \in Seq({"ACK", "COMMAND"})
  OBVIOUS
<1>4. down' \in [Conns -> Seq({"ACK", "COMMAND"})]
  BY <1>1, <1>3 DEF LinkInv, LinkTypeOK
<1>5. LinkTypeOK'
  BY <1>1, <1>2, <1>4 DEF LinkInv, LinkTypeOK, queueVars, sockVars, serverVars, counters
<1> QED  BY <1>2, <1>5 DEF LinkInv

LEMMA ClearSockInv == ASSUME LinkInv, NEW t \in Threads, ClearSock(t) PROVE LinkInv'
<1>1. /\ pc[t] = "clear" /\ Goto(t, "connect") /\ sock' = 0
      /\ UNCHANGED <<queueVars, connected, recv_lock, reading, wireVars, serverVars, counters>>
  BY DEF ClearSock
<1>2. InOrder' /\ Control' /\ pc' \in [Threads -> PcValues]
  BY <1>1, MovesOn DEF PcValues
<1>3. sock' \in 0 .. MaxConns
  BY <1>1, LinkConstants
<1>4. LinkTypeOK'
  BY <1>1, <1>2, <1>3 DEF LinkInv, LinkTypeOK, queueVars, wireVars, serverVars, counters
<1> QED  BY <1>2, <1>4 DEF LinkInv

LEMMA ConnectInv ==
  ASSUME LinkInv, NEW t \in Threads, NEW c \in Conns, Connect(t, c) PROVE LinkInv'
<1>1. /\ pc[t] = "connect" /\ Goto(t, "online") /\ sock' = c
      /\ conn' = [conn EXCEPT ![c] = "open"] /\ handler' = [handler EXCEPT ![c] = "running"]
      /\ UNCHANGED <<queueVars, connected, recv_lock, reading, up, down, handling,
                     named, registered, stored, snapshot, counters>>
  BY DEF Connect
<1>2. InOrder' /\ Control' /\ pc' \in [Threads -> PcValues]
  BY <1>1, MovesOn DEF PcValues
<1>3. /\ sock' \in 0 .. MaxConns
      /\ conn' \in [Conns -> {"unused", "open", "reset", "closed"}]
      /\ handler' \in [Conns -> {"none", "running", "update", "answer", "done"}]
  BY <1>1, LinkConstants DEF LinkInv, LinkTypeOK, Conns
<1>4. LinkTypeOK'
  BY <1>1, <1>2, <1>3 DEF LinkInv, LinkTypeOK, queueVars, counters
<1> QED  BY <1>2, <1>4 DEF LinkInv

LEMMA OnlineInv == ASSUME LinkInv, NEW t \in Threads, Online(t) PROVE LinkInv'
<1>1. /\ pc[t] = "online" /\ connected' = TRUE
      /\ UNCHANGED <<made, acked, sock, recv_lock, reading, wireVars, serverVars, counters>>
  BY DEF Online
<1>3. CASE t = "sender"
  <2>1. NextAttempt /\ pc["sender"] # "idle"
    BY <1>1, <1>3 DEF Online
  <2>2. /\ InOrder' /\ queue' \in Seq(1 .. made) /\ record' \in 0 .. made
        /\ attempt' \in 0 .. MAX_RETRIES
        /\ pc' \in [Threads -> PcValues] /\ pc'["heartbeat"] = pc["heartbeat"]
        /\ pc'["sender"] \in {"send", "idle"}
        /\ (record' = 0) <=> (pc'["sender"] = "idle")
    BY <2>1, <1>1, NextAttemptInv
  <2>3. LinkTypeOK'
    BY <1>1, <2>2 DEF LinkInv, LinkTypeOK, wireVars, serverVars, counters
  <2>4. Control'
    BY <1>1, <1>3, <2>2 DEF LinkInv, LinkTypeOK, Control, Threads
  <2> QED  BY <2>2, <2>3, <2>4 DEF LinkInv
<1>4. CASE t # "sender"
  <2>1. UNCHANGED <<queue, record, attempt>> /\ t = "heartbeat" /\ pc' = [pc EXCEPT ![t] = "idle"]
    BY <1>4 DEF Online, Threads, Goto
  <2>3. pc' \in [Threads -> PcValues]
    BY <2>1 DEF LinkInv, LinkTypeOK, PcValues
  <2>4. LinkTypeOK'
    BY <1>1, <2>1, <2>3 DEF LinkInv, LinkTypeOK, wireVars, serverVars, counters
  <2>5. Control'
    BY <1>1, <2>1 DEF LinkInv, LinkTypeOK, Control, Threads
  <2> QED  BY <1>1, <2>1, <2>4, <2>5, OrderUnchanged DEF LinkInv
<1> QED  BY <1>3, <1>4

LEMMA DiesInv == ASSUME LinkInv, NEW t \in Threads, Dies(t) PROVE LinkInv'
<1>1. /\ pc[t] # "idle" /\ Goto(t, "dead")
      /\ recv_lock' = IF recv_lock = t THEN "free" ELSE recv_lock
      /\ UNCHANGED <<queueVars, sockVars, reading, wireVars, serverVars, counters>>
  BY DEF Dies
<1>2. InOrder' /\ Control' /\ pc' \in [Threads -> PcValues]
  BY <1>1, MovesOn DEF PcValues
<1>3. LinkTypeOK'
  BY <1>1, <1>2 DEF LinkInv, LinkTypeOK, queueVars, sockVars, wireVars, serverVars, counters
<1> QED  BY <1>2, <1>3 DEF LinkInv

(* The server and the network leave the machine's part alone. *)
LEMMA MachineUnchanged ==
  ASSUME LinkInv, UNCHANGED <<queueVars, sockVars, threadVars>>
  PROVE  InOrder' /\ Control'
BY OrderUnchanged DEF LinkInv, Control, queueVars, threadVars

\* Taking the first message off what the machine has written.
LEMMA UpTail ==
  ASSUME LinkInv, NEW c \in Conns, up[c] # << >>, up' = [up EXCEPT ![c] = Tail(@)]
  PROVE  /\ up' \in [Conns -> Seq(0 .. made)]
         /\ Head(up[c]) \in 0 .. made /\ Head(up[c]) = up[c][1]
         /\ Len(up[c]) >= 1 /\ Len(up'[c]) = Len(up[c]) - 1
         /\ \A i \in 1 .. Len(up'[c]) : up'[c][i] = up[c][i + 1]
         /\ \A b \in Conns : b # c => up'[b] = up[b]
<1>0. up \in [Conns -> Seq(0 .. made)]
  BY DEF LinkInv, LinkTypeOK
<1>1. /\ Tail(up[c]) \in Seq(0 .. made) /\ Head(up[c]) \in 0 .. made
      /\ Len(Tail(up[c])) = Len(up[c]) - 1
      /\ \A i \in 1 .. Len(Tail(up[c])) : Tail(up[c])[i] = up[c][i + 1]
  BY WireTypes, HeadTailProperties
<1>2. up'[c] = Tail(up[c]) /\ \A b \in Conns : b # c => up'[b] = up[b]
  BY <1>0
<1>3. Len(up[c]) >= 1
  BY WireTypes, EmptySeq
<1>4. Head(up[c]) = up[c][1]
  BY <1>0
<1>5. up' \in [Conns -> Seq(0 .. made)]
  BY <1>0, <1>1
<1> QED  BY <1>1, <1>2, <1>3, <1>4, <1>5

LEMMA ReplyTypes ==
  ASSUME LinkInv, NEW c \in Conns, NEW m \in Seq({"ACK", "COMMAND"}), Reply(c, m)
  PROVE  down' \in [Conns -> Seq({"ACK", "COMMAND"})]
<1>0. down \in [Conns -> Seq({"ACK", "COMMAND"})]
  BY DEF LinkInv, LinkTypeOK
<1>1. down[c] \o m \in Seq({"ACK", "COMMAND"})
  BY <1>0, ConcatProperties
<1> QED  BY <1>0, <1>1 DEF Reply

LEMMA RecordSaleInv == ASSUME LinkInv, NEW c \in Conns, RecordSale(c) PROVE LinkInv'
<1>1. /\ up[c] # << >> /\ Head(up[c]) # HEARTBEAT /\ up' = [up EXCEPT ![c] = Tail(@)]
      /\ handling' = [handling EXCEPT ![c] = Head(up[c])]
      /\ stored' = [stored EXCEPT ![Head(up[c])] = @ + 1]
      /\ handler' = [handler EXCEPT ![c] = "update"]
      /\ UNCHANGED <<queueVars, sockVars, threadVars, conn, down, named, registered,
                     snapshot, counters>>
  BY DEF RecordSale
<1>2. up' \in [Conns -> Seq(0 .. made)] /\ Head(up[c]) \in 0 .. made
  BY <1>1, UpTail
<1>3. Head(up[c]) \in Sales
  BY <1>1, <1>2, LinkNumbers DEF HEARTBEAT, Sales
<1>4. stored' \in [Sales -> Nat]
  <2>1. stored \in [Sales -> Nat]
    BY DEF LinkInv, LinkTypeOK
  <2> QED  BY <2>1, <1>1, <1>3
<1>5. handling' \in [Conns -> 0 .. made]
  BY <1>1, <1>2 DEF LinkInv, LinkTypeOK
<1>6. handler' \in [Conns -> {"none", "running", "update", "answer", "done"}]
  BY <1>1 DEF LinkInv, LinkTypeOK
<1>7. LinkTypeOK'
  BY <1>1, <1>2, <1>4, <1>5, <1>6
  DEF LinkInv, LinkTypeOK, queueVars, sockVars, threadVars, counters
<1> QED  BY <1>1, <1>7, MachineUnchanged DEF LinkInv

LEMMA UpdateInventoryInv == ASSUME LinkInv, NEW c \in Conns, UpdateInventory(c) PROVE LinkInv'
<1>1. /\ snapshot' = handling[c] /\ handler' = [handler EXCEPT ![c] = "answer"]
      /\ UNCHANGED <<queueVars, sockVars, threadVars, wireVars, handling, named,
                     registered, stored, counters>>
  BY DEF UpdateInventory
<1>2. handler' \in [Conns -> {"none", "running", "update", "answer", "done"}]
  BY <1>1 DEF LinkInv, LinkTypeOK
<1>3. LinkTypeOK'
  BY <1>1, <1>2, WireTypes DEF LinkInv, LinkTypeOK, queueVars, sockVars, threadVars, wireVars, counters
<1> QED  BY <1>1, <1>3, MachineUnchanged DEF LinkInv

LEMMA AnswerSaleInv ==
  ASSUME LinkInv, NEW c \in Conns, NEW low \in BOOLEAN, AnswerSale(c, low) PROVE LinkInv'
<1>1. /\ named' = named \cup {c} /\ registered' = IF c \in named THEN registered ELSE c
      /\ Reply(c, IF low THEN <<"ACK", "COMMAND">> ELSE <<"ACK">>)
      /\ handling' = [handling EXCEPT ![c] = 0]
      /\ handler' = [handler EXCEPT ![c] = "running"]
      /\ UNCHANGED <<queueVars, sockVars, threadVars, conn, up, stored, snapshot, counters>>
  BY DEF AnswerSale
<1>2. <<"ACK", "COMMAND">> \in Seq({"ACK", "COMMAND"}) /\ <<"ACK">> \in Seq({"ACK", "COMMAND"})
  OBVIOUS
<1>3. down' \in [Conns -> Seq({"ACK", "COMMAND"})]
  BY <1>1, <1>2, ReplyTypes
<1>4. handler' \in [Conns -> {"none", "running", "update", "answer", "done"}]
  BY <1>1 DEF LinkInv, LinkTypeOK
<1>5. handling' \in [Conns -> 0 .. made]
  <2>1. 0 \in 0 .. made
    BY LinkNumbers
  <2> QED  BY <2>1, <1>1 DEF LinkInv, LinkTypeOK
<1>6. named' \in SUBSET Conns /\ registered' \in 0 .. MaxConns
  BY <1>1, LinkConstants DEF LinkInv, LinkTypeOK, Conns
<1>7. LinkTypeOK'
  BY <1>1, <1>3, <1>4, <1>5, <1>6
  DEF LinkInv, LinkTypeOK, queueVars, sockVars, threadVars, counters
<1> QED  BY <1>1, <1>7, MachineUnchanged DEF LinkInv

LEMMA HandleHeartbeatInv == ASSUME LinkInv, NEW c \in Conns, HandleHeartbeat(c) PROVE LinkInv'
<1>1. /\ up[c] # << >> /\ up' = [up EXCEPT ![c] = Tail(@)] /\ Reply(c, <<"ACK">>)
      /\ UNCHANGED <<queueVars, sockVars, threadVars, conn, serverVars, counters>>
  BY DEF HandleHeartbeat
<1>2. <<"ACK">> \in Seq({"ACK", "COMMAND"})
  OBVIOUS
<1>3. down' \in [Conns -> Seq({"ACK", "COMMAND"})] /\ up' \in [Conns -> Seq(0 .. made)]
  BY <1>1, <1>2, ReplyTypes, UpTail
<1>4. LinkTypeOK'
  BY <1>1, <1>3 DEF LinkInv, LinkTypeOK, queueVars, sockVars, threadVars, serverVars, counters
<1> QED  BY <1>1, <1>4, MachineUnchanged DEF LinkInv

LEMMA HandlerEndsInv == ASSUME LinkInv, NEW c \in Conns, HandlerEnds(c) PROVE LinkInv'
<1>1. /\ handler' = [handler EXCEPT ![c] = "done"]
      /\ registered' = IF c \in named THEN 0 ELSE registered
      /\ UNCHANGED <<queueVars, sockVars, threadVars, wireVars, handling, named, stored,
                     snapshot, counters>>
  BY DEF HandlerEnds
<1>2. handler' \in [Conns -> {"none", "running", "update", "answer", "done"}]
  BY <1>1 DEF LinkInv, LinkTypeOK
<1>3. registered' \in 0 .. MaxConns
  BY <1>1, LinkConstants DEF LinkInv, LinkTypeOK
<1>4. LinkTypeOK'
  BY <1>1, <1>2, <1>3 DEF LinkInv, LinkTypeOK, queueVars, sockVars, threadVars, wireVars, counters
<1> QED  BY <1>1, <1>4, MachineUnchanged DEF LinkInv

LEMMA ResetInv == ASSUME LinkInv, NEW c \in Conns, Reset(c) PROVE LinkInv'
<1>1. /\ resets < MaxResets /\ resets' = resets + 1
      /\ conn' = [conn EXCEPT ![c] = IF @ = "open" THEN "reset" ELSE @]
      /\ up' = [up EXCEPT ![c] = << >>] /\ down' = [down EXCEPT ![c] = << >>]
      /\ UNCHANGED <<queueVars, sockVars, threadVars, serverVars, timeouts, beats>>
  BY DEF Reset
<1>2. << >> \in Seq({"ACK", "COMMAND"}) /\ << >> \in Seq(0 .. made)
  OBVIOUS
<1>3. down' \in [Conns -> Seq({"ACK", "COMMAND"})] /\ up' \in [Conns -> Seq(0 .. made)]
  BY <1>1, <1>2 DEF LinkInv, LinkTypeOK
<1>4. resets' \in 0 .. MaxResets
  <2>1. resets \in 0 .. MaxResets /\ MaxResets \in Nat
    BY LinkConstants DEF LinkInv, LinkTypeOK
  <2> QED  BY <2>1, <1>1
<1>5. conn' \in [Conns -> {"unused", "open", "reset", "closed"}]
  BY <1>1 DEF LinkInv, LinkTypeOK
<1>6. LinkTypeOK'
  BY <1>1, <1>3, <1>4, <1>5 DEF LinkInv, LinkTypeOK, queueVars, sockVars, threadVars, serverVars
<1> QED  BY <1>1, <1>6, MachineUnchanged DEF LinkInv

LEMMA LinkInvNext == ASSUME LinkInv, [LinkNext]_vars PROVE LinkInv'
<1>1. ASSUME UNCHANGED vars PROVE LinkInv'
  BY <1>1 DEF vars, queueVars, sockVars, threadVars, wireVars, serverVars, counters,
              LinkInv, LinkTypeOK, InOrder, Taken, Control
<1>2. ASSUME NEW t \in Threads, ThreadStep(t) PROVE LinkInv'
  BY <1>2, SendRawInv, SendFailsInv, AwaitAckInv, RecvInv, ReadAckInv, ReadCommandInv, ReadFailsInv,
     ReadTimesOutInv, DisconnectInv, CloseSockInv, ClearSockInv, ConnectInv, OnlineInv, DiesInv
  DEF ThreadStep
<1>3. ASSUME NEW c \in Conns, HandlerStep(c) PROVE LinkInv'
  BY <1>3, RecordSaleInv, UpdateInventoryInv, AnswerSaleInv, HandleHeartbeatInv, HandlerEndsInv
  DEF HandlerStep
<1>4. "sender" \in Threads /\ "heartbeat" \in Threads
  BY DEF Threads
<1> QED  BY <1>1, <1>2, <1>3, <1>4, MakeSaleInv, DequeueInv, StartSendingInv, BeatInv, ResetInv
         DEF LinkNext, SenderStep

LEMMA LinkInvAlways == LinkSpec => []LinkInv
BY LinkInvInit, LinkInvNext, PTL DEF LinkSpec

(* The variables keep their types; a record on the wire, with a handler or  *)
(* in the queue is one that was made (client_socket.py:43-64).              *)
THEOREM LinkTypeCorrect == LinkSpec => []LinkTypeOK
<1>1. LinkInv => LinkTypeOK
  BY DEF LinkInv
<1> QED  BY <1>1, LinkInvAlways, PTL

(* The link implements SaleFeed: whatever fails, is repeated or requeued,   *)
(* sales are confirmed once each and in the order in which they were made   *)
(* (transaction.py:44-53, client_socket.py:223-251).                        *)
THEOREM LinkImplementsFeed == LinkSpec => ImplementsFeed
<1>1. Init => Feed!Init
  BY DEF Init, Feed!Init
<1>2. ASSUME LinkInv, [LinkNext]_vars PROVE [Feed!Next]_Feed!vars
  <2>1. ASSUME MakeSale PROVE Feed!Make
    BY <2>1 DEF MakeSale, Feed!Make
  <2>2. ASSUME NEW t \in Threads, ReadAck(t), t = "sender" PROVE Feed!Confirm
    <3>1. record # 0 /\ Delivered /\ UNCHANGED made
      BY <2>2, <1>2 DEF ReadAck, LinkInv, Control
    <3>2. record = Len(acked) + 1 /\ acked' = Append(acked, record) /\ UNCHANGED made
      BY <3>1, <1>2, DeliveredInOrder DEF Delivered
    <3>3. Len(acked) < made
      BY <3>2, <1>2, LinkNumbers
    <3> QED  BY <3>2, <3>3 DEF Feed!Confirm
  <2>3. ASSUME NEW t \in Threads, ThreadStep(t), ~(t = "sender" /\ ReadAck(t))
        PROVE  UNCHANGED <<made, acked>>
    BY <2>3 DEF ThreadStep, SendRaw, SendFails, AwaitAck, Recv, ReadAck, ReadCommand, ReadFails,
                ReadTimesOut, WaitFails, Disconnect, CloseSock, ClearSock, Connect, Online, Dies,
                queueVars
  <2>4. ASSUME NEW c \in Conns, HandlerStep(c) \/ Reset(c) PROVE UNCHANGED <<made, acked>>
    BY <2>4 DEF HandlerStep, RecordSale, UpdateInventory, AnswerSale, HandleHeartbeat, HandlerEnds,
                Reset, queueVars
  <2>5. ASSUME Dequeue \/ StartSending \/ Beat \/ UNCHANGED vars PROVE UNCHANGED <<made, acked>>
    BY <2>5 DEF Dequeue, StartSending, Beat, vars, queueVars
  <2>6. "sender" \in Threads /\ "heartbeat" \in Threads
    BY DEF Threads
  <2> QED  BY <1>2, <2>1, <2>2, <2>3, <2>4, <2>5, <2>6 DEF LinkNext, SenderStep, Feed!Next, Feed!vars
<1> QED  BY <1>1, <1>2, LinkInvAlways, PTL DEF LinkSpec, ImplementsFeed, Feed!Spec

-----------------------------------------------------------------------------
(***************************************************************************)
(* The registry.                                                           *)
(***************************************************************************)

\* Only a handler that knows its machine is registered, and it is there.
Registry ==
  registered # 0 => registered \in named /\ handler[registered] \notin {"none", "done"}

LEMMA RegistryNext == ASSUME LinkInv, Registry, [LinkNext]_vars PROVE Registry'
<1>0. /\ handler \in [Conns -> {"none", "running", "update", "answer", "done"}]
      /\ named \in SUBSET Conns /\ (registered # 0 => registered \in Conns)
  BY LinkConstants DEF LinkInv, LinkTypeOK, Conns
<1>1. ASSUME NEW t \in Threads, NEW c \in Conns, Connect(t, c) PROVE Registry'
  BY <1>0, <1>1 DEF Connect, Registry
<1>2. ASSUME NEW c \in Conns, RecordSale(c) \/ UpdateInventory(c) \/ HandlerEnds(c)
      PROVE  Registry'
  BY <1>0, <1>2 DEF RecordSale, UpdateInventory, HandlerEnds, Registry
<1>3. ASSUME NEW c \in Conns, NEW low \in BOOLEAN, AnswerSale(c, low) PROVE Registry'
  BY <1>0, <1>3 DEF AnswerSale, Registry
<1>4. ASSUME NEW t \in Threads, ThreadStep(t), ~\E c \in Conns : Connect(t, c)
      PROVE  UNCHANGED serverVars
  BY <1>4 DEF ThreadStep, SendRaw, SendFails, AwaitAck, Recv, ReadAck, ReadCommand, ReadFails,
              ReadTimesOut, WaitFails, Disconnect, CloseSock, ClearSock, Online, Dies
<1>5. ASSUME NEW c \in Conns, HandleHeartbeat(c) \/ Reset(c) PROVE UNCHANGED serverVars
  BY <1>5 DEF HandleHeartbeat, Reset
<1>6. ASSUME MakeSale \/ Dequeue \/ StartSending \/ Beat \/ UNCHANGED vars
      PROVE  UNCHANGED serverVars
  BY <1>6 DEF MakeSale, Dequeue, StartSending, Beat, vars, serverVars
<1>7. UNCHANGED serverVars => Registry'
  BY DEF serverVars, Registry
<1>8. "sender" \in Threads /\ "heartbeat" \in Threads
  BY DEF Threads
<1> QED  BY <1>1, <1>2, <1>3, <1>4, <1>5, <1>6, <1>7, <1>8
         DEF LinkNext, SenderStep, HandlerStep

(* The registry names only handlers whose thread has not ended, however the *)
(* handlers of a machine's old and new connections register and end         *)
(* (server_handler.py:31-36, 84-87, 115-118).                               *)
THEOREM RegisteredRuns == LinkSpec => []RegisteredIsRunning
<1>1. Init => Registry
  BY DEF Init, Registry
<1>2. Registry => RegisteredIsRunning
  BY DEF Registry, RegisteredIsRunning
<1> QED  BY <1>1, <1>2, RegistryNext, LinkInvAlways, PTL DEF LinkSpec

-----------------------------------------------------------------------------
(***************************************************************************)
(* Without heartbeats the sender is alone with the socket.                 *)
(***************************************************************************)

\* Nobody takes the socket away from the sender between its looks at _sock.
Alone ==
  beats = 0 =>
    /\ pc["heartbeat"] = "idle" /\ recv_lock # "heartbeat"
    /\ pc["sender"] # "dead"
    /\ pc["sender"] \notin {"clear", "connect"} => SockUsable
    /\ pc["sender"] = "reading" => reading["sender"] = sock

LEMMA AloneNext == ASSUME LinkInv, Alone, [LinkNext]_vars PROVE Alone'
<1> USE DEF SockUsable
<1>0. /\ pc \in [Threads -> PcValues] /\ reading \in [Threads -> 0 .. MaxConns]
      /\ conn \in [Conns -> {"unused", "open", "reset", "closed"}]
      /\ recv_lock \in {"sender", "heartbeat", "free"} /\ beats \in Nat
      /\ sock # 0 => sock \in Conns
      /\ 0 \notin Conns
  BY LinkNumbers, LinkConstants, SMTT(30) DEF LinkInv, LinkTypeOK, Conns, Threads
<1>1. CASE beats' # 0
  BY <1>1 DEF Alone
<1>2. CASE beats' = 0
  <2>1. beats = 0 /\ ~Beat
    <3>1. ~Beat
      BY <1>0, <1>2 DEF Beat
    <3> QED  BY <3>1, <1>2 DEF LinkNext, SenderStep, ThreadStep, HandlerStep, MakeSale, Dequeue,
           StartSending, SendRaw, SendFails, AwaitAck, Recv, ReadAck, ReadCommand, ReadFails,
           ReadTimesOut, Disconnect, CloseSock, ClearSock, Connect, Online, Dies, RecordSale,
           UpdateInventory, AnswerSale, HandleHeartbeat, HandlerEnds, Reset, vars, counters
  <2>2. ~ThreadStep("heartbeat")
    BY <2>1 DEF Alone, ThreadStep, SendRaw, SendFails, AwaitAck, Recv, ReadAck, ReadCommand,
                ReadFails, ReadTimesOut, Disconnect, CloseSock, ClearSock, Connect, Online, Dies
  <2>3. ASSUME MakeSale \/ UNCHANGED vars PROVE Alone'
    BY <2>3 DEF Alone, MakeSale, vars, sockVars, threadVars, wireVars, counters
  <2>4. ASSUME Dequeue \/ StartSending PROVE Alone'
    BY <2>4, <2>1, <1>0 DEF Alone, Dequeue, StartSending, Goto, Requeue, Threads, PcValues,
                            sockVars, wireVars, counters
  <2>5. ASSUME SendRaw("sender") \/ SendFails("sender") \/ AwaitAck("sender") \/ Recv("sender")
        PROVE  Alone'
    BY <2>5, <2>1, <1>0 DEF Alone, SendRaw, SendFails, AwaitAck, Recv, Goto, Threads, PcValues,
                            sockVars, wireVars, counters
  <2>6. ASSUME ReadAck("sender") \/ ReadCommand("sender") PROVE Alone'
    BY <2>6, <2>1, <1>0 DEF Alone, ReadAck, ReadCommand, Goto, Threads, PcValues, sockVars, counters
  <2>7. ASSUME NextAttempt, pc["sender"] # "idle", pc["sender"] \notin {"clear", "connect"},
               recv_lock' \in {recv_lock, "free"},
               UNCHANGED <<sock, conn>>
        PROVE  Alone'
    <3>1. pc' = [pc EXCEPT !["sender"] = "send"] \/ pc' = [pc EXCEPT !["sender"] = "idle"]
      BY <2>7 DEF NextAttempt, Goto
    <3> QED  BY <3>1, <2>7, <2>1, <1>0 DEF Alone, Threads, PcValues
  <2>8. ASSUME ReadFails("sender") \/ ReadTimesOut("sender") \/ Online("sender") PROVE Alone'
    <3>1. /\ NextAttempt /\ pc["sender"] \in {"reading", "online"}
          /\ recv_lock' \in {recv_lock, "free"} /\ UNCHANGED <<sock, conn>>
      BY <2>8 DEF ReadFails, ReadTimesOut, WaitFails, Online, sockVars, wireVars
    <3> QED  BY <3>1, <2>7
  <2>9. ASSUME Disconnect("sender") \/ CloseSock("sender") \/ ClearSock("sender") PROVE Alone'
    BY <2>9, <2>1, <1>0 DEF Alone, Disconnect, CloseSock, ClearSock, Goto, Threads, PcValues,
                            sockVars, wireVars, counters
  <2>10. ASSUME NEW c \in Conns, Connect("sender", c) PROVE Alone'
    BY <2>10, <2>1, <1>0 DEF Alone, Connect, Goto, Threads, PcValues, counters
  <2>11. ~Dies("sender")
    BY <2>1, <1>0 DEF Alone, Dies
  <2>12. ASSUME NEW c \in Conns, HandlerStep(c) \/ Reset(c) PROVE Alone'
    BY <2>12, <2>1, <1>0 DEF Alone, HandlerStep, RecordSale, UpdateInventory, AnswerSale,
       HandleHeartbeat, HandlerEnds, Reset, sockVars, threadVars, wireVars, counters
  <2> QED  BY <2>1, <2>2, <2>3, <2>4, <2>5, <2>6, <2>8, <2>9, <2>10, <2>11, <2>12
           DEF LinkNext, SenderStep, ThreadStep
<1> QED  BY <1>1, <1>2

LEMMA AloneInit == Init => Alone
BY LinkConstants DEF Init, Alone, SockUsable, Threads, Conns

LEMMA AloneAlways == LinkSpec => []Alone
BY AloneInit, AloneNext, LinkInvAlways, PTL DEF LinkSpec

(* Without heartbeats no failure of the link kills the sender thread        *)
(* (client_socket.py:148-161).                                              *)
THEOREM SenderLives == LinkSpec => []SenderSurvives
<1>1. Alone => SenderSurvives
  BY DEF Alone, SenderSurvives
<1> QED  BY <1>1, AloneAlways, PTL

-----------------------------------------------------------------------------
(***************************************************************************)
(* What may still reach the server's stock, and in which order.            *)
(***************************************************************************)

\* A connection is opened empty, and only once.
OpenedEmpty ==
  /\ sock # 0 => conn[sock] # "unused"
  /\ \A c \in Conns : conn[c] = "unused" => up[c] = << >> /\ down[c] = << >>

\* What the server has seen or may still see is no newer than the record the
\* sender works on.
NothingNewer ==
  /\ snapshot <= Len(acked) + 1
  /\ \A c \in Conns :
       /\ handling[c] <= Len(acked) + 1
       /\ \A i \in 1 .. Len(up[c]) : up[c][i] <= Len(acked) + 1

\* The sale n is none of those behind the ones under way on the present
\* connection.
NotAfter(n) ==
  /\ handler[sock] = "update" => n <= handling[sock]
  /\ \A j \in 1 .. Len(up[sock]) : up[sock][j] # HEARTBEAT => n <= up[sock][j]

\* On the present connection sales are in order, and behind those the server
\* shows and those on other connections.
NewestLast ==
  sock # 0 =>
    /\ NotAfter(snapshot)
    /\ \A c \in Conns \ {sock} :
         NotAfter(handling[c]) /\ \A i \in 1 .. Len(up[c]) : NotAfter(up[c][i])
    /\ handler[sock] = "update" =>
         \A j \in 1 .. Len(up[sock]) : up[sock][j] # HEARTBEAT => handling[sock] <= up[sock][j]
    /\ \A i, j \in 1 .. Len(up[sock]) :
         i < j /\ up[sock][j] # HEARTBEAT => up[sock][i] <= up[sock][j]

StockInv == OpenedEmpty /\ NothingNewer /\ NewestLast

LEMMA StockInvInit == Init => StockInv
<1> SUFFICES ASSUME Init PROVE StockInv
  OBVIOUS
<1>1. /\ sock = 1 /\ conn[1] = "open" /\ 1 \in Conns /\ Len(acked) = 0 /\ snapshot = 0
      /\ \A c \in Conns : up[c] = << >> /\ down[c] = << >> /\ handling[c] = 0 /\ Len(up[c]) = 0
      /\ handler[1] = "running"
  BY LinkConstants DEF Init, Conns
<1> QED  BY <1>1 DEF StockInv, OpenedEmpty, NothingNewer, NewestLast, NotAfter

\* Numbers the proofs of this part compare.
LEMMA StockNumbers ==
  ASSUME LinkInv
  PROVE  /\ snapshot \in Nat /\ Len(acked) \in Nat
         /\ \A c \in Conns : /\ handling[c] \in Nat /\ Len(up[c]) \in Nat
                             /\ \A i \in 1 .. Len(up[c]) : up[c][i] \in Nat
<1>1. snapshot \in Nat /\ Len(acked) \in Nat /\ made \in Nat
  BY LinkNumbers DEF LinkInv, LinkTypeOK
<1> QED  BY <1>1, WireTypes

LEMMA SendRawStock ==
  ASSUME LinkInv, StockInv, NEW t \in Threads, SendRaw(t) PROVE StockInv'
<1>1. /\ pc[t] = "send" /\ sock \in Conns /\ conn[sock] = "open"
      /\ up' = [up EXCEPT ![sock] = Append(@, Message(t))]
      /\ UNCHANGED <<acked, sock, conn, down, handler, handling, snapshot>>
  BY LinkNumbers DEF SendRaw, queueVars, sockVars, serverVars
<1>2. up \in [Conns -> Seq(0 .. made)]
  BY DEF LinkInv, LinkTypeOK
<1>3. Message(t) \in 0 .. made /\ (Message(t) # HEARTBEAT => Message(t) = Len(acked) + 1)
  BY LinkNumbers DEF Message, HEARTBEAT, LinkInv, InOrder
<1>4. /\ Len(up'[sock]) = Len(up[sock]) + 1
      /\ \A i \in 1 .. Len(up[sock]) : up'[sock][i] = up[sock][i]
      /\ up'[sock][Len(up[sock]) + 1] = Message(t)
  BY <1>1, <1>2, <1>3, AppendProperties
<1>5. \A b \in Conns : b # sock => up'[b] = up[b]
  BY <1>1, <1>2
<1>6. OpenedEmpty'
  BY <1>1, <1>5 DEF StockInv, OpenedEmpty
<1>7. Message(t) \in Nat /\ Message(t) <= Len(acked) + 1
  BY <1>3, StockNumbers, LinkNumbers DEF HEARTBEAT
<1>8. \A i \in 1 .. Len(up'[sock]) : i = Len(up[sock]) + 1 \/ i \in 1 .. Len(up[sock])
  BY <1>1, <1>4, StockNumbers
<1>9. NothingNewer'
  <2> SUFFICES ASSUME NEW c \in Conns
               PROVE  \A i \in 1 .. Len(up'[c]) : up'[c][i] <= Len(acked') + 1
    BY <1>1 DEF StockInv, NothingNewer
  <2>1. CASE c = sock
    BY <2>1, <1>1, <1>4, <1>7, <1>8 DEF StockInv, NothingNewer
  <2>2. CASE c # sock
    BY <2>2, <1>1, <1>5 DEF StockInv, NothingNewer
  <2> QED  BY <2>1, <2>2
<1>10. ASSUME NEW n \in Nat, NotAfter(n), n <= Len(acked) + 1 PROVE NotAfter(n)'
  <2> SUFFICES ASSUME NEW j \in 1 .. Len(up'[sock]), up'[sock][j] # HEARTBEAT
               PROVE  n <= up'[sock][j]
    BY <1>10, <1>1 DEF NotAfter
  <2>1. CASE j = Len(up[sock]) + 1
    BY <2>1, <1>3, <1>4, <1>10
  <2>2. CASE j \in 1 .. Len(up[sock])
    BY <2>2, <1>4, <1>10 DEF NotAfter
  <2> QED  BY <2>1, <2>2, <1>8
<1>11. NewestLast'
  <2>1. NotAfter(snapshot)'
    BY <1>1, <1>10, StockNumbers DEF StockInv, NewestLast, NothingNewer, NotAfter, Conns
  <2>2. ASSUME NEW c \in Conns \ {sock}
        PROVE  NotAfter(handling[c])' /\ \A i \in 1 .. Len(up'[c]) : NotAfter(up[c][i])'
    <3>1. up'[c] = up[c] /\ handling'[c] = handling[c]
      BY <2>2, <1>1, <1>5
    <3>2. NotAfter(handling[c]) /\ \A i \in 1 .. Len(up[c]) : NotAfter(up[c][i])
      BY <2>2, <1>1 DEF StockInv, NewestLast, Conns
    <3>3. NotAfter(handling[c])'
      BY <3>1, <3>2, <1>10, StockNumbers DEF StockInv, NothingNewer, NotAfter
    <3>4. ASSUME NEW i \in 1 .. Len(up'[c]) PROVE NotAfter(up[c][i])'
      BY <3>1, <3>2, <1>10, StockNumbers DEF StockInv, NothingNewer, NotAfter
    <3> QED  BY <3>3, <3>4
  <2>3. ASSUME handler'[sock] = "update", NEW j \in 1 .. Len(up'[sock]), up'[sock][j] # HEARTBEAT
        PROVE  handling'[sock] <= up'[sock][j]
    <3>1. CASE j = Len(up[sock]) + 1
      BY <2>3, <3>1, <1>1, <1>3, <1>4 DEF StockInv, NothingNewer
    <3>2. CASE j \in 1 .. Len(up[sock])
      BY <2>3, <3>2, <1>1, <1>4 DEF StockInv, NewestLast, Conns
    <3> QED  BY <3>1, <3>2, <1>8
  <2>4. ASSUME NEW i \in 1 .. Len(up'[sock]), NEW j \in 1 .. Len(up'[sock]), i < j,
               up'[sock][j] # HEARTBEAT
        PROVE  up'[sock][i] <= up'[sock][j]
    <3>0. i \in 1 .. Len(up[sock])
      BY <2>4, <1>1, <1>4, StockNumbers
    <3>1. CASE j = Len(up[sock]) + 1
      BY <2>4, <3>0, <3>1, <1>1, <1>3, <1>4 DEF StockInv, NothingNewer
    <3>2. CASE j \in 1 .. Len(up[sock])
      BY <2>4, <3>0, <3>2, <1>1, <1>4 DEF StockInv, NewestLast, Conns
    <3> QED  BY <3>1, <3>2, <1>8
  <2> QED  BY <2>1, <2>2, <2>3, <2>4, <1>1 DEF NewestLast
<1> QED  BY <1>6, <1>9, <1>11 DEF StockInv

\* The handler takes no notice of the first message, or starts on it.
TakenOver(c) ==
  \/ UNCHANGED handler /\ UNCHANGED handling
  \/ /\ handling' = [handling EXCEPT ![c] = Head(up[c])] /\ Head(up[c]) # HEARTBEAT
     /\ handler' = [handler EXCEPT ![c] = "update"] /\ handler[c] = "running"

\* Steps of a handler that take the first message off its connection.
LEMMA TakesFirst ==
  ASSUME LinkInv, StockInv, NEW c \in Conns, up[c] # << >>, up' = [up EXCEPT ![c] = Tail(@)],
         UNCHANGED acked, UNCHANGED sock, UNCHANGED conn, UNCHANGED snapshot,
         \A b \in Conns : conn[b] = "unused" => down'[b] = down[b],
         TakenOver(c)
  PROVE  StockInv'
<1> USE DEF TakenOver
<1>1. /\ up' \in [Conns -> Seq(0 .. made)]
      /\ Head(up[c]) = up[c][1] /\ 1 \in 1 .. Len(up[c])
      /\ Len(up'[c]) = Len(up[c]) - 1
      /\ \A i \in 1 .. Len(up'[c]) : up'[c][i] = up[c][i + 1] /\ i + 1 \in 1 .. Len(up[c])
      /\ \A b \in Conns : b # c => up'[b] = up[b]
  <2>1. Len(up[c]) \in Nat
    BY StockNumbers
  <2>2. /\ up' \in [Conns -> Seq(0 .. made)]
        /\ Head(up[c]) = up[c][1] /\ Len(up[c]) >= 1
        /\ Len(up'[c]) = Len(up[c]) - 1
        /\ \A i \in 1 .. Len(up'[c]) : up'[c][i] = up[c][i + 1]
        /\ \A b \in Conns : b # c => up'[b] = up[b]
    BY UpTail
  <2>3. 1 \in 1 .. Len(up[c]) /\ \A i \in 1 .. Len(up'[c]) : i + 1 \in 1 .. Len(up[c])
    BY <2>1, <2>2
  <2> QED  BY <2>2, <2>3
<1>2. /\ handling \in [Conns -> 0 .. made]
      /\ handler \in [Conns -> {"none", "running", "update", "answer", "done"}]
  BY DEF LinkInv, LinkTypeOK
<1>3. conn[c] # "unused"
  BY DEF StockInv, OpenedEmpty
<1>4. OpenedEmpty'
  BY <1>1, <1>3 DEF StockInv, OpenedEmpty
<1>5. NothingNewer'
  <2> SUFFICES ASSUME NEW b \in Conns
               PROVE  /\ handling'[b] <= Len(acked) + 1
                      /\ \A i \in 1 .. Len(up'[b]) : up'[b][i] <= Len(acked) + 1
    BY DEF StockInv, NothingNewer
  <2>1. CASE b = c
    <3>1. /\ handling[c] <= Len(acked) + 1
          /\ \A i \in 1 .. Len(up[c]) : up[c][i] <= Len(acked) + 1
      BY DEF StockInv, NothingNewer
    <3>2. handling'[c] \in {handling[c], up[c][1]}
      BY <1>1, <1>2
    <3> QED  BY <2>1, <3>1, <3>2, <1>1
  <2>2. CASE b # c
    <3>1. handling'[b] = handling[b] /\ up'[b] = up[b]
      BY <2>2, <1>1, <1>2
    <3> QED  BY <3>1 DEF StockInv, NothingNewer
  <2> QED  BY <2>1, <2>2
<1>6. ASSUME sock # 0, c # sock PROVE NewestLast'
  <2>1. /\ sock \in Conns /\ up'[sock] = up[sock] /\ handler'[sock] = handler[sock]
        /\ handling'[sock] = handling[sock]
    BY <1>1, <1>2, <1>6, LinkNumbers
  <2>2. \A n : NotAfter(n) => NotAfter(n)'
    BY <2>1 DEF NotAfter
  <2>3. ASSUME NEW b \in Conns \ {sock}
        PROVE  NotAfter(handling[b])' /\ \A i \in 1 .. Len(up'[b]) : NotAfter(up[b][i])'
    <3>0. NotAfter(handling[b]) /\ \A i \in 1 .. Len(up[b]) : NotAfter(up[b][i])
      BY <1>6 DEF StockInv, NewestLast
    <3>1. CASE b = c
      <4>1. handling'[c] \in {handling[c], up[c][1]}
        BY <1>1, <1>2
      <4>2. NotAfter(handling'[c]) /\ \A i \in 1 .. Len(up'[c]) : NotAfter(up'[c][i])
        BY <3>0, <3>1, <4>1, <1>1
      <4>3. NotAfter(handling[b])'
        BY <3>1, <4>2, <2>1 DEF NotAfter
      <4>4. ASSUME NEW i \in 1 .. Len(up'[b]) PROVE NotAfter(up[b][i])'
        <5>1. NotAfter(up'[c][i])
          BY <3>1, <4>2
        <5> QED  BY <3>1, <5>1, <2>1 DEF NotAfter
      <4> QED  BY <4>3, <4>4
    <3>2. CASE b # c
      <4>1. handling'[b] = handling[b] /\ up'[b] = up[b]
        BY <3>2, <1>1, <1>2
      <4> QED  BY <3>0, <4>1, <2>1 DEF NotAfter
    <3> QED  BY <3>1, <3>2
  <2> QED  BY <2>1, <2>3, <1>6 DEF StockInv, NewestLast, NotAfter
<1>7. ASSUME sock # 0, c = sock PROVE NewestLast'
  <2>1. ASSUME NEW n \in Nat, NotAfter(n) PROVE NotAfter(n)'
    BY <2>1, <1>1, <1>2, <1>7 DEF NotAfter
  <2>2. \A b \in Conns : b # c => up'[b] = up[b] /\ handling'[b] = handling[b]
    BY <1>1, <1>2
  <2>3. NotAfter(snapshot)'
    BY <2>1, <1>7, StockNumbers DEF StockInv, NewestLast, NotAfter
  <2>4. ASSUME NEW b \in Conns \ {sock}
        PROVE  NotAfter(handling[b])' /\ \A i \in 1 .. Len(up'[b]) : NotAfter(up[b][i])'
    BY <2>1, <2>2, <2>4, <1>7, StockNumbers, ZenonT(30) DEF StockInv, NewestLast, NotAfter
  <2>5. ASSUME handler'[sock] = "update", NEW j \in 1 .. Len(up'[sock]), up'[sock][j] # HEARTBEAT
        PROVE  handling'[sock] <= up'[sock][j]
    <3>1. /\ up'[sock][j] = up[sock][j + 1] /\ j + 1 \in 1 .. Len(up[sock])
          /\ 1 \in 1 .. Len(up[sock]) /\ 1 < j + 1
      BY <2>5, <1>1, <1>7
    <3>2. handler[sock] = "update" => handling[sock] <= up[sock][j + 1]
      BY <2>5, <3>1, <1>7 DEF StockInv, NewestLast
    <3>3. up[sock][1] <= up[sock][j + 1]
      BY <2>5, <3>1, <1>7 DEF StockInv, NewestLast
    <3>4. handling'[sock] = up[sock][1] \/ (handling'[sock] = handling[sock] /\ handler[sock] = "update")
      BY <2>5, <1>1, <1>2, <1>7
    <3> QED  BY <3>1, <3>2, <3>3, <3>4
  <2>6. ASSUME NEW i \in 1 .. Len(up'[sock]), NEW j \in 1 .. Len(up'[sock]), i < j,
               up'[sock][j] # HEARTBEAT
        PROVE  up'[sock][i] <= up'[sock][j]
    BY <2>6, <1>1, <1>7 DEF StockInv, NewestLast
  <2> QED  BY <2>3, <2>4, <2>5, <2>6, ZenonT(30) DEF NewestLast
<1>8. sock = 0 => NewestLast'
  BY DEF NewestLast
<1> QED  BY <1>4, <1>5, <1>6, <1>7, <1>8 DEF StockInv

LEMMA UpdateInventoryStock ==
  ASSUME LinkInv, StockInv, NEW c \in Conns, UpdateInventory(c) PROVE StockInv'
<1>1. /\ handler[c] = "update" /\ snapshot' = handling[c]
      /\ handler' = [handler EXCEPT ![c] = "answer"]
      /\ UNCHANGED <<acked, sock, conn, up, down, handling>>
  BY DEF UpdateInventory, queueVars, sockVars, wireVars
<1>2. handler \in [Conns -> {"none", "running", "update", "answer", "done"}]
  BY DEF LinkInv, LinkTypeOK
<1>3. OpenedEmpty' /\ NothingNewer'
  BY <1>1 DEF StockInv, OpenedEmpty, NothingNewer
<1>4. NewestLast'
  BY <1>1, <1>2 DEF StockInv, NewestLast, NotAfter
<1> QED  BY <1>3, <1>4 DEF StockInv

LEMMA ConnectStock ==
  ASSUME LinkInv, StockInv, NEW t \in Threads, NEW c \in Conns, Connect(t, c) PROVE StockInv'
<1>1. /\ conn[c] = "unused" /\ conn' = [conn EXCEPT ![c] = "open"] /\ sock' = c
      /\ handler' = [handler EXCEPT ![c] = "running"]
      /\ UNCHANGED <<acked, up, down, handling, snapshot>>
  BY DEF Connect, queueVars
<1>2. up[c] = << >> /\ Len(up[c]) = 0
  BY <1>1 DEF StockInv, OpenedEmpty
<1>3. handler'[c] = "running" /\ conn'[c] = "open"
  BY <1>1 DEF LinkInv, LinkTypeOK
<1>4. OpenedEmpty'
  BY <1>1, <1>3 DEF StockInv, OpenedEmpty, LinkInv, LinkTypeOK
<1>5. NothingNewer'
  BY <1>1 DEF StockInv, NothingNewer
<1>6. NewestLast'
  BY <1>1, <1>2, <1>3 DEF NewestLast, NotAfter
<1> QED  BY <1>4, <1>5, <1>6 DEF StockInv

\* Steps that bring nothing new: messages may go, handlers may finish, the
\* socket may be given up.
LEMMA StockShrinks ==
  ASSUME LinkInv, StockInv, sock' \in {sock, 0}, UNCHANGED snapshot,
         Len(acked') \in Nat, Len(acked) <= Len(acked'),
         \A c \in Conns :
           /\ up'[c] \in {up[c], << >>} /\ handling'[c] \in {handling[c], 0}
           /\ handler'[c] = "update" => handler[c] = "update" /\ handling'[c] = handling[c]
           /\ (conn'[c] = "unused") <=> (conn[c] = "unused")
           /\ conn[c] = "unused" => down'[c] = down[c]
  PROVE  StockInv'
<1>1. /\ snapshot \in Nat /\ Len(acked) \in Nat /\ Len(<< >>) = 0
      /\ \A c \in Conns : /\ handling[c] \in Nat /\ Len(up[c]) \in Nat
                          /\ \A i \in 1 .. Len(up[c]) : up[c][i] \in Nat
  BY StockNumbers
<1>2. sock' # 0 => sock' = sock /\ sock \in Conns
  BY LinkNumbers
<1>3. \A c \in Conns : /\ Len(up'[c]) \in Nat
                       /\ \A i \in 1 .. Len(up'[c]) :
                            i \in 1 .. Len(up[c]) /\ up'[c][i] = up[c][i]
  BY <1>1
<1>4. OpenedEmpty'
  BY <1>2 DEF StockInv, OpenedEmpty
<1>5. NothingNewer'
  <2> SUFFICES ASSUME NEW c \in Conns
               PROVE  /\ handling'[c] <= Len(acked') + 1
                      /\ \A i \in 1 .. Len(up'[c]) : up'[c][i] <= Len(acked') + 1
    BY <1>1 DEF StockInv, NothingNewer
  <2>1. /\ handling[c] <= Len(acked) + 1
        /\ \A i \in 1 .. Len(up[c]) : up[c][i] <= Len(acked) + 1
    BY DEF StockInv, NothingNewer
  <2> QED  BY <2>1, <1>1, <1>3
<1>6. CASE sock' = 0
  BY <1>4, <1>5, <1>6 DEF NewestLast, StockInv
<1>7. CASE sock' # 0
  <2>1. ASSUME NEW n \in Nat, NotAfter(n) PROVE NotAfter(n)'
    BY <2>1, <1>2, <1>3, <1>7 DEF NotAfter
  <2>2. ASSUME NEW c \in Conns \ {sock}
        PROVE  NotAfter(handling[c])' /\ \A i \in 1 .. Len(up'[c]) : NotAfter(up[c][i])'
    <3>0. NotAfter(handling[c]) /\ \A i \in 1 .. Len(up[c]) : NotAfter(up[c][i])
      BY <1>2, <1>7 DEF StockInv, NewestLast
    <3>1. NotAfter(0)
      BY <1>1, <1>2, <1>7 DEF NotAfter
    <3>2. NotAfter(handling'[c]) /\ handling'[c] \in Nat
      BY <3>0, <3>1, <1>1
    <3>3. NotAfter(handling[c])'
      BY <3>2, <1>2, <1>3, <1>7 DEF NotAfter
    <3>4. ASSUME NEW i \in 1 .. Len(up'[c]) PROVE NotAfter(up[c][i])'
      <4>1. NotAfter(up'[c][i]) /\ up'[c][i] \in Nat
        BY <3>0, <1>1, <1>3
      <4> QED  BY <4>1, <1>2, <1>3, <1>7 DEF NotAfter
    <3> QED  BY <3>3, <3>4
  <2>3. NotAfter(snapshot)'
    BY <2>1, <1>1, <1>2, <1>7 DEF StockInv, NewestLast, NotAfter
  <2>4. ASSUME handler'[sock] = "update", NEW j \in 1 .. Len(up'[sock]), up'[sock][j] # HEARTBEAT
        PROVE  handling'[sock] <= up'[sock][j]
    BY <2>4, <1>2, <1>3, <1>7 DEF StockInv, NewestLast
  <2>5. ASSUME NEW i \in 1 .. Len(up'[sock]), NEW j \in 1 .. Len(up'[sock]), i < j,
               up'[sock][j] # HEARTBEAT
        PROVE  up'[sock][i] <= up'[sock][j]
    BY <2>5, <1>2, <1>3, <1>7 DEF StockInv, NewestLast
  <2> QED  BY <2>2, <2>3, <2>4, <2>5, <1>2, <1>7, <1>4, <1>5 DEF NewestLast, StockInv
<1> QED  BY <1>6, <1>7

LEMMA ThreadStock ==
  ASSUME LinkInv, LinkInv', StockInv, NEW t \in Threads, ThreadStep(t) PROVE StockInv'
<1>0. /\ conn \in [Conns -> {"unused", "open", "reset", "closed"}]
      /\ down \in [Conns -> Seq({"ACK", "COMMAND"})]
      /\ sock # 0 => sock \in Conns /\ conn[sock] # "unused"
      /\ pc[t] = "reading" => reading[t] \in Conns
  BY LinkNumbers DEF LinkInv, LinkTypeOK, StockInv, OpenedEmpty
<1>1. Len(acked) \in Nat /\ Len(acked') \in Nat /\ Len(acked) <= Len(acked)
  BY LinkNumbers
<1>2. ASSUME ReadAck(t) \/ ReadCommand(t) PROVE StockInv'
  <2>1. /\ reading[t] \in Conns /\ conn[reading[t]] = "open"
        /\ down' = [down EXCEPT ![reading[t]] = Tail(@)]
        /\ UNCHANGED <<sock, snapshot, up, handler, handling, conn>>
    BY <1>0, <1>2 DEF ReadAck, ReadCommand, sockVars, serverVars
  <2>2. Len(acked) <= Len(acked')
    <3>1. CASE ReadAck(t) /\ t = "sender"
      <4>1. record # 0 /\ Delivered /\ UNCHANGED made
        BY <3>1 DEF ReadAck, LinkInv, Control
      <4> QED  BY <4>1, <1>1, DeliveredInOrder
    <3>2. CASE ~(ReadAck(t) /\ t = "sender")
      BY <3>2, <1>2, <1>1 DEF ReadAck, ReadCommand, queueVars
    <3> QED  BY <3>1, <3>2
  <2> QED  BY <2>1, <2>2, <1>0, <1>1, StockShrinks
<1>3. ASSUME SendFails(t) \/ AwaitAck(t) \/ Recv(t) \/ ReadFails(t) \/ ReadTimesOut(t)
             \/ Disconnect(t) \/ Online(t) \/ Dies(t)
      PROVE  StockInv'
  <2>1. UNCHANGED <<acked, sock, snapshot, up, down, handler, handling, conn>>
    BY <1>3 DEF SendFails, AwaitAck, Recv, ReadFails, ReadTimesOut, WaitFails, Disconnect, Online,
                Dies, queueVars, sockVars, wireVars, serverVars
  <2> QED  BY <2>1, <1>1, StockShrinks
<1>4. ASSUME CloseSock(t) PROVE StockInv'
  <2>1. /\ sock \in Conns /\ conn[sock] # "unused" /\ conn' = [conn EXCEPT ![sock] = "closed"]
        /\ down' = [down EXCEPT ![sock] = << >>]
        /\ UNCHANGED <<acked, sock, snapshot, up, handler, handling>>
    BY <1>0, <1>4 DEF CloseSock, queueVars, sockVars, serverVars
  <2> QED  BY <2>1, <1>0, <1>1, StockShrinks
<1>5. ASSUME ClearSock(t) PROVE StockInv'
  <2>1. sock' = 0 /\ UNCHANGED <<acked, snapshot, up, down, handler, handling, conn>>
    BY <1>5 DEF ClearSock, queueVars, wireVars, serverVars
  <2> QED  BY <2>1, <1>1, StockShrinks
<1> QED  BY <1>2, <1>3, <1>4, <1>5, SendRawStock, ConnectStock DEF ThreadStep

LEMMA ServerStock ==
  ASSUME LinkInv, StockInv, NEW c \in Conns, HandlerStep(c) \/ Reset(c) PROVE StockInv'
<1>0. /\ conn \in [Conns -> {"unused", "open", "reset", "closed"}]
      /\ down \in [Conns -> Seq({"ACK", "COMMAND"})] /\ up \in [Conns -> Seq(0 .. made)]
      /\ handler \in [Conns -> {"none", "running", "update", "answer", "done"}]
      /\ handling \in [Conns -> 0 .. made]
      /\ Len(acked) \in Nat /\ Len(acked) <= Len(acked)
  BY LinkNumbers, SMTT(30) DEF LinkInv, LinkTypeOK
<1>1. ASSUME RecordSale(c) \/ HandleHeartbeat(c) PROVE StockInv'
  <2>1. /\ up[c] # << >> /\ up' = [up EXCEPT ![c] = Tail(@)]
        /\ UNCHANGED acked /\ UNCHANGED sock /\ UNCHANGED conn /\ UNCHANGED snapshot
    BY <1>1 DEF RecordSale, HandleHeartbeat, queueVars, sockVars, serverVars
  <2>3. TakenOver(c)
    BY <1>1 DEF RecordSale, HandleHeartbeat, serverVars, TakenOver
  <2>2. \A b \in Conns : conn[b] = "unused" => down'[b] = down[b]
    BY <1>0, <1>1 DEF RecordSale, HandleHeartbeat, Reply
  <2> QED  BY <2>1, <2>2, <2>3, TakesFirst
<1>2. ASSUME NEW low \in BOOLEAN, AnswerSale(c, low) PROVE StockInv'
  <2>1. /\ handling' = [handling EXCEPT ![c] = 0] /\ handler' = [handler EXCEPT ![c] = "running"]
        /\ UNCHANGED <<acked, sock, conn, up, snapshot>>
    BY <1>2 DEF AnswerSale, queueVars, sockVars
  <2>2. \A b \in Conns : conn[b] = "unused" => down'[b] = down[b]
    BY <1>0, <1>2 DEF AnswerSale, Reply
  <2> QED  BY <2>1, <2>2, <1>0, StockShrinks
<1>3. ASSUME HandlerEnds(c) PROVE StockInv'
  <2>1. /\ handler' = [handler EXCEPT ![c] = "done"]
        /\ UNCHANGED <<acked, sock, conn, up, down, handling, snapshot>>
    BY <1>3 DEF HandlerEnds, queueVars, sockVars, wireVars
  <2> QED  BY <2>1, <1>0, StockShrinks
<1>4. ASSUME Reset(c) PROVE StockInv'
  <2>1. /\ conn[c] # "unused" /\ conn' = [conn EXCEPT ![c] = IF @ = "open" THEN "reset" ELSE @]
        /\ up' = [up EXCEPT ![c] = << >>] /\ down' = [down EXCEPT ![c] = << >>]
        /\ UNCHANGED <<acked, sock, handler, handling, snapshot>>
    BY <1>4 DEF Reset, queueVars, sockVars, serverVars
  <2> QED  BY <2>1, <1>0, StockShrinks
<1> QED  BY <1>1, <1>2, <1>3, <1>4, UpdateInventoryStock DEF HandlerStep

LEMMA StockInvNext == ASSUME LinkInv, LinkInv', StockInv, [LinkNext]_vars PROVE StockInv'
<1>1. ASSUME MakeSale \/ Dequeue \/ StartSending \/ Beat \/ UNCHANGED vars PROVE StockInv'
  <2>1. UNCHANGED <<acked, sock, snapshot, up, down, handler, handling, conn>>
    BY <1>1 DEF MakeSale, Dequeue, StartSending, Beat, vars, queueVars, sockVars, wireVars, serverVars
  <2>2. Len(acked) \in Nat /\ Len(acked) <= Len(acked)
    BY LinkNumbers
  <2> QED  BY <2>1, <2>2, StockShrinks
<1>2. "sender" \in Threads /\ "heartbeat" \in Threads
  BY DEF Threads
<1> QED  BY <1>1, <1>2, ThreadStock, ServerStock DEF LinkNext, SenderStep

LEMMA StockInvAlways == LinkSpec => []StockInv
BY StockInvInit, StockInvNext, LinkInvAlways, PTL DEF LinkSpec

(* Only the handler of a connection the client has given up replaces the    *)
(* stock the server shows by an older one; that of its present connection   *)
(* never does (server_db.py:61-64, server_handler.py:109-113).              *)
THEOREM StockOnlyAdvances == LinkSpec => StockAdvances
<1>1. ASSUME LinkInv, StockInv, [LinkNext]_vars
      PROVE  [snapshot' < snapshot => \E c \in Conns : c # sock /\ snapshot' = handling[c]]_vars
  <2>0. snapshot \in Nat
    BY <1>1, StockNumbers
  <2>1. ASSUME NEW c \in Conns, UpdateInventory(c), snapshot' < snapshot
        PROVE  c # sock /\ snapshot' = handling[c]
    <3>1. handler[c] = "update" /\ snapshot' = handling[c] /\ handling[c] \in Nat /\ c # 0
      BY <2>1, <1>1, StockNumbers DEF UpdateInventory, Conns
    <3>2. c = sock => snapshot <= handling[c]
      BY <3>1, <1>1 DEF StockInv, NewestLast, NotAfter
    <3> QED  BY <3>1, <3>2, <2>0, <2>1
  <2>2. ASSUME NEW t \in Threads, ThreadStep(t) PROVE UNCHANGED snapshot
    BY <2>2 DEF ThreadStep, SendRaw, SendFails, AwaitAck, Recv, ReadAck, ReadCommand, ReadFails,
                ReadTimesOut, WaitFails, Disconnect, CloseSock, ClearSock, Connect, Online, Dies,
                serverVars
  <2>3. ASSUME NEW c \in Conns, HandlerStep(c) \/ Reset(c), ~UpdateInventory(c)
        PROVE  UNCHANGED snapshot
    BY <2>3 DEF HandlerStep, RecordSale, AnswerSale, HandleHeartbeat, HandlerEnds, Reset, serverVars
  <2>4. ASSUME MakeSale \/ Dequeue \/ StartSending \/ Beat \/ UNCHANGED vars
        PROVE  UNCHANGED snapshot
    BY <2>4 DEF MakeSale, Dequeue, StartSending, Beat, vars, serverVars
  <2>5. "sender" \in Threads /\ "heartbeat" \in Threads
    BY DEF Threads
  <2>6. UNCHANGED snapshot \/ \E c \in Conns : UpdateInventory(c)
    BY <1>1, <2>2, <2>3, <2>4, <2>5 DEF LinkNext, SenderStep
  <2> QED  BY <2>0, <2>1, <2>6
<1> QED  BY <1>1, LinkInvAlways, StockInvAlways, PTL DEF LinkSpec, StockAdvances

-----------------------------------------------------------------------------
(***************************************************************************)
(* Without heartbeats and late answers there is one question at a time, so *)
(* that an ACK answers the record the sender waits for.                    *)
(***************************************************************************)

Waiting == {"await", "armed", "reading"}

NoAck(c)  == \A i \in 1 .. Len(down[c]) : down[c][i] # "ACK"
OneAck(c) == \A i, j \in 1 .. Len(down[c]) : down[c][i] = "ACK" /\ down[c][j] = "ACK" => i = j

\* Nothing is under way on c.
Silent(c) == up[c] = << >> /\ handler[c] = "running" /\ NoAck(c)

\* The record is under way on c: sent, in the handler's hands, or answered.
Asked(c) ==
  \/ Len(up[c]) = 1 /\ up[c][1] = record /\ handler[c] = "running" /\ NoAck(c)
  \/ up[c] = << >> /\ handler[c] \in {"update", "answer"} /\ stored[record] > 0 /\ NoAck(c)
  \/ up[c] = << >> /\ handler[c] = "running" /\ stored[record] > 0 /\ OneAck(c)

SockOpen == sock # 0 /\ conn[sock] = "open"

AckedStored == \A i \in 1 .. Len(acked) : stored[acked[i]] > 0

Undisturbed == beats = 0 /\ timeouts = 0

OneQuestion ==
  Undisturbed =>
    /\ SockOpen => IF pc["sender"] \in Waiting THEN Asked(sock) ELSE Silent(sock)
    /\ AckedStored

LEMMA OneQuestionInit == Init => OneQuestion
<1> SUFFICES ASSUME Init PROVE OneQuestion
  OBVIOUS
<1>1. /\ sock = 1 /\ 1 \in Conns /\ pc["sender"] = "idle" /\ Len(acked) = 0
      /\ up[1] = << >> /\ Len(down[1]) = 0 /\ handler[1] = "running"
  BY LinkConstants DEF Init, Conns, Threads
<1> QED  BY <1>1 DEF OneQuestion, Silent, NoAck, AckedStored, Waiting

\* A step that does nothing on the present connection, if that is open.
LEMMA SameQuestion ==
  ASSUME LinkInv, OneQuestion, Undisturbed,
         UNCHANGED record, UNCHANGED acked,
         (pc'["sender"] \in Waiting) <=> (pc["sender"] \in Waiting),
         SockOpen' => /\ SockOpen /\ sock' = sock /\ up'[sock] = up[sock]
                      /\ down'[sock] = down[sock] /\ handler'[sock] = handler[sock],
         \A n \in Sales : stored[n] > 0 => stored'[n] > 0
  PROVE  OneQuestion'
<1>1. \A i \in 1 .. Len(acked) : acked[i] \in Sales
  <2>1. \A i \in 1 .. Len(acked) : acked[i] \in 1 .. made
    BY LinkNumbers, ElementOfSeq
  <2> QED  BY <2>1, LinkNumbers DEF Sales
<1>2. AckedStored'
  BY <1>1 DEF OneQuestion, AckedStored
<1>3. ASSUME SockOpen', pc'["sender"] \in Waiting PROVE Asked(sock)'
  <2>1. Asked(sock)
    BY <1>3 DEF OneQuestion
  <2>2. record \in Sales
    BY <1>3, LinkNumbers DEF LinkInv, Control, Waiting, Sales
  <2> QED  BY <1>3, <2>1, <2>2 DEF Asked, NoAck, OneAck
<1>4. ASSUME SockOpen', pc'["sender"] \notin Waiting PROVE Silent(sock)'
  <2>1. Silent(sock)
    BY <1>4 DEF OneQuestion
  <2> QED  BY <1>4, <2>1 DEF Silent, NoAck
<1> QED  BY <1>2, <1>3, <1>4 DEF OneQuestion

\* Taking the first message of the server.
LEMMA DownTailFacts ==
  ASSUME LinkInv, NEW c \in Conns, down[c] # << >>, down' = [down EXCEPT ![c] = Tail(@)]
  PROVE  /\ Head(down[c]) = down[c][1] /\ 1 \in 1 .. Len(down[c])
         /\ \A i \in 1 .. Len(down'[c]) :
              i + 1 \in 1 .. Len(down[c]) /\ down'[c][i] = down[c][i + 1] /\ i + 1 # 1
<1>0. down \in [Conns -> Seq({"ACK", "COMMAND"})] /\ Len(down[c]) \in Nat
  BY WireTypes DEF LinkInv, LinkTypeOK
<1>1. /\ Len(Tail(down[c])) = Len(down[c]) - 1
      /\ \A i \in 1 .. Len(Tail(down[c])) : Tail(down[c])[i] = down[c][i + 1]
  BY <1>0, HeadTailProperties
<1>2. down'[c] = Tail(down[c])
  BY <1>0
<1>3. Len(down[c]) >= 1
  BY <1>0, EmptySeq
<1>4. Head(down[c]) = down[c][1]
  BY <1>0
<1> QED  BY <1>0, <1>1, <1>2, <1>3, <1>4

\* What the answer to a sale adds.
LEMMA AckFollows ==
  ASSUME LinkInv, NEW c \in Conns, NEW low \in BOOLEAN, conn[c] = "open", NoAck(c),
         Reply(c, IF low THEN <<"ACK", "COMMAND">> ELSE <<"ACK">>)
  PROVE  OneAck(c)'
<1> DEFINE m == IF low THEN <<"ACK", "COMMAND">> ELSE <<"ACK">>
<1>0. down \in [Conns -> Seq({"ACK", "COMMAND"})] /\ Len(down[c]) \in Nat
  BY WireTypes DEF LinkInv, LinkTypeOK
<1>1. m \in Seq({"ACK", "COMMAND"}) /\ Len(m) \in 1 .. 2 /\ (Len(m) = 2 => m[2] = "COMMAND")
  <2>1. CASE low
    BY <2>1
  <2>2. CASE ~low
    BY <2>2
  <2> QED  BY <2>1, <2>2
<1>2. down'[c] = down[c] \o m
  BY <1>0 DEF Reply
<1> HIDE DEF m
<1>3. /\ Len(down'[c]) = Len(down[c]) + Len(m)
      /\ \A i \in 1 .. Len(down[c]) + Len(m) :
           down'[c][i] = IF i <= Len(down[c]) THEN down[c][i] ELSE m[i - Len(down[c])]
  BY <1>0, <1>1, <1>2, ConcatProperties
<1>4. ASSUME NEW i \in 1 .. Len(down'[c]), down'[c][i] = "ACK" PROVE i = Len(down[c]) + 1
  <2>1. ~(i <= Len(down[c]))
    BY <1>0, <1>1, <1>3, <1>4 DEF NoAck
  <2>2. i - Len(down[c]) \in 1 .. 2 /\ i \in Nat
    BY <2>1, <1>0, <1>1, <1>3
  <2>3. i - Len(down[c]) # 2
    BY <2>1, <2>2, <1>0, <1>1, <1>3, <1>4
  <2> QED  BY <2>2, <2>3, <1>0
<1> QED  BY <1>4 DEF OneAck

LEMMA SenderQuestion ==
  ASSUME LinkInv, LinkInv', Alone, StockInv, OneQuestion, Undisturbed, Undisturbed',
         ThreadStep("sender")
  PROVE  OneQuestion'
<1>0. /\ pc \in [Threads -> PcValues] /\ "sender" \in Threads
      /\ conn \in [Conns -> {"unused", "open", "reset", "closed"}]
      /\ handler \in [Conns -> {"none", "running", "update", "answer", "done"}]
      /\ stored \in [Sales -> Nat]
      /\ sock # 0 => sock \in Conns
      /\ 0 \notin Conns
  <2>1. sock # 0 => sock \in Conns
    BY LinkNumbers
  <2>2. 0 \notin Conns /\ "sender" \in Threads
    BY DEF Conns, Threads
  <2> QED  BY <2>1, <2>2 DEF LinkInv, LinkTypeOK
<1>1. /\ SockOpen /\ pc["sender"] \in Waiting => Asked(sock)
      /\ SockOpen /\ pc["sender"] \notin Waiting => Silent(sock)
      /\ AckedStored
  BY DEF OneQuestion
<1>2. ASSUME SendRaw("sender") PROVE OneQuestion'
  <2>1. /\ pc["sender"] = "send" /\ SockOpen /\ sock \in Conns
        /\ up' = [up EXCEPT ![sock] = Append(@, record)]
        /\ pc' = [pc EXCEPT !["sender"] = "await"]
        /\ UNCHANGED <<record, acked, sock, conn, down, handler, stored>>
    BY <1>0, <1>2 DEF SendRaw, SockOpen, Message, Goto, queueVars, sockVars, serverVars
  <2>2. Silent(sock)
    BY <2>1, <1>1 DEF Waiting
  <2>3. record \in 0 .. made /\ up[sock] \in Seq(0 .. made) /\ Len(up[sock]) = 0
    BY <2>1, <2>2, WireTypes DEF Silent, LinkInv, LinkTypeOK
  <2>4. Len(up'[sock]) = 1 /\ up'[sock][1] = record
    <3>1. up'[sock] = Append(up[sock], record)
      BY <2>1 DEF LinkInv, LinkTypeOK
    <3> QED  BY <3>1, <2>3, AppendProperties
  <2> QED  BY <2>1, <2>2, <2>4, <1>0, <1>1 DEF OneQuestion, Asked, Silent, NoAck, AckedStored, Waiting
<1>3. ASSUME AwaitAck("sender") \/ Recv("sender") \/ Disconnect("sender") PROVE OneQuestion'
  <2>1. /\ UNCHANGED record /\ UNCHANGED acked /\ UNCHANGED <<sock, conn, up, down, handler, stored>>
        /\ (pc'["sender"] \in Waiting) <=> (pc["sender"] \in Waiting)
    BY <1>0, <1>3 DEF AwaitAck, Recv, Disconnect, Goto, Waiting, queueVars, sockVars, wireVars,
                      serverVars
  <2> QED  BY <2>1, SameQuestion DEF SockOpen
<1>4. ASSUME SendFails("sender") \/ CloseSock("sender") \/ ClearSock("sender") PROVE OneQuestion'
  <2>1. /\ UNCHANGED acked /\ UNCHANGED stored /\ ~SockOpen'
    BY <1>0, <1>4 DEF SendFails, CloseSock, ClearSock, SockOpen, queueVars, sockVars, wireVars,
                      serverVars
  <2> QED  BY <2>1, <1>1 DEF OneQuestion, AckedStored
<1>5. ASSUME ReadFails("sender") PROVE OneQuestion'
  <2>1. UNCHANGED <<acked, stored, sock, conn>> /\ pc["sender"] = "reading"
        /\ conn[reading["sender"]] # "open"
    BY <1>5 DEF ReadFails, WaitFails, sockVars, wireVars, serverVars
  <2>2. ~SockOpen
    BY <2>1 DEF Alone, Undisturbed, SockOpen
  <2> QED  BY <2>1, <2>2, <1>1 DEF OneQuestion, AckedStored, SockOpen
<1>6. ASSUME Online("sender") PROVE OneQuestion'
  <2>1. /\ NextAttempt /\ pc["sender"] = "online"
        /\ UNCHANGED <<acked, stored, sock, conn, up, down, handler>>
    BY <1>6 DEF Online, wireVars, serverVars
  <2>2. pc'["sender"] \notin Waiting
    BY <2>1, <1>0 DEF NextAttempt, Goto, Waiting
  <2>3. SockOpen => Silent(sock)
    BY <2>1, <1>1 DEF Waiting
  <2> QED  BY <2>1, <2>2, <2>3, <1>1 DEF OneQuestion, AckedStored, SockOpen, Silent, NoAck
<1>7. ASSUME NEW c \in Conns, Connect("sender", c) PROVE OneQuestion'
  <2>1. /\ conn[c] = "unused" /\ sock' = c /\ pc' = [pc EXCEPT !["sender"] = "online"]
        /\ handler' = [handler EXCEPT ![c] = "running"]
        /\ UNCHANGED <<acked, stored, up, down>>
    BY <1>7 DEF Connect, Goto, queueVars
  <2>2. up[c] = << >> /\ down[c] = << >> /\ Len(<< >>) = 0
    BY <2>1 DEF StockInv, OpenedEmpty
  <2>3. Silent(sock)' /\ pc'["sender"] \notin Waiting
    BY <2>1, <2>2, <1>0 DEF Silent, NoAck, Waiting
  <2> QED  BY <2>1, <2>3, <1>1 DEF OneQuestion, AckedStored
<1>8. ASSUME ReadCommand("sender") PROVE OneQuestion'
  <2>1. /\ pc["sender"] = "reading" /\ reading["sender"] = sock /\ SockOpen /\ sock \in Conns
        /\ down[sock] # << >> /\ Head(down[sock]) # "ACK"
        /\ down' = [down EXCEPT ![sock] = Tail(@)]
        /\ pc' = [pc EXCEPT !["sender"] = "await"]
        /\ UNCHANGED <<record, acked, stored, sock, conn, up, handler>>
    BY <1>0, <1>8, LinkNumbers
    DEF ReadCommand, Answers, Alone, Undisturbed, SockOpen, Goto, queueVars, sockVars, serverVars
  <2>2. /\ \A i \in 1 .. Len(down'[sock]) :
             i + 1 \in 1 .. Len(down[sock]) /\ down'[sock][i] = down[sock][i + 1]
    BY <2>1, DownTailFacts
  <2>3. Asked(sock) /\ pc'["sender"] \in Waiting
    BY <2>1, <1>0, <1>1 DEF Waiting
  <2>4. (NoAck(sock) => NoAck(sock)') /\ (OneAck(sock) => OneAck(sock)')
    <3>1. NoAck(sock) => NoAck(sock)'
      BY <2>1, <2>2 DEF NoAck
    <3>2. ASSUME OneAck(sock), NEW i \in 1 .. Len(down'[sock]), NEW j \in 1 .. Len(down'[sock]),
                 down'[sock][i] = "ACK", down'[sock][j] = "ACK"
          PROVE  i = j
      <4>1. i + 1 = j + 1
        BY <3>2, <2>2 DEF OneAck
      <4>2. Len(down'[sock]) \in Nat
        BY <2>1, WireTypes DEF LinkInv, LinkTypeOK
      <4> QED  BY <4>1
    <3> QED  BY <3>1, <3>2, <2>1 DEF OneAck
  <2>5. Asked(sock)'
    BY <2>1, <2>3, <2>4 DEF Asked
  <2> QED  BY <2>1, <2>3, <2>5, <1>1 DEF OneQuestion, AckedStored
<1>9. ASSUME ReadAck("sender") PROVE OneQuestion'
  <2>1. /\ pc["sender"] = "reading" /\ reading["sender"] = sock /\ SockOpen /\ sock \in Conns
        /\ down[sock] # << >> /\ Head(down[sock]) = "ACK"
        /\ down' = [down EXCEPT ![sock] = Tail(@)]
        /\ pc' = [pc EXCEPT !["sender"] = "idle"]
        /\ Delivered /\ record # 0 /\ UNCHANGED made
        /\ UNCHANGED <<stored, sock, conn, up, handler>>
    BY <1>0, <1>9, LinkNumbers
    DEF ReadAck, Answers, Alone, Undisturbed, SockOpen, Goto, sockVars, serverVars, LinkInv, Control
  <2>2. /\ down[sock][1] = "ACK" /\ 1 \in 1 .. Len(down[sock])
        /\ \A i \in 1 .. Len(down'[sock]) :
             i + 1 \in 1 .. Len(down[sock]) /\ down'[sock][i] = down[sock][i + 1] /\ i + 1 # 1
    BY <2>1, DownTailFacts
  <2>3. up[sock] = << >> /\ handler[sock] = "running" /\ stored[record] > 0 /\ OneAck(sock)
    <3>1. Asked(sock) /\ ~NoAck(sock)
      BY <2>1, <2>2, <1>1 DEF Waiting, NoAck
    <3> QED  BY <3>1 DEF Asked
  <2>4. Silent(sock)' /\ pc'["sender"] \notin Waiting
    <3>0. ASSUME NEW i \in 1 .. Len(down'[sock]) PROVE down'[sock][i] # "ACK"
      BY <2>2, <2>3 DEF OneAck
    <3>1. NoAck(sock)'
      BY <3>0, <2>1 DEF NoAck
    <3> QED  BY <3>1, <2>1, <2>3, <1>0 DEF Silent, Waiting
  <2>5. AckedStored'
    <3>1. /\ Len(acked') = Len(acked) + 1 /\ acked'[Len(acked')] = record
          /\ \A i \in 1 .. Len(acked) : acked'[i] = acked[i]
      BY <2>1, DeliveredInOrder
    <3>2. Len(acked) \in Nat
      BY LinkNumbers
    <3>3. ASSUME NEW i \in 1 .. Len(acked') PROVE stored[acked'[i]] > 0
      <4>1. CASE i = Len(acked')
        BY <4>1, <3>1, <2>3
      <4>2. CASE i # Len(acked')
        <5>1. i \in 1 .. Len(acked)
          BY <4>2, <3>1, <3>2
        <5> QED  BY <5>1, <3>1, <1>1 DEF AckedStored
      <4> QED  BY <4>1, <4>2
    <3> QED  BY <3>3, <2>1 DEF AckedStored
  <2> QED  BY <2>1, <2>4, <2>5 DEF OneQuestion
<1>10. ~ReadTimesOut("sender")
  BY DEF ReadTimesOut, Undisturbed
<1>11. ~Dies("sender")
  BY DEF Dies, Alone, Undisturbed, SockUsable
<1> QED  BY <1>2, <1>3, <1>4, <1>5, <1>6, <1>7, <1>8, <1>9, <1>10, <1>11 DEF ThreadStep

LEMMA ServerQuestion ==
  ASSUME LinkInv, LinkInv', OneQuestion, Undisturbed,
         NEW c \in Conns, HandlerStep(c) \/ Reset(c)
  PROVE  OneQuestion'
<1>0. /\ conn \in [Conns -> {"unused", "open", "reset", "closed"}]
      /\ up \in [Conns -> Seq(0 .. made)] /\ down \in [Conns -> Seq({"ACK", "COMMAND"})]
      /\ handler \in [Conns -> {"none", "running", "update", "answer", "done"}]
      /\ handling \in [Conns -> 0 .. made] /\ stored \in [Sales -> Nat]
  BY DEF LinkInv, LinkTypeOK
<1>1. /\ UNCHANGED record /\ UNCHANGED acked /\ UNCHANGED pc /\ UNCHANGED sock
      /\ UNCHANGED queueVars
  BY DEF HandlerStep, RecordSale, UpdateInventory, AnswerSale, HandleHeartbeat, HandlerEnds, Reset,
         queueVars, sockVars, threadVars
<1>2. \A n \in Sales : stored[n] > 0 => stored'[n] > 0
  <2>1. CASE RecordSale(c)
    <3>1. /\ up[c] # << >> /\ up' = [up EXCEPT ![c] = Tail(@)] /\ Head(up[c]) # HEARTBEAT
          /\ stored' = [stored EXCEPT ![Head(up[c])] = @ + 1]
      BY <2>1 DEF RecordSale
    <3>2. Head(up[c]) \in Sales
      <4>1. Head(up[c]) \in 0 .. made
        BY <3>1, UpTail
      <4> QED  BY <3>1, <4>1, LinkNumbers DEF Sales, HEARTBEAT
    <3> QED  BY <3>1, <3>2, <1>0
  <2>2. CASE ~RecordSale(c)
    BY <2>2 DEF HandlerStep, UpdateInventory, AnswerSale, HandleHeartbeat, HandlerEnds, Reset,
                serverVars
  <2> QED  BY <2>1, <2>2
<1>3. SockOpen' => SockOpen
  <2>1. CASE Reset(c)
    BY <2>1, <1>0, <1>1, LinkNumbers DEF SockOpen, Reset
  <2>2. CASE ~Reset(c)
    <3>1. UNCHANGED conn
      BY <2>2 DEF HandlerStep, RecordSale, UpdateInventory, AnswerSale, HandleHeartbeat,
                  HandlerEnds, wireVars
    <3> QED  BY <3>1, <1>1 DEF SockOpen
  <2> QED  BY <2>1, <2>2
<1>4. ASSUME ~SockOpen' PROVE OneQuestion'
  BY <1>1, <1>2, <1>4, SameQuestion
<1>5. ASSUME SockOpen', c # sock PROVE OneQuestion'
  <2>1. sock \in Conns
    BY <1>3, <1>5, LinkNumbers DEF SockOpen
  <2>2. up'[sock] = up[sock] /\ down'[sock] = down[sock] /\ handler'[sock] = handler[sock]
    BY <2>1, <1>0, <1>5 DEF HandlerStep, RecordSale, UpdateInventory, AnswerSale, HandleHeartbeat,
                            HandlerEnds, Reset, Reply, wireVars, serverVars
  <2> QED  BY <2>2, <1>1, <1>2, <1>3, <1>5, SameQuestion
<1>6. ASSUME SockOpen', c = sock PROVE OneQuestion'
  <2>1. SockOpen /\ conn[c] = "open" /\ UNCHANGED <<conn>>
    BY <1>0, <1>1, <1>3, <1>6 DEF SockOpen, HandlerStep, RecordSale, UpdateInventory, AnswerSale,
                                  HandleHeartbeat, HandlerEnds, Reset, wireVars
  <2>2. ~HandlerEnds(c) /\ ~Reset(c)
    <3>1. Reset(c) => conn'[c] # "open"
      BY <1>0, <2>1 DEF Reset
    <3> QED  BY <2>1, <3>1 DEF HandlerEnds
  <2>3. pc["sender"] \in Waiting => Asked(c) /\ record # 0 /\ record \in Sales
    <3>1. pc["sender"] \in Waiting => record # 0
      BY DEF LinkInv, Control, Waiting
    <3> QED  BY <3>1, <2>1, <1>6, LinkNumbers DEF OneQuestion, Sales
  <2>4. pc["sender"] \notin Waiting => Silent(c)
    BY <2>1, <1>6 DEF OneQuestion
  <2>5. pc["sender"] \in Waiting
    <3>1. up[c] # << >> \/ handler[c] # "running"
      BY <2>2 DEF HandlerStep, RecordSale, UpdateInventory, AnswerSale, HandleHeartbeat
    <3> QED  BY <3>1, <2>4 DEF Silent
  <2>6. ASSUME RecordSale(c) PROVE Asked(c)'
    <3>1. /\ handler[c] = "running" /\ up[c] # << >> /\ up' = [up EXCEPT ![c] = Tail(@)]
          /\ handler' = [handler EXCEPT ![c] = "update"]
          /\ stored' = [stored EXCEPT ![Head(up[c])] = @ + 1] /\ UNCHANGED down
      BY <2>6 DEF RecordSale
    <3>2. /\ Head(up[c]) = up[c][1] /\ Len(up'[c]) = Len(up[c]) - 1 /\ up'[c] \in Seq(0 .. made)
      BY <3>1, UpTail
    <3>3. Len(up[c]) = 1 /\ up[c][1] = record /\ NoAck(c)
      BY <2>3, <2>5, <3>1 DEF Asked
    <3>4. up'[c] = << >>
      BY <3>2, <3>3, EmptySeq
    <3>5. stored'[record] > 0
      BY <2>3, <2>5, <3>1, <3>2, <3>3, <1>0
    <3>6. handler'[c] = "update"
      BY <3>1, <1>0
    <3> QED  BY <3>1, <3>3, <3>4, <3>5, <3>6, <1>1 DEF Asked, NoAck
  <2>7. ASSUME UpdateInventory(c) PROVE Asked(c)'
    <3>1. /\ handler[c] = "update" /\ handler'[c] = "answer" /\ UNCHANGED <<up, down, stored>>
      BY <2>7, <1>0 DEF UpdateInventory, wireVars
    <3> QED  BY <3>1, <2>3, <2>5, <1>1 DEF Asked, NoAck
  <2>8. ASSUME NEW low \in BOOLEAN, AnswerSale(c, low) PROVE Asked(c)'
    <3>1. /\ handler[c] = "answer" /\ handler'[c] = "running" /\ UNCHANGED <<up, stored>>
          /\ Reply(c, IF low THEN <<"ACK", "COMMAND">> ELSE <<"ACK">>)
      BY <2>8, <1>0 DEF AnswerSale
    <3>2. up[c] = << >> /\ stored[record] > 0 /\ NoAck(c)
      BY <3>1, <2>3, <2>5 DEF Asked
    <3>3. OneAck(c)'
      BY <3>1, <3>2, <2>1, AckFollows
    <3> QED  BY <3>1, <3>2, <3>3, <1>1 DEF Asked
  <2>9. ~HandleHeartbeat(c)
    <3>1. ASSUME HandleHeartbeat(c) PROVE FALSE
      <4>1. /\ handler[c] = "running" /\ up[c] # << >> /\ Head(up[c]) = 0
            /\ up' = [up EXCEPT ![c] = Tail(@)]
        BY <3>1 DEF HandleHeartbeat, HEARTBEAT
      <4>2. up[c][1] = 0
        BY <4>1, UpTail
      <4> QED  BY <4>1, <4>2, <2>3, <2>5 DEF Asked
    <3> QED  BY <3>1
  <2>10. Asked(c)'
    BY <2>2, <2>6, <2>7, <2>8, <2>9 DEF HandlerStep
  <2>11. AckedStored'
    <3>1. \A i \in 1 .. Len(acked) : acked[i] \in Sales
      <4>1. \A i \in 1 .. Len(acked) : acked[i] \in 1 .. made
        BY LinkNumbers, ElementOfSeq
      <4> QED  BY <4>1, LinkNumbers DEF Sales
    <3> QED  BY <3>1, <1>1, <1>2 DEF OneQuestion, AckedStored
  <2> QED  BY <2>5, <2>10, <2>11, <1>1, <1>6 DEF OneQuestion
<1> QED  BY <1>4, <1>5, <1>6

\* A step that leaves no trouble behind found none.
LEMMA UndisturbedBefore ==
  ASSUME LinkInv, [LinkNext]_vars, Undisturbed' PROVE Undisturbed /\ ~Beat
<1>1. beats \in Nat /\ timeouts \in Nat
  BY LinkConstants DEF LinkInv, LinkTypeOK
<1>2. ~Beat
  BY <1>1 DEF Beat, Undisturbed
<1>3. ASSUME NEW t \in Threads, ThreadStep(t) PROVE Undisturbed
  BY <1>1, <1>3 DEF ThreadStep, SendRaw, SendFails, AwaitAck, Recv, ReadAck, ReadCommand, ReadFails,
     ReadTimesOut, Disconnect, CloseSock, ClearSock, Connect, Online, Dies, counters, Undisturbed
<1>4. ASSUME NEW c \in Conns, HandlerStep(c) \/ Reset(c) PROVE Undisturbed
  BY <1>4 DEF HandlerStep, RecordSale, UpdateInventory, AnswerSale, HandleHeartbeat, HandlerEnds,
              Reset, counters, Undisturbed
<1>5. ASSUME MakeSale \/ Dequeue \/ StartSending \/ UNCHANGED vars PROVE Undisturbed
  BY <1>5 DEF MakeSale, Dequeue, StartSending, vars, counters, Undisturbed
<1>6. "sender" \in Threads /\ "heartbeat" \in Threads
  BY DEF Threads
<1> QED  BY <1>2, <1>3, <1>4, <1>5, <1>6 DEF LinkNext, SenderStep

LEMMA OneQuestionNext ==
  ASSUME LinkInv, LinkInv', Alone, StockInv, OneQuestion, [LinkNext]_vars
  PROVE  OneQuestion'
<1> SUFFICES ASSUME Undisturbed' PROVE OneQuestion'
  BY DEF OneQuestion
<1>1. Undisturbed /\ ~Beat
  BY UndisturbedBefore
<1>2. ~ThreadStep("heartbeat")
  BY <1>1 DEF Alone, Undisturbed, ThreadStep, SendRaw, SendFails, AwaitAck, Recv, ReadAck,
     ReadCommand, ReadFails, ReadTimesOut, Disconnect, CloseSock, ClearSock, Connect, Online, Dies
<1>3. ASSUME MakeSale \/ UNCHANGED vars PROVE OneQuestion'
  <2>1. /\ UNCHANGED record /\ UNCHANGED acked /\ UNCHANGED <<pc, sock, conn, up, down, handler, stored>>
    BY <1>3 DEF MakeSale, vars, queueVars, sockVars, threadVars, wireVars, serverVars
  <2> QED  BY <2>1, <1>1, SameQuestion DEF SockOpen
<1>4. ASSUME Dequeue \/ StartSending PROVE OneQuestion'
  <2>1. /\ UNCHANGED <<acked, sock, conn, up, down, handler, stored>>
        /\ pc["sender"] \notin Waiting /\ pc'["sender"] \notin Waiting
    BY <1>4, ZenonT(30) DEF Dequeue, StartSending, Goto, Waiting, sockVars, wireVars, serverVars, LinkInv,
                LinkTypeOK, Threads
  <2> QED  BY <2>1, <1>1 DEF OneQuestion, SockOpen, Silent, NoAck, AckedStored
<1> QED  BY <1>1, <1>2, <1>3, <1>4, SenderQuestion, ServerQuestion DEF LinkNext, SenderStep

LEMMA OneQuestionAlways == LinkSpec => []OneQuestion
BY OneQuestionInit, OneQuestionNext, LinkInvAlways, AloneAlways, StockInvAlways, PTL DEF LinkSpec

(* A confirmed sale is stored, as long as there was no heartbeat and every  *)
(* answer came in time, even across resets (client_socket.py:202-220).      *)
THEOREM ConfirmedStored == LinkSpec => []ConfirmedIsStored
<1>1. ASSUME LinkInv, OneQuestion PROVE ConfirmedIsStored
  <2>1. DOMAIN acked = 1 .. Len(acked)
    BY <1>1, LinkNumbers, LenProperties
  <2> QED  BY <1>1, <2>1 DEF ConfirmedIsStored, OneQuestion, Undisturbed, AckedStored, Acked
<1> QED  BY <1>1, LinkInvAlways, OneQuestionAlways, PTL

-----------------------------------------------------------------------------
(***************************************************************************)
(* As long as nothing is reset or late there is one connection, and each   *)
(* record is sent on it once.                                              *)
(***************************************************************************)

InCalm == resets = 0 /\ timeouts = 0

\* The one connection, and threads that never have to reconnect.
OneConnection ==
  /\ sock = 1 /\ conn[1] = "open"
  /\ \A c \in Conns : c # 1 => conn[c] = "unused"
  /\ \A t \in Threads :
       /\ pc[t] \in {"idle", "check", "send"} \cup Waiting
       /\ pc[t] = "reading" => reading[t] = 1

\* The last record that was sent.
SentUpTo == IF pc["sender"] \in Waiting THEN Len(acked) + 1 ELSE Len(acked)

\* Of each sale there is at most one copy, stored or under way; of those not
\* sent there is none.
OneCopy ==
  /\ \A i \in 1 .. Len(up[1]) :
       up[1][i] # HEARTBEAT => up[1][i] <= SentUpTo /\ stored[up[1][i]] = 0
  /\ \A i, j \in 1 .. Len(up[1]) : up[1][i] # HEARTBEAT /\ up[1][i] = up[1][j] => i = j
  /\ \A n \in Sales : stored[n] <= 1 /\ (n > SentUpTo => stored[n] = 0)

Calm == InCalm => OneConnection /\ OneCopy

LEMMA CalmInit == Init => Calm
<1> SUFFICES ASSUME Init PROVE Calm
  OBVIOUS
<1>1. sock = 1 /\ 1 \in Conns /\ conn[1] = "open" /\ up[1] = << >> /\ Len(up[1]) = 0
  BY LinkConstants DEF Init, Conns
<1>2. OneConnection
  BY <1>1 DEF Init, OneConnection
<1>3. OneCopy
  BY <1>1 DEF Init, OneCopy
<1> QED  BY <1>2, <1>3 DEF Calm

\* A step that leaves no trouble behind found none.
LEMMA CalmBefore ==
  ASSUME LinkInv, [LinkNext]_vars, InCalm'
  PROVE  /\ InCalm
         /\ \A c \in Conns : ~Reset(c)
         /\ \A t \in Threads : ~ReadTimesOut(t)
<1>1. resets \in Nat /\ timeouts \in Nat
  BY LinkConstants DEF LinkInv, LinkTypeOK
<1>2. (\A c \in Conns : ~Reset(c)) /\ (\A t \in Threads : ~ReadTimesOut(t))
  BY <1>1 DEF Reset, ReadTimesOut, InCalm
<1>3. ASSUME NEW t \in Threads, ThreadStep(t) PROVE InCalm
  BY <1>2, <1>3 DEF ThreadStep, SendRaw, SendFails, AwaitAck, Recv, ReadAck, ReadCommand, ReadFails,
     Disconnect, CloseSock, ClearSock, Connect, Online, Dies, counters, InCalm
<1>4. ASSUME NEW c \in Conns, HandlerStep(c) PROVE InCalm
  BY <1>4 DEF HandlerStep, RecordSale, UpdateInventory, AnswerSale, HandleHeartbeat, HandlerEnds,
              counters, InCalm
<1>5. ASSUME MakeSale \/ Dequeue \/ StartSending \/ Beat \/ UNCHANGED vars PROVE InCalm
  BY <1>5 DEF MakeSale, Dequeue, StartSending, Beat, vars, counters, InCalm
<1>6. "sender" \in Threads /\ "heartbeat" \in Threads
  BY DEF Threads
<1> QED  BY <1>2, <1>3, <1>4, <1>5, <1>6 DEF LinkNext, SenderStep

LEMMA SameCopies ==
  ASSUME OneCopy, up'[1] = up[1], UNCHANGED stored, SentUpTo' = SentUpTo
  PROVE  OneCopy'
BY DEF OneCopy

\* What a thread can do in calm.
LEMMA CalmThread ==
  ASSUME LinkInv, LinkInv', OneConnection, OneCopy, NEW t \in Threads, ThreadStep(t),
         ~ReadTimesOut(t)
  PROVE  OneConnection' /\ OneCopy'
<1>0. /\ pc \in [Threads -> PcValues] /\ reading \in [Threads -> 0 .. MaxConns]
      /\ 1 \in Conns /\ t \in {"sender", "heartbeat"} /\ Threads = {"sender", "heartbeat"}
  BY LinkConstants DEF LinkInv, LinkTypeOK, Conns, Threads
<1>1. /\ pc[t] \in {"idle", "check", "send"} \cup Waiting /\ sock = 1 /\ conn[1] = "open"
      /\ pc[t] = "reading" => reading[t] = 1
  BY DEF OneConnection
<1>2. ~SendFails(t) /\ ~ReadFails(t)
  BY <1>1 DEF SendFails, ReadFails
<1>3. ~Disconnect(t) /\ ~CloseSock(t) /\ ~ClearSock(t) /\ ~Online(t) /\ ~Dies(t)
  BY <1>1 DEF Disconnect, CloseSock, ClearSock, Online, Dies, Waiting, SockUsable
<1>4. \A c \in Conns : ~Connect(t, c)
  BY <1>1 DEF Connect, Waiting
<1>5. ASSUME SendRaw(t) PROVE OneConnection' /\ OneCopy'
  <2>1. /\ pc[t] = "send" /\ pc' = [pc EXCEPT ![t] = "await"]
        /\ up' = [up EXCEPT ![1] = Append(@, Message(t))]
        /\ UNCHANGED <<record, acked, sock, reading, conn, stored>>
    BY <1>1, <1>5 DEF SendRaw, Goto, queueVars, sockVars, serverVars
  <2>2. OneConnection'
    BY <2>1, <1>0 DEF OneConnection, Waiting
  <2>3. up \in [Conns -> Seq(0 .. made)] /\ stored \in [Sales -> Nat]
    BY DEF LinkInv, LinkTypeOK
  <2>4. /\ Message(t) \in 0 .. made /\ Len(acked) \in Nat /\ made \in Nat
        /\ Message(t) # HEARTBEAT => t = "sender" /\ Message(t) = Len(acked) + 1
    BY LinkNumbers DEF Message, HEARTBEAT, LinkInv, InOrder
  <2>5. /\ Len(up'[1]) = Len(up[1]) + 1 /\ Len(up[1]) \in Nat
        /\ \A i \in 1 .. Len(up[1]) : up'[1][i] = up[1][i] /\ up[1][i] \in Nat
        /\ up'[1][Len(up[1]) + 1] = Message(t)
    <3>1. up'[1] = Append(up[1], Message(t))
      BY <2>1, <2>3, <1>0
    <3>2. \A i \in 1 .. Len(up[1]) : up[1][i] \in Nat
      BY <1>0, StockNumbers
    <3>3. up[1] \in Seq(0 .. made) /\ Len(up[1]) \in Nat
      BY <1>0, WireTypes
    <3> QED  BY <3>1, <3>2, <3>3, <2>4, AppendProperties
  <2>6. \A i \in 1 .. Len(up'[1]) : i = Len(up[1]) + 1 \/ i \in 1 .. Len(up[1])
    BY <2>5
  <2>7. /\ SentUpTo \in Nat /\ SentUpTo' \in Nat /\ SentUpTo <= SentUpTo'
        /\ t = "sender" => SentUpTo = Len(acked) /\ SentUpTo' = Len(acked) + 1
    BY <2>1, <2>4, <1>0 DEF SentUpTo, Waiting
  <2>8. ASSUME NEW i \in 1 .. Len(up'[1]), up'[1][i] # HEARTBEAT
        PROVE  up'[1][i] <= SentUpTo' /\ stored'[up'[1][i]] = 0
    <3>1. CASE i = Len(up[1]) + 1
      <4>1. up'[1][i] = Len(acked) + 1 /\ Message(t) # HEARTBEAT /\ t = "sender"
        BY <3>1, <2>4, <2>5, <2>8
      <4>2. Len(acked) + 1 \in Sales
        BY <4>1, <2>4, LinkNumbers DEF Sales
      <4>3. stored[Len(acked) + 1] = 0
        BY <4>1, <4>2, <2>4, <2>7 DEF OneCopy
      <4> QED  BY <4>1, <4>3, <2>1, <2>4, <2>7
    <3>2. CASE i \in 1 .. Len(up[1])
      BY <3>2, <2>1, <2>5, <2>7, <2>8 DEF OneCopy
    <3> QED  BY <3>1, <3>2, <2>6
  <2>9. ASSUME NEW i \in 1 .. Len(up'[1]), NEW j \in 1 .. Len(up'[1]),
               up'[1][i] # HEARTBEAT, up'[1][i] = up'[1][j]
        PROVE  i = j
    <3>1. ASSUME NEW k \in 1 .. Len(up[1]), up[1][k] # HEARTBEAT, t = "sender"
          PROVE  up[1][k] # Len(acked) + 1
      BY <3>1, <2>4, <2>5, <2>7 DEF OneCopy
    <3>2. CASE i \in 1 .. Len(up[1]) /\ j \in 1 .. Len(up[1])
      BY <3>2, <2>5, <2>9 DEF OneCopy
    <3>3. CASE i = Len(up[1]) + 1 /\ j = Len(up[1]) + 1
      BY <3>3
    <3>4. CASE i = Len(up[1]) + 1 /\ j \in 1 .. Len(up[1])
      BY <3>1, <3>4, <2>4, <2>5, <2>9
    <3>5. CASE i \in 1 .. Len(up[1]) /\ j = Len(up[1]) + 1
      BY <3>1, <3>5, <2>4, <2>5, <2>9
    <3> QED  BY <3>2, <3>3, <3>4, <3>5, <2>6
  <2>10. \A n \in Sales : stored'[n] <= 1 /\ (n > SentUpTo' => stored'[n] = 0)
    BY <2>1, <2>7 DEF OneCopy, Sales
  <2> QED  BY <2>2, <2>8, <2>9, <2>10 DEF OneCopy
<1>6. ASSUME AwaitAck(t) \/ Recv(t) \/ ReadCommand(t) PROVE OneConnection' /\ OneCopy'
  <2>1. /\ UNCHANGED <<acked, sock, conn, up, stored>>
        /\ pc[t] \in Waiting
        /\ \/ pc' = [pc EXCEPT ![t] = "armed"] /\ UNCHANGED reading
           \/ pc' = [pc EXCEPT ![t] = "reading"] /\ reading' = [reading EXCEPT ![t] = 1]
           \/ pc' = [pc EXCEPT ![t] = "await"] /\ reading' = [reading EXCEPT ![t] = 0]
    BY <1>1, <1>6 DEF AwaitAck, Recv, ReadCommand, Goto, Waiting, queueVars, sockVars, wireVars,
                      serverVars
  <2>2. OneConnection'
    BY <2>1, <1>0 DEF OneConnection, Waiting
  <2>3. SentUpTo' = SentUpTo
    BY <2>1, <1>0 DEF SentUpTo, Waiting
  <2> QED  BY <2>1, <2>2, <2>3, SameCopies
<1>7. ASSUME ReadAck(t) PROVE OneConnection' /\ OneCopy'
  <2>1. /\ UNCHANGED <<made, sock, conn, up, stored>>
        /\ pc[t] = "reading" /\ pc' = [pc EXCEPT ![t] = "idle"]
        /\ reading' = [reading EXCEPT ![t] = 0]
        /\ t = "sender" => Delivered /\ record # 0
        /\ t # "sender" => UNCHANGED acked
    BY <1>7 DEF ReadAck, Goto, sockVars, serverVars, LinkInv, Control
  <2>2. OneConnection'
    BY <2>1, <1>0 DEF OneConnection, Waiting
  <2>3. SentUpTo' = SentUpTo
    <3>1. CASE t = "sender"
      <4>1. Len(acked') = Len(acked) + 1
        BY <2>1, <3>1, DeliveredInOrder
      <4> QED  BY <4>1, <2>1, <3>1, <1>0 DEF SentUpTo, Waiting
    <3>2. CASE t # "sender"
      BY <2>1, <3>2, <1>0 DEF SentUpTo
    <3> QED  BY <3>1, <3>2
  <2> QED  BY <2>1, <2>2, <2>3, SameCopies
<1> QED  BY <1>2, <1>3, <1>4, <1>5, <1>6, <1>7 DEF ThreadStep

\* What a handler can do in calm.
LEMMA CalmHandler ==
  ASSUME LinkInv, LinkInv', StockInv, OneConnection, OneCopy, NEW c \in Conns, HandlerStep(c)
  PROVE  OneConnection' /\ OneCopy'
<1>0. /\ UNCHANGED <<acked, sock, pc, reading>> /\ UNCHANGED conn
      /\ 1 \in Conns /\ stored \in [Sales -> Nat] /\ up \in [Conns -> Seq(0 .. made)]
  <2>1. 1 \in Conns
    BY LinkConstants DEF Conns
  <2>2. UNCHANGED <<acked, sock, pc, reading>> /\ UNCHANGED conn
    BY DEF HandlerStep, RecordSale, UpdateInventory, AnswerSale, HandleHeartbeat, HandlerEnds,
           queueVars, sockVars, threadVars, wireVars
  <2> QED  BY <2>1, <2>2 DEF LinkInv, LinkTypeOK
<1>1. OneConnection'
  BY <1>0 DEF OneConnection
<1>2. SentUpTo' = SentUpTo
  BY <1>0 DEF SentUpTo
<1>3. ASSUME UpdateInventory(c) \/ HandlerEnds(c) \/ \E low \in BOOLEAN : AnswerSale(c, low)
      PROVE  OneCopy'
  <2>1. UNCHANGED <<up, stored>>
    BY <1>3 DEF UpdateInventory, HandlerEnds, AnswerSale, wireVars
  <2> QED  BY <2>1, <1>2, SameCopies
<1>4. ASSUME RecordSale(c) \/ HandleHeartbeat(c) PROVE OneCopy'
  <2>1. up[c] # << >> /\ up' = [up EXCEPT ![c] = Tail(@)]
    BY <1>4 DEF RecordSale, HandleHeartbeat
  <2>2. c = 1
    BY <2>1 DEF OneConnection, StockInv, OpenedEmpty
  <2>3. /\ Head(up[1]) = up[1][1] /\ Head(up[1]) \in 0 .. made
        /\ Len(up[1]) \in Nat /\ Len(up[1]) >= 1 /\ Len(up'[1]) = Len(up[1]) - 1
        /\ \A i \in 1 .. Len(up'[1]) : up'[1][i] = up[1][i + 1]
    BY <2>1, <2>2, UpTail, WireTypes
  <2>4. 1 \in 1 .. Len(up[1]) /\ \A i \in 1 .. Len(up'[1]) : i + 1 \in 1 .. Len(up[1]) /\ i + 1 # 1
    BY <2>3
  <2>5. ASSUME NEW i \in 1 .. Len(up'[1]), NEW j \in 1 .. Len(up'[1]),
               up'[1][i] # HEARTBEAT, up'[1][i] = up'[1][j]
        PROVE  i = j
    <3>1. i + 1 = j + 1
      BY <2>3, <2>4, <2>5 DEF OneCopy
    <3> QED  BY <3>1, <2>3
  <2>6. CASE HandleHeartbeat(c)
    <3>1. UNCHANGED stored
      BY <2>6 DEF HandleHeartbeat, serverVars
    <3>2. ASSUME NEW i \in 1 .. Len(up'[1]), up'[1][i] # HEARTBEAT
          PROVE  up'[1][i] <= SentUpTo' /\ stored'[up'[1][i]] = 0
      BY <3>1, <3>2, <2>3, <2>4, <1>2 DEF OneCopy
    <3>3. \A n \in Sales : stored'[n] <= 1 /\ (n > SentUpTo' => stored'[n] = 0)
      BY <3>1, <1>2 DEF OneCopy
    <3> QED  BY <3>2, <3>3, <2>5 DEF OneCopy
  <2>7. CASE RecordSale(c)
    <3>1. up[1][1] # HEARTBEAT /\ stored' = [stored EXCEPT ![up[1][1]] = @ + 1]
      BY <2>2, <2>3, <2>7 DEF RecordSale
    <3>2. up[1][1] \in Sales
      BY <3>1, <2>3, LinkNumbers DEF Sales, HEARTBEAT
    <3>3. stored[up[1][1]] = 0 /\ up[1][1] <= SentUpTo
      BY <3>1, <2>4 DEF OneCopy
    <3>4. \A n \in Sales : stored'[n] = IF n = up[1][1] THEN 1 ELSE stored[n]
      BY <3>1, <3>2, <3>3, <1>0
    <3>5. SentUpTo \in Nat
      BY LinkNumbers DEF SentUpTo
    <3>6. \A n \in Sales : stored'[n] <= 1 /\ (n > SentUpTo' => stored'[n] = 0)
      BY <3>2, <3>3, <3>4, <3>5, <1>2 DEF OneCopy, Sales
    <3>7. ASSUME NEW i \in 1 .. Len(up'[1]), up'[1][i] # HEARTBEAT
          PROVE  up'[1][i] <= SentUpTo' /\ stored'[up'[1][i]] = 0
      <4>1. up[1][i + 1] # up[1][1]
        BY <3>1, <2>4 DEF OneCopy
      <4>2. up[1][i + 1] <= SentUpTo /\ stored[up[1][i + 1]] = 0 /\ up[1][i + 1] # HEARTBEAT
        BY <3>7, <2>3, <2>4 DEF OneCopy
      <4>3. up[1][i + 1] \in Sales
        <5>1. up[1][i + 1] \in 0 .. made
          BY <1>0, <2>4, WireTypes
        <5> QED  BY <5>1, <4>2, LinkNumbers DEF Sales, HEARTBEAT
      <4> QED  BY <4>1, <4>2, <4>3, <3>4, <2>3, <1>2
    <3> QED  BY <3>6, <3>7, <2>5 DEF OneCopy
  <2> QED  BY <2>6, <2>7, <1>4
<1> QED  BY <1>1, <1>3, <1>4 DEF HandlerStep

LEMMA CalmNext ==
  ASSUME LinkInv, LinkInv', StockInv, Calm, [LinkNext]_vars PROVE Calm'
<1> SUFFICES ASSUME InCalm' PROVE OneConnection' /\ OneCopy'
  BY DEF Calm
<1>0. /\ OneConnection /\ OneCopy
      /\ \A c \in Conns : ~Reset(c)
      /\ \A t \in Threads : ~ReadTimesOut(t)
  BY CalmBefore DEF Calm
<1>1. ASSUME MakeSale \/ Dequeue \/ StartSending \/ Beat \/ UNCHANGED vars
      PROVE  OneConnection' /\ OneCopy'
  <2>0. pc \in [Threads -> PcValues] /\ Threads = {"sender", "heartbeat"}
    BY DEF LinkInv, LinkTypeOK, Threads
  <2>1. /\ UNCHANGED <<acked, sock, conn, reading, up, stored>>
        /\ \/ UNCHANGED pc
           \/ pc["sender"] \in {"idle", "check"}
              /\ \E label \in {"idle", "check", "send"} : pc' = [pc EXCEPT !["sender"] = label]
           \/ pc' = [pc EXCEPT !["heartbeat"] = "send"]
    BY <1>1 DEF MakeSale, Dequeue, StartSending, Beat, Goto, vars, queueVars, sockVars, threadVars,
                wireVars, serverVars
  <2>2. OneConnection'
    BY <2>0, <2>1, <1>0 DEF OneConnection, Waiting
  <2>3. SentUpTo' = SentUpTo
    BY <2>0, <2>1 DEF SentUpTo, Waiting
  <2> QED  BY <2>1, <2>2, <2>3, <1>0, SameCopies
<1>2. "sender" \in Threads /\ "heartbeat" \in Threads
  BY DEF Threads
<1> QED  BY <1>0, <1>1, <1>2, CalmThread, CalmHandler DEF LinkNext, SenderStep

LEMMA CalmAlways == LinkSpec => []Calm
BY CalmInit, CalmNext, LinkInvAlways, StockInvAlways, PTL DEF LinkSpec

(* As long as nothing was reset or late, no sale is stored twice, with the  *)
(* copies still on their way counted, heartbeats or not                     *)
(* (client_socket.py:239-251).                                              *)
THEOREM StoredOnce == LinkSpec => []OnceWhenCalm
<1>1. ASSUME LinkInv, StockInv, Calm PROVE OnceWhenCalm
  <2> SUFFICES ASSUME InCalm, NEW n \in 1 .. made
               PROVE  stored[n] + Cardinality(Copies(n)) <= 1
    BY DEF OnceWhenCalm, InCalm
  <2>0. /\ OneConnection /\ OneCopy /\ n \in Sales /\ n # HEARTBEAT /\ 1 \in Conns
        /\ stored[n] \in Nat
    <3>1. n \in Sales /\ n # HEARTBEAT
      BY <1>1, LinkNumbers DEF Sales, HEARTBEAT
    <3> QED  BY <3>1, <1>1, LinkConstants DEF Calm, Conns, LinkInv, LinkTypeOK
  <2>1. ASSUME NEW m \in Copies(n) PROVE m[1] = 1 /\ m[2] \in 1 .. Len(up[1]) /\ up[1][m[2]] = n
    <3>1. /\ m[1] \in Conns /\ m[2] \in 1 .. BufferSize
          /\ m[2] <= Len(up[m[1]]) /\ up[m[1]][m[2]] = n
      BY DEF Copies
    <3>2. \A c \in Conns : c # 1 => up[c] = << >>
      BY <1>1, <2>0 DEF OneConnection, StockInv, OpenedEmpty
    <3>3. m[1] = 1
      <4>1. Len(<< >>) = 0
        OBVIOUS
      <4> QED  BY <3>1, <3>2, <4>1
    <3>4. Len(up[1]) \in Nat
      BY <1>1, <2>0, WireTypes
    <3> QED  BY <3>1, <3>3, <3>4
  <2>2. ASSUME NEW m \in Copies(n), NEW k \in Copies(n) PROVE m = k
    <3>1. m[1] = k[1] /\ m[2] = k[2]
      BY <2>0, <2>1 DEF OneCopy
    <3>2. m = <<m[1], m[2]>> /\ k = <<k[1], k[2]>>
      BY DEF Copies
    <3> QED  BY <3>1, <3>2
  <2>3. CASE Copies(n) = {}
    BY <2>0, <2>3, FS_EmptySet DEF OneCopy
  <2>4. CASE Copies(n) # {}
    <3>1. PICK m : m \in Copies(n)
      BY <2>4
    <3>2. Copies(n) = {m}
      BY <2>2, <3>1
    <3>3. stored[n] = 0
      BY <2>0, <2>1, <3>1 DEF OneCopy
    <3> QED  BY <3>2, <3>3, FS_Singleton
  <2> QED  BY <2>3, <2>4
<1> QED  BY <1>1, LinkInvAlways, StockInvAlways, CalmAlways, PTL

=============================================================================
