-------------------------- MODULE ServerSync_proofs --------------------------
(***************************************************************************)
(* ServerSync keeps its types, forgets nothing, lets an old snapshot in    *)
(* only from an abandoned connection, and implements SaleFeed, for any     *)
(* number of items, connections, resets and late answers.                  *)
(***************************************************************************)
EXTENDS ServerSync, SequenceTheorems, TLAPS

\* The items the sender is done with or works on are a prefix of those pushed;
\* the queue holds the others, in order.
Taken == IF item = 0 THEN Len(confirmed) ELSE Len(confirmed) + 1

InOrder ==
  /\ (item = 0) <=> (stage = "loop")
  /\ item # 0 => sock # 0 /\ item = Len(confirmed) + 1
  /\ Len(outq) = pushed - Taken
  /\ \A i \in 1 .. Len(outq) : outq[i] = Taken + i

\* Nothing is under way on a connection.
Quiet(c) == sync[c] = 0 /\ at[c] = "read" /\ ~sync_ack[c]

\* On the sender's connection there is nothing but the item it waits for: on
\* its way to the peer, in its handler's hands, or answered.
ItsItemOnly(c) ==
  /\ sync[c] # 0 => stage = "wait" /\ sync[c] = item /\ at[c] = "read" /\ ~sync_ack[c]
  /\ at[c] # "read" => stage = "wait" /\ held[c] = item /\ recorded[item] > 0 /\ ~sync_ack[c]
  /\ sync_ack[c] => stage = "wait" /\ recorded[item] > 0

OneUnderWay ==
  \A c \in Conns :
    /\ conn[c] = "unused" => Quiet(c) /\ c # sock
    /\ c = sock => ItsItemOnly(c)

\* What the peer has seen or may still see is no newer than the item under way.
NothingNewer ==
  /\ snapshot <= Len(confirmed) + 1
  /\ \A c \in Conns : sync[c] <= Len(confirmed) + 1 /\ held[c] <= Len(confirmed) + 1

ConfirmedRecorded == \A k \in 1 .. Len(confirmed) : recorded[k] > 0

\* The inductive invariant.  Types say nothing of the order; the order needs
\* that an answer is that of the item under way, which needs that a connection
\* carries one item.
SyncInv == SyncTypeOK /\ InOrder /\ OneUnderWay /\ NothingNewer /\ ConfirmedRecorded

-----------------------------------------------------------------------------
LEMMA SyncInvInit == Init => SyncInv
<1> SUFFICES ASSUME Init PROVE SyncInv
  OBVIOUS
<1>1. SyncTypeOK
  <2>1. 0 \in 0 .. MaxResets /\ 0 \in 0 .. MaxTimeouts /\ 0 \in 0 .. MaxConns /\ 0 \in 0 .. MaxItems
    BY SyncConstants
  <2>2. << >> \in Seq(1 .. 0)
    OBVIOUS
  <2> QED  BY <2>1, <2>2 DEF Init, SyncTypeOK
<1>2. Taken = 0 /\ Len(confirmed) = 0 /\ Len(outq) = 0 /\ pushed = 0 /\ item = 0
  BY DEF Init, Taken
<1>3. InOrder
  BY <1>2 DEF Init, InOrder
<1>4. OneUnderWay
  BY DEF Init, OneUnderWay, Quiet, ItsItemOnly, Conns
<1>5. NothingNewer /\ ConfirmedRecorded
  BY <1>2 DEF Init, NothingNewer, ConfirmedRecorded
<1> QED  BY <1>1, <1>3, <1>4, <1>5 DEF SyncInv

\* Numbers the types imply.
LEMMA SyncNumbers ==
  ASSUME SyncInv
  PROVE  /\ pushed \in Nat /\ pushed <= MaxItems /\ MaxItems \in Nat
         /\ item \in Nat /\ item <= pushed
         /\ outq \in Seq(1 .. pushed) /\ Len(outq) \in Nat
         /\ confirmed \in Seq(1 .. pushed) /\ Len(confirmed) \in Nat
         /\ Taken \in Nat /\ Taken <= pushed
<1>1. /\ pushed \in Nat /\ pushed <= MaxItems /\ MaxItems \in Nat
      /\ item \in Nat /\ item <= pushed
      /\ outq \in Seq(1 .. pushed) /\ confirmed \in Seq(1 .. pushed)
  BY SyncConstants DEF SyncInv, SyncTypeOK
<1>2. Len(outq) \in Nat /\ Len(confirmed) \in Nat
  BY <1>1, LenProperties
<1>3. Taken \in Nat
  BY <1>2 DEF Taken
<1>4. Len(outq) = pushed - Taken
  BY DEF SyncInv, InOrder
<1> QED  BY <1>1, <1>2, <1>3, <1>4

(***************************************************************************)
(* The queue and the confirmations: Push, TakeItem, ReadSyncAck, Requeue.  *)
(***************************************************************************)
LEMMA PushInOrder ==
  ASSUME SyncInv, Push
  PROVE  InOrder' /\ outq' \in Seq(1 .. pushed') /\ confirmed' \in Seq(1 .. pushed')
<1>1. pushed' = pushed + 1 /\ pushed \in Nat /\ UNCHANGED <<item, stage, confirmed, sock>>
  BY SyncNumbers DEF Push
<1>2. /\ outq \in Seq(1 .. pushed') /\ confirmed' \in Seq(1 .. pushed')
      /\ pushed' \in 1 .. pushed'
  BY <1>1, SyncNumbers, SeqMonotonic
<1>3. outq' = Append(outq, pushed')
  BY DEF Push
<1>4. /\ outq' \in Seq(1 .. pushed') /\ Len(outq') = Len(outq) + 1
      /\ \A i \in 1 .. Len(outq) : outq'[i] = outq[i]
      /\ outq'[Len(outq) + 1] = pushed'
  BY <1>2, <1>3, AppendProperties
<1>5. Taken' = Taken /\ Taken \in Nat /\ Len(outq) \in Nat
  BY <1>1, SyncNumbers DEF Taken
<1>6. Len(outq) = pushed - Taken /\ \A i \in 1 .. Len(outq) : outq[i] = Taken + i
  BY DEF SyncInv, InOrder
<1>7. ASSUME NEW i \in 1 .. Len(outq') PROVE outq'[i] = Taken' + i
  <2>1. CASE i = Len(outq) + 1
    BY <2>1, <1>1, <1>4, <1>5, <1>6
  <2>2. CASE i # Len(outq) + 1
    <3>1. i \in 1 .. Len(outq)
      BY <2>2, <1>4, <1>5
    <3> QED  BY <3>1, <1>4, <1>5, <1>6
  <2> QED  BY <2>1, <2>2
<1>8. Len(outq') = pushed' - Taken'
  BY <1>1, <1>4, <1>5, <1>6
<1>9. ((item = 0) <=> (stage = "loop")) /\ (item # 0 => sock # 0 /\ item = Len(confirmed) + 1)
  BY DEF SyncInv, InOrder
<1> QED  BY <1>1, <1>2, <1>4, <1>7, <1>8, <1>9 DEF InOrder

LEMMA TakeItemInOrder ==
  ASSUME SyncInv, TakeItem
  PROVE  InOrder' /\ outq' \in Seq(1 .. pushed') /\ item' \in 1 .. pushed
<1>1. /\ stage = "loop" /\ sock # 0 /\ outq # << >> /\ stage' = "send"
      /\ item' = Head(outq) /\ outq' = Tail(outq) /\ UNCHANGED <<pushed, confirmed, sock>>
  BY DEF TakeItem
<1>2. /\ item = 0 /\ Taken = Len(confirmed)
      /\ Len(outq) = pushed - Taken /\ \A i \in 1 .. Len(outq) : outq[i] = Taken + i
  BY <1>1 DEF SyncInv, InOrder, Taken
<1>3. outq \in Seq(1 .. pushed) /\ Len(outq) \in Nat /\ Len(confirmed) \in Nat /\ pushed \in Nat
  BY SyncNumbers
<1>4. /\ outq' \in Seq(1 .. pushed) /\ item' \in 1 .. pushed /\ Len(outq') = Len(outq) - 1
      /\ \A i \in 1 .. Len(outq') : outq'[i] = outq[i + 1]
  BY <1>1, <1>3, HeadTailProperties
<1>5. Len(outq) > 0
  BY <1>1, <1>3, EmptySeq
<1>6. item' = Len(confirmed') + 1
  BY <1>1, <1>2, <1>3, <1>5
<1>7. Taken' = Len(confirmed) + 1
  BY <1>1, <1>4 DEF Taken
<1>8. \A i \in 1 .. Len(outq') : outq'[i] = Taken' + i
  BY <1>2, <1>3, <1>4, <1>5, <1>7
<1>9. Len(outq') = pushed' - Taken'
  BY <1>1, <1>2, <1>3, <1>4, <1>7
<1> QED  BY <1>1, <1>4, <1>6, <1>8, <1>9 DEF InOrder

LEMMA ReadSyncAckInOrder ==
  ASSUME SyncInv, ReadSyncAck
  PROVE  /\ InOrder' /\ confirmed' \in Seq(1 .. pushed')
         /\ Len(confirmed') = Len(confirmed) + 1 /\ item = Len(confirmed) + 1
<1>1. /\ stage = "wait" /\ stage' = "loop" /\ item' = 0
      /\ confirmed' = Append(confirmed, item) /\ UNCHANGED <<pushed, outq, sock>>
  BY DEF ReadSyncAck
<1>2. /\ item # 0 /\ item = Len(confirmed) + 1 /\ Taken = Len(confirmed) + 1
      /\ Len(outq) = pushed - Taken /\ \A i \in 1 .. Len(outq) : outq[i] = Taken + i
  BY <1>1 DEF SyncInv, InOrder, Taken
<1>3. item \in 1 .. pushed /\ confirmed \in Seq(1 .. pushed)
  BY <1>2, SyncNumbers
<1>4. confirmed' \in Seq(1 .. pushed') /\ Len(confirmed') = Len(confirmed) + 1
  BY <1>1, <1>3, AppendProperties
<1>5. Taken' = Taken
  BY <1>1, <1>2, <1>4 DEF Taken
<1> QED  BY <1>1, <1>2, <1>4, <1>5 DEF InOrder

LEMMA FailsInOrder ==
  ASSUME SyncInv, Fails, stage \in {"send", "wait"}
  PROVE  InOrder' /\ outq' \in Seq(1 .. pushed')
<1>1. /\ outq' = <<item>> \o outq /\ item' = 0 /\ stage' = "loop" /\ sock' = 0
      /\ UNCHANGED <<pushed, confirmed>>
  BY DEF Fails, Requeue
<1>2. /\ item # 0 /\ item = Len(confirmed) + 1 /\ Taken = Len(confirmed) + 1
      /\ Len(outq) = pushed - Taken /\ \A i \in 1 .. Len(outq) : outq[i] = Taken + i
  BY DEF SyncInv, InOrder, Taken
<1>3. /\ item \in 1 .. pushed /\ outq \in Seq(1 .. pushed) /\ Len(outq) \in Nat
      /\ Len(confirmed) \in Nat /\ pushed \in Nat
  BY <1>2, SyncNumbers
<1>4. <<item>> \in Seq(1 .. pushed) /\ Len(<<item>>) = 1 /\ <<item>>[1] = item
  BY <1>3
<1>5. /\ outq' \in Seq(1 .. pushed') /\ Len(outq') = 1 + Len(outq)
      /\ \A i \in 1 .. 1 + Len(outq) :
           outq'[i] = IF i <= 1 THEN <<item>>[i] ELSE outq[i - 1]
  BY <1>1, <1>3, <1>4, ConcatProperties
<1>6. Taken' = Len(confirmed)
  BY <1>1 DEF Taken
<1>7. ASSUME NEW i \in 1 .. Len(outq') PROVE outq'[i] = Taken' + i
  <2>1. CASE i = 1
    BY <2>1, <1>2, <1>3, <1>4, <1>5, <1>6
  <2>2. CASE i # 1
    <3>1. i - 1 \in 1 .. Len(outq) /\ outq'[i] = outq[i - 1]
      BY <2>2, <1>3, <1>5
    <3> QED  BY <3>1, <1>2, <1>3, <1>6
  <2> QED  BY <2>1, <2>2
<1>8. Len(outq') = pushed' - Taken'
  BY <1>1, <1>2, <1>3, <1>5, <1>6
<1> QED  BY <1>1, <1>5, <1>7, <1>8 DEF InOrder

-----------------------------------------------------------------------------
(* What a step does to the connections and to the peer. *)

\* The parts of the invariant that are not about the order of the items.
Rest == OneUnderWay /\ NothingNewer /\ ConfirmedRecorded

LEMMA InOrderUnchanged ==
  ASSUME InOrder, UNCHANGED <<pushed, outq, item, stage, confirmed, sock>>
  PROVE  InOrder'
BY DEF InOrder, Taken

LEMMA PushInv == ASSUME SyncInv, Push PROVE SyncInv'
<1>1. pushed' = pushed + 1 /\ pushed < MaxItems /\ pushed \in Nat
  BY SyncNumbers DEF Push
<1>2. SyncTypeOK'
  <2>1. 0 .. pushed \subseteq 0 .. pushed' /\ pushed' \in 0 .. MaxItems
    BY <1>1, SyncNumbers
  <2> QED  BY <2>1, PushInOrder DEF Push, SyncInv, SyncTypeOK, wireVars, peerVars, counters
<1>3. Rest'
  BY DEF Push, SyncInv, Rest, OneUnderWay, NothingNewer, ConfirmedRecorded, Quiet, ItsItemOnly,
         wireVars, peerVars
<1> QED  BY <1>2, <1>3, PushInOrder DEF SyncInv, Rest

LEMMA ConnectPeerInv == ASSUME SyncInv, NEW c \in Conns, ConnectPeer(c) PROVE SyncInv'
<1>1. /\ sock' = c /\ conn[c] = "unused" /\ conn' = [conn EXCEPT ![c] = "open"]
      /\ UNCHANGED <<pushed, outq, item, stage, confirmed, sync, sync_ack, peerVars, counters>>
      /\ stage = "loop"
  BY DEF ConnectPeer
<1>2. SyncTypeOK'
  BY <1>1 DEF SyncInv, SyncTypeOK, peerVars, counters, Conns
<1>3. InOrder'
  BY <1>1 DEF SyncInv, InOrder, Taken
<1>4. OneUnderWay'
  BY <1>1 DEF SyncInv, SyncTypeOK, OneUnderWay, Quiet, ItsItemOnly, peerVars
<1>5. NothingNewer' /\ ConfirmedRecorded'
  BY <1>1 DEF SyncInv, NothingNewer, ConfirmedRecorded, peerVars
<1> QED  BY <1>2, <1>3, <1>4, <1>5 DEF SyncInv

LEMMA TakeItemInv == ASSUME SyncInv, TakeItem PROVE SyncInv'
<1>1. SyncTypeOK'
  <2>1. /\ stage' = "send" /\ outq' \in Seq(1 .. pushed') /\ item' \in 0 .. pushed
        /\ UNCHANGED <<pushed, confirmed, sock, wireVars, peerVars, counters>>
    BY TakeItemInOrder, SyncNumbers DEF TakeItem
  <2> QED  BY <2>1 DEF SyncInv, SyncTypeOK, wireVars, peerVars, counters
<1>2. OneUnderWay'
  BY DEF TakeItem, SyncInv, OneUnderWay, Quiet, ItsItemOnly, wireVars, peerVars
<1>3. NothingNewer' /\ ConfirmedRecorded'
  BY DEF TakeItem, SyncInv, NothingNewer, ConfirmedRecorded, wireVars, peerVars
<1> QED  BY <1>1, <1>2, <1>3, TakeItemInOrder DEF SyncInv

LEMMA SendSyncInv == ASSUME SyncInv, SendSync PROVE SyncInv'
<1>1. /\ stage = "send" /\ stage' = "wait" /\ conn[sock] = "open"
      /\ sync' = [sync EXCEPT ![sock] = item]
      /\ UNCHANGED <<pushed, outq, item, confirmed, sock, conn, sync_ack, peerVars, counters>>
  BY DEF SendSync
<1>2. item # 0 /\ sock # 0 /\ item = Len(confirmed) + 1 /\ sock \in Conns
  BY <1>1, SyncConstants DEF SyncInv, InOrder, SyncTypeOK, Conns
<1>3. SyncTypeOK'
  <2>1. sync' \in [Conns -> 0 .. pushed]
    BY <1>1, <1>2 DEF SyncInv, SyncTypeOK
  <2> QED  BY <2>1, <1>1 DEF SyncInv, SyncTypeOK, peerVars, counters
<1>4. InOrder'
  BY <1>1, <1>2 DEF SyncInv, InOrder, Taken
<1>5. OneUnderWay'
  BY <1>1, <1>2 DEF SyncInv, SyncTypeOK, OneUnderWay, Quiet, ItsItemOnly, peerVars
<1>6. NothingNewer'
  BY <1>1, <1>2, SyncNumbers, SMTT(30) DEF SyncInv, SyncTypeOK, NothingNewer, peerVars
<1>7. ConfirmedRecorded'
  BY <1>1 DEF SyncInv, ConfirmedRecorded, peerVars
<1> QED  BY <1>3, <1>4, <1>5, <1>6, <1>7 DEF SyncInv

LEMMA ReadSyncAckInv == ASSUME SyncInv, ReadSyncAck PROVE SyncInv'
<1>1. /\ stage = "wait" /\ conn[sock] = "open" /\ sync_ack[sock]
      /\ sync_ack' = [sync_ack EXCEPT ![sock] = FALSE]
      /\ item' = 0 /\ stage' = "loop"
      /\ UNCHANGED <<pushed, outq, sock, conn, sync, peerVars, counters>>
  BY DEF ReadSyncAck
<1>2. sock \in Conns
  BY <1>1, SyncConstants DEF SyncInv, InOrder, SyncTypeOK, Conns
<1>3. /\ Len(confirmed') = Len(confirmed) + 1 /\ item = Len(confirmed) + 1
      /\ Len(confirmed) \in Nat /\ confirmed' \in Seq(1 .. pushed')
  BY ReadSyncAckInOrder, SyncNumbers
<1>4. SyncTypeOK'
  <2>1. item' \in 0 .. pushed
    BY <1>1, SyncNumbers
  <2>2. sync_ack' \in [Conns -> BOOLEAN]
    BY <1>1 DEF SyncInv, SyncTypeOK
  <2> QED  BY <2>1, <2>2, <1>1, <1>3 DEF SyncInv, SyncTypeOK, peerVars, counters
<1>5. OneUnderWay'
  BY <1>1, <1>2 DEF SyncInv, SyncTypeOK, OneUnderWay, Quiet, ItsItemOnly, peerVars
<1>6. NothingNewer'
  <2>1. snapshot \in Nat /\ \A c \in Conns : sync[c] \in Nat /\ held[c] \in Nat
    BY SyncNumbers DEF SyncInv, SyncTypeOK
  <2> QED  BY <2>1, <1>1, <1>3 DEF SyncInv, NothingNewer, peerVars
<1>7. recorded[item] > 0
  BY <1>1, <1>2 DEF SyncInv, OneUnderWay, ItsItemOnly
<1>8. ConfirmedRecorded'
  BY <1>1, <1>3, <1>7 DEF SyncInv, ConfirmedRecorded, peerVars
<1> QED  BY <1>4, <1>5, <1>6, <1>8, ReadSyncAckInOrder DEF SyncInv

LEMMA FailsInv ==
  ASSUME SyncInv, stage \in {"send", "wait"}, conn[sock] # "unused", Fails,
         timeouts' \in 0 .. MaxTimeouts
  PROVE  SyncInv'
<1>1. /\ conn' = [conn EXCEPT ![sock] = "closed"]
      /\ sync_ack' = [sync_ack EXCEPT ![sock] = FALSE]
      /\ sock' = 0 /\ item' = 0 /\ stage' = "loop"
      /\ UNCHANGED <<pushed, confirmed, sync, peerVars, resets>>
  BY DEF Fails
<1>2. sock \in Conns
  BY SyncConstants DEF SyncInv, InOrder, SyncTypeOK, Conns
<1>3. SyncTypeOK'
  <2>1. item' \in 0 .. pushed /\ sock' \in 0 .. MaxConns
    BY <1>1, SyncNumbers, SyncConstants
  <2>2. /\ conn' \in [Conns -> {"unused", "open", "reset", "closed"}]
        /\ sync_ack' \in [Conns -> BOOLEAN]
    BY <1>1 DEF SyncInv, SyncTypeOK
  <2> QED  BY <2>1, <2>2, <1>1, FailsInOrder DEF SyncInv, SyncTypeOK, peerVars
<1>4. 0 \notin Conns
  BY DEF Conns
<1>5. OneUnderWay'
  BY <1>1, <1>2, <1>4 DEF SyncInv, SyncTypeOK, OneUnderWay, Quiet, ItsItemOnly, peerVars
<1>6. NothingNewer' /\ ConfirmedRecorded'
  BY <1>1 DEF SyncInv, NothingNewer, ConfirmedRecorded, peerVars
<1> QED  BY <1>3, <1>5, <1>6, FailsInOrder DEF SyncInv

LEMMA RecordSyncInv == ASSUME SyncInv, NEW c \in Conns, RecordSync(c) PROVE SyncInv'
<1>1. /\ at[c] = "read" /\ sync[c] # 0
      /\ held' = [held EXCEPT ![c] = sync[c]] /\ sync' = [sync EXCEPT ![c] = 0]
      /\ recorded' = [recorded EXCEPT ![sync[c]] = @ + 1]
      /\ at' = [at EXCEPT ![c] = "update"]
      /\ UNCHANGED <<pushed, senderVars, conn, sync_ack, snapshot, counters>>
  BY DEF RecordSync
<1>2. sync[c] \in 1 .. pushed /\ sync[c] \in Items
  BY <1>1, SyncNumbers DEF SyncInv, SyncTypeOK, Items
<1>3. /\ recorded' \in [Items -> Nat] /\ recorded'[sync[c]] > 0
      /\ \A k \in Items : recorded[k] > 0 => recorded'[k] > 0
  BY <1>1, <1>2 DEF SyncInv, SyncTypeOK
<1>4. SyncTypeOK'
  <2>1. /\ held' \in [Conns -> 0 .. pushed] /\ sync' \in [Conns -> 0 .. pushed]
        /\ at' \in [Conns -> {"read", "update", "answer"}]
    BY <1>1, <1>2, SyncNumbers DEF SyncInv, SyncTypeOK
  <2> QED  BY <2>1, <1>1, <1>3 DEF SyncInv, SyncTypeOK, senderVars, counters
<1>5. OneUnderWay'
  <2> SUFFICES ASSUME NEW b \in Conns
               PROVE  /\ conn'[b] = "unused" => Quiet(b)' /\ b # sock'
                      /\ b = sock' => ItsItemOnly(b)'
    BY DEF OneUnderWay
  <2>1. CASE b = c
    BY <2>1, <1>1, <1>3 DEF SyncInv, SyncTypeOK, OneUnderWay, Quiet, ItsItemOnly, senderVars
  <2>2. CASE b # c
    <3>1. /\ held'[b] = held[b] /\ sync'[b] = sync[b] /\ at'[b] = at[b]
          /\ sync_ack'[b] = sync_ack[b]
      BY <2>2, <1>1 DEF SyncInv, SyncTypeOK
    <3>2. b = sock /\ stage = "wait" => item \in Items
      BY SyncNumbers DEF SyncInv, InOrder, Items
    <3> QED  BY <3>1, <3>2, <1>1, <1>3 DEF SyncInv, OneUnderWay, Quiet, ItsItemOnly, senderVars
  <2> QED  BY <2>1, <2>2
<1>6. NothingNewer'
  BY <1>1, SyncNumbers DEF SyncInv, SyncTypeOK, NothingNewer, senderVars
<1>7. ConfirmedRecorded'
  <2>1. 1 .. Len(confirmed) \subseteq Items
    BY SyncNumbers DEF Items, Taken
  <2> QED  BY <2>1, <1>1, <1>3 DEF SyncInv, ConfirmedRecorded, senderVars
<1> QED  BY <1>1, <1>4, <1>5, <1>6, <1>7, InOrderUnchanged DEF SyncInv, senderVars

LEMMA UpdateSnapshotInv == ASSUME SyncInv, NEW c \in Conns, UpdateSnapshot(c) PROVE SyncInv'
<1>1. /\ at[c] = "update" /\ snapshot' = held[c] /\ at' = [at EXCEPT ![c] = "answer"]
      /\ UNCHANGED <<pushed, senderVars, wireVars, held, recorded, counters>>
  BY DEF UpdateSnapshot
<1>2. SyncTypeOK'
  BY <1>1 DEF SyncInv, SyncTypeOK, senderVars, wireVars, counters
<1>3. OneUnderWay'
  BY <1>1 DEF SyncInv, SyncTypeOK, OneUnderWay, Quiet, ItsItemOnly, senderVars, wireVars
<1>4. NothingNewer' /\ ConfirmedRecorded'
  BY <1>1 DEF SyncInv, NothingNewer, ConfirmedRecorded, senderVars, wireVars
<1> QED  BY <1>1, <1>2, <1>3, <1>4, InOrderUnchanged DEF SyncInv, senderVars

LEMMA AnswerSyncInv == ASSUME SyncInv, NEW c \in Conns, AnswerSync(c) PROVE SyncInv'
<1>1. /\ at[c] = "answer" /\ at' = [at EXCEPT ![c] = "read"]
      /\ sync_ack' = [sync_ack EXCEPT ![c] = (conn[c] = "open")]
      /\ held' = [held EXCEPT ![c] = 0]
      /\ UNCHANGED <<pushed, senderVars, conn, sync, recorded, snapshot, counters>>
  BY DEF AnswerSync
<1>2. SyncTypeOK'
  <2>1. held' \in [Conns -> 0 .. pushed]
    BY <1>1, SyncNumbers DEF SyncInv, SyncTypeOK
  <2>2. /\ sync_ack' \in [Conns -> BOOLEAN] /\ at' \in [Conns -> {"read", "update", "answer"}]
    BY <1>1 DEF SyncInv, SyncTypeOK
  <2> QED  BY <2>1, <2>2, <1>1 DEF SyncInv, SyncTypeOK, senderVars, counters
<1>3. OneUnderWay'
  BY <1>1 DEF SyncInv, SyncTypeOK, OneUnderWay, Quiet, ItsItemOnly, senderVars
<1>4. NothingNewer' /\ ConfirmedRecorded'
  BY <1>1, SyncNumbers DEF SyncInv, SyncTypeOK, NothingNewer, ConfirmedRecorded, senderVars
<1> QED  BY <1>1, <1>2, <1>3, <1>4, InOrderUnchanged DEF SyncInv, senderVars

LEMMA ResetInv == ASSUME SyncInv, NEW c \in Conns, Reset(c) PROVE SyncInv'
<1>1. /\ resets < MaxResets /\ resets' = resets + 1
      /\ conn' = [conn EXCEPT ![c] = IF @ = "open" THEN "reset" ELSE @]
      /\ sync' = [sync EXCEPT ![c] = 0] /\ sync_ack' = [sync_ack EXCEPT ![c] = FALSE]
      /\ UNCHANGED <<pushed, senderVars, peerVars, timeouts>>
      /\ conn[c] # "unused"
  BY DEF Reset
<1>2. SyncTypeOK'
  <2>1. resets' \in 0 .. MaxResets
    BY <1>1, SyncConstants DEF SyncInv, SyncTypeOK
  <2>2. sync' \in [Conns -> 0 .. pushed]
    BY <1>1, SyncNumbers DEF SyncInv, SyncTypeOK
  <2>3. /\ conn' \in [Conns -> {"unused", "open", "reset", "closed"}]
        /\ sync_ack' \in [Conns -> BOOLEAN]
    BY <1>1 DEF SyncInv, SyncTypeOK
  <2> QED  BY <2>1, <2>2, <2>3, <1>1 DEF SyncInv, SyncTypeOK, senderVars, peerVars
<1>3. OneUnderWay'
  BY <1>1 DEF SyncInv, SyncTypeOK, OneUnderWay, Quiet, ItsItemOnly, senderVars, peerVars
<1>4. NothingNewer' /\ ConfirmedRecorded'
  BY <1>1, SyncNumbers DEF SyncInv, SyncTypeOK, NothingNewer, ConfirmedRecorded, senderVars, peerVars
<1> QED  BY <1>1, <1>2, <1>3, <1>4, InOrderUnchanged DEF SyncInv, senderVars

-----------------------------------------------------------------------------
LEMMA SyncInvNext == ASSUME SyncInv, [SyncNext]_vars PROVE SyncInv'
<1>1. ASSUME SendOrReadFails PROVE SyncInv'
  <2>1. timeouts' \in 0 .. MaxTimeouts
    BY <1>1 DEF SendOrReadFails, SyncInv, SyncTypeOK
  <2> QED  BY <1>1, <2>1, FailsInv DEF SendOrReadFails
<1>2. ASSUME ReadTimesOut PROVE SyncInv'
  <2>1. timeouts' \in 0 .. MaxTimeouts
    BY <1>2, SyncConstants DEF ReadTimesOut, SyncInv, SyncTypeOK
  <2> QED  BY <1>2, <2>1, FailsInv DEF ReadTimesOut
<1>3. ASSUME UNCHANGED vars PROVE SyncInv'
  BY <1>3 DEF vars, senderVars, wireVars, peerVars, counters, SyncInv, SyncTypeOK, InOrder, Taken,
              OneUnderWay, Quiet, ItsItemOnly, NothingNewer, ConfirmedRecorded
<1> QED  BY <1>1, <1>2, <1>3, PushInv, ConnectPeerInv, TakeItemInv, SendSyncInv, ReadSyncAckInv,
            RecordSyncInv, UpdateSnapshotInv, AnswerSyncInv, ResetInv
         DEF SyncNext, SyncSender, HandlePeer

LEMMA SyncInvAlways == SyncSpec => []SyncInv
BY SyncInvInit, SyncInvNext, PTL DEF SyncSpec

(* The variables keep their types; an item in somebody's hands was pushed.  *)
THEOREM SyncTypeCorrect == SyncSpec => []SyncTypeOK
<1>1. SyncInv => SyncTypeOK
  BY DEF SyncInv
<1> QED  BY <1>1, SyncInvAlways, PTL

(* An item is recorded by the peer, queued, or under way: no failure of a   *)
(* connection makes the server forget it (sync_manager.py:166-195).         *)
THEOREM NothingIsForgotten == SyncSpec => []NothingForgotten
<1>1. ASSUME SyncInv PROVE NothingForgotten
  <2> SUFFICES ASSUME NEW k \in 1 .. pushed
               PROVE  recorded[k] > 0 \/ k = item \/ \E i \in DOMAIN outq : outq[i] = k
    BY DEF NothingForgotten
  <2>1. CASE k <= Len(confirmed)
    BY <1>1, <2>1, SyncNumbers DEF SyncInv, ConfirmedRecorded
  <2>2. CASE Len(confirmed) < k /\ k <= Taken
    <3>1. item # 0 /\ k = Len(confirmed) + 1
      BY <1>1, <2>2, SyncNumbers, SMTT(30) DEF Taken
    <3> QED  BY <3>1, <1>1 DEF SyncInv, InOrder
  <2>3. CASE Taken < k
    <3>1. k - Taken \in 1 .. Len(outq)
      BY <1>1, <2>3, SyncNumbers DEF SyncInv, InOrder
    <3>2. DOMAIN outq = 1 .. Len(outq)
      BY <1>1, SyncNumbers, LenProperties
    <3>3. outq[k - Taken] = Taken + (k - Taken) /\ Taken + (k - Taken) = k
      BY <3>1, <1>1, SyncNumbers DEF SyncInv, InOrder
    <3> QED  BY <3>1, <3>2, <3>3
  <2> QED  BY <2>1, <2>2, <2>3, <1>1, SyncNumbers
<1> QED  BY <1>1, SyncInvAlways, PTL

(* Only the handler of an abandoned connection replaces a snapshot by an    *)
(* older one (sync_manager.py:135-137).                                     *)
THEOREM SnapshotsAdvance == SyncSpec => SnapshotAdvances
<1>1. ASSUME SyncInv, [SyncNext]_vars
      PROVE  [snapshot' < snapshot => \E c \in Conns : c # sock /\ snapshot' = held[c]]_vars
  <2>0. snapshot \in Nat
    BY <1>1, SyncNumbers DEF SyncInv, SyncTypeOK
  <2>1. ASSUME NEW c \in Conns, UpdateSnapshot(c), snapshot' < snapshot
        PROVE  c # sock /\ snapshot' = held[c]
    <3>1. at[c] = "update" /\ snapshot' = held[c]
      BY <2>1 DEF UpdateSnapshot
    <3>2. c = sock => held[c] = item /\ item = Len(confirmed) + 1
      BY <3>1, <1>1 DEF SyncInv, OneUnderWay, ItsItemOnly, InOrder
    <3>3. snapshot <= Len(confirmed) + 1
      BY <1>1 DEF SyncInv, NothingNewer
    <3> QED  BY <3>1, <3>2, <3>3, <2>0, <2>1, <1>1, SyncNumbers
  <2>2. CASE \E c \in Conns : UpdateSnapshot(c)
    BY <2>1, <2>2
  <2>3. CASE snapshot' = snapshot
    BY <2>0, <2>3
  <2>4. UNCHANGED snapshot \/ \E c \in Conns : UpdateSnapshot(c)
    BY <1>1 DEF SyncNext, SyncSender, HandlePeer, Push, ConnectPeer, TakeItem, SendSync, ReadSyncAck,
                SendOrReadFails, ReadTimesOut, Fails, RecordSync, AnswerSync, Reset, vars, peerVars
  <2> QED  BY <2>2, <2>3, <2>4
<1> QED  BY <1>1, SyncInvAlways, PTL DEF SyncSpec, SnapshotAdvances

(* The sender implements SaleFeed: items are confirmed once each and in the *)
(* order in which they were pushed (sync_manager.py:164-195).               *)
THEOREM SyncImplementsFeed == SyncSpec => ImplementsFeed
<1>1. Init => Feed!Init
  BY DEF Init, Feed!Init
<1>2. ASSUME SyncInv, [SyncNext]_vars PROVE [Feed!Next]_Feed!vars
  <2>1. ASSUME Push PROVE Feed!Make
    BY <2>1 DEF Push, Feed!Make
  <2>2. ASSUME ReadSyncAck PROVE Feed!Confirm
    <3>1. item = Len(confirmed) + 1 /\ confirmed' = Append(confirmed, item) /\ UNCHANGED pushed
      BY <1>2, <2>2, ReadSyncAckInOrder DEF ReadSyncAck
    <3>2. Len(confirmed) < pushed
      BY <3>1, <1>2, SyncNumbers
    <3> QED  BY <3>1, <3>2 DEF Feed!Confirm
  <2>3. Push \/ ReadSyncAck \/ UNCHANGED <<pushed, confirmed>>
    BY <1>2 DEF SyncNext, SyncSender, HandlePeer, ConnectPeer, TakeItem, SendSync, SendOrReadFails,
                ReadTimesOut, Fails, RecordSync, UpdateSnapshot, AnswerSync, Reset, vars, senderVars
  <2> QED  BY <2>1, <2>2, <2>3 DEF Feed!Next, Feed!vars
<1> QED  BY <1>1, <1>2, SyncInvAlways, PTL DEF SyncSpec, ImplementsFeed, Feed!Spec

=============================================================================
