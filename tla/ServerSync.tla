----------------------------- MODULE ServerSync -----------------------------
(***************************************************************************)
(* Synchronisation of the two servers (src/server/sync_manager.py): the    *)
(* sender thread of one server, and the listener and handler threads of    *)
(* its peer.  The other direction is the same with the roles exchanged;    *)
(* the two share nothing, since what a peer sent is not pushed again.      *)
(*                                                                         *)
(* An item is the number of its push: each SALE the server handles pushes  *)
(* one.  All items are taken to be of one machine, whose stock snapshot    *)
(* they carry.                                                             *)
(*                                                                         *)
(* The sender has one item under way at a time, so a connection holds at   *)
(* most one SYNC or one SYNC_ACK.                                          *)
(***************************************************************************)
EXTENDS Naturals, Sequences

CONSTANTS
  MaxItems,     \* bound on the items pushed
  MaxConns,     \* bound on the connections to the peer
  MaxResets,    \* bound on the connections the network resets
  MaxTimeouts   \* bound on the answers that come too late

ASSUME SyncConstants ==
  /\ MaxItems \in Nat
  /\ MaxResets \in Nat
  /\ MaxTimeouts \in Nat
  /\ MaxConns \in Nat

Items == 1 .. MaxItems
Conns == 1 .. MaxConns

VARIABLES
  pushed,     \* number of items pushed
  outq,       \* SyncManager._queue
  item,       \* the item the sender works on, 0 if none
  stage,      \* where the sender stands: "loop", "send", "wait"
  confirmed,  \* history: items whose SYNC_ACK was read
  sock,       \* the sender's connection, 0 for None
  conn,       \* state of each connection, seen from the sender
  sync,       \* the item on its way to the peer, 0 if none
  sync_ack,   \* a SYNC_ACK is on its way back
  at,         \* where the peer's handler of a connection stands
  held,       \* the item that handler works on, 0 if none
  recorded,   \* how often the peer's record_sale got each item
  snapshot,   \* the item whose stock snapshot the peer has, 0 if none
  resets, timeouts

senderVars == <<outq, item, stage, confirmed, sock>>
wireVars   == <<conn, sync, sync_ack>>
peerVars   == <<at, held, recorded, snapshot>>
counters   == <<resets, timeouts>>
vars == <<pushed, senderVars, wireVars, peerVars, counters>>

SyncTypeOK ==
  /\ pushed \in 0 .. MaxItems
  /\ outq \in Seq(1 .. pushed)
  /\ item \in 0 .. pushed
  /\ stage \in {"loop", "send", "wait"}
  /\ confirmed \in Seq(1 .. pushed)
  /\ sock \in 0 .. MaxConns
  /\ conn \in [Conns -> {"unused", "open", "reset", "closed"}]
  /\ sync \in [Conns -> 0 .. pushed]
  /\ sync_ack \in [Conns -> BOOLEAN]
  /\ at \in [Conns -> {"read", "update", "answer"}]
  /\ held \in [Conns -> 0 .. pushed]
  /\ recorded \in [Items -> Nat]
  /\ snapshot \in 0 .. pushed
  /\ resets \in 0 .. MaxResets
  /\ timeouts \in 0 .. MaxTimeouts

Init ==
  /\ pushed = 0 /\ outq = << >> /\ item = 0 /\ stage = "loop" /\ confirmed = << >>
  /\ sock = 0
  /\ conn = [c \in Conns |-> "unused"]
  /\ sync = [c \in Conns |-> 0]
  /\ sync_ack = [c \in Conns |-> FALSE]
  /\ at = [c \in Conns |-> "read"]
  /\ held = [c \in Conns |-> 0]
  /\ recorded = [k \in Items |-> 0]
  /\ snapshot = 0
  /\ resets = 0 /\ timeouts = 0

-----------------------------------------------------------------------------
(* push, from any client handler. *)

Push ==
  /\ pushed < MaxItems
  /\ pushed' = pushed + 1
  /\ outq' = Append(outq, pushed')
  /\ UNCHANGED <<item, stage, confirmed, sock, wireVars, peerVars, counters>>

-----------------------------------------------------------------------------
(* _sender_loop. *)

\* A failed attempt changes nothing and is repeated.
ConnectPeer(c) ==
  /\ stage = "loop" /\ sock = 0
  /\ conn[c] = "unused" /\ \A b \in Conns : b < c => conn[b] # "unused"
  /\ conn' = [conn EXCEPT ![c] = "open"]
  /\ sock' = c
  /\ UNCHANGED <<pushed, outq, item, stage, confirmed, sync, sync_ack, peerVars, counters>>

TakeItem ==
  /\ stage = "loop" /\ sock # 0
  /\ outq # << >>
  /\ item' = Head(outq)
  /\ outq' = Tail(outq)
  /\ stage' = "send"
  /\ UNCHANGED <<pushed, confirmed, sock, wireVars, peerVars, counters>>

SendSync ==
  /\ stage = "send"
  /\ conn[sock] = "open"
  /\ sync' = [sync EXCEPT ![sock] = item]
  /\ stage' = "wait"
  /\ UNCHANGED <<pushed, outq, item, confirmed, sock, conn, sync_ack, peerVars, counters>>

ReadSyncAck ==
  /\ stage = "wait"
  /\ conn[sock] = "open" /\ sync_ack[sock]
  /\ sync_ack' = [sync_ack EXCEPT ![sock] = FALSE]
  /\ confirmed' = Append(confirmed, item)
  /\ item' = 0
  /\ stage' = "loop"
  /\ UNCHANGED <<pushed, outq, sock, conn, sync, peerVars, counters>>

\* A bug: the item is given up.
GiveUp == UNCHANGED outq

\* A bug: the item is cleared before it is put back.
RequeueCleared == outq' = <<0>> \o outq

\* A bug: the item goes behind those that were pushed meanwhile.
RequeueAtTail == outq' = Append(outq, item)

Requeue == outq' = <<item>> \o outq

\* OSError: the socket is closed, and a later connection tries again.  What
\* was sent on this one may still reach the peer.
Fails ==
  /\ conn' = [conn EXCEPT ![sock] = "closed"]
  /\ sync_ack' = [sync_ack EXCEPT ![sock] = FALSE]
  /\ sock' = 0
  /\ Requeue
  /\ item' = 0
  /\ stage' = "loop"
  /\ UNCHANGED <<pushed, confirmed, sync, peerVars, resets>>

SendOrReadFails ==
  /\ stage \in {"send", "wait"}
  /\ conn[sock] = "reset"
  /\ Fails
  /\ UNCHANGED timeouts

ReadTimesOut ==
  /\ stage = "wait"
  /\ conn[sock] = "open"
  /\ timeouts < MaxTimeouts
  /\ timeouts' = timeouts + 1
  /\ Fails

-----------------------------------------------------------------------------
(* Peer: _handle_peer, one thread per connection.  record_sale and          *)
(* update_inventory take the store's lock one after the other: handlers of  *)
(* an abandoned and of the present connection may alternate.                *)

RecordSync(c) ==
  /\ at[c] = "read" /\ sync[c] # 0
  /\ held' = [held EXCEPT ![c] = sync[c]]
  /\ sync' = [sync EXCEPT ![c] = 0]
  /\ recorded' = [recorded EXCEPT ![sync[c]] = @ + 1]
  /\ at' = [at EXCEPT ![c] = "update"]
  /\ UNCHANGED <<pushed, senderVars, conn, sync_ack, snapshot, counters>>

UpdateSnapshot(c) ==
  /\ at[c] = "update"
  /\ snapshot' = held[c]
  /\ at' = [at EXCEPT ![c] = "answer"]
  /\ UNCHANGED <<pushed, senderVars, wireVars, held, recorded, counters>>

\* On a connection that is gone sendall fails, and the handler ends.
AnswerSync(c) ==
  /\ at[c] = "answer"
  /\ sync_ack' = [sync_ack EXCEPT ![c] = (conn[c] = "open")]
  /\ held' = [held EXCEPT ![c] = 0]
  /\ at' = [at EXCEPT ![c] = "read"]
  /\ UNCHANGED <<pushed, senderVars, conn, sync, recorded, snapshot, counters>>

HandlePeer(c) == RecordSync(c) \/ UpdateSnapshot(c) \/ AnswerSync(c)

\* The network: what is on its way is lost.
Reset(c) ==
  /\ resets < MaxResets
  /\ \/ conn[c] = "open"
     \/ conn[c] = "closed" /\ sync[c] # 0
  /\ resets' = resets + 1
  /\ conn' = [conn EXCEPT ![c] = IF @ = "open" THEN "reset" ELSE @]
  /\ sync' = [sync EXCEPT ![c] = 0]
  /\ sync_ack' = [sync_ack EXCEPT ![c] = FALSE]
  /\ UNCHANGED <<pushed, senderVars, peerVars, timeouts>>

-----------------------------------------------------------------------------
SyncSender ==
  \/ \E c \in Conns : ConnectPeer(c)
  \/ TakeItem \/ SendSync \/ ReadSyncAck \/ SendOrReadFails \/ ReadTimesOut

SyncNext ==
  \/ Push
  \/ SyncSender
  \/ \E c \in Conns : HandlePeer(c) \/ Reset(c)

SyncSpec == Init /\ [][SyncNext]_vars

\* The sender and the peer's handlers go on; the network owes nothing.
SyncFairness ==
  /\ WF_vars(SyncSender)
  /\ \A c \in Conns : WF_vars(HandlePeer(c))

FairSyncSpec == SyncSpec /\ SyncFairness

-----------------------------------------------------------------------------
(* Properties. *)

\* An item leaves the sender's hands only when the peer has recorded it: with
\* one item under way at a time, a SYNC_ACK can only be its own
\* (sync_manager.py:166-195).
NothingForgotten ==
  \A k \in 1 .. pushed :
    \/ recorded[k] > 0
    \/ k = item
    \/ \E i \in DOMAIN outq : outq[i] = k

\* Items are confirmed once each and in the order in which they were pushed,
\* whatever fails in between (sync_manager.py:164-195).
Feed == INSTANCE SaleFeed WITH made <- pushed, confirmed <- confirmed
ImplementsFeed == Feed!Spec

\* Only the handler of a connection the sender has given up replaces a
\* snapshot by an older one; that of its present connection never does, in
\* whatever order what failed before is sent again (sync_manager.py:135-137).
SnapshotAdvances ==
  [][snapshot' < snapshot => \E c \in Conns : c # sock /\ snapshot' = held[c]]_vars

\* With a network that fails finitely often, every item is recorded by the
\* peer in the end (sync_manager.py:152-195).
EveryItemArrives == \A k \in Items : pushed >= k ~> recorded[k] > 0

-----------------------------------------------------------------------------
(* What the documentation says, and the code does not do. *)

\* "동일 SEQ_NUM의 SYNC 메시지를 중복 수신하면 무시하고 SYNC_ACK만 재전송": a
\* SYNC that arrives again is not recorded again (README.md:547).
DuplicateIgnored == \A k \in 1 .. pushed : recorded[k] <= 1

=============================================================================
