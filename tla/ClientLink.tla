----------------------------- MODULE ClientLink -----------------------------
(***************************************************************************)
(* The TCP link between one machine and its server: VendingClient          *)
(* (src/client/network/client_socket.py) with its sender and heartbeat     *)
(* threads, and the ClientHandler threads of the server                    *)
(* (src/server/server_handler.py), one per connection.                     *)
(*                                                                         *)
(* A SALE message is the number of its sale; HEARTBEAT is 0.  The threads  *)
(* share _sock, _connected and _recv_lock: they are interleaved at every   *)
(* access to _sock but one, as header and payload of a COMMAND are read in *)
(* one step.  An attribute of None, and settimeout on a closed socket,     *)
(* raise exceptions nobody catches: the thread dies.                       *)
(*                                                                         *)
(* Connections are TCP: what was written arrives in order and is not       *)
(* damaged, unless the connection is reset; closing lets the data already  *)
(* written arrive.                                                         *)
(***************************************************************************)
EXTENDS Naturals, Sequences, FiniteSets

CONSTANTS
  MAX_RETRIES,   \* attempts at one send_sale
  MaxSales,      \* bound on the number of sales
  MaxConns,      \* bound on the number of connections
  MaxResets,     \* bound on the connections the network resets
  MaxTimeouts,   \* bound on the waits that end without an answer
  MaxBeats,      \* bound on the heartbeats
  BufferSize     \* messages a connection holds in each direction

ASSUME LinkConstants ==
  /\ MAX_RETRIES \in Nat \ {0}
  /\ MaxSales \in Nat
  /\ MaxConns \in Nat \ {0}
  /\ MaxResets \in Nat
  /\ MaxTimeouts \in Nat
  /\ MaxBeats \in Nat
  /\ BufferSize \in Nat \ {0, 1}

Sales     == 1 .. MaxSales
Conns     == 1 .. MaxConns
HEARTBEAT == 0
Threads   == {"sender", "heartbeat"}

VARIABLES
  made,        \* number of sales enqueued
  queue,       \* SendQueue._queue
  record,      \* the record send_sale is working on, 0 if none
  attempt,     \* the loop variable of send_sale
  acked,       \* history: records for which send_sale returned True
  sock,        \* VendingClient._sock, 0 for None
  connected,   \* VendingClient._connected
  recv_lock,   \* the thread that holds _recv_lock, or "free"
  pc,          \* where each thread stands
  reading,     \* the socket each thread is blocked on in recv
  conn,        \* state of each connection, seen from the client's socket
  up,          \* messages on their way to the server
  down,        \* messages on their way to the client
  handler,     \* state of each connection's ClientHandler
  handling,    \* the sale each handler works on, 0 if none
  named,       \* handlers whose _client_id is set
  registered,  \* ClientRegistry._handlers[client_id], 0 if absent
  stored,      \* how often SalesDataStore.record_sale got each sale
  snapshot,    \* the sale whose stock SalesDataStore has, 0 if none
  resets, timeouts, beats   \* history: how much trouble there was

queueVars  == <<made, queue, record, attempt, acked>>
sockVars   == <<sock, connected>>
threadVars == <<recv_lock, pc, reading>>
wireVars   == <<conn, up, down>>
serverVars == <<handler, handling, named, registered, stored, snapshot>>
counters   == <<resets, timeouts, beats>>
vars == <<queueVars, sockVars, threadVars, wireVars, serverVars, counters>>

PcValues == {"idle", "check", "send", "await", "armed", "reading",
             "disconnect", "close", "clear", "connect", "online", "dead"}

LinkTypeOK ==
  /\ made \in 0 .. MaxSales
  /\ queue \in Seq(1 .. made)
  /\ record \in 0 .. made
  /\ attempt \in 0 .. MAX_RETRIES
  /\ acked \in Seq(1 .. made)
  /\ sock \in 0 .. MaxConns
  /\ connected \in BOOLEAN
  /\ recv_lock \in Threads \cup {"free"}
  /\ pc \in [Threads -> PcValues]
  /\ reading \in [Threads -> 0 .. MaxConns]
  /\ conn \in [Conns -> {"unused", "open", "reset", "closed"}]
  /\ up \in [Conns -> Seq(0 .. made)]
  /\ down \in [Conns -> Seq({"ACK", "COMMAND"})]
  /\ handler \in [Conns -> {"none", "running", "update", "answer", "done"}]
  /\ handling \in [Conns -> 0 .. made]
  /\ named \in SUBSET Conns
  /\ registered \in 0 .. MaxConns
  /\ stored \in [Sales -> Nat]
  /\ snapshot \in 0 .. made
  /\ resets \in 0 .. MaxResets
  /\ timeouts \in 0 .. MaxTimeouts
  /\ beats \in 0 .. MaxBeats

\* start() has connected and started both threads.
Init ==
  /\ made = 0 /\ queue = << >> /\ record = 0 /\ attempt = 0 /\ acked = << >>
  /\ sock = 1 /\ connected = TRUE
  /\ recv_lock = "free"
  /\ pc = [t \in Threads |-> "idle"]
  /\ reading = [t \in Threads |-> 0]
  /\ conn = [c \in Conns |-> IF c = 1 THEN "open" ELSE "unused"]
  /\ up = [c \in Conns |-> << >>]
  /\ down = [c \in Conns |-> << >>]
  /\ handler = [c \in Conns |-> IF c = 1 THEN "running" ELSE "none"]
  /\ handling = [c \in Conns |-> 0]
  /\ named = {}
  /\ registered = 0
  /\ stored = [n \in Sales |-> 0]
  /\ snapshot = 0
  /\ resets = 0 /\ timeouts = 0 /\ beats = 0

Goto(t, label) == pc' = [pc EXCEPT ![t] = label]

-----------------------------------------------------------------------------
(* The queue and the two thread loops. *)

\* The GUI thread enqueues a sale.
MakeSale ==
  /\ made < MaxSales
  /\ made' = made + 1
  /\ queue' = Append(queue, made')
  /\ UNCHANGED <<record, attempt, acked, sockVars, threadVars, wireVars,
                 serverVars, counters>>

\* _sender_loop
Dequeue ==
  /\ pc["sender"] = "idle"
  /\ connected
  /\ queue # << >>
  /\ record' = Head(queue)
  /\ queue' = Tail(queue)
  /\ Goto("sender", "check")
  /\ UNCHANGED <<made, attempt, acked, sockVars, recv_lock, reading, wireVars,
                 serverVars, counters>>

\* A bug: the record is forgotten after the last attempt.
ForgetRecord == record' = 0 /\ attempt' = 0 /\ UNCHANGED queue

\* A bug: the record goes behind those enqueued meanwhile.
RequeueAtTail ==
  /\ queue' = Append(queue, record)
  /\ record' = 0
  /\ attempt' = 0

Requeue ==
  /\ queue' = <<record>> \o queue
  /\ record' = 0
  /\ attempt' = 0

\* The link may have gone between dequeue and send_sale.
StartSending ==
  /\ pc["sender"] = "check"
  /\ IF connected
     THEN attempt' = 1 /\ Goto("sender", "send") /\ UNCHANGED <<queue, record>>
     ELSE Requeue /\ Goto("sender", "idle")
  /\ UNCHANGED <<made, acked, sockVars, recv_lock, reading, wireVars,
                 serverVars, counters>>

\* A bug: the loop in send_sale runs once too often.
NextAttemptInclusive ==
  IF attempt <= MAX_RETRIES
  THEN attempt' = attempt + 1 /\ Goto("sender", "send") /\ UNCHANGED <<queue, record>>
  ELSE Requeue /\ Goto("sender", "idle")

\* The next iteration of the loop in send_sale, or its end.
NextAttempt ==
  IF attempt < MAX_RETRIES
  THEN attempt' = attempt + 1 /\ Goto("sender", "send") /\ UNCHANGED <<queue, record>>
  ELSE Requeue /\ Goto("sender", "idle")

\* _heartbeat_loop
Beat ==
  /\ pc["heartbeat"] = "idle"
  /\ connected
  /\ beats < MaxBeats
  /\ beats' = beats + 1
  /\ Goto("heartbeat", "send")
  /\ UNCHANGED <<queueVars, sockVars, recv_lock, reading, wireVars, serverVars,
                 resets, timeouts>>

-----------------------------------------------------------------------------
(* Sending: _send_raw. *)

Message(t) == IF t = "sender" THEN record ELSE HEARTBEAT

SendRaw(t) ==
  /\ pc[t] = "send"
  /\ sock # 0 /\ conn[sock] = "open"
  /\ Len(up[sock]) < BufferSize
  /\ up' = [up EXCEPT ![sock] = Append(@, Message(t))]
  /\ Goto(t, "await")
  /\ UNCHANGED <<queueVars, sockVars, recv_lock, reading, conn, down, serverVars,
                 counters>>

\* OSError: send_sale reconnects, send_heartbeat takes no notice.
SendFails(t) ==
  /\ pc[t] = "send"
  /\ sock # 0 /\ conn[sock] # "open"
  /\ Goto(t, IF t = "sender" THEN "disconnect" ELSE "await")
  /\ UNCHANGED <<queueVars, sockVars, recv_lock, reading, wireVars, serverVars,
                 counters>>

-----------------------------------------------------------------------------
(* Waiting for the answer: _wait_ack.  recv_lock is held from the first    *)
(* settimeout until the function returns.                                  *)

\* settimeout succeeds.
SockUsable == sock # 0 /\ conn[sock] # "closed"

AwaitAck(t) ==
  /\ pc[t] = "await"
  /\ recv_lock \in {"free", t}
  /\ SockUsable
  /\ recv_lock' = t
  /\ Goto(t, "armed")
  /\ UNCHANGED <<queueVars, sockVars, reading, wireVars, serverVars, counters>>

\* _recv_message looks at _sock again, and blocks on what it finds.
Recv(t) ==
  /\ pc[t] = "armed"
  /\ sock # 0
  /\ reading' = [reading EXCEPT ![t] = sock]
  /\ Goto(t, "reading")
  /\ UNCHANGED <<queueVars, sockVars, recv_lock, wireVars, serverVars, counters>>

\* A bug: anything the server says is an answer.
AnswersToAnything(message) == message \in {"ACK", "COMMAND"}

\* Any ACK will do, whatever it acknowledges.
Answers(message) == message = "ACK"

\* A bug: the loop in send_sale is left with break, and requeues.
DeliveredAndRequeued == acked' = Append(acked, record) /\ Requeue

Delivered ==
  /\ acked' = Append(acked, record)
  /\ record' = 0
  /\ attempt' = 0
  /\ UNCHANGED queue

ReadAck(t) ==
  LET c == reading[t]
  IN  /\ pc[t] = "reading"
      /\ conn[c] = "open"
      /\ down[c] # << >> /\ Answers(Head(down[c]))
      /\ down' = [down EXCEPT ![c] = Tail(@)]
      /\ recv_lock' = "free"
      /\ reading' = [reading EXCEPT ![t] = 0]
      /\ Goto(t, "idle")
      /\ IF t = "sender"
         THEN Delivered
         ELSE UNCHANGED <<queue, acked, record, attempt>>
      /\ UNCHANGED <<made, sockVars, conn, up, serverVars, counters>>

\* A COMMAND goes to the callback, and the wait goes on.
ReadCommand(t) ==
  LET c == reading[t]
  IN  /\ pc[t] = "reading"
      /\ conn[c] = "open"
      /\ down[c] # << >> /\ ~Answers(Head(down[c]))
      /\ down' = [down EXCEPT ![c] = Tail(@)]
      /\ reading' = [reading EXCEPT ![t] = 0]
      /\ Goto(t, "await")
      /\ UNCHANGED <<queueVars, sockVars, recv_lock, conn, up, serverVars, counters>>

\* _wait_ack returns False.  The heartbeat thread reconnects when the last
\* ACK is more than HB_TIMEOUT old, which it may be or not.
WaitFails(t) ==
  /\ recv_lock' = "free"
  /\ reading' = [reading EXCEPT ![t] = 0]
  /\ IF t = "sender"
     THEN NextAttempt
     ELSE /\ \E label \in {"idle", "disconnect"} : Goto(t, label)
          /\ UNCHANGED <<queue, record, attempt>>
  /\ UNCHANGED <<made, acked, sockVars, wireVars, serverVars>>

ReadFails(t) ==
  /\ pc[t] = "reading"
  /\ conn[reading[t]] # "open"
  /\ WaitFails(t)
  /\ UNCHANGED counters

ReadTimesOut(t) ==
  /\ pc[t] = "reading"
  /\ conn[reading[t]] = "open"
  /\ timeouts < MaxTimeouts
  /\ timeouts' = timeouts + 1
  /\ WaitFails(t)
  /\ UNCHANGED <<resets, beats>>

-----------------------------------------------------------------------------
(* _reconnect: _disconnect, then connect.  Nothing keeps both threads from *)
(* being in it together.                                                   *)

Disconnect(t) ==
  /\ pc[t] = "disconnect"
  /\ connected' = FALSE
  /\ Goto(t, IF sock = 0 THEN "connect" ELSE "close")
  /\ UNCHANGED <<queueVars, sock, recv_lock, reading, wireVars, serverVars, counters>>

CloseSock(t) ==
  /\ pc[t] = "close"
  /\ sock # 0
  /\ conn' = [conn EXCEPT ![sock] = "closed"]
  /\ down' = [down EXCEPT ![sock] = << >>]
  /\ Goto(t, "clear")
  /\ UNCHANGED <<queueVars, sockVars, recv_lock, reading, up, serverVars, counters>>

\* A bug: _reconnect leaves connecting to somebody else.
ClearSockOnly(t) ==
  /\ pc[t] = "clear"
  /\ sock' = 0
  /\ Goto(t, "online")
  /\ UNCHANGED <<queueVars, connected, recv_lock, reading, wireVars, serverVars, counters>>

ClearSock(t) ==
  /\ pc[t] = "clear"
  /\ sock' = 0
  /\ Goto(t, "connect")
  /\ UNCHANGED <<queueVars, connected, recv_lock, reading, wireVars, serverVars, counters>>

\* The server accepts and starts a handler.  A refused connection is tried
\* again, which changes nothing.
Connect(t, c) ==
  /\ pc[t] = "connect"
  /\ conn[c] = "unused" /\ \A b \in Conns : b < c => conn[b] # "unused"
  /\ conn' = [conn EXCEPT ![c] = "open"]
  /\ handler' = [handler EXCEPT ![c] = "running"]
  /\ sock' = c
  /\ Goto(t, "online")
  /\ UNCHANGED <<queueVars, connected, recv_lock, reading, up, down, handling,
                 named, registered, stored, snapshot, counters>>

Online(t) ==
  /\ pc[t] = "online"
  /\ connected' = TRUE
  /\ IF t = "sender"
     THEN NextAttempt
     ELSE Goto(t, "idle") /\ UNCHANGED <<queue, record, attempt>>
  /\ UNCHANGED <<made, acked, sock, recv_lock, reading, wireVars, serverVars, counters>>

\* AttributeError on None in _send_raw, _wait_ack, _recv_message and
\* _disconnect, OSError of settimeout on a closed socket in _wait_ack.  "with"
\* releases the lock.
Dies(t) ==
  /\ \/ pc[t] \in {"send", "armed", "close"} /\ sock = 0
     \/ pc[t] = "await" /\ recv_lock \in {"free", t} /\ ~SockUsable
  /\ Goto(t, "dead")
  /\ recv_lock' = IF recv_lock = t THEN "free" ELSE recv_lock
  /\ UNCHANGED <<queueVars, sockVars, reading, wireVars, serverVars, counters>>

-----------------------------------------------------------------------------
(* Server: one handler thread per connection. *)

\* sendall of a handler: nothing arrives on a connection that is gone.
Reply(c, messages) ==
  down' = IF conn[c] = "open" THEN [down EXCEPT ![c] = @ \o messages] ELSE down

\* _handle_sale: record_sale and update_inventory take the store's lock one
\* after the other, and a handler of an older connection may come in between.
RecordSale(c) ==
  /\ handler[c] = "running"
  /\ up[c] # << >> /\ Head(up[c]) # HEARTBEAT
  /\ up' = [up EXCEPT ![c] = Tail(@)]
  /\ handling' = [handling EXCEPT ![c] = Head(up[c])]
  /\ stored' = [stored EXCEPT ![Head(up[c])] = @ + 1]
  /\ handler' = [handler EXCEPT ![c] = "update"]
  /\ UNCHANGED <<queueVars, sockVars, threadVars, conn, down, named, registered,
                 snapshot, counters>>

UpdateInventory(c) ==
  /\ handler[c] = "update"
  /\ snapshot' = handling[c]
  /\ handler' = [handler EXCEPT ![c] = "answer"]
  /\ UNCHANGED <<queueVars, sockVars, threadVars, wireVars, handling, named,
                 registered, stored, counters>>

\* The rest of it, less the push to the other server, which is ServerSync's
\* Push; low: some drink is below LOW_STOCK_THRESHOLD.
AnswerSale(c, low) ==
  /\ handler[c] = "answer"
  /\ Len(down[c]) + 2 <= BufferSize
  /\ named' = named \cup {c}
  /\ registered' = IF c \in named THEN registered ELSE c
  /\ Reply(c, IF low THEN <<"ACK", "COMMAND">> ELSE <<"ACK">>)
  /\ handling' = [handling EXCEPT ![c] = 0]
  /\ handler' = [handler EXCEPT ![c] = "running"]
  /\ UNCHANGED <<queueVars, sockVars, threadVars, conn, up, stored, snapshot, counters>>

HandleHeartbeat(c) ==
  /\ handler[c] = "running"
  /\ up[c] # << >> /\ Head(up[c]) = HEARTBEAT
  /\ Len(down[c]) + 1 <= BufferSize
  /\ up' = [up EXCEPT ![c] = Tail(@)]
  /\ Reply(c, <<"ACK">>)
  /\ UNCHANGED <<queueVars, sockVars, threadVars, conn, serverVars, counters>>

\* A bug: the handler stays in the registry.
HandlerEndsRegistered(c) ==
  /\ handler[c] = "running"
  /\ up[c] = << >> /\ conn[c] \in {"reset", "closed"}
  /\ handler' = [handler EXCEPT ![c] = "done"]
  /\ UNCHANGED <<queueVars, sockVars, threadVars, wireVars, handling, named,
                 registered, stored, snapshot, counters>>

\* The entry under the machine's name is dropped, whoever's it is.
HandlerEnds(c) ==
  /\ handler[c] = "running"
  /\ up[c] = << >> /\ conn[c] \in {"reset", "closed"}
  /\ handler' = [handler EXCEPT ![c] = "done"]
  /\ registered' = IF c \in named THEN 0 ELSE registered
  /\ UNCHANGED <<queueVars, sockVars, threadVars, wireVars, handling, named, stored,
                 snapshot, counters>>

\* The network: what is on its way is lost.
Reset(c) ==
  /\ resets < MaxResets
  /\ \/ conn[c] = "open"
     \/ conn[c] = "closed" /\ up[c] # << >>
  /\ resets' = resets + 1
  /\ conn' = [conn EXCEPT ![c] = IF @ = "open" THEN "reset" ELSE @]
  /\ up' = [up EXCEPT ![c] = << >>]
  /\ down' = [down EXCEPT ![c] = << >>]
  /\ UNCHANGED <<queueVars, sockVars, threadVars, serverVars, timeouts, beats>>

-----------------------------------------------------------------------------
ThreadStep(t) ==
  \/ SendRaw(t) \/ SendFails(t)
  \/ AwaitAck(t) \/ Recv(t) \/ ReadAck(t) \/ ReadCommand(t) \/ ReadFails(t) \/ ReadTimesOut(t)
  \/ Disconnect(t) \/ CloseSock(t) \/ ClearSock(t)
  \/ \E c \in Conns : Connect(t, c)
  \/ Online(t)
  \/ Dies(t)

SenderStep == Dequeue \/ StartSending \/ ThreadStep("sender")

HandlerStep(c) ==
  \/ RecordSale(c) \/ UpdateInventory(c)
  \/ \E low \in BOOLEAN : AnswerSale(c, low)
  \/ HandleHeartbeat(c)
  \/ HandlerEnds(c)

LinkNext ==
  \/ MakeSale
  \/ SenderStep
  \/ Beat
  \/ ThreadStep("heartbeat")
  \/ \E c \in Conns : HandlerStep(c) \/ Reset(c)

LinkSpec == Init /\ [][LinkNext]_vars

\* Threads that can go on do so.  Customers, heartbeats and the network owe
\* nobody anything.
LinkFairness ==
  /\ WF_vars(SenderStep)
  /\ WF_vars(ThreadStep("heartbeat"))
  /\ \A c \in Conns : WF_vars(HandlerStep(c))

FairLinkSpec == LinkSpec /\ LinkFairness

-----------------------------------------------------------------------------
(* Properties. *)

Acked == {acked[i] : i \in DOMAIN acked}

\* Whatever fails, is repeated or requeued, the machine gets at most one
\* confirmation per sale, and gets them in the order of the sales
\* (transaction.py:44-53, client_socket.py:223-251).
Feed == INSTANCE SaleFeed WITH made <- made, confirmed <- acked
ImplementsFeed == Feed!Spec

\* A confirmed sale is stored, as long as there was no heartbeat and every
\* answer came in time: with a single question under way, the next ACK is its
\* answer even across resets (client_socket.py:202-220).
ConfirmedIsStored ==
  beats = 0 /\ timeouts = 0 => \A n \in Acked : stored[n] > 0

\* Where a sale is on its way: connection and place.
Copies(n) ==
  {m \in Conns \X (1 .. BufferSize) :
     m[2] <= Len(up[m[1]]) /\ up[m[1]][m[2]] = n}

\* As long as nothing was reset or late, no sale is stored twice, with the
\* copies still on their way counted (client_socket.py:239-251).
OnceWhenCalm ==
  resets = 0 /\ timeouts = 0 =>
    \A n \in 1 .. made :
      stored[n] + Cardinality(Copies(n)) <= 1

\* Without heartbeats, no failure of the link kills the sender thread: only
\* the other thread can take the socket away from it (client_socket.py:148-161).
SenderSurvives == beats = 0 => pc["sender"] # "dead"

\* The registry names only handlers whose thread has not ended: none is left
\* behind by its end or put there after it, however the handlers of a machine's
\* old and new connections register and end.  The connection of the one it names
\* may be gone already, until it notices (server_handler.py:31-36, 84-87, 115-118).
RegisteredIsRunning == registered # 0 => handler[registered] \notin {"none", "done"}

\* Only the handler of a connection the client has given up replaces the
\* stock the server shows by an older one; that of its present connection
\* never does (server_db.py:61-64, server_handler.py:109-113).
StockAdvances ==
  [][snapshot' < snapshot => \E c \in Conns : c # sock /\ snapshot' = handling[c]]_vars

\* Without heartbeats and late answers, and with a network that fails finitely
\* often, every sale is stored in the end (client_socket.py:223-266).
EverySaleArrives == \A n \in Sales : made >= n ~> stored[n] > 0

-----------------------------------------------------------------------------
(* What the documentation says, and the code does not do. *)

\* "판매 데이터는 유실되면 안 되므로 ACK + 재전송으로 전달을 보장": a sale the
\* machine takes for delivered is at the server or on its way (README.md:431).
AckedIsNotLost ==
  \A n \in Acked :
    stored[n] > 0 \/ \E c \in Conns : \E i \in DOMAIN up[c] : up[c][i] = n

\* "연결 끊김: 5초 간격으로 재연결 시도, SendQueue 데이터 유지": a record is not
\* dropped with the thread that holds it (README.md:525).
SendQueueKept == pc["sender"] = "dead" => record = 0

=============================================================================
