--------------------------- MODULE WebSocketServer ----------------------------
(***************************************************************************)
(* The WebSocket hub (server/websocket.go): run is the only goroutine that *)
(* touches the clients and the user index; each connection has a reader,   *)
(* which also answers the client, and a writer.                            *)
(*                                                                         *)
(* Upgrade needs an http.Hijacker, which the response writer of            *)
(* LoggingMiddleware is not: behind it every upgrade fails.  The rest is   *)
(* reached where the hub is served without it, as its tests do.            *)
(*                                                                         *)
(* A message in a Send channel is the place of an event, or Reply.         *)
(***************************************************************************)
EXTENDS EventLog

CONSTANTS
  HubCap,      \* capacity of broadcast (256)
  SendCap,     \* capacity of a client's Send channel (256)
  MaxReplies   \* bound: messages of clients that are answered

ASSUME HubAssumption == HubCap \in Nat /\ SendCap \in Nat

Reply == 0

VARIABLES
  clients,    \* registered clients
  userIndex,  \* user -> clients, in the order they came
  broadcast,  \* events waiting for run
  send,       \* the Send channel of each client
  sendClosed, \* clients whose Send is closed
  subscribed, \* SubscribedFolders
  conn,       \* clients whose network connection works
  reader,     \* where handleWebSocket and then readPump is
  writer,     \* "none", "on" or "off"
  replies     \* messages read so far

hubVars == <<clients, userIndex, broadcast, send, sendClosed, subscribed, conn,
             reader, writer, replies>>

HubInit ==
  /\ clients = {} /\ broadcast = <<>>
  /\ userIndex = [u \in Users |-> <<>>]
  /\ send = [c \in Conns |-> <<>>] /\ sendClosed = {}
  /\ subscribed = [c \in Conns |-> {}]
  /\ conn = {}
  /\ reader = [c \in Conns |-> "none"] /\ writer = [c \in Conns |-> "none"]
  /\ replies = 0

HubTypeOK ==
  /\ clients \subseteq Conns /\ sendClosed \subseteq Conns \ clients /\ conn \subseteq Conns
  /\ Len(broadcast) <= HubCap
  /\ \A i \in DOMAIN broadcast : broadcast[i] \in DOMAIN published
  /\ \A c \in Conns :
       /\ Len(send[c]) <= SendCap /\ subscribed[c] \subseteq asked[c]
       /\ reader[c] \in {"none", "greet", "read", "reply", "unregister", "close", "done"}
       /\ writer[c] \in {"none", "on", "off"}

(* A blocking send by the reader's goroutine, which then goes on to pc.     *)
BlockingSend(c, pc) ==
  /\ Len(send[c]) < SendCap
  /\ send' = [send EXCEPT ![c] = Append(@, Reply)]
  /\ reader' = [reader EXCEPT ![c] = pc]

-----------------------------------------------------------------------------
(* run.                                                                     *)

runRegister(c) ==
  /\ clients' = clients \cup {c}
  /\ userIndex' = [userIndex EXCEPT ![UserOf[c]] = Append(@, c)]

(* Mutant: the index keeps clients that have left.                          *)
LeaveIndexed(c) ==
  /\ reader[c] = "unregister"
  /\ clients' = clients \ {c} /\ sendClosed' = sendClosed \cup {c}
  /\ reader' = [reader EXCEPT ![c] = "close"]
  /\ UNCHANGED <<userIndex, broadcast, send, subscribed, conn, writer, replies, logVars>>

runUnregister(c) ==
  /\ reader[c] = "unregister"
  /\ clients' = clients \ {c} /\ sendClosed' = sendClosed \cup {c}
  /\ userIndex' = [userIndex EXCEPT ![UserOf[c]] = RemoveFirst(@, c)]
  /\ reader' = [reader EXCEPT ![c] = "close"]
  /\ UNCHANGED <<broadcast, send, subscribed, conn, writer, replies, logVars>>

Targets(e) == {c \in ToSet(userIndex[e.user]) \cap clients : Covered(e, subscribed[c])}

(* A message to every client of the user; a full Send drops it.             *)
broadcastEvent ==
  /\ broadcast # <<>>
  /\ broadcast' = Tail(broadcast)
  /\ send' = [c \in Conns |->
                IF c \in Targets(published[Head(broadcast)]) /\ Len(send[c]) < SendCap
                THEN Append(send[c], Head(broadcast)) ELSE send[c]]
  /\ UNCHANGED <<clients, userIndex, sendClosed, subscribed, conn, reader, writer, replies, logVars>>

(* Broadcast drops an event when the channel is full.                       *)
Broadcast(e) ==
  /\ published' = Append(published, e)
  /\ broadcast' = IF Len(broadcast) < HubCap
                  THEN Append(broadcast, Len(published) + 1) ELSE broadcast
  /\ UNCHANGED <<clients, userIndex, send, sendClosed, subscribed, conn, reader, writer, replies,
                 asked, received>>

BroadcastToUser == \E e \in Kinds : e.folder = NoFolder /\ Broadcast(e)
BroadcastFileEvent == \E e \in Kinds : e.folder # NoFolder /\ Broadcast(e)

Broadcasts == Len(published) < MaxEvents /\ (BroadcastToUser \/ BroadcastFileEvent)

-----------------------------------------------------------------------------
(* handleWebSocket: the token is valid, the connection upgraded, and run    *)
(* has taken the client from the unbuffered channel register...             *)
handleWebSocket(c) ==
  /\ reader[c] = "none"
  /\ conn' = conn \cup {c} /\ runRegister(c)
  /\ reader' = [reader EXCEPT ![c] = "greet"]
  /\ UNCHANGED <<broadcast, send, sendClosed, subscribed, writer, replies, logVars>>

(* The response writer cannot be hijacked.                                  *)
upgradeFails(c) ==
  /\ reader[c] = "none"
  /\ reader' = [reader EXCEPT ![c] = "done"]
  /\ UNCHANGED <<clients, userIndex, broadcast, send, sendClosed, subscribed, conn, writer, replies, logVars>>

(* ... then it is sent auth_success, before its pumps start.                *)
sendAuthSuccess(c) ==
  /\ reader[c] = "greet" /\ BlockingSend(c, "read")
  /\ writer' = [writer EXCEPT ![c] = "on"]
  /\ UNCHANGED <<clients, userIndex, broadcast, sendClosed, subscribed, conn, replies, logVars>>

-----------------------------------------------------------------------------
(* readPump and the handlers of messages, each ending in a blocking send.   *)

HasMessage(c) == reader[c] = "read" /\ c \in conn /\ replies < MaxReplies

Answer(c) ==
  /\ replies' = replies + 1
  /\ reader' = [reader EXCEPT ![c] = "reply"]

(* Pings, and messages that are answered with an error.                     *)
handleMessage(c) ==
  /\ HasMessage(c) /\ Answer(c)
  /\ UNCHANGED <<clients, userIndex, broadcast, send, sendClosed, subscribed, conn, writer, logVars>>

(* The answer lists a directory, or is an error.                            *)
handleSyncRequest(c) ==
  /\ HasMessage(c) /\ Answer(c)
  /\ UNCHANGED <<clients, userIndex, broadcast, send, sendClosed, subscribed, conn, writer, logVars>>

handleSubscribe(c) ==
  /\ HasMessage(c) /\ Answer(c)
  /\ \E t \in Topics : /\ subscribed' = [subscribed EXCEPT ![c] = @ \cup {t}]
                       /\ asked' = [asked EXCEPT ![c] = @ \cup {t}]
  /\ UNCHANGED <<clients, userIndex, broadcast, send, sendClosed, conn, writer, published, received>>

handleUnsubscribe(c) ==
  /\ HasMessage(c) /\ Answer(c)
  /\ \E t \in Topics : subscribed' = [subscribed EXCEPT ![c] = @ \ {t}]
  /\ UNCHANGED <<clients, userIndex, broadcast, send, sendClosed, conn, writer, logVars>>

sendReply(c) ==
  /\ reader[c] = "reply" /\ BlockingSend(c, "read")
  /\ UNCHANGED <<clients, userIndex, broadcast, sendClosed, subscribed, conn, writer, replies, logVars>>

(* Mutant: a reader whose connection fails ends without unregistering.      *)
ReadEnds(c) ==
  /\ reader[c] = "read" /\ reader' = [reader EXCEPT ![c] = "close"]
  /\ UNCHANGED <<clients, userIndex, broadcast, send, sendClosed, subscribed, conn, writer, replies, logVars>>

(* ReadMessage fails: the connection is gone, or no pong came in time.      *)
readFails(c) ==
  /\ reader[c] = "read" /\ reader' = [reader EXCEPT ![c] = "unregister"]
  /\ UNCHANGED <<clients, userIndex, broadcast, send, sendClosed, subscribed, conn, writer, replies, logVars>>

readPumpEnds(c) ==
  /\ reader[c] = "close" /\ reader' = [reader EXCEPT ![c] = "done"]
  /\ conn' = conn \ {c}
  /\ UNCHANGED <<clients, userIndex, broadcast, send, sendClosed, subscribed, writer, replies, logVars>>

(* writePump takes a message.  On a broken connection the write fails, or   *)
(* seems to succeed; without messages it ends when Send is closed.          *)
writePump(c) ==
  /\ writer[c] = "on" /\ send[c] # <<>>
  /\ send' = [send EXCEPT ![c] = Tail(@)]
  /\ \/ /\ c \in conn
        /\ received' = IF Head(send[c]) = Reply THEN received
                       ELSE [received EXCEPT ![c] = Append(@, Head(send[c]))]
        /\ UNCHANGED <<writer, conn>>
     \/ c \notin conn /\ UNCHANGED <<writer, conn, received>>
     \/ /\ writer' = [writer EXCEPT ![c] = "off"] /\ conn' = conn \ {c}
        /\ UNCHANGED received
  /\ UNCHANGED <<clients, userIndex, broadcast, sendClosed, subscribed, reader, replies, published, asked>>

(* The channel is closed, or a ping cannot be written.                      *)
writeEnds(c) ==
  /\ writer[c] = "on" /\ (c \notin conn \/ (c \in sendClosed /\ send[c] = <<>>))
  /\ writer' = [writer EXCEPT ![c] = "off"] /\ conn' = conn \ {c}
  /\ UNCHANGED <<clients, userIndex, broadcast, send, sendClosed, subscribed, reader, replies, logVars>>

(* The network breaks.                                                      *)
disconnect(c) ==
  /\ c \in conn /\ conn' = conn \ {c}
  /\ UNCHANGED <<clients, userIndex, broadcast, send, sendClosed, subscribed, reader, writer, replies, logVars>>

run == broadcastEvent \/ \E c \in Conns : runUnregister(c)

HubNext ==
  \/ Broadcasts \/ run
  \/ \E c \in Conns :
       \/ handleWebSocket(c) \/ sendAuthSuccess(c) \/ handleMessage(c) \/ handleSyncRequest(c)
       \/ handleSubscribe(c) \/ handleUnsubscribe(c) \/ sendReply(c) \/ readFails(c) \/ readPumpEnds(c)
       \/ writePump(c) \/ writeEnds(c) \/ disconnect(c) \/ upgradeFails(c)

(* Go schedules every goroutine that can run, and select does not starve a  *)
(* ready case.  Reading from a broken connection fails at last, and so does *)
(* the writer's ping.                                                       *)
HubFairness ==
  /\ WF_hubVars(broadcastEvent)
  /\ \A c \in Conns :
       /\ WF_hubVars(runUnregister(c)) /\ WF_hubVars(sendAuthSuccess(c))
       /\ WF_hubVars(sendReply(c)) /\ WF_hubVars(readPumpEnds(c)) /\ WF_hubVars(writeEnds(c))
       /\ WF_hubVars(c \notin conn /\ readFails(c))

-----------------------------------------------------------------------------
(* The index of a user has exactly his registered clients, each once: no    *)
(* event is sent twice, none to a client that has left.                     *)
IndexMatches ==
  \A u \in Users : /\ ToSet(userIndex[u]) = {c \in clients : UserOf[c] = u}
                   /\ IsInjective(userIndex[u])

(* Nobody can be about to send on a closed channel, which would be a panic: *)
(* the reader answers, run broadcasts, and only the end of the reader closes. *)
NoSendOnClosed ==
  \A c \in Conns : c \in clients \/ reader[c] \in {"greet", "read", "reply"} => c \notin sendClosed

(* A full channel nobody empties.                                           *)
Stuck(c) == Len(send[c]) = SendCap /\ writer[c] # "on" /\ reader[c] \in {"greet", "reply"}

(* A client whose connection broke is unregistered, unless the goroutine    *)
(* that would do it is stuck in a send on a full channel nobody empties     *)
(* (the writer ended first, or has not started).                            *)
ClientsLeave ==
  \A c \in Conns : [](c \in clients /\ c \notin conn => <>(c \notin clients \/ Stuck(c)))
=============================================================================
