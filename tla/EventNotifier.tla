---------------------------- MODULE EventNotifier -----------------------------
(***************************************************************************)
(* The event stream (server/events.go): handlers call Notify, one loop     *)
(* distributes, and each SSE or long-poll request has a subscriber.        *)
(*                                                                         *)
(* The response writer of LoggingMiddleware is no http.Flusher, so in the  *)
(* assembled server every SSE request is refused and only long polls       *)
(* subscribe; served without that middleware, SSE requests subscribe too.  *)
(***************************************************************************)
EXTENDS EventLog

CONSTANTS
  EventCap,  \* capacity of eventChan (256)
  SubCap,    \* capacity of a subscriber's channel (64)
  Requests   \* requests that are made: [poll, topic]

ASSUME RequestAssumption ==
  /\ Requests \subseteq [poll : BOOLEAN, topic : Topics \cup {NoFolder}]
  /\ EventCap \in Nat /\ SubCap \in Nat

VARIABLES
  up,           \* the process has not died of a panic
  stop,         \* the stop channel is closed
  eventChan,    \* events waiting for the loop
  subscribers,  \* registered connections
  folderIDs,    \* FolderIDs of each subscriber
  closed,       \* subscribers whose channel is closed
  events,       \* the channel of each subscriber
  loop,         \* the event loop: [pc, event, todo, sub]
  request       \* the request of each connection: [pc, poll, topic]

loopVars == <<up, stop, eventChan, loop>>
subVars == <<subscribers, folderIDs, closed, events, request>>
notifierVars == <<loopVars, subVars>>

Idle == [pc |-> "idle", event |-> 0, todo |-> {}, sub |-> NoFolder]
NoRequest == [pc |-> "none", poll |-> FALSE, topic |-> NoFolder]

NotifierInit ==
  /\ up = TRUE /\ stop = FALSE /\ eventChan = <<>>
  /\ subscribers = {} /\ closed = {}
  /\ folderIDs = [c \in Conns |-> {}] /\ events = [c \in Conns |-> <<>>]
  /\ loop = Idle
  /\ request = [c \in Conns |-> NoRequest]

NotifierTypeOK ==
  /\ up \in BOOLEAN /\ stop \in BOOLEAN
  /\ Len(eventChan) <= EventCap /\ \A i \in DOMAIN eventChan : eventChan[i] \in DOMAIN published
  /\ subscribers \subseteq Conns /\ closed \subseteq Conns \ subscribers
  /\ \A c \in Conns : Len(events[c]) <= SubCap /\ folderIDs[c] \subseteq asked[c]
  /\ loop.pc \in {"idle", "check", "send", "ended"} /\ loop.todo \subseteq Conns
  /\ \A c \in Conns : request[c].pc \in {"none", "folder", "wait", "leave", "done"}

-----------------------------------------------------------------------------
(* Notify: an event is dropped when the channel is full.                    *)
Notify(e) ==
  /\ published' = Append(published, e)
  /\ eventChan' = IF Len(eventChan) < EventCap
                  THEN Append(eventChan, Len(published) + 1) ELSE eventChan
  /\ UNCHANGED <<up, stop, loop, subVars, asked, received>>

NotifyUser == \E e \in Kinds : e.folder = NoFolder /\ Notify(e)
NotifyFileChange == \E e \in Kinds : e.folder # NoFolder /\ Notify(e)

Published == up /\ Len(published) < MaxEvents /\ (NotifyUser \/ NotifyFileChange)

(* Close of the server; the loop may still take an event first.             *)
Close ==
  /\ up /\ ~stop /\ stop' = TRUE
  /\ UNCHANGED <<up, eventChan, loop, subVars, logVars>>

(* Mutant: a subscription to everything is taken for one to its user too.   *)
AnyUser(e) == {c \in subscribers : \/ UserOf[c] = e.user /\ Covered(e, folderIDs[c])
                                   \/ Everything \in folderIDs[c]}

(* The subscribers an event is meant for.                                   *)
Filtered(e) == {c \in subscribers : UserOf[c] = e.user /\ Covered(e, folderIDs[c])}

(* eventLoop takes an event, processEvent copies the list of subscribers.   *)
eventLoop ==
  /\ up /\ loop.pc = "idle"
  /\ \/ /\ eventChan # <<>>
        /\ eventChan' = Tail(eventChan)
        /\ loop' = [Idle EXCEPT !.pc = "check", !.event = Head(eventChan),
                                !.todo = Filtered(published[Head(eventChan)])]
     \/ /\ stop
        /\ loop' = [loop EXCEPT !.pc = "ended"] /\ UNCHANGED eventChan
  /\ UNCHANGED <<up, stop, subVars, logVars>>

(* closed is looked at under the subscriber's lock...                       *)
CheckClosed ==
  /\ up /\ loop.pc = "check"
  /\ \/ /\ loop.todo = {} /\ loop' = Idle
     \/ \E c \in loop.todo :
          loop' = [loop EXCEPT !.todo = @ \ {c}, !.sub = c,
                               !.pc = IF c \in closed THEN "check" ELSE "send"]
  /\ UNCHANGED <<up, stop, eventChan, subVars, logVars>>

(* ... and the event sent after it: sending on a channel closed in between  *)
(* is a panic nobody recovers.  A full channel drops the event.             *)
processEvent ==
  /\ up /\ loop.pc = "send"
  /\ up' = (loop.sub \notin closed)
  /\ events' = IF up' /\ Len(events[loop.sub]) < SubCap
               THEN [events EXCEPT ![loop.sub] = Append(@, loop.event)] ELSE events
  /\ loop' = [loop EXCEPT !.pc = "check"]
  /\ UNCHANGED <<stop, eventChan, subscribers, folderIDs, closed, request, logVars>>

-----------------------------------------------------------------------------
(* Requests: HandleSSE, or HandleLongPoll where poll is TRUE.               *)

(* HandleSSE needs a Flusher, before it subscribes.                         *)
StreamingUnsupported(c) ==
  /\ up /\ request[c].pc = "none"
  /\ \E r \in Requests : ~r.poll
  /\ request' = [request EXCEPT ![c].pc = "done"]
  /\ UNCHANGED <<loopVars, subscribers, folderIDs, closed, events, logVars>>

Subscribe(c) ==
  /\ up /\ request[c].pc = "none"
  /\ subscribers' = subscribers \cup {c}
  /\ \E r \in Requests :
       request' = [request EXCEPT ![c] = [pc |-> IF r.topic = NoFolder THEN "wait" ELSE "folder",
                                          poll |-> r.poll, topic |-> r.topic]]
  /\ UNCHANGED <<loopVars, folderIDs, closed, events, logVars>>

SubscribeFolder(c) ==
  /\ up /\ request[c].pc = "folder"
  /\ folderIDs' = [folderIDs EXCEPT ![c] = @ \cup {request[c].topic}]
  /\ asked' = [asked EXCEPT ![c] = @ \cup {request[c].topic}]
  /\ request' = [request EXCEPT ![c].pc = "wait"]
  /\ UNCHANGED <<loopVars, subscribers, closed, events, published, received>>

(* One event is written; a long poll ends with it.                          *)
HandleSSE(c) ==
  /\ up /\ request[c].pc = "wait" /\ events[c] # <<>>
  /\ events' = [events EXCEPT ![c] = Tail(@)]
  /\ received' = [received EXCEPT ![c] = Append(@, Head(events[c]))]
  /\ request' = [request EXCEPT ![c].pc = IF request[c].poll THEN "leave" ELSE "wait"]
  /\ UNCHANGED <<loopVars, subscribers, folderIDs, closed, published, asked>>

(* The client goes away, or the time of a long poll is over.                *)
HandleLongPoll(c) ==
  /\ up /\ request[c].pc = "wait"
  /\ request' = [request EXCEPT ![c].pc = "leave"]
  /\ UNCHANGED <<loopVars, subscribers, folderIDs, closed, events, logVars>>

(* The deferred call.                                                       *)
Unsubscribe(c) ==
  /\ up /\ request[c].pc = "leave"
  /\ subscribers' = subscribers \ {c} /\ closed' = closed \cup {c}
  /\ request' = [request EXCEPT ![c].pc = "done"]
  /\ UNCHANGED <<loopVars, folderIDs, events, logVars>>

Loop == eventLoop \/ CheckClosed \/ processEvent

NotifierNext ==
  \/ Published \/ Close \/ Loop
  \/ \E c \in Conns : StreamingUnsupported(c) \/ Subscribe(c) \/ SubscribeFolder(c)
                      \/ HandleSSE(c) \/ HandleLongPoll(c) \/ Unsubscribe(c)

(* Go schedules the loop and the ends of requests.                          *)
NotifierFairness == WF_notifierVars(Loop) /\ \A c \in Conns : WF_notifierVars(Unsubscribe(c))

-----------------------------------------------------------------------------
(* The event loop gets through its channel, however slow the clients: it    *)
(* always comes to an empty channel, unless it was told to stop or died.    *)
QueueDrains == []<>((eventChan = <<>> /\ loop.pc = "idle") \/ stop \/ ~up)
=============================================================================
