------------------------------- MODULE EventHub -------------------------------
(***************************************************************************)
(* Both event services and the rate limiter, as the server starts them.    *)
(* They share nothing, so a behaviour follows one of them.                 *)
(***************************************************************************)
EXTENDS EventNotifier, WebSocketServer, RateLimiter

VARIABLE service  \* the service a behaviour follows

hub == <<service, logVars, notifierVars, hubVars, limiterVars>>

Init ==
  /\ service \in {"sse", "ws", "limiter"}
  /\ LogInit /\ NotifierInit /\ HubInit /\ NewRateLimitMiddleware

Next ==
  \/ service = "sse" /\ NotifierNext /\ UNCHANGED <<service, hubVars, limiterVars>>
  \/ service = "ws" /\ HubNext /\ UNCHANGED <<service, notifierVars, limiterVars>>
  \/ service = "limiter" /\ LimiterNext /\ UNCHANGED <<service, logVars, notifierVars, hubVars>>

Spec == Init /\ [][Next]_hub

FairSpec == Spec /\ NotifierFairness /\ HubFairness /\ LimiterFairness

(* Clients whose writer is at work.                                         *)
Pumping == {c \in Conns : writer[c] = "on"}

Feed == INSTANCE Broadcast WITH open <- subscribers \cup Pumping

-----------------------------------------------------------------------------
(* Both services implement the abstract feed: no client gets an event of    *)
(* another user or of a folder it never asked for, an event twice or events *)
(* out of order, whatever is dropped and whoever leaves when.               *)
DeliversInOrder == Feed!Spec

(* The state is well typed, the index matches the clients, no send can hit  *)
(* a closed Send channel, and no client has more requests than the limit.   *)
HubInv ==
  /\ LogTypeOK /\ NotifierTypeOK /\ HubTypeOK /\ LimiterTypeOK
  /\ IndexMatches /\ NoSendOnClosed /\ WithinLimit

(* Slow and broken clients hold up nothing but themselves: the event loop   *)
(* gets through its queue, broken connections are unregistered, and every   *)
(* request that waits for the limiter's lock is answered.                   *)
Settles == QueueDrains /\ ClientsLeave /\ RequestsAnswered
=============================================================================
