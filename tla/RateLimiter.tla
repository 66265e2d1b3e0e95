------------------------------ MODULE RateLimiter -----------------------------
(***************************************************************************)
(* The rate limiter (server/middleware.go), which the server puts around   *)
(* all its handlers by default.  It runs before the authentication, so a   *)
(* client is a remote address with its port: a connection.  A request      *)
(* reads the clock, then waits for the lock, and holds it until its handler*)
(* has returned: requests are served one at a time, and stamps are not in  *)
(* the order of the list.                                                  *)
(***************************************************************************)
EXTENDS Integers, Sequences, FiniteSets

CONSTANTS
  Clients,
  MaxCalls,    \* bound on the requests of a behaviour
  RateLimit,   \* limit (100)
  Window,      \* window, in units of time
  CleanEvery,  \* a minute
  MaxTime      \* bound on the clock

ASSUME RateAssumption == {MaxCalls, RateLimit, Window, CleanEvery, MaxTime} \subseteq Nat

Calls == 1..MaxCalls
NoCall == 0

VARIABLES
  clock,
  stamps,     \* requests: client -> times of the requests let through
  lastClean,
  mu,         \* the request that holds the lock
  call        \* each request: [pc, client, now]

limiterVars == <<clock, stamps, lastClean, mu, call>>

NotYet == [pc |-> "none", client |-> NoCall, now |-> 0]

NewRateLimitMiddleware ==
  /\ clock = 0 /\ lastClean = 0 /\ mu = NoCall
  /\ stamps = [c \in Clients |-> <<>>]
  /\ call = [r \in Calls |-> NotYet]

(* Entries of a list that are after the cutoff.                              *)
Recent(list, now) == {i \in DOMAIN list : list[i] > now - Window}

cleanupOldClients(now) ==
  [c \in Clients |-> IF Recent(stamps[c], now) = {} THEN <<>> ELSE stamps[c]]

-----------------------------------------------------------------------------
(* Requests are numbered as they come.                                       *)
ReadClock(r) ==
  /\ call[r].pc = "none" /\ \A q \in 1..(r - 1) : call[q].pc # "none"
  /\ \E c \in Clients : call' = [call EXCEPT ![r] = [pc |-> "waiting", client |-> c, now |-> clock]]
  /\ UNCHANGED <<clock, stamps, lastClean, mu>>

(* Under the lock: old clients go, the recent requests are counted, and the  *)
(* request is refused or noted; a refused one gives the lock back.           *)
Limit(r) ==
  /\ call[r].pc = "waiting" /\ mu = NoCall
  /\ LET c == call[r].client
         now == call[r].now
         clean == now - lastClean > CleanEvery
         kept == IF clean THEN cleanupOldClients(now) ELSE stamps
         over == Cardinality(Recent(kept[c], now)) >= RateLimit
     IN  /\ lastClean' = IF clean THEN now ELSE lastClean
         /\ stamps' = IF over THEN kept ELSE [kept EXCEPT ![c] = Append(@, now)]
         /\ mu' = IF over THEN NoCall ELSE r
         /\ call' = [call EXCEPT ![r].pc = IF over THEN "done" ELSE "serving"]
  /\ UNCHANGED clock

(* next.ServeHTTP returns, and the deferred Unlock runs.                     *)
Served(r) ==
  /\ call[r].pc = "serving"
  /\ mu' = NoCall
  /\ call' = [call EXCEPT ![r].pc = "done"]
  /\ UNCHANGED <<clock, stamps, lastClean>>

Tick ==
  /\ clock < MaxTime
  /\ clock' = clock + 1
  /\ UNCHANGED <<stamps, lastClean, mu, call>>

LimiterNext == Tick \/ \E r \in Calls : ReadClock(r) \/ Limit(r) \/ Served(r)

(* Handlers return: a long poll has its timeout, reads and writes theirs.    *)
(* A free lock goes to one of those that wait for it.                        *)
LimiterFairness == WF_limiterVars(\E r \in Calls : Limit(r) \/ Served(r))

-----------------------------------------------------------------------------
LimiterTypeOK ==
  /\ clock \in 0..MaxTime /\ lastClean \in 0..clock
  /\ mu \in Calls \cup {NoCall}
  /\ \A r \in Calls : call[r].now \in 0..clock /\ (call[r].pc = "serving" <=> mu = r)

(* In no window does a client have more requests noted than the limit, in    *)
(* whatever order waiting requests with older stamps get the lock.           *)
WithinLimit ==
  \A c \in Clients, end \in 0..MaxTime :
    Cardinality({i \in Recent(stamps[c], end) : stamps[c][i] <= end}) <= RateLimit

(* Requests that wait for the lock are let through or refused: time and      *)
(* again there is none, however many are served before.                      *)
RequestsAnswered == []<>(\A r \in Calls : call[r].pc \in {"none", "done"})
=============================================================================
