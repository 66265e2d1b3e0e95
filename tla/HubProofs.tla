------------------------------ MODULE HubProofs -------------------------------
(***************************************************************************)
(* Proofs about the two event services and the rate limiter, for any       *)
(* number of users, connections, folders and events and any capacities:    *)
(* EventHub implements Broadcast, and keeps its index and its channels     *)
(* consistent.                                                             *)
(***************************************************************************)
EXTENDS EventHub, FiniteSetTheorems, TLAPS

(* Events of a channel are in the order of publication; answers may be       *)
(* between them.                                                             *)
Sorted(s) == \A i, j \in 1..Len(s) : i < j /\ s[i] # Reply /\ s[j] # Reply => s[i] < s[j]

(* Event k may be delivered to connection c.                                 *)
For(c, k) ==
  /\ k \in 1..Len(published)
  /\ published[k].user = UserOf[c] /\ Covered(published[k], asked[c])

LogInv ==
  /\ published \in Seq(Event)
  /\ asked \in [Conns -> SUBSET Topics]
  /\ received \in [Conns -> Seq(Nat)]
  /\ \A c \in Conns : ToSet(received[c]) \subseteq 1..Len(published)

(***************************************************************************)
(* The inductive invariant of the event stream.                            *)
(***************************************************************************)

LoopRec == [pc : {"idle", "check", "send", "ended"}, event : Nat, todo : SUBSET Conns,
            sub : Conns \cup {NoFolder}]
RequestRec == [pc : {"none", "folder", "wait", "leave", "done"}, poll : BOOLEAN,
               topic : Topics \cup {NoFolder}]

NotifierTypes ==
  /\ up \in BOOLEAN /\ stop \in BOOLEAN
  /\ eventChan \in Seq(Nat) /\ Len(eventChan) <= EventCap
  /\ subscribers \subseteq Conns /\ closed \subseteq Conns
  /\ folderIDs \in [Conns -> SUBSET Topics]
  /\ events \in [Conns -> Seq(Nat)] /\ \A c \in Conns : Len(events[c]) <= SubCap
  /\ loop \in LoopRec
  /\ request \in [Conns -> RequestRec]

(* A subscriber lasts as long as its request.                                *)
RequestsOK ==
  \A c \in Conns :
    /\ folderIDs[c] \subseteq asked[c]
    /\ c \in subscribers <=> request[c].pc \in {"folder", "wait", "leave"}
    /\ c \in closed => request[c].pc = "done"
    /\ request[c].pc = "folder" => request[c].topic \in Topics

Queued(c) == ToSet(received[c]) \cup ToSet(events[c])

(* The event at hand comes before those that wait, and after all that has    *)
(* been queued for connections it has yet to go to.                          *)
ChanOK ==
  /\ Sorted(eventChan) /\ ToSet(eventChan) \subseteq 1..Len(published)
  /\ \A c \in Conns : \A k \in Queued(c), l \in ToSet(eventChan) : k < l

LoopOK ==
  loop.pc \in {"check", "send"} =>
    /\ loop.event \in 1..Len(published)
    /\ \A l \in ToSet(eventChan) : loop.event < l
    /\ \A c \in Conns : \A k \in Queued(c) : k <= loop.event
    /\ \A c \in loop.todo : For(c, loop.event) /\ \A k \in Queued(c) : k < loop.event
    /\ loop.pc = "send" =>
         /\ loop.sub \in Conns \ loop.todo
         /\ For(loop.sub, loop.event) /\ \A k \in Queued(loop.sub) : k < loop.event

EventsOK ==
  \A c \in Conns :
    /\ Sorted(events[c]) /\ \A k \in ToSet(events[c]) : For(c, k)
    /\ \A k \in ToSet(received[c]), l \in ToSet(events[c]) : k < l

NotifierInv == NotifierTypes /\ RequestsOK /\ ChanOK /\ LoopOK /\ EventsOK

(***************************************************************************)
(* The inductive invariant of the WebSocket hub.                           *)
(***************************************************************************)

HubTypes ==
  /\ clients \subseteq Conns /\ sendClosed \subseteq Conns /\ conn \subseteq Conns
  /\ userIndex \in [Users -> Seq(Conns)]
  /\ broadcast \in Seq(Nat) /\ Len(broadcast) <= HubCap
  /\ send \in [Conns -> Seq(Nat)] /\ \A c \in Conns : Len(send[c]) <= SendCap
  /\ subscribed \in [Conns -> SUBSET Topics]
  /\ reader \in [Conns -> {"none", "greet", "read", "reply", "unregister", "close", "done"}]
  /\ writer \in [Conns -> {"none", "on", "off"}]

(* A client is registered while its reader runs, and its writer starts once. *)
ClientsOK ==
  \A c \in Conns :
    /\ subscribed[c] \subseteq asked[c]
    /\ c \in clients <=> reader[c] \in {"greet", "read", "reply", "unregister"}
    /\ c \in sendClosed => reader[c] \in {"close", "done"}
    /\ reader[c] \in {"none", "greet"} => writer[c] = "none"

Sent(c) == ToSet(send[c]) \ {Reply}

BroadcastOK ==
  /\ Sorted(broadcast) /\ ToSet(broadcast) \subseteq 1..Len(published)
  /\ \A c \in Conns : \A k \in ToSet(received[c]) \cup Sent(c), l \in ToSet(broadcast) : k < l

SendOK ==
  \A c \in Conns :
    /\ Sorted(send[c]) /\ \A k \in Sent(c) : For(c, k)
    /\ \A k \in ToSet(received[c]), l \in Sent(c) : k < l

WebSocketInv == HubTypes /\ ClientsOK /\ IndexMatches /\ BroadcastOK /\ SendOK

(***************************************************************************)
(* The inductive invariant of the rate limiter.                            *)
(***************************************************************************)

CallRec == [pc : {"none", "waiting", "serving", "done"}, client : Clients \cup {NoCall}, now : Nat]

LimiterInv ==
  /\ LimiterTypeOK /\ WithinLimit
  /\ stamps \in [Clients -> Seq(Nat)]
  /\ call \in [Calls -> CallRec]
  /\ \A r \in Calls : call[r].pc = "waiting" => call[r].client \in Clients

(* What has not been started is as it was.                                   *)
HubIInv ==
  /\ LogInv /\ LimiterInv
  /\ service \in {"sse", "ws", "limiter"}
  /\ IF service = "sse" THEN NotifierInv ELSE NotifierInit
  /\ IF service = "ws" THEN WebSocketInv ELSE HubInit

-----------------------------------------------------------------------------
(* Channels.                                                                *)

LEMMA AppendFacts ==
  ASSUME NEW S, NEW s \in Seq(S), NEW e \in S
  PROVE  /\ Append(s, e) \in Seq(S) /\ Len(Append(s, e)) = Len(s) + 1
         /\ ToSet(Append(s, e)) = ToSet(s) \cup {e}
<1> DEFINE t == Append(s, e)
<1>1. /\ t \in Seq(S) /\ Len(t) = Len(s) + 1 /\ Len(s) \in Nat
      /\ t[Len(s) + 1] = e /\ \A i \in 1..Len(s) : t[i] = s[i]
  OBVIOUS
<1>2. DOMAIN s = 1..Len(s) /\ DOMAIN t = 1..(Len(s) + 1) BY <1>1
<1> HIDE DEF t
<1>3. ToSet(t) \subseteq ToSet(s) \cup {e}
  <2> SUFFICES ASSUME NEW i \in DOMAIN t PROVE t[i] \in ToSet(s) \cup {e} BY DEF ToSet
  <2>1. i \in 1..Len(s) \/ i = Len(s) + 1 BY <1>1, <1>2
  <2> QED BY <2>1, <1>1, <1>2 DEF ToSet
<1>4. ToSet(s) \cup {e} \subseteq ToSet(t)
  <2>1. \A i \in 1..Len(s) : i \in DOMAIN t /\ t[i] = s[i] BY <1>1, <1>2
  <2>2. Len(s) + 1 \in DOMAIN t BY <1>1, <1>2
  <2> QED BY <2>1, <2>2, <1>1, <1>2 DEF ToSet
<1> QED BY <1>1, <1>3, <1>4 DEF t

LEMMA SortedAppend ==
  ASSUME NEW s \in Seq(Nat), NEW e \in Nat, Sorted(s),
         \A k \in ToSet(s) : k # Reply /\ e # Reply => k < e
  PROVE  Sorted(Append(s, e))
<1> SUFFICES ASSUME NEW i \in 1..(Len(s) + 1), NEW j \in 1..(Len(s) + 1), i < j,
                    Append(s, e)[i] # Reply, Append(s, e)[j] # Reply
             PROVE  Append(s, e)[i] < Append(s, e)[j]
  BY DEF Sorted
<1>1. i \in 1..Len(s) /\ Append(s, e)[i] = s[i] /\ s[i] \in ToSet(s) BY DEF ToSet
<1>2. CASE j \in 1..Len(s) BY <1>1, <1>2 DEF Sorted
<1>3. CASE j = Len(s) + 1 BY <1>1, <1>3
<1> QED BY <1>2, <1>3

LEMMA TailFacts ==
  ASSUME NEW s \in Seq(Nat), s # <<>>
  PROVE  /\ Head(s) \in ToSet(s) /\ Head(s) \in Nat
         /\ Tail(s) \in Seq(Nat) /\ Len(Tail(s)) = Len(s) - 1 /\ Len(s) \in Nat
         /\ ToSet(Tail(s)) \subseteq ToSet(s)
BY DEF ToSet

LEMMA SortedTail ==
  ASSUME NEW s \in Seq(Nat), s # <<>>, Sorted(s)
  PROVE  /\ Sorted(Tail(s))
         /\ \A k \in ToSet(Tail(s)) : k # Reply /\ Head(s) # Reply => Head(s) < k
<1> DEFINE t == Tail(s)
<1>1. /\ Len(s) \in Nat \ {0} /\ Len(t) = Len(s) - 1 /\ DOMAIN t = 1..(Len(s) - 1)
      /\ Head(s) = s[1] /\ \A i \in 1..(Len(s) - 1) : t[i] = s[i + 1]
  OBVIOUS
<1> HIDE DEF t
<1>2. Sorted(t)
  <2> SUFFICES ASSUME NEW i \in 1..Len(t), NEW j \in 1..Len(t), i < j, t[i] # Reply, t[j] # Reply
               PROVE  t[i] < t[j]
    BY DEF Sorted
  <2>1. i + 1 \in 1..Len(s) /\ j + 1 \in 1..Len(s) /\ i + 1 < j + 1 BY <1>1
  <2>2. t[i] = s[i + 1] /\ t[j] = s[j + 1] BY <1>1
  <2> QED BY <2>1, <2>2 DEF Sorted
<1>3. ASSUME NEW k \in ToSet(t), k # Reply, Head(s) # Reply PROVE Head(s) < k
  <2>1. PICK i \in 1..Len(t) : k = t[i] BY <1>1 DEF ToSet
  <2>2. 1 \in 1..Len(s) /\ i + 1 \in 1..Len(s) /\ 1 < i + 1 /\ k = s[i + 1] BY <1>1, <2>1
  <2> QED BY <1>1, <1>3, <2>2 DEF Sorted
<1> QED BY <1>2, <1>3 DEF t

LEMMA LastIn == ASSUME NEW s \in Seq(Nat), s # <<>> PROVE Last(s) \in ToSet(s)
BY DEF Last, ToSet

-----------------------------------------------------------------------------
(* The rate limiter.                                                        *)

LEMMA LimiterStart == NewRateLimitMiddleware => LimiterInv
<1> SUFFICES ASSUME NewRateLimitMiddleware PROVE LimiterInv OBVIOUS
<1> USE RateAssumption DEF NewRateLimitMiddleware
<1>1. call \in [Calls -> CallRec] BY DEF CallRec, NotYet, NoCall
<1>2. stamps \in [Clients -> Seq(Nat)] OBVIOUS
<1>3. LimiterTypeOK BY DEF LimiterTypeOK, NotYet, NoCall, Calls
<1>4. WithinLimit
  <2> SUFFICES ASSUME NEW c \in Clients, NEW end \in 0..MaxTime
               PROVE  Cardinality({i \in Recent(stamps[c], end) : stamps[c][i] <= end}) <= RateLimit
    BY DEF WithinLimit
  <2>1. {i \in Recent(stamps[c], end) : stamps[c][i] <= end} = {} BY DEF Recent
  <2>2. Cardinality({}) = 0 BY FS_EmptySet
  <2>3. RateLimit \in Nat OBVIOUS
  <2>4. 0 <= RateLimit BY <2>3
  <2> QED BY <2>1, <2>2, <2>4, Zenon
<1> QED BY <1>1, <1>2, <1>3, <1>4 DEF LimiterInv, NotYet

Within(list, end) == {i \in Recent(list, end) : list[i] <= end}

LEMMA WithinFinite ==
  ASSUME NEW list \in Seq(Nat), NEW end \in Nat
  PROVE  /\ IsFiniteSet(Within(list, end)) /\ Cardinality(Within(list, end)) \in Nat
         /\ IsFiniteSet(Recent(list, end)) /\ Cardinality(Recent(list, end)) \in Nat
<1>1. Within(list, end) \subseteq 1..Len(list) /\ Recent(list, end) \subseteq 1..Len(list)
  BY DEF Within, Recent
<1>2. IsFiniteSet(1..Len(list)) BY FS_Interval
<1>3. IsFiniteSet(Within(list, end)) /\ IsFiniteSet(Recent(list, end)) BY <1>1, <1>2, FS_Subset
<1> QED BY <1>3, FS_CardinalityType

(* A request that is let through was under the limit in every window it is   *)
(* part of.                                                                  *)
LEMMA UnderLimit ==
  ASSUME NEW list \in Seq(Nat), NEW now \in Nat, NEW end \in Nat,
         Cardinality(Recent(list, now)) < RateLimit,
         Cardinality(Within(list, end)) <= RateLimit
  PROVE  Cardinality(Within(Append(list, now), end)) <= RateLimit
<1> USE RateAssumption
<1> DEFINE n == Len(list) + 1
<1>1. CASE now <= end /\ now > end - Window
  <2>1. Within(list, end) \subseteq Recent(list, now) BY <1>1 DEF Within, Recent
  <2>2. Cardinality(Within(list, end)) <= Cardinality(Recent(list, now))
    BY <2>1, WithinFinite, FS_Subset
  <2>3. Within(Append(list, now), end) \subseteq Within(list, end) \cup {n}
    BY DEF Within, Recent
  <2>4. /\ IsFiniteSet(Within(list, end) \cup {n})
        /\ Cardinality(Within(list, end) \cup {n}) <= Cardinality(Within(list, end)) + 1
    <3>1. /\ IsFiniteSet(Within(list, end) \cup {n})
          /\ Cardinality(Within(list, end) \cup {n}) =
               IF n \in Within(list, end) THEN Cardinality(Within(list, end))
               ELSE Cardinality(Within(list, end)) + 1
      BY WithinFinite, FS_AddElement
    <3>2. Cardinality(Within(list, end)) \in Nat BY WithinFinite
    <3> QED BY <3>1, <3>2
  <2>5. Cardinality(Within(Append(list, now), end)) <= Cardinality(Within(list, end) \cup {n})
    BY <2>3, <2>4, FS_Subset
  <2>6. Append(list, now) \in Seq(Nat) OBVIOUS
  <2>7. Cardinality(Within(Append(list, now), end)) \in Nat BY <2>6, WithinFinite
  <2>8. Cardinality(Within(list, end) \cup {n}) \in Nat BY <2>4, FS_CardinalityType
  <2>9. /\ Cardinality(Within(list, end)) \in Nat /\ Cardinality(Recent(list, now)) \in Nat
        /\ RateLimit \in Nat
    BY WithinFinite
  <2> QED BY <2>2, <2>4, <2>5, <2>7, <2>8, <2>9
<1>2. CASE ~(now <= end /\ now > end - Window)
  <2>1. Within(Append(list, now), end) = Within(list, end) BY <1>2 DEF Within, Recent
  <2> QED BY <2>1
<1> QED BY <1>1, <1>2

LEMMA LimiterStep == LimiterInv /\ [LimiterNext]_limiterVars => LimiterInv'
<1> SUFFICES ASSUME LimiterInv, [LimiterNext]_limiterVars PROVE LimiterInv' OBVIOUS
<1> USE RateAssumption DEF LimiterInv, LimiterTypeOK
<1>1. CASE Tick BY <1>1 DEF Tick, WithinLimit
<1>2. ASSUME NEW r \in Calls, ReadClock(r) PROVE LimiterInv'
  <2>1. PICK c \in Clients : call' = [call EXCEPT ![r] = [pc |-> "waiting", client |-> c, now |-> clock]]
    BY <1>2 DEF ReadClock
  <2>2. UNCHANGED <<clock, stamps, lastClean, mu>> /\ call[r].pc = "none" BY <1>2 DEF ReadClock
  <2>3. (call \in [Calls -> CallRec])' BY <2>1 DEF CallRec
  <2>4. LimiterTypeOK' BY <2>1, <2>2 DEF CallRec
  <2>5. WithinLimit' BY <2>2 DEF WithinLimit
  <2> QED BY <2>1, <2>2, <2>3, <2>4, <2>5 DEF CallRec
<1>3. ASSUME NEW r \in Calls, Limit(r) PROVE LimiterInv'
  <2> DEFINE c == call[r].client
             now == call[r].now
             clean == now - lastClean > CleanEvery
             kept == IF clean THEN cleanupOldClients(now) ELSE stamps
             over == Cardinality(Recent(kept[c], now)) >= RateLimit
  <2>1. /\ call[r].pc = "waiting" /\ mu = NoCall /\ UNCHANGED clock
        /\ lastClean' = IF clean THEN now ELSE lastClean
        /\ stamps' = IF over THEN kept ELSE [kept EXCEPT ![c] = Append(@, now)]
        /\ mu' = IF over THEN NoCall ELSE r
        /\ call' = [call EXCEPT ![r].pc = IF over THEN "done" ELSE "serving"]
    BY <1>3 DEF Limit
  <2>2. c \in Clients /\ now \in 0..clock /\ now \in Nat /\ r # NoCall
    BY <2>1 DEF CallRec, Calls, NoCall
  <2>3. /\ kept \in [Clients -> Seq(Nat)]
        /\ \A d \in Clients : kept[d] = stamps[d] \/ kept[d] = <<>>
    BY <2>2 DEF cleanupOldClients
  <2>4. \A d \in Clients, end \in 0..MaxTime : Cardinality(Within(kept[d], end)) <= RateLimit
    <3> SUFFICES ASSUME NEW d \in Clients, NEW end \in 0..MaxTime
                 PROVE  Cardinality(Within(kept[d], end)) <= RateLimit
      OBVIOUS
    <3>1. Within(<<>>, end) = {} BY DEF Within, Recent
    <3>2. Cardinality(Within(<<>>, end)) = 0 BY <3>1, FS_EmptySet
    <3>3. Cardinality(Within(stamps[d], end)) <= RateLimit BY DEF WithinLimit, Within
    <3> QED BY <2>3, <3>2, <3>3
  <2>5. over \in BOOLEAN OBVIOUS
  <2> HIDE DEF kept
  <2>6. stamps' \in [Clients -> Seq(Nat)] BY <2>1, <2>2, <2>3
  <2>7. WithinLimit'
    <3> SUFFICES ASSUME NEW d \in Clients, NEW end \in 0..MaxTime
                 PROVE  Cardinality(Within(stamps'[d], end)) <= RateLimit
      BY DEF WithinLimit, Within, Recent
    <3>1. CASE over \/ d # c
      <4>1. stamps'[d] = kept[d] BY <2>1, <2>2, <2>3, <3>1
      <4> QED BY <2>4, <4>1
    <3>2. CASE ~over /\ d = c
      <4>1. stamps'[d] = Append(kept[c], now) BY <2>1, <2>2, <2>3, <3>2
      <4>2. Cardinality(Recent(kept[c], now)) < RateLimit
        <5>1. Cardinality(Recent(kept[c], now)) \in Nat /\ RateLimit \in Nat
          BY <2>2, <2>3, WithinFinite
        <5> QED BY <3>2, <5>1
      <4> QED BY <2>2, <2>3, <2>4, <3>2, <4>1, <4>2, UnderLimit
    <3> QED BY <3>1, <3>2
  <2> HIDE DEF over, clean
  <2>8. /\ call' \in [Calls -> CallRec]
        /\ \A q \in Calls \ {r} : call'[q] = call[q]
        /\ call'[r].pc = IF over THEN "done" ELSE "serving"
        /\ call'[r].now = now
    BY <2>1 DEF CallRec
  <2>9. lastClean' \in 0..clock BY <2>1, <2>2
  <2>10. mu' \in Calls \cup {NoCall} BY <2>1
  <2>11. ASSUME NEW q \in Calls PROVE call'[q].now \in 0..clock /\ (call'[q].pc = "serving" <=> mu' = q)
    <3>1. CASE q = r BY <2>1, <2>2, <2>8, <3>1
    <3>2. CASE q # r
      <4>1. call'[q] = call[q] /\ call[q].pc # "serving" BY <2>1, <2>8, <3>2 DEF Calls, NoCall
      <4>2. mu' # q BY <2>1, <3>2 DEF Calls, NoCall
      <4> QED BY <4>1, <4>2
    <3> QED BY <3>1, <3>2
  <2> QED BY <2>1, <2>6, <2>7, <2>8, <2>9, <2>10, <2>11
<1>4. ASSUME NEW r \in Calls, Served(r) PROVE LimiterInv'
  <2>1. /\ call[r].pc = "serving" /\ mu' = NoCall /\ call' = [call EXCEPT ![r].pc = "done"]
        /\ UNCHANGED <<clock, stamps, lastClean>>
    BY <1>4 DEF Served
  <2>2. /\ call' \in [Calls -> CallRec]
        /\ \A q \in Calls \ {r} : call'[q] = call[q]
        /\ call'[r].pc = "done" /\ call'[r].now = call[r].now
    BY <2>1 DEF CallRec
  <2>3. WithinLimit' BY <2>1 DEF WithinLimit
  <2>4. ASSUME NEW q \in Calls PROVE call'[q].now \in 0..clock /\ (call'[q].pc = "serving" <=> mu' = q)
    BY <2>1, <2>2 DEF Calls, NoCall
  <2> QED BY <2>1, <2>2, <2>3, <2>4
<1>5. CASE UNCHANGED limiterVars BY <1>5 DEF limiterVars, WithinLimit
<1> QED BY <1>1, <1>2, <1>3, <1>4, <1>5 DEF LimiterNext

-----------------------------------------------------------------------------
(* What the two services have in common.                                    *)

(* An event stays deliverable while the log grows.                           *)
LEMMA ForKept ==
  ASSUME LogInv, NEW c \in Conns, NEW k, For(c, k),
         \/ UNCHANGED published
         \/ \E e \in Event : published' = Append(published, e),
         asked[c] \subseteq asked'[c]
  PROVE  For(c, k)'
<1>1. k \in 1..Len(published') /\ published'[k] = published[k]
  BY DEF For, LogInv
<1> QED BY <1>1 DEF For, Covered

LEMMA PublishLog ==
  ASSUME LogInv, NEW e \in Event, published' = Append(published, e), UNCHANGED <<asked, received>>
  PROVE  LogInv' /\ Len(published') = Len(published) + 1 /\ Len(published) \in Nat
<1>1. /\ Len(published') = Len(published) + 1 /\ Len(published) \in Nat
      /\ published' \in Seq(Event)
  BY DEF LogInv
<1>2. 1..Len(published) \subseteq 1..Len(published') BY <1>1
<1> QED BY <1>1, <1>2 DEF LogInv

LEMMA ReceiveLog ==
  ASSUME LogInv, NEW c \in Conns, NEW k, For(c, k),
         received' = [received EXCEPT ![c] = Append(@, k)], UNCHANGED <<asked, published>>
  PROVE  /\ LogInv'
         /\ ToSet(received'[c]) = ToSet(received[c]) \cup {k}
         /\ \A d \in Conns \ {c} : received'[d] = received[d]
<1>1. Len(published) \in Nat BY DEF LogInv
<1>2. k \in Nat /\ k \in 1..Len(published) BY <1>1 DEF For
<1>3. received[c] \in Seq(Nat) BY DEF LogInv
<1>4. received'[c] = Append(received[c], k) BY DEF LogInv
<1>5. received'[c] \in Seq(Nat) /\ ToSet(received'[c]) = ToSet(received[c]) \cup {k}
  BY <1>2, <1>3, <1>4, AppendFacts
<1>6. \A d \in Conns \ {c} : received'[d] = received[d] BY DEF LogInv
<1>7. received' \in [Conns -> Seq(Nat)] BY <1>5 DEF LogInv
<1>8. \A d \in Conns : ToSet(received'[d]) \subseteq 1..Len(published') BY <1>2, <1>5, <1>6 DEF LogInv
<1> QED BY <1>5, <1>6, <1>7, <1>8 DEF LogInv

-----------------------------------------------------------------------------
(* The event stream.                                                        *)

LEMMA NotifierStart == LogInv /\ NotifierInit => NotifierInv
<1> SUFFICES ASSUME LogInv, NotifierInit PROVE NotifierInv OBVIOUS
<1> USE RequestAssumption DEF NotifierInit
<1>1. loop \in LoopRec /\ loop.pc = "idle" BY DEF LoopRec, Idle
<1>2. FALSE \in BOOLEAN /\ TRUE \in BOOLEAN OBVIOUS
<1>3. NoRequest \in RequestRec /\ NoRequest.pc = "none" BY <1>2 DEF RequestRec, NoRequest
<1>4. ToSet(<<>>) = {} BY DEF ToSet
<1>5. NotifierTypes
  <2>1. up \in BOOLEAN /\ stop \in BOOLEAN BY <1>2
  <2>2. eventChan \in Seq(Nat) /\ Len(eventChan) <= EventCap OBVIOUS
  <2>3. events \in [Conns -> Seq(Nat)] /\ \A c \in Conns : Len(events[c]) <= SubCap OBVIOUS
  <2> QED BY <1>1, <1>3, <2>1, <2>2, <2>3 DEF NotifierTypes
<1>6. RequestsOK BY <1>3 DEF RequestsOK
<1>7. ChanOK BY <1>4 DEF ChanOK, Sorted
<1>8. LoopOK BY <1>1 DEF LoopOK
<1>9. EventsOK BY <1>4 DEF EventsOK, Sorted
<1> QED BY <1>5, <1>6, <1>7, <1>8, <1>9 DEF NotifierInv

LEMMA QueuedPublished ==
  ASSUME LogInv, EventsOK, NEW c \in Conns, NEW k \in Queued(c)
  PROVE  k \in 1..Len(published) /\ k \in Nat
<1>1. k \in 1..Len(published) BY DEF LogInv, EventsOK, Queued, For
<1> QED BY <1>1 DEF LogInv

LEMMA NotifyStep ==
  ASSUME LogInv, NotifierInv, NEW e \in Event, Notify(e)
  PROVE  LogInv' /\ NotifierInv'
<1> DEFINE n == Len(published)
<1> USE DEF NotifierInv
<1>1. /\ published' = Append(published, e)
      /\ UNCHANGED <<up, stop, loop, subVars, asked, received>>
      /\ eventChan' = IF Len(eventChan) < EventCap THEN Append(eventChan, n + 1) ELSE eventChan
  BY DEF Notify
<1>2. LogInv' /\ Len(published') = n + 1 /\ n \in Nat BY <1>1, PublishLog
<1>3. eventChan \in Seq(Nat) /\ Len(eventChan) <= EventCap /\ EventCap \in Nat
  BY RequestAssumption DEF NotifierTypes
<1>4. \A l \in ToSet(eventChan) : l \in Nat /\ l < n + 1 BY <1>2 DEF ChanOK
<1>5. /\ eventChan' \in Seq(Nat) /\ Len(eventChan') <= EventCap /\ Sorted(eventChan')
      /\ ToSet(eventChan') \subseteq ToSet(eventChan) \cup {n + 1}
  <2>1. CASE Len(eventChan) < EventCap
    BY <1>1, <1>2, <1>3, <1>4, <2>1, AppendFacts, SortedAppend DEF ChanOK
  <2>2. CASE ~(Len(eventChan) < EventCap) BY <1>1, <1>3, <2>2 DEF ChanOK
  <2> QED BY <2>1, <2>2
<1>6. \A k : \A c \in Conns : For(c, k) => For(c, k)' BY <1>1, ForKept
<1>7. UNCHANGED <<subscribers, folderIDs, closed, events, request>> BY <1>1 DEF subVars
<1>8. NotifierTypes' BY <1>1, <1>5, <1>7 DEF NotifierTypes
<1>9. RequestsOK' BY <1>1, <1>7 DEF RequestsOK
<1>10. \A c \in Conns : Queued(c)' = Queued(c) BY <1>1, <1>7 DEF Queued
<1>11. \A c \in Conns : \A k \in Queued(c) : k \in Nat /\ k < n + 1 BY <1>2, QueuedPublished
<1>12. ChanOK'
  <2>1. \A l \in ToSet(eventChan') : l \in 1..(n + 1) BY <1>2, <1>5 DEF ChanOK
  <2>2. \A c \in Conns : \A k \in Queued(c), l \in ToSet(eventChan') : k < l
    BY <1>5, <1>11 DEF ChanOK
  <2> QED BY <1>2, <1>5, <1>10, <2>1, <2>2 DEF ChanOK
<1>13. LoopOK'
  <2> SUFFICES ASSUME loop.pc \in {"check", "send"} PROVE LoopOK' BY <1>1 DEF LoopOK
  <2>1. loop.event \in 1..n /\ loop.event \in 1..(n + 1) /\ loop.event < n + 1 BY <1>2 DEF LoopOK
  <2>2. \A l \in ToSet(eventChan') : loop.event < l BY <1>5, <2>1 DEF LoopOK
  <2> QED BY <1>1, <1>2, <1>6, <1>10, <2>1, <2>2 DEF LoopOK, NotifierTypes, LoopRec
<1>14. EventsOK' BY <1>1, <1>6, <1>7 DEF EventsOK
<1> QED BY <1>2, <1>8, <1>9, <1>12, <1>13, <1>14

LEMMA LoopStep ==
  ASSUME LogInv, NotifierInv, eventLoop
  PROVE  LogInv' /\ NotifierInv'
<1> USE DEF NotifierInv
<1>1. UNCHANGED <<up, stop, subVars, logVars>> /\ loop.pc = "idle" BY DEF eventLoop
<1>2. UNCHANGED <<subscribers, folderIDs, closed, events, request, published, asked, received>>
  BY <1>1 DEF subVars, logVars
<1>3. LogInv' /\ RequestsOK' BY <1>2 DEF LogInv, RequestsOK
<1>4. \A c \in Conns : Queued(c)' = Queued(c) BY <1>2 DEF Queued
<1>5. \A k : \A c \in Conns : For(c, k)' <=> For(c, k) BY <1>2 DEF For
<1>6. EventsOK' BY <1>2, <1>5 DEF EventsOK
<1>7. CASE stop /\ loop' = [loop EXCEPT !.pc = "ended"] /\ UNCHANGED eventChan
  <2>1. loop' \in LoopRec /\ loop'.pc = "ended" BY <1>7 DEF NotifierTypes, LoopRec
  <2>2. NotifierTypes' BY <1>1, <1>2, <1>7, <2>1 DEF NotifierTypes
  <2>3. ChanOK' BY <1>2, <1>4, <1>7 DEF ChanOK
  <2>4. LoopOK' BY <2>1 DEF LoopOK
  <2> QED BY <1>3, <1>6, <2>2, <2>3, <2>4
<1>8. CASE /\ eventChan # <<>> /\ eventChan' = Tail(eventChan)
           /\ loop' = [Idle EXCEPT !.pc = "check", !.event = Head(eventChan),
                                   !.todo = Filtered(published[Head(eventChan)])]
  <2> DEFINE h == Head(eventChan)
  <2>1. eventChan \in Seq(Nat) /\ Len(eventChan) <= EventCap /\ EventCap \in Nat /\ Sorted(eventChan)
    BY RequestAssumption DEF NotifierTypes, ChanOK
  <2>2. /\ h \in ToSet(eventChan) /\ h \in Nat /\ eventChan' \in Seq(Nat)
        /\ Len(eventChan') <= EventCap /\ ToSet(eventChan') \subseteq ToSet(eventChan)
    BY <1>8, <2>1, TailFacts
  <2>3. Sorted(eventChan') /\ \A l \in ToSet(eventChan') : l # Reply /\ h # Reply => h < l
    BY <1>8, <2>1, SortedTail
  <2>4. h \in 1..Len(published) /\ h # Reply BY <2>2 DEF ChanOK, Reply
  <2>5. \A l \in ToSet(eventChan') : h < l BY <2>2, <2>3, <2>4 DEF ChanOK, Reply
  <2>6. Filtered(published[h]) \subseteq Conns BY DEF Filtered, NotifierTypes
  <2>7. /\ loop' \in LoopRec /\ loop'.pc = "check" /\ loop'.event = h
        /\ loop'.todo = Filtered(published[h])
    BY <1>8, <2>2, <2>6 DEF Idle, LoopRec
  <2>8. \A c \in loop'.todo : c \in Conns /\ For(c, h)
    <3> SUFFICES ASSUME NEW c \in Filtered(published[h]) PROVE For(c, h) BY <2>6, <2>7
    <3>1. /\ c \in Conns /\ UserOf[c] = published[h].user /\ Covered(published[h], folderIDs[c])
          /\ folderIDs[c] \subseteq asked[c]
      BY DEF Filtered, NotifierTypes, RequestsOK
    <3> QED BY <2>4, <3>1 DEF For, Covered
  <2>9. \A c \in Conns : \A k \in Queued(c) : k < h /\ k <= h
    BY <2>2, QueuedPublished DEF ChanOK
  <2>10. NotifierTypes' BY <1>1, <1>2, <2>2, <2>7 DEF NotifierTypes
  <2>11. ChanOK' BY <1>2, <1>4, <2>2, <2>3 DEF ChanOK
  <2>12. LoopOK' BY <1>2, <1>4, <1>5, <2>4, <2>5, <2>7, <2>8, <2>9 DEF LoopOK
  <2> QED BY <1>3, <1>6, <2>10, <2>11, <2>12
<1> QED BY <1>7, <1>8 DEF eventLoop

LEMMA CheckStep ==
  ASSUME LogInv, NotifierInv, CheckClosed
  PROVE  LogInv' /\ NotifierInv'
<1> USE DEF NotifierInv
<1>1. UNCHANGED <<up, stop, eventChan, subVars, logVars>> /\ loop.pc = "check" BY DEF CheckClosed
<1>2. UNCHANGED <<subscribers, folderIDs, closed, events, request, published, asked, received>>
  BY <1>1 DEF subVars, logVars
<1>3. LogInv' /\ RequestsOK' BY <1>2 DEF LogInv, RequestsOK
<1>4. \A c \in Conns : Queued(c)' = Queued(c) BY <1>2 DEF Queued
<1>5. \A k : \A c \in Conns : For(c, k)' <=> For(c, k) BY <1>2 DEF For
<1>6. EventsOK' /\ ChanOK' BY <1>1, <1>2, <1>4, <1>5 DEF EventsOK, ChanOK
<1>7. loop' \in LoopRec /\ LoopOK'
  <2>1. CASE loop' = Idle BY <2>1 DEF Idle, LoopRec, LoopOK
  <2>2. ASSUME NEW c \in loop.todo,
               loop' = [loop EXCEPT !.todo = @ \ {c}, !.sub = c,
                                    !.pc = IF c \in closed THEN "check" ELSE "send"]
        PROVE  loop' \in LoopRec /\ LoopOK'
    <3>1. c \in Conns BY DEF NotifierTypes, LoopRec
    <3>2. /\ loop' \in LoopRec /\ loop'.todo = loop.todo \ {c} /\ loop'.sub = c
          /\ loop'.event = loop.event /\ loop'.pc \in {"check", "send"}
      BY <2>2, <3>1 DEF NotifierTypes, LoopRec
    <3> QED BY <1>1, <1>2, <1>4, <1>5, <3>1, <3>2 DEF LoopOK, NotifierTypes, LoopRec
  <2> QED BY <2>1, <2>2 DEF CheckClosed
<1>8. NotifierTypes' BY <1>1, <1>2, <1>7 DEF NotifierTypes
<1> QED BY <1>3, <1>6, <1>7, <1>8

LEMMA ProcessStep ==
  ASSUME LogInv, NotifierInv, processEvent
  PROVE  LogInv' /\ NotifierInv'
<1> DEFINE c == loop.sub
           e == loop.event
<1> USE DEF NotifierInv
<1>1. /\ UNCHANGED <<stop, eventChan, subscribers, folderIDs, closed, request, logVars>>
      /\ loop.pc = "send" /\ loop' = [loop EXCEPT !.pc = "check"]
      /\ up' = (c \notin closed)
      /\ events' = events \/ (Len(events[c]) < SubCap /\ events' = [events EXCEPT ![c] = Append(@, e)])
  BY DEF processEvent
<1>2. UNCHANGED <<published, asked, received>> BY <1>1 DEF logVars
<1>3. LogInv' /\ RequestsOK' BY <1>1, <1>2 DEF LogInv, RequestsOK
<1>4. /\ e \in 1..Len(published) /\ c \in Conns \ loop.todo /\ For(c, e)
      /\ \A k \in Queued(c) : k < e
  BY <1>1 DEF LoopOK
<1>5. e \in Nat BY DEF NotifierTypes, LoopRec
<1>6. /\ loop' \in LoopRec /\ loop'.pc = "check" /\ loop'.event = e /\ loop'.todo = loop.todo
  BY <1>1 DEF NotifierTypes, LoopRec
<1>7. \A k : \A d \in Conns : For(d, k)' <=> For(d, k) BY <1>2 DEF For
<1>8. up' \in BOOLEAN BY <1>1
<1>9. /\ events' \in [Conns -> Seq(Nat)]
      /\ \A d \in Conns \ {c} : events'[d] = events[d]
      /\ Len(events'[c]) <= SubCap
      /\ Sorted(events'[c]) /\ ToSet(events'[c]) \subseteq ToSet(events[c]) \cup {e}
  <2>0. events[c] \in Seq(Nat) /\ Len(events[c]) <= SubCap /\ SubCap \in Nat /\ Sorted(events[c])
    BY <1>4, RequestAssumption DEF NotifierTypes, EventsOK
  <2>1. CASE events' = events BY <2>0, <2>1 DEF NotifierTypes
  <2>2. CASE Len(events[c]) < SubCap /\ events' = [events EXCEPT ![c] = Append(@, e)]
    <3>1. /\ events'[c] = Append(events[c], e) /\ \A d \in Conns \ {c} : events'[d] = events[d]
          /\ events' = [d \in Conns |-> events'[d]]
      BY <1>4, <2>2 DEF NotifierTypes
    <3>2. /\ events'[c] \in Seq(Nat) /\ Len(events'[c]) = Len(events[c]) + 1
          /\ ToSet(events'[c]) = ToSet(events[c]) \cup {e}
      BY <1>5, <2>0, <3>1, AppendFacts
    <3>3. Sorted(events'[c]) BY <1>4, <1>5, <2>0, <3>1, SortedAppend DEF Queued
    <3>4. Len(events'[c]) <= SubCap BY <2>0, <2>2, <3>2
    <3>5. \A d \in Conns : events'[d] \in Seq(Nat) BY <3>1, <3>2 DEF NotifierTypes
    <3> QED BY <3>1, <3>2, <3>3, <3>4, <3>5
  <2> QED BY <1>1, <2>1, <2>2
<1>10. NotifierTypes' BY <1>1, <1>6, <1>8, <1>9 DEF NotifierTypes
<1>11. \A d \in Conns \ {c} : Queued(d)' = Queued(d) BY <1>2, <1>9 DEF Queued
<1>12. \A d \in Conns : Queued(d)' \subseteq Queued(d) \cup {e} BY <1>2, <1>9 DEF Queued
<1>13. ChanOK' BY <1>1, <1>2, <1>4, <1>11, <1>12 DEF ChanOK, LoopOK
<1>14. LoopOK'
  <2>1. \A d \in Conns : \A k \in Queued(d)' : k <= e
    <3>1. \A d \in Conns : \A k \in Queued(d) : k <= e BY <1>1 DEF LoopOK
    <3>2. e <= e BY <1>5
    <3> QED BY <1>11, <1>12, <3>1, <3>2
  <2>2. \A d \in loop.todo : d \in Conns \ {c} /\ For(d, e)' /\ \A k \in Queued(d)' : k < e
    BY <1>1, <1>4, <1>7, <1>11 DEF LoopOK, NotifierTypes, LoopRec
  <2>3. \A l \in ToSet(eventChan') : e < l BY <1>1 DEF LoopOK
  <2> QED BY <1>2, <1>4, <1>6, <2>1, <2>2, <2>3 DEF LoopOK
<1>15. EventsOK'
  <2> SUFFICES ASSUME NEW d \in Conns
               PROVE  /\ Sorted(events'[d]) /\ \A k \in ToSet(events'[d]) : For(d, k)'
                      /\ \A k \in ToSet(received'[d]), l \in ToSet(events'[d]) : k < l
    BY DEF EventsOK
  <2>1. CASE d = c
    <3>1. /\ \A k \in ToSet(events[c]) : For(c, k)
          /\ \A k \in ToSet(received[c]), l \in ToSet(events[c]) : k < l
      BY <1>4 DEF EventsOK
    <3>2. \A k \in ToSet(received[c]) : k < e BY <1>4 DEF Queued
    <3>3. \A k \in ToSet(events'[c]) : For(c, k) BY <1>4, <1>9, <3>1
    <3>4. \A k \in ToSet(events'[d]) : For(d, k)' BY <1>7, <2>1, <3>3
    <3>5. \A k \in ToSet(received[c]), l \in ToSet(events'[c]) : k < l BY <1>9, <3>1, <3>2
    <3>6. Sorted(events'[d]) BY <1>9, <2>1
    <3>7. \A k \in ToSet(received'[d]), l \in ToSet(events'[d]) : k < l BY <1>2, <2>1, <3>5
    <3> QED BY <3>4, <3>6, <3>7
  <2>2. CASE d # c BY <1>2, <1>7, <1>9, <2>2 DEF EventsOK
  <2> QED BY <2>1, <2>2
<1> QED BY <1>3, <1>10, <1>13, <1>14, <1>15

(* What a step that changes neither log nor channels keeps.                  *)
LEMMA ChannelsKept ==
  ASSUME LogInv, NotifierInv, UNCHANGED <<logVars, eventChan, loop, events>>
  PROVE  LogInv' /\ ChanOK' /\ LoopOK' /\ EventsOK'
<1> USE DEF NotifierInv
<1>1. UNCHANGED <<published, asked, received, eventChan, loop, events>> BY DEF logVars
<1>2. \A c \in Conns : Queued(c)' = Queued(c) BY <1>1 DEF Queued
<1>3. \A k : \A c \in Conns : For(c, k)' <=> For(c, k) BY <1>1 DEF For
<1>4. LogInv' BY <1>1 DEF LogInv
<1>5. ChanOK' BY <1>1, <1>2 DEF ChanOK
<1>6. EventsOK' BY <1>1, <1>3 DEF EventsOK
<1>7. LoopOK' BY <1>1, <1>2, <1>3 DEF LoopOK, NotifierTypes, LoopRec
<1> QED BY <1>4, <1>5, <1>6, <1>7

LEMMA RequestPc ==
  ASSUME NEW c \in Conns, NEW pc \in {"none", "folder", "wait", "leave", "done"},
         request \in [Conns -> RequestRec], request' = [request EXCEPT ![c].pc = pc]
  PROVE  /\ request' \in [Conns -> RequestRec]
         /\ request'[c].pc = pc /\ request'[c].topic = request[c].topic
         /\ \A d \in Conns \ {c} : request'[d] = request[d]
<1>1. request'[c] = [request[c] EXCEPT !.pc = pc] /\ \A d \in Conns \ {c} : request'[d] = request[d]
  OBVIOUS
<1>2. request[c] \in RequestRec OBVIOUS
<1>3. request'[c] \in RequestRec /\ request'[c].pc = pc /\ request'[c].topic = request[c].topic
  BY <1>1, <1>2 DEF RequestRec
<1>4. DOMAIN request' = Conns /\ request' = [d \in Conns |-> request'[d]] OBVIOUS
<1> QED BY <1>1, <1>3, <1>4

LEMMA CloseStep == ASSUME LogInv, NotifierInv, Close PROVE LogInv' /\ NotifierInv'
<1>1. UNCHANGED <<logVars, eventChan, loop, events, up, subscribers, folderIDs, closed, request>>
  BY DEF Close, subVars
<1>2. LogInv' /\ ChanOK' /\ LoopOK' /\ EventsOK' BY <1>1, ChannelsKept
<1>3. stop' \in BOOLEAN BY DEF Close
<1>4. NotifierTypes' BY <1>1, <1>3 DEF NotifierInv, NotifierTypes
<1>5. UNCHANGED asked BY <1>1 DEF logVars
<1>6. RequestsOK' BY <1>1, <1>5 DEF NotifierInv, RequestsOK
<1> QED BY <1>2, <1>4, <1>6 DEF NotifierInv

LEMMA SubscribeStep ==
  ASSUME LogInv, NotifierInv, NEW c \in Conns, Subscribe(c)
  PROVE  LogInv' /\ NotifierInv'
<1> USE DEF NotifierInv
<1>1. /\ UNCHANGED <<logVars, eventChan, loop, events, up, stop, folderIDs, closed>>
      /\ request[c].pc = "none" /\ subscribers' = subscribers \cup {c}
  BY DEF Subscribe, loopVars
<1>2. LogInv' /\ ChanOK' /\ LoopOK' /\ EventsOK' BY <1>1, ChannelsKept
<1>3. PICK r \in Requests :
        request' = [request EXCEPT ![c] = [pc |-> IF r.topic = NoFolder THEN "wait" ELSE "folder",
                                           poll |-> r.poll, topic |-> r.topic]]
  BY DEF Subscribe
<1>4. r.poll \in BOOLEAN /\ r.topic \in Topics \cup {NoFolder} BY RequestAssumption
<1>5. request'[c] = [pc |-> IF r.topic = NoFolder THEN "wait" ELSE "folder",
                     poll |-> r.poll, topic |-> r.topic]
  BY <1>3 DEF NotifierTypes
<1>6. request'[c] \in RequestRec BY <1>4, <1>5 DEF RequestRec
<1>7. /\ request'[c].pc \in {"folder", "wait"}
      /\ request'[c].pc = "folder" => request'[c].topic \in Topics
  BY <1>4, <1>5
<1>8. \A d \in Conns \ {c} : request'[d] = request[d] BY <1>3 DEF NotifierTypes
<1>9. request' \in [Conns -> RequestRec] BY <1>3, <1>6, <1>8 DEF NotifierTypes
<1>10. NotifierTypes' BY <1>1, <1>9 DEF NotifierTypes
<1>11. UNCHANGED asked BY <1>1 DEF logVars
<1>12. RequestsOK' BY <1>1, <1>7, <1>8, <1>11 DEF RequestsOK
<1> QED BY <1>2, <1>10, <1>12

LEMMA SubscribeFolderStep ==
  ASSUME LogInv, NotifierInv, NEW c \in Conns, SubscribeFolder(c)
  PROVE  /\ LogInv' /\ NotifierInv'
         /\ \E t \in Topics : asked' = [asked EXCEPT ![c] = @ \cup {t}]
<1> USE DEF NotifierInv
<1>1. PICK t : t = request[c].topic OBVIOUS
<1>2. /\ UNCHANGED <<eventChan, loop, events, up, stop, subscribers, closed, published, received>>
      /\ request[c].pc = "folder" /\ request' = [request EXCEPT ![c].pc = "wait"]
      /\ folderIDs' = [folderIDs EXCEPT ![c] = @ \cup {t}]
      /\ asked' = [asked EXCEPT ![c] = @ \cup {t}]
  BY <1>1 DEF SubscribeFolder, loopVars
<1>3. t \in Topics BY <1>1, <1>2 DEF RequestsOK
<1>4. LogInv' BY <1>2, <1>3 DEF LogInv
<1>5. \A d \in Conns : asked[d] \subseteq asked'[d] BY <1>2 DEF LogInv
<1>6. \A k : \A d \in Conns : For(d, k) => For(d, k)' BY <1>2, <1>5, ForKept
<1>7. \A d \in Conns : Queued(d)' = Queued(d) BY <1>2 DEF Queued
<1>8. ChanOK' BY <1>2, <1>7 DEF ChanOK
<1>9. EventsOK' BY <1>2, <1>6 DEF EventsOK
<1>10. LoopOK' BY <1>2, <1>6, <1>7 DEF LoopOK, NotifierTypes, LoopRec
<1>11. /\ request' \in [Conns -> RequestRec] /\ request'[c].pc = "wait"
       /\ \A d \in Conns \ {c} : request'[d] = request[d]
  BY <1>2, RequestPc DEF NotifierTypes
<1>12. folderIDs' \in [Conns -> SUBSET Topics] BY <1>2, <1>3 DEF NotifierTypes
<1>13. NotifierTypes' BY <1>2, <1>11, <1>12 DEF NotifierTypes
<1>14. \A d \in Conns : folderIDs'[d] \subseteq asked'[d]
  BY <1>2 DEF RequestsOK, NotifierTypes, LogInv
<1>15. RequestsOK' BY <1>2, <1>11, <1>14 DEF RequestsOK
<1> QED BY <1>2, <1>3, <1>4, <1>8, <1>9, <1>10, <1>13, <1>15

LEMMA LeaveStep ==
  ASSUME LogInv, NotifierInv, NEW c \in Conns, StreamingUnsupported(c) \/ HandleLongPoll(c) \/ Unsubscribe(c)
  PROVE  LogInv' /\ NotifierInv'
<1> USE DEF NotifierInv
<1>1. UNCHANGED <<logVars, eventChan, loop, events, up, stop, folderIDs>>
  BY DEF StreamingUnsupported, HandleLongPoll, Unsubscribe, loopVars
<1>2. LogInv' /\ ChanOK' /\ LoopOK' /\ EventsOK' BY <1>1, ChannelsKept
<1>3. UNCHANGED asked BY <1>1 DEF logVars
<1>4. PICK pc \in {"leave", "done"} :
        /\ request' = [request EXCEPT ![c].pc = pc]
        /\ request[c].pc \in {"none", "wait", "leave"}
        /\ pc = "leave" => request[c].pc = "wait" /\ UNCHANGED <<subscribers, closed>>
        /\ pc = "done" => \/ subscribers' = subscribers \ {c} /\ closed' = closed \cup {c}
                          \/ request[c].pc = "none" /\ UNCHANGED <<subscribers, closed>>
  BY DEF StreamingUnsupported, HandleLongPoll, Unsubscribe
<1>5. /\ request' \in [Conns -> RequestRec] /\ request'[c].pc = pc
      /\ \A d \in Conns \ {c} : request'[d] = request[d]
  BY <1>4, RequestPc DEF NotifierTypes
<1>6. NotifierTypes' BY <1>1, <1>4, <1>5 DEF NotifierTypes
<1>7. RequestsOK' BY <1>1, <1>3, <1>4, <1>5 DEF RequestsOK
<1> QED BY <1>2, <1>6, <1>7

LEMMA HandleSSEStep ==
  ASSUME LogInv, NotifierInv, NEW c \in Conns, HandleSSE(c)
  PROVE  /\ LogInv' /\ NotifierInv' /\ c \in subscribers
         /\ \E k \in Nat :
              /\ For(c, k) /\ received' = [received EXCEPT ![c] = Append(@, k)]
              /\ \A l \in ToSet(received[c]) : l < k
<1> USE DEF NotifierInv
<1>1. PICK k : k = Head(events[c]) OBVIOUS
<1>2. /\ UNCHANGED <<eventChan, loop, up, stop, subscribers, folderIDs, closed, published, asked>>
      /\ request[c].pc = "wait" /\ events[c] # <<>>
      /\ events' = [events EXCEPT ![c] = Tail(@)]
      /\ received' = [received EXCEPT ![c] = Append(@, k)]
      /\ \E pc \in {"leave", "wait"} : request' = [request EXCEPT ![c].pc = pc]
  BY <1>1 DEF HandleSSE, loopVars
<1>3. events[c] \in Seq(Nat) /\ Len(events[c]) <= SubCap /\ SubCap \in Nat /\ Sorted(events[c])
  BY RequestAssumption DEF NotifierTypes, EventsOK
<1>4. events'[c] = Tail(events[c]) /\ \A d \in Conns \ {c} : events'[d] = events[d]
  BY <1>2 DEF NotifierTypes
<1>5. /\ k \in ToSet(events[c]) /\ k \in Nat /\ events'[c] \in Seq(Nat)
      /\ Len(events'[c]) <= SubCap /\ ToSet(events'[c]) \subseteq ToSet(events[c])
  BY <1>1, <1>2, <1>3, <1>4, TailFacts
<1>6. For(c, k) /\ \A l \in ToSet(received[c]) : l < k BY <1>5 DEF EventsOK
<1>7. /\ LogInv' /\ ToSet(received'[c]) = ToSet(received[c]) \cup {k}
      /\ \A d \in Conns \ {c} : received'[d] = received[d]
  BY <1>2, <1>6, ReceiveLog
<1>8. \A d \in Conns : Queued(d)' \subseteq Queued(d) BY <1>4, <1>5, <1>7 DEF Queued
<1>9. \A l : \A d \in Conns : For(d, l)' <=> For(d, l) BY <1>2 DEF For
<1>10. /\ request' \in [Conns -> RequestRec] /\ request'[c].pc \in {"leave", "wait"}
       /\ \A d \in Conns \ {c} : request'[d] = request[d]
  BY <1>2, RequestPc DEF NotifierTypes
<1>11. events' \in [Conns -> Seq(Nat)] BY <1>2, <1>4, <1>5 DEF NotifierTypes
<1>12. NotifierTypes' BY <1>2, <1>4, <1>5, <1>10, <1>11 DEF NotifierTypes
<1>13. RequestsOK' BY <1>2, <1>10 DEF RequestsOK
<1>14. ChanOK' BY <1>2, <1>8 DEF ChanOK
<1>15. LoopOK' BY <1>2, <1>8, <1>9 DEF LoopOK, NotifierTypes, LoopRec
<1>16. EventsOK'
  <2> SUFFICES ASSUME NEW d \in Conns
               PROVE  /\ Sorted(events'[d]) /\ \A l \in ToSet(events'[d]) : For(d, l)'
                      /\ \A m \in ToSet(received'[d]), l \in ToSet(events'[d]) : m < l
    BY DEF EventsOK
  <2>1. CASE d = c
    <3>1. Sorted(events'[c]) /\ \A l \in ToSet(events'[c]) : l # Reply /\ k # Reply => k < l
      BY <1>1, <1>2, <1>3, <1>4, SortedTail
    <3>2. \A l \in ToSet(events[c]) : l # Reply
      <4>1. \A l \in ToSet(events[c]) : l \in 1..Len(published) BY DEF EventsOK, For
      <4> QED BY <4>1 DEF Reply, LogInv
    <3> QED BY <1>5, <1>7, <1>9, <2>1, <3>1, <3>2 DEF EventsOK
  <2>2. CASE d # c BY <1>4, <1>7, <1>9, <2>2 DEF EventsOK
  <2> QED BY <2>1, <2>2
<1>17. c \in subscribers BY <1>2 DEF RequestsOK
<1> QED BY <1>2, <1>5, <1>6, <1>7, <1>12, <1>13, <1>14, <1>15, <1>16, <1>17

LEMMA NotifierStep == ASSUME LogInv, NotifierInv, NotifierNext PROVE LogInv' /\ NotifierInv'
<1>1. CASE Published
  <2>1. PICK e \in Kinds : Notify(e) BY <1>1 DEF Published, NotifyUser, NotifyFileChange
  <2>2. e \in Event BY EventAssumption
  <2> QED BY <2>1, <2>2, NotifyStep
<1>2. CASE Close BY <1>2, CloseStep
<1>3. CASE Loop BY <1>3, LoopStep, CheckStep, ProcessStep DEF Loop
<1>4. ASSUME NEW c \in Conns,
             StreamingUnsupported(c) \/ Subscribe(c) \/ SubscribeFolder(c) \/ HandleSSE(c)
               \/ HandleLongPoll(c) \/ Unsubscribe(c)
      PROVE  LogInv' /\ NotifierInv'
  BY <1>4, SubscribeStep, SubscribeFolderStep, HandleSSEStep, LeaveStep
<1> QED BY <1>1, <1>2, <1>3, <1>4 DEF NotifierNext

-----------------------------------------------------------------------------
(* The WebSocket hub.                                                       *)

LEMMA WebSocketStart == LogInv /\ HubInit => WebSocketInv
<1> SUFFICES ASSUME LogInv, HubInit PROVE WebSocketInv OBVIOUS
<1> USE HubAssumption DEF HubInit
<1>1. ToSet(<<>>) = {} BY DEF ToSet
<1>2. HubTypes BY DEF HubTypes
<1>3. ClientsOK BY DEF ClientsOK
<1>4. IndexMatches BY <1>1 DEF IndexMatches, IsInjective
<1>5. BroadcastOK BY <1>1 DEF BroadcastOK, Sorted
<1>6. SendOK BY <1>1 DEF SendOK, Sorted, Sent
<1> QED BY <1>2, <1>3, <1>4, <1>5, <1>6 DEF WebSocketInv

LEMMA RemoveFacts ==
  ASSUME NEW S, NEW s \in Seq(S), IsInjective(s), NEW i \in 1..Len(s)
  PROVE  /\ RemoveAt(s, i) \in Seq(S) /\ IsInjective(RemoveAt(s, i))
         /\ ToSet(RemoveAt(s, i)) = ToSet(s) \ {s[i]}
<1> DEFINE t == RemoveAt(s, i)
           n == Len(s)
<1>1. /\ t \in Seq(S) /\ Len(t) = n - 1 /\ n \in Nat \ {0}
      /\ \A j \in 1..(n - 1) : t[j] = IF j < i THEN s[j] ELSE s[j + 1]
  <2> DEFINE a == SubSeq(s, 1, i - 1)
             b == SubSeq(s, i + 1, n)
  <2>1. n \in Nat \ {0} /\ i \in Nat OBVIOUS
  <2>2. a \in Seq(S) /\ Len(a) = i - 1 /\ \A j \in 1..(i - 1) : a[j] = s[j] BY <2>1
  <2>3. b \in Seq(S) /\ Len(b) = n - i /\ \A j \in 1..(n - i) : b[j] = s[i + j] BY <2>1
  <2>4. t = a \o b BY DEF RemoveAt
  <2> HIDE DEF a, b
  <2>5. t \in Seq(S) /\ Len(t) = n - 1 BY <2>1, <2>2, <2>3, <2>4
  <2>6. ASSUME NEW j \in 1..(n - 1) PROVE t[j] = IF j < i THEN s[j] ELSE s[j + 1]
    <3>1. CASE j < i BY <2>1, <2>2, <2>3, <2>4, <3>1
    <3>2. CASE ~(j < i)
      <4>1. j - (i - 1) \in 1..(n - i) /\ i + (j - (i - 1)) = j + 1 BY <2>1, <3>2
      <4>2. j \in 1..(Len(a) + Len(b)) /\ ~(j <= Len(a)) BY <2>1, <2>2, <2>3, <3>2
      <4>3. (a \o b)[j] = b[j - Len(a)] BY <2>2, <2>3, <4>2
      <4> QED BY <2>2, <2>3, <2>4, <3>2, <4>1, <4>3
    <3> QED BY <3>1, <3>2
  <2> QED BY <2>1, <2>5, <2>6
<1>2. DOMAIN t = 1..(n - 1) /\ DOMAIN s = 1..n BY <1>1
<1> HIDE DEF t
<1>3. \A j \in 1..(n - 1) : \E k \in 1..n : t[j] = s[k] /\ k # i /\ k = IF j < i THEN j ELSE j + 1
  BY <1>1
<1>4. IsInjective(t)
  <2> SUFFICES ASSUME NEW j \in 1..(n - 1), NEW k \in 1..(n - 1), t[j] = t[k] PROVE j = k
    BY <1>2 DEF IsInjective
  <2>1. PICK p \in 1..n : t[j] = s[p] /\ p = IF j < i THEN j ELSE j + 1 BY <1>3
  <2>2. PICK q \in 1..n : t[k] = s[q] /\ q = IF k < i THEN k ELSE k + 1 BY <1>3
  <2>3. p = q BY <1>2, <2>1, <2>2 DEF IsInjective
  <2> QED BY <1>1, <2>1, <2>2, <2>3
<1>5. ToSet(t) \subseteq ToSet(s) \ {s[i]} BY <1>2, <1>3 DEF ToSet, IsInjective
<1>6. ToSet(s) \ {s[i]} \subseteq ToSet(t)
  <2> SUFFICES ASSUME NEW k \in 1..n, k # i PROVE \E j \in 1..(n - 1) : t[j] = s[k]
    BY <1>2 DEF ToSet
  <2>1. CASE k < i BY <1>1, <2>1
  <2>2. CASE k > i
    <3>1. k - 1 \in 1..(n - 1) /\ ~(k - 1 < i) /\ (k - 1) + 1 = k BY <1>1, <2>2
    <3> QED BY <1>1, <3>1
  <2> QED BY <2>1, <2>2
<1> QED BY <1>1, <1>4, <1>5, <1>6 DEF t

LEMMA RemoveFirstFacts ==
  ASSUME NEW S, NEW s \in Seq(S), IsInjective(s), NEW c
  PROVE  /\ RemoveFirst(s, c) \in Seq(S) /\ IsInjective(RemoveFirst(s, c))
         /\ ToSet(RemoveFirst(s, c)) = ToSet(s) \ {c}
<1>0. DOMAIN s = 1..Len(s) /\ Len(s) \in Nat OBVIOUS
<1>1. ASSUME NEW i \in 1..Len(s), s[i] = c
      PROVE  RemoveFirst(s, c) = RemoveAt(s, i)
  <2>1. {k \in 1..Len(s) : s[k] = c} = {i} BY <1>0, <1>1 DEF IsInjective
  <2>2. Min({i}) = i BY DEF Min
  <2>3. SelectInSeq(s, LAMBDA v : v = c) = i BY <2>1, <2>2 DEF SelectInSeq
  <2> QED BY <1>1, <2>3 DEF RemoveFirst
<1>2. CASE c \in ToSet(s)
  <2>1. PICK i \in 1..Len(s) : s[i] = c BY <1>0, <1>2 DEF ToSet
  <2> QED BY <1>1, <2>1, RemoveFacts
<1>3. CASE c \notin ToSet(s)
  <2>1. RemoveFirst(s, c) = s BY <1>0, <1>3 DEF RemoveFirst, ToSet
  <2> QED BY <1>3, <2>1
<1> QED BY <1>2, <1>3

LEMMA InjectiveAppend ==
  ASSUME NEW S, NEW s \in Seq(S), IsInjective(s), NEW c \in S, c \notin ToSet(s)
  PROVE  IsInjective(Append(s, c))
<1>1. /\ DOMAIN Append(s, c) = 1..(Len(s) + 1) /\ Append(s, c)[Len(s) + 1] = c /\ Len(s) \in Nat
      /\ \A i \in 1..Len(s) : Append(s, c)[i] = s[i] /\ Append(s, c)[i] # c
  BY DEF ToSet
<1>2. DOMAIN s = 1..Len(s) OBVIOUS
<1> SUFFICES ASSUME NEW i \in 1..(Len(s) + 1), NEW j \in 1..(Len(s) + 1),
                    Append(s, c)[i] = Append(s, c)[j]
             PROVE  i = j
  BY <1>1 DEF IsInjective
<1>3. CASE i \in 1..Len(s) /\ j \in 1..Len(s) BY <1>1, <1>2, <1>3 DEF IsInjective
<1>4. CASE i = Len(s) + 1 \/ j = Len(s) + 1 BY <1>1, <1>4
<1> QED BY <1>1, <1>3, <1>4

(* What a step that changes neither log nor channels keeps.                  *)
LEMMA SendKept ==
  ASSUME LogInv, WebSocketInv, UNCHANGED <<logVars, broadcast, send>>
  PROVE  LogInv' /\ BroadcastOK' /\ SendOK'
<1>1. UNCHANGED <<published, asked, received, broadcast, send>> BY DEF logVars
<1>2. \A c \in Conns : Sent(c)' = Sent(c) BY <1>1 DEF Sent
<1>3. \A k : \A c \in Conns : For(c, k)' <=> For(c, k) BY <1>1 DEF For
<1>4. LogInv' BY <1>1 DEF LogInv
<1>5. BroadcastOK' BY <1>1, <1>2 DEF BroadcastOK, WebSocketInv
<1>6. SendOK' BY <1>1, <1>2, <1>3 DEF SendOK, WebSocketInv
<1> QED BY <1>4, <1>5, <1>6

LEMMA IndexKept == IndexMatches /\ UNCHANGED <<clients, userIndex>> => IndexMatches'
BY DEF IndexMatches

LEMMA SentPublished ==
  ASSUME LogInv, SendOK, NEW c \in Conns, NEW k \in ToSet(received[c]) \cup Sent(c)
  PROVE  k \in 1..Len(published) /\ k \in Nat
<1>1. k \in 1..Len(published) BY DEF LogInv, SendOK, Sent, For
<1> QED BY <1>1 DEF LogInv

LEMMA BroadcastStep ==
  ASSUME LogInv, WebSocketInv, NEW e \in Event, Broadcast(e)
  PROVE  LogInv' /\ WebSocketInv'
<1> DEFINE n == Len(published)
<1> USE DEF WebSocketInv
<1>1. /\ published' = Append(published, e)
      /\ UNCHANGED <<clients, userIndex, send, sendClosed, subscribed, conn, reader, writer, asked,
                     received>>
      /\ broadcast' = IF Len(broadcast) < HubCap THEN Append(broadcast, n + 1) ELSE broadcast
  BY DEF Broadcast
<1>2. LogInv' /\ Len(published') = n + 1 /\ n \in Nat BY <1>1, PublishLog
<1>3. broadcast \in Seq(Nat) /\ Len(broadcast) <= HubCap /\ HubCap \in Nat
  BY HubAssumption DEF HubTypes
<1>4. \A l \in ToSet(broadcast) : l \in Nat /\ l < n + 1 BY <1>2 DEF BroadcastOK
<1>5. /\ broadcast' \in Seq(Nat) /\ Len(broadcast') <= HubCap /\ Sorted(broadcast')
      /\ ToSet(broadcast') \subseteq ToSet(broadcast) \cup {n + 1}
  <2>1. CASE Len(broadcast) < HubCap
    BY <1>1, <1>2, <1>3, <1>4, <2>1, AppendFacts, SortedAppend DEF BroadcastOK
  <2>2. CASE ~(Len(broadcast) < HubCap) BY <1>1, <1>3, <2>2 DEF BroadcastOK
  <2> QED BY <2>1, <2>2
<1>6. \A k : \A c \in Conns : For(c, k) => For(c, k)' BY <1>1, ForKept
<1>7. HubTypes' BY <1>1, <1>5 DEF HubTypes
<1>8. ClientsOK' BY <1>1 DEF ClientsOK
<1>9. IndexMatches' BY <1>1, IndexKept
<1>10. \A c \in Conns : Sent(c)' = Sent(c) BY <1>1 DEF Sent
<1>11. \A c \in Conns : \A k \in ToSet(received[c]) \cup Sent(c) : k \in Nat /\ k < n + 1
  BY <1>2, SentPublished
<1>12. BroadcastOK'
  <2>1. \A l \in ToSet(broadcast') : l \in 1..(n + 1) BY <1>2, <1>5 DEF BroadcastOK
  <2>2. \A c \in Conns : \A k \in ToSet(received[c]) \cup Sent(c), l \in ToSet(broadcast') : k < l
    BY <1>5, <1>11 DEF BroadcastOK
  <2> QED BY <1>1, <1>2, <1>5, <1>10, <2>1, <2>2 DEF BroadcastOK
<1>13. SendOK' BY <1>1, <1>6, <1>10 DEF SendOK
<1> QED BY <1>2, <1>7, <1>8, <1>9, <1>12, <1>13

LEMMA BroadcastEventStep ==
  ASSUME LogInv, WebSocketInv, broadcastEvent
  PROVE  LogInv' /\ WebSocketInv'
<1> USE DEF WebSocketInv
<1>1. PICK h : h = Head(broadcast) OBVIOUS
<1>2. /\ broadcast # <<>> /\ broadcast' = Tail(broadcast)
      /\ UNCHANGED <<clients, userIndex, sendClosed, subscribed, conn, reader, writer,
                     published, asked, received>>
      /\ send' = [c \in Conns |-> IF c \in Targets(published[h]) /\ Len(send[c]) < SendCap
                                  THEN Append(send[c], h) ELSE send[c]]
  BY <1>1 DEF broadcastEvent, logVars
<1>3. broadcast \in Seq(Nat) /\ Len(broadcast) <= HubCap /\ HubCap \in Nat /\ Sorted(broadcast)
  BY HubAssumption DEF HubTypes, BroadcastOK
<1>4. /\ h \in ToSet(broadcast) /\ h \in Nat /\ broadcast' \in Seq(Nat)
      /\ Len(broadcast') <= HubCap /\ ToSet(broadcast') \subseteq ToSet(broadcast)
  BY <1>1, <1>2, <1>3, TailFacts
<1>5. Sorted(broadcast') /\ \A l \in ToSet(broadcast') : l # Reply /\ h # Reply => h < l
  BY <1>1, <1>2, <1>3, SortedTail
<1>6. h \in 1..Len(published) /\ h # Reply /\ \A l \in ToSet(broadcast) : l # Reply
  BY <1>4 DEF BroadcastOK, Reply, LogInv
<1>7. \A l \in ToSet(broadcast') : h < l BY <1>4, <1>5, <1>6
<1>8. \A c \in Conns : \A k \in ToSet(received[c]) \cup Sent(c) : k < h BY <1>4 DEF BroadcastOK
<1>9. published[h] \in Event BY <1>6 DEF LogInv
<1>10. \A c \in Targets(published[h]) : c \in Conns /\ For(c, h)
  <2> SUFFICES ASSUME NEW c \in Targets(published[h]) PROVE c \in Conns /\ For(c, h) OBVIOUS
  <2>1. published[h].user \in Users BY <1>9 DEF Event
  <2>2. /\ c \in ToSet(userIndex[published[h].user]) /\ c \in clients
        /\ Covered(published[h], subscribed[c])
    BY DEF Targets
  <2>3. UserOf[c] = published[h].user BY <2>1, <2>2 DEF IndexMatches
  <2>4. c \in Conns BY <2>2 DEF HubTypes
  <2>5. subscribed[c] \subseteq asked[c] BY <2>4 DEF ClientsOK
  <2> QED BY <1>6, <2>2, <2>3, <2>4, <2>5 DEF For, Covered
<1>11. \A k : \A c \in Conns : For(c, k)' <=> For(c, k) BY <1>2 DEF For
<1>12. ASSUME NEW c \in Conns
       PROVE  /\ send'[c] \in Seq(Nat) /\ Len(send'[c]) <= SendCap /\ Sorted(send'[c])
              /\ send'[c] # send[c] => For(c, h)
              /\ ToSet(send'[c]) \subseteq ToSet(send[c]) \cup {h}
  <2>1. send[c] \in Seq(Nat) /\ Len(send[c]) <= SendCap /\ SendCap \in Nat /\ Sorted(send[c])
    BY HubAssumption DEF HubTypes, SendOK
  <2>2. CASE c \in Targets(published[h]) /\ Len(send[c]) < SendCap
    <3>1. send'[c] = Append(send[c], h) /\ For(c, h) BY <1>2, <1>10, <2>2
    <3>2. \A k \in ToSet(send[c]) : k # Reply /\ h # Reply => k < h BY <1>8 DEF Sent
    <3>3. Sorted(send'[c]) BY <1>4, <2>1, <3>1, <3>2, SortedAppend
    <3>4. /\ Append(send[c], h) \in Seq(Nat) /\ Len(Append(send[c], h)) = Len(send[c]) + 1
          /\ ToSet(Append(send[c], h)) = ToSet(send[c]) \cup {h}
      BY <1>4, <2>1, AppendFacts
    <3> QED BY <2>1, <2>2, <3>1, <3>3, <3>4
  <2>3. CASE ~(c \in Targets(published[h]) /\ Len(send[c]) < SendCap)
    <3>1. send'[c] = send[c] BY <1>2, <2>3
    <3> QED BY <2>1, <3>1
  <2> QED BY <2>2, <2>3
<1>13. send' \in [Conns -> Seq(Nat)] BY <1>2, <1>12
<1>14. HubTypes' BY <1>2, <1>4, <1>12, <1>13 DEF HubTypes
<1>15. ClientsOK' BY <1>2 DEF ClientsOK
<1>16. IndexMatches' BY <1>2, IndexKept
<1>17. \A c \in Conns : Sent(c)' \subseteq Sent(c) \cup {h} BY <1>12 DEF Sent
<1>18. BroadcastOK' BY <1>2, <1>4, <1>5, <1>7, <1>17 DEF BroadcastOK
<1>19. SendOK'
  <2> SUFFICES ASSUME NEW c \in Conns
               PROVE  /\ Sorted(send'[c]) /\ \A k \in Sent(c)' : For(c, k)'
                      /\ \A k \in ToSet(received'[c]), l \in Sent(c)' : k < l
    BY DEF SendOK
  <2>1. CASE send'[c] = send[c]
    <3>1. Sent(c)' = Sent(c) BY <2>1 DEF Sent
    <3> QED BY <1>2, <1>11, <2>1, <3>1 DEF SendOK
  <2>2. CASE send'[c] # send[c] BY <1>2, <1>8, <1>11, <1>12, <1>17, <2>2 DEF SendOK
  <2> QED BY <2>1, <2>2
<1>20. LogInv' BY <1>2 DEF LogInv
<1> QED BY <1>14, <1>15, <1>16, <1>18, <1>19, <1>20

LEMMA RegisterStep ==
  ASSUME LogInv, WebSocketInv, NEW c \in Conns, handleWebSocket(c)
  PROVE  LogInv' /\ WebSocketInv'
<1> USE DEF WebSocketInv
<1>1. /\ reader[c] = "none" /\ reader' = [reader EXCEPT ![c] = "greet"]
      /\ conn' = conn \cup {c} /\ clients' = clients \cup {c}
      /\ userIndex' = [userIndex EXCEPT ![UserOf[c]] = Append(@, c)]
      /\ UNCHANGED <<broadcast, send, sendClosed, subscribed, writer, logVars>>
  BY DEF handleWebSocket, runRegister
<1>2. LogInv' /\ BroadcastOK' /\ SendOK' BY <1>1, SendKept
<1>3. UserOf[c] \in Users /\ c \notin clients BY <1>1, EventAssumption DEF ClientsOK
<1>4. userIndex[UserOf[c]] \in Seq(Conns) /\ IsInjective(userIndex[UserOf[c]])
  BY <1>3 DEF HubTypes, IndexMatches
<1>5. /\ userIndex'[UserOf[c]] = Append(userIndex[UserOf[c]], c)
      /\ \A u \in Users \ {UserOf[c]} : userIndex'[u] = userIndex[u]
  BY <1>1, <1>3 DEF HubTypes
<1>6. c \notin ToSet(userIndex[UserOf[c]]) BY <1>3 DEF IndexMatches
<1>7. /\ userIndex'[UserOf[c]] \in Seq(Conns) /\ IsInjective(userIndex'[UserOf[c]])
      /\ ToSet(userIndex'[UserOf[c]]) = ToSet(userIndex[UserOf[c]]) \cup {c}
  BY <1>4, <1>5, <1>6, AppendFacts, InjectiveAppend
<1>8. userIndex' \in [Users -> Seq(Conns)] BY <1>1, <1>5, <1>7 DEF HubTypes
<1>9. HubTypes' BY <1>1, <1>8 DEF HubTypes
<1>10. UNCHANGED asked BY <1>1 DEF logVars
<1>11. ClientsOK' BY <1>1, <1>10 DEF ClientsOK, HubTypes
<1>12. IndexMatches'
  <2> SUFFICES ASSUME NEW u \in Users
               PROVE  /\ ToSet(userIndex'[u]) = {d \in clients' : UserOf[d] = u}
                      /\ IsInjective(userIndex'[u])
    BY DEF IndexMatches
  <2>1. CASE u = UserOf[c] BY <1>1, <1>7, <2>1 DEF IndexMatches
  <2>2. CASE u # UserOf[c] BY <1>1, <1>5, <2>2 DEF IndexMatches
  <2> QED BY <2>1, <2>2
<1> QED BY <1>2, <1>9, <1>11, <1>12

LEMMA UnregisterStep ==
  ASSUME LogInv, WebSocketInv, NEW c \in Conns, runUnregister(c)
  PROVE  LogInv' /\ WebSocketInv'
<1> USE DEF WebSocketInv
<1>1. /\ reader[c] = "unregister" /\ reader' = [reader EXCEPT ![c] = "close"]
      /\ clients' = clients \ {c} /\ sendClosed' = sendClosed \cup {c}
      /\ userIndex' = [userIndex EXCEPT ![UserOf[c]] = RemoveFirst(@, c)]
      /\ UNCHANGED <<broadcast, send, subscribed, conn, writer, logVars>>
  BY DEF runUnregister
<1>2. LogInv' /\ BroadcastOK' /\ SendOK' BY <1>1, SendKept
<1>3. UserOf[c] \in Users BY EventAssumption
<1>4. userIndex[UserOf[c]] \in Seq(Conns) /\ IsInjective(userIndex[UserOf[c]])
  BY <1>3 DEF HubTypes, IndexMatches
<1>5. /\ userIndex'[UserOf[c]] = RemoveFirst(userIndex[UserOf[c]], c)
      /\ \A u \in Users \ {UserOf[c]} : userIndex'[u] = userIndex[u]
  BY <1>1, <1>3 DEF HubTypes
<1>6. /\ userIndex'[UserOf[c]] \in Seq(Conns) /\ IsInjective(userIndex'[UserOf[c]])
      /\ ToSet(userIndex'[UserOf[c]]) = ToSet(userIndex[UserOf[c]]) \ {c}
  BY <1>4, <1>5, RemoveFirstFacts
<1>7. userIndex' \in [Users -> Seq(Conns)] BY <1>1, <1>5, <1>6 DEF HubTypes
<1>8. HubTypes' BY <1>1, <1>7 DEF HubTypes
<1>9. UNCHANGED asked BY <1>1 DEF logVars
<1>10. ClientsOK' BY <1>1, <1>9 DEF ClientsOK, HubTypes
<1>11. IndexMatches'
  <2> SUFFICES ASSUME NEW u \in Users
               PROVE  /\ ToSet(userIndex'[u]) = {d \in clients' : UserOf[d] = u}
                      /\ IsInjective(userIndex'[u])
    BY DEF IndexMatches
  <2>1. CASE u = UserOf[c] BY <1>1, <1>6, <2>1 DEF IndexMatches
  <2>2. CASE u # UserOf[c] BY <1>1, <1>5, <2>2 DEF IndexMatches
  <2> QED BY <2>1, <2>2
<1> QED BY <1>2, <1>8, <1>10, <1>11

(* Steps of a reader or of the network that leave log and channels alone.    *)
LEMMA QuietStep ==
  ASSUME LogInv, WebSocketInv, NEW c \in Conns,
         \/ handleMessage(c) \/ handleSyncRequest(c) \/ handleUnsubscribe(c)
         \/ readFails(c) \/ readPumpEnds(c) \/ writeEnds(c) \/ disconnect(c) \/ upgradeFails(c)
  PROVE  LogInv' /\ WebSocketInv'
<1> USE DEF WebSocketInv
<1>1. UNCHANGED <<logVars, broadcast, send, clients, userIndex, sendClosed>>
  BY DEF handleMessage, handleSyncRequest, handleUnsubscribe, readFails, readPumpEnds, writeEnds, disconnect, upgradeFails
<1>2. LogInv' /\ BroadcastOK' /\ SendOK' BY <1>1, SendKept
<1>3. IndexMatches' BY <1>1, IndexKept
<1>4. UNCHANGED asked BY <1>1 DEF logVars
<1>5. conn' \subseteq Conns
  BY DEF HubTypes, handleMessage, handleSyncRequest, handleUnsubscribe, readFails, readPumpEnds,
         writeEnds, disconnect, upgradeFails
<1>6. \/ UNCHANGED subscribed
      \/ \E t \in Topics : subscribed' = [subscribed EXCEPT ![c] = @ \ {t}]
  BY DEF handleMessage, handleSyncRequest, handleUnsubscribe, readFails, readPumpEnds, writeEnds, disconnect, upgradeFails
<1>7. \/ UNCHANGED <<reader, writer>>
      \/ reader[c] = "read" /\ reader' = [reader EXCEPT ![c] = "reply"] /\ UNCHANGED writer
      \/ reader[c] = "read" /\ reader' = [reader EXCEPT ![c] = "unregister"] /\ UNCHANGED writer
      \/ reader[c] \in {"none", "close"} /\ reader' = [reader EXCEPT ![c] = "done"] /\ UNCHANGED writer
      \/ writer[c] = "on" /\ writer' = [writer EXCEPT ![c] = "off"] /\ UNCHANGED reader
  BY DEF handleMessage, handleSyncRequest, handleUnsubscribe, HasMessage, Answer, readFails,
         readPumpEnds, writeEnds, disconnect, upgradeFails
<1>8. subscribed' \in [Conns -> SUBSET Topics] /\ \A d \in Conns : subscribed'[d] \subseteq subscribed[d]
  BY <1>6 DEF HubTypes
<1>9. /\ reader' \in [Conns -> {"none", "greet", "read", "reply", "unregister", "close", "done"}]
      /\ writer' \in [Conns -> {"none", "on", "off"}]
      /\ \A d \in Conns \ {c} : reader'[d] = reader[d] /\ writer'[d] = writer[d]
      /\ \/ reader'[c] = reader[c] /\ writer'[c] = writer[c]
         \/ reader[c] = "read" /\ reader'[c] \in {"reply", "unregister"} /\ writer'[c] = writer[c]
         \/ reader[c] \in {"none", "close"} /\ reader'[c] = "done" /\ writer'[c] = writer[c]
         \/ writer[c] = "on" /\ writer'[c] = "off" /\ reader'[c] = reader[c]
  BY <1>7 DEF HubTypes
<1>10. HubTypes' BY <1>1, <1>5, <1>8, <1>9 DEF HubTypes
<1>11. ClientsOK' BY <1>1, <1>4, <1>8, <1>9 DEF ClientsOK, HubTypes
<1> QED BY <1>2, <1>3, <1>10, <1>11

LEMMA HandleSubscribeStep ==
  ASSUME LogInv, WebSocketInv, NEW c \in Conns, handleSubscribe(c)
  PROVE  /\ LogInv' /\ WebSocketInv'
         /\ \E t \in Topics : asked' = [asked EXCEPT ![c] = @ \cup {t}]
<1> USE DEF WebSocketInv
<1>1. PICK t \in Topics : /\ subscribed' = [subscribed EXCEPT ![c] = @ \cup {t}]
                          /\ asked' = [asked EXCEPT ![c] = @ \cup {t}]
  BY DEF handleSubscribe
<1>2. /\ reader[c] = "read" /\ reader' = [reader EXCEPT ![c] = "reply"]
      /\ UNCHANGED <<clients, userIndex, broadcast, send, sendClosed, conn, writer, published, received>>
  BY DEF handleSubscribe, HasMessage, Answer
<1>3. LogInv' BY <1>1, <1>2 DEF LogInv
<1>4. \A d \in Conns : asked[d] \subseteq asked'[d] BY <1>1 DEF LogInv
<1>5. \A k : \A d \in Conns : For(d, k) => For(d, k)' BY <1>2, <1>4, ForKept
<1>6. \A d \in Conns : Sent(d)' = Sent(d) BY <1>2 DEF Sent
<1>7. BroadcastOK' BY <1>2, <1>6 DEF BroadcastOK
<1>8. SendOK' BY <1>2, <1>5, <1>6 DEF SendOK
<1>9. IndexMatches' BY <1>2, IndexKept
<1>10. HubTypes' BY <1>1, <1>2 DEF HubTypes
<1>11. \A d \in Conns : subscribed'[d] \subseteq asked'[d] BY <1>1 DEF ClientsOK, HubTypes, LogInv
<1>12. ClientsOK' BY <1>2, <1>11 DEF ClientsOK, HubTypes
<1> QED BY <1>1, <1>3, <1>7, <1>8, <1>9, <1>10, <1>12

(* A blocking send of an answer.                                             *)
LEMMA AnswerStep ==
  ASSUME LogInv, WebSocketInv, NEW c \in Conns, sendAuthSuccess(c) \/ sendReply(c)
  PROVE  LogInv' /\ WebSocketInv'
<1> USE DEF WebSocketInv
<1>1. /\ Len(send[c]) < SendCap /\ send' = [send EXCEPT ![c] = Append(@, Reply)]
      /\ reader[c] \in {"greet", "reply"} /\ reader' = [reader EXCEPT ![c] = "read"]
      /\ UNCHANGED <<clients, userIndex, broadcast, sendClosed, subscribed, conn,
                     published, asked, received>>
      /\ UNCHANGED writer \/ writer' = [writer EXCEPT ![c] = "on"]
  BY DEF sendAuthSuccess, sendReply, BlockingSend, logVars
<1>2. send[c] \in Seq(Nat) /\ Len(send[c]) <= SendCap /\ SendCap \in Nat /\ Sorted(send[c])
  BY HubAssumption DEF HubTypes, SendOK
<1>3. Reply \in Nat BY DEF Reply
<1>4. send'[c] = Append(send[c], Reply) /\ \A d \in Conns \ {c} : send'[d] = send[d]
  BY <1>1 DEF HubTypes
<1>5. /\ Append(send[c], Reply) \in Seq(Nat) /\ Len(Append(send[c], Reply)) = Len(send[c]) + 1
      /\ ToSet(Append(send[c], Reply)) = ToSet(send[c]) \cup {Reply}
  BY <1>2, <1>3, AppendFacts
<1>6. Sorted(send'[c]) BY <1>2, <1>3, <1>4, SortedAppend
<1>7. \A d \in Conns : Sent(d)' = Sent(d) BY <1>4, <1>5 DEF Sent
<1>8. \A k : \A d \in Conns : For(d, k)' <=> For(d, k) BY <1>1 DEF For
<1>9. send' \in [Conns -> Seq(Nat)] BY <1>1, <1>4, <1>5 DEF HubTypes
<1>10. \A d \in Conns : Len(send'[d]) <= SendCap BY <1>1, <1>2, <1>4, <1>5 DEF HubTypes
<1>11. HubTypes' BY <1>1, <1>9, <1>10 DEF HubTypes
<1>12. ClientsOK' BY <1>1 DEF ClientsOK, HubTypes
<1>13. IndexMatches' BY <1>1, IndexKept
<1>14. BroadcastOK' BY <1>1, <1>7 DEF BroadcastOK
<1>15. SendOK' BY <1>1, <1>4, <1>6, <1>7, <1>8 DEF SendOK
<1>16. LogInv' BY <1>1 DEF LogInv
<1> QED BY <1>11, <1>12, <1>13, <1>14, <1>15, <1>16

LEMMA WriteStep ==
  ASSUME LogInv, WebSocketInv, NEW c \in Conns, writePump(c)
  PROVE  /\ LogInv' /\ WebSocketInv'
         /\ \/ UNCHANGED <<logVars, writer>>
            \/ UNCHANGED logVars /\ writer' = [writer EXCEPT ![c] = "off"]
            \/ /\ UNCHANGED writer
               /\ \E k \in Nat :
                    /\ For(c, k) /\ received' = [received EXCEPT ![c] = Append(@, k)]
                    /\ \A l \in ToSet(received[c]) : l < k
<1> USE DEF WebSocketInv
<1>1. PICK k : k = Head(send[c]) OBVIOUS
<1>2. /\ writer[c] = "on" /\ send[c] # <<>> /\ send' = [send EXCEPT ![c] = Tail(@)]
      /\ UNCHANGED <<clients, userIndex, broadcast, sendClosed, subscribed, reader, published, asked>>
  BY DEF writePump
<1>3. \/ UNCHANGED <<received, writer, conn>>
      \/ /\ k # Reply /\ received' = [received EXCEPT ![c] = Append(@, k)] /\ UNCHANGED <<writer, conn>>
      \/ writer' = [writer EXCEPT ![c] = "off"] /\ conn' = conn \ {c} /\ UNCHANGED received
  BY <1>1 DEF writePump
<1>4. send[c] \in Seq(Nat) /\ Len(send[c]) <= SendCap /\ SendCap \in Nat /\ Sorted(send[c])
  BY HubAssumption DEF HubTypes, SendOK
<1>5. send'[c] = Tail(send[c]) /\ \A d \in Conns \ {c} : send'[d] = send[d] BY <1>2 DEF HubTypes
<1>6. /\ k \in ToSet(send[c]) /\ k \in Nat /\ send'[c] \in Seq(Nat)
      /\ Len(send'[c]) <= SendCap /\ ToSet(send'[c]) \subseteq ToSet(send[c])
  BY <1>1, <1>2, <1>4, <1>5, TailFacts
<1>7. Sorted(send'[c]) /\ \A l \in ToSet(send'[c]) : l # Reply /\ k # Reply => k < l
  BY <1>1, <1>2, <1>4, <1>5, SortedTail
<1>8. k # Reply => k \in Sent(c) /\ For(c, k) /\ \A l \in ToSet(received[c]) : l < k
  BY <1>6 DEF SendOK, Sent
<1>9. \A d \in Conns : Sent(d)' \subseteq Sent(d) BY <1>5, <1>6 DEF Sent
<1>10. \A l : \A d \in Conns : For(d, l)' <=> For(d, l) BY <1>2 DEF For
<1>11. /\ LogInv' /\ \A d \in Conns \ {c} : received'[d] = received[d]
       /\ \/ received'[c] = received[c]
          \/ k # Reply /\ ToSet(received'[c]) = ToSet(received[c]) \cup {k}
  <2>1. CASE UNCHANGED received BY <1>2, <2>1 DEF LogInv
  <2>2. CASE k # Reply /\ received' = [received EXCEPT ![c] = Append(@, k)]
    BY <1>2, <1>8, <2>2, ReceiveLog
  <2> QED BY <1>3, <2>1, <2>2
<1>12. send' \in [Conns -> Seq(Nat)] BY <1>2, <1>5, <1>6 DEF HubTypes
<1>13. \A d \in Conns : Len(send'[d]) <= SendCap BY <1>5, <1>6 DEF HubTypes
<1>14. HubTypes' BY <1>2, <1>3, <1>12, <1>13 DEF HubTypes
<1>15. ClientsOK' BY <1>2, <1>3 DEF ClientsOK, HubTypes
<1>16. IndexMatches' BY <1>2, IndexKept
<1>17. BroadcastOK'
  <2>1. \A d \in Conns : ToSet(received'[d]) \cup Sent(d)' \subseteq ToSet(received[d]) \cup Sent(d)
    BY <1>8, <1>9, <1>11
  <2> QED BY <1>2, <2>1 DEF BroadcastOK
<1>18. SendOK'
  <2> SUFFICES ASSUME NEW d \in Conns
               PROVE  /\ Sorted(send'[d]) /\ \A l \in Sent(d)' : For(d, l)'
                      /\ \A m \in ToSet(received'[d]), l \in Sent(d)' : m < l
    BY DEF SendOK
  <2>1. CASE d = c
    <3>1. \A l \in Sent(c)' : k # Reply => k < l BY <1>7 DEF Sent
    <3> QED BY <1>7, <1>8, <1>9, <1>10, <1>11, <2>1, <3>1 DEF SendOK
  <2>2. CASE d # c BY <1>5, <1>9, <1>10, <1>11, <2>2 DEF SendOK
  <2> QED BY <2>1, <2>2
<1>19. UNCHANGED received => UNCHANGED logVars BY <1>2 DEF logVars
<1> QED BY <1>3, <1>6, <1>8, <1>11, <1>14, <1>15, <1>16, <1>17, <1>18, <1>19

LEMMA WebSocketStep == ASSUME LogInv, WebSocketInv, HubNext PROVE LogInv' /\ WebSocketInv'
<1>1. CASE Broadcasts
  <2>1. PICK e \in Kinds : Broadcast(e) BY <1>1 DEF Broadcasts, BroadcastToUser, BroadcastFileEvent
  <2>2. e \in Event BY EventAssumption
  <2> QED BY <2>1, <2>2, BroadcastStep
<1>2. CASE run BY <1>2, BroadcastEventStep, UnregisterStep DEF run
<1>3. ASSUME NEW c \in Conns,
             \/ handleWebSocket(c) \/ sendAuthSuccess(c) \/ handleMessage(c) \/ handleSyncRequest(c)
             \/ handleSubscribe(c) \/ handleUnsubscribe(c) \/ sendReply(c) \/ readFails(c)
             \/ readPumpEnds(c) \/ writePump(c) \/ writeEnds(c) \/ disconnect(c) \/ upgradeFails(c)
      PROVE  LogInv' /\ WebSocketInv'
  BY <1>3, RegisterStep, AnswerStep, QuietStep, HandleSubscribeStep, WriteStep
<1> QED BY <1>1, <1>2, <1>3 DEF HubNext

-----------------------------------------------------------------------------
(* The server.                                                              *)

LEMMA HubStart == Init => HubIInv
<1> SUFFICES ASSUME Init PROVE HubIInv OBVIOUS
<1>1. LogInit /\ NotifierInit /\ HubInit /\ NewRateLimitMiddleware /\ service \in {"sse", "ws", "limiter"}
  BY DEF Init
<1>2. LogInv
  <2>1. ToSet(<<>>) = {} BY DEF ToSet
  <2> QED BY <1>1, <2>1 DEF LogInit, LogInv
<1> QED BY <1>1, <1>2, LimiterStart, NotifierStart, WebSocketStart DEF HubIInv

LEMMA Kept ==
  ASSUME LogInv, UNCHANGED logVars
  PROVE  /\ LogInv'
         /\ UNCHANGED notifierVars => (NotifierInit' <=> NotifierInit) /\ (NotifierInv => NotifierInv')
         /\ UNCHANGED hubVars => (HubInit' <=> HubInit) /\ (WebSocketInv => WebSocketInv')
<1>1. LogInv' BY DEF LogInv, logVars
<1>2. ASSUME UNCHANGED notifierVars PROVE (NotifierInit' <=> NotifierInit) /\ (NotifierInv => NotifierInv')
  <2>1. UNCHANGED <<up, stop, eventChan, loop, subscribers, folderIDs, closed, events, request>>
    BY <1>2 DEF notifierVars, loopVars, subVars
  <2>2. NotifierInit' <=> NotifierInit BY <2>1 DEF NotifierInit
  <2>3. ASSUME NotifierInv PROVE NotifierInv'
    <3>1. ChanOK' /\ LoopOK' /\ EventsOK' BY <2>1, <2>3, ChannelsKept
    <3>2. NotifierTypes' BY <2>1, <2>3 DEF NotifierTypes, NotifierInv
    <3>3. RequestsOK' BY <2>1, <2>3 DEF RequestsOK, NotifierInv, logVars
    <3> QED BY <3>1, <3>2, <3>3 DEF NotifierInv
  <2> QED BY <2>2, <2>3
<1>3. ASSUME UNCHANGED hubVars PROVE (HubInit' <=> HubInit) /\ (WebSocketInv => WebSocketInv')
  <2>1. UNCHANGED <<clients, userIndex, broadcast, send, sendClosed, subscribed, conn, reader,
                    writer, replies>>
    BY <1>3 DEF hubVars
  <2>2. HubInit' <=> HubInit BY <2>1 DEF HubInit
  <2>3. ASSUME WebSocketInv PROVE WebSocketInv'
    <3>1. BroadcastOK' /\ SendOK' BY <2>1, <2>3, SendKept
    <3>2. HubTypes' BY <2>1, <2>3 DEF HubTypes, WebSocketInv
    <3>3. ClientsOK' BY <2>1, <2>3 DEF ClientsOK, WebSocketInv, logVars
    <3>4. IndexMatches' BY <2>1, <2>3, IndexKept DEF WebSocketInv
    <3> QED BY <3>1, <3>2, <3>3, <3>4 DEF WebSocketInv
  <2> QED BY <2>2, <2>3
<1> QED BY <1>1, <1>2, <1>3

LEMMA HubStep == HubIInv /\ [Next]_hub => HubIInv'
<1> SUFFICES ASSUME HubIInv, [Next]_hub PROVE HubIInv' OBVIOUS
<1>1. CASE service = "sse" /\ NotifierNext /\ UNCHANGED <<service, hubVars, limiterVars>>
  <2>1. LogInv' /\ NotifierInv' BY <1>1, NotifierStep DEF HubIInv
  <2>2. LimiterInv' BY <1>1, LimiterStep DEF HubIInv
  <2>3. HubInit' BY <1>1 DEF HubIInv, HubInit, hubVars
  <2> QED BY <1>1, <2>1, <2>2, <2>3 DEF HubIInv
<1>2. CASE service = "ws" /\ HubNext /\ UNCHANGED <<service, notifierVars, limiterVars>>
  <2>1. LogInv' /\ WebSocketInv' BY <1>2, WebSocketStep DEF HubIInv
  <2>2. LimiterInv' BY <1>2, LimiterStep DEF HubIInv
  <2>3. NotifierInit' BY <1>2 DEF HubIInv, NotifierInit, notifierVars, loopVars, subVars
  <2> QED BY <1>2, <2>1, <2>2, <2>3 DEF HubIInv
<1>3. CASE service = "limiter" /\ LimiterNext /\ UNCHANGED <<service, logVars, notifierVars, hubVars>>
  <2>1. LimiterInv' BY <1>3, LimiterStep DEF HubIInv
  <2> QED BY <1>3, <2>1, Kept DEF HubIInv
<1>4. CASE UNCHANGED hub
  <2>1. UNCHANGED <<service, logVars, notifierVars, hubVars, limiterVars>> BY <1>4 DEF hub
  <2>2. LimiterInv' BY <2>1, LimiterStep DEF HubIInv
  <2> QED BY <2>1, <2>2, Kept DEF HubIInv
<1> QED BY <1>1, <1>2, <1>3, <1>4 DEF Next

LEMMA HubInvariant == Spec => []HubIInv
BY HubStart, HubStep, PTL DEF Spec

LEMMA NotifierImplies == ASSUME LogInv, NotifierInv PROVE NotifierTypeOK
<1> USE DEF NotifierInv
<1>1. up \in BOOLEAN /\ stop \in BOOLEAN BY DEF NotifierTypes
<1>2. DOMAIN eventChan = 1..Len(eventChan) /\ DOMAIN published = 1..Len(published)
  BY DEF NotifierTypes, LogInv
<1>3. Len(eventChan) <= EventCap /\ \A i \in DOMAIN eventChan : eventChan[i] \in DOMAIN published
  BY <1>2 DEF NotifierTypes, ChanOK, ToSet
<1>4. subscribers \subseteq Conns /\ closed \subseteq Conns \ subscribers BY DEF NotifierTypes, RequestsOK
<1>5. \A c \in Conns : Len(events[c]) <= SubCap /\ folderIDs[c] \subseteq asked[c]
  BY DEF NotifierTypes, RequestsOK
<1>6. loop.pc \in {"idle", "check", "send", "ended"} /\ loop.todo \subseteq Conns
  BY DEF NotifierTypes, LoopRec
<1>7. \A c \in Conns : request[c].pc \in {"none", "folder", "wait", "leave", "done"}
  BY DEF NotifierTypes, RequestRec
<1> QED BY <1>1, <1>3, <1>4, <1>5, <1>6, <1>7 DEF NotifierTypeOK

LEMMA WebSocketImplies == ASSUME LogInv, WebSocketInv PROVE HubTypeOK /\ IndexMatches /\ NoSendOnClosed
<1> USE DEF WebSocketInv
<1>1. DOMAIN broadcast = 1..Len(broadcast) /\ DOMAIN published = 1..Len(published)
  BY DEF HubTypes, LogInv
<1>2. Len(broadcast) <= HubCap /\ \A i \in DOMAIN broadcast : broadcast[i] \in DOMAIN published
  BY <1>1 DEF HubTypes, BroadcastOK, ToSet
<1>3. clients \subseteq Conns /\ sendClosed \subseteq Conns \ clients /\ conn \subseteq Conns
  BY DEF HubTypes, ClientsOK
<1>4. \A c \in Conns :
        /\ Len(send[c]) <= SendCap /\ subscribed[c] \subseteq asked[c]
        /\ reader[c] \in {"none", "greet", "read", "reply", "unregister", "close", "done"}
        /\ writer[c] \in {"none", "on", "off"}
  BY DEF HubTypes, ClientsOK
<1>5. NoSendOnClosed BY DEF NoSendOnClosed, ClientsOK
<1> QED BY <1>2, <1>3, <1>4, <1>5 DEF HubTypeOK

LEMMA HubImplies == HubIInv => HubInv
<1> SUFFICES ASSUME HubIInv PROVE HubInv OBVIOUS
<1>1. LogInv /\ LimiterInv /\ NotifierInv /\ WebSocketInv
  BY NotifierStart, WebSocketStart DEF HubIInv
<1>2. NotifierTypeOK /\ HubTypeOK /\ IndexMatches /\ NoSendOnClosed
  BY <1>1, NotifierImplies, WebSocketImplies
<1>3. LogTypeOK
  <2>1. DOMAIN published = 1..Len(published) BY <1>1 DEF LogInv
  <2>2. ASSUME NEW c \in Conns PROVE received[c] \in Seq(DOMAIN published)
    <3>1. \A i \in 1..Len(received[c]) : received[c][i] \in 1..Len(published)
      BY <1>1 DEF LogInv, ToSet
    <3>2. received[c] \in Seq(Nat) BY <1>1 DEF LogInv
    <3> QED BY <2>1, <3>1, <3>2
  <2> QED BY <1>1, <2>2 DEF LogInv, LogTypeOK
<1> QED BY <1>1, <1>2, <1>3 DEF HubInv, LimiterInv

(* However readers, writers, the hub's loop, publishers and leaving clients  *)
(* interleave: the hub's index of each user lists exactly his registered     *)
(* clients, each once; nobody can be about to send on a closed Send channel; *)
(* channels stay within their capacities; and in every window of time the    *)
(* limiter lets no client make more requests than the limit.                 *)
THEOREM HubCorrect == Spec => []HubInv
BY HubInvariant, HubImplies, PTL

LEMMA Delivered ==
  ASSUME LogInv, NEW c \in Conns, NEW k \in Nat, For(c, k),
         received' = [received EXCEPT ![c] = Append(@, k)], UNCHANGED <<published, asked>>,
         \A l \in ToSet(received[c]) : l < k,
         c \in subscribers \cup Pumping, UNCHANGED (subscribers \cup Pumping)
  PROVE  Feed!Deliver(c)
<1>1. k \in DOMAIN published /\ published[k].user = UserOf[c] /\ Covered(published[k], asked[c])
  BY DEF For, LogInv
<1>2. received[c] # <<>> => k > Last(received[c])
  <2> SUFFICES ASSUME received[c] # <<>> PROVE k > Last(received[c]) OBVIOUS
  <2>1. received[c] \in Seq(Nat) BY DEF LogInv
  <2>2. Last(received[c]) \in ToSet(received[c]) BY <2>1, LastIn
  <2>3. Last(received[c]) \in Nat BY <2>1, <2>2 DEF ToSet
  <2> QED BY <2>2, <2>3
<1>3. Feed!Covered(published[k], asked[c]) BY <1>1 DEF Covered, Feed!Covered
<1>4. \E n \in DOMAIN published :
        /\ published[n].user = UserOf[c] /\ Feed!Covered(published[n], asked[c])
        /\ received[c] # <<>> => n > Feed!Last(received[c])
        /\ received' = [received EXCEPT ![c] = Append(@, n)]
  <2>1. Feed!Last(received[c]) = Last(received[c]) BY DEF Last, Feed!Last
  <2>2. received[c] # <<>> => k > Feed!Last(received[c]) BY <1>2, <2>1
  <2> QED BY <1>1, <1>3, <2>2, Zenon
<1> QED BY <1>4 DEF Feed!Deliver

LEMMA NotifierRefines ==
  ASSUME LogInv, NotifierInv, HubInit, NotifierNext, UNCHANGED hubVars
  PROVE  Feed!Next \/ UNCHANGED <<logVars, subscribers \cup Pumping>>
<1> USE DEF NotifierInv
<1>1. Pumping = {} /\ Pumping' = {} BY DEF Pumping, HubInit, hubVars
<1>2. subscribers \cup Pumping = subscribers /\ (subscribers \cup Pumping)' = subscribers' BY <1>1
<1> HIDE DEF Pumping
<1>3. CASE Published
  <2>1. PICK e \in Kinds : Notify(e) BY <1>3 DEF Published, NotifyUser, NotifyFileChange
  <2>2. e \in Event BY EventAssumption
  <2>3. Feed!Publish BY <1>2, <2>1, <2>2 DEF Notify, subVars, Feed!Publish, Feed!Event, Event
  <2> QED BY <2>3 DEF Feed!Next
<1>4. CASE Close \/ Loop
  <2>1. UNCHANGED <<logVars, subscribers>>
    BY <1>4 DEF Close, Loop, eventLoop, CheckClosed, processEvent, subVars
  <2> QED BY <1>2, <2>1
<1>5. ASSUME NEW c \in Conns, Subscribe(c) PROVE Feed!Next
  <2>1. c \notin subscribers BY <1>5 DEF Subscribe, RequestsOK
  <2>2. Feed!Join(c) BY <1>2, <1>5, <2>1 DEF Subscribe, Feed!Join, logVars, Feed!logVars
  <2> QED BY <2>2 DEF Feed!Next
<1>6. ASSUME NEW c \in Conns, SubscribeFolder(c) PROVE Feed!Next
  <2>1. \E t \in Topics : asked' = [asked EXCEPT ![c] = @ \cup {t}] BY <1>6, SubscribeFolderStep
  <2>2. UNCHANGED <<published, received, subscribers>> BY <1>6 DEF SubscribeFolder
  <2>3. Feed!Ask(c) BY <1>2, <2>1, <2>2 DEF Feed!Ask, Feed!Topics, Topics
  <2> QED BY <2>3 DEF Feed!Next
<1>7. ASSUME NEW c \in Conns, HandleSSE(c) PROVE Feed!Next
  <2>1. c \in subscribers
    BY <1>7, HandleSSEStep
  <2>2. PICK k \in Nat : /\ For(c, k) /\ received' = [received EXCEPT ![c] = Append(@, k)]
                         /\ \A l \in ToSet(received[c]) : l < k
    BY <1>7, HandleSSEStep
  <2>3. UNCHANGED <<published, asked, subscribers>> BY <1>7 DEF HandleSSE
  <2>4. Feed!Deliver(c) BY <1>2, <2>1, <2>2, <2>3, Delivered
  <2> QED BY <2>4 DEF Feed!Next
<1>8. ASSUME NEW c \in Conns, HandleLongPoll(c) \/ StreamingUnsupported(c)
      PROVE  UNCHANGED <<logVars, subscribers>>
  BY <1>8 DEF HandleLongPoll, StreamingUnsupported
<1>9. ASSUME NEW c \in Conns, Unsubscribe(c) PROVE Feed!Next
  <2>1. c \in subscribers BY <1>9 DEF Unsubscribe, RequestsOK
  <2>2. Feed!Leave(c) BY <1>2, <1>9, <2>1 DEF Unsubscribe, Feed!Leave, logVars, Feed!logVars
  <2> QED BY <2>2 DEF Feed!Next
<1> QED BY <1>2, <1>3, <1>4, <1>5, <1>6, <1>7, <1>8, <1>9 DEF NotifierNext

LEMMA WebSocketRefines ==
  ASSUME LogInv, WebSocketInv, NotifierInit, HubNext, UNCHANGED notifierVars
  PROVE  Feed!Next \/ UNCHANGED <<logVars, subscribers \cup Pumping>>
<1> USE DEF WebSocketInv
<1>1. subscribers = {} /\ subscribers' = {} BY DEF NotifierInit, notifierVars, subVars
<1>2. subscribers \cup Pumping = Pumping /\ (subscribers \cup Pumping)' = Pumping' BY <1>1
<1>3. UNCHANGED writer => UNCHANGED Pumping BY DEF Pumping
<1>4. \A c \in Conns : c \in Pumping <=> writer[c] = "on" BY DEF Pumping
<1>5. \A c \in Conns : writer' = [writer EXCEPT ![c] = "on"] => Pumping' = Pumping \cup {c}
  BY DEF Pumping, HubTypes
<1>6. \A c \in Conns : writer' = [writer EXCEPT ![c] = "off"] => Pumping' = Pumping \ {c}
  BY DEF Pumping, HubTypes
<1>7. CASE Broadcasts
  <2>1. PICK e \in Kinds : Broadcast(e) BY <1>7 DEF Broadcasts, BroadcastToUser, BroadcastFileEvent
  <2>2. e \in Event BY EventAssumption
  <2>3. UNCHANGED <<writer, asked, received>> /\ published' = Append(published, e)
    BY <2>1 DEF Broadcast
  <2>4. Feed!Publish BY <1>2, <1>3, <2>2, <2>3 DEF Feed!Publish, Feed!Event, Event
  <2> QED BY <2>4 DEF Feed!Next
<1>8. CASE run
  <2>1. UNCHANGED <<logVars, writer>> BY <1>8 DEF run, broadcastEvent, runUnregister
  <2> QED BY <1>2, <1>3, <2>1
<1>9. ASSUME NEW c \in Conns,
             \/ handleWebSocket(c) \/ handleMessage(c) \/ handleSyncRequest(c) \/ handleUnsubscribe(c)
             \/ sendReply(c) \/ readFails(c) \/ readPumpEnds(c) \/ disconnect(c) \/ upgradeFails(c)
      PROVE  UNCHANGED <<logVars, subscribers \cup Pumping>>
  <2>1. UNCHANGED <<logVars, writer>>
    BY <1>9 DEF handleWebSocket, handleMessage, handleSyncRequest, handleUnsubscribe, sendReply,
                readFails, readPumpEnds, disconnect, upgradeFails
  <2> QED BY <1>2, <1>3, <2>1
<1>10. ASSUME NEW c \in Conns, sendAuthSuccess(c) PROVE Feed!Next
  <2>1. reader[c] = "greet" /\ writer' = [writer EXCEPT ![c] = "on"] /\ UNCHANGED logVars
    BY <1>10 DEF sendAuthSuccess
  <2>2. writer[c] = "none" BY <2>1 DEF ClientsOK
  <2>3. Feed!Join(c) BY <1>2, <1>4, <1>5, <2>1, <2>2 DEF Feed!Join, logVars, Feed!logVars
  <2> QED BY <2>3 DEF Feed!Next
<1>11. ASSUME NEW c \in Conns, handleSubscribe(c) PROVE Feed!Next
  <2>1. \E t \in Topics : asked' = [asked EXCEPT ![c] = @ \cup {t}] BY <1>11, HandleSubscribeStep
  <2>2. UNCHANGED <<published, received, writer>> BY <1>11 DEF handleSubscribe
  <2>3. Feed!Ask(c) BY <1>2, <1>3, <2>1, <2>2 DEF Feed!Ask, Feed!Topics, Topics
  <2> QED BY <2>3 DEF Feed!Next
<1>12. ASSUME NEW c \in Conns, UNCHANGED logVars, writer[c] = "on", writer' = [writer EXCEPT ![c] = "off"]
       PROVE  Feed!Next
  <2>1. Feed!Leave(c) BY <1>2, <1>4, <1>6, <1>12 DEF Feed!Leave, logVars, Feed!logVars
  <2> QED BY <2>1 DEF Feed!Next
<1>13. ASSUME NEW c \in Conns, writeEnds(c) PROVE Feed!Next BY <1>12, <1>13 DEF writeEnds
<1>14. ASSUME NEW c \in Conns, writePump(c)
       PROVE  Feed!Next \/ UNCHANGED <<logVars, subscribers \cup Pumping>>
  <2>1. writer[c] = "on" /\ UNCHANGED <<published, asked>> BY <1>14 DEF writePump
  <2>2. \/ UNCHANGED <<logVars, writer>>
        \/ UNCHANGED logVars /\ writer' = [writer EXCEPT ![c] = "off"]
        \/ /\ UNCHANGED writer
           /\ \E k \in Nat :
                /\ For(c, k) /\ received' = [received EXCEPT ![c] = Append(@, k)]
                /\ \A l \in ToSet(received[c]) : l < k
    BY <1>14, WriteStep
  <2>3. CASE UNCHANGED <<logVars, writer>> BY <1>2, <1>3, <2>3
  <2>4. CASE UNCHANGED logVars /\ writer' = [writer EXCEPT ![c] = "off"] BY <1>12, <2>1, <2>4
  <2>5. ASSUME UNCHANGED writer, NEW k \in Nat, For(c, k),
               received' = [received EXCEPT ![c] = Append(@, k)],
               \A l \in ToSet(received[c]) : l < k
        PROVE  Feed!Next
    <3>1. Feed!Deliver(c) BY <1>2, <1>3, <1>4, <2>1, <2>5, Delivered
    <3> QED BY <3>1 DEF Feed!Next
  <2> QED BY <2>2, <2>3, <2>4, <2>5
<1> QED BY <1>7, <1>8, <1>9, <1>10, <1>11, <1>13, <1>14 DEF HubNext

LEMMA FeedStart == Init => Feed!Init
<1> SUFFICES ASSUME Init PROVE Feed!Init OBVIOUS
<1>1. LogInit /\ NotifierInit /\ HubInit BY DEF Init
<1>2. subscribers \cup Pumping = {} BY <1>1 DEF NotifierInit, HubInit, Pumping
<1> QED BY <1>1, <1>2 DEF Feed!Init, Feed!LogInit, LogInit

LEMMA FeedStep == HubIInv /\ [Next]_hub => [Feed!Next]_<<logVars, subscribers \cup Pumping>>
<1> SUFFICES ASSUME HubIInv, [Next]_hub
             PROVE  Feed!Next \/ UNCHANGED <<logVars, subscribers \cup Pumping>>
  OBVIOUS
<1>1. CASE service = "sse" /\ NotifierNext /\ UNCHANGED <<service, hubVars, limiterVars>>
  BY <1>1, NotifierRefines DEF HubIInv
<1>2. CASE service = "ws" /\ HubNext /\ UNCHANGED <<service, notifierVars, limiterVars>>
  BY <1>2, WebSocketRefines DEF HubIInv
<1>3. ASSUME UNCHANGED <<logVars, notifierVars, hubVars>>
      PROVE  UNCHANGED <<logVars, subscribers \cup Pumping>>
  <2>1. UNCHANGED <<subscribers, writer>> BY <1>3 DEF notifierVars, subVars, hubVars
  <2>2. UNCHANGED Pumping BY <2>1 DEF Pumping
  <2> QED BY <1>3, <2>1, <2>2
<1>4. CASE service = "limiter" /\ LimiterNext /\ UNCHANGED <<service, logVars, notifierVars, hubVars>>
  BY <1>3, <1>4
<1>5. CASE UNCHANGED hub BY <1>3, <1>5 DEF hub
<1> QED BY <1>1, <1>2, <1>4, <1>5 DEF Next

(* The server's two event services implement the abstract feed Broadcast:    *)
(* whatever is dropped at full channels, whoever comes, subscribes and       *)
(* leaves when, no client gets an event of another user or of a folder it    *)
(* never asked for, none twice, none out of the order of publication, and    *)
(* none when it is not served.                                               *)
THEOREM FeedImplemented == Spec => DeliversInOrder
<1>1. UNCHANGED <<logVars, subscribers \cup Pumping>> <=> UNCHANGED <<Feed!logVars, subscribers \cup Pumping>>
  BY DEF logVars, Feed!logVars
<1>2. HubIInv /\ [Next]_hub => [Feed!Next]_<<Feed!logVars, subscribers \cup Pumping>>
  BY <1>1, FeedStep
<1> QED BY <1>2, FeedStart, HubInvariant, PTL DEF Spec, DeliversInOrder, Feed!Spec
=============================================================================
