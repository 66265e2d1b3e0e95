------------------------------ MODULE Broadcast -------------------------------
(***************************************************************************)
(* What an event service promises: it may lose events, but a connection    *)
(* gets only events of its own user in folders it asked for, each at most  *)
(* once, in the order of publication, and none when it is not served.      *)
(***************************************************************************)
EXTENDS EventLog

VARIABLE open  \* connections being served

Init == LogInit /\ open = {}

Publish ==
  /\ \E e \in Event : published' = Append(published, e)
  /\ UNCHANGED <<asked, received, open>>

Join(c) ==
  /\ c \notin open /\ open' = open \cup {c}
  /\ UNCHANGED logVars

Leave(c) ==
  /\ c \in open /\ open' = open \ {c}
  /\ UNCHANGED logVars

Ask(c) ==
  /\ \E t \in Topics : asked' = [asked EXCEPT ![c] = @ \cup {t}]
  /\ UNCHANGED <<published, received, open>>

Deliver(c) ==
  /\ c \in open
  /\ \E k \in DOMAIN published :
       /\ published[k].user = UserOf[c] /\ Covered(published[k], asked[c])
       /\ received[c] # <<>> => k > Last(received[c])
       /\ received' = [received EXCEPT ![c] = Append(@, k)]
  /\ UNCHANGED <<published, asked, open>>

Next == Publish \/ \E c \in Conns : Join(c) \/ Leave(c) \/ Ask(c) \/ Deliver(c)

Spec == Init /\ [][Next]_<<logVars, open>>
=============================================================================
