----------------------------- MODULE VectorClock -----------------------------
(***************************************************************************)
(* Vector clocks of the sync engine (sync/vector.go).  The Go type is a    *)
(* map from device ids to counters; here a clock is a function whose       *)
(* domain is the set of the devices the map has an entry for.              *)
(***************************************************************************)
EXTENDS Naturals

CONSTANTS Devices

Clocks(S) == UNION {[D -> S] : D \in SUBSET Devices}

NewVectorClock == [d \in {} |-> 0]

(* A device without an entry reads as 0.                                     *)
Get(v, d) == IF d \in DOMAIN v THEN v[d] ELSE 0

Increment(v, d) == [e \in DOMAIN v \cup {d} |-> IF e = d THEN Get(v, d) + 1 ELSE v[e]]

(* Mutant: only devices this clock already knows are merged.                 *)
MergeKnown(v, other) ==
  [d \in DOMAIN v |-> IF Get(other, d) > v[d] THEN other[d] ELSE v[d]]

(* Entries of other that are larger are taken over; an entry of 0 adds none. *)
Merge(v, other) ==
  [d \in DOMAIN v \cup {e \in DOMAIN other : other[e] > 0} |->
     IF Get(other, d) > Get(v, d) THEN other[d] ELSE Get(v, d)]

Compare(v, other) ==
  LET superset == \E d \in DOMAIN v : v[d] > Get(other, d)
      subset == \/ \E d \in DOMAIN v : v[d] < Get(other, d)
                \/ \E d \in DOMAIN other \ DOMAIN v : other[d] > 0
  IN  CASE ~superset /\ ~subset -> "Equal"
        [] superset /\ ~subset -> "After"
        [] ~superset /\ subset -> "Before"
        [] OTHER -> "Concurrent"

HappenedBefore(v, other) == Compare(v, other) = "Before"

(* The order of causality: v has seen nothing that w has not.                *)
Seen(v, w) == \A d \in Devices : Get(v, d) <= Get(w, d)

(* What Compare has to answer.                                               *)
Causality(v, w) ==
  CASE Seen(v, w) /\ Seen(w, v) -> "Equal"
    [] Seen(w, v) /\ ~Seen(v, w) -> "After"
    [] Seen(v, w) /\ ~Seen(w, v) -> "Before"
    [] OTHER -> "Concurrent"
=============================================================================
