---------------------------- MODULE StorageProofs -----------------------------
(***************************************************************************)
(* Proofs about the layers of Storage, for any number of callers, keys,    *)
(* blocks and handles.                                                     *)
(***************************************************************************)
EXTENDS Storage, FiniteSetTheorems, TLAPS

(***************************************************************************)
(* The circuit breaker.                                                    *)
(***************************************************************************)

(* What a caller holds where it is.                                          *)
CallsOK ==
  \A c \in Callers :
    /\ pc[c] = "attempt" => tries[c] <= MaxRetries
    /\ pc[c] \in {"idle", "acquire"} => tries[c] = 0 /\ ~slot[c]
    /\ pc[c] = "release" => slot[c]

(* TypeOK in two parts.                                                      *)
Places == {"idle", "acquire", "attempt", "running", "record", "release"}

BreakerTypes ==
  /\ state \in {"closed", "open", "half-open"}
  /\ failures \in 0 .. (Modulus - 1)
  /\ halfOpenCalls \in 0 .. (Modulus - 1)
  /\ cooled \in BOOLEAN

CallTypes ==
  /\ pc \in [Callers -> Places]
  /\ slot \in [Callers -> BOOLEAN]
  /\ tries \in [Callers -> 0 .. (MaxRetries + 1)]
  /\ ok \in [Callers -> BOOLEAN]

BreakerIInv == BreakerTypes /\ CallTypes /\ CallsOK /\ ClosedBelowLimit

(* uint32 arithmetic where it does not wrap.                                 *)
LEMMA NoWrap ==
  /\ \A n \in Nat : n < Modulus => n % Modulus = n
  /\ \A n \in Nat : n % Modulus \in 0 .. (Modulus - 1)
<1> Modulus \in Nat /\ Modulus > 0 BY BreakerAssumption
<1> QED OBVIOUS

LEMMA BreakerInit == Init => BreakerIInv
<1> SUFFICES ASSUME Init PROVE BreakerIInv OBVIOUS
<1> USE BreakerAssumption DEF Init
<1>1. slot \in [Callers -> BOOLEAN] OBVIOUS
<1>2. ok \in [Callers -> BOOLEAN] OBVIOUS
<1>3. tries \in [Callers -> 0 .. (MaxRetries + 1)] OBVIOUS
<1>4. BreakerTypes
  <2>1. cooled \in BOOLEAN OBVIOUS
  <2> QED BY <2>1 DEF BreakerTypes
<1>5. CallTypes BY <1>1, <1>2, <1>3 DEF CallTypes, Places
<1>6. CallsOK BY DEF CallsOK
<1>7. ClosedBelowLimit BY DEF ClosedBelowLimit
<1> QED BY <1>4, <1>5, <1>6, <1>7 DEF BreakerIInv

LEMMA BreakerStep == BreakerIInv /\ [Next]_vars => BreakerIInv'
<1> SUFFICES ASSUME BreakerIInv, [Next]_vars PROVE BreakerIInv' OBVIOUS
<1> USE BreakerAssumption, NoWrap DEF BreakerIInv, BreakerTypes, CallTypes, Places, CallsOK,
    ClosedBelowLimit, Goto
<1>1. ASSUME NEW c \in Callers, CurrentState(c) PROVE BreakerIInv'
  <2> USE <1>1 DEF CurrentState
  <2>1. BreakerTypes' OBVIOUS
  <2>2. (pc \in [Callers -> Places])' OBVIOUS
  <2>3. (slot \in [Callers -> BOOLEAN])' OBVIOUS
  <2>4. (tries \in [Callers -> 0 .. (MaxRetries + 1)])' OBVIOUS
  <2>5. (ok \in [Callers -> BOOLEAN])' OBVIOUS
  <2>6. CallsOK' OBVIOUS
  <2>7. ClosedBelowLimit' OBVIOUS
  <2> QED BY <2>1, <2>2, <2>3, <2>4, <2>5, <2>6, <2>7
<1>2. ASSUME NEW c \in Callers, AcquireHalfOpenSlot(c) PROVE BreakerIInv'
  <2> USE <1>2 DEF AcquireHalfOpenSlot, SlotFree, Return
  <2>1. BreakerTypes' OBVIOUS
  <2>2. (pc \in [Callers -> Places])' OBVIOUS
  <2>3. (slot \in [Callers -> BOOLEAN])' OBVIOUS
  <2>4. (tries \in [Callers -> 0 .. (MaxRetries + 1)])' OBVIOUS
  <2>5. (ok \in [Callers -> BOOLEAN])' OBVIOUS
  <2>6. CallsOK' OBVIOUS
  <2>7. ClosedBelowLimit' OBVIOUS
  <2> QED BY <2>1, <2>2, <2>3, <2>4, <2>5, <2>6, <2>7
<1>3. ASSUME NEW c \in Callers, ReleaseHalfOpenSlot(c) PROVE BreakerIInv'
  <2> USE <1>3 DEF ReleaseHalfOpenSlot, Return
  <2>1. BreakerTypes' OBVIOUS
  <2>2. (pc \in [Callers -> Places])' OBVIOUS
  <2>3. (slot \in [Callers -> BOOLEAN])' OBVIOUS
  <2>4. (tries \in [Callers -> 0 .. (MaxRetries + 1)])' OBVIOUS
  <2>5. (ok \in [Callers -> BOOLEAN])' OBVIOUS
  <2>6. CallsOK' OBVIOUS
  <2>7. ClosedBelowLimit' OBVIOUS
  <2> QED BY <2>1, <2>2, <2>3, <2>4, <2>5, <2>6, <2>7
<1>4. ASSUME NEW c \in Callers, StartAttempt(c) PROVE BreakerIInv'
  <2> USE <1>4 DEF StartAttempt, breaker
  <2>1. BreakerTypes' OBVIOUS
  <2>2. (pc \in [Callers -> Places])' OBVIOUS
  <2>3. (slot \in [Callers -> BOOLEAN])' OBVIOUS
  <2>4. (tries \in [Callers -> 0 .. (MaxRetries + 1)])' OBVIOUS
  <2>5. (ok \in [Callers -> BOOLEAN])' OBVIOUS
  <2>6. CallsOK' OBVIOUS
  <2>7. ClosedBelowLimit' OBVIOUS
  <2> QED BY <2>1, <2>2, <2>3, <2>4, <2>5, <2>6, <2>7
<1>5. ASSUME NEW c \in Callers, Answer(c) \/ AttemptTimeout(c) \/ Cancelled(c) PROVE BreakerIInv'
  <2> USE <1>5 DEF Answer, AttemptTimeout, Cancelled, TryAgain, breaker
  <2>1. BreakerTypes' OBVIOUS
  <2>2. (pc \in [Callers -> Places])' OBVIOUS
  <2>3. (slot \in [Callers -> BOOLEAN])' OBVIOUS
  <2>4. (tries \in [Callers -> 0 .. (MaxRetries + 1)])' OBVIOUS
  <2>5. (ok \in [Callers -> BOOLEAN])' OBVIOUS
  <2>6. CallsOK' OBVIOUS
  <2>7. ClosedBelowLimit' OBVIOUS
  <2> QED BY <2>1, <2>2, <2>3, <2>4, <2>5, <2>6, <2>7
<1>6. ASSUME NEW c \in Callers, RecordSuccess(c) PROVE BreakerIInv'
  <2> USE <1>6 DEF RecordSuccess, ReturnFrom
  <2>1. BreakerTypes' OBVIOUS
  <2>2. (pc \in [Callers -> Places])' OBVIOUS
  <2>3. (slot \in [Callers -> BOOLEAN])' OBVIOUS
  <2>4. (tries \in [Callers -> 0 .. (MaxRetries + 1)])' OBVIOUS
  <2>5. (ok \in [Callers -> BOOLEAN])' OBVIOUS
  <2>6. CallsOK' OBVIOUS
  <2>7. ClosedBelowLimit' OBVIOUS
  <2> QED BY <2>1, <2>2, <2>3, <2>4, <2>5, <2>6, <2>7
<1>7. ASSUME NEW c \in Callers, RecordFailure(c) PROVE BreakerIInv'
  <2> USE <1>7 DEF RecordFailure, ReturnFrom, TooMany
  <2>8. (cooled \in BOOLEAN)' OBVIOUS
  <2>9. (state \in {"closed", "open", "half-open"})' OBVIOUS
  <2>10. (failures \in 0 .. (Modulus - 1))' OBVIOUS
  <2>11. (halfOpenCalls \in 0 .. (Modulus - 1))' OBVIOUS
  <2>1. BreakerTypes' BY <2>8, <2>9, <2>10, <2>11
  <2>2. (pc \in [Callers -> Places])' OBVIOUS
  <2>3. (slot \in [Callers -> BOOLEAN])' OBVIOUS
  <2>4. (tries \in [Callers -> 0 .. (MaxRetries + 1)])' OBVIOUS
  <2>5. (ok \in [Callers -> BOOLEAN])' OBVIOUS
  <2>6. CallsOK' OBVIOUS
  <2>7. ClosedBelowLimit' OBVIOUS
  <2> QED BY <2>1, <2>2, <2>3, <2>4, <2>5, <2>6, <2>7
<1>8. CASE Cool BY <1>8 DEF Cool, call
<1>9. CASE UNCHANGED vars BY <1>9 DEF vars, breaker, call
<1> QED BY <1>1, <1>2, <1>3, <1>4, <1>5, <1>6, <1>7, <1>8, <1>9 DEF Next

(* Every behaviour of Storage is one of the breaker.                         *)
LEMMA BreakerBehaves == StorageSpec => Spec
<1>1. NewBackend => Init BY DEF NewBackend
<1>2. [StorageNext]_storage => [Next]_vars BY DEF StorageNext, storage
<1> QED BY <1>1, <1>2, PTL DEF StorageSpec, Spec

(* The circuit is never closed with MaxFailures counted, whatever the        *)
(* interleaving of calls that began closed, half-open or open                *)
(* (breaker.go, recordFailure and recordSuccess).                            *)
THEOREM BreakerCorrect == StorageSpec => []BreakerInv
<1>1. BreakerIInv => BreakerInv
  BY DEF BreakerIInv, BreakerTypes, CallTypes, Places, BreakerInv, TypeOK
<1> QED BY <1>1, BreakerInit, BreakerStep, BreakerBehaves, PTL DEF Spec

(***************************************************************************)
(* The local backend.                                                      *)
(***************************************************************************)

Fills == {"none", "part", "whole"}
Op == [pc : {"idle", "open", "write", "rename", "cleanup", "rmdir"}, key : Keys \cup {"none"},
       fd : {"none", "tmp", "blob", "gone"}, clean : BOOLEAN]

LocalTypes ==
  /\ dir \in BOOLEAN /\ kept \subseteq Keys /\ spoiled \subseteq Keys
  /\ tmp \in [Keys -> Fills] /\ blob \in [Keys -> Fills]
  /\ io \in [Ops -> Op]
  /\ \A c \in Ops : io[c].pc \in {"open", "write", "rename", "cleanup"} => io[c].key \in Keys

(* A call of key k that writes or is to rename.                              *)
Writing(c, k) == io[c].key = k /\ io[c].pc = "write"
Active(c, k) == io[c].key = k /\ io[c].pc \in {"write", "rename"}

(* A file that is open is there, and a file that is there is in a directory. *)
OpenFiles ==
  /\ \A c \in Ops, k \in Keys : io[c].key = k /\ io[c].fd = "tmp" => tmp[k] # "none"
  /\ \A c \in Ops, k \in Keys : io[c].key = k /\ io[c].fd = "blob" => blob[k] # "none"
  /\ \A k \in Keys : tmp[k] # "none" \/ blob[k] # "none" => dir
  /\ \A k \in kept : blob[k] # "none"

(* What is written in part has a writer that no other has truncated, unless  *)
(* a write broke off.                                                        *)
TmpParts ==
  \A k \in Keys \ spoiled, c \in Ops : tmp[k] = "part" /\ Active(c, k) =>
     \E d \in Ops : Writing(d, k) /\ io[d].fd = "tmp" /\ io[d].clean
BlobParts ==
  \A k \in Keys \ spoiled : blob[k] = "part" =>
     \E d \in Ops : Writing(d, k) /\ io[d].fd = "blob" /\ io[d].clean

(* The last writer of a temporary file has left it whole.                    *)
LastWhole ==
  \A k \in Keys, c \in Ops :
     io[c].key = k /\ io[c].pc = "rename" /\ io[c].clean /\ io[c].fd = "tmp" => tmp[k] = "whole"

Parts == TmpParts /\ BlobParts /\ LastWhole

LocalIInv == LocalTypes /\ OpenFiles /\ Parts

LEMMA LocalImplies == LocalIInv => LocalInv
<1> SUFFICES ASSUME LocalIInv PROVE LocalInv OBVIOUS
<1>1. LocalTypeOK BY DEF LocalIInv, LocalTypes, LocalTypeOK, Op, Fills
<1>2. BlobsKept
  BY DEF LocalIInv, LocalTypes, OpenFiles, Parts, BlobParts, BlobsKept, Op, Fills,
    Putting, Exists, Get, Writing
<1> QED BY <1>1, <1>2 DEF LocalInv

LEMMA NoOpType == NoOp \in Op /\ NoOp.pc = "idle" /\ NoOp.fd = "none" /\ NoOp.key = "none"
BY DEF NoOp, Op

LEMMA PutOp ==
  ASSUME NEW k \in Keys, NEW op, op = [NoOp EXCEPT !.pc = "open", !.key = k]
  PROVE  op \in Op /\ op.pc = "open" /\ op.key = k /\ op.fd = "none"
BY DEF NoOp, Op

LEMMA DeleteOp ==
  ASSUME NEW op, op = [NoOp EXCEPT !.pc = "rmdir"]
  PROVE  op \in Op /\ op.pc = "rmdir" /\ op.fd = "none" /\ op.key = "none"
BY DEF NoOp, Op

LEMMA OpenOp ==
  ASSUME NEW op \in Op, NEW new, new = [op EXCEPT !.pc = "write", !.fd = "tmp", !.clean = TRUE]
  PROVE  new \in Op /\ new.pc = "write" /\ new.key = op.key /\ new.fd = "tmp" /\ new.clean
<1>1. new.pc = "write" /\ new.key = op.key /\ new.fd = "tmp" BY DEF Op
<1>2. new.clean = TRUE BY DEF Op
<1>3. new = [pc |-> "write", key |-> op.key, fd |-> "tmp", clean |-> TRUE] BY DEF Op
<1>4. TRUE \in BOOLEAN OBVIOUS
<1>5. op.key \in Keys \cup {"none"} BY DEF Op
<1>6. new \in Op BY <1>3, <1>4, <1>5 DEF Op
<1> QED BY <1>1, <1>2, <1>6

LEMMA TruncatedOp ==
  ASSUME NEW op \in Op, NEW new, new = [op EXCEPT !.clean = FALSE]
  PROVE  new \in Op /\ new.pc = op.pc /\ new.key = op.key /\ new.fd = op.fd /\ ~new.clean
<1>1. new.pc = op.pc /\ new.key = op.key /\ new.fd = op.fd BY DEF Op
<1>2. new.clean = FALSE BY DEF Op
<1>3. new = [pc |-> op.pc, key |-> op.key, fd |-> op.fd, clean |-> FALSE] BY DEF Op
<1>4. FALSE \in BOOLEAN OBVIOUS
<1>6. new \in Op BY <1>3, <1>4 DEF Op
<1> QED BY <1>1, <1>2, <1>6

LEMMA LocalStart == LocalInit => LocalIInv
<1> SUFFICES ASSUME LocalInit PROVE LocalIInv OBVIOUS
<1> USE DEF LocalInit
<1>1. io \in [Ops -> Op] BY NoOpType
<1>2. dir \in BOOLEAN OBVIOUS
<1>3. LocalTypes BY <1>1, <1>2 DEF LocalTypes, Fills, NoOp
<1>4. OpenFiles BY DEF OpenFiles, NoOp
<1>5. Parts BY DEF Parts, TmpParts, BlobParts, LastWhole, NoOp, Writing, Active
<1> QED BY <1>3, <1>4, <1>5 DEF LocalIInv

(* Call c goes on as op, and the files of k that others have open move.      *)
MovedTo(c, k, op, tmpTo, blobTo) ==
  /\ io' \in [Ops -> Op] /\ io'[c] = op
  /\ \A d \in Ops \ {c} :
       /\ io'[d].pc = io[d].pc /\ io'[d].key = io[d].key /\ io'[d].clean = io[d].clean
       /\ io[d].key # k => io'[d].fd = io[d].fd
       /\ io[d].key = k =>
            /\ io[d].fd = "tmp" => io'[d].fd = tmpTo
            /\ io[d].fd = "blob" => io'[d].fd = blobTo
            /\ io[d].fd \notin {"tmp", "blob"} => io'[d].fd = io[d].fd

LEMMA MovedFields ==
  ASSUME LocalTypes, NEW c \in Ops, NEW k \in Keys, NEW op \in Op,
         NEW tmpTo \in {"tmp", "blob", "gone"}, NEW blobTo \in {"tmp", "blob", "gone"},
         io' = [Moved(k, tmpTo, blobTo) EXCEPT ![c] = op]
  PROVE  MovedTo(c, k, op, tmpTo, blobTo)
<1> USE DEF LocalTypes, Moved
<1>1. io'[c] = op OBVIOUS
<1>2. ASSUME NEW d \in Ops \ {c}
      PROVE  io'[d] = IF io[d].key # k THEN io[d]
                      ELSE [io[d] EXCEPT !.fd = CASE @ = "tmp" -> tmpTo [] @ = "blob" -> blobTo [] OTHER -> @]
  OBVIOUS
<1>3. DOMAIN io' = Ops OBVIOUS
<1>4. ASSUME NEW d \in Ops \ {c} PROVE io'[d] \in Op BY <1>2 DEF Op
<1>5. io' \in [Ops -> Op] 
  <2>1. \A d \in Ops : io'[d] \in Op BY <1>1, <1>4
  <2>2. io' = [d \in Ops |-> io'[d]] OBVIOUS
  <2> QED BY <2>1, <2>2
<1> QED BY <1>1, <1>2, <1>5 DEF MovedTo, Op

(* A call that had no file open ends.                                        *)
LEMMA Gone ==
  ASSUME LocalIInv, NEW c \in Ops, io[c].pc = "open",
         io' = [io EXCEPT ![c] = NoOp], UNCHANGED <<dir, tmp, blob, kept, spoiled>>
  PROVE  LocalIInv'
<1> USE NoOpType DEF LocalIInv, LocalTypes
<1>1. (io \in [Ops -> Op])' OBVIOUS
<1>4. LocalTypes' BY <1>1
<1>5. OpenFiles' BY DEF OpenFiles
<1>6. TmpParts' BY DEF Parts, TmpParts, Writing, Active
<1>7. BlobParts' BY DEF Parts, BlobParts, Writing
<1>8. LastWhole' BY DEF Parts, LastWhole
<1> QED BY <1>4, <1>5, <1>6, <1>7, <1>8 DEF Parts

LEMMA LocalStep == LocalIInv /\ [LocalNext]_localVars => LocalIInv'
<1> SUFFICES ASSUME LocalIInv, [LocalNext]_localVars PROVE LocalIInv' OBVIOUS
<1> USE DEF LocalIInv, LocalTypes, Fills, At
<1>1. ASSUME NEW c \in Ops, Put(c) PROVE LocalIInv'
  <2>1. PICK k \in Keys : io' = [io EXCEPT ![c] = [NoOp EXCEPT !.pc = "open", !.key = k]]
    BY <1>1 DEF Put
  <2>2. /\ io'[c].pc = "open" /\ io'[c].fd = "none" /\ io'[c].key = k
        /\ \A d \in Ops \ {c} : io'[d] = io[d]
    BY <2>1, PutOp
  <2>3. dir' = TRUE /\ UNCHANGED <<tmp, blob, kept, spoiled>> /\ io[c].pc = "idle" BY <1>1 DEF Put
  <2>4. (io \in [Ops -> Op])' BY <2>1, PutOp
  <2>5. (dir \in BOOLEAN)' BY <2>3
  <2> USE <2>2, <2>3
  <2>6. LocalTypes' BY <2>4, <2>5
  <2>7. OpenFiles' BY DEF OpenFiles
  <2>8. TmpParts' BY DEF Parts, TmpParts, Writing, Active
  <2>9. BlobParts' BY DEF Parts, BlobParts, Writing
  <2>10. LastWhole' BY DEF Parts, LastWhole
  <2> QED BY <2>6, <2>7, <2>8, <2>9, <2>10 DEF Parts
<1>2. ASSUME NEW c \in Ops, Open(c) PROVE LocalIInv'
  <2>1. CASE ~dir
    <3>1. /\ io' = [io EXCEPT ![c] = NoOp] /\ UNCHANGED <<dir, tmp, blob, kept, spoiled>>
          /\ io[c].pc = "open"
      BY <1>2, <2>1 DEF Open
    <3> QED BY <3>1, Gone
  <2>2. CASE dir
    <3> USE <1>2, <2>2 DEF Open
    <3> DEFINE k == io[c].key
    <3>1. k \in Keys OBVIOUS
    <3>2. /\ tmp' = [tmp EXCEPT ![k] = "part"]
          /\ UNCHANGED <<dir, blob, kept, spoiled>>
          /\ io[c].pc = "open"
      OBVIOUS
    <3>3. /\ io'[c] = [io[c] EXCEPT !.pc = "write", !.fd = "tmp", !.clean = TRUE]
          /\ \A d \in Ops \ {c} :
               io'[d] = IF io[d].key = k /\ io[d].fd = "tmp" THEN [io[d] EXCEPT !.clean = FALSE]
                        ELSE io[d]
          /\ io' = [d \in Ops |-> io'[d]]
      OBVIOUS
    <3> HIDE <1>2, <2>2 DEF Open, k
    <3>4. io'[c] \in Op /\ io'[c].pc = "write" /\ io'[c].key = k /\ io'[c].fd = "tmp"
      <4>1. io[c] \in Op OBVIOUS
      <4>2. io'[c] = [io[c] EXCEPT !.pc = "write", !.fd = "tmp", !.clean = TRUE] BY <3>3
      <4> QED BY ONLY <4>1, <4>2, OpenOp, Zenon DEF k
    <3>5. io'[c].clean BY <3>3, OpenOp
    <3>6. \A d \in Ops \ {c} :
            /\ io'[d] \in Op
            /\ io'[d].pc = io[d].pc /\ io'[d].key = io[d].key /\ io'[d].fd = io[d].fd
      BY <3>3, TruncatedOp
    <3>7. \A d \in Ops \ {c} :
            IF io[d].key = k /\ io[d].fd = "tmp" THEN ~io'[d].clean ELSE io'[d] = io[d]
      BY <3>3, TruncatedOp
    <3>8. (io \in [Ops -> Op])'
      <4>1. \A d \in Ops : io'[d] \in Op BY <3>4, <3>6
      <4> QED BY <4>1, <3>3
    <3>9. LocalTypes' BY <3>1, <3>2, <3>4, <3>6, <3>8
    <3>10. OpenFiles' BY <2>2, <3>1, <3>2, <3>4, <3>6 DEF OpenFiles
    <3>11. TmpParts'
      <4> SUFFICES ASSUME NEW l \in Keys, l \notin spoiled, NEW e \in Ops, tmp'[l] = "part",
                          Active(e, l)'
                   PROVE  \E d \in Ops : Writing(d, l)' /\ io'[d].fd = "tmp" /\ io'[d].clean
        BY <3>2 DEF TmpParts
      <4>1. CASE l = k BY <4>1, <3>4, <3>5 DEF Writing
      <4>2. CASE l # k
        <5>1. e # c BY <4>2, <3>4 DEF Active
        <5>2. Active(e, l) BY <5>1, <3>6 DEF Active
        <5>3. PICK d \in Ops : Writing(d, l) /\ io[d].fd = "tmp" /\ io[d].clean
          BY <4>2, <5>2, <3>1, <3>2 DEF Parts, TmpParts
        <5>4. d # c /\ io'[d] = io[d] BY <4>2, <5>3, <3>2, <3>7 DEF Writing
        <5> QED BY <5>3, <5>4 DEF Writing
      <4> QED BY <4>1, <4>2
    <3>12. BlobParts'
      <4> SUFFICES ASSUME NEW l \in Keys, l \notin spoiled, blob[l] = "part"
                   PROVE  \E d \in Ops : Writing(d, l)' /\ io'[d].fd = "blob" /\ io'[d].clean
        BY <3>2 DEF BlobParts
      <4>1. PICK d \in Ops : Writing(d, l) /\ io[d].fd = "blob" /\ io[d].clean
        BY DEF Parts, BlobParts
      <4>2. io'[d] = io[d] BY <4>1, <3>2, <3>7 DEF Writing
      <4> QED BY <4>1, <4>2 DEF Writing
    <3>13. LastWhole' BY <3>1, <3>2, <3>4, <3>6, <3>7 DEF Parts, LastWhole
    <3> QED BY <3>9, <3>10, <3>11, <3>12, <3>13 DEF Parts
  <2> QED BY <2>1, <2>2
<1>3. ASSUME NEW c \in Ops, WriteFile(c) PROVE LocalIInv'
  <2> DEFINE k == io[c].key
  <2>1. k \in Keys /\ io[c].pc = "write" BY <1>3 DEF WriteFile
  <2>2. /\ io' = [io EXCEPT ![c].pc = "rename"]
        /\ UNCHANGED <<dir, kept, spoiled>>
    BY <1>3 DEF WriteFile
  <2>3. \/ io[c].fd = "tmp" /\ UNCHANGED blob /\ \E v \in Written(c, tmp[k]) : tmp' = [tmp EXCEPT ![k] = v]
        \/ io[c].fd = "blob" /\ UNCHANGED tmp /\ \E v \in Written(c, blob[k]) : blob' = [blob EXCEPT ![k] = v]
        \/ io[c].fd \notin {"tmp", "blob"} /\ UNCHANGED <<tmp, blob>>
    BY <1>3 DEF WriteFile
  <2>4. /\ (io \in [Ops -> Op])'
        /\ io'[c].pc = "rename" /\ io'[c].fd = io[c].fd /\ io'[c].key = k
        /\ \A d \in Ops \ {c} : io'[d] = io[d]
    BY <2>2 DEF Op
  <2>5. io'[c].clean = io[c].clean BY <2>2 DEF Op
  <2> HIDE DEF k
  <2> USE <2>1, <2>3, <2>4 DEF Written
  <2>6. LocalTypes' BY <2>2
  <2>7. OpenFiles' BY <2>2 DEF OpenFiles
  <2>8. TmpParts' BY <2>2 DEF Parts, TmpParts, OpenFiles, Writing, Active
  <2>9. BlobParts' BY <2>2 DEF Parts, BlobParts, OpenFiles, Writing
  <2>10. LastWhole' BY <2>5 DEF Parts, LastWhole
  <2> QED BY <2>6, <2>7, <2>8, <2>9, <2>10 DEF Parts
<1>4. ASSUME NEW c \in Ops, WriteFails(c) PROVE LocalIInv'
  <2>1. io' = [io EXCEPT ![c] = NoOp] /\ UNCHANGED <<dir, tmp, blob, kept>> /\ io[c].pc = "write"
        /\ io[c].key \in Keys
    BY <1>4 DEF WriteFails
  <2>2. /\ spoiled \subseteq spoiled' /\ spoiled' \subseteq Keys
        /\ io[c].fd = "blob" => io[c].key \in spoiled'
        /\ \A d \in Ops \ {c} : Active(d, io[c].key) => io[c].key \in spoiled'
    BY <1>4 DEF WriteFails, Active
  <2>3. (io \in [Ops -> Op])' BY <2>1, NoOpType
  <2> USE <2>1, <2>2, NoOpType
  <2>4. LocalTypes' BY <2>3
  <2>5. OpenFiles' BY DEF OpenFiles
  <2>6. TmpParts' BY DEF Parts, TmpParts, Writing, Active
  <2>7. BlobParts' BY DEF Parts, BlobParts, Writing
  <2>8. LastWhole' BY DEF Parts, LastWhole
  <2> QED BY <2>4, <2>5, <2>6, <2>7, <2>8 DEF Parts
<1>5. ASSUME NEW c \in Ops, Rename(c) PROVE LocalIInv'
  <2> DEFINE k == io[c].key
  <2>1. k \in Keys /\ io[c].pc = "rename" /\ UNCHANGED dir BY <1>5 DEF Rename
  <2>2. CASE tmp[k] = "none"
    <3>1. io' = [io EXCEPT ![c].pc = "cleanup"] /\ UNCHANGED <<dir, tmp, blob, kept, spoiled>>
      BY <1>5, <2>2 DEF Rename
    <3>2. /\ (io \in [Ops -> Op])'
          /\ io'[c].pc = "cleanup" /\ io'[c].fd = io[c].fd /\ io'[c].key = k
          /\ \A d \in Ops \ {c} : io'[d] = io[d]
      BY <3>1 DEF Op
    <3> HIDE DEF k
    <3> USE <2>1, <3>1, <3>2
    <3>4. LocalTypes' OBVIOUS
    <3>5. OpenFiles' BY DEF OpenFiles, k
    <3>6. TmpParts' BY DEF Parts, TmpParts, Writing, Active
    <3>7. BlobParts' BY DEF Parts, BlobParts, Writing
    <3>8. LastWhole' BY DEF Parts, LastWhole
    <3> QED BY <3>4, <3>5, <3>6, <3>7, <3>8 DEF Parts
  <2>3. CASE tmp[k] # "none"
    <3>1. /\ tmp' = [tmp EXCEPT ![k] = "none"] /\ blob' = [blob EXCEPT ![k] = tmp[k]]
          /\ kept' = kept \cup {k}
          /\ spoiled' = IF io[c].clean /\ io[c].fd = "tmp" THEN spoiled \ {k} ELSE spoiled
          /\ io' = [Moved(k, "blob", "gone") EXCEPT ![c] = NoOp]
      BY <1>5, <2>3 DEF Rename
    <3>2. MovedTo(c, k, NoOp, "blob", "gone") BY <2>1, <3>1, MovedFields, NoOpType
    <3>3. Active(c, k) BY <2>1 DEF Active
    <3> HIDE DEF k
    <3> USE <2>1, <3>1, <3>2, NoOpType DEF MovedTo
    <3>4. LocalTypes' OBVIOUS
    <3>5. OpenFiles' BY <2>3 DEF OpenFiles
    <3>6. TmpParts'
      <4> SUFFICES ASSUME NEW l \in Keys, l \notin spoiled', NEW e \in Ops, tmp'[l] = "part",
                          Active(e, l)'
                   PROVE  \E d \in Ops : Writing(d, l)' /\ io'[d].fd = "tmp" /\ io'[d].clean
        BY DEF TmpParts
      <4>1. l # k /\ l \notin spoiled OBVIOUS
      <4>2. e # c /\ Active(e, l) BY DEF Active
      <4>3. PICK d \in Ops : Writing(d, l) /\ io[d].fd = "tmp" /\ io[d].clean
        BY <4>1, <4>2 DEF Parts, TmpParts
      <4>4. d # c BY <4>3 DEF Writing
      <4> QED BY <4>1, <4>3, <4>4 DEF Writing
    <3>7. BlobParts'
      <4> SUFFICES ASSUME NEW l \in Keys, l \notin spoiled', blob'[l] = "part"
                   PROVE  \E d \in Ops : Writing(d, l)' /\ io'[d].fd = "blob" /\ io'[d].clean
        BY DEF BlobParts
      <4>1. CASE l = k
        <5>1. tmp[k] = "part" BY <4>1
        <5>2. ~(io[c].clean /\ io[c].fd = "tmp") BY <5>1 DEF Parts, LastWhole, k
        <5>3. k \notin spoiled BY <4>1, <5>2
        <5>4. PICK d \in Ops : Writing(d, k) /\ io[d].fd = "tmp" /\ io[d].clean
          BY <5>1, <5>3, <3>3 DEF Parts, TmpParts
        <5>5. d # c BY <5>4 DEF Writing
        <5> QED BY <4>1, <5>4, <5>5 DEF Writing
      <4>2. CASE l # k
        <5>1. PICK d \in Ops : Writing(d, l) /\ io[d].fd = "blob" /\ io[d].clean
          BY <4>2 DEF Parts, BlobParts
        <5>2. d # c BY <5>1 DEF Writing
        <5> QED BY <4>2, <5>1, <5>2 DEF Writing
      <4> QED BY <4>1, <4>2
    <3>8. LastWhole' BY DEF Parts, LastWhole
    <3> QED BY <3>4, <3>5, <3>6, <3>7, <3>8 DEF Parts
  <2> QED BY <2>2, <2>3
<1>6. ASSUME NEW c \in Ops, Cleanup(c) PROVE LocalIInv'
  <2> DEFINE k == io[c].key
  <2>1. k \in Keys /\ io[c].pc = "cleanup" BY <1>6 DEF Cleanup
  <2>2. /\ tmp' = [tmp EXCEPT ![k] = "none"] /\ UNCHANGED <<dir, blob, kept, spoiled>>
        /\ io' = [Moved(k, "gone", "blob") EXCEPT ![c] = NoOp]
    BY <1>6 DEF Cleanup
  <2>3. MovedTo(c, k, NoOp, "gone", "blob") BY <2>1, <2>2, MovedFields, NoOpType
  <2> HIDE DEF k
  <2> USE <2>1, <2>2, <2>3, NoOpType DEF MovedTo
  <2>4. LocalTypes' OBVIOUS
  <2>5. OpenFiles' BY DEF OpenFiles
  <2>6. TmpParts' BY DEF Parts, TmpParts, Writing, Active
  <2>7. BlobParts' BY DEF Parts, BlobParts, Writing
  <2>8. LastWhole' BY DEF Parts, LastWhole
  <2> QED BY <2>4, <2>5, <2>6, <2>7, <2>8 DEF Parts
<1>7. ASSUME NEW c \in Ops, Delete(c) PROVE LocalIInv'
  <2> DEFINE op == [NoOp EXCEPT !.pc = "rmdir"]
  <2>1. io[c].pc = "idle" /\ UNCHANGED <<dir, tmp, spoiled>> BY <1>7 DEF Delete
  <2>2. PICK k \in Keys :
          /\ blob' = [blob EXCEPT ![k] = "none"]
          /\ io' = [Moved(k, "tmp", "gone") EXCEPT ![c] = op]
          /\ kept' = kept \ {k}
    BY <1>7 DEF Delete
  <2>9. op \in Op /\ op.pc = "rmdir" /\ op.fd = "none" BY DeleteOp
  <2> HIDE DEF op
  <2>3. MovedTo(c, k, op, "tmp", "gone") BY <2>2, <2>9, MovedFields
  <2> USE <2>1, <2>2, <2>3, <2>9 DEF MovedTo
  <2>4. LocalTypes' OBVIOUS
  <2>5. OpenFiles' BY DEF OpenFiles
  <2>6. TmpParts' BY DEF Parts, TmpParts, Writing, Active
  <2>7. BlobParts' BY DEF Parts, BlobParts, Writing
  <2>8. LastWhole' BY DEF Parts, LastWhole
  <2> QED BY <2>4, <2>5, <2>6, <2>7, <2>8 DEF Parts
<1>8. ASSUME NEW c \in Ops, RemoveDir(c) PROVE LocalIInv'
  <2>1. /\ io' = [io EXCEPT ![c] = NoOp] /\ UNCHANGED <<tmp, blob, kept, spoiled>>
        /\ io[c].pc = "rmdir"
    BY <1>8 DEF RemoveDir
  <2>2. dir' \in BOOLEAN /\ (dir => dir' \/ \A k \in Keys : tmp[k] = "none" /\ blob[k] = "none")
    BY <1>8 DEF RemoveDir, Files
  <2>3. (io \in [Ops -> Op])' BY <2>1, NoOpType
  <2> USE <2>1, <2>2, NoOpType
  <2>4. LocalTypes' BY <2>3
  <2>5. OpenFiles' BY DEF OpenFiles
  <2>6. TmpParts' BY DEF Parts, TmpParts, Writing, Active
  <2>7. BlobParts' BY DEF Parts, BlobParts, Writing
  <2>8. LastWhole' BY DEF Parts, LastWhole
  <2> QED BY <2>4, <2>5, <2>6, <2>7, <2>8 DEF Parts
<1>9. CASE Stop
  <2>1. /\ io' = [d \in Ops |-> NoOp] /\ UNCHANGED <<dir, tmp, blob, kept>>
        /\ spoiled \subseteq spoiled' /\ spoiled' \subseteq Keys
        /\ \A d \in Ops : io[d].pc = "write" /\ io[d].fd = "blob" => io[d].key \in spoiled'
    BY <1>9 DEF Stop
  <2>2. (io \in [Ops -> Op])' BY <2>1, NoOpType
  <2> USE <2>1, NoOpType
  <2>4. LocalTypes' BY <2>2
  <2>5. OpenFiles' BY DEF OpenFiles
  <2>6. TmpParts' BY DEF TmpParts, Active
  <2>7. BlobParts' BY DEF Parts, BlobParts, Writing
  <2>8. LastWhole' BY DEF LastWhole
  <2> QED BY <2>4, <2>5, <2>6, <2>7, <2>8 DEF Parts
<1>10. CASE UNCHANGED localVars
  BY <1>10 DEF localVars, OpenFiles, Parts, TmpParts, BlobParts, LastWhole, Writing, Active
<1> QED BY <1>1, <1>2, <1>3, <1>4, <1>5, <1>6, <1>7, <1>8, <1>9, <1>10 DEF LocalNext

(***************************************************************************)
(* The IPFS backend.                                                       *)
(***************************************************************************)

LEMMA IPFSStart == NewIPFSBackend => IPFSInv
BY DEF NewIPFSBackend, IPFSInv

LEMMA IPFSStep == IPFSInv /\ [IPFSNext]_ipfsVars => IPFSInv'
<1> SUFFICES ASSUME IPFSInv, [IPFSNext]_ipfsVars PROVE IPFSInv' OBVIOUS
<1> USE DEF IPFSInv, Decode, GetBlock, ExistsBlock
<1>1. ASSUME NEW key \in Blocks \cup {Digest, NoKey}, DeletePin(key) PROVE IPFSInv'
  BY <1>1 DEF DeletePin
<1>2. ASSUME NEW key \in Blocks \cup {Digest, NoKey}, NEW t \in Tasks, PutBlock(t, key)
      PROVE  IPFSInv'
  BY <1>2 DEF PutBlock
<1>3. ASSUME NEW t \in Tasks, PutPin(t) PROVE IPFSInv' BY <1>3 DEF PutPin
<1>4. CASE NodeCollects BY <1>4 DEF NodeCollects
<1>5. CASE UNCHANGED ipfsVars BY <1>5 DEF ipfsVars
<1> QED BY <1>1, <1>2, <1>3, <1>4, <1>5 DEF IPFSNext

(***************************************************************************)
(* The FUSE mount.                                                         *)
(***************************************************************************)

HandleRec == [pc : Steps, node : Nodes \cup {Nil}, data : Buffers \cup {Nil},
              dirty : BOOLEAN, i : 1..(MaxData + 1)]

FuseTypes ==
  /\ saves \in 0..MaxSaves /\ table \in Tables /\ held \subseteq Hashes /\ wiped \subseteq Hashes
  /\ entry \in [Nodes -> {"none", "new", "linked"}]
  /\ manifest \in [Nodes -> Buffers \cup {Nil}]
  /\ handle \in [Handles -> HandleRec]

Storing == {"exists", "count", "put", "row", "manifest"}

(* What a handle holds where it is.                                          *)
HandleOK(h) ==
  LET r == handle[h]
  IN  /\ r.pc # "closed" => r.node \in Nodes
      /\ r.dirty => r.data # Nil
      /\ r.pc = "open" => r.i = 1
      /\ r.pc \notin {"closed", "open"} => r.data # Nil /\ Len(r.data) > 0
      /\ r.pc = "exists" => r.i <= Len(r.data) + 1
      /\ r.pc \in {"count", "put", "row", "wipeData", "wipeRow"} => r.i <= Len(r.data)
      /\ r.pc = "manifest" => r.i = Len(r.data) + 1
      /\ r.pc = "row" => r.data[r.i] \in held \cup wiped
      /\ r.pc = "wipeRow" => r.data[r.i] \in wiped
      /\ r.pc = "link" => manifest[r.node] # Nil /\ entry[r.node] # "linked"

(* The manifest of a file is linked by the release that inserted it.         *)
OneLinker ==
  \A g, h \in Handles :
    handle[g].pc = "link" /\ handle[h].pc = "link" /\ handle[g].node = handle[h].node => g = h

UsedAt(x) == {p \in Nodes \X (1..MaxData) :
                /\ manifest[p[1]] # Nil
                /\ p[2] \in DOMAIN manifest[p[1]] /\ manifest[p[1]][p[2]] = x}

(* Places of buffers that a release has already counted.                     *)
CountedAt(x) == {p \in Handles \X (1..MaxData) :
                   /\ handle[p[1]].pc \in Storing
                   /\ p[2] \in DOMAIN handle[p[1]].data
                   /\ p[2] < handle[p[1]].i /\ handle[p[1]].data[p[2]] = x}

Cover(x) ==
  IF HasRow(table, x)
  THEN x \in held /\ Cardinality(UsedAt(x)) + Cardinality(CountedAt(x)) <= table[x]
  ELSE UsedAt(x) = {} /\ CountedAt(x) = {}

FuseIInv ==
  /\ FuseTypes
  /\ \A h \in Handles : HandleOK(h)
  /\ OneLinker
  /\ \A f \in Nodes : entry[f] = "linked" => manifest[f] # Nil
  /\ \A x \in Hashes \ wiped : Cover(x)

LEMMA BufferType ==
  ASSUME NEW d \in Buffers
  PROVE  d \in Seq(Hashes) /\ Len(d) \in 0..MaxData /\ DOMAIN d = 1..Len(d) /\ d # Nil
         /\ \A j \in 1..Len(d) : d[j] \in Hashes
<1>1. PICK n \in 0..MaxData : d \in [1..n -> Hashes] BY DEF Buffers
<1>2. n \in Nat BY FuseAssumption
<1>3. d \in Seq(Hashes) /\ Len(d) = n BY <1>1, <1>2
<1> QED BY <1>1, <1>2, <1>3, FuseAssumption

LEMMA UpToFinite == ASSUME NEW n \in Nat PROVE IsFiniteSet(1..n)
BY FS_Interval

LEMMA PlacesFinite ==
  /\ IsFiniteSet(Nodes \X (1..MaxData)) /\ IsFiniteSet(Handles \X (1..MaxData))
<1>1. IsFiniteSet(1..MaxData) BY FuseAssumption, UpToFinite
<1> QED BY <1>1, FuseAssumption, FS_Product

LEMMA CountsFinite ==
  ASSUME NEW x
  PROVE  /\ IsFiniteSet(UsedAt(x)) /\ Cardinality(UsedAt(x)) \in Nat
         /\ IsFiniteSet(CountedAt(x)) /\ Cardinality(CountedAt(x)) \in Nat
<1>1. UsedAt(x) \subseteq Nodes \X (1..MaxData) BY DEF UsedAt
<1>2. CountedAt(x) \subseteq Handles \X (1..MaxData) BY DEF CountedAt
<1>3. IsFiniteSet(UsedAt(x)) /\ IsFiniteSet(CountedAt(x)) BY <1>1, <1>2, PlacesFinite, FS_Subset
<1> QED BY <1>3, FS_CardinalityType

LEMMA CountsFiniteNext ==
  ASSUME NEW x
  PROVE  /\ IsFiniteSet(UsedAt(x)') /\ Cardinality(UsedAt(x)') \in Nat
         /\ IsFiniteSet(CountedAt(x)') /\ Cardinality(CountedAt(x)') \in Nat
<1>1. UsedAt(x)' \subseteq Nodes \X (1..MaxData) BY DEF UsedAt
<1>2. CountedAt(x)' \subseteq Handles \X (1..MaxData) BY DEF CountedAt
<1>3. IsFiniteSet(UsedAt(x)') /\ IsFiniteSet(CountedAt(x)') BY <1>1, <1>2, PlacesFinite, FS_Subset
<1> QED BY <1>3, FS_CardinalityType

(* Fewer places need no more counts.                                         *)
LEMMA CoverShrinks ==
  ASSUME NEW x \in Hashes, Cover(x), table \in Tables,
         UsedAt(x)' \subseteq UsedAt(x), CountedAt(x)' \subseteq CountedAt(x),
         table'[x] = table[x], x \in held => x \in held'
  PROVE  Cover(x)'
<1>1. /\ Cardinality(UsedAt(x)') <= Cardinality(UsedAt(x))
      /\ Cardinality(CountedAt(x)') <= Cardinality(CountedAt(x))
  BY CountsFinite, FS_Subset
<1>2. table[x] \in Int BY DEF Tables, NoRow
<1> QED BY <1>1, <1>2, CountsFinite, CountsFiniteNext DEF Cover, HasRow

(* One more place needs one more count.                                      *)
LEMMA CoverGrows ==
  ASSUME NEW x \in Hashes, Cover(x), table \in Tables, NEW p,
         UsedAt(x)' = UsedAt(x), CountedAt(x)' \subseteq CountedAt(x) \cup {p},
         table'[x] = IF HasRow(table, x) THEN table[x] + 1 ELSE 1, x \in held'
  PROVE  Cover(x)'
<1> DEFINE C == CountedAt(x)
<1>1. Cardinality(C \cup {p}) <= Cardinality(C) + 1 /\ IsFiniteSet(C \cup {p})
  <2>1. IsFiniteSet(C) /\ Cardinality(C) \in Nat BY CountsFinite
  <2> HIDE DEF C
  <2>2. /\ IsFiniteSet(C \cup {p})
        /\ Cardinality(C \cup {p}) = IF p \in C THEN Cardinality(C) ELSE Cardinality(C) + 1
    BY <2>1, FS_AddElement, Zenon
  <2> QED BY <2>1, <2>2
<1>2. Cardinality(CountedAt(x)') <= Cardinality(C) + 1
  BY <1>1, CountsFinite, CountsFiniteNext, FS_Subset, FS_CardinalityType
<1>3. table[x] \in Nat \cup {NoRow} BY DEF Tables
<1>4. CASE HasRow(table, x)
  BY <1>2, <1>3, <1>4, CountsFinite, CountsFiniteNext DEF Cover, HasRow, NoRow
<1>5. CASE ~HasRow(table, x)
  <2>1. UsedAt(x) = {} /\ C = {} BY <1>5 DEF Cover
  <2>2. Cardinality(UsedAt(x)) = 0 /\ Cardinality(C) = 0 BY <2>1, FS_EmptySet
  <2> QED BY <1>2, <1>5, <2>2, CountsFiniteNext DEF Cover, HasRow, NoRow
<1> QED BY <1>4, <1>5

(* A handle that has counted no more than before.                            *)
LEMMA CountedKept ==
  ASSUME FuseTypes, NEW h \in Handles, \A g \in Handles \ {h} : handle'[g] = handle[g],
         \/ handle'[h].pc \notin Storing
         \/ handle'[h].i = 1
         \/ /\ handle[h].pc \in Storing /\ handle'[h].i = handle[h].i
            /\ handle'[h].data = handle[h].data
  PROVE  \A x : CountedAt(x)' \subseteq CountedAt(x)
<1> SUFFICES ASSUME NEW x, NEW p \in CountedAt(x)' PROVE p \in CountedAt(x) OBVIOUS
<1>1. p \in Handles \X (1..MaxData) BY DEF CountedAt
<1>2. PICK g \in Handles, j \in 1..MaxData : p = <<g, j>> BY <1>1
<1>3. /\ handle'[g].pc \in Storing /\ j \in DOMAIN handle'[g].data
      /\ j < handle'[g].i /\ handle'[g].data[j] = x
  BY <1>2 DEF CountedAt
<1>4. CASE g = h BY <1>1, <1>2, <1>3, <1>4, FuseAssumption DEF CountedAt
<1>5. CASE g # h BY <1>1, <1>2, <1>3, <1>5 DEF CountedAt
<1> QED BY <1>4, <1>5

(* A release goes on to pc, at chunk i of its buffer.                        *)
Goes(h, pcs, i) ==
  /\ handle' \in [Handles -> HandleRec]
  /\ \A g \in Handles \ {h} : handle'[g] = handle[g]
  /\ handle'[h].pc = pcs /\ handle'[h].i = i
  /\ handle'[h].node = handle[h].node /\ handle'[h].data = handle[h].data
  /\ handle'[h].dirty = handle[h].dirty

LEMMA GoesOn ==
  ASSUME FuseTypes, NEW h \in Handles, NEW pcs \in Steps, NEW i \in 1..(MaxData + 1),
         \/ handle' = [handle EXCEPT ![h].pc = pcs, ![h].i = i]
         \/ handle' = [handle EXCEPT ![h].pc = pcs] /\ i = handle[h].i
  PROVE  Goes(h, pcs, i)
<1>1. handle[h] \in HandleRec BY DEF FuseTypes
<1>2. handle'[h] = [handle[h] EXCEPT !.pc = pcs, !.i = i]
  <2>1. CASE handle' = [handle EXCEPT ![h].pc = pcs, ![h].i = i] BY <2>1, <1>1 DEF FuseTypes, HandleRec
  <2>2. CASE handle' = [handle EXCEPT ![h].pc = pcs] /\ i = handle[h].i
    BY <2>2, <1>1 DEF FuseTypes, HandleRec
  <2> QED BY <2>1, <2>2
<1>3. \A g \in Handles \ {h} : handle'[g] = handle[g] BY DEF FuseTypes
<1>4. handle' = [g \in Handles |-> handle'[g]] BY DEF FuseTypes
<1>5. /\ handle'[h] \in HandleRec
      /\ handle'[h].pc = pcs /\ handle'[h].i = i
      /\ handle'[h].node = handle[h].node /\ handle'[h].data = handle[h].data
      /\ handle'[h].dirty = handle[h].dirty
  <2>1. ASSUME NEW r \in HandleRec, NEW s, s = [r EXCEPT !.pc = pcs, !.i = i]
        PROVE  /\ s \in HandleRec /\ s.pc = pcs /\ s.i = i
               /\ s.node = r.node /\ s.data = r.data /\ s.dirty = r.dirty
    <3>1. s = [pc |-> pcs, node |-> r.node, data |-> r.data, dirty |-> r.dirty, i |-> i]
      BY <2>1 DEF HandleRec
    <3>2. r.dirty \in BOOLEAN BY DEF HandleRec
    <3>3. r.node \in Nodes \cup {Nil} /\ r.data \in Buffers \cup {Nil} BY DEF HandleRec
    <3>4. s \in HandleRec BY <3>1, <3>2, <3>3 DEF HandleRec
    <3>5. s.dirty = r.dirty BY <3>1
    <3> QED BY <3>1, <3>4, <3>5
  <2> QED BY <1>1, <1>2, <2>1, Zenon
<1>6. \A g \in Handles : handle'[g] \in HandleRec BY <1>3, <1>5 DEF FuseTypes
<1>7. handle' \in [Handles -> HandleRec] BY <1>4, <1>6
<1> QED BY <1>3, <1>5, <1>7 DEF Goes

LEMMA ClosedType ==
  /\ Closed \in HandleRec /\ Closed.pc = "closed" /\ Closed.node = Nil /\ Closed.data = Nil
  /\ Closed.dirty = FALSE /\ Closed.i = 1
<1>1. FALSE \in BOOLEAN OBVIOUS
<1>2. 1 \in 1..(MaxData + 1) BY FuseAssumption
<1> QED BY <1>1, <1>2 DEF Closed, HandleRec, Steps

LEMMA Closes ==
  ASSUME FuseTypes, NEW h \in Handles, CloseHandle(h)
  PROVE  /\ handle' \in [Handles -> HandleRec] /\ handle'[h] = Closed
         /\ \A g \in Handles \ {h} : handle'[g] = handle[g]
BY ClosedType DEF FuseTypes, CloseHandle

LEMMA ClosedOK == ASSUME NEW h \in Handles, handle'[h] = Closed PROVE HandleOK(h)'
BY ClosedType DEF HandleOK

(* What a step of one handle must show.                                      *)
LEMMA HandleStep ==
  ASSUME FuseIInv, NEW h \in Handles, FuseTypes', HandleOK(h)',
         \A g \in Handles \ {h} : handle'[g] = handle[g],
         held \subseteq held' \cup wiped', wiped \subseteq wiped',
         \A g \in Handles \ {h} : handle[g].pc = "link" =>
           /\ manifest'[handle[g].node] # Nil /\ entry'[handle[g].node] # "linked"
           /\ ~(handle'[h].pc = "link" /\ handle'[h].node = handle[g].node),
         \A f \in Nodes : entry'[f] = "linked" => manifest'[f] # Nil,
         \A x \in Hashes \ wiped' : Cover(x)'
  PROVE  FuseIInv'
<1>1. ASSUME NEW g \in Handles PROVE HandleOK(g)'
  <2>1. CASE g = h BY <2>1
  <2>2. CASE g # h
    <3>1. HandleOK(g) /\ handle'[g] = handle[g] BY <2>2 DEF FuseIInv
    <3> QED BY <2>2, <3>1 DEF HandleOK
  <2> QED BY <2>1, <2>2
<1>2. OneLinker' BY DEF FuseIInv, OneLinker
<1> QED BY <1>1, <1>2 DEF FuseIInv

(* A step of one handle that leaves rows and manifests alone.                *)
LEMMA QuietStep ==
  ASSUME FuseIInv, NEW h \in Handles, FuseTypes', HandleOK(h)',
         \A g \in Handles \ {h} : handle'[g] = handle[g],
         UNCHANGED <<table, manifest>>, handle'[h].pc # "link",
         held \subseteq held' \cup wiped', wiped \subseteq wiped',
         \A f \in Nodes : entry'[f] = "linked" => entry[f] = "linked",
         \/ handle'[h].pc \notin Storing
         \/ handle'[h].i = 1
         \/ /\ handle[h].pc \in Storing /\ handle'[h].i = handle[h].i
            /\ handle'[h].data = handle[h].data
  PROVE  FuseIInv'
<1> FuseTypes BY DEF FuseIInv
<1>1. \A x : CountedAt(x)' \subseteq CountedAt(x) BY CountedKept
<1>2. \A x : UsedAt(x)' = UsedAt(x) BY DEF UsedAt
<1>3. ASSUME NEW x \in Hashes \ wiped' PROVE Cover(x)'
  <2>1. Cover(x) /\ table \in Tables BY DEF FuseIInv, FuseTypes
  <2> QED BY <2>1, <1>1, <1>2, <1>3, CoverShrinks
<1>4. \A f \in Nodes : entry'[f] = "linked" => manifest'[f] # Nil BY DEF FuseIInv
<1>5. ASSUME NEW g \in Handles \ {h}, handle[g].pc = "link"
      PROVE  /\ manifest'[handle[g].node] # Nil /\ entry'[handle[g].node] # "linked"
             /\ ~(handle'[h].pc = "link" /\ handle'[h].node = handle[g].node)
  BY <1>5 DEF FuseIInv, HandleOK
<1> QED BY <1>3, <1>4, <1>5, HandleStep

LEMMA Opened ==
  ASSUME FuseTypes, NEW h \in Handles, NEW f \in Nodes, NEW data \in Buffers \cup {Nil},
         OpenAs(h, f, data)
  PROVE  /\ handle' \in [Handles -> HandleRec]
         /\ \A g \in Handles \ {h} : handle'[g] = handle[g]
         /\ handle'[h].pc = "open" /\ handle'[h].node = f /\ handle'[h].data = data
         /\ handle'[h].dirty = FALSE /\ handle'[h].i = 1
<1> DEFINE r == [pc |-> "open", node |-> f, data |-> data, dirty |-> FALSE, i |-> 1]
<1>1. [Closed EXCEPT !.pc = "open", !.node = f, !.data = data] = r
  <2> SUFFICES ASSUME NEW s, s = [Closed EXCEPT !.pc = "open", !.node = f, !.data = data]
               PROVE  s = r
    OBVIOUS
  <2> QED BY DEF Closed
<1>2. FALSE \in BOOLEAN OBVIOUS
<1>3. 1 \in 1..(MaxData + 1) BY FuseAssumption
<1>4. r \in HandleRec BY <1>2, <1>3 DEF HandleRec, Steps
<1>5. handle' = [handle EXCEPT ![h] = r] BY <1>1 DEF OpenAs
<1>6. r.pc = "open" /\ r.node = f /\ r.data = data /\ r.i = 1 OBVIOUS
<1>7. r.dirty = FALSE OBVIOUS
<1> HIDE DEF r
<1> QED BY <1>4, <1>5, <1>6, <1>7 DEF FuseTypes

LEMMA Changed ==
  ASSUME FuseTypes, NEW h \in Handles, NEW data \in Buffers,
         handle' = [handle EXCEPT ![h].data = data, ![h].dirty = TRUE]
  PROVE  /\ handle' \in [Handles -> HandleRec]
         /\ \A g \in Handles \ {h} : handle'[g] = handle[g]
         /\ handle'[h].pc = handle[h].pc /\ handle'[h].node = handle[h].node
         /\ handle'[h].data = data /\ handle'[h].i = handle[h].i
<1> DEFINE old_ == handle[h]
           r == [pc |-> old_.pc, node |-> old_.node, data |-> data, dirty |-> TRUE, i |-> old_.i]
<1>1. old_ \in HandleRec BY DEF FuseTypes
<1>2. handle'[h] = [old_ EXCEPT !.data = data, !.dirty = TRUE] BY <1>1 DEF FuseTypes, HandleRec
<1> HIDE DEF old_
<1>3. [old_ EXCEPT !.data = data, !.dirty = TRUE] = r
  <2> SUFFICES ASSUME NEW s, s = [old_ EXCEPT !.data = data, !.dirty = TRUE] PROVE s = r
    OBVIOUS
  <2> QED BY <1>1 DEF HandleRec
<1>4. TRUE \in BOOLEAN OBVIOUS
<1>5. r \in HandleRec BY <1>1, <1>4 DEF HandleRec
<1>6. r.pc = old_.pc /\ r.node = old_.node /\ r.data = data /\ r.i = old_.i OBVIOUS
<1>7. \A g \in Handles \ {h} : handle'[g] = handle[g] BY DEF FuseTypes
<1>8. handle' = [g \in Handles |-> handle'[g]] BY DEF FuseTypes
<1>9. handle'[h] = r BY <1>2, <1>3
<1> HIDE DEF r
<1>10. \A g \in Handles : handle'[g] \in HandleRec BY <1>5, <1>7, <1>9 DEF FuseTypes
<1> QED BY <1>6, <1>7, <1>8, <1>9, <1>10 DEF old_

LEMMA ResizedType ==
  ASSUME NEW data \in Buffers \cup {Nil}, NEW n \in 0..MaxData
  PROVE  Resized(data, n) \in [1..n -> Hashes] /\ Resized(data, n) \in Buffers
<1> USE FuseAssumption DEF Resized, Length
<1>1. CASE data = Nil BY <1>1 DEF Buffers
<1>2. CASE data # Nil
  <2>1. data \in Buffers BY <1>2
  <2>2. Len(data) \in 0..MaxData /\ \A j \in 1..Len(data) : data[j] \in Hashes BY <2>1, BufferType
  <2>3. Resized(data, n) \in [1..n -> Hashes] BY <1>2, <2>2
  <2> QED BY <2>3 DEF Buffers
<1> QED BY <1>1, <1>2

LEMMA FuseStart == NewVaultDriftFS => FuseIInv
<1> SUFFICES ASSUME NewVaultDriftFS PROVE FuseIInv OBVIOUS
<1> USE DEF NewVaultDriftFS
<1>1. handle \in [Handles -> HandleRec] /\ \A h \in Handles : handle[h] = Closed BY ClosedType
<1>2. FuseTypes BY <1>1, FuseAssumption DEF FuseTypes, Tables, EmptyTable, NoRow
<1>3. \A h \in Handles : HandleOK(h) BY <1>1, ClosedType DEF HandleOK
<1>4. OneLinker BY <1>1, ClosedType DEF OneLinker
<1>5. ASSUME NEW x \in Hashes PROVE Cover(x)
  <2>1. ~HasRow(table, x) BY DEF HasRow, EmptyTable
  <2>2. UsedAt(x) = {} BY DEF UsedAt
  <2>3. CountedAt(x) = {} BY <1>1, ClosedType DEF CountedAt, Storing
  <2> QED BY <2>1, <2>2, <2>3 DEF Cover
<1> QED BY <1>2, <1>3, <1>4, <1>5 DEF FuseIInv

LEMMA HandleFields ==
  ASSUME FuseTypes, NEW h \in Handles
  PROVE  /\ handle[h] \in HandleRec /\ handle[h].pc \in Steps
         /\ handle[h].node \in Nodes \cup {Nil} /\ handle[h].data \in Buffers \cup {Nil}
         /\ handle[h].i \in 1..(MaxData + 1)
BY DEF FuseTypes, HandleRec

(* What the release at h holds past the "open" step.                         *)
LEMMA Holding ==
  ASSUME FuseIInv, NEW h \in Handles, handle[h].pc \notin {"closed", "open"}
  PROVE  /\ handle[h].data \in Buffers /\ handle[h].node \in Nodes
         /\ Len(handle[h].data) \in 1..MaxData
         /\ DOMAIN handle[h].data = 1..Len(handle[h].data)
         /\ \A j \in 1..Len(handle[h].data) : handle[h].data[j] \in Hashes
<1>1. HandleOK(h) /\ FuseTypes BY DEF FuseIInv
<1>2. handle[h].data \in Buffers BY <1>1, HandleFields DEF HandleOK
<1> QED BY <1>1, <1>2, BufferType, FuseAssumption DEF HandleOK

(* Steps before a release writes back.                                       *)
LEMMA OpenSteps ==
  ASSUME FuseIInv, NEW h \in Handles,
         CreateNode(h) \/ OpenNode(h) \/ WriteNode(h) \/ Setattr(h) \/ Release(h)
  PROVE  FuseIInv'
<1> FuseTypes /\ HandleOK(h) BY DEF FuseIInv
<1>1. CASE CreateNode(h)
  <2>1. PICK f \in Nodes : entry[f] = "none" /\ entry' = [entry EXCEPT ![f] = "new"] /\ OpenAs(h, f, <<>>)
    BY <1>1 DEF CreateNode
  <2>2. UNCHANGED <<table, held, manifest, saves, wiped>> BY <1>1 DEF CreateNode
  <2>3. <<>> \in Buffers /\ <<>> # Nil
    <3>1. <<>> \in [1..0 -> Hashes] /\ 0 \in 0..MaxData BY FuseAssumption
    <3>2. <<>> \in Buffers BY <3>1 DEF Buffers
    <3> QED BY <3>2, BufferType
  <2>4. /\ handle' \in [Handles -> HandleRec]
        /\ \A g \in Handles \ {h} : handle'[g] = handle[g]
        /\ handle'[h].pc = "open" /\ handle'[h].node = f /\ handle'[h].data = <<>>
        /\ handle'[h].dirty = FALSE /\ handle'[h].i = 1
    BY <2>1, <2>3, Opened
  <2>5. FuseTypes' BY <2>1, <2>2, <2>4 DEF FuseTypes
  <2>6. HandleOK(h)' BY <2>3, <2>4 DEF HandleOK
  <2>7. \A e \in Nodes : entry'[e] = "linked" => entry[e] = "linked" BY <2>1 DEF FuseTypes
  <2> QED BY <2>2, <2>4, <2>5, <2>6, <2>7, QuietStep
<1>2. CASE OpenNode(h)
  <2>1. PICK f \in Nodes : OpenAs(h, f, Nil) BY <1>2 DEF OpenNode
  <2>2. UNCHANGED <<table, held, entry, manifest, saves, wiped>> BY <1>2 DEF OpenNode
  <2>4. /\ handle' \in [Handles -> HandleRec]
        /\ \A g \in Handles \ {h} : handle'[g] = handle[g]
        /\ handle'[h].pc = "open" /\ handle'[h].node = f /\ handle'[h].data = Nil
        /\ handle'[h].dirty = FALSE /\ handle'[h].i = 1
    BY <2>1, Opened
  <2>5. FuseTypes' BY <2>2, <2>4 DEF FuseTypes
  <2>6. HandleOK(h)' BY <2>4 DEF HandleOK
  <2> QED BY <2>2, <2>4, <2>5, <2>6, QuietStep
<1>3. CASE WriteNode(h) \/ Setattr(h)
  <2>1. UNCHANGED <<table, held, entry, manifest, saves, wiped>> /\ handle[h].pc = "open"
    BY <1>3 DEF WriteNode, Setattr
  <2>2. PICK data \in Buffers : handle' = [handle EXCEPT ![h].data = data, ![h].dirty = TRUE]
    <3>1. CASE WriteNode(h)
      <4> DEFINE d == handle[h].data
      <4>1. PICK off \in 0..(MaxData - 1), b \in Hashes :
              LET room == IF off + 1 > Length(d) THEN Resized(d, off + 1) ELSE d
              IN  handle' = [handle EXCEPT ![h].data = [room EXCEPT ![off + 1] = b], ![h].dirty = TRUE]
        BY <3>1 DEF WriteNode
      <4> DEFINE room == IF off + 1 > Length(d) THEN Resized(d, off + 1) ELSE d
      <4>2. d \in Buffers \cup {Nil} BY HandleFields
      <4> HIDE DEF d
      <4>3. room \in Buffers
        <5>1. CASE off + 1 > Length(d)
          <6>1. off + 1 \in 0..MaxData BY FuseAssumption
          <6> QED BY <4>2, <5>1, <6>1, ResizedType
        <5>2. CASE ~(off + 1 > Length(d)) BY <4>2, <5>2 DEF Length
        <5> QED BY <5>1, <5>2
      <4> HIDE DEF room
      <4>4. [room EXCEPT ![off + 1] = b] \in Buffers BY <4>3 DEF Buffers
      <4> QED BY <4>1, <4>4 DEF room
    <3>2. CASE Setattr(h)
      <4>1. PICK size \in 0..MaxData :
              handle' = [handle EXCEPT ![h].data = Resized(@, size), ![h].dirty = TRUE]
        BY <3>2 DEF Setattr
      <4>2. Resized(handle[h].data, size) \in Buffers BY HandleFields, ResizedType
      <4>3. handle' = [handle EXCEPT ![h].data = Resized(handle[h].data, size), ![h].dirty = TRUE]
        BY <4>1
      <4> QED BY <4>2, <4>3
    <3> QED BY <1>3, <3>1, <3>2
  <2>3. /\ handle' \in [Handles -> HandleRec]
        /\ \A g \in Handles \ {h} : handle'[g] = handle[g]
        /\ handle'[h].pc = "open" /\ handle'[h].node = handle[h].node
        /\ handle'[h].data = data /\ handle'[h].i = handle[h].i
    BY <2>1, <2>2, Changed
  <2>4. data # Nil BY BufferType
  <2>5. FuseTypes' BY <2>1, <2>3 DEF FuseTypes
  <2>6. HandleOK(h)' BY <2>1, <2>3, <2>4 DEF HandleOK
  <2>7. handle'[h].pc \notin Storing BY <2>3 DEF Storing
  <2> QED BY <2>1, <2>3, <2>5, <2>6, <2>7, QuietStep
<1>4. CASE Release(h)
  <2>1. UNCHANGED <<table, held, entry, manifest, wiped>> /\ handle[h].pc = "open"
    BY <1>4 DEF Release, InStep
  <2>2. CASE handle[h].dirty /\ Len(handle[h].data) > 0
    <3>1. saves' \in 0..MaxSaves /\ MoveTo(h, "exists")
      BY <1>4, <2>2, FuseAssumption DEF Release, FuseTypes
    <3>2. handle[h].i = 1 /\ 1 \in 1..(MaxData + 1) /\ handle[h].data \in Buffers
      BY <2>1, <2>2, HandleFields, FuseAssumption DEF HandleOK
    <3>3. Goes(h, "exists", 1) BY <3>1, <3>2, GoesOn DEF MoveTo, Steps
    <3>4. FuseTypes' BY <2>1, <3>1, <3>3 DEF FuseTypes, Goes
    <3>5. Len(handle[h].data) \in Nat BY <3>2, BufferType
    <3>6. HandleOK(h)' BY <2>1, <2>2, <3>2, <3>3, <3>5, BufferType DEF HandleOK, Goes
    <3> QED BY <2>1, <3>3, <3>4, <3>6, QuietStep DEF Goes
  <2>3. CASE ~(handle[h].dirty /\ Len(handle[h].data) > 0)
    <3>1. CloseHandle(h) /\ UNCHANGED saves BY <1>4, <2>3 DEF Release
    <3>2. FuseTypes' BY <2>1, <3>1, Closes DEF FuseTypes
    <3> QED BY <2>1, <3>1, <3>2, Closes, ClosedOK, ClosedType, QuietStep
  <2> QED BY <2>2, <2>3
<1> QED BY <1>1, <1>2, <1>3, <1>4

(* A release that gives up without a cleanup.                                *)
LEMMA GivesUp ==
  ASSUME FuseIInv, NEW h \in Handles, CloseHandle(h),
         UNCHANGED <<table, held, entry, manifest, saves, wiped>>
  PROVE  FuseIInv'
<1> FuseTypes BY DEF FuseIInv
<1>1. FuseTypes' BY Closes DEF FuseTypes
<1> QED BY <1>1, Closes, ClosedOK, ClosedType, QuietStep

(* The release has counted chunk i of its buffer and goes on to the next.    *)
LEMMA Counts ==
  ASSUME FuseIInv, NEW h \in Handles, handle[h].pc \in {"count", "row"},
         Goes(h, "exists", handle[h].i + 1),
         table' \in Tables,
         \A x \in Hashes : table'[x] = IF x # Current(h) THEN table[x]
                                       ELSE IF HasRow(table, x) THEN table[x] + 1 ELSE 1,
         Current(h) \in held \cup wiped,
         UNCHANGED <<held, entry, manifest, saves, wiped>>
  PROVE  FuseIInv'
<1> DEFINE i == handle[h].i
<1>1. FuseTypes /\ HandleOK(h) BY DEF FuseIInv
<1>2. i \in 1..Len(handle[h].data) /\ Len(handle[h].data) \in 1..MaxData
  BY <1>1, Holding, HandleFields DEF HandleOK
<1>3. FuseTypes' BY <1>1 DEF FuseTypes, Goes
<1>4. HandleOK(h)' BY <1>1, <1>2, FuseAssumption DEF HandleOK, Goes
<1>5. ASSUME NEW x \in Hashes, NEW p \in CountedAt(x)'
      PROVE  p \in CountedAt(x) \/ (p = <<h, i>> /\ x = Current(h))
  <2>1. p \in Handles \X (1..MaxData) BY <1>5 DEF CountedAt
  <2>2. PICK g \in Handles, j \in 1..MaxData : p = <<g, j>> BY <2>1
  <2>3. /\ handle'[g].pc \in Storing /\ j \in DOMAIN handle'[g].data
        /\ j < handle'[g].i /\ handle'[g].data[j] = x
    BY <1>5, <2>2 DEF CountedAt
  <2>4. CASE g # h BY <2>1, <2>2, <2>3, <2>4 DEF CountedAt, Goes
  <2>5. CASE g = h
    <3>1. j \in DOMAIN handle[h].data /\ handle[h].data[j] = x /\ j < i + 1
      BY <2>3, <2>5 DEF Goes
    <3>2. CASE j = i BY <2>2, <2>5, <3>1, <3>2 DEF Current
    <3>3. CASE j # i
      <4>1. j < i BY <1>2, <3>1, <3>3
      <4>2. handle[h].pc \in Storing BY DEF Storing
      <4> QED BY <2>1, <2>2, <2>5, <3>1, <4>1, <4>2 DEF CountedAt
    <3> QED BY <3>2, <3>3
  <2> QED BY <2>4, <2>5
<1>6. \A x : UsedAt(x)' = UsedAt(x) BY DEF UsedAt
<1>7. ASSUME NEW x \in Hashes, x \notin wiped' PROVE Cover(x)'
  <2>1. Cover(x) /\ table \in Tables BY <1>1, <1>7 DEF FuseIInv, FuseTypes
  <2>2. CASE x = Current(h)
    <3>1. CountedAt(x)' \subseteq CountedAt(x) \cup {<<h, i>>} BY <1>5
    <3>2. x \in held' BY <1>7, <2>2
    <3> QED BY <1>6, <2>1, <2>2, <3>1, <3>2, CoverGrows
  <2>3. CASE x # Current(h)
    <3>1. CountedAt(x)' \subseteq CountedAt(x) BY <1>5, <2>3
    <3> QED BY <1>6, <2>1, <2>3, <3>1, CoverShrinks
  <2> QED BY <2>2, <2>3
<1>8. ASSUME NEW g \in Handles \ {h}, handle[g].pc = "link"
      PROVE  /\ manifest'[handle[g].node] # Nil /\ entry'[handle[g].node] # "linked"
             /\ ~(handle'[h].pc = "link" /\ handle'[h].node = handle[g].node)
  BY <1>8 DEF FuseIInv, HandleOK, Goes
<1>9. \A f \in Nodes : entry'[f] = "linked" => manifest'[f] # Nil BY DEF FuseIInv
<1> QED BY <1>3, <1>4, <1>7, <1>8, <1>9, HandleStep DEF Goes

(* Places that move from one owner to another are as many as before.         *)
LEMMA Transfer ==
  ASSUME NEW U, NEW C, NEW S, IsFiniteSet(U), IsFiniteSet(C), IsFiniteSet(S), NEW f, NEW h,
         {h} \X S \subseteq C
  PROVE  Cardinality(U \cup ({f} \X S)) + Cardinality(C \ ({h} \X S)) <= Cardinality(U) + Cardinality(C)
<1>1. Cardinality(S) \in Nat /\ Cardinality(U) \in Nat /\ Cardinality(C) \in Nat BY FS_CardinalityType
<1>2. ASSUME NEW a PROVE IsFiniteSet({a} \X S) /\ Cardinality({a} \X S) = Cardinality(S)
  <2>1. IsFiniteSet({a}) /\ Cardinality({a}) = 1 BY FS_Singleton
  <2>2. IsFiniteSet({a} \X S) /\ Cardinality({a} \X S) = 1 * Cardinality(S) BY <2>1, FS_Product
  <2> QED BY <1>1, <2>2
<1>3. Cardinality(U \cup ({f} \X S)) <= Cardinality(U) + Cardinality(S)
  <2>1. IsFiniteSet({f} \X S) /\ Cardinality({f} \X S) = Cardinality(S) BY <1>2
  <2>2. Cardinality(U \cup ({f} \X S)) = Cardinality(U) + Cardinality(S) - Cardinality(U \cap ({f} \X S))
    BY <2>1, FS_Union
  <2>3. IsFiniteSet(U \cap ({f} \X S)) BY FS_Intersection
  <2>4. Cardinality(U \cap ({f} \X S)) \in Nat BY <2>3, FS_CardinalityType
  <2> QED BY <1>1, <2>2, <2>4
<1>4. Cardinality(C \ ({h} \X S)) = Cardinality(C) - Cardinality(S)
  <2>1. C \cap ({h} \X S) = {h} \X S OBVIOUS
  <2>2. Cardinality({h} \X S) = Cardinality(S) BY <1>2
  <2>3. Cardinality(C \ ({h} \X S)) = Cardinality(C) - Cardinality(C \cap ({h} \X S))
    BY FS_Difference
  <2> QED BY <2>1, <2>2, <2>3
<1>5. IsFiniteSet(U \cup ({f} \X S)) BY <1>2, FS_Union
<1>6. Cardinality(U \cup ({f} \X S)) \in Nat BY <1>5, FS_CardinalityType
<1> QED BY <1>1, <1>3, <1>4, <1>6

(* The manifest takes over the counts of the release that inserts it.        *)
LEMMA InsertsManifest ==
  ASSUME FuseIInv, NEW h \in Handles, handle[h].pc = "manifest", manifest[handle[h].node] = Nil,
         manifest' = [manifest EXCEPT ![handle[h].node] = handle[h].data],
         MoveTo(h, "link"), UNCHANGED <<table, held, entry, saves, wiped>>
  PROVE  FuseIInv'
<1> DEFINE f == handle[h].node
           data == handle[h].data
           n == Len(data)
<1>1. FuseTypes /\ HandleOK(h) BY DEF FuseIInv
<1>2. /\ data \in Buffers /\ f \in Nodes /\ n \in 1..MaxData /\ DOMAIN data = 1..n
      /\ handle[h].i = n + 1 /\ data # Nil
  BY <1>1, Holding DEF HandleOK
<1>3. Goes(h, "link", handle[h].i) BY <1>1, HandleFields, GoesOn DEF MoveTo, Steps
<1>4. FuseTypes' BY <1>1, <1>2, <1>3 DEF FuseTypes, Goes
<1>5. entry[f] # "linked" BY <1>2 DEF FuseIInv
<1>6. HandleOK(h)' BY <1>1, <1>2, <1>3, <1>5 DEF HandleOK, Goes, FuseTypes
<1>7. ASSUME NEW g \in Handles \ {h}, handle[g].pc = "link"
      PROVE  /\ manifest'[handle[g].node] # Nil /\ entry'[handle[g].node] # "linked"
             /\ ~(handle'[h].pc = "link" /\ handle'[h].node = handle[g].node)
  <2>1. HandleOK(g) BY DEF FuseIInv
  <2>2. /\ manifest[handle[g].node] # Nil /\ entry[handle[g].node] # "linked"
        /\ handle[g].node \in Nodes
    BY <1>7, <2>1 DEF HandleOK
  <2> QED BY <1>1, <1>2, <1>3, <2>2 DEF FuseTypes, Goes
<1>8. \A e \in Nodes : entry'[e] = "linked" => manifest'[e] # Nil BY <1>1, <1>2 DEF FuseIInv, FuseTypes
<1>9. ASSUME NEW x \in Hashes, x \notin wiped' PROVE Cover(x)'
  <2> DEFINE S == {j \in 1..n : data[j] = x}
  <2>1. Cover(x) /\ table[x] \in Int BY <1>1, <1>9 DEF FuseIInv, FuseTypes, Tables, NoRow
  <2>2. IsFiniteSet(S)
    <3>1. n \in Nat
      <4>1. n \in 1..MaxData BY <1>2
      <4> HIDE DEF n
      <4> QED BY <4>1
    <3>2. IsFiniteSet(1..n)
      <4> HIDE DEF n
      <4> QED BY ONLY <3>1, UpToFinite
    <3>3. S \in SUBSET (1..n) OBVIOUS
    <3> QED BY <3>2, <3>3, FS_Subset
  <2>3. {h} \X S \subseteq CountedAt(x)
    <3> SUFFICES ASSUME NEW j \in S PROVE <<h, j>> \in CountedAt(x) OBVIOUS
    <3>1. j \in 1..MaxData /\ j \in DOMAIN data /\ j < n + 1 BY <1>2, FuseAssumption
    <3> QED BY <1>2, <3>1 DEF CountedAt, Storing
  <2>4. UsedAt(x)' \subseteq UsedAt(x) \cup ({f} \X S)
    <3> SUFFICES ASSUME NEW p \in UsedAt(x)' PROVE p \in UsedAt(x) \cup ({f} \X S) OBVIOUS
    <3>1. p \in Nodes \X (1..MaxData) BY DEF UsedAt
    <3>2. PICK e \in Nodes, j \in 1..MaxData : p = <<e, j>> BY <3>1
    <3>3. manifest'[e] # Nil /\ j \in DOMAIN manifest'[e] /\ manifest'[e][j] = x BY <3>2 DEF UsedAt
    <3>4. CASE e = f
      <4>1. manifest'[e] = data BY <1>1, <1>2, <3>4 DEF FuseTypes
      <4>2. j \in S BY <1>2, <3>3, <4>1
      <4> QED BY <3>2, <3>4, <4>2
    <3>5. CASE e # f
      <4>1. manifest'[e] = manifest[e] BY <1>1, <1>2, <3>5 DEF FuseTypes
      <4> QED BY <3>1, <3>2, <3>3, <4>1 DEF UsedAt
    <3> QED BY <3>4, <3>5
  <2>5. CountedAt(x)' \subseteq CountedAt(x) \ ({h} \X S)
    <3> SUFFICES ASSUME NEW p \in CountedAt(x)' PROVE p \in CountedAt(x) /\ p \notin {h} \X S OBVIOUS
    <3>1. p \in Handles \X (1..MaxData) BY DEF CountedAt
    <3>2. PICK g \in Handles, j \in 1..MaxData : p = <<g, j>> BY <3>1
    <3>3. /\ handle'[g].pc \in Storing /\ j \in DOMAIN handle'[g].data
          /\ j < handle'[g].i /\ handle'[g].data[j] = x
      BY <3>2 DEF CountedAt
    <3>4. g # h BY <1>3, <3>3 DEF Goes, Storing
    <3>5. handle'[g] = handle[g] BY <1>3, <3>4 DEF Goes
    <3> QED BY <3>1, <3>2, <3>3, <3>4, <3>5 DEF CountedAt
  <2> HIDE DEF S
  <2>6. CASE HasRow(table, x)
    <3>1. IsFiniteSet(UsedAt(x)) /\ IsFiniteSet(CountedAt(x)) BY CountsFinite
    <3>2. Cardinality(UsedAt(x) \cup ({f} \X S)) + Cardinality(CountedAt(x) \ ({h} \X S))
            <= Cardinality(UsedAt(x)) + Cardinality(CountedAt(x))
      BY <2>2, <2>3, <3>1, Transfer
    <3>3. IsFiniteSet({f} \X S)
      <4>1. IsFiniteSet({f}) BY FS_Singleton
      <4> QED BY <2>2, <4>1, FS_Product
    <3>4. /\ IsFiniteSet(UsedAt(x) \cup ({f} \X S)) /\ IsFiniteSet(CountedAt(x) \ ({h} \X S))
      BY <3>1, <3>3, FS_Union, FS_Difference
    <3>5. /\ Cardinality(UsedAt(x)') <= Cardinality(UsedAt(x) \cup ({f} \X S))
          /\ Cardinality(CountedAt(x)') <= Cardinality(CountedAt(x) \ ({h} \X S))
          /\ Cardinality(UsedAt(x) \cup ({f} \X S)) \in Nat
          /\ Cardinality(CountedAt(x) \ ({h} \X S)) \in Nat
      BY <2>4, <2>5, <3>4, FS_Subset, FS_CardinalityType
    <3>6. x \in held /\ Cardinality(UsedAt(x)) + Cardinality(CountedAt(x)) <= table[x]
      BY <2>1, <2>6 DEF Cover
    <3> QED BY <2>1, <2>6, <3>2, <3>5, <3>6, CountsFinite, CountsFiniteNext DEF Cover, HasRow
  <2>7. CASE ~HasRow(table, x)
    <3>1. UsedAt(x) = {} /\ CountedAt(x) = {} BY <2>1, <2>7 DEF Cover
    <3>2. {f} \X S = {}
      <4>1. ASSUME NEW j \in S PROVE FALSE
        <5>1. <<h, j>> \in {h} \X S BY <4>1
        <5> QED BY <2>3, <3>1, <5>1
      <4> QED BY <4>1
    <3> QED BY <2>4, <2>5, <2>7, <3>1, <3>2 DEF Cover, HasRow
  <2> QED BY <2>6, <2>7
<1> QED BY <1>3, <1>4, <1>6, <1>7, <1>8, <1>9, HandleStep DEF Goes

(* The cleanup of a release starts, with the manifests no larger.            *)
LEMMA StartsWipe ==
  ASSUME FuseIInv, NEW h \in Handles, handle[h].pc \in {"manifest", "link"}, StartWipe(h),
         \/ UNCHANGED manifest
         \/ handle[h].pc = "link" /\ manifest' = [manifest EXCEPT ![handle[h].node] = Nil],
         UNCHANGED <<table, held, entry, saves, wiped>>
  PROVE  FuseIInv'
<1>1. FuseTypes /\ HandleOK(h) BY DEF FuseIInv
<1>2. 1 \in 1..(MaxData + 1) BY FuseAssumption
<1>3. Goes(h, "wipeData", 1) BY <1>1, <1>2, GoesOn DEF StartWipe, Steps
<1>4. Len(handle[h].data) \in 1..MaxData /\ handle[h].node \in Nodes BY Holding
<1>5. FuseTypes' BY <1>1, <1>3, <1>4 DEF FuseTypes, Goes
<1>6. HandleOK(h)' BY <1>1, <1>3, <1>4 DEF HandleOK, Goes
<1>7. CASE UNCHANGED manifest BY <1>3, <1>5, <1>6, <1>7, QuietStep DEF Goes
<1>8. CASE handle[h].pc = "link" /\ manifest' = [manifest EXCEPT ![handle[h].node] = Nil]
  <2>1. \A x : CountedAt(x)' \subseteq CountedAt(x) BY <1>1, <1>3, CountedKept DEF Goes
  <2>2. ASSUME NEW x, NEW p \in UsedAt(x)' PROVE p \in UsedAt(x)
    <3>1. PICK e \in Nodes, j \in 1..MaxData : p = <<e, j>> BY <2>2 DEF UsedAt
    <3>2. manifest'[e] # Nil /\ j \in DOMAIN manifest'[e] /\ manifest'[e][j] = x
      BY <2>2, <3>1 DEF UsedAt
    <3>3. manifest'[e] = manifest[e] BY <1>1, <1>4, <1>8, <3>2 DEF FuseTypes
    <3> QED BY <3>1, <3>2, <3>3 DEF UsedAt
  <2>3. ASSUME NEW x \in Hashes, x \notin wiped' PROVE Cover(x)'
    <3>1. Cover(x) /\ table \in Tables BY <1>1, <2>3 DEF FuseIInv, FuseTypes
    <3>2. UsedAt(x)' \subseteq UsedAt(x) BY <2>2
    <3> QED BY <2>1, <3>1, <3>2, CoverShrinks
  <2>4. entry[handle[h].node] # "linked" BY <1>1, <1>8 DEF HandleOK
  <2>5. \A e \in Nodes : entry'[e] = "linked" => manifest'[e] # Nil
    BY <1>1, <1>8, <2>4 DEF FuseIInv, FuseTypes
  <2>6. ASSUME NEW g \in Handles \ {h}, handle[g].pc = "link"
        PROVE  /\ manifest'[handle[g].node] # Nil /\ entry'[handle[g].node] # "linked"
               /\ ~(handle'[h].pc = "link" /\ handle'[h].node = handle[g].node)
    <3>1. HandleOK(g) /\ handle[g].node # handle[h].node
      BY <1>8, <2>6 DEF FuseIInv, OneLinker
    <3>2. /\ manifest[handle[g].node] # Nil /\ entry[handle[g].node] # "linked"
          /\ handle[g].node \in Nodes
      BY <2>6, <3>1 DEF HandleOK
    <3> QED BY <1>1, <1>3, <1>8, <3>1, <3>2 DEF FuseTypes, Goes
  <2> QED BY <1>3, <1>5, <1>6, <2>3, <2>5, <2>6, HandleStep DEF Goes
<1> QED BY <1>7, <1>8

LEMMA FuseStep == FuseIInv /\ [FuseNext]_fuseVars => FuseIInv'
<1> SUFFICES ASSUME FuseIInv, [FuseNext]_fuseVars PROVE FuseIInv' OBVIOUS
<1>0. FuseTypes /\ \A h \in Handles : HandleOK(h) BY DEF FuseIInv
<1>1. ASSUME NEW h \in Handles,
             CreateNode(h) \/ OpenNode(h) \/ WriteNode(h) \/ Setattr(h) \/ Release(h)
      PROVE  FuseIInv'
  BY <1>1, OpenSteps
<1>2. ASSUME NEW h \in Handles, ChunkExists(h) PROVE FuseIInv'
  <2> DEFINE i == handle[h].i
             n == Len(handle[h].data)
  <2>1. UNCHANGED <<table, held, entry, manifest, saves, wiped>> /\ handle[h].pc = "exists"
    BY <1>2 DEF ChunkExists, InStep
  <2>2. n \in 1..MaxData /\ i \in 1..(n + 1) /\ i \in 1..(MaxData + 1)
    BY <1>0, <2>1, Holding, HandleFields DEF HandleOK
  <2>3. \/ i > n /\ MoveTo(h, "manifest")
        \/ i <= n /\ (MoveTo(h, "count") \/ MoveTo(h, "put"))
    BY <1>2, <2>2 DEF ChunkExists
  <2>4. \/ i > n /\ Goes(h, "manifest", i)
        \/ i <= n /\ (Goes(h, "count", i) \/ Goes(h, "put", i))
    BY <1>0, <2>2, <2>3, GoesOn DEF MoveTo, Steps
  <2>5. FuseTypes' BY <1>0, <2>1, <2>4 DEF FuseTypes, Goes
  <2>6. HandleOK(h)' BY <1>0, <2>1, <2>2, <2>4 DEF HandleOK, Goes
  <2>7. /\ handle[h].pc \in Storing /\ handle'[h].i = i /\ handle'[h].data = handle[h].data
        /\ handle'[h].pc # "link" /\ \A g \in Handles \ {h} : handle'[g] = handle[g]
    BY <2>1, <2>4 DEF Goes, Storing
  <2> QED BY <2>1, <2>5, <2>6, <2>7, QuietStep
<1>3. ASSUME NEW h \in Handles, IncrementRefCount(h) PROVE FuseIInv'
  <2> DEFINE x == Current(h)
  <2>1. UNCHANGED <<held, entry, manifest, saves, wiped>> /\ handle[h].pc = "count"
    BY <1>3 DEF IncrementRefCount, InStep
  <2>2. CASE HasRow(table, x)
    <3>1. table' = [table EXCEPT ![x] = @ + 1] /\ NextChunk(h, "exists")
      BY <1>3, <2>2 DEF IncrementRefCount, RowIncremented
    <3>2. handle[h].i \in 1..Len(handle[h].data) /\ Len(handle[h].data) \in 1..MaxData /\ x \in Hashes
      BY <1>0, <2>1, Holding, HandleFields DEF HandleOK, Current
    <3>3. handle[h].i + 1 \in 1..(MaxData + 1) BY <3>2, FuseAssumption
    <3>4. Goes(h, "exists", handle[h].i + 1) BY <1>0, <3>1, <3>3, GoesOn DEF NextChunk, Steps
    <3>5. table[x] \in Nat BY <1>0, <2>2, <3>2 DEF FuseTypes, Tables, HasRow
    <3>6. table' \in Tables /\ \A y \in Hashes : table'[y] = IF y # x THEN table[y] ELSE table[y] + 1
      BY <1>0, <3>1, <3>2, <3>5 DEF FuseTypes, Tables
    <3>7. x \in held \cup wiped BY <2>2, <3>2 DEF FuseIInv, Cover
    <3> QED BY <2>1, <2>2, <3>4, <3>6, <3>7, Counts
  <2>3. CASE ~HasRow(table, x) BY <1>3, <2>3, GivesUp DEF IncrementRefCount
  <2> QED BY <2>2, <2>3
<1>4. ASSUME NEW h \in Handles, PutChunk(h) PROVE FuseIInv'
  <2>1. /\ UNCHANGED <<table, entry, manifest, saves, wiped>> /\ handle[h].pc = "put"
        /\ held' = held \cup {Current(h)} /\ MoveTo(h, "row")
    BY <1>4 DEF PutChunk, InStep
  <2>2. handle[h].i \in 1..Len(handle[h].data) /\ Current(h) \in Hashes
    BY <1>0, <2>1, Holding, HandleFields DEF HandleOK, Current
  <2>3. Goes(h, "row", handle[h].i) BY <1>0, <2>1, HandleFields, GoesOn DEF MoveTo, Steps
  <2>4. FuseTypes' BY <1>0, <2>1, <2>2, <2>3 DEF FuseTypes, Goes
  <2>5. HandleOK(h)' BY <1>0, <2>1, <2>2, <2>3 DEF HandleOK, Goes, Current
  <2>6. handle[h].pc \in Storing BY <2>1 DEF Storing
  <2> QED BY <2>1, <2>3, <2>4, <2>5, <2>6, QuietStep DEF Goes
<1>5. ASSUME NEW h \in Handles, InsertRow(h) PROVE FuseIInv'
  <2> DEFINE x == Current(h)
  <2>1. UNCHANGED <<held, entry, manifest, saves, wiped>> /\ handle[h].pc = "row"
    BY <1>5 DEF InsertRow, InStep
  <2>2. CASE ~HasRow(table, x)
    <3>1. table' = [table EXCEPT ![x] = 1] /\ NextChunk(h, "exists")
      BY <1>5, <2>2 DEF InsertRow, RowInserted
    <3>2. handle[h].i \in 1..Len(handle[h].data) /\ Len(handle[h].data) \in 1..MaxData /\ x \in Hashes
      BY <1>0, <2>1, Holding, HandleFields DEF HandleOK, Current
    <3>3. handle[h].i + 1 \in 1..(MaxData + 1) BY <3>2, FuseAssumption
    <3>4. Goes(h, "exists", handle[h].i + 1) BY <1>0, <3>1, <3>3, GoesOn DEF NextChunk, Steps
    <3>6. table' \in Tables /\ \A y \in Hashes : table'[y] = IF y # x THEN table[y] ELSE 1
      BY <1>0, <3>1, <3>2 DEF FuseTypes, Tables
    <3>7. x \in held \cup wiped BY <1>0, <2>1 DEF HandleOK, Current
    <3> QED BY <2>1, <2>2, <3>4, <3>6, <3>7, Counts
  <2>3. CASE HasRow(table, x) BY <1>5, <2>3, GivesUp DEF InsertRow
  <2> QED BY <2>2, <2>3
<1>6. ASSUME NEW h \in Handles, InsertVersion(h) PROVE FuseIInv'
  <2>1. CASE manifest[handle[h].node] = Nil
    BY <1>6, <2>1, InsertsManifest DEF InsertVersion, InStep
  <2>2. CASE manifest[handle[h].node] # Nil
    BY <1>6, <2>2, StartsWipe DEF InsertVersion, InStep
  <2> QED BY <2>1, <2>2
<1>7. ASSUME NEW h \in Handles, LinkManifest(h) PROVE FuseIInv'
  <2> DEFINE f == handle[h].node
  <2>1. /\ handle[h].pc = "link" /\ CloseHandle(h) /\ entry' = [entry EXCEPT ![f] = "linked"]
        /\ UNCHANGED <<table, held, manifest, saves, wiped>>
    BY <1>7 DEF LinkManifest, InStep
  <2>2. f \in Nodes /\ manifest[f] # Nil BY <1>0, <2>1 DEF HandleOK
  <2>3. /\ handle' \in [Handles -> HandleRec] /\ handle'[h] = Closed
        /\ \A g \in Handles \ {h} : handle'[g] = handle[g]
    BY <1>0, <2>1, Closes
  <2>4. FuseTypes' BY <1>0, <2>1, <2>2, <2>3 DEF FuseTypes
  <2>5. HandleOK(h)' BY <2>3, ClosedOK
  <2>6. \A e \in Nodes : entry'[e] = "linked" => manifest'[e] # Nil
    BY <1>0, <2>1, <2>2 DEF FuseIInv, FuseTypes
  <2>7. ASSUME NEW g \in Handles \ {h}, handle[g].pc = "link"
        PROVE  /\ manifest'[handle[g].node] # Nil /\ entry'[handle[g].node] # "linked"
               /\ ~(handle'[h].pc = "link" /\ handle'[h].node = handle[g].node)
    <3>1. HandleOK(g) /\ handle[g].node # f BY <2>1, <2>7 DEF FuseIInv, OneLinker
    <3>2. /\ manifest[handle[g].node] # Nil /\ entry[handle[g].node] # "linked"
          /\ handle[g].node \in Nodes
      BY <2>7, <3>1 DEF HandleOK
    <3> QED BY <1>0, <2>1, <2>3, <3>1, <3>2, ClosedType DEF FuseTypes
  <2>8. \A x : CountedAt(x)' \subseteq CountedAt(x) BY <1>0, <2>3, ClosedType, CountedKept DEF Storing
  <2>9. ASSUME NEW x \in Hashes, x \notin wiped' PROVE Cover(x)'
    <3>1. Cover(x) /\ table \in Tables BY <1>0, <2>1, <2>9 DEF FuseIInv, FuseTypes
    <3>2. UsedAt(x)' = UsedAt(x) BY <2>1 DEF UsedAt
    <3> QED BY <2>1, <2>8, <3>1, <3>2, CoverShrinks
  <2> QED BY <2>1, <2>3, <2>4, <2>5, <2>6, <2>7, <2>9, HandleStep
<1>8. ASSUME NEW h \in Handles, WipeData(h) PROVE FuseIInv'
  <2>1. /\ UNCHANGED <<table, entry, manifest, saves>> /\ handle[h].pc = "wipeData"
        /\ held' = held \ {Current(h)} /\ wiped' = wiped \cup {Current(h)} /\ MoveTo(h, "wipeRow")
    BY <1>8 DEF WipeData, InStep
  <2>2. handle[h].i \in 1..Len(handle[h].data) /\ Current(h) \in Hashes
    BY <1>0, <2>1, Holding, HandleFields DEF HandleOK, Current
  <2>3. Goes(h, "wipeRow", handle[h].i) BY <1>0, <2>1, HandleFields, GoesOn DEF MoveTo, Steps
  <2>4. FuseTypes' BY <1>0, <2>1, <2>2, <2>3 DEF FuseTypes, Goes
  <2>5. HandleOK(h)' BY <1>0, <2>1, <2>2, <2>3 DEF HandleOK, Goes, Current
  <2>6. handle'[h].pc \notin Storing BY <2>3 DEF Goes, Storing
  <2> QED BY <2>1, <2>3, <2>4, <2>5, <2>6, QuietStep DEF Goes
<1>9. ASSUME NEW h \in Handles, WipeRow(h) PROVE FuseIInv'
  <2> DEFINE n == Len(handle[h].data)
  <2>1. /\ UNCHANGED <<held, entry, manifest, saves, wiped>> /\ handle[h].pc = "wipeRow"
        /\ table' = [table EXCEPT ![Current(h)] = NoRow]
        /\ IF handle[h].i = n THEN CloseHandle(h) ELSE NextChunk(h, "wipeData")
    BY <1>9 DEF WipeRow, InStep, RowRemoved
  <2>2. handle[h].i \in 1..n /\ n \in 1..MaxData /\ Current(h) \in Hashes /\ Current(h) \in wiped
    BY <1>0, <2>1, Holding, HandleFields DEF HandleOK, Current
  <2>3. /\ handle' \in [Handles -> HandleRec] /\ handle'[h].pc \in {"closed", "wipeData"}
        /\ \A g \in Handles \ {h} : handle'[g] = handle[g]
        /\ HandleOK(h)'
    <3>1. CASE handle[h].i = n BY <1>0, <2>1, <3>1, Closes, ClosedOK, ClosedType
    <3>2. CASE handle[h].i # n
      <4>1. handle[h].i + 1 \in 1..(MaxData + 1) /\ handle[h].i + 1 <= n BY <2>2, <3>2, FuseAssumption
      <4>2. Goes(h, "wipeData", handle[h].i + 1) BY <1>0, <2>1, <3>2, <4>1, GoesOn DEF NextChunk, Steps
      <4>3. HandleOK(h)' BY <1>0, <2>1, <2>2, <4>1, <4>2 DEF HandleOK, Goes
      <4> QED BY <4>2, <4>3 DEF Goes
    <3> QED BY <3>1, <3>2
  <2>4. FuseTypes' BY <1>0, <2>1, <2>2, <2>3 DEF FuseTypes, Tables
  <2>5. \A x : CountedAt(x)' \subseteq CountedAt(x) BY <1>0, <2>3, CountedKept DEF Storing
  <2>6. ASSUME NEW x \in Hashes, x \notin wiped' PROVE Cover(x)'
    <3>1. Cover(x) /\ table \in Tables BY <1>0, <2>1, <2>6 DEF FuseIInv, FuseTypes
    <3>2. UsedAt(x)' = UsedAt(x) BY <2>1 DEF UsedAt
    <3>3. table'[x] = table[x] BY <2>1, <2>2, <2>6, <3>1 DEF Tables
    <3> QED BY <2>1, <2>5, <3>1, <3>2, <3>3, CoverShrinks
  <2>7. ASSUME NEW g \in Handles \ {h}, handle[g].pc = "link"
        PROVE  /\ manifest'[handle[g].node] # Nil /\ entry'[handle[g].node] # "linked"
               /\ ~(handle'[h].pc = "link" /\ handle'[h].node = handle[g].node)
    BY <1>0, <2>1, <2>3, <2>7 DEF HandleOK
  <2>8. \A e \in Nodes : entry'[e] = "linked" => manifest'[e] # Nil BY <2>1 DEF FuseIInv
  <2> QED BY <2>1, <2>3, <2>4, <2>6, <2>7, <2>8, HandleStep
<1>10. ASSUME NEW h \in Handles, ReleaseFails(h) PROVE FuseIInv'
  <2>1. UNCHANGED <<table, held, entry, saves, wiped>> BY <1>10 DEF ReleaseFails
  <2>2. CASE handle[h].pc \in {"manifest", "link"}
    BY <1>10, <2>1, <2>2, StartsWipe DEF ReleaseFails, InStep
  <2>3. CASE handle[h].pc \notin {"manifest", "link"}
    BY <1>10, <2>1, <2>3, GivesUp DEF ReleaseFails, InStep
  <2> QED BY <2>2, <2>3
<1>11. CASE UnmountFS
  <2>1. /\ UNCHANGED <<table, held, entry, manifest, saves, wiped>>
        /\ handle' = [h \in Handles |-> Closed]
    BY <1>11 DEF UnmountFS
  <2>2. FuseTypes' BY <1>0, <2>1, ClosedType DEF FuseTypes
  <2>3. \A h \in Handles : handle'[h] = Closed BY <2>1
  <2>4. \A h \in Handles : HandleOK(h)' BY <2>3, ClosedOK
  <2>5. OneLinker' BY <2>3, ClosedType DEF OneLinker
  <2>6. ASSUME NEW x \in Hashes, x \notin wiped' PROVE Cover(x)'
    <3>1. Cover(x) /\ table \in Tables BY <1>0, <2>1, <2>6 DEF FuseIInv, FuseTypes
    <3>2. UsedAt(x)' = UsedAt(x) BY <2>1 DEF UsedAt
    <3>3. CountedAt(x)' = {} BY <2>3, ClosedType DEF CountedAt, Storing
    <3> QED BY <2>1, <3>1, <3>2, <3>3, CoverShrinks
  <2> QED BY <2>1, <2>2, <2>4, <2>5, <2>6 DEF FuseIInv
<1>12. CASE UNCHANGED fuseVars
  <2> USE <1>12 DEF fuseVars
  <2>1. FuseTypes' /\ OneLinker' BY DEF FuseIInv, FuseTypes, OneLinker
  <2>2. \A h \in Handles : HandleOK(h)' BY DEF FuseIInv, HandleOK
  <2>3. \A x \in Hashes : Cover(x) => Cover(x)' BY DEF Cover, UsedAt, CountedAt, HasRow
  <2> QED BY <2>1, <2>2, <2>3 DEF FuseIInv
<1> QED BY <1>1, <1>2, <1>3, <1>4, <1>5, <1>6, <1>7, <1>8, <1>9, <1>10, <1>11, <1>12 DEF FuseNext

LEMMA FuseImplies == FuseIInv => FuseInv
<1> SUFFICES ASSUME FuseIInv PROVE FuseInv OBVIOUS
<1>1. FuseTypeOK BY DEF FuseIInv, FuseTypes, FuseTypeOK, HandleRec
<1>2. ASSUME NEW x \in Hashes \ wiped, Uses(x) > 0 PROVE x \in held /\ table[x] >= Uses(x)
  <2>1. Cover(x) /\ table[x] \in Int BY DEF FuseIInv, FuseTypes, Tables, NoRow
  <2>2. Uses(x) = Cardinality(UsedAt(x)) BY DEF Uses, UsedAt
  <2>3. UsedAt(x) # {}
    <3>1. Cardinality({}) = 0 BY FS_EmptySet
    <3> QED BY <1>2, <2>2, <3>1
  <2> QED BY <2>1, <2>2, <2>3, CountsFinite DEF Cover
<1>3. MountKept BY <1>2 DEF MountKept, FuseIInv
<1> QED BY <1>1, <1>3 DEF FuseInv

-----------------------------------------------------------------------------
(* What a Put of the local or the IPFS backend has stored is there, and      *)
(* whole, until a Delete, for any number of concurrent calls and a crash     *)
(* anywhere (storage/local.go, storage/ipfs.go); and what files of the mount *)
(* refer to is stored and counted at least once for each place in a          *)
(* manifest, unless the cleanup of a failed release deleted it               *)
(* (fuse/fuse.go, createManifestAndStoreChunks).                             *)
THEOREM BlobsCorrect == StorageSpec => []BlobsInv
<1> DEFINE I == LocalIInv /\ IPFSInv /\ FuseIInv
<1>1. NewBackend => I BY LocalStart, IPFSStart, FuseStart DEF NewBackend
<1>2. I /\ [StorageNext]_storage => I'
  <2> SUFFICES ASSUME I, [StorageNext]_storage PROVE I' OBVIOUS
  <2>1. [LocalNext]_localVars /\ [IPFSNext]_ipfsVars /\ [FuseNext]_fuseVars
    BY DEF StorageNext, storage
  <2> QED BY <2>1, LocalStep, IPFSStep, FuseStep
<1>3. I => BlobsInv BY LocalImplies, FuseImplies DEF BlobsInv
<1> QED BY <1>1, <1>2, <1>3, PTL DEF StorageSpec
-----------------------------------------------------------------------------
(***************************************************************************)
(* The chunker.                                                            *)
(***************************************************************************)

LessThan == {p \in Nat \X Nat : p[1] < p[2]}

(* A set of numbers has a least element: what an induction rests on here.    *)
LEMMA Least ==
  ASSUME NEW T \in SUBSET Nat, T # {}
  PROVE  \E n \in T : \A m \in T : n <= m
<1>1. IsWellFoundedOn(LessThan, Nat) BY NatLessThanWellFounded DEF OpToRel, LessThan
<1>2. PICK n \in T : \A m \in T : ~(<<m, n>> \in LessThan) BY <1>1, WFMin
<1>3. ASSUME NEW m \in T PROVE n <= m
  <2>1. ~(<<m, n>> \in LessThan) /\ m \in Nat /\ n \in Nat BY <1>2
  <2>2. ~(m < n) BY <2>1 DEF LessThan
  <2> QED BY <2>1, <2>2
<1> QED BY <1>3

(* The induction step, for a set that is to be all of 0..k.                  *)
LEMMA Inductive ==
  ASSUME NEW k \in Nat, NEW G, 0 \in G, \A n \in 0 .. k : n < k /\ n \in G => n + 1 \in G
  PROVE  0 .. k \subseteq G
<1> DEFINE T == {n \in 0 .. k : n \notin G}
<1>1. ASSUME T # {} PROVE FALSE
  <2>1. T \in SUBSET Nat OBVIOUS
  <2>2. PICK n \in T : \A m \in T : n <= m BY <1>1, <2>1, Least
  <2>3. n \in 0 .. k /\ n \notin G BY <2>2
  <2>4. n # 0 /\ n - 1 \in 0 .. k BY <2>3
  <2>5. n - 1 \notin T BY <2>2, <2>3, <2>4
  <2>6. n - 1 \in G BY <2>4, <2>5
  <2>7. (n - 1) + 1 \in G BY <2>3, <2>4, <2>6
  <2> QED BY <2>3, <2>4, <2>7
<1> QED BY <1>1

(* The degree is the highest exponent of the polynomial.                     *)
LEMMA DegreeHighest == degree \in Nat /\ degree \in Poly /\ \A i \in Poly : i \in Nat /\ i <= degree
<1> DEFINE B == {n \in Nat : \A i \in Poly : i <= n}
<1>1. Poly # {} /\ Poly \subseteq 0 .. 63 BY ChunkerAssumption
<1>2. 63 \in B /\ B \in SUBSET Nat BY <1>1
<1>3. PICK n \in B : \A m \in B : n <= m BY <1>2, Least
<1>4. n \in Poly
  <2> SUFFICES ASSUME n \notin Poly PROVE FALSE OBVIOUS
  <2>1. PICK i \in Poly : TRUE BY <1>1
  <2>2. i \in Nat /\ i < n BY <1>1, <1>3, <2>1
  <2>3. n - 1 \in Nat /\ n - 1 < n BY <1>3, <2>2
  <2>4. \A j \in Poly : j \in Nat /\ j < n BY <1>1, <1>3
  <2>5. \A j \in Poly : j <= n - 1 BY <1>3, <2>4
  <2> QED BY <1>3, <2>3, <2>5
<1>5. \E x \in Poly : \A y \in Poly : x >= y BY <1>1, <1>3, <1>4
<1>6. Max(Poly) \in Poly /\ \A y \in Poly : Max(Poly) >= y BY <1>5, Zenon DEF Max
<1>7. degree \in Poly /\ \A y \in Poly : degree >= y BY <1>6, Zenon DEF degree
<1>8. \A y \in Poly : y \in Nat BY <1>1
<1> QED BY <1>7, <1>8

(* A fingerprint is below the degree.                                        *)
Below(p, n) == p \subseteq Nat /\ \A i \in p : i < n

LEMMA ShiftOneBelow ==
  ASSUME NEW p, Below(p, degree)
  PROVE  Below(ShiftOne(p), degree)
<1>1. degree \in Nat /\ degree \in Poly /\ \A i \in Poly : i \in Nat /\ i <= degree BY DegreeHighest
<1>2. Below(Shift(p, 1), degree + 1) BY <1>1 DEF Below, Shift
<1>3. CASE degree \in Shift(p, 1)
  <2>1. ShiftOne(p) = (Shift(p, 1) \ Poly) \cup (Poly \ Shift(p, 1)) BY <1>3 DEF ShiftOne, Xor
  <2>2. ASSUME NEW i \in ShiftOne(p) PROVE i \in Nat /\ i < degree
    <3>1. i # degree BY <1>1, <1>3, <2>1
    <3>2. i \in Shift(p, 1) \/ i \in Poly BY <2>1
    <3>3. i \in Nat /\ (i < degree + 1 \/ i <= degree) BY <1>1, <1>2, <3>2 DEF Below
    <3> QED BY <1>1, <3>1, <3>3
  <2> QED BY <1>1, <2>2 DEF Below
<1>4. CASE degree \notin Shift(p, 1)
  BY <1>1, <1>2, <1>4 DEF ShiftOne, Below
<1> QED BY <1>3, <1>4

LEMMA XorBelow ==
  ASSUME NEW n \in Nat, NEW p, NEW q, Below(p, n), Below(q, n)
  PROVE  Below(Xor(p, q), n)
BY DEF Xor, Below

(* The loop that reduces a product, as a function.                           *)
Reduces(p, r) ==
  r = [i \in degree..(Top + 1) |->
        IF i = Top + 1 THEN p
        ELSE IF i \in r[i + 1] THEN Xor(r[i + 1], Shift(Poly, i - degree)) ELSE r[i + 1]]

(* The loop is defined down to Top + 1 - n.                                  *)
Reduction(p, n, r) ==
  r = [i \in (Top + 1 - n)..(Top + 1) |->
        IF i = Top + 1 THEN p
        ELSE IF i \in r[i + 1] THEN Xor(r[i + 1], Shift(Poly, i - degree)) ELSE r[i + 1]]

LEMMA ReductionExists ==
  ASSUME NEW p
  PROVE  \E r : Reduces(p, r)
<1>0. degree \in Nat /\ Top \in Nat /\ Top + 1 - degree \in Nat BY DegreeHighest DEF Top
<1> DEFINE k == Top + 1 - degree
           G == {n \in Nat : \E r : Reduction(p, n, r)}
<1>1. 0 \in G
  <2>1. Reduction(p, 0, [i \in (Top + 1 - 0)..(Top + 1) |-> p]) BY <1>0 DEF Reduction
  <2> QED BY <2>1
<1>2. ASSUME NEW n \in 0 .. k, n < k, n \in G PROVE n + 1 \in G
  <2>1. PICK r : Reduction(p, n, r) BY <1>2
  <2> DEFINE t == Top + 1 - n
             x == IF t - 1 \in r[t] THEN Xor(r[t], Shift(Poly, (t - 1) - degree)) ELSE r[t]
             s == [i \in (Top + 1 - (n + 1))..(Top + 1) |-> IF i = t - 1 THEN x ELSE r[i]]
  <2>2. t \in Nat /\ t - 1 \in Nat /\ Top + 1 - (n + 1) = t - 1 /\ t <= Top + 1 BY <1>0, <1>2
  <2>3. \A i \in t .. (Top + 1) : s[i] = r[i] BY <1>0, <2>2
  <2>4. s[t - 1] = x BY <1>0, <2>2
  <2>5. \A i \in t .. (Top + 1) :
          r[i] = IF i = Top + 1 THEN p
                 ELSE IF i \in r[i + 1] THEN Xor(r[i + 1], Shift(Poly, i - degree)) ELSE r[i + 1]
    BY <2>1, Zenon DEF Reduction
  <2>6. ASSUME NEW i \in (t - 1) .. (Top + 1)
        PROVE  s[i] = IF i = Top + 1 THEN p
                      ELSE IF i \in s[i + 1] THEN Xor(s[i + 1], Shift(Poly, i - degree)) ELSE s[i + 1]
    <3> HIDE DEF s, x, t
    <3>1. CASE i = t - 1
      <4>1. i # Top + 1 /\ i + 1 = t /\ t \in t .. (Top + 1) BY <1>0, <2>2, <3>1
      <4>2. s[i + 1] = r[t] BY <2>3, <4>1
      <4> QED BY <2>4, <3>1, <4>1, <4>2 DEF x
    <3>2. CASE i = Top + 1 BY <1>0, <2>2, <2>3, <2>5, <3>2
    <3>3. CASE i # t - 1 /\ i # Top + 1
      <4>1. i \in t .. (Top + 1) /\ i + 1 \in t .. (Top + 1) BY <1>0, <2>2, <3>3
      <4>2. s[i] = r[i] /\ s[i + 1] = r[i + 1] BY <2>3, <4>1
      <4> QED BY <2>5, <3>3, <4>1, <4>2
    <3> QED BY <3>1, <3>2, <3>3
  <2>7. s = [i \in (Top + 1 - (n + 1))..(Top + 1) |-> s[i]] OBVIOUS
  <2>8. Reduction(p, n + 1, s)
    <3> HIDE DEF s
    <3> QED BY <2>2, <2>6, <2>7, Zenon DEF Reduction
  <2> QED BY <2>8
<1>3. k \in G
  <2> HIDE DEF G
  <2> QED BY <1>0, <1>1, <1>2, Inductive
<1>4. PICK r : Reduction(p, k, r) BY <1>3
<1>5. Top + 1 - k = degree BY <1>0
<1>6. Reduces(p, r) BY <1>4, <1>5 DEF Reduction, Reduces
<1> QED BY <1>6

(* What the table takes out is below the degree too.                         *)
LEMMA ReducedBelow ==
  ASSUME NEW p, Below(p, Top + 1)
  PROVE  Below(Reduced(p), degree)
<1> DEFINE r == CHOOSE f : Reduces(p, f)
<1>0. degree \in Nat /\ degree \in Poly /\ (\A i \in Poly : i \in Nat /\ i <= degree)
      /\ Top \in Nat /\ Top + 1 - degree \in Nat
  BY DegreeHighest DEF Top
<1>1. Reduced(p) = r[degree] BY Zenon DEF Reduced, Reduces
<1>2. Reduces(p, r) BY ReductionExists, Zenon
<1> HIDE DEF r
<1>3. \A i \in degree .. (Top + 1) :
        r[i] = IF i = Top + 1 THEN p
               ELSE IF i \in r[i + 1] THEN Xor(r[i + 1], Shift(Poly, i - degree)) ELSE r[i + 1]
  BY <1>2, Zenon DEF Reduces
<1> DEFINE k == Top + 1 - degree
           G == {n \in Nat : Below(r[Top + 1 - n], Top + 1 - n)}
<1>4. 0 \in G
  <2>1. Top + 1 - 0 = Top + 1 /\ Top + 1 \in degree .. (Top + 1) BY <1>0
  <2>2. r[Top + 1] = p BY <1>3, <2>1
  <2> QED BY <2>1, <2>2
<1>5. ASSUME NEW n \in 0 .. k, n < k, n \in G PROVE n + 1 \in G
  <2> DEFINE i == Top + 1 - (n + 1)
  <2>1. i \in Nat /\ i + 1 = Top + 1 - n /\ i # Top + 1 /\ i \in degree .. (Top + 1) /\ i - degree \in Nat
    BY <1>0, <1>5
  <2>2. Below(r[i + 1], i + 1) BY <1>5, <2>1
  <2> HIDE DEF i
  <2>3. r[i] = IF i \in r[i + 1] THEN Xor(r[i + 1], Shift(Poly, i - degree)) ELSE r[i + 1]
    BY <1>3, <2>1
  <2>4. CASE i \in r[i + 1]
    <3> DEFINE S == Shift(Poly, i - degree)
    <3>1. i \in S BY <1>0, <2>1 DEF Shift
    <3>2. \A j \in S : j \in Nat /\ j <= i BY <1>0, <2>1 DEF Shift
    <3>3. r[i] = (r[i + 1] \ S) \cup (S \ r[i + 1]) BY <2>3, <2>4 DEF Xor
    <3> HIDE DEF S
    <3>4. ASSUME NEW j \in r[i] PROVE j \in Nat /\ j < i
      <4>1. j # i BY <2>4, <3>1, <3>3
      <4>2. j \in r[i + 1] \/ j \in S BY <3>3
      <4>3. j \in Nat /\ (j < i + 1 \/ j <= i) BY <2>2, <3>2, <4>2 DEF Below
      <4> QED BY <2>1, <4>1, <4>3
    <3>5. Below(r[i], i) BY <3>4 DEF Below
    <3> QED BY <3>5 DEF i
  <2>5. CASE i \notin r[i + 1]
    <3>1. ASSUME NEW j \in r[i] PROVE j \in Nat /\ j < i
      <4>1. j # i /\ j \in r[i + 1] BY <2>3, <2>5
      <4>2. j \in Nat /\ j < i + 1 BY <2>2, <4>1 DEF Below
      <4> QED BY <2>1, <4>1, <4>2
    <3>2. Below(r[i], i) BY <3>1 DEF Below
    <3> QED BY <3>2 DEF i
  <2> QED BY <2>4, <2>5
<1>6. k \in G
  <2> HIDE DEF G
  <2> QED BY <1>0, <1>4, <1>5, Inductive
<1>7. Top + 1 - k = degree BY <1>0
<1> QED BY <1>1, <1>6, <1>7

LEMMA TableBelow ==
  ASSUME NEW b \in Bytes
  PROVE  Below(createRabinTable[b], degree)
<1> DEFINE outPoly == CHOOSE f : f = [n \in 0..WindowSize |-> IF n = 0 THEN {0} ELSE ShiftOne(f[n - 1])]
<1>1. createRabinTable[b] = Reduced(Product(b, outPoly[WindowSize])) BY DEF createRabinTable
<1> HIDE DEF outPoly
<1>2. Below(Product(b, outPoly[WindowSize]), Top + 1) BY DegreeHighest DEF Product, Below, Top
<1> QED BY <1>1, <1>2, ReducedBelow

LEMMA BytesBelow == \A b \in Bytes : Below(b, degree)
BY ChunkerAssumption, DegreeHighest DEF Below

LEMMA PushBelow ==
  ASSUME NEW fp, Below(fp, degree), NEW b \in Bytes
  PROVE  /\ Below(pushByte(fp, b), degree)
         /\ \A gone \in Bytes : Below(slideFingerprint(fp, gone, b), degree)
<1>1. degree \in Nat BY DegreeHighest
<1>2. ASSUME NEW q, Below(q, degree) PROVE Below(pushByte(q, b), degree)
  BY <1>1, <1>2, BytesBelow, ShiftOneBelow, XorBelow DEF pushByte
<1>3. ASSUME NEW gone \in Bytes PROVE Below(slideFingerprint(fp, gone, b), degree)
  <2>1. Below(Xor(fp, createRabinTable[gone]), degree) BY <1>1, TableBelow, XorBelow
  <2> QED BY <1>2, <2>1 DEF slideFingerprint
<1> QED BY <1>2, <1>3
-----------------------------------------------------------------------------
(* FlattenSeq, as the function it looks up.                                  *)
Flattens(q, f) == f = [i \in 1..Len(q) |-> IF i = 1 THEN q[i] ELSE f[i - 1] \o q[i]]

(* The same, for the first n sequences of q.                                 *)
Flattened(q, n, f) == f = [i \in 1..n |-> IF i = 1 THEN q[i] ELSE f[i - 1] \o q[i]]

LEMMA FlattenedOne ==
  ASSUME NEW q, NEW n \in Nat, NEW f, Flattened(q, n, f), NEW i \in 1 .. n
  PROVE  f[i] = IF i = 1 THEN q[i] ELSE f[i - 1] \o q[i]
BY Zenon DEF Flattened

LEMMA FlattenedMore ==
  ASSUME NEW q, NEW n \in Nat, NEW f, Flattened(q, n, f),
         NEW g, g = [i \in 1..(n + 1) |-> IF i <= n THEN f[i] ELSE IF n = 0 THEN q[1] ELSE f[n] \o q[n + 1]]
  PROVE  Flattened(q, n + 1, g)
<1>1. \A i \in 1 .. n : g[i] = f[i] OBVIOUS
<1>2. g[n + 1] = IF n = 0 THEN q[1] ELSE f[n] \o q[n + 1] OBVIOUS
<1>3. g = [i \in 1..(n + 1) |-> g[i]] OBVIOUS
<1>4. ASSUME NEW i \in 1 .. (n + 1) PROVE g[i] = IF i = 1 THEN q[i] ELSE g[i - 1] \o q[i]
  <2>1. CASE i = n + 1
    <3>1. CASE n = 0 BY <1>2, <2>1, <3>1
    <3>2. CASE n # 0
      <4>1. i # 1 /\ i - 1 = n /\ n \in 1 .. n BY <2>1, <3>2
      <4> QED BY <1>1, <1>2, <2>1, <3>2, <4>1
    <3> QED BY <3>1, <3>2
  <2>2. CASE i # n + 1
    <3>1. i \in 1 .. n /\ (i # 1 => i - 1 \in 1 .. n) BY <2>2
    <3>2. f[i] = IF i = 1 THEN q[i] ELSE f[i - 1] \o q[i] BY <3>1, FlattenedOne
    <3> QED BY <1>1, <3>1, <3>2
  <2> QED BY <2>1, <2>2
<1> QED BY <1>3, <1>4, Zenon DEF Flattened

LEMMA FlattenedExists ==
  ASSUME NEW q, NEW k \in Nat
  PROVE  \E f : Flattened(q, k, f)
<1> DEFINE G == {n \in Nat : \E f : Flattened(q, n, f)}
<1>1. 0 \in G
  <2>1. Flattened(q, 0, [i \in 1 .. 0 |-> q]) BY DEF Flattened
  <2> QED BY <2>1
<1>2. ASSUME NEW n \in 0 .. k, n < k, n \in G PROVE n + 1 \in G
  <2>1. PICK f : Flattened(q, n, f) BY <1>2
  <2> DEFINE g == [i \in 1..(n + 1) |-> IF i <= n THEN f[i] ELSE IF n = 0 THEN q[1] ELSE f[n] \o q[n + 1]]
  <2>2. n \in Nat /\ n + 1 \in Nat OBVIOUS
  <2>3. \E h : h = g OBVIOUS
  <2> HIDE DEF g
  <2>4. PICK h : h = [i \in 1..(n + 1) |-> IF i <= n THEN f[i] ELSE IF n = 0 THEN q[1] ELSE f[n] \o q[n + 1]]
    BY <2>3 DEF g
  <2>5. Flattened(q, n + 1, h) BY <2>1, <2>2, <2>4, FlattenedMore
  <2> QED BY <2>2, <2>5
<1> HIDE DEF G
<1>3. k \in G BY <1>1, <1>2, Inductive
<1> QED BY <1>3 DEF G

(* Two such functions agree where the sequences do.                          *)
Agree(q, s, n) == \A i \in 1 .. n : q[i] = s[i]

LEMMA FlattenedSame ==
  ASSUME NEW q, NEW s, NEW n \in Nat, NEW m \in Nat, n <= m, NEW f, NEW g,
         Flattened(q, n, f), Flattened(s, m, g), Agree(q, s, n)
  PROVE  Agree(f, g, n)
<1> USE DEF Agree
<1> DEFINE G == {k \in Nat : k = 0 \/ f[k] = g[k]}
<1>1. 0 \in G OBVIOUS
<1>2. ASSUME NEW k \in 0 .. n, k < n, k \in G PROVE k + 1 \in G
  <2>1. k + 1 \in 1 .. n /\ k + 1 \in 1 .. m /\ (k + 1) - 1 = k BY <1>2
  <2>2. f[k + 1] = IF k + 1 = 1 THEN q[k + 1] ELSE f[k] \o q[k + 1] BY <2>1, FlattenedOne
  <2>3. g[k + 1] = IF k + 1 = 1 THEN s[k + 1] ELSE g[k] \o s[k + 1] BY <2>1, FlattenedOne
  <2>4. f[k + 1] = g[k + 1]
    <3>1. CASE k = 0 BY <2>1, <2>2, <2>3, <3>1
    <3>2. CASE k # 0
      <4>1. f[k] = g[k] BY <1>2, <3>2
      <4> QED BY <2>1, <2>2, <2>3, <3>2, <4>1
    <3> QED BY <3>1, <3>2
  <2> QED BY <2>1, <2>4
<1> HIDE DEF G
<1>3. 0 .. n \subseteq G BY <1>1, <1>2, Inductive
<1> QED BY <1>3 DEF G

LEMMA FlattenIs ==
  ASSUME NEW q, Len(q) \in Nat, Len(q) # 0, NEW f, Flattened(q, Len(q), f)
  PROVE  FlattenSeq(q) = f[Len(q)]
<1> DEFINE g == CHOOSE h : Flattens(q, h)
<1>1. FlattenSeq(q) = g[Len(q)] BY Zenon DEF FlattenSeq, Flattens
<1>2. Flattens(q, f) BY DEF Flattened, Flattens
<1>3. Flattens(q, g) BY <1>2, Zenon
<1> HIDE DEF g
<1>4. Flattened(q, Len(q), g) BY <1>3 DEF Flattened, Flattens
<1> DEFINE n == Len(q)
<1> HIDE DEF n
<1>5. n \in Nat /\ n # 0 /\ Flattened(q, n, f) /\ Flattened(q, n, g) BY <1>4 DEF n
<1>6. Agree(g, f, n) BY <1>5, FlattenedSame DEF Agree
<1>7. g[n] = f[n] BY <1>5, <1>6 DEF Agree
<1> QED BY <1>1, <1>7 DEF n

LEMMA FlattenNone == FlattenSeq(<< >>) = << >>
BY DEF FlattenSeq

(* One more sequence at the end.                                             *)
LEMMA FlattenAppend ==
  ASSUME NEW S, NEW q \in Seq(Seq(S)), NEW x \in Seq(S)
  PROVE  /\ FlattenSeq(Append(q, x)) = FlattenSeq(q) \o x
         /\ FlattenSeq(q) \in Seq(S)
<1> DEFINE n == Len(q)
           s == Append(q, x)
<1>1. n \in Nat /\ Len(s) = n + 1 /\ s[n + 1] = x /\ \A i \in 1 .. n : q[i] = s[i] /\ q[i] \in Seq(S)
  OBVIOUS
<1> HIDE DEF n, s
<1>2. PICK f : Flattened(q, n, f) BY <1>1, FlattenedExists
<1>0. n + 1 \in Nat /\ n <= n + 1 BY <1>1
<1>3. PICK g : Flattened(s, n + 1, g) BY <1>0, FlattenedExists
<1>4. Agree(f, g, n)
  <2>1. Agree(q, s, n) BY <1>1 DEF Agree
  <2>2. n \in Nat BY <1>1
  <2>3. PICK m \in Nat : n <= m /\ m = n + 1 BY <1>0
  <2>4. Flattened(s, m, g) BY <1>3, <2>3
  <2> QED BY <1>2, <2>1, <2>2, <2>3, <2>4, FlattenedSame
<1>5. FlattenSeq(s) = g[n + 1] BY <1>1, <1>3, FlattenIs
<1>6. g[n + 1] = IF n + 1 = 1 THEN x ELSE g[n] \o x
  <2>1. n + 1 \in 1 .. (n + 1) /\ (n + 1) - 1 = n BY <1>1
  <2> QED BY <1>1, <1>3, <2>1, FlattenedOne
<1>7. CASE n = 0
  <2>1. q = << >> BY <1>7 DEF n
  <2>2. FlattenSeq(q) = << >> BY <2>1, FlattenNone
  <2> QED BY <1>1, <1>5, <1>6, <1>7, <2>2 DEF s
<1>8. CASE n # 0
  <2>1. FlattenSeq(q) = f[n] BY <1>1, <1>2, <1>8, FlattenIs DEF n
  <2>2. f[n] = g[n] BY <1>1, <1>4, <1>8 DEF Agree
  <2>3. f[n] \in Seq(S)
    <3> DEFINE G == {k \in Nat : k = 0 \/ f[k] \in Seq(S)}
    <3>1. 0 \in G OBVIOUS
    <3>2. ASSUME NEW k \in 0 .. n, k < n, k \in G PROVE k + 1 \in G
      <4>1. k + 1 \in 1 .. n /\ (k + 1) - 1 = k BY <1>1, <3>2
      <4>2. f[k + 1] = IF k + 1 = 1 THEN q[k + 1] ELSE f[k] \o q[k + 1] BY <1>1, <1>2, <4>1, FlattenedOne
      <4>3. q[k + 1] \in Seq(S) BY <1>1, <4>1
      <4>4. f[k + 1] \in Seq(S)
        <5>1. CASE k = 0 BY <4>2, <4>3, <5>1
        <5>2. CASE k # 0 BY <3>2, <4>1, <4>2, <4>3, <5>2
        <5> QED BY <5>1, <5>2
      <4> QED BY <4>1, <4>4
    <3> HIDE DEF G
    <3>3. 0 .. n \subseteq G BY <1>1, <3>1, <3>2, Inductive
    <3>4. n \in G BY <1>1, <3>3
    <3> QED BY <1>8, <3>4 DEF G
  <2> QED BY <1>1, <1>5, <1>6, <1>8, <2>1, <2>2, <2>3 DEF s
<1> QED BY <1>7, <1>8
-----------------------------------------------------------------------------
(* What the three procedures have done, while they run: the chunk in the     *)
(* buffer is short, it starts where the last one ended, and what is hashed   *)
(* and what is buffered is what was read.                                    *)
ChunkType == [hash : Seq(Bytes), offset : Nat, size : Nat]
HashSeq(c) == [i \in DOMAIN c |-> c[i].hash]

ChunkerTypes ==
  /\ proc \in {"Chunk", "ChunkWithData", "ChunkStream"}
  /\ input \in Seq(Bytes) /\ chunkBuf \in Seq(Bytes) /\ window \in Seq(Bytes)
  /\ offset \in 0 .. Len(input) /\ chunkOffset \in Nat
  /\ chunks \in Seq(ChunkType)
  /\ ended \in {"no", "eof", "error"}

Sized(c, i) ==
  /\ c[i].size = Len(c[i].hash)
  /\ c[i].size <= MaxSize
Starts(c, i) == c[i].offset = IF i = 1 \/ proc = "ChunkStream" THEN 0 ELSE c[i - 1].offset + c[i - 1].size
Whole(c, i) == c[i].size >= MinSize \/ (i = Len(c) /\ ended = "eof")

EndOf(c) == IF c = <<>> THEN 0 ELSE c[Len(c)].offset + c[Len(c)].size

Running ==
  /\ Len(chunkBuf) < MaxSize
  /\ IF proc = "ChunkStream" THEN chunkOffset = 0
     ELSE chunkOffset = EndOf(chunks) /\ chunkOffset + Len(chunkBuf) = offset

ChunkerIInv ==
  /\ ChunkerTypes
  /\ Below(fingerprint, degree)
  /\ ended # "error" => FlattenSeq(HashSeq(chunks)) \o chunkBuf = SubSeq(input, 1, offset)
  /\ \A i \in 1 .. Len(chunks) : Sized(chunks, i) /\ Starts(chunks, i) /\ Whole(chunks, i)
  /\ ended = "no" => Running

LEMMA PrefixGrows ==
  ASSUME NEW S, NEW s \in Seq(S), NEW n \in Nat, n < Len(s)
  PROVE  SubSeq(s, 1, n + 1) = Append(SubSeq(s, 1, n), s[n + 1])
OBVIOUS

LEMMA ConcatGrows ==
  ASSUME NEW S, NEW s \in Seq(S), NEW t \in Seq(S), NEW x \in S
  PROVE  s \o Append(t, x) = Append(s \o t, x)
OBVIOUS

LEMMA ConcatNone ==
  ASSUME NEW S, NEW s \in Seq(S)
  PROVE  s \o << >> = s
OBVIOUS

LEMMA AppendGrows ==
  ASSUME NEW S, NEW s \in Seq(S), NEW x \in S
  PROVE  /\ Len(s) \in Nat /\ Append(s, x) \in Seq(S) /\ Len(Append(s, x)) = Len(s) + 1
         /\ Append(s, x) # <<>> /\ Append(s, x)[Len(s) + 1] = x
         /\ \A i \in 1 .. Len(s) : Append(s, x)[i] = s[i]
OBVIOUS

LEMMA HashSeqGrows ==
  ASSUME NEW c \in Seq(ChunkType), NEW x \in ChunkType
  PROVE  /\ FlattenSeq(HashSeq(c)) \in Seq(Bytes)
         /\ FlattenSeq(HashSeq(Append(c, x))) = FlattenSeq(HashSeq(c)) \o x.hash
<1>1. HashSeq(c) \in Seq(Seq(Bytes))
  <2>1. \A i \in 1 .. Len(c) : c[i] \in ChunkType OBVIOUS
  <2>2. \A i \in 1 .. Len(c) : c[i].hash \in Seq(Bytes) BY <2>1 DEF ChunkType
  <2>3. HashSeq(c) \in [1 .. Len(c) -> Seq(Bytes)] BY <2>2 DEF HashSeq
  <2>4. Len(c) \in Nat OBVIOUS
  <2> QED BY <2>3, <2>4
<1>2. x.hash \in Seq(Bytes) BY DEF ChunkType
<1>3. HashSeq(Append(c, x)) = Append(HashSeq(c), x.hash) BY DEF HashSeq
<1> QED BY <1>1, <1>2, <1>3, FlattenAppend

LEMMA ChunkerStart == ChunkerInit => ChunkerIInv
<1> SUFFICES ASSUME ChunkerInit PROVE ChunkerIInv OBVIOUS
<1>1. input \in Seq(Bytes)
  <2>1. PICK m \in 0 .. MaxInput : input \in [1 .. m -> Bytes] BY DEF ChunkerInit, BoundedSeq, SeqOf
  <2>2. m \in Nat BY <2>1, ChunkerAssumption
  <2> QED BY <2>1, <2>2
<1>2. ChunkerTypes BY <1>1 DEF ChunkerInit, ChunkerTypes
<1>3. Below(fingerprint, degree) BY DEF ChunkerInit, Below
<1>4. FlattenSeq(HashSeq(chunks)) = <<>>
  <2>1. HashSeq(<< >>) = << >> BY DEF HashSeq
  <2> QED BY <2>1, FlattenNone DEF ChunkerInit
<1>5. SubSeq(input, 1, offset) = <<>> BY <1>1 DEF ChunkerInit
<1>6. FlattenSeq(HashSeq(chunks)) \o chunkBuf = SubSeq(input, 1, offset)
  <2>1. << >> \o << >> = << >> OBVIOUS
  <2> QED BY <1>4, <1>5, <2>1 DEF ChunkerInit
<1>7. \A i \in 1 .. Len(chunks) : FALSE BY DEF ChunkerInit
<1>8. Running BY ChunkerAssumption DEF Running, ChunkerInit, EndOf
<1> QED BY <1>2, <1>3, <1>6, <1>7, <1>8 DEF ChunkerIInv

LEMMA ChunkerImplies == ChunkerIInv => ChunksExact
<1> SUFFICES ASSUME ChunkerIInv PROVE ChunksExact OBVIOUS
<1>1. fingerprint \subseteq 0 .. (degree - 1) BY DegreeHighest DEF ChunkerIInv, Below
<1>2. Hashed = FlattenSeq(HashSeq(chunks)) BY DEF Hashed, HashSeq
<1>3. DOMAIN chunks = 1 .. Len(chunks) BY DEF ChunkerIInv, ChunkerTypes
<1> QED BY <1>1, <1>2, <1>3 DEF ChunkerIInv, ChunksExact, Sized, Starts, Whole

(* A chunk that is added where the last one ended.                           *)
LEMMA ChunkAdded ==
  ASSUME ChunkerIInv, ended = "no", NEW x \in ChunkType, chunks' = Append(chunks, x), proc' = proc,
         x.size = Len(x.hash), x.size <= MaxSize, x.size >= MinSize \/ ended' = "eof",
         x.offset = chunkOffset
  PROVE  /\ chunks' \in Seq(ChunkType) /\ Len(chunks') = Len(chunks) + 1
         /\ \A i \in 1 .. Len(chunks') : Sized(chunks, i)' /\ Starts(chunks, i)' /\ Whole(chunks, i)'
         /\ chunks' # <<>> /\ chunks'[Len(chunks')] = x
<1>1. /\ chunks \in Seq(ChunkType) /\ Len(chunks) \in Nat
      /\ chunks' \in Seq(ChunkType) /\ Len(chunks') = Len(chunks) + 1
      /\ chunks' # <<>> /\ chunks'[Len(chunks) + 1] = x
      /\ \A i \in 1 .. Len(chunks) : chunks'[i] = chunks[i]
  <2>1. chunks \in Seq(ChunkType) BY DEF ChunkerIInv, ChunkerTypes
  <2> QED BY <2>1, AppendGrows
<1>2. ASSUME NEW i \in 1 .. Len(chunks)
      PROVE  Sized(chunks, i)' /\ Starts(chunks, i)' /\ Whole(chunks, i)'
  <2>1. i \in 1 .. Len(chunks) /\ (i # 1 => i - 1 \in 1 .. Len(chunks)) BY <1>1
  <2>2. Sized(chunks, i) /\ Starts(chunks, i) /\ Whole(chunks, i) BY <1>2 DEF ChunkerIInv
  <2>3. chunks'[i] = chunks[i] /\ (i # 1 => chunks'[i - 1] = chunks[i - 1]) BY <1>1, <2>1
  <2>4. Sized(chunks, i)' BY <2>2, <2>3 DEF Sized
  <2>5. Starts(chunks, i)' BY <2>2, <2>3 DEF Starts
  <2>6. Whole(chunks, i)' BY <2>2, <2>3 DEF Whole
  <2> QED BY <2>4, <2>5, <2>6
<1>3. ASSUME NEW i, i = Len(chunks) + 1
      PROVE  Sized(chunks, i)' /\ Starts(chunks, i)' /\ Whole(chunks, i)'
  <2>1. chunks'[i] = x BY <1>1, <1>3
  <2>2. Sized(chunks, i)' BY <2>1 DEF Sized
  <2>3. Whole(chunks, i)' BY <1>1, <1>3, <2>1 DEF Whole
  <2>4. Starts(chunks, i)'
    <3>1. CASE proc = "ChunkStream" BY <2>1, <3>1 DEF Starts, ChunkerIInv, Running
    <3>2. CASE proc # "ChunkStream"
      <4>1. x.offset = EndOf(chunks) BY <3>2 DEF ChunkerIInv, Running
      <4>2. CASE Len(chunks) = 0
        <5>1. i = 1 /\ chunks = <<>> BY <1>1, <1>3, <4>2
        <5> QED BY <2>1, <4>1, <5>1 DEF Starts, EndOf
      <4>3. CASE Len(chunks) # 0
        <5>1. i # 1 /\ i - 1 = Len(chunks) /\ chunks # <<>> /\ Len(chunks) \in 1 .. Len(chunks)
          BY <1>1, <1>3, <4>3
        <5>2. chunks'[i - 1] = chunks[Len(chunks)] BY <1>1, <5>1
        <5> QED BY <2>1, <3>2, <4>1, <5>1, <5>2 DEF Starts, EndOf
      <4> QED BY <4>2, <4>3
    <3> QED BY <3>1, <3>2
  <2> QED BY <2>2, <2>3, <2>4
<1>4. \A i \in 1 .. Len(chunks') : i \in 1 .. Len(chunks) \/ i = Len(chunks) + 1 BY <1>1
<1>5. \A i \in 1 .. Len(chunks') : Sized(chunks, i)' /\ Starts(chunks, i)' /\ Whole(chunks, i)'
  BY <1>2, <1>3, <1>4
<1> QED BY <1>1, <1>5

(* Chunks that stay, while the end is not undone.                            *)
LEMMA ChunksStay ==
  ASSUME ChunkerIInv, ended = "no", chunks' = chunks, proc' = proc
  PROVE  \A i \in 1 .. Len(chunks') : Sized(chunks, i)' /\ Starts(chunks, i)' /\ Whole(chunks, i)'
BY DEF ChunkerIInv, Sized, Starts, Whole

LEMMA ByteStep ==
  ASSUME ChunkerIInv, NEW next, Byte(next),
         IF proc = "ChunkStream" THEN next = 0 ELSE next = offset + 1
  PROVE  ChunkerIInv'
<1> DEFINE b == input[offset + 1]
           buf == Append(chunkBuf, b)
           fp == IF Len(window) = WindowSize THEN slideFingerprint(fingerprint, Head(window), b)
                 ELSE pushByte(fingerprint, b)
           x == [hash |-> buf, offset |-> chunkOffset, size |-> Len(buf)]
           done == FlattenSeq(HashSeq(chunks))
<1>1. /\ ended = "no" /\ offset < Len(input) /\ proc' = proc /\ input' = input /\ ended' = ended
      /\ offset' = offset + 1 /\ fingerprint' = fp
      /\ window' = Append(IF Len(window) = WindowSize THEN Tail(window) ELSE window, b)
      /\ chunks' = IF Boundary(fp, Len(buf)) THEN Append(chunks, x) ELSE chunks
      /\ chunkBuf' = IF Boundary(fp, Len(buf)) THEN <<>> ELSE buf
      /\ chunkOffset' = IF Boundary(fp, Len(buf)) THEN next ELSE chunkOffset
  BY Zenon DEF Byte, Found
<1>2. /\ input \in Seq(Bytes) /\ chunkBuf \in Seq(Bytes) /\ window \in Seq(Bytes)
      /\ offset \in Nat /\ chunkOffset \in Nat /\ chunks \in Seq(ChunkType)
      /\ proc \in {"Chunk", "ChunkWithData", "ChunkStream"}
  BY <1>1 DEF ChunkerIInv, ChunkerTypes
<1>3. b \in Bytes
  <2>1. offset + 1 \in 1 .. Len(input) BY <1>1, <1>2
  <2> QED BY <1>2, <2>1
<1>4. buf \in Seq(Bytes) /\ Len(buf) = Len(chunkBuf) + 1 /\ Len(chunkBuf) \in Nat BY <1>2, <1>3
<1>5. Below(fingerprint', degree)
  <2>1. CASE Len(window) = WindowSize
    <3>1. window # <<>> BY <2>1, ChunkerAssumption
    <3>2. Head(window) \in Bytes BY <1>2, <3>1
    <3> QED BY <1>1, <1>3, <2>1, <3>2, PushBelow DEF ChunkerIInv
  <2>2. CASE Len(window) # WindowSize BY <1>1, <1>3, <2>2, PushBelow DEF ChunkerIInv
  <2> QED BY <2>1, <2>2
<1>6. window' \in Seq(Bytes)
  <2>1. CASE Len(window) = WindowSize
    <3>1. window # <<>> BY <2>1, ChunkerAssumption
    <3>2. Tail(window) \in Seq(Bytes) BY <1>2, <3>1
    <3> QED BY <1>1, <1>3, <2>1, <3>2
  <2>2. CASE Len(window) # WindowSize BY <1>1, <1>2, <1>3, <2>2
  <2> QED BY <2>1, <2>2
<1>7. x \in ChunkType BY <1>2, <1>4 DEF ChunkType
<1>8. done \in Seq(Bytes) /\ FlattenSeq(HashSeq(Append(chunks, x))) = done \o buf
  BY <1>2, <1>7, HashSeqGrows
<1>9. done \o buf = SubSeq(input, 1, offset')
  <2>1. done \o chunkBuf = SubSeq(input, 1, offset) BY <1>1 DEF ChunkerIInv
  <2>2. done \o buf = Append(done \o chunkBuf, b) BY <1>2, <1>3, <1>8, ConcatGrows
  <2>3. SubSeq(input, 1, offset + 1) = Append(SubSeq(input, 1, offset), b) BY <1>1, <1>2, PrefixGrows
  <2> QED BY <1>1, <2>1, <2>2, <2>3
<1>10. offset' \in 0 .. Len(input') BY <1>1, <1>2
<1>11. Len(chunkBuf) < MaxSize /\ Len(buf) <= MaxSize BY <1>1, <1>4, ChunkerAssumption DEF ChunkerIInv, Running
<1> HIDE DEF fp, x, done, b, buf
<1>12. CASE Boundary(fp, Len(buf))
  <2>1. chunks' = Append(chunks, x) /\ chunkBuf' = <<>> /\ chunkOffset' = next BY <1>1, <1>12
  <2>2. x.hash = buf /\ x.size = Len(buf) /\ x.offset = chunkOffset BY DEF x
  <2>3. x.size >= MinSize /\ x.size <= MaxSize BY <1>11, <1>12, <2>2 DEF Boundary
  <2>4. /\ chunks' \in Seq(ChunkType) /\ Len(chunks') = Len(chunks) + 1
        /\ \A i \in 1 .. Len(chunks') : Sized(chunks, i)' /\ Starts(chunks, i)' /\ Whole(chunks, i)'
        /\ chunks' # <<>> /\ chunks'[Len(chunks')] = x
    BY <1>1, <1>7, <2>1, <2>2, <2>3, ChunkAdded
  <2>5. chunkOffset' \in Nat BY <1>2, <2>1
  <2>6. FlattenSeq(HashSeq(chunks')) \o chunkBuf' = SubSeq(input', 1, offset')
    <3>1. FlattenSeq(HashSeq(chunks')) = done \o buf BY <1>8, <2>1
    <3>2. (done \o buf) \o << >> = done \o buf 
      <4>1. done \o buf \in Seq(Bytes) BY <1>4, <1>8
      <4> QED BY <4>1, ConcatNone
    <3> QED BY <1>1, <1>9, <2>1, <3>1, <3>2
  <2>7. Running'
    <3>1. Len(chunkBuf') = 0 /\ Len(chunkBuf') < MaxSize BY <2>1, ChunkerAssumption
    <3>2. CASE proc = "ChunkStream" BY <1>1, <2>1, <3>1, <3>2 DEF Running
    <3>3. CASE proc # "ChunkStream"
      <4>1. EndOf(chunks') = chunkOffset + Len(buf) BY <2>2, <2>4 DEF EndOf
      <4>2. chunkOffset + Len(chunkBuf) = offset BY <1>1, <3>3 DEF ChunkerIInv, Running
      <4>3. EndOf(chunks') = offset + 1
        <5>1. chunkOffset + Len(buf) = offset + 1 BY <1>2, <1>4, <4>2
        <5> QED BY <4>1, <5>1
      <4>4. chunkOffset' = offset + 1 /\ offset' = offset + 1 BY <1>1, <2>1, <3>3
      <4>5. chunkOffset' + Len(chunkBuf') = offset' BY <1>2, <3>1, <4>4
      <4> QED BY <1>1, <3>1, <3>3, <4>3, <4>4, <4>5 DEF Running
    <3> QED BY <3>2, <3>3
  <2>8. ChunkerTypes' BY <1>1, <1>2, <1>6, <1>10, <2>1, <2>4, <2>5 DEF ChunkerTypes
  <2> QED BY <1>5, <2>4, <2>6, <2>7, <2>8 DEF ChunkerIInv
<1>13. CASE ~Boundary(fp, Len(buf))
  <2>1. chunks' = chunks /\ chunkBuf' = buf /\ chunkOffset' = chunkOffset BY <1>1, <1>13
  <2>2. \A i \in 1 .. Len(chunks') : Sized(chunks, i)' /\ Starts(chunks, i)' /\ Whole(chunks, i)'
    BY <1>1, <2>1, ChunksStay
  <2>3. FlattenSeq(HashSeq(chunks')) \o chunkBuf' = SubSeq(input', 1, offset') BY <1>1, <1>9, <2>1 DEF done
  <2>4. Running'
    <3>1. Len(chunkBuf') < MaxSize BY <1>4, <1>11, <1>13, <2>1, ChunkerAssumption DEF Boundary
    <3>2. CASE proc = "ChunkStream" BY <1>1, <2>1, <3>1, <3>2 DEF ChunkerIInv, Running
    <3>3. CASE proc # "ChunkStream"
      <4>1. chunkOffset + Len(chunkBuf) = offset /\ chunkOffset = EndOf(chunks)
        BY <1>1, <3>3 DEF ChunkerIInv, Running
      <4>2. chunkOffset + Len(buf) = offset + 1
        <5>1. chunkOffset + Len(chunkBuf) = offset BY <4>1
        <5> QED BY <1>2, <1>4, <5>1
      <4> QED BY <1>1, <2>1, <3>1, <3>3, <4>1, <4>2 DEF Running
    <3> QED BY <3>2, <3>3
  <2>5. ChunkerTypes' BY <1>1, <1>2, <1>4, <1>6, <1>10, <2>1 DEF ChunkerTypes
  <2> QED BY <1>5, <2>2, <2>3, <2>4, <2>5 DEF ChunkerIInv
<1> QED BY <1>12, <1>13

LEMMA FlushStep == ASSUME ChunkerIInv, Flush PROVE ChunkerIInv'
<1> DEFINE done == FlattenSeq(HashSeq(chunks))
<1>1. /\ ended = "no" /\ ended' = "eof" /\ chunkBuf' = <<>>
      /\ chunks' = IF chunkBuf = <<>> THEN chunks ELSE Append(chunks, Found(chunkBuf))
      /\ UNCHANGED <<proc, input, offset, chunkOffset, window, fingerprint>>
  BY DEF Flush
<1>2. chunkBuf \in Seq(Bytes) /\ chunks \in Seq(ChunkType) /\ chunkOffset \in Nat
  BY DEF ChunkerIInv, ChunkerTypes
<1>3. PICK x : x = Found(chunkBuf) OBVIOUS
<1>4. x \in ChunkType /\ x.hash = chunkBuf /\ x.size = Len(chunkBuf) /\ x.offset = chunkOffset
  BY <1>2, <1>3 DEF Found, ChunkType
<1>5. done \in Seq(Bytes) /\ FlattenSeq(HashSeq(Append(chunks, x))) = done \o chunkBuf
  BY <1>2, <1>4, HashSeqGrows
<1>6. done \o chunkBuf = SubSeq(input, 1, offset) BY <1>1 DEF ChunkerIInv
<1>7. (done \o chunkBuf) \o << >> = done \o chunkBuf
  <2>1. done \o chunkBuf \in Seq(Bytes) BY <1>2, <1>5
  <2> QED BY <2>1, ConcatNone
<1>8. Below(fingerprint', degree) BY <1>1 DEF ChunkerIInv
<1> HIDE DEF done
<1>9. CASE chunkBuf = <<>>
  <2>1. \A i \in 1 .. Len(chunks') : Sized(chunks, i)' /\ Starts(chunks, i)' /\ Whole(chunks, i)'
    BY <1>1, <1>9, ChunksStay
  <2>2. ChunkerTypes' BY <1>1, <1>9 DEF ChunkerIInv, ChunkerTypes
  <2>3. FlattenSeq(HashSeq(chunks')) \o chunkBuf' = SubSeq(input', 1, offset') BY <1>1, <1>6, <1>9 DEF done
  <2> QED BY <1>1, <1>8, <2>1, <2>2, <2>3 DEF ChunkerIInv
<1>10. CASE chunkBuf # <<>>
  <2>1. chunks' = Append(chunks, x) BY <1>1, <1>3, <1>10
  <2>2. x.size <= MaxSize BY <1>1, <1>2, <1>4, ChunkerAssumption DEF ChunkerIInv, Running
  <2>3. /\ chunks' \in Seq(ChunkType)
        /\ \A i \in 1 .. Len(chunks') : Sized(chunks, i)' /\ Starts(chunks, i)' /\ Whole(chunks, i)'
    BY <1>1, <1>4, <2>1, <2>2, ChunkAdded
  <2>4. ChunkerTypes' BY <1>1, <2>3 DEF ChunkerIInv, ChunkerTypes
  <2>5. FlattenSeq(HashSeq(chunks')) \o chunkBuf' = SubSeq(input', 1, offset')
    BY <1>1, <1>5, <1>6, <1>7, <2>1
  <2> QED BY <1>1, <1>8, <2>3, <2>4, <2>5 DEF ChunkerIInv
<1> QED BY <1>9, <1>10

LEMMA ReadFailsStep == ASSUME ChunkerIInv, ReadFails PROVE ChunkerIInv'
<1>1. /\ ended = "no" /\ ended' = "error" /\ (chunks' = chunks \/ chunks' = <<>>)
      /\ UNCHANGED <<proc, input, offset, chunkBuf, chunkOffset, window, fingerprint>>
  BY DEF ReadFails
<1>2. ChunkerTypes'
  <2>1. << >> \in Seq(ChunkType) OBVIOUS
  <2>2. chunks' \in Seq(ChunkType) BY <1>1, <2>1 DEF ChunkerIInv, ChunkerTypes
  <2> QED BY <1>1, <2>2 DEF ChunkerIInv, ChunkerTypes
<1>3. \A i \in 1 .. Len(chunks') : Sized(chunks, i)' /\ Starts(chunks, i)' /\ Whole(chunks, i)'
  BY <1>1, ChunksStay
<1> QED BY <1>1, <1>2, <1>3 DEF ChunkerIInv

LEMMA ChunkerStep == ChunkerIInv /\ [ChunkerNext]_chunkerVars => ChunkerIInv'
<1> SUFFICES ASSUME ChunkerIInv, [ChunkerNext]_chunkerVars PROVE ChunkerIInv' OBVIOUS
<1>1. CASE Chunk \/ ChunkWithData
  <2>1. Byte(offset + 1) /\ proc # "ChunkStream" BY <1>1 DEF Chunk, ChunkWithData
  <2> QED BY <2>1, ByteStep
<1>2. CASE ChunkStream
  <2>1. proc = "ChunkStream" /\ ended = "no" BY <1>2 DEF ChunkStream, Byte
  <2>2. chunkOffset = 0 BY <2>1 DEF ChunkerIInv, Running
  <2>3. chunkOffset + 0 = 0 BY <2>2
  <2>4. Byte(chunkOffset + 0) BY <1>2 DEF ChunkStream
  <2> QED BY <2>1, <2>3, <2>4, ByteStep
<1>3. CASE UNCHANGED chunkerVars
  BY <1>3 DEF chunkerVars, ChunkerIInv, ChunkerTypes, Running, Sized, Starts, Whole
<1> QED BY <1>1, <1>2, <1>3, FlushStep, ReadFailsStep DEF ChunkerNext

(* Whatever the input, the polynomial, the window and the sizes, the chunks  *)
(* of chunk/chunker.go put together are what was read, none is longer than   *)
(* MaxSize and only the last is shorter than MinSize, their offsets are      *)
(* right but for ChunkStream's, and fingerprints stay below the degree of    *)
(* the polynomial, however the window slides.                                *)
THEOREM ChunksCorrect == StorageSpec => []ChunksExact
<1>1. NewBackend => ChunkerIInv BY ChunkerStart DEF NewBackend
<1>2. ChunkerIInv /\ [StorageNext]_storage => ChunkerIInv'
  <2> SUFFICES ASSUME ChunkerIInv, [StorageNext]_storage PROVE ChunkerIInv' OBVIOUS
  <2>1. [ChunkerNext]_chunkerVars BY DEF StorageNext, storage
  <2> QED BY <2>1, ChunkerStep
<1> QED BY <1>1, <1>2, ChunkerImplies, PTL DEF StorageSpec
=============================================================================
