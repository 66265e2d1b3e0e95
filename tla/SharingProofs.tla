---------------------------- MODULE SharingProofs -----------------------------
(***************************************************************************)
(* Proofs about public links, for any links, clients, versions and limits: *)
(* no share is downloaded more often than its largest limit, what is sent  *)
(* by a link was allowed, and what is sent is the bytes of the range; and  *)
(* what the two handlers make of a Range header, and streamRange of a      *)
(* chunk, for every size and position.                                     *)
(***************************************************************************)
EXTENDS Shares, NaturalsInduction, WellFoundedInduction, TLAPS

LEMMA MaxOfTwo ==
  ASSUME NEW a \in Int, NEW b \in Int
  PROVE  Max({a, b}) = IF a >= b THEN a ELSE b
BY DEF Max

LEMMA MinOfTwo ==
  ASSUME NEW a \in Int, NEW b \in Int
  PROVE  Min({a, b}) = IF a <= b THEN a ELSE b
BY DEF Min

-----------------------------------------------------------------------------
(* Ranges.                                                                  *)

IsHeader(h) == h.form \in {"none", "span", "from", "last"} /\ h.a \in Nat /\ h.b \in Nat

(* The positions of a file of this size that a handler's range has.          *)
InRange(range, size) == {i \in 0 .. size - 1 : range # Nowhere /\ range[1] <= i /\ i <= range[2]}

(* For every header and size, handleRangeRequest yields the positions that   *)
(* RFC 7233 says the header asks for, within the file; it refuses exactly    *)
(* the headers that ask for none.                                            *)
THEOREM OwnerRangeExact ==
  ASSUME NEW h, IsHeader(h), h.form # "none", NEW size \in Nat
  PROVE  LET range == handleRangeRequest(h, size)
         IN  /\ InRange(range, size) = Asked(h, size)
             /\ range = Nowhere <=> Asked(h, size) = {}
             /\ range # Nowhere => 0 <= range[1] /\ range[1] <= range[2] /\ range[2] < size
<1> DEFINE start == IF h.form = "last" THEN Max({size - h.b, 0}) ELSE h.a
           end == IF h.form = "span" THEN h.b ELSE size - 1
           range == handleRangeRequest(h, size)
<1>0. h.form \in {"span", "from", "last"} /\ h.a \in Nat /\ h.b \in Nat BY DEF IsHeader
<1>1. h.form = "last" => start = IF size - h.b >= 0 THEN size - h.b ELSE 0 BY <1>0, MaxOfTwo
<1>2. h.form # "last" => start = h.a OBVIOUS
<1>3. (h.form = "span" => end = h.b) /\ (h.form # "span" => end = size - 1) OBVIOUS
<1>4. range = IF start >= size \/ start > end THEN Nowhere ELSE <<start, Min({end, size - 1})>>
  BY DEF handleRangeRequest
<1> HIDE DEF start, end, range
<1>5. start \in Nat /\ end \in Int BY <1>0, <1>1, <1>2, <1>3
<1>6. Min({end, size - 1}) = IF end <= size - 1 THEN end ELSE size - 1 BY <1>5, MinOfTwo
<1>7. ASSUME NEW i \in 0 .. size - 1 PROVE i \in Asked(h, size) <=> start <= i /\ i <= end
  <2>1. CASE h.form = "span" BY <1>0, <1>2, <1>3, <2>1 DEF Asked
  <2>2. CASE h.form = "from" BY <1>0, <1>2, <1>3, <2>2 DEF Asked
  <2>3. CASE h.form = "last" BY <1>0, <1>1, <1>3, <2>3 DEF Asked
  <2> QED BY <1>0, <2>1, <2>2, <2>3
<1>8. Asked(h, size) \subseteq 0 .. size - 1 BY DEF Asked
<1>9. CASE start >= size \/ start > end
  <2>1. range = Nowhere BY <1>4, <1>9
  <2>2. \A i \in 0 .. size - 1 : ~(start <= i /\ i <= end) BY <1>5, <1>9
  <2>3. Asked(h, size) = {} BY <1>7, <1>8, <2>2
  <2> QED BY <2>1, <2>3 DEF InRange, range
<1>10. CASE ~(start >= size \/ start > end)
  <2> DEFINE last == Min({end, size - 1})
  <2>1. range = <<start, last>> BY <1>4, <1>10
  <2>2. last \in Nat /\ start <= last /\ last < size BY <1>5, <1>6, <1>10
  <2>3. \A i \in 0 .. size - 1 : i <= last <=> i <= end BY <1>5, <1>6
  <2> HIDE DEF last
  <2>4. range # Nowhere /\ range[1] = start /\ range[2] = last BY <2>1 DEF Nowhere
  <2>5. InRange(range, size) = Asked(h, size) BY <1>7, <1>8, <2>3, <2>4 DEF InRange
  <2>6. start \in 0 .. size - 1 /\ start <= end BY <1>5, <1>10
  <2>7. Asked(h, size) # {} BY <1>7, <2>6
  <2> QED BY <1>5, <2>2, <2>4, <2>5, <2>7 DEF range
<1> QED BY <1>9, <1>10

(* For every size and header that publicRangeRequest reads as written: it    *)
(* yields the positions that the header asks for.                            *)
THEOREM PublicRangeExact ==
  ASSUME NEW h, IsHeader(h), NEW size \in Nat, h.a < size,
         h.form = "from" \/ (h.form = "span" /\ h.b > 0 /\ h.a <= h.b)
  PROVE  LET range == publicRangeRequest(h, size)
         IN  /\ InRange(range, size) = Asked(h, size)
             /\ 0 <= range[1] /\ range[1] <= range[2] /\ range[2] < size
<1> DEFINE end == IF h.form = "span" THEN h.b ELSE 0
           last == IF end = 0 \/ end >= size THEN size - 1 ELSE end
           range == publicRangeRequest(h, size)
<1>0. h.form \in {"span", "from"} /\ h.a \in Nat /\ h.b \in Nat BY DEF IsHeader
<1>1. range = <<h.a, last>> BY <1>0 DEF publicRangeRequest
<1>2. h.form = "span" => last = IF h.b >= size THEN size - 1 ELSE h.b BY <1>0
<1>3. h.form = "from" => last = size - 1 OBVIOUS
<1> HIDE DEF last, range
<1>4. range # Nowhere /\ range[1] = h.a /\ range[2] = last BY <1>1 DEF Nowhere
<1>5. last \in Nat /\ h.a <= last /\ last < size BY <1>0, <1>2, <1>3
<1>6. ASSUME NEW i \in 0 .. size - 1 PROVE i \in Asked(h, size) <=> h.a <= i /\ i <= last
  <2>1. CASE h.form = "span" BY <1>0, <1>2, <2>1 DEF Asked
  <2>2. CASE h.form = "from" BY <1>0, <1>3, <2>2 DEF Asked
  <2> QED BY <1>0, <2>1, <2>2
<1>7. Asked(h, size) \subseteq 0 .. size - 1 BY DEF Asked
<1>8. InRange(range, size) = Asked(h, size) BY <1>4, <1>6, <1>7 DEF InRange
<1> QED BY <1>0, <1>4, <1>5, <1>8 DEF range

(* For a chunk of n bytes at any offset and any range that is not inverted:  *)
(* the slice streamRange writes is within the chunk and has exactly the      *)
(* positions of the chunk that are in the range.                             *)
THEOREM SliceExact ==
  ASSUME NEW n \in Nat, NEW off \in Nat, NEW start \in Int, NEW end \in Int, start <= end
  PROVE  LET s == Slice(n, off, start, end)
         IN  /\ 0 <= s[1] /\ s[1] <= s[2] /\ s[2] <= n
             /\ \A i \in off .. off + n - 1 :
                  start <= i /\ i <= end <=> off + s[1] <= i /\ i < off + s[2]
<1>1. CASE off + n <= start \/ off >= end + 1
  <2>1. Slice(n, off, start, end) = <<0, 0>> BY <1>1 DEF Slice
  <2> QED BY <1>1, <2>1
<1>2. CASE ~(off + n <= start \/ off >= end + 1)
  <2> DEFINE from == IF off < start THEN start - off ELSE 0
             to == IF off + n > end + 1 THEN end - off + 1 ELSE n
  <2>1. Slice(n, off, start, end) = <<from, to>> BY <1>2 DEF Slice
  <2>2. from \in Nat /\ to \in Nat /\ from <= to /\ to <= n BY <1>2
  <2>3. \A i \in off .. off + n - 1 : start <= i /\ i <= end <=> off + from <= i /\ i < off + to BY <1>2
  <2> HIDE DEF from, to
  <2> QED BY <2>1, <2>2, <2>3
<1> QED BY <1>1, <1>2

-----------------------------------------------------------------------------
(* Shares and requests.                                                     *)

ByLink == {"download", "stream"}
Labels == {"idle", "file", "count", "manifest", "content", "stream", "chunk", "get", "done", "refused"}

(* r has the fields of a request.                                            *)
IsRequest(r) ==
  r \in [pc : {r.pc}, kind : {r.kind}, link : {r.link}, pwd : {r.pwd}, limit : {r.limit}, count : {r.count},
         man : {r.man}, header : {r.header}, range : {r.range}, next : {r.next}, off : {r.off},
         sent : {r.sent}, ok : {r.ok}, versions : {r.versions}]

RequestTypes(r) ==
  /\ IsRequest(r) /\ r.pc \in Labels /\ r.man \in Manifests \cup {None} /\ r.limit \in 0 .. Unlimited
  /\ r.ok \in BOOLEAN
  /\ r.pc = "idle" => r.kind = "none"

(* What a request by link has established.                                   *)
Justified(r) ==
  r.kind \in ByLink =>
    /\ r.pc # "refused" => r.ok
    /\ r.pc = "file" => r.man = None /\ manifest \in r.versions
    /\ r.pc \notin {"file", "refused"} => r.man \in r.versions

(* The limit that a download has read is one its share had.  The share is    *)
(* still there unless the file is not.                                       *)
LimitKept(r) ==
  r.pc \in {"file", "count"} =>
    /\ r.kind \in ByLink /\ r.link \in Links
    /\ share[r.link] = None => manifest = None
    /\ share[r.link] # None /\ r.kind = "download" => r.limit <= share[r.link].peak
    /\ r.pc = "count" => r.kind = "download"

PeaksKept == \A l \in Links : share[l] # None => share[l].max <= share[l].peak

SharingIInv ==
  /\ TypeOK /\ DownloadsWithinLimit /\ PeaksKept
  /\ req = [c \in Clients |-> req[c]]
  /\ \A c \in Clients : RequestTypes(req[c]) /\ Justified(req[c]) /\ LimitKept(req[c])

LEMMA IdleFacts ==
  /\ RequestTypes(Idle) /\ Idle.pc = "idle" /\ Idle.kind = "none"
<1>1. Idle.pc = "idle" /\ Idle.kind = "none" /\ Idle.man = None /\ Idle.limit = 0 BY DEF Idle
<1>2. Idle.ok = FALSE BY DEF Idle
<1>3. IsRequest(Idle) BY DEF Idle, IsRequest
<1>4. Idle.limit \in 0 .. Unlimited BY <1>1, SharesAssumption DEF Unlimited
<1> QED BY <1>1, <1>2, <1>3, <1>4 DEF RequestTypes, Labels

(* What a history note leaves of a request.                                  *)
Note(r, b, v) == [r EXCEPT !.ok = b, !.versions = v]

LEMMA Noted ==
  ASSUME NEW r, IsRequest(r), NEW b \in BOOLEAN, NEW v, NEW s, s = Note(r, b, v)
  PROVE  /\ IsRequest(s) /\ s.ok = b /\ s.versions = v
         /\ s.pc = r.pc /\ s.kind = r.kind /\ s.link = r.link /\ s.limit = r.limit /\ s.man = r.man
<1>1. /\ s.pc = r.pc /\ s.kind = r.kind /\ s.link = r.link /\ s.limit = r.limit /\ s.man = r.man
  BY DEF IsRequest, Note
<1>2. /\ s.pwd = r.pwd /\ s.count = r.count /\ s.header = r.header /\ s.range = r.range /\ s.next = r.next
      /\ s.off = r.off /\ s.sent = r.sent
  BY DEF IsRequest, Note
<1>3. s.versions = v BY DEF IsRequest, Note
<1>4. s.ok = b BY DEF IsRequest, Note
<1>5. IsRequest(s) BY <1>1, <1>2, <1>3, <1>4 DEF IsRequest, Note
<1> QED BY <1>1, <1>3, <1>4, <1>5

LEMMA RequestsFacts ==
  ASSUME NEW next, \A c \in Clients : IsRequest(next[c]) /\ next[c].ok \in BOOLEAN, Requests(next)
  PROVE  /\ req' = [c \in Clients |-> req'[c]]
         /\ \A c \in Clients :
              /\ IsRequest(req'[c]) /\ req'[c].ok \in BOOLEAN
              /\ req'[c].pc = next[c].pc /\ req'[c].kind = next[c].kind /\ req'[c].link = next[c].link
              /\ req'[c].limit = next[c].limit /\ req'[c].man = next[c].man
              /\ next[c].ok => req'[c].ok
              /\ next[c].pc \notin Over /\ Allowed(next[c], share') => req'[c].ok
              /\ next[c].pc \notin Over /\ next[c].man = None => req'[c].versions = next[c].versions \cup {manifest'}
              /\ next[c].pc \notin Over /\ next[c].man # None =>
                   req'[c].versions = next[c].versions \cap {next[c].man}
              /\ next[c].pc \in Over => req'[c].versions = next[c].versions
<1>1. req' = [c \in Clients |-> req'[c]] BY DEF Requests
<1>2. ASSUME NEW c \in Clients
      PROVE  /\ IsRequest(req'[c]) /\ req'[c].ok \in BOOLEAN
             /\ req'[c].pc = next[c].pc /\ req'[c].kind = next[c].kind /\ req'[c].link = next[c].link
             /\ req'[c].limit = next[c].limit /\ req'[c].man = next[c].man
             /\ next[c].ok => req'[c].ok
             /\ next[c].pc \notin Over /\ Allowed(next[c], share') => req'[c].ok
             /\ next[c].pc \notin Over /\ next[c].man = None => req'[c].versions = next[c].versions \cup {manifest'}
             /\ next[c].pc \notin Over /\ next[c].man # None =>
                  req'[c].versions = next[c].versions \cap {next[c].man}
             /\ next[c].pc \in Over => req'[c].versions = next[c].versions
  <2> DEFINE r == next[c]
  <2>0. IsRequest(r) /\ r.ok \in BOOLEAN OBVIOUS
  <2>1. CASE r.pc \in Over
    <3>1. req'[c] = r BY <2>1 DEF Requests
    <3> QED BY <2>0, <2>1, <3>1
  <2>2. CASE r.pc \notin Over
    <3> DEFINE b == r.ok \/ Allowed(r, share')
               v == IF r.man = None THEN r.versions \cup {manifest'} ELSE r.versions \cap {r.man}
    <3>1. req'[c] = [r EXCEPT !.ok = r.ok \/ Allowed(r, share'),
                              !.versions = IF r.man = None THEN r.versions \cup {manifest'}
                                           ELSE r.versions \cap {r.man}]
      BY <2>0, <2>2 DEF Requests, IsRequest
    <3>2. req'[c] = [r EXCEPT !.ok = b, !.versions = v] BY <3>1
    <3>3. b \in BOOLEAN BY <2>0 DEF Allowed
    <3>4. b <=> r.ok \/ Allowed(r, share') OBVIOUS
    <3>5. (r.man = None => v = r.versions \cup {manifest'}) /\ (r.man # None => v = r.versions \cap {r.man}) OBVIOUS
    <3> DEFINE s == req'[c]
    <3>s. s = Note(r, b, v) BY <3>2 DEF Note
    <3> HIDE DEF b, v, r, s
    <3>t. /\ IsRequest(s) /\ s.ok = b /\ s.versions = v
          /\ s.pc = r.pc /\ s.kind = r.kind /\ s.link = r.link /\ s.limit = r.limit /\ s.man = r.man
      BY <2>0, <3>3, <3>s, Noted
    <3>6. /\ IsRequest(req'[c]) /\ req'[c].ok = b /\ req'[c].versions = v
          /\ req'[c].pc = r.pc /\ req'[c].kind = r.kind /\ req'[c].link = r.link
          /\ req'[c].limit = r.limit /\ req'[c].man = r.man
      BY <3>t DEF s
    <3> QED BY <2>2, <3>3, <3>4, <3>5, <3>6 DEF r
  <2> QED BY <2>1, <2>2
<1> QED BY <1>1, <1>2

(* The rows, without the requests.                                           *)
Rows ==
  /\ manifest \in Manifests \cup {None} /\ kept \in BOOLEAN /\ stored \subseteq DOMAIN SizeOf
  /\ share \in [Links -> ShareRow \cup {None}]
  /\ DownloadsWithinLimit /\ PeaksKept

(* A step takes away a share only with the file, makes none without it, and  *)
(* lowers no peak.                                                           *)
Evolves ==
  /\ manifest = None => manifest' = None
  /\ \A l \in Links :
       /\ share[l] # None /\ share'[l] = None => manifest' = None
       /\ share[l] = None /\ share'[l] # None => manifest # None
       /\ share[l] # None /\ share'[l] # None => share[l].peak <= share'[l].peak

(* A request as it is before history notes the step.                         *)
Ready(r) ==
  /\ RequestTypes(r)
  /\ r.kind \in ByLink =>
       /\ r.pc # "refused" => r.ok \/ (r.pc \notin Over /\ Allowed(r, share'))
       /\ r.pc = "file" => r.man = None
       /\ r.pc \notin {"file", "refused"} => r.man \in r.versions
  /\ r.pc \in {"file", "count"} =>
       /\ r.kind \in ByLink /\ r.link \in Links
       /\ share'[r.link] = None => manifest' = None
       /\ share'[r.link] # None /\ r.kind = "download" => r.limit <= share'[r.link].peak
       /\ r.pc = "count" => r.kind = "download"

LEMMA RequestsStep ==
  ASSUME SharingIInv, Rows', NEW next, \A c \in Clients : Ready(next[c]), Requests(next)
  PROVE  SharingIInv'
<1>0. \A c \in Clients : IsRequest(next[c]) /\ next[c].ok \in BOOLEAN BY DEF Ready, RequestTypes
<1>1. /\ req' = [c \in Clients |-> req'[c]]
      /\ \A c \in Clients :
           /\ IsRequest(req'[c]) /\ req'[c].ok \in BOOLEAN
           /\ req'[c].pc = next[c].pc /\ req'[c].kind = next[c].kind /\ req'[c].link = next[c].link
           /\ req'[c].limit = next[c].limit /\ req'[c].man = next[c].man
           /\ next[c].ok => req'[c].ok
           /\ next[c].pc \notin Over /\ Allowed(next[c], share') => req'[c].ok
           /\ next[c].pc \notin Over /\ next[c].man = None => req'[c].versions = next[c].versions \cup {manifest'}
           /\ next[c].pc \notin Over /\ next[c].man # None =>
                req'[c].versions = next[c].versions \cap {next[c].man}
           /\ next[c].pc \in Over => req'[c].versions = next[c].versions
  BY <1>0, RequestsFacts
<1>2. ASSUME NEW c \in Clients PROVE RequestTypes(req'[c]) /\ Justified(req[c])' /\ LimitKept(req[c])'
  <2> DEFINE r == next[c]
             s == req'[c]
  <2>1. /\ IsRequest(s) /\ s.ok \in BOOLEAN
        /\ s.pc = r.pc /\ s.kind = r.kind /\ s.link = r.link /\ s.limit = r.limit /\ s.man = r.man
    BY <1>1
  <2>2. (r.ok => s.ok) /\ (r.pc \notin Over /\ Allowed(r, share') => s.ok) BY <1>1
  <2>3. /\ r.pc \notin Over /\ r.man = None => s.versions = r.versions \cup {manifest'}
        /\ r.pc \notin Over /\ r.man # None => s.versions = r.versions \cap {r.man}
        /\ r.pc \in Over => s.versions = r.versions
    BY <1>1
  <2>4. Ready(r) OBVIOUS
  <2>5. s = req'[c] OBVIOUS
  <2> HIDE DEF r, s
  <2>6. RequestTypes(s) BY <2>1, <2>4 DEF RequestTypes, Ready
  <2>7. Justified(req[c])'
    <3> SUFFICES ASSUME s.kind \in ByLink
                 PROVE  /\ s.pc # "refused" => s.ok
                        /\ s.pc = "file" => s.man = None /\ manifest' \in s.versions
                        /\ s.pc \notin {"file", "refused"} => s.man \in s.versions
      BY <2>5 DEF Justified
    <3>1. s.pc # "refused" => s.ok BY <2>1, <2>2, <2>4 DEF Ready
    <3>2. s.pc = "file" => s.man = None /\ manifest' \in s.versions BY <2>1, <2>3, <2>4 DEF Ready, Over
    <3>3. s.pc \notin {"file", "refused"} => s.man \in s.versions
      <4> SUFFICES ASSUME s.pc \notin {"file", "refused"} PROVE s.man \in s.versions OBVIOUS
      <4>1. r.man \in r.versions BY <2>1, <2>4 DEF Ready
      <4> QED BY <2>1, <2>3, <4>1
    <3> QED BY <3>1, <3>2, <3>3
  <2>8. LimitKept(req[c])' BY <2>1, <2>4, <2>5 DEF Ready, LimitKept
  <2> QED BY <2>5, <2>6, <2>7, <2>8
<1>3. TypeOK'
  <2>1. \A c \in Clients : req'[c].man \in Manifests \cup {None} BY <1>2 DEF RequestTypes
  <2> QED BY <2>1 DEF Rows, TypeOK
<1> QED BY <1>1, <1>2, <1>3 DEF SharingIInv, Rows

(* The requests that a step leaves alone.                                    *)
LEMMA OthersReady ==
  ASSUME SharingIInv, Rows', Evolves
  PROVE  \A c \in Clients : Ready(req[c])
<1> SUFFICES ASSUME NEW c \in Clients PROVE Ready(req[c]) OBVIOUS
<1> DEFINE r == req[c]
<1>0. RequestTypes(r) /\ Justified(r) /\ LimitKept(r) BY DEF SharingIInv
<1> HIDE DEF r
<1>2. r.kind \in ByLink =>
        /\ r.pc # "refused" => r.ok
        /\ r.pc = "file" => r.man = None
        /\ r.pc \notin {"file", "refused"} => r.man \in r.versions
  BY <1>0 DEF Justified
<1>3. ASSUME r.pc \in {"file", "count"}
      PROVE  /\ r.kind \in ByLink /\ r.link \in Links
             /\ share'[r.link] = None => manifest' = None
             /\ share'[r.link] # None /\ r.kind = "download" => r.limit <= share'[r.link].peak
             /\ r.pc = "count" => r.kind = "download"
  <2> DEFINE l == r.link
  <2>1. /\ r.kind \in ByLink /\ l \in Links /\ (share[l] = None => manifest = None)
        /\ share[l] # None /\ r.kind = "download" => r.limit <= share[l].peak
        /\ r.pc = "count" => r.kind = "download"
    BY <1>0, <1>3 DEF LimitKept
  <2>2. /\ manifest = None => manifest' = None
        /\ share[l] # None /\ share'[l] = None => manifest' = None
        /\ share[l] = None /\ share'[l] # None => manifest # None
        /\ share[l] # None /\ share'[l] # None => share[l].peak <= share'[l].peak
    BY <2>1 DEF Evolves
  <2>3. share'[l] = None => manifest' = None BY <2>1, <2>2
  <2>4. ASSUME share'[l] # None, r.kind = "download" PROVE r.limit <= share'[l].peak
    <3>1. share[l] # None /\ r.limit <= share[l].peak /\ share[l].peak <= share'[l].peak BY <2>1, <2>2, <2>4
    <3>2. share[l] \in ShareRow BY <2>1, <3>1 DEF SharingIInv, TypeOK
    <3>3. share'[l] \in ShareRow BY <2>1, <2>4 DEF Rows
    <3>4. share[l].peak \in Int /\ share'[l].peak \in Int /\ r.limit \in Int
      <4>1. \A x \in ShareRow : x.peak \in Int BY SharesAssumption DEF ShareRow
      <4>2. r.limit \in Int BY <1>0 DEF RequestTypes
      <4> QED BY <3>2, <3>3, <4>1, <4>2
    <3> QED BY <3>1, <3>4
  <2> QED BY <2>1, <2>3, <2>4
<1> QED BY <1>0, <1>2, <1>3 DEF Ready, r

LEMMA RowsStep ==
  ASSUME SharingIInv, Rows', Evolves, Requests(req)
  PROVE  SharingIInv'
BY OthersReady, RequestsStep

LEMMA GotoStep ==
  ASSUME SharingIInv, Rows', Evolves, NEW c \in Clients, NEW r, Ready(r), Goto(c, r)
  PROVE  SharingIInv'
<1>1. \A d \in Clients : Ready(req[d]) BY OthersReady
<1> DEFINE next == [req EXCEPT ![c] = r]
<1>2. req = [d \in Clients |-> req[d]] BY DEF SharingIInv
<1>3. \A d \in Clients : next[d] = IF d = c THEN r ELSE req[d] BY <1>2
<1>4. Requests(next) BY DEF Goto
<1> HIDE DEF next
<1>5. \A d \in Clients : Ready(next[d]) BY <1>1, <1>3
<1> QED BY <1>4, <1>5, RequestsStep

LEMMA RowsKept == SharingIInv /\ UNCHANGED <<manifest, kept, stored, share>> => Rows' /\ Evolves
<1> SUFFICES ASSUME SharingIInv, UNCHANGED <<manifest, kept, stored, share>> PROVE Rows' /\ Evolves OBVIOUS
<1>1. Rows' BY DEF SharingIInv, TypeOK, Rows, DownloadsWithinLimit, PeaksKept
<1>2. \A l \in Links : share[l] # None => share[l].peak <= share[l].peak
  <2>1. \A x \in ShareRow : x.peak \in Int BY SharesAssumption DEF ShareRow
  <2>2. \A l \in Links : share[l] # None => share[l].peak \in Int BY <2>1 DEF SharingIInv, TypeOK
  <2> QED BY <2>2
<1> QED BY <1>1, <1>2 DEF Evolves

LEMMA FailStep ==
  ASSUME SharingIInv, UNCHANGED <<manifest, kept, stored, share>>, NEW c \in Clients, Fail(c)
  PROVE  SharingIInv'
<1>1. Ready(Idle) BY IdleFacts DEF Ready, ByLink
<1> QED BY <1>1, RowsKept, GotoStep DEF Fail

-----------------------------------------------------------------------------
(* The owner's steps.                                                       *)

LEMMA RowNumbers ==
  ASSUME NEW x \in ShareRow
  PROVE  x.max \in 0 .. Unlimited /\ x.count \in 0 .. MaxCount /\ x.peak \in 0 .. Unlimited
         /\ x.peak \in Int /\ x.count \in Int
<1>1. x.max \in 0 .. Unlimited /\ x.count \in 0 .. MaxCount /\ x.peak \in 0 .. Unlimited BY DEF ShareRow
<1> QED BY <1>1, SharesAssumption DEF Unlimited

(* A row that exists is changed: its count stays under its peak, and its     *)
(* peak does not fall.                                                       *)
LEMMA RowChanged ==
  ASSUME SharingIInv, NEW l \in Links, share[l] # None, NEW x \in ShareRow, x.count <= x.peak, x.max <= x.peak,
         share[l].peak <= x.peak, share' = [share EXCEPT ![l] = x], UNCHANGED <<manifest, kept, stored>>
  PROVE  Rows' /\ Evolves
<1>1. /\ share' \in [Links -> ShareRow \cup {None}] /\ share'[l] = x
      /\ \A k \in Links : k # l => share'[k] = share[k]
  BY DEF SharingIInv, TypeOK
<1>2. x # None BY SharesAssumption
<1>3. DownloadsWithinLimit' BY <1>1 DEF SharingIInv, DownloadsWithinLimit
<1>p. PeaksKept' BY <1>1 DEF SharingIInv, PeaksKept
<1>5. Rows' BY <1>1, <1>3, <1>p DEF SharingIInv, TypeOK, Rows
<1>6. \A k \in Links : share[k] # None => share[k].peak <= share[k].peak
  BY RowNumbers DEF SharingIInv, TypeOK
<1>7. Evolves
  <2>1. ASSUME NEW k \in Links
        PROVE  /\ share[k] # None => share'[k] # None
               /\ share[k] = None => share'[k] = None
               /\ share[k] # None => share[k].peak <= share'[k].peak
    BY <1>1, <1>2, <1>6
  <2> QED BY <2>1 DEF Evolves
<1> QED BY <1>5, <1>7

LEMMA ShareMade ==
  ASSUME SharingIInv, NEW l \in Links, createShare(l)
  PROVE  SharingIInv'
<1>1. PICK protected \in BOOLEAN, preview \in BOOLEAN, expires \in {"later", "past"}, max \in Limits \cup {Unlimited} :
        CreateShare(l, protected, expires, max, preview)
  BY DEF createShare
<1> DEFINE x == [active |-> TRUE, protected |-> protected, expires |-> expires,
                 max |-> max, count |-> 0, preview |-> preview, peak |-> max]
<1>2. share' = [share EXCEPT ![l] = x] BY <1>1 DEF CreateShare
<1>3. max \in 0 .. Unlimited /\ 0 \in 0 .. MaxCount BY SharesAssumption DEF Unlimited
<1>4. x \in ShareRow BY <1>3 DEF ShareRow
<1>5. x.count <= x.peak /\ x.max <= x.peak BY <1>3, SharesAssumption DEF Unlimited
<1> HIDE DEF x
<1>6. manifest # None /\ share[l] = None /\ UNCHANGED <<manifest, kept, stored>> /\ Requests(req) BY DEF createShare
<1>7. /\ share' \in [Links -> ShareRow \cup {None}] /\ share'[l] = x
      /\ \A k \in Links : k # l => share'[k] = share[k]
  BY <1>2, <1>4 DEF SharingIInv, TypeOK
<1>8. DownloadsWithinLimit' BY <1>5, <1>7 DEF SharingIInv, DownloadsWithinLimit
<1>p. PeaksKept' BY <1>5, <1>7 DEF SharingIInv, PeaksKept
<1>9. Rows' BY <1>6, <1>7, <1>8, <1>p DEF SharingIInv, TypeOK, Rows
<1>10. \A k \in Links : share[k] # None => share[k].peak <= share[k].peak
  BY RowNumbers DEF SharingIInv, TypeOK
<1>11. Evolves
  <2>1. ASSUME NEW k \in Links, share[k] # None PROVE share'[k] = share[k] BY <1>6, <1>7, <2>1
  <2> QED BY <1>6, <1>10, <2>1 DEF Evolves
<1> QED BY <1>6, <1>9, <1>11, RowsStep

LEMMA ShareChanged ==
  ASSUME SharingIInv, NEW l \in Links, updateShare(l) \/ revokeShare(l) \/ ShareExpires(l)
  PROVE  SharingIInv'
<1> DEFINE r == share[l]
<1>0. r # None /\ UNCHANGED <<manifest, kept, stored>> /\ Requests(req)
  BY DEF updateShare, revokeShare, ShareExpires, GetShareByID
<1>1. r \in ShareRow /\ r.count <= r.peak /\ r.max <= r.peak
  BY <1>0 DEF SharingIInv, TypeOK, DownloadsWithinLimit, PeaksKept
<1>2. share \in [Links -> ShareRow \cup {None}] BY DEF SharingIInv, TypeOK
<1>3. r.peak \in Int /\ r.count \in Int /\ r.peak \in 0 .. Unlimited BY <1>1, RowNumbers
<1>4. SUFFICES \E x \in ShareRow : x.count <= x.peak /\ x.max <= x.peak /\ r.peak <= x.peak /\ share' = [share EXCEPT ![l] = x]
  BY <1>0, <1>4, RowChanged, RowsStep
<1>5. ASSUME NEW x, x.count = r.count /\ x.peak = r.peak /\ x.max = r.max /\ x \in ShareRow, share' = [share EXCEPT ![l] = x]
      PROVE  \E y \in ShareRow : /\ y.count <= y.peak /\ y.max <= y.peak /\ r.peak <= y.peak
                               /\ share' = [share EXCEPT ![l] = y]
  <2>1. x.count <= x.peak /\ x.max <= x.peak /\ r.peak <= x.peak
    <3>1. r.peak <= r.peak BY <1>3
    <3> QED BY <1>1, <1>5, <3>1
  <2> QED BY <1>5, <2>1
<1>6. ASSUME NEW max \in Limits, UpdateShare(l, [share[l] EXCEPT !.max = max, !.peak = Max({@, max})])
      PROVE  \E y \in ShareRow : /\ y.count <= y.peak /\ y.max <= y.peak /\ r.peak <= y.peak
                               /\ share' = [share EXCEPT ![l] = y]
  <2> DEFINE m == Max({r.peak, max})
             x == [r EXCEPT !.max = max, !.peak = m]
  <2>1. share' = [share EXCEPT ![l] = x]
    <3>1. [share[l] EXCEPT !.max = max, !.peak = Max({@, max})] = x BY <1>1 DEF ShareRow
    <3> QED BY <1>6, <3>1 DEF UpdateShare
  <2>2. max \in 0 .. Unlimited /\ max \in Int BY SharesAssumption DEF Unlimited
  <2>3. m = IF r.peak >= max THEN r.peak ELSE max BY <1>3, <2>2, MaxOfTwo
  <2> HIDE DEF m
  <2>4. m \in 0 .. Unlimited /\ r.peak <= m /\ max <= m BY <1>3, <2>2, <2>3
  <2> HIDE DEF r
  <2>5. x \in ShareRow /\ x.count = r.count /\ x.peak = m /\ x.max = max BY <1>1, <2>2, <2>4 DEF ShareRow
  <2> HIDE DEF x
  <2>6. r.count <= m
    <3>1. m \in Int BY <1>3, <2>2, <2>3
    <3> QED BY <1>1, <1>3, <2>4, <3>1
  <2> QED BY <2>1, <2>4, <2>5, <2>6
<1>7. ASSUME NEW b \in BOOLEAN, UpdateShare(l, [share[l] EXCEPT !.preview = b])
      PROVE  \E y \in ShareRow : /\ y.count <= y.peak /\ y.max <= y.peak /\ r.peak <= y.peak
                               /\ share' = [share EXCEPT ![l] = y]
  <2> DEFINE x == [r EXCEPT !.preview = b]
  <2>1. share' = [share EXCEPT ![l] = x] BY <1>7 DEF UpdateShare
  <2> HIDE DEF r
  <2>2. x.count = r.count /\ x.peak = r.peak /\ x.max = r.max /\ x \in ShareRow BY <1>1 DEF ShareRow
  <2> HIDE DEF x
  <2> QED BY <1>5, <2>1, <2>2
<1>8. ASSUME NEW b \in BOOLEAN, UpdateShare(l, [share[l] EXCEPT !.active = b])
      PROVE  \E y \in ShareRow : /\ y.count <= y.peak /\ y.max <= y.peak /\ r.peak <= y.peak
                               /\ share' = [share EXCEPT ![l] = y]
  <2> DEFINE x == [r EXCEPT !.active = b]
  <2>1. share' = [share EXCEPT ![l] = x] BY <1>8 DEF UpdateShare
  <2> HIDE DEF r
  <2>2. x.count = r.count /\ x.peak = r.peak /\ x.max = r.max /\ x \in ShareRow BY <1>1 DEF ShareRow
  <2> HIDE DEF x
  <2> QED BY <1>5, <2>1, <2>2
<1>9. CASE ShareExpires(l)
  <2> DEFINE x == [r EXCEPT !.expires = "past"]
  <2>1. share' = [share EXCEPT ![l] = x] BY <1>2, <1>9 DEF ShareExpires
  <2> HIDE DEF r
  <2>2. x.count = r.count /\ x.peak = r.peak /\ x.max = r.max /\ x \in ShareRow BY <1>1 DEF ShareRow
  <2> HIDE DEF x
  <2> QED BY <1>5, <2>1, <2>2
<1>10. CASE revokeShare(l)
  <2>1. UpdateShare(l, [share[l] EXCEPT !.active = FALSE]) BY <1>10 DEF revokeShare, RevokeShare
  <2> QED BY <1>8, <2>1
<1>11. CASE updateShare(l) BY <1>6, <1>7, <1>8, <1>11 DEF updateShare
<1> QED BY <1>9, <1>10, <1>11

LEMMA FileChanged ==
  ASSUME SharingIInv, NewVersion \/ PermanentDelete \/ \E k \in DOMAIN SizeOf : collectOrphanedChunks(k)
  PROVE  SharingIInv'
<1>0. \A k \in Links : share[k] # None => share[k].peak <= share[k].peak
  BY RowNumbers DEF SharingIInv, TypeOK
<1>1. CASE NewVersion
  <2>1. manifest # None /\ manifest' \in Manifests /\ UNCHANGED <<kept, stored, share>> /\ Requests(req)
    BY <1>1 DEF NewVersion
  <2>2. manifest' # None BY <2>1, SharesAssumption
  <2>3. Rows' BY <2>1, <2>2 DEF SharingIInv, TypeOK, Rows, DownloadsWithinLimit, PeaksKept
  <2>4. Evolves BY <1>0, <2>1 DEF Evolves
  <2> QED BY <2>1, <2>3, <2>4, RowsStep
<1>2. CASE PermanentDelete
  <2>1. /\ manifest' = None /\ UNCHANGED stored /\ Requests(req) /\ (kept' = FALSE \/ kept' = kept)
        /\ share' = [l \in Links |-> None] \/ share' = share
    BY <1>2 DEF PermanentDelete
  <2>2. Rows' BY <2>1 DEF SharingIInv, TypeOK, Rows, DownloadsWithinLimit, PeaksKept
  <2>3. Evolves BY <1>0, <2>1 DEF Evolves
  <2> QED BY <2>1, <2>2, <2>3, RowsStep
<1>3. CASE \E k \in DOMAIN SizeOf : collectOrphanedChunks(k)
  <2>1. stored' \subseteq stored /\ UNCHANGED <<manifest, kept, share>> /\ Requests(req)
    BY <1>3 DEF collectOrphanedChunks
  <2>2. Rows' BY <2>1 DEF SharingIInv, TypeOK, Rows, DownloadsWithinLimit, PeaksKept
  <2>3. Evolves BY <1>0, <2>1 DEF Evolves
  <2> QED BY <2>1, <2>2, <2>3, RowsStep
<1> QED BY <1>1, <1>2, <1>3

-----------------------------------------------------------------------------
(* The steps of the requests.                                               *)

LEMMA LinkOpened ==
  ASSUME SharingIInv, NEW c \in Clients, downloadSharedFile(c) \/ streamSharedFile(c)
  PROVE  SharingIInv'
<1>0. UNCHANGED <<manifest, kept, stored, share>> BY DEF downloadSharedFile, streamSharedFile
<1>1. Rows' /\ Evolves BY <1>0, RowsKept
<1>2. SUFFICES \E r : Ready(r) /\ Goto(c, r) BY <1>1, GotoStep
<1>3. ASSUME NEW l \in Links, NEW given \in Given, validateShare(l), authenticateSharePassword(l, given),
             NEW s, IsRequest(s), s.pc = "file", s.kind \in ByLink, s.link = l, s.man = None, s.ok = FALSE,
             s.limit \in 0 .. Unlimited, given = "right" => s.pwd,
             s.kind = "download" => ~share[l].preview /\ s.limit <= share[l].peak
      PROVE  Ready(s)
  <2>7. share[l] # None /\ share[l].active /\ share[l].expires # "past" /\ (share[l].protected => given = "right")
    BY <1>3 DEF validateShare, GetShareByToken, authenticateSharePassword
  <2>8. l # None BY SharesAssumption
  <2>9. Allowed(s, share')
    <3>1. s.link # None /\ share[s.link] # None BY <1>3, <2>7, <2>8
    <3>2. share[s.link].active /\ share[s.link].expires # "past" BY <1>3, <2>7
    <3>3. share[s.link].protected => s.pwd BY <1>3, <2>7
    <3>4. s.kind = "download" => ~share[s.link].preview BY <1>3
    <3> QED BY <1>0, <3>1, <3>2, <3>3, <3>4 DEF Allowed
  <2>10. RequestTypes(s) BY <1>3 DEF RequestTypes, Labels
  <2>11. s.pc \notin Over BY <1>3 DEF Over
  <2>12. /\ s.link \in Links /\ s.kind \in ByLink /\ share'[s.link] # None
         /\ s.kind = "download" => s.limit <= share'[s.link].peak
    BY <1>0, <1>3, <2>7
  <2> QED BY <1>3, <2>9, <2>10, <2>11, <2>12 DEF Ready
<1>4. CASE downloadSharedFile(c)
  <2>1. PICK l \in Links, given \in Given :
          /\ validateShare(l) /\ authenticateSharePassword(l, given) /\ ~share[l].preview
          /\ Goto(c, [Idle EXCEPT !.pc = "file", !.kind = "download", !.link = l, !.pwd = given = "right",
                                  !.limit = share[l].max, !.count = share[l].count])
    BY <1>4 DEF downloadSharedFile
  <2>2. share[l] # None BY <2>1 DEF validateShare, GetShareByToken
  <2>3. share[l] \in ShareRow BY <2>2 DEF SharingIInv, TypeOK
  <2>4. share[l].max \in 0 .. Unlimited BY <2>3, RowNumbers
  <2>5. share[l].max <= share[l].peak BY <2>2 DEF SharingIInv, PeaksKept
  <2> DEFINE b == (given = "right")
             max == share[l].max
             count == share[l].count
             q == [Idle EXCEPT !.pc = "file", !.kind = "download", !.link = l, !.pwd = b, !.limit = max, !.count = count]
  <2>6. Goto(c, q) /\ (given = "right" => b) BY <2>1
  <2>7. max \in 0 .. Unlimited /\ max <= share[l].peak BY <2>4, <2>5
  <2> HIDE DEF b, max, count
  <2>8. q.pc = "file" /\ q.kind = "download" /\ q.link = l /\ q.man = None /\ q.limit = max BY DEF Idle
  <2>9. q.pwd = b BY DEF Idle
  <2>10. q.ok = FALSE BY DEF Idle
  <2>11. IsRequest(q) BY DEF Idle, IsRequest
  <2> HIDE DEF q
  <2>12. Ready(q) BY <1>3, <2>1, <2>6, <2>7, <2>8, <2>9, <2>10, <2>11 DEF ByLink
  <2> QED BY <2>6, <2>12
<1>5. CASE streamSharedFile(c)
  <2>1. PICK l \in Links, given \in Given :
          /\ validateShare(l) /\ authenticateSharePassword(l, given)
          /\ Goto(c, [Idle EXCEPT !.pc = "file", !.kind = "stream", !.link = l, !.pwd = given = "right"])
    BY <1>5 DEF streamSharedFile
  <2> DEFINE b == (given = "right")
             q == [Idle EXCEPT !.pc = "file", !.kind = "stream", !.link = l, !.pwd = b]
  <2>6. Goto(c, q) /\ (given = "right" => b) BY <2>1
  <2>7. 0 \in 0 .. Unlimited BY SharesAssumption DEF Unlimited
  <2> HIDE DEF b
  <2>8. q.pc = "file" /\ q.kind = "stream" /\ q.link = l /\ q.man = None /\ q.limit = 0 BY DEF Idle
  <2>9. q.pwd = b BY DEF Idle
  <2>10. q.ok = FALSE BY DEF Idle
  <2>11. IsRequest(q) BY DEF Idle, IsRequest
  <2> HIDE DEF q
  <2>12. Ready(q) BY <1>3, <2>1, <2>6, <2>7, <2>8, <2>9, <2>10, <2>11 DEF ByLink
  <2> QED BY <2>6, <2>12
<1> QED BY <1>4, <1>5

(* A request goes on with the version it has read.                           *)
LEMMA GoesOn ==
  ASSUME SharingIInv, Rows', Evolves, NEW c \in Clients, req[c].pc \notin {"idle", "file", "refused"},
         NEW r, IsRequest(r), r.pc \in Labels \ {"idle", "file", "count"}, r.kind = req[c].kind,
         r.man = req[c].man, r.versions = req[c].versions, r.ok = req[c].ok, r.limit \in 0 .. Unlimited,
         Goto(c, r)
  PROVE  SharingIInv'
<1>1. RequestTypes(req[c]) /\ Justified(req[c]) BY DEF SharingIInv
<1>2. RequestTypes(r) BY <1>1 DEF RequestTypes
<1>3. r.kind \in ByLink => r.ok /\ r.man \in r.versions BY <1>1 DEF Justified
<1>4. Ready(r) BY <1>2, <1>3 DEF Ready
<1> QED BY <1>4, GotoStep

LEMMA FileRead ==
  ASSUME SharingIInv, NEW c \in Clients, GetFileByID(c)
  PROVE  SharingIInv'
<1>0. UNCHANGED <<manifest, kept, stored, share>> /\ req[c].pc = "file" BY DEF GetFileByID
<1>1. CASE manifest = None BY <1>0, <1>1, FailStep DEF GetFileByID
<1>2. CASE manifest # None
  <2> DEFINE r == req[c]
             pc == IF r.kind = "download" THEN "count" ELSE "manifest"
             q == [r EXCEPT !.man = manifest, !.pc = pc]
  <2>1. Goto(c, q) BY <1>2 DEF GetFileByID
  <2>2. RequestTypes(r) /\ Justified(r) /\ LimitKept(r) BY DEF SharingIInv
  <2>3. manifest \in Manifests \cup {None} BY DEF SharingIInv, TypeOK
  <2>4. r.pc = "file" BY <1>0
  <2>5. pc = (IF r.kind = "download" THEN "count" ELSE "manifest") OBVIOUS
  <2>6. IsRequest(r) BY <2>2 DEF RequestTypes
  <2> HIDE DEF r, pc
  <2>7. q.pc = pc /\ q.man = manifest /\ q.kind = r.kind /\ q.limit = r.limit /\ q.link = r.link
        /\ q.versions = r.versions
    BY <2>6 DEF IsRequest
  <2>8. q.ok = r.ok BY <2>6 DEF IsRequest
  <2>9. IsRequest(q) BY <2>6 DEF IsRequest
  <2> HIDE DEF q
  <2>10. RequestTypes(q) BY <2>2, <2>3, <2>5, <2>7, <2>8, <2>9 DEF RequestTypes, Labels
  <2>11. r.kind \in ByLink /\ r.ok /\ manifest \in r.versions /\ r.link \in Links BY <2>2, <2>4 DEF LimitKept, Justified
  <2>12. /\ share'[r.link] = None => manifest' = None
         /\ share'[r.link] # None /\ r.kind = "download" => r.limit <= share'[r.link].peak
    BY <1>0, <2>2, <2>4 DEF LimitKept
  <2>13. Ready(q) BY <2>5, <2>7, <2>8, <2>10, <2>11, <2>12 DEF Ready
  <2> QED BY <1>0, <2>1, <2>13, RowsKept, GotoStep
<1> QED BY <1>1, <1>2

LEMMA Counted ==
  ASSUME SharingIInv, NEW c \in Clients, IncrementShareDownloadCount(c)
  PROVE  SharingIInv'
<1> DEFINE r == req[c]
           l == r.link
           q == [r EXCEPT !.pc = "manifest"]
<1>0. r.pc = "count" /\ UNCHANGED <<manifest, kept, stored>> BY DEF IncrementShareDownloadCount
<1>1. RequestTypes(r) /\ LimitKept(r) BY DEF SharingIInv
<1>2. r.kind = "download" /\ l \in Links /\ (share[l] # None => r.limit <= share[l].peak) BY <1>0, <1>1 DEF LimitKept
<1>3. \/ UNCHANGED share /\ Fail(c)
      \/ UNCHANGED share /\ Goto(c, q)
      \/ /\ share[l] # None /\ share[l].count < r.limit /\ share[l].count < MaxCount
         /\ share' = [share EXCEPT ![l].count = @ + 1] /\ Goto(c, q)
  BY DEF IncrementShareDownloadCount
<1>4. IsRequest(r) /\ r.limit \in 0 .. Unlimited BY <1>1 DEF RequestTypes
<1>5. r = req[c] OBVIOUS
<1> HIDE DEF r
<1>6. q.pc = "manifest" /\ q.kind = r.kind /\ q.man = r.man /\ q.versions = r.versions /\ q.limit = r.limit
  BY <1>4 DEF IsRequest
<1>7. q.ok = r.ok BY <1>4 DEF IsRequest
<1>8. IsRequest(q) BY <1>4 DEF IsRequest
<1> HIDE DEF q
<1>9. Rows' /\ Evolves /\ Goto(c, q) => SharingIInv'
  <2>1. q.pc \in Labels \ {"idle", "file", "count"} BY <1>6 DEF Labels
  <2> QED BY <1>0, <1>4, <1>5, <1>6, <1>7, <1>8, <2>1, GoesOn
<1>10. CASE UNCHANGED share /\ Fail(c) BY <1>0, <1>10, FailStep
<1>11. CASE UNCHANGED share /\ Goto(c, q) BY <1>0, <1>9, <1>11, RowsKept
<1>12. CASE /\ share[l] # None /\ share[l].count < r.limit /\ share[l].count < MaxCount
            /\ share' = [share EXCEPT ![l].count = @ + 1] /\ Goto(c, q)
  <2> DEFINE x == share[l]
             n == x.count + 1
             y == [x EXCEPT !.count = n]
  <2>1. x \in ShareRow BY <1>2, <1>12 DEF SharingIInv, TypeOK
  <2>2. share' = [share EXCEPT ![l] = y] BY <1>2, <1>12 DEF SharingIInv, TypeOK
  <2>3. x.count \in 0 .. MaxCount /\ x.peak \in Int /\ x.max \in 0 .. Unlimited BY <2>1, RowNumbers
  <2>4. x.count < r.limit /\ x.count < MaxCount /\ r.limit <= x.peak BY <1>2, <1>12
  <2>5. n \in 0 .. MaxCount /\ n <= x.peak BY <1>4, <2>3, <2>4, SharesAssumption
  <2>6. x.max <= x.peak BY <1>2, <1>12 DEF SharingIInv, PeaksKept
  <2>7. x.peak <= x.peak BY <2>3
  <2>x. x = share[l] OBVIOUS
  <2> HIDE DEF x, n
  <2>8. y \in ShareRow /\ y.count = n /\ y.peak = x.peak /\ y.max = x.max BY <2>1, <2>5 DEF ShareRow
  <2> HIDE DEF y
  <2>9. y.count <= y.peak /\ y.max <= y.peak /\ x.peak <= y.peak BY <2>5, <2>6, <2>7, <2>8
  <2>10. Rows' /\ Evolves BY <1>0, <1>2, <1>12, <2>2, <2>8, <2>9, <2>x, RowChanged
  <2> QED BY <1>9, <1>12, <2>10
<1> QED BY <1>3, <1>10, <1>11, <1>12

LEMMA OwnerBegins ==
  ASSUME SharingIInv, NEW c \in Clients, OwnerReads(c) \/ getChunksInfo(c)
  PROVE  SharingIInv'
<1>0. UNCHANGED <<manifest, kept, stored, share>> BY DEF OwnerReads, getChunksInfo
<1>1. SUFFICES ASSUME NEW r, IsRequest(r), r.pc \in {"manifest", "chunk", "done"}, r.kind \in {"owner", "chunks"},
                      r.man = manifest, r.limit = 0, r.ok = FALSE
               PROVE  Ready(r)
  <2>1. CASE OwnerReads(c)
    <3> DEFINE q == [Idle EXCEPT !.pc = "manifest", !.kind = "owner", !.man = manifest]
    <3>1. Goto(c, q) BY <2>1 DEF OwnerReads
    <3>2. q.pc = "manifest" /\ q.kind = "owner" /\ q.man = manifest /\ q.limit = 0 BY DEF Idle
    <3>3. q.ok = FALSE BY DEF Idle
    <3>4. IsRequest(q) BY DEF Idle, IsRequest
    <3> HIDE DEF q
    <3>5. Ready(q) BY <1>1, <3>2, <3>3, <3>4
    <3> QED BY <1>0, <3>1, <3>5, RowsKept, GotoStep
  <2>2. CASE getChunksInfo(c)
    <3> DEFINE w == <<0, Len(Bytes(manifest)) - 1>>
               pc == Loop(manifest, "chunk")
               q == [Idle EXCEPT !.pc = pc, !.kind = "chunks", !.man = manifest, !.range = w]
    <3>1. Goto(c, q) BY <2>2 DEF getChunksInfo
    <3>0. pc \in {"chunk", "done"} BY DEF Loop
    <3> HIDE DEF w, pc
    <3>2. q.pc = pc /\ q.kind = "chunks" /\ q.man = manifest /\ q.limit = 0 BY DEF Idle
    <3>3. q.ok = FALSE BY DEF Idle
    <3>4. IsRequest(q) BY DEF Idle, IsRequest
    <3> HIDE DEF q
    <3>5. Ready(q) BY <1>1, <3>0, <3>2, <3>3, <3>4
    <3> QED BY <1>0, <3>1, <3>5, RowsKept, GotoStep
  <2> QED BY <2>1, <2>2
<1>2. manifest \in Manifests \cup {None} BY DEF SharingIInv, TypeOK
<1>3. r.limit \in 0 .. Unlimited BY <1>1, SharesAssumption DEF Unlimited
<1>4. RequestTypes(r) BY <1>1, <1>2, <1>3 DEF RequestTypes, Labels
<1> QED BY <1>1, <1>4 DEF Ready, ByLink

LEMMA ManifestRead ==
  ASSUME SharingIInv, NEW c \in Clients, GetManifest(c)
  PROVE  SharingIInv'
<1> DEFINE r == req[c]
<1>0. UNCHANGED <<manifest, kept, stored, share>> /\ r.pc = "manifest" BY DEF GetManifest
<1>1. IsRequest(r) BY DEF SharingIInv, RequestTypes
<1>2. 0 \in 0 .. Unlimited BY SharesAssumption DEF Unlimited
<1>3. r = req[c] OBVIOUS
<1>4. \/ Fail(c) \/ Goto(c, handleFullDownload(r))
      \/ \E h \in Headers[r.kind] : Goto(c, RangeDownload(r, h))
  BY DEF GetManifest
<1> HIDE DEF r
<1>5. ASSUME NEW q, IsRequest(q), q.pc \in {"content", "stream", "refused", "done"}, q.kind = r.kind, q.man = r.man,
             q.versions = r.versions, q.ok = r.ok, q.limit = 0, Goto(c, q)
      PROVE  SharingIInv'
  <2>1. q.pc \in Labels \ {"idle", "file", "count"} BY <1>5 DEF Labels
  <2>2. Rows' /\ Evolves BY <1>0, RowsKept
  <2> QED BY <1>0, <1>2, <1>3, <1>5, <2>1, <2>2, GoesOn
<1>6. CASE Fail(c) BY <1>0, <1>6, FailStep
<1>7. CASE Goto(c, handleFullDownload(r))
  <2> DEFINE w == <<0, Length(r) - 1>>
             pc == Loop(r.man, "content")
             q == [r EXCEPT !.pc = pc, !.range = w, !.limit = 0, !.count = 0]
  <2>1. Goto(c, q) BY <1>7 DEF handleFullDownload
  <2>0. pc \in {"content", "done"} BY DEF Loop
  <2> HIDE DEF w, pc
  <2>2. q.pc = pc /\ q.kind = r.kind /\ q.man = r.man /\ q.versions = r.versions /\ q.limit = 0
    BY <1>1 DEF IsRequest
  <2>3. q.ok = r.ok BY <1>1 DEF IsRequest
  <2>4. IsRequest(q) BY <1>1 DEF IsRequest
  <2> HIDE DEF q
  <2> QED BY <1>5, <2>0, <2>1, <2>2, <2>3, <2>4
<1>8. ASSUME NEW h, Goto(c, RangeDownload(r, h)) PROVE SharingIInv'
  <2> DEFINE w == IF r.kind = "owner" THEN handleRangeRequest(h, Size(r.man)) ELSE publicRangeRequest(h, Size(r.man))
             pc == IF w = Nowhere THEN "refused" ELSE Loop(r.man, "stream")
             q == [r EXCEPT !.pc = pc, !.header = h, !.range = w, !.limit = 0, !.count = 0]
  <2>1. Goto(c, q) BY <1>8 DEF RangeDownload
  <2>2. pc \in {"refused", "stream", "done"} BY DEF Loop
  <2> HIDE DEF w, pc
  <2>3. q.pc = pc /\ q.kind = r.kind /\ q.man = r.man /\ q.versions = r.versions /\ q.limit = 0
    BY <1>1 DEF IsRequest
  <2>4. q.ok = r.ok BY <1>1 DEF IsRequest
  <2>5. IsRequest(q) BY <1>1 DEF IsRequest
  <2> HIDE DEF q
  <2> QED BY <1>5, <2>1, <2>2, <2>3, <2>4, <2>5
<1> QED BY <1>4, <1>6, <1>7, <1>8

LEMMA ChunkSent ==
  ASSUME SharingIInv, NEW c \in Clients, streamContent(c) \/ streamRange(c) \/ WriteFails(c) \/ downloadChunk(c) \/ GetChunk(c)
  PROVE  SharingIInv'
<1> DEFINE r == req[c]
<1>0. UNCHANGED <<manifest, kept, stored, share>>
  BY DEF streamContent, streamRange, WriteFails, downloadChunk, GetChunk
<1>1. r.pc \in {"content", "stream", "chunk", "get"}
  BY DEF streamContent, streamRange, WriteFails, downloadChunk, GetChunk
<1>2. RequestTypes(r) BY DEF SharingIInv
<1>3. r = req[c] /\ IsRequest(r) /\ r.limit \in 0 .. Unlimited BY <1>2 DEF RequestTypes
<1>4. Rows' /\ Evolves BY <1>0, RowsKept
<1>5. Fail(c) => SharingIInv' BY <1>0, FailStep
<1>6. ASSUME NEW pc \in {"content", "stream", "chunk", "get", "done"}, NEW sent, NEW next, NEW off,
             Goto(c, [r EXCEPT !.sent = sent, !.next = next, !.off = off, !.pc = pc])
      PROVE  SharingIInv'
  <2> DEFINE q == [r EXCEPT !.sent = sent, !.next = next, !.off = off, !.pc = pc]
  <2>1. Goto(c, q) BY <1>6
  <2> HIDE DEF r
  <2>2. q.pc = pc /\ q.kind = r.kind /\ q.man = r.man /\ q.versions = r.versions /\ q.limit = r.limit
    BY <1>3 DEF IsRequest
  <2>3. q.ok = r.ok BY <1>3 DEF IsRequest
  <2>4. IsRequest(q) BY <1>3 DEF IsRequest
  <2> HIDE DEF q
  <2>5. q.pc \in Labels \ {"idle", "file", "count"} BY <2>2 DEF Labels
  <2> QED BY <1>1, <1>3, <1>4, <2>1, <2>2, <2>3, <2>4, <2>5, GoesOn
<1>7. ASSUME NEW i, NEW j, NEW last, WriteChunk(c, i, j, last) PROVE SharingIInv'
  <2> DEFINE k == ChunksOf[r.man][r.next]
             sent == r.sent \o Part(k, i, j)
             next == r.next + 1
             off == r.off + SizeOf[k]
             pc == IF last \/ r.next = Len(ChunksOf[r.man]) THEN "done" ELSE r.pc
  <2>1. Fail(c) \/ Goto(c, [r EXCEPT !.sent = sent, !.next = next, !.off = off, !.pc = pc])
    BY <1>7 DEF WriteChunk
  <2>3. pc \in {"content", "stream", "chunk", "get", "done"} BY <1>1
  <2> HIDE DEF k, sent, next, off, pc
  <2> QED BY <1>5, <1>6, <2>1, <2>3
<1>8. CASE streamContent(c) BY <1>5, <1>7, <1>8 DEF streamContent
<1>9. CASE streamRange(c) BY <1>7, <1>9 DEF streamRange
<1>10. CASE WriteFails(c) BY <1>5, <1>10 DEF WriteFails
<1>11. CASE downloadChunk(c)
  <2>1. Fail(c) \/ Goto(c, [r EXCEPT !.pc = "get"]) BY <1>11 DEF downloadChunk
  <2> DEFINE q == [r EXCEPT !.pc = "get"]
  <2>2. Goto(c, q) => SharingIInv'
    <3> HIDE DEF r
    <3>2. q.pc = "get" /\ q.kind = r.kind /\ q.man = r.man /\ q.versions = r.versions /\ q.limit = r.limit
      BY <1>3 DEF IsRequest
    <3>3. q.ok = r.ok BY <1>3 DEF IsRequest
    <3>4. IsRequest(q) BY <1>3 DEF IsRequest
    <3> HIDE DEF q
    <3>5. q.pc \in Labels \ {"idle", "file", "count"} BY <3>2 DEF Labels
    <3> QED BY <1>1, <1>3, <1>4, <3>2, <3>3, <3>4, <3>5, GoesOn
  <2> QED BY <1>5, <2>1, <2>2
<1>12. CASE GetChunk(c)
  <2> DEFINE k == ChunksOf[r.man][r.next]
             sent == r.sent \o Part(k, 0, SizeOf[k])
             next == r.next + 1
             pc == IF r.next = Len(ChunksOf[r.man]) THEN "done" ELSE "chunk"
             q == [r EXCEPT !.sent = sent, !.next = next, !.pc = pc]
  <2>1. Fail(c) \/ Goto(c, q) BY <1>12 DEF GetChunk
  <2>2. pc \in {"chunk", "done"} OBVIOUS
  <2>3. Goto(c, q) => SharingIInv'
    <3> HIDE DEF r, k, sent, next, pc
    <3>2. q.pc = pc /\ q.kind = r.kind /\ q.man = r.man /\ q.versions = r.versions /\ q.limit = r.limit
      BY <1>3 DEF IsRequest
    <3>3. q.ok = r.ok BY <1>3 DEF IsRequest
    <3>4. IsRequest(q) BY <1>3 DEF IsRequest
    <3> HIDE DEF q
    <3>5. q.pc \in Labels \ {"idle", "file", "count"} BY <2>2, <3>2 DEF Labels
    <3> QED BY <1>1, <1>3, <1>4, <3>2, <3>3, <3>4, <3>5, GoesOn
  <2> QED BY <1>5, <2>1, <2>3
<1> QED BY <1>8, <1>9, <1>10, <1>11, <1>12

-----------------------------------------------------------------------------

LEMMA SharingStart == Init => SharingIInv
<1> SUFFICES ASSUME Init PROVE SharingIInv OBVIOUS
<1>1. req = [c \in Clients |-> req[c]] /\ \A c \in Clients : req[c] = Idle BY DEF Init
<1>2. manifest \in Manifests /\ kept = TRUE /\ stored = DOMAIN SizeOf /\ \A l \in Links : share[l] = None BY DEF Init
<1>3. \A c \in Clients : RequestTypes(req[c]) /\ Justified(req[c]) /\ LimitKept(req[c])
  BY <1>1, IdleFacts DEF Justified, LimitKept, ByLink
<1>4. share \in [Links -> ShareRow \cup {None}] BY DEF Init
<1>5. TypeOK BY <1>2, <1>3, <1>4 DEF TypeOK, RequestTypes
<1> QED BY <1>1, <1>2, <1>3, <1>5 DEF SharingIInv, DownloadsWithinLimit, PeaksKept

LEMMA SharingSteps == SharingIInv /\ [Next]_vars => SharingIInv'
<1> SUFFICES ASSUME SharingIInv, [Next]_vars PROVE SharingIInv' OBVIOUS
<1>1. ASSUME NEW c \in Clients,
             \/ downloadSharedFile(c) \/ streamSharedFile(c) \/ GetFileByID(c) \/ IncrementShareDownloadCount(c)
             \/ downloadFile(c) \/ streamFile(c) \/ GetManifest(c) \/ streamContent(c) \/ streamRange(c) \/ WriteFails(c)
             \/ getChunksInfo(c) \/ downloadChunk(c) \/ GetChunk(c)
      PROVE  SharingIInv'
  BY <1>1, LinkOpened, FileRead, Counted, OwnerBegins, ManifestRead, ChunkSent DEF downloadFile, streamFile
<1>2. CASE SoftDelete \/ RestoreFromTrash \/ UNCHANGED vars
  <2>1. UNCHANGED <<manifest, kept, stored, share, req>> BY <1>2 DEF vars, SoftDelete, RestoreFromTrash
  <2>2. TypeOK' /\ DownloadsWithinLimit' /\ PeaksKept'
    BY <2>1 DEF SharingIInv, TypeOK, DownloadsWithinLimit, PeaksKept
  <2>3. \A c \in Clients : Justified(req[c])' /\ LimitKept(req[c])' BY <2>1 DEF SharingIInv, Justified, LimitKept
  <2> QED BY <2>1, <2>2, <2>3 DEF SharingIInv
<1> QED BY <1>1, <1>2, ShareMade, ShareChanged, FileChanged DEF Next

LEMMA SharingIInvHolds == Spec => []SharingIInv
BY SharingStart, SharingSteps, PTL DEF Spec

(* However many downloads race with each other and with the owner's changes  *)
(* of the limit (IncrementShareDownloadCount compares with the limit read    *)
(* with the share): no share is downloaded more often than the largest limit *)
(* it ever had.                                                              *)
THEOREM SharesWithinLimit == Spec => []SharingInv
<1>1. SharingIInv => SharingInv BY DEF SharingIInv, SharingInv
<1> QED BY <1>1, SharingIInvHolds, PTL

(* For any number of clients, links and versions: what downloadSharedFile    *)
(* and streamSharedFile send was allowed by the share at some moment of the  *)
(* request, all conditions at once, and is a version that the file had       *)
(* during the request.                                                       *)
THEOREM OnlyAllowedServed == Spec => []ServedJustified
<1>1. SharingIInv => ServedJustified
  <2> SUFFICES ASSUME SharingIInv, NEW c \in Clients, req[c].kind \in {"download", "stream"},
                      req[c].pc \in {"content", "stream", "done"}
               PROVE  req[c].ok /\ req[c].man \in req[c].versions
    BY DEF ServedJustified
  <2>1. Justified(req[c]) BY DEF SharingIInv
  <2> QED BY <2>1 DEF Justified, ByLink
<1> QED BY <1>1, SharingIInvHolds, PTL

-----------------------------------------------------------------------------
(* Sequences and the bytes that are sent.  A set of numbers has a least      *)
(* element: what an induction rests on here.                                 *)
LessThan == {p \in Nat \X Nat : p[1] < p[2]}

LEMMA Least ==
  ASSUME NEW T \in SUBSET Nat, T # {}
  PROVE  \E n \in T : \A m \in T : n <= m
<1>1. IsWellFoundedOn(LessThan, Nat) BY NatLessThanWellFounded DEF OpToRel, LessThan
<1>2. PICK n \in T : \A m \in T : ~(<<m, n>> \in LessThan) BY <1>1, WFMin
<1>3. ASSUME NEW m \in T PROVE n <= m
  <2>1. ~(<<m, n>> \in LessThan) /\ m \in Nat /\ n \in Nat BY <1>2
  <2>2. ~(m < n) BY <2>1 DEF LessThan
  <2> QED BY <2>1, <2>2
<1> QED BY <1>3

(* The induction step, for a set that is to be all of 0..k.                  *)
LEMMA Inductive ==
  ASSUME NEW k \in Nat, NEW G, 0 \in G, \A n \in 0 .. k : n < k /\ n \in G => n + 1 \in G
  PROVE  0 .. k \subseteq G
<1> DEFINE T == {n \in 0 .. k : n \notin G}
<1>1. ASSUME T # {} PROVE FALSE
  <2>1. T \in SUBSET Nat OBVIOUS
  <2>2. PICK n \in T : \A m \in T : n <= m BY <1>1, <2>1, Least
  <2>3. n \in 0 .. k /\ n \notin G BY <2>2
  <2>4. n # 0 /\ n - 1 \in 0 .. k BY <2>3
  <2>5. n - 1 \notin T BY <2>2, <2>3, <2>4
  <2>6. n - 1 \in G BY <2>4, <2>5
  <2>7. (n - 1) + 1 \in G BY <2>3, <2>4, <2>6
  <2> QED BY <2>3, <2>4, <2>7
<1> QED BY <1>1

(* FlattenSeq, as the function it looks up.                                  *)
Flattens(q, f) == f = [i \in 1..Len(q) |-> IF i = 1 THEN q[i] ELSE f[i - 1] \o q[i]]

(* The same, for the first n sequences of q.                                 *)
Flattened(q, n, f) == f = [i \in 1..n |-> IF i = 1 THEN q[i] ELSE f[i - 1] \o q[i]]

LEMMA FlattenedOne ==
  ASSUME NEW q, NEW n \in Nat, NEW f, Flattened(q, n, f), NEW i \in 1 .. n
  PROVE  f[i] = IF i = 1 THEN q[i] ELSE f[i - 1] \o q[i]
BY Zenon DEF Flattened

LEMMA FlattenedMore ==
  ASSUME NEW q, NEW n \in Nat, NEW f, Flattened(q, n, f),
         NEW g, g = [i \in 1..(n + 1) |-> IF i <= n THEN f[i] ELSE IF n = 0 THEN q[1] ELSE f[n] \o q[n + 1]]
  PROVE  Flattened(q, n + 1, g)
<1>1. \A i \in 1 .. n : g[i] = f[i] OBVIOUS
<1>2. g[n + 1] = IF n = 0 THEN q[1] ELSE f[n] \o q[n + 1] OBVIOUS
<1>3. g = [i \in 1..(n + 1) |-> g[i]] OBVIOUS
<1>4. ASSUME NEW i \in 1 .. (n + 1) PROVE g[i] = IF i = 1 THEN q[i] ELSE g[i - 1] \o q[i]
  <2>1. CASE i = n + 1
    <3>1. CASE n = 0 BY <1>2, <2>1, <3>1
    <3>2. CASE n # 0
      <4>1. i # 1 /\ i - 1 = n /\ n \in 1 .. n BY <2>1, <3>2
      <4> QED BY <1>1, <1>2, <2>1, <3>2, <4>1
    <3> QED BY <3>1, <3>2
  <2>2. CASE i # n + 1
    <3>1. i \in 1 .. n /\ (i # 1 => i - 1 \in 1 .. n) BY <2>2
    <3>2. f[i] = IF i = 1 THEN q[i] ELSE f[i - 1] \o q[i] BY <3>1, FlattenedOne
    <3> QED BY <1>1, <3>1, <3>2
  <2> QED BY <2>1, <2>2
<1> QED BY <1>3, <1>4, Zenon DEF Flattened

LEMMA FlattenedExists ==
  ASSUME NEW q, NEW k \in Nat
  PROVE  \E f : Flattened(q, k, f)
<1> DEFINE G == {n \in Nat : \E f : Flattened(q, n, f)}
<1>1. 0 \in G
  <2>1. Flattened(q, 0, [i \in 1 .. 0 |-> q]) BY DEF Flattened
  <2> QED BY <2>1
<1>2. ASSUME NEW n \in 0 .. k, n < k, n \in G PROVE n + 1 \in G
  <2>1. PICK f : Flattened(q, n, f) BY <1>2
  <2> DEFINE g == [i \in 1..(n + 1) |-> IF i <= n THEN f[i] ELSE IF n = 0 THEN q[1] ELSE f[n] \o q[n + 1]]
  <2>2. n \in Nat /\ n + 1 \in Nat OBVIOUS
  <2>3. \E h : h = g OBVIOUS
  <2> HIDE DEF g
  <2>4. PICK h : h = [i \in 1..(n + 1) |-> IF i <= n THEN f[i] ELSE IF n = 0 THEN q[1] ELSE f[n] \o q[n + 1]]
    BY <2>3 DEF g
  <2>5. Flattened(q, n + 1, h) BY <2>1, <2>2, <2>4, FlattenedMore
  <2> QED BY <2>2, <2>5
<1> HIDE DEF G
<1>3. k \in G BY <1>1, <1>2, Inductive
<1> QED BY <1>3 DEF G

(* Two such functions agree where the sequences do.                          *)
Agree(q, s, n) == \A i \in 1 .. n : q[i] = s[i]

LEMMA FlattenedSame ==
  ASSUME NEW q, NEW s, NEW n \in Nat, NEW m \in Nat, n <= m, NEW f, NEW g,
         Flattened(q, n, f), Flattened(s, m, g), Agree(q, s, n)
  PROVE  Agree(f, g, n)
<1> USE DEF Agree
<1> DEFINE G == {k \in Nat : k = 0 \/ f[k] = g[k]}
<1>1. 0 \in G OBVIOUS
<1>2. ASSUME NEW k \in 0 .. n, k < n, k \in G PROVE k + 1 \in G
  <2>1. k + 1 \in 1 .. n /\ k + 1 \in 1 .. m /\ (k + 1) - 1 = k BY <1>2
  <2>2. f[k + 1] = IF k + 1 = 1 THEN q[k + 1] ELSE f[k] \o q[k + 1] BY <2>1, FlattenedOne
  <2>3. g[k + 1] = IF k + 1 = 1 THEN s[k + 1] ELSE g[k] \o s[k + 1] BY <2>1, FlattenedOne
  <2>4. f[k + 1] = g[k + 1]
    <3>1. CASE k = 0 BY <2>1, <2>2, <2>3, <3>1
    <3>2. CASE k # 0
      <4>1. f[k] = g[k] BY <1>2, <3>2
      <4> QED BY <2>1, <2>2, <2>3, <3>2, <4>1
    <3> QED BY <3>1, <3>2
  <2> QED BY <2>1, <2>4
<1> HIDE DEF G
<1>3. 0 .. n \subseteq G BY <1>1, <1>2, Inductive
<1> QED BY <1>3 DEF G

LEMMA FlattenIs ==
  ASSUME NEW q, Len(q) \in Nat, Len(q) # 0, NEW f, Flattened(q, Len(q), f)
  PROVE  FlattenSeq(q) = f[Len(q)]
<1> DEFINE g == CHOOSE h : Flattens(q, h)
<1>1. FlattenSeq(q) = g[Len(q)] BY Zenon DEF FlattenSeq, Flattens
<1>2. Flattens(q, f) BY DEF Flattened, Flattens
<1>3. Flattens(q, g) BY <1>2, Zenon
<1> HIDE DEF g
<1>4. Flattened(q, Len(q), g) BY <1>3 DEF Flattened, Flattens
<1> DEFINE n == Len(q)
<1> HIDE DEF n
<1>5. n \in Nat /\ n # 0 /\ Flattened(q, n, f) /\ Flattened(q, n, g) BY <1>4 DEF n
<1>6. Agree(g, f, n) BY <1>5, FlattenedSame DEF Agree
<1>7. g[n] = f[n] BY <1>5, <1>6 DEF Agree
<1> QED BY <1>1, <1>7 DEF n

LEMMA FlattenNone == FlattenSeq(<< >>) = << >>
BY DEF FlattenSeq

(* One more sequence at the end.                                             *)
LEMMA FlattenAppend ==
  ASSUME NEW S, NEW q \in Seq(Seq(S)), NEW x \in Seq(S)
  PROVE  /\ FlattenSeq(Append(q, x)) = FlattenSeq(q) \o x
         /\ FlattenSeq(q) \in Seq(S)
<1> DEFINE n == Len(q)
           s == Append(q, x)
<1>1. n \in Nat /\ Len(s) = n + 1 /\ s[n + 1] = x /\ \A i \in 1 .. n : q[i] = s[i] /\ q[i] \in Seq(S)
  OBVIOUS
<1> HIDE DEF n, s
<1>2. PICK f : Flattened(q, n, f) BY <1>1, FlattenedExists
<1>0. n + 1 \in Nat /\ n <= n + 1 BY <1>1
<1>3. PICK g : Flattened(s, n + 1, g) BY <1>0, FlattenedExists
<1>4. Agree(f, g, n)
  <2>1. Agree(q, s, n) BY <1>1 DEF Agree
  <2>2. n \in Nat BY <1>1
  <2>3. PICK m \in Nat : n <= m /\ m = n + 1 BY <1>0
  <2>4. Flattened(s, m, g) BY <1>3, <2>3
  <2> QED BY <1>2, <2>1, <2>2, <2>3, <2>4, FlattenedSame
<1>5. FlattenSeq(s) = g[n + 1] BY <1>1, <1>3, FlattenIs
<1>6. g[n + 1] = IF n + 1 = 1 THEN x ELSE g[n] \o x
  <2>1. n + 1 \in 1 .. (n + 1) /\ (n + 1) - 1 = n BY <1>1
  <2> QED BY <1>1, <1>3, <2>1, FlattenedOne
<1>7. CASE n = 0
  <2>1. q = << >> BY <1>7 DEF n
  <2>2. FlattenSeq(q) = << >> BY <2>1, FlattenNone
  <2> QED BY <1>1, <1>5, <1>6, <1>7, <2>2 DEF s
<1>8. CASE n # 0
  <2>1. FlattenSeq(q) = f[n] BY <1>1, <1>2, <1>8, FlattenIs DEF n
  <2>2. f[n] = g[n] BY <1>1, <1>4, <1>8 DEF Agree
  <2>3. f[n] \in Seq(S)
    <3> DEFINE G == {k \in Nat : k = 0 \/ f[k] \in Seq(S)}
    <3>1. 0 \in G OBVIOUS
    <3>2. ASSUME NEW k \in 0 .. n, k < n, k \in G PROVE k + 1 \in G
      <4>1. k + 1 \in 1 .. n /\ (k + 1) - 1 = k BY <1>1, <3>2
      <4>2. f[k + 1] = IF k + 1 = 1 THEN q[k + 1] ELSE f[k] \o q[k + 1] BY <1>1, <1>2, <4>1, FlattenedOne
      <4>3. q[k + 1] \in Seq(S) BY <1>1, <4>1
      <4>4. f[k + 1] \in Seq(S)
        <5>1. CASE k = 0 BY <4>2, <4>3, <5>1
        <5>2. CASE k # 0 BY <3>2, <4>1, <4>2, <4>3, <5>2
        <5> QED BY <5>1, <5>2
      <4> QED BY <4>1, <4>4
    <3> HIDE DEF G
    <3>3. 0 .. n \subseteq G BY <1>1, <3>1, <3>2, Inductive
    <3>4. n \in G BY <1>1, <3>3
    <3> QED BY <1>8, <3>4 DEF G
  <2> QED BY <1>1, <1>5, <1>6, <1>8, <2>1, <2>2, <2>3 DEF s
<1> QED BY <1>7, <1>8

LEMMA PrefixGrows ==
  ASSUME NEW S, NEW s \in Seq(S), NEW n \in Nat, n < Len(s)
  PROVE  SubSeq(s, 1, n + 1) = Append(SubSeq(s, 1, n), s[n + 1])
OBVIOUS

-----------------------------------------------------------------------------
(* The bytes of the first k chunks of a version.                             *)
Byte == (DOMAIN SizeOf) \X Nat
Parts(m) == [k \in DOMAIN ChunksOf[m] |-> Part(ChunksOf[m][k], 0, SizeOf[ChunksOf[m][k]])]
Pre(m, k) == FlattenSeq(SubSeq(Parts(m), 1, k))

(* s begins t.                                                               *)
Begins(s, t) == Len(s) <= Len(t) /\ \A i \in 1 .. Len(s) : s[i] = t[i]

LEMMA PartType ==
  ASSUME NEW c \in DOMAIN SizeOf, NEW i \in Nat, NEW j \in Nat
  PROVE  /\ Part(c, i, j) \in Seq(Byte) /\ Len(Part(c, i, j)) = IF i <= j THEN j - i ELSE 0
         /\ \A x \in 1 .. Len(Part(c, i, j)) : Part(c, i, j)[x] = <<c, i + x>>
<1>1. \A x \in 1 .. j - i : <<c, i + x>> \in Byte BY DEF Byte
<1>2. Part(c, i, j) = [x \in 1 .. j - i |-> <<c, i + x>>] BY DEF Part
<1> DEFINE n == IF i <= j THEN j - i ELSE 0
<1>3. 1 .. j - i = 1 .. n /\ n \in Nat OBVIOUS
<1>4. Part(c, i, j) \in [1 .. n -> Byte] BY <1>1, <1>2, <1>3
<1> HIDE DEF n
<1>5. Part(c, i, j) \in Seq(Byte) /\ Len(Part(c, i, j)) = n BY <1>3, <1>4
<1>6. \A x \in 1 .. n : Part(c, i, j)[x] = <<c, i + x>> BY <1>2, <1>3
<1> QED BY <1>5, <1>6 DEF n

LEMMA PartsType ==
  ASSUME NEW m \in Manifests
  PROVE  /\ Parts(m) \in Seq(Seq(Byte)) /\ Len(Parts(m)) = Len(ChunksOf[m]) /\ Len(ChunksOf[m]) \in Nat
         /\ \A k \in 1 .. Len(ChunksOf[m]) :
              /\ ChunksOf[m][k] \in DOMAIN SizeOf /\ SizeOf[ChunksOf[m][k]] \in Nat
              /\ Parts(m)[k] = Part(ChunksOf[m][k], 0, SizeOf[ChunksOf[m][k]])
<1>1. ChunksOf[m] \in Seq(DOMAIN SizeOf) BY SharesAssumption
<1> DEFINE n == Len(ChunksOf[m])
<1>2. n \in Nat /\ DOMAIN ChunksOf[m] = 1 .. n BY <1>1
<1>3. \A k \in 1 .. n : ChunksOf[m][k] \in DOMAIN SizeOf BY <1>1
<1>4. \A k \in 1 .. n : SizeOf[ChunksOf[m][k]] \in Nat BY <1>3, SharesAssumption
<1> HIDE DEF n
<1>5. \A k \in 1 .. n : Parts(m)[k] = Part(ChunksOf[m][k], 0, SizeOf[ChunksOf[m][k]]) BY <1>2 DEF Parts
<1>6. \A k \in 1 .. n : Parts(m)[k] \in Seq(Byte) BY <1>3, <1>4, <1>5, PartType
<1>7. Parts(m) = [k \in 1 .. n |-> Parts(m)[k]] BY <1>2 DEF Parts
<1>8. Parts(m) \in [1 .. n -> Seq(Byte)] BY <1>6, <1>7
<1>9. Parts(m) \in Seq(Seq(Byte)) /\ Len(Parts(m)) = n BY <1>2, <1>8
<1> QED BY <1>2, <1>3, <1>4, <1>5, <1>9 DEF n

LEMMA PrefixType ==
  ASSUME NEW S, NEW s \in Seq(S), NEW k \in 0 .. Len(s)
  PROVE  SubSeq(s, 1, k) \in Seq(S)
OBVIOUS

LEMMA PreFacts ==
  ASSUME NEW m \in Manifests
  PROVE  /\ Pre(m, 0) = <<>>
         /\ Pre(m, Len(ChunksOf[m])) = Bytes(m)
         /\ \A k \in 0 .. Len(ChunksOf[m]) : Pre(m, k) \in Seq(Byte)
         /\ \A k \in 0 .. Len(ChunksOf[m]) - 1 : Pre(m, k + 1) = Pre(m, k) \o Parts(m)[k + 1]
<1> DEFINE n == Len(ChunksOf[m])
           p == Parts(m)
<1>1. /\ p \in Seq(Seq(Byte)) /\ Len(p) = n /\ n \in Nat BY PartsType
<1>2. \A k \in 1 .. n : p[k] \in Seq(Byte) BY <1>1
<1>3. Bytes(m) = FlattenSeq(p) BY DEF Bytes, Parts
<1>4. \A k : Pre(m, k) = FlattenSeq(SubSeq(p, 1, k)) BY DEF Pre
<1> HIDE DEF n, p
<1>5. Pre(m, 0) = <<>>
  <2>1. SubSeq(p, 1, 0) = <<>> BY <1>1
  <2> QED BY <1>4, <2>1, FlattenNone
<1>6. Pre(m, n) = Bytes(m)
  <2>1. SubSeq(p, 1, n) = p BY <1>1
  <2> QED BY <1>3, <1>4, <2>1
<1>7. ASSUME NEW k \in 0 .. n PROVE Pre(m, k) \in Seq(Byte)
  <2>1. SubSeq(p, 1, k) \in Seq(Seq(Byte)) BY <1>1, PrefixType
  <2>2. << >> \in Seq(Byte) OBVIOUS
  <2>3. FlattenSeq(SubSeq(p, 1, k)) \in Seq(Byte) BY <2>1, <2>2, FlattenAppend
  <2> QED BY <1>4, <2>3
<1>8. ASSUME NEW k \in 0 .. n - 1 PROVE Pre(m, k + 1) = Pre(m, k) \o p[k + 1]
  <2>1. k \in Nat /\ k < Len(p) /\ k \in 0 .. Len(p) /\ k + 1 \in 1 .. n BY <1>1
  <2>2. SubSeq(p, 1, k + 1) = Append(SubSeq(p, 1, k), p[k + 1]) BY <1>1, <2>1, PrefixGrows
  <2>3. SubSeq(p, 1, k) \in Seq(Seq(Byte)) BY <1>1, <2>1, PrefixType
  <2>4. p[k + 1] \in Seq(Byte) BY <1>2, <2>1
  <2>5. FlattenSeq(Append(SubSeq(p, 1, k), p[k + 1])) = FlattenSeq(SubSeq(p, 1, k)) \o p[k + 1]
    BY <2>3, <2>4, FlattenAppend
  <2> QED BY <1>4, <2>2, <2>5
<1> QED BY <1>5, <1>6, <1>7, <1>8 DEF n, p

LEMMA BeginsConcat ==
  ASSUME NEW S, NEW s \in Seq(S), NEW t \in Seq(S)
  PROVE  Begins(s, s \o t)
BY DEF Begins

LEMMA BeginsTrans ==
  ASSUME NEW S, NEW s \in Seq(S), NEW t \in Seq(S), NEW u \in Seq(S), Begins(s, t), Begins(t, u)
  PROVE  Begins(s, u)
<1>1. Len(s) \in Nat /\ Len(t) \in Nat /\ Len(u) \in Nat OBVIOUS
<1> QED BY <1>1 DEF Begins

(* What the first k chunks have, the content begins with.                    *)
LEMMA PreBegins ==
  ASSUME NEW m \in Manifests, NEW k \in 0 .. Len(ChunksOf[m])
  PROVE  Begins(Pre(m, k), Bytes(m))
<1> DEFINE n == Len(ChunksOf[m])
           G == {d \in Nat : d <= n => Begins(Pre(m, n - d), Bytes(m))}
<1>1. n \in Nat BY PartsType
<1>2. /\ Pre(m, n) = Bytes(m)
      /\ \A j \in 0 .. n : Pre(m, j) \in Seq(Byte)
      /\ \A j \in 0 .. n - 1 : Pre(m, j + 1) = Pre(m, j) \o Parts(m)[j + 1]
  BY PreFacts
<1>3. \A j \in 1 .. n : Parts(m)[j] \in Seq(Byte) BY PartsType
<1>k. k \in 0 .. n OBVIOUS
<1> HIDE DEF n
<1>4. 0 \in G
  <2>1. n - 0 = n /\ n \in 0 .. n BY <1>1
  <2>2. Begins(Bytes(m), Bytes(m)) BY <1>2, <2>1 DEF Begins
  <2> QED BY <1>2, <2>1, <2>2
<1>5. ASSUME NEW d \in 0 .. n, d < n, d \in G PROVE d + 1 \in G
  <2> DEFINE j == n - (d + 1)
  <2>1. j \in 0 .. n - 1 /\ j \in 0 .. n /\ j + 1 = n - d /\ j + 1 \in 0 .. n /\ j + 1 \in 1 .. n BY <1>1, <1>5
  <2>2. Begins(Pre(m, n - d), Bytes(m)) BY <1>5
  <2> HIDE DEF j
  <2>3. Begins(Pre(m, j), Pre(m, j) \o Parts(m)[j + 1]) BY <1>2, <1>3, <2>1, BeginsConcat
  <2>4. Begins(Pre(m, j), Pre(m, j + 1)) BY <1>2, <2>1, <2>3
  <2>5. Begins(Pre(m, j + 1), Bytes(m)) BY <2>1, <2>2
  <2>6. n \in 0 .. n BY <1>1
  <2>7. Bytes(m) \in Seq(Byte) BY <1>2, <2>6
  <2>8. Begins(Pre(m, j), Bytes(m)) BY <1>2, <2>1, <2>4, <2>5, <2>7, BeginsTrans
  <2> QED BY <1>1, <1>5, <2>8 DEF j
<1>6. 0 .. n \subseteq G
  <2> HIDE DEF G
  <2> QED BY <1>1, <1>4, <1>5, Inductive
<1>7. n - k \in 0 .. n /\ n - (n - k) = k BY <1>1, <1>k
<1>8. n - k \in G BY <1>6, <1>7
<1> QED BY <1>1, <1>7, <1>8

-----------------------------------------------------------------------------
(* The part of s that is in a range.                                         *)
First(w) == IF w[1] < 0 THEN 0 ELSE w[1]
Ends(n, w) == IF w[2] + 1 <= n THEN w[2] + 1 ELSE n
Width(n, w) == IF Ends(n, w) > First(w) THEN Ends(n, w) - First(w) ELSE 0
Cut(s, w) == [x \in 1 .. Width(Len(s), w) |-> s[First(w) + x]]

IsRange(w) == w = <<w[1], w[2]>> /\ w[1] \in Int /\ w[2] \in Int

LEMMA WidthType ==
  ASSUME NEW n \in Nat, NEW w, IsRange(w)
  PROVE  /\ First(w) \in Nat /\ Ends(n, w) \in Int /\ Ends(n, w) <= n /\ Width(n, w) \in Nat
         /\ Width(n, w) > 0 => First(w) + Width(n, w) = Ends(n, w)
         /\ Width(n, w) > 0 => Width(n, w) <= (w[2] - w[1]) + 1
BY DEF IsRange, First, Ends, Width

LEMMA CutType ==
  ASSUME NEW S, NEW s \in Seq(S), NEW w, IsRange(w)
  PROVE  /\ Cut(s, w) \in Seq(S) /\ Len(Cut(s, w)) = Width(Len(s), w)
         /\ \A x \in 1 .. Width(Len(s), w) : Cut(s, w)[x] = s[First(w) + x]
<1> DEFINE n == Width(Len(s), w)
<1>1. Len(s) \in Nat OBVIOUS
<1>2. n \in Nat /\ First(w) \in Nat /\ \A x \in 1 .. n : First(w) + x \in 1 .. Len(s)
  <2>1. /\ First(w) \in Nat /\ Ends(Len(s), w) \in Int /\ Ends(Len(s), w) <= Len(s) /\ n \in Nat
        /\ n > 0 => First(w) + n = Ends(Len(s), w)
    BY <1>1, WidthType
  <2> HIDE DEF n
  <2> QED BY <1>1, <2>1
<1>3. \A x \in 1 .. n : s[First(w) + x] \in S BY <1>2
<1>4. Cut(s, w) = [x \in 1 .. n |-> s[First(w) + x]] BY DEF Cut
<1> HIDE DEF n
<1>5. Cut(s, w) \in [1 .. n -> S] BY <1>3, <1>4
<1>6. Cut(s, w) \in Seq(S) /\ Len(Cut(s, w)) = n BY <1>2, <1>5
<1> QED BY <1>4, <1>6 DEF n

LEMMA SameSeq ==
  ASSUME NEW S, NEW s \in Seq(S), NEW t \in Seq(S), NEW n \in Nat, Len(s) = n, Len(t) = n,
         \A x \in 1 .. n : s[x] = t[x]
  PROVE  s = t
OBVIOUS

LEMMA ConcatFacts ==
  ASSUME NEW S, NEW s \in Seq(S), NEW t \in Seq(S)
  PROVE  /\ s \o t \in Seq(S) /\ Len(s \o t) = Len(s) + Len(t) /\ Len(s) \in Nat /\ Len(t) \in Nat
         /\ \A x \in 1 .. Len(s) + Len(t) : (s \o t)[x] = IF x <= Len(s) THEN s[x] ELSE t[x - Len(s)]
OBVIOUS

(* A prefix has less of the range.                                           *)
LEMMA CutBegins ==
  ASSUME NEW S, NEW s \in Seq(S), NEW t \in Seq(S), Begins(s, t), NEW w, IsRange(w)
  PROVE  Begins(Cut(s, w), Cut(t, w))
<1>1. Len(s) \in Nat /\ Len(t) \in Nat /\ Len(s) <= Len(t) BY DEF Begins
<1>2. Width(Len(s), w) <= Width(Len(t), w) BY <1>1 DEF Width, Ends, First, IsRange
<1>3. \A x \in 1 .. Width(Len(s), w) : x \in 1 .. Width(Len(t), w) /\ First(w) + x \in 1 .. Len(s)
  <2>1. /\ First(w) \in Nat /\ Ends(Len(s), w) \in Int /\ Ends(Len(s), w) <= Len(s) /\ Width(Len(s), w) \in Nat
        /\ Width(Len(s), w) > 0 => First(w) + Width(Len(s), w) = Ends(Len(s), w)
    BY <1>1, WidthType
  <2>2. Width(Len(t), w) \in Nat BY <1>1, WidthType
  <2> QED BY <1>1, <1>2, <2>1, <2>2
<1>4. \A x \in 1 .. Len(s) : s[x] = t[x] BY DEF Begins
<1>5. \A x \in 1 .. Width(Len(s), w) : Cut(s, w)[x] = Cut(t, w)[x] BY <1>3, <1>4, CutType
<1>6. Len(Cut(s, w)) = Width(Len(s), w) /\ Len(Cut(t, w)) = Width(Len(t), w) BY CutType
<1> QED BY <1>2, <1>5, <1>6 DEF Begins

(* As much as the range can have is all of it.                               *)
LEMMA CutFull ==
  ASSUME NEW S, NEW s \in Seq(S), NEW t \in Seq(S), Begins(s, t), NEW w, IsRange(w),
         Len(Cut(s, w)) >= (w[2] - w[1]) + 1
  PROVE  Cut(s, w) = Cut(t, w)
<1>1. Begins(Cut(s, w), Cut(t, w)) BY CutBegins
<1>2. /\ Cut(s, w) \in Seq(S) /\ Cut(t, w) \in Seq(S)
      /\ Len(Cut(s, w)) = Width(Len(s), w) /\ Len(Cut(t, w)) = Width(Len(t), w)
  BY CutType
<1>3. Len(s) \in Nat /\ Len(t) \in Nat OBVIOUS
<1>4. /\ Width(Len(s), w) \in Nat /\ Width(Len(t), w) \in Nat
      /\ Width(Len(t), w) > 0 => Width(Len(t), w) <= (w[2] - w[1]) + 1
  BY <1>3, WidthType
<1>5. (w[2] - w[1]) + 1 \in Int BY DEF IsRange
<1>6. Width(Len(s), w) <= Width(Len(t), w) BY <1>1, <1>2 DEF Begins
<1>7. Width(Len(s), w) = Width(Len(t), w) BY <1>2, <1>4, <1>5, <1>6
<1>8. \A x \in 1 .. Width(Len(s), w) : Cut(s, w)[x] = Cut(t, w)[x] BY <1>1, <1>2 DEF Begins
<1> QED BY <1>2, <1>4, <1>7, <1>8, SameSeq

(* A range that has all of s.                                                *)
LEMMA CutAll ==
  ASSUME NEW S, NEW s \in Seq(S), NEW n \in Nat, Len(s) <= n
  PROVE  Cut(s, <<0, n - 1>>) = s
<1> DEFINE w == <<0, n - 1>>
<1>1. Len(s) \in Nat OBVIOUS
<1>2. IsRange(w) /\ w[1] = 0 /\ w[2] = n - 1 BY DEF IsRange
<1> HIDE DEF w
<1>3. First(w) = 0 /\ Width(Len(s), w) = Len(s) BY <1>1, <1>2 DEF First, Ends, Width
<1>4. Cut(s, w) \in Seq(S) /\ Len(Cut(s, w)) = Len(s) BY <1>2, <1>3, CutType
<1>5. \A x \in 1 .. Len(s) : Cut(s, w)[x] = s[x]
  <2>1. \A x \in 1 .. Len(s) : Cut(s, w)[x] = s[First(w) + x] BY <1>2, <1>3, CutType
  <2>2. \A x \in 1 .. Len(s) : First(w) + x = x BY <1>1, <1>3
  <2> QED BY <2>1, <2>2
<1>6. Cut(s, w) = s BY <1>1, <1>4, <1>5, SameSeq
<1> QED BY <1>6 DEF w

(* What one more chunk adds to the range is its slice.                       *)
LEMMA CutGrows ==
  ASSUME NEW s \in Seq(Byte), NEW k \in DOMAIN SizeOf, NEW w, IsRange(w), NEW i, NEW j,
         Slice(SizeOf[k], Len(s), w[1], w[2]) = <<i, j>>, i <= j
  PROVE  Cut(s \o Part(k, 0, SizeOf[k]), w) = Cut(s, w) \o Part(k, i, j)
<1> DEFINE z == SizeOf[k]
           n == Len(s)
           p == Part(k, 0, z)
           q == Part(k, i, j)
           a == w[1]
           b == w[2]
<1>1. z \in Nat /\ n \in Nat /\ a \in Int /\ b \in Int BY SharesAssumption DEF IsRange
<1>2. \/ (n + z <= a \/ n >= b + 1) /\ i = 0 /\ j = 0
      \/ /\ ~(n + z <= a \/ n >= b + 1)
         /\ i = IF n < a THEN a - n ELSE 0
         /\ j = IF n + z > b + 1 THEN b - n + 1 ELSE z
  BY DEF Slice
<1>t. IsRange(w) /\ k \in DOMAIN SizeOf /\ s \in Seq(Byte) /\ i <= j OBVIOUS
<1>u. w[1] = a /\ w[2] = b OBVIOUS
<1>v. n = Len(s) OBVIOUS
<1> HIDE DEF z, n, a, b
<1>3. i \in Nat /\ j \in Nat /\ j <= z BY <1>1, <1>2, <1>t
<1>4. /\ p \in Seq(Byte) /\ Len(p) = z /\ \A x \in 1 .. z : p[x] = <<k, 0 + x>>
      /\ q \in Seq(Byte) /\ Len(q) = j - i /\ \A x \in 1 .. j - i : q[x] = <<k, i + x>>
  <2>1. /\ Part(k, 0, z) \in Seq(Byte) /\ Len(Part(k, 0, z)) = IF 0 <= z THEN z - 0 ELSE 0
        /\ \A x \in 1 .. Len(Part(k, 0, z)) : Part(k, 0, z)[x] = <<k, 0 + x>>
    BY <1>1, <1>t, PartType
  <2>2. /\ Part(k, i, j) \in Seq(Byte) /\ Len(Part(k, i, j)) = IF i <= j THEN j - i ELSE 0
        /\ \A x \in 1 .. Len(Part(k, i, j)) : Part(k, i, j)[x] = <<k, i + x>>
    BY <1>3, <1>t, PartType
  <2>3. 0 <= z /\ z - 0 = z BY <1>1
  <2> QED BY <1>t, <2>1, <2>2, <2>3
<1> HIDE DEF p, q
<1>5. /\ s \o p \in Seq(Byte) /\ Len(s \o p) = n + z
      /\ \A x \in 1 .. n + z : (s \o p)[x] = IF x <= n THEN s[x] ELSE p[x - n]
  BY <1>t, <1>v, <1>4, ConcatFacts
<1> DEFINE f == First(w)
           u == Width(n, w)
           v == Width(n + z, w)
<1>6. f \in Nat /\ u \in Nat /\ v \in Nat
  <2>1. n + z \in Nat BY <1>1
  <2>2. f \in Nat /\ u \in Nat BY <1>1, <1>t, WidthType
  <2>3. v \in Nat BY <1>t, <2>1, WidthType
  <2> QED BY <2>2, <2>3
<1>7. /\ f = IF a < 0 THEN 0 ELSE a
      /\ u = IF (IF b + 1 <= n THEN b + 1 ELSE n) > f THEN (IF b + 1 <= n THEN b + 1 ELSE n) - f ELSE 0
      /\ v = IF (IF b + 1 <= n + z THEN b + 1 ELSE n + z) > f
             THEN (IF b + 1 <= n + z THEN b + 1 ELSE n + z) - f ELSE 0
  BY <1>u DEF First, Ends, Width
<1>8. /\ Cut(s, w) \in Seq(Byte) /\ Len(Cut(s, w)) = u /\ \A x \in 1 .. u : Cut(s, w)[x] = s[f + x]
  BY <1>t, <1>v, CutType
<1>9. /\ Cut(s \o p, w) \in Seq(Byte) /\ Len(Cut(s \o p, w)) = v
      /\ \A x \in 1 .. v : Cut(s \o p, w)[x] = (s \o p)[f + x]
  <2> DEFINE o == s \o p
  <2>1. o \in Seq(Byte) /\ Len(o) = n + z BY <1>5
  <2> HIDE DEF o
  <2>2. /\ Cut(o, w) \in Seq(Byte) /\ Len(Cut(o, w)) = Width(Len(o), w)
        /\ \A x \in 1 .. Width(Len(o), w) : Cut(o, w)[x] = o[First(w) + x]
    BY <1>t, <2>1, CutType
  <2>3. /\ Cut(o, w) \in Seq(Byte) /\ Len(Cut(o, w)) = v
        /\ \A x \in 1 .. v : Cut(o, w)[x] = o[f + x]
    BY <2>1, <2>2
  <2> QED BY <2>3 DEF o
<1> HIDE DEF f, u, v
<1>10. v = u + (j - i) BY <1>1, <1>2, <1>3, <1>6, <1>7, <1>t
<1>11. \A x \in 1 .. u : f + x \in 1 .. n BY <1>1, <1>6, <1>7
<1>12. \A x \in 1 .. v : x > u => f + x > n /\ f + x \in 1 .. n + z /\ f + x - n = i + (x - u)
  BY <1>1, <1>2, <1>3, <1>6, <1>7, <1>10, <1>t
<1>13. /\ Cut(s, w) \o q \in Seq(Byte) /\ Len(Cut(s, w) \o q) = v
       /\ \A x \in 1 .. v : (Cut(s, w) \o q)[x] = IF x <= u THEN Cut(s, w)[x] ELSE q[x - u]
  <2> DEFINE d == Cut(s, w)
  <2>1. d \in Seq(Byte) /\ Len(d) = u /\ q \in Seq(Byte) /\ Len(q) = j - i BY <1>4, <1>8
  <2> HIDE DEF d
  <2>2. /\ d \o q \in Seq(Byte) /\ Len(d \o q) = Len(d) + Len(q)
        /\ \A x \in 1 .. Len(d) + Len(q) : (d \o q)[x] = IF x <= Len(d) THEN d[x] ELSE q[x - Len(d)]
    BY <2>1, ConcatFacts
  <2>3. /\ d \o q \in Seq(Byte) /\ Len(d \o q) = v
        /\ \A x \in 1 .. v : (d \o q)[x] = IF x <= u THEN d[x] ELSE q[x - u]
    BY <1>10, <2>1, <2>2
  <2> QED BY <2>3 DEF d
<1>14. ASSUME NEW x \in 1 .. v PROVE Cut(s \o p, w)[x] = (Cut(s, w) \o q)[x]
  <2>1. CASE x <= u
    <3>1. x \in 1 .. u /\ f + x \in 1 .. n /\ f + x \in 1 .. n + z /\ f + x <= n BY <1>1, <1>6, <1>11, <2>1
    <3>2. (s \o p)[f + x] = s[f + x] BY <1>5, <3>1
    <3> QED BY <1>8, <1>9, <1>13, <2>1, <3>1, <3>2
  <2>2. CASE x > u
    <3>1. f + x > n /\ f + x \in 1 .. n + z /\ f + x - n = i + (x - u) BY <1>12, <2>2
    <3>2. ~(f + x <= n) /\ (f + x) - n \in 1 .. z /\ (f + x) - n = i + (x - u) /\ x - u \in 1 .. j - i /\ ~(x <= u)
      BY <1>1, <1>3, <1>6, <1>10, <2>2, <3>1
    <3>3. (s \o p)[f + x] = p[(f + x) - n] BY <1>5, <3>1, <3>2
    <3>4. p[(f + x) - n] = <<k, 0 + ((f + x) - n)>> BY <1>4, <3>2
    <3>5. q[x - u] = <<k, i + (x - u)>> BY <1>4, <3>2
    <3>6. 0 + ((f + x) - n) = i + (x - u) BY <1>1, <1>6, <3>2
    <3> QED BY <1>9, <1>13, <3>2, <3>3, <3>4, <3>5, <3>6
  <2>3. x \in Nat /\ (x <= u \/ x > u) BY <1>6
  <2> QED BY <2>1, <2>2, <2>3
<1>15. Cut(s \o p, w) = Cut(s, w) \o q BY <1>6, <1>9, <1>13, <1>14, SameSeq
<1> QED BY <1>15 DEF p, q, z

-----------------------------------------------------------------------------
(* What a request has sent where it is.                                      *)
Fresh(r) == r.range = Nowhere /\ r.next = 1 /\ r.off = 0 /\ r.sent = <<>> /\ r.header = Idle.header

Fits(r) ==
  Plain(r) => /\ InRange(r.range, Length(r)) = Asked(r.header, Length(r))
              /\ r.range # Nowhere => r.range[2] < Length(r)

Sending(r) ==
  /\ IsRange(r.range) /\ r.next \in 1 .. Len(ChunksOf[r.man])
  /\ r.sent = Cut(Pre(r.man, r.next - 1), r.range)
  /\ r.pc \in {"content", "stream"} => r.off = Len(Pre(r.man, r.next - 1))
  /\ r.pc # "stream" => r.range = <<0, Length(r) - 1>>

SentOK(r) ==
  /\ r.pc \in {"idle", "file"} => r.man = None
  /\ r.pc \notin {"idle", "file"} => r.man \in Manifests
  /\ r.pc \in {"file", "count", "manifest"} => r.kind \in {"download", "stream", "owner"}
  /\ r.pc \in {"chunk", "get"} => r.kind = "chunks"
  /\ r.pc \in {"idle", "file", "count", "manifest"} => Fresh(r)
  /\ r.pc \in {"content", "stream", "chunk", "get"} => Sending(r)
  /\ r.pc = "done" => IsRange(r.range) /\ r.sent = Cut(Bytes(r.man), r.range)
  /\ r.pc = "refused" => r.range = Nowhere /\ r.sent = <<>>
  /\ r.pc \in {"content", "stream", "chunk", "get", "done", "refused"} => Fits(r)

SentIInv == \A c \in Clients : SentOK(req[c])

(* The fields that SentOK looks at.                                          *)
Same(s, r) ==
  /\ s.pc = r.pc /\ s.kind = r.kind /\ s.man = r.man /\ s.header = r.header /\ s.range = r.range
  /\ s.next = r.next /\ s.off = r.off /\ s.sent = r.sent

LEMMA SameOK ==
  ASSUME NEW r, NEW s, Same(s, r), SentOK(r)
  PROVE  SentOK(s)
BY DEF Same, SentOK, Fresh, Fits, Sending, Plain, Length

LEMMA NotedSame ==
  ASSUME NEW r, IsRequest(r), NEW b \in BOOLEAN, NEW v
  PROVE  Same(Note(r, b, v), r)
<1>1. /\ Note(r, b, v).pc = r.pc /\ Note(r, b, v).kind = r.kind /\ Note(r, b, v).man = r.man
      /\ Note(r, b, v).header = r.header
  BY DEF IsRequest, Note
<1>2. /\ Note(r, b, v).range = r.range /\ Note(r, b, v).next = r.next /\ Note(r, b, v).off = r.off
      /\ Note(r, b, v).sent = r.sent
  BY DEF IsRequest, Note
<1> QED BY <1>1, <1>2 DEF Same

LEMMA RequestsSent ==
  ASSUME NEW next, \A c \in Clients : IsRequest(next[c]) /\ next[c].ok \in BOOLEAN /\ SentOK(next[c]), Requests(next)
  PROVE  SentIInv'
<1> SUFFICES ASSUME NEW c \in Clients PROVE SentOK(req'[c]) BY DEF SentIInv
<1> DEFINE r == next[c]
<1>0. IsRequest(r) /\ r.ok \in BOOLEAN /\ SentOK(r) OBVIOUS
<1>1. CASE r.pc \in Over
  <2>1. req'[c] = r BY <1>1 DEF Requests
  <2> QED BY <1>0, <2>1
<1>2. CASE r.pc \notin Over
  <2> DEFINE b == r.ok \/ Allowed(r, share')
             v == IF r.man = None THEN r.versions \cup {manifest'} ELSE r.versions \cap {r.man}
  <2>1. req'[c] = [r EXCEPT !.ok = r.ok \/ Allowed(r, share'),
                            !.versions = IF r.man = None THEN r.versions \cup {manifest'}
                                         ELSE r.versions \cap {r.man}]
    BY <1>0, <1>2 DEF Requests, IsRequest
  <2>2. b \in BOOLEAN BY <1>0 DEF Allowed
  <2>3. req'[c] = Note(r, b, v) BY <2>1 DEF Note
  <2> HIDE DEF b, v, r
  <2>4. PICK s : s = Note(r, b, v) OBVIOUS
  <2>5. Same(s, r) BY <1>0, <2>2, <2>4, NotedSame
  <2>6. SentOK(s) BY <1>0, <2>5, SameOK
  <2> QED BY <2>3, <2>4, <2>6
<1> QED BY <1>1, <1>2

LEMMA GotoSent ==
  ASSUME SharingIInv, SentIInv, NEW c \in Clients, NEW r, IsRequest(r), r.ok \in BOOLEAN, SentOK(r), Goto(c, r)
  PROVE  SentIInv'
<1> DEFINE next == [req EXCEPT ![c] = r]
<1>1. req = [d \in Clients |-> req[d]] BY DEF SharingIInv
<1>2. \A d \in Clients : next[d] = IF d = c THEN r ELSE req[d] BY <1>1
<1>3. Requests(next) BY DEF Goto
<1>4. \A d \in Clients : IsRequest(req[d]) /\ req[d].ok \in BOOLEAN /\ SentOK(req[d])
  BY DEF SharingIInv, RequestTypes, SentIInv
<1> HIDE DEF next
<1>5. \A d \in Clients : IsRequest(next[d]) /\ next[d].ok \in BOOLEAN /\ SentOK(next[d]) BY <1>2, <1>4
<1> QED BY <1>3, <1>5, RequestsSent

LEMMA KeepsSent ==
  ASSUME SharingIInv, SentIInv, Requests(req)
  PROVE  SentIInv'
<1>1. \A d \in Clients : IsRequest(req[d]) /\ req[d].ok \in BOOLEAN /\ SentOK(req[d])
  BY DEF SharingIInv, RequestTypes, SentIInv
<1> QED BY <1>1, RequestsSent

LEMMA IdleSent == SentOK(Idle) /\ IsRequest(Idle) /\ Idle.ok \in BOOLEAN
<1>1. Idle.pc = "idle" /\ Idle.man = None /\ Idle.range = Nowhere /\ Idle.next = 1 BY DEF Idle
<1>2. Idle.off = 0 /\ Idle.sent = <<>> BY DEF Idle
<1>3. SentOK(Idle) BY <1>1, <1>2 DEF SentOK, Fresh
<1> QED BY <1>3, IdleFacts DEF RequestTypes

LEMMA FailSent ==
  ASSUME SharingIInv, SentIInv, NEW c \in Clients, Fail(c)
  PROVE  SentIInv'
BY IdleSent, GotoSent DEF Fail

LEMMA SizeType ==
  ASSUME NEW m \in Manifests
  PROVE  Size(m) \in Nat /\ Bytes(m) \in Seq(Byte)
<1>1. Len(ChunksOf[m]) \in 0 .. Len(ChunksOf[m]) BY PartsType
<1>2. Bytes(m) \in Seq(Byte) BY <1>1, PreFacts
<1> QED BY <1>2, SharesAssumption DEF Size

LEMMA LengthType ==
  ASSUME NEW r, r.man \in Manifests
  PROVE  Length(r) \in Nat
BY SizeType DEF Length

(* A loop that begins.                                                       *)
LEMMA LoopSent ==
  ASSUME NEW r, r.man \in Manifests, r.next = 1, r.off = 0, r.sent = <<>>, IsRange(r.range), Fits(r),
         NEW pc \in {"content", "stream", "chunk"}, r.pc = Loop(r.man, pc),
         pc # "stream" => r.range = <<0, Length(r) - 1>>, pc = "chunk" => r.kind = "chunks"
  PROVE  SentOK(r)
<1> DEFINE m == r.man
           n == Len(ChunksOf[m])
<1>1. n \in Nat BY PartsType
<1>2. Pre(m, 0) = <<>> /\ Pre(m, n) = Bytes(m) BY PreFacts
<1>3. Cut(<< >>, r.range) = <<>>
  <2>1. Width(0, r.range) = 0 BY DEF Width, Ends, First, IsRange
  <2>2. 1 .. 0 = {} /\ Len(<< >>) = 0 OBVIOUS
  <2>3. Cut(<< >>, r.range) = [x \in 1 .. 0 |-> << >>[First(r.range) + x]] BY <2>1, <2>2 DEF Cut
  <2> QED BY <2>2, <2>3
<1>4. CASE ChunksOf[m] = <<>>
  <2>1. r.pc = "done" /\ n = 0 BY <1>4 DEF Loop
  <2>2. Bytes(m) = <<>> BY <1>2, <2>1
  <2> QED BY <1>3, <2>1, <2>2 DEF SentOK
<1>5. CASE ChunksOf[m] # <<>>
  <2>1. r.pc = pc BY <1>5 DEF Loop
  <2>2. n # 0
    <3>1. ChunksOf[m] \in Seq(DOMAIN SizeOf) BY SharesAssumption
    <3> QED BY <1>5, <3>1
  <2>3. r.next \in 1 .. n /\ r.next - 1 = 0 BY <1>1, <2>2
  <2>4. Pre(m, r.next - 1) = <<>> BY <1>2, <2>3
  <2>5. Len(<< >>) = 0 OBVIOUS
  <2>6. Sending(r) BY <1>3, <2>1, <2>3, <2>4, <2>5 DEF Sending
  <2> QED BY <2>1, <2>6 DEF SentOK
<1> QED BY <1>4, <1>5

-----------------------------------------------------------------------------
(* The steps of requests and what they have sent.                            *)

LEMMA OpenedSent ==
  ASSUME SharingIInv, SentIInv, NEW c \in Clients, downloadSharedFile(c) \/ streamSharedFile(c)
  PROVE  SentIInv'
<1>1. \/ \E l, b, max, count : Goto(c, [Idle EXCEPT !.pc = "file", !.kind = "download", !.link = l, !.pwd = b,
                                                    !.limit = max, !.count = count])
      \/ \E l, b : Goto(c, [Idle EXCEPT !.pc = "file", !.kind = "stream", !.link = l, !.pwd = b])
  BY DEF downloadSharedFile, streamSharedFile
<1>2. ASSUME NEW l, NEW b, NEW max, NEW count, NEW q,
             \/ q = [Idle EXCEPT !.pc = "file", !.kind = "download", !.link = l, !.pwd = b,
                                 !.limit = max, !.count = count]
             \/ q = [Idle EXCEPT !.pc = "file", !.kind = "stream", !.link = l, !.pwd = b]
      PROVE  IsRequest(q) /\ q.ok \in BOOLEAN /\ SentOK(q)
  <2>1. q.pc = "file" /\ q.man = None /\ q.kind \in {"download", "stream"} /\ q.next = 1 /\ q.off = 0
    BY <1>2 DEF Idle
  <2>2. q.sent = <<>> /\ q.range = Nowhere BY <1>2 DEF Idle
  <2>3. q.header = Idle.header BY <1>2 DEF Idle
  <2>4. q.ok = FALSE BY <1>2 DEF Idle
  <2>5. IsRequest(q) BY <1>2 DEF Idle, IsRequest
  <2> QED BY <2>1, <2>2, <2>3, <2>4, <2>5 DEF SentOK, Fresh
<1>3. \E q : Goto(c, q) /\ IsRequest(q) /\ q.ok \in BOOLEAN /\ SentOK(q)
  <2>1. ASSUME NEW l, NEW b, NEW max, NEW count,
               Goto(c, [Idle EXCEPT !.pc = "file", !.kind = "download", !.link = l, !.pwd = b,
                                    !.limit = max, !.count = count])
        PROVE  \E q : Goto(c, q) /\ IsRequest(q) /\ q.ok \in BOOLEAN /\ SentOK(q)
    <3> DEFINE q == [Idle EXCEPT !.pc = "file", !.kind = "download", !.link = l, !.pwd = b,
                                 !.limit = max, !.count = count]
    <3>1. IsRequest(q) /\ q.ok \in BOOLEAN /\ SentOK(q) BY <1>2
    <3>2. Goto(c, q) BY <2>1
    <3> HIDE DEF q
    <3> QED BY <3>1, <3>2
  <2>2. ASSUME NEW l, NEW b,
               Goto(c, [Idle EXCEPT !.pc = "file", !.kind = "stream", !.link = l, !.pwd = b])
        PROVE  \E q : Goto(c, q) /\ IsRequest(q) /\ q.ok \in BOOLEAN /\ SentOK(q)
    <3> DEFINE q == [Idle EXCEPT !.pc = "file", !.kind = "stream", !.link = l, !.pwd = b]
    <3>1. IsRequest(q) /\ q.ok \in BOOLEAN /\ SentOK(q) BY <1>2
    <3>2. Goto(c, q) BY <2>2
    <3> HIDE DEF q
    <3> QED BY <3>1, <3>2
  <2> QED BY <1>1, <2>1, <2>2
<1> QED BY <1>3, GotoSent

LEMMA FileReadSent ==
  ASSUME SharingIInv, SentIInv, NEW c \in Clients, GetFileByID(c)
  PROVE  SentIInv'
<1>1. CASE manifest = None BY <1>1, FailSent DEF GetFileByID
<1>2. CASE manifest # None
  <2> DEFINE r == req[c]
             pc == IF r.kind = "download" THEN "count" ELSE "manifest"
             q == [r EXCEPT !.man = manifest, !.pc = pc]
  <2>1. Goto(c, q) /\ r.pc = "file" BY <1>2 DEF GetFileByID
  <2>2. RequestTypes(r) /\ SentOK(r) BY DEF SharingIInv, SentIInv
  <2>3. manifest \in Manifests BY <1>2 DEF SharingIInv, TypeOK
  <2>4. IsRequest(r) /\ r.ok \in BOOLEAN BY <2>2 DEF RequestTypes
  <2>5. pc \in {"count", "manifest"} OBVIOUS
  <2> HIDE DEF r, pc
  <2>6. q.pc = pc /\ q.man = manifest /\ q.kind = r.kind /\ q.next = r.next /\ q.off = r.off /\ q.sent = r.sent
    BY <2>4 DEF IsRequest
  <2>7. q.header = r.header /\ q.range = r.range BY <2>4 DEF IsRequest
  <2>8. q.ok = r.ok BY <2>4 DEF IsRequest
  <2>9. IsRequest(q) BY <2>4 DEF IsRequest
  <2> HIDE DEF q
  <2>10. SentOK(q) BY <2>1, <2>2, <2>3, <2>5, <2>6, <2>7 DEF SentOK, Fresh
  <2> QED BY <2>1, <2>4, <2>8, <2>9, <2>10, GotoSent
<1> QED BY <1>1, <1>2

LEMMA CountedSent ==
  ASSUME SharingIInv, SentIInv, NEW c \in Clients, IncrementShareDownloadCount(c)
  PROVE  SentIInv'
<1> DEFINE r == req[c]
           q == [r EXCEPT !.pc = "manifest"]
<1>1. r.pc = "count" /\ (Fail(c) \/ Goto(c, q)) BY DEF IncrementShareDownloadCount
<1>2. RequestTypes(r) /\ SentOK(r) BY DEF SharingIInv, SentIInv
<1>3. IsRequest(r) /\ r.ok \in BOOLEAN BY <1>2 DEF RequestTypes
<1> HIDE DEF r
<1>4. q.pc = "manifest" /\ q.man = r.man /\ q.kind = r.kind /\ q.next = r.next /\ q.off = r.off /\ q.sent = r.sent
  BY <1>3 DEF IsRequest
<1>5. q.header = r.header /\ q.range = r.range BY <1>3 DEF IsRequest
<1>6. q.ok = r.ok BY <1>3 DEF IsRequest
<1>7. IsRequest(q) BY <1>3 DEF IsRequest
<1> HIDE DEF q
<1>8. SentOK(q) BY <1>1, <1>2, <1>4, <1>5 DEF SentOK, Fresh
<1> QED BY <1>1, <1>3, <1>6, <1>7, <1>8, FailSent, GotoSent

(* All of the content is what a request without a header asks for.           *)
LEMMA WholeFits ==
  ASSUME NEW r, r.man \in Manifests, r.header = Idle.header, r.range = <<0, Length(r) - 1>>
  PROVE  Fits(r) /\ IsRange(r.range)
<1>1. Length(r) \in Nat BY LengthType
<1>2. r.header.form = "none" BY DEF Idle
<1>3. IsRange(r.range) /\ r.range # Nowhere BY <1>1 DEF IsRange, Nowhere
<1>4. InRange(r.range, Length(r)) = 0 .. Length(r) - 1 BY <1>1, <1>3 DEF InRange
<1>5. Asked(r.header, Length(r)) = 0 .. Length(r) - 1 BY <1>2 DEF Asked
<1>6. r.range[2] < Length(r) BY <1>1
<1> QED BY <1>3, <1>6, <1>4, <1>5 DEF Fits

LEMMA BegunSent ==
  ASSUME SharingIInv, SentIInv, NEW c \in Clients, OwnerReads(c) \/ getChunksInfo(c)
  PROVE  SentIInv'
<1>1. manifest \in Manifests BY DEF OwnerReads, getChunksInfo, SharingIInv, TypeOK
<1>2. CASE OwnerReads(c)
  <2> DEFINE q == [Idle EXCEPT !.pc = "manifest", !.kind = "owner", !.man = manifest]
  <2>1. Goto(c, q) BY <1>2 DEF OwnerReads
  <2>2. q.pc = "manifest" /\ q.man = manifest /\ q.kind = "owner" /\ q.next = 1 /\ q.off = 0 BY DEF Idle
  <2>3. q.sent = <<>> /\ q.range = Nowhere BY DEF Idle
  <2>4. q.header = Idle.header BY DEF Idle
  <2>5. q.ok = FALSE BY DEF Idle
  <2>6. IsRequest(q) BY DEF Idle, IsRequest
  <2> HIDE DEF q
  <2>7. SentOK(q) BY <1>1, <2>2, <2>3, <2>4 DEF SentOK, Fresh
  <2> QED BY <2>1, <2>5, <2>6, <2>7, GotoSent
<1>3. CASE getChunksInfo(c)
  <2> DEFINE w == <<0, Len(Bytes(manifest)) - 1>>
             pc == Loop(manifest, "chunk")
             q == [Idle EXCEPT !.pc = pc, !.kind = "chunks", !.man = manifest, !.range = w]
  <2>1. Goto(c, q) BY <1>3 DEF getChunksInfo
  <2> HIDE DEF w, pc
  <2>2. q.pc = pc /\ q.man = manifest /\ q.kind = "chunks" /\ q.next = 1 /\ q.off = 0 /\ q.range = w BY DEF Idle
  <2>3. q.sent = <<>> BY DEF Idle
  <2>4. q.header = Idle.header BY DEF Idle
  <2>5. q.ok = FALSE BY DEF Idle
  <2>6. IsRequest(q) BY DEF Idle, IsRequest
  <2> HIDE DEF q
  <2>7. q.range = <<0, Length(q) - 1>> BY <2>2 DEF w, Length
  <2>8. Fits(q) /\ IsRange(q.range) BY <1>1, <2>2, <2>4, <2>7, WholeFits
  <2>9. q.pc = Loop(q.man, "chunk") BY <2>2 DEF pc
  <2>10. SentOK(q) BY <1>1, <2>2, <2>3, <2>7, <2>8, <2>9, LoopSent
  <2> QED BY <2>1, <2>5, <2>6, <2>10, GotoSent
<1> QED BY <1>2, <1>3

LEMMA ManifestSent ==
  ASSUME SharingIInv, SentIInv, NEW c \in Clients, GetManifest(c)
  PROVE  SentIInv'
<1> DEFINE r == req[c]
           m == r.man
<1>0. r.pc = "manifest" /\ RequestTypes(r) /\ SentOK(r) BY DEF GetManifest, SharingIInv, SentIInv
<1>1. IsRequest(r) /\ r.ok \in BOOLEAN BY <1>0 DEF RequestTypes
<1>2. m \in Manifests /\ Fresh(r) /\ r.kind \in {"download", "stream", "owner"} BY <1>0 DEF SentOK
<1>3. \/ Fail(c) \/ Goto(c, handleFullDownload(r))
      \/ \E h \in Headers[r.kind] : Goto(c, RangeDownload(r, h))
  BY DEF GetManifest
<1> HIDE DEF r
<1>4. Size(m) \in Nat BY <1>2, SizeType
<1>5. CASE Goto(c, handleFullDownload(r))
  <2> DEFINE w == <<0, Length(r) - 1>>
             pc == Loop(m, "content")
             q == [r EXCEPT !.pc = pc, !.range = w, !.limit = 0, !.count = 0]
  <2>1. Goto(c, q) BY <1>5 DEF handleFullDownload
  <2>w. w = <<0, Length(r) - 1>> /\ pc = Loop(m, "content") OBVIOUS
  <2> HIDE DEF w, pc
  <2>2. q.pc = pc /\ q.man = m /\ q.kind = r.kind /\ q.next = r.next /\ q.off = r.off /\ q.range = w
    BY <1>1 DEF IsRequest
  <2>3. q.sent = r.sent /\ q.header = r.header BY <1>1 DEF IsRequest
  <2>4. q.ok = r.ok BY <1>1 DEF IsRequest
  <2>5. IsRequest(q) BY <1>1 DEF IsRequest
  <2> HIDE DEF q
  <2>l. Length(q) = Length(r) BY <2>2 DEF Length
  <2>6. Fits(q) /\ IsRange(q.range) BY <1>2, <2>2, <2>3, <2>w, <2>l, WholeFits DEF Fresh
  <2>7. SentOK(q) BY <2>l, <1>2, <2>2, <2>3, <2>6, <2>w, LoopSent DEF Fresh
  <2> QED BY <1>1, <2>1, <2>4, <2>5, <2>7, GotoSent
<1>6. ASSUME NEW h \in Headers[r.kind], Goto(c, RangeDownload(r, h)) PROVE SentIInv'
  <2> DEFINE w == IF r.kind = "owner" THEN handleRangeRequest(h, Size(r.man)) ELSE publicRangeRequest(h, Size(r.man))
             pc == IF w = Nowhere THEN "refused" ELSE Loop(r.man, "stream")
             q == [r EXCEPT !.pc = pc, !.header = h, !.range = w, !.limit = 0, !.count = 0]
  <2>1. Goto(c, q) BY <1>6 DEF RangeDownload
  <2>2. h \in [form : {"span", "from", "last"}, a : Nat, b : Nat]
    <3>1. Headers[r.kind] \subseteq [form : {"span", "from", "last"}, a : Nat, b : Nat]
      BY <1>2, SharesAssumption
    <3> QED BY <1>6, <3>1
  <2>3. IsHeader(h) /\ h.form # "none" BY <2>2 DEF IsHeader
  <2>w. /\ w = IF r.kind = "owner" THEN handleRangeRequest(h, Size(m)) ELSE publicRangeRequest(h, Size(m))
        /\ pc = IF w = Nowhere THEN "refused" ELSE Loop(m, "stream")
    OBVIOUS
  <2> HIDE DEF w, pc
  <2>4. q.pc = pc /\ q.man = m /\ q.kind = r.kind /\ q.next = r.next /\ q.off = r.off /\ q.range = w
    BY <1>1 DEF IsRequest
  <2>5. q.sent = r.sent /\ q.header = h BY <1>1 DEF IsRequest
  <2>6. q.ok = r.ok BY <1>1 DEF IsRequest
  <2>7. IsRequest(q) BY <1>1 DEF IsRequest
  <2> HIDE DEF q
  <2>8. w = Nowhere \/ IsRange(w)
    <3>1. CASE r.kind = "owner"
      <4>1. w = handleRangeRequest(h, Size(m)) BY <2>w, <3>1
      <4>2. \/ w = Nowhere
            \/ w = <<IF h.form = "last" THEN Max({Size(m) - h.b, 0}) ELSE h.a,
                     Min({IF h.form = "span" THEN h.b ELSE Size(m) - 1, Size(m) - 1})>>
        BY <4>1 DEF handleRangeRequest
      <4>3. Max({Size(m) - h.b, 0}) \in Int /\ h.a \in Int BY <1>4, <2>2, MaxOfTwo
      <4>4. Min({IF h.form = "span" THEN h.b ELSE Size(m) - 1, Size(m) - 1}) \in Int BY <1>4, <2>2, MinOfTwo
      <4> QED BY <4>2, <4>3, <4>4 DEF IsRange
    <3>2. CASE r.kind # "owner"
      <4>1. w = publicRangeRequest(h, Size(m)) BY <2>w, <3>2
      <4> QED BY <1>4, <2>2, <4>1 DEF publicRangeRequest, IsRange
    <3> QED BY <3>1, <3>2
  <2>9. Fits(q)
    <3>l. Length(q) = Size(m) BY <1>2, <2>4 DEF Length
    <3> SUFFICES ASSUME Plain(q)
                 PROVE  InRange(w, Size(m)) = Asked(h, Size(m)) /\ (w # Nowhere => w[2] < Size(m))
      BY <2>4, <2>5, <3>l DEF Fits
    <3>1. CASE r.kind = "owner"
      <4>1. w = handleRangeRequest(h, Size(m)) BY <2>w, <3>1
      <4> QED BY <1>4, <2>3, <4>1, OwnerRangeExact
    <3>2. CASE r.kind # "owner"
      <4>1. w = publicRangeRequest(h, Size(m)) BY <2>w, <3>2
      <4>2. h.a < Size(m) /\ (h.form = "from" \/ (h.form = "span" /\ h.b > 0 /\ h.a <= h.b))
        BY <2>3, <2>4, <2>5, <3>2 DEF Plain
      <4> QED BY <1>4, <2>3, <4>1, <4>2, PublicRangeExact
    <3> QED BY <3>1, <3>2
  <2>10. SentOK(q)
    <3>1. CASE w = Nowhere
      <4>1. q.pc = "refused" BY <2>4, <2>w, <3>1
      <4> QED BY <1>2, <2>4, <2>5, <2>9, <3>1, <4>1 DEF SentOK, Fresh
    <3>2. CASE w # Nowhere
      <4>1. q.pc = Loop(q.man, "stream") /\ IsRange(q.range) BY <2>4, <2>8, <2>w, <3>2
      <4>2. q.man \in Manifests /\ q.next = 1 /\ q.off = 0 /\ q.sent = <<>> BY <1>2, <2>4, <2>5 DEF Fresh
      <4> QED BY <2>9, <4>1, <4>2, LoopSent
    <3> QED BY <3>1, <3>2
  <2> QED BY <1>1, <2>1, <2>6, <2>7, <2>10, GotoSent
<1> QED BY <1>3, <1>5, <1>6, FailSent


LEMMA NextChunk ==
  ASSUME NEW m \in Manifests, NEW n \in 1 .. Len(ChunksOf[m])
  PROVE  LET k == ChunksOf[m][n]
         IN  /\ k \in DOMAIN SizeOf /\ SizeOf[k] \in Nat /\ n \in Nat
             /\ Pre(m, n - 1) \in Seq(Byte) /\ Pre(m, n) \in Seq(Byte)
             /\ Pre(m, n) = Pre(m, n - 1) \o Part(k, 0, SizeOf[k])
             /\ Len(Pre(m, n)) = Len(Pre(m, n - 1)) + SizeOf[k]
             /\ Begins(Pre(m, n), Bytes(m))
<1> DEFINE k == ChunksOf[m][n]
           z == SizeOf[k]
<1>1. k \in DOMAIN SizeOf /\ z \in Nat /\ Parts(m)[n] = Part(k, 0, z) /\ Len(ChunksOf[m]) \in Nat
      /\ Parts(m)[n] \in Seq(Byte)
  BY PartsType
<1>2. n - 1 \in 0 .. Len(ChunksOf[m]) - 1 /\ (n - 1) + 1 = n /\ n - 1 \in 0 .. Len(ChunksOf[m])
      /\ n \in 0 .. Len(ChunksOf[m])
  BY <1>1
<1>3. /\ Pre(m, (n - 1) + 1) = Pre(m, n - 1) \o Parts(m)[(n - 1) + 1]
      /\ Pre(m, n - 1) \in Seq(Byte) /\ Pre(m, n) \in Seq(Byte)
  BY <1>2, PreFacts
<1>4. Pre(m, n) = Pre(m, n - 1) \o Part(k, 0, z) BY <1>1, <1>2, <1>3
<1>5. Part(k, 0, z) \in Seq(Byte) /\ Len(Part(k, 0, z)) = z
  <2>1. Len(Part(k, 0, z)) = IF 0 <= z THEN z - 0 ELSE 0 BY <1>1, PartType
  <2>2. 0 <= z /\ z - 0 = z BY <1>1
  <2> QED BY <1>1, <2>1, <2>2
<1> HIDE DEF z, k
<1>6. Len(Pre(m, n)) = Len(Pre(m, n - 1)) + z
  <2> DEFINE s == Pre(m, n - 1)
             p == Part(k, 0, z)
  <2>1. s \in Seq(Byte) /\ p \in Seq(Byte) /\ Len(p) = z /\ Pre(m, n) = s \o p BY <1>3, <1>4, <1>5
  <2> HIDE DEF s, p
  <2>2. Len(s \o p) = Len(s) + Len(p) BY <2>1, ConcatFacts
  <2>3. Len(Pre(m, n)) = Len(s) + z BY <2>1, <2>2
  <2> QED BY <2>3 DEF s
<1>7. Begins(Pre(m, n), Bytes(m)) BY <1>2, PreBegins
<1> QED BY <1>1, <1>2, <1>3, <1>4, <1>6, <1>7 DEF z, k

(* A chunk more of all of the content.                                       *)
LEMMA WholeGrows ==
  ASSUME NEW m \in Manifests, NEW n \in 1 .. Len(ChunksOf[m]), NEW k, k = ChunksOf[m][n],
         NEW size \in Nat, Len(Pre(m, n)) <= size, NEW w, w = <<0, size - 1>>
  PROVE  Cut(Pre(m, n), w) = Cut(Pre(m, n - 1), w) \o Part(k, 0, SizeOf[k])
<1>1. /\ Pre(m, n - 1) \in Seq(Byte) /\ Pre(m, n) \in Seq(Byte) /\ SizeOf[k] \in Nat
      /\ Pre(m, n) = Pre(m, n - 1) \o Part(k, 0, SizeOf[k])
      /\ Len(Pre(m, n)) = Len(Pre(m, n - 1)) + SizeOf[k]
      /\ Begins(Pre(m, n), Bytes(m))
  BY NextChunk
<1>3. Len(Pre(m, n - 1)) \in Nat BY <1>1
<1>4. Len(Pre(m, n - 1)) <= size BY <1>1, <1>3
<1>5. Cut(Pre(m, n), w) = Pre(m, n) BY <1>1, CutAll
<1>6. Cut(Pre(m, n - 1), w) = Pre(m, n - 1) BY <1>1, <1>4, CutAll
<1> QED BY <1>1, <1>5, <1>6

(* What is so after a chunk: q goes on, or is done, because it was the last  *)
(* one or because that was all of the range.                                 *)
LEMMA SentOn ==
  ASSUME NEW r, SentOK(r), r.pc \in {"content", "stream", "get"},
         NEW q, q.man = r.man, q.kind = r.kind, q.header = r.header, q.range = r.range, q.next = r.next + 1,
         q.sent = Cut(Pre(r.man, r.next), r.range),
         q.pc \in {"content", "stream"} => q.off = Len(Pre(r.man, r.next)),
         q.pc \in {"content", "stream", "chunk", "done"}, q.pc = "stream" => r.pc = "stream",
         q.pc = "content" => r.pc = "content", q.pc = "chunk" => r.pc = "get",
         IF q.pc = "done"
         THEN r.next = Len(ChunksOf[r.man]) \/ Len(q.sent) >= (r.range[2] - r.range[1]) + 1
         ELSE r.next # Len(ChunksOf[r.man])
  PROVE  SentOK(q)
<1> DEFINE m == r.man
           n == r.next
           w == r.range
<1>1. m \in Manifests /\ Sending(r) /\ Fits(r) BY DEF SentOK
<1>2. IsRange(w) /\ n \in 1 .. Len(ChunksOf[m]) BY <1>1 DEF Sending
<1>3. Len(ChunksOf[m]) \in Nat /\ n \in Nat BY <1>1, <1>2, PartsType
<1>l. Length(q) = Length(r) BY DEF Length
<1>4. Fits(q) BY <1>1, <1>l DEF Fits, Plain
<1>5. CASE q.pc = "done"
  <2>1. CASE n = Len(ChunksOf[m])
    <3>1. q.sent = Cut(Bytes(m), w) BY <1>1, <2>1, PreFacts
    <3> QED BY <1>1, <1>2, <1>4, <1>5, <3>1 DEF SentOK
  <2>2. CASE Len(q.sent) >= (w[2] - w[1]) + 1
    <3>1. Pre(m, n) \in Seq(Byte) /\ Begins(Pre(m, n), Bytes(m)) BY <1>1, <1>2, NextChunk
    <3>2. Bytes(m) \in Seq(Byte) BY <1>1, SizeType
    <3>3. Len(Cut(Pre(m, n), w)) >= (w[2] - w[1]) + 1 BY <2>2
    <3> HIDE DEF m, n, w
    <3>4. Cut(Pre(m, n), w) = Cut(Bytes(m), w) BY <1>2, <3>1, <3>2, <3>3, CutFull
    <3> QED BY <1>1, <1>2, <1>4, <1>5, <3>4 DEF SentOK, m, n, w
  <2> QED BY <1>5, <2>1, <2>2
<1>6. CASE q.pc # "done"
  <2>1. q.next \in 1 .. Len(ChunksOf[m]) /\ q.next - 1 = n BY <1>2, <1>3, <1>6
  <2>2. q.pc # "stream" => w = <<0, Length(q) - 1>> BY <1>1, <1>6, <1>l DEF Sending
  <2>3. Sending(q) BY <1>2, <2>1, <2>2 DEF Sending
  <2> QED BY <1>1, <1>4, <1>6, <2>3 DEF SentOK
<1> QED BY <1>5, <1>6

(* The fields of a request after a chunk.                                    *)
Moves(r, sent, next, off, pc, q) ==
  \/ q = [r EXCEPT !.sent = sent, !.next = next, !.off = off, !.pc = pc]
  \/ q = [r EXCEPT !.sent = sent, !.next = next, !.pc = pc] /\ off = r.off

LEMMA Advanced ==
  ASSUME NEW r, IsRequest(r), NEW sent, NEW next, NEW off, NEW pc, NEW q, Moves(r, sent, next, off, pc, q)
  PROVE  /\ q.pc = pc /\ q.man = r.man /\ q.kind = r.kind /\ q.next = next /\ q.off = off
         /\ q.range = r.range /\ q.sent = sent /\ q.header = r.header /\ q.ok = r.ok /\ IsRequest(q)
<1>1. q.pc = pc /\ q.man = r.man /\ q.kind = r.kind /\ q.next = next /\ q.off = off /\ q.range = r.range
  BY DEF IsRequest, Moves
<1>2. q.sent = sent /\ q.header = r.header BY DEF IsRequest, Moves
<1>3. q.ok = r.ok BY DEF IsRequest, Moves
<1>4. IsRequest(q) BY DEF IsRequest, Moves
<1> QED BY <1>1, <1>2, <1>3, <1>4

LEMMA ChunkWritten ==
  ASSUME SharingIInv, SentIInv, NEW c \in Clients, NEW r, r = req[c],
         r.pc \in {"content", "stream", "get"},
         NEW sent, sent = Cut(Pre(r.man, r.next), r.range),
         NEW next, next = r.next + 1,
         NEW off, NEW pc, pc \in {"content", "stream"} => off = Len(Pre(r.man, r.next)),
         pc \in {"content", "stream", "chunk", "done"}, pc = "stream" => r.pc = "stream",
         pc = "content" => r.pc = "content", pc = "chunk" => r.pc = "get",
         IF pc = "done" THEN r.next = Len(ChunksOf[r.man]) \/ Len(sent) >= (r.range[2] - r.range[1]) + 1
         ELSE r.next # Len(ChunksOf[r.man]),
         NEW q, Goto(c, q), Moves(r, sent, next, off, pc, q)
  PROVE  SentIInv'
<1>1. RequestTypes(r) /\ SentOK(r) BY DEF SharingIInv, SentIInv
<1>2. IsRequest(r) /\ r.ok \in BOOLEAN BY <1>1 DEF RequestTypes
<1>3. /\ q.pc = pc /\ q.man = r.man /\ q.kind = r.kind /\ q.next = next /\ q.off = off
      /\ q.range = r.range /\ q.sent = sent /\ q.header = r.header /\ q.ok = r.ok /\ IsRequest(q)
  BY <1>2, Advanced
<1>4. SentOK(q)
  <2>1. q.pc \in {"content", "stream"} => q.off = Len(Pre(r.man, r.next)) BY <1>3
  <2>2. IF q.pc = "done"
        THEN r.next = Len(ChunksOf[r.man]) \/ Len(q.sent) >= (r.range[2] - r.range[1]) + 1
        ELSE r.next # Len(ChunksOf[r.man])
    BY <1>3
  <2>3. q.next = r.next + 1 /\ q.sent = Cut(Pre(r.man, r.next), r.range) BY <1>3
  <2>4. /\ q.pc \in {"content", "stream", "chunk", "done"} /\ (q.pc = "stream" => r.pc = "stream")
        /\ q.pc = "content" => r.pc = "content"
        /\ q.pc = "chunk" => r.pc = "get"
    BY <1>3
  <2> QED BY <1>1, <1>3, <2>1, <2>2, <2>3, <2>4, SentOn
<1> QED BY <1>2, <1>3, <1>4, GotoSent

LEMMA ChunkSentExact ==
  ASSUME SharingIInv, SentIInv, NEW c \in Clients,
         streamContent(c) \/ streamRange(c) \/ WriteFails(c) \/ downloadChunk(c) \/ GetChunk(c)
  PROVE  SentIInv'
<1> DEFINE r == req[c]
           m == r.man
           n == r.next
           w == r.range
           k == ChunksOf[m][n]
           z == SizeOf[k]
           s == Pre(m, n - 1)
           t == Pre(m, n)
<1>r. r = req[c] OBVIOUS
<1>1. r.pc \in {"content", "stream", "chunk", "get"}
  BY DEF streamContent, streamRange, WriteFails, downloadChunk, GetChunk
<1>2. RequestTypes(r) /\ SentOK(r) BY DEF SharingIInv, SentIInv
<1>3. IsRequest(r) /\ r.ok \in BOOLEAN BY <1>2 DEF RequestTypes
<1>4. m \in Manifests /\ Sending(r) BY <1>1, <1>2 DEF SentOK
<1>5. /\ IsRange(w) /\ n \in 1 .. Len(ChunksOf[m]) /\ r.sent = Cut(s, w)
      /\ r.pc \in {"content", "stream"} => r.off = Len(s)
      /\ r.pc # "stream" => w = <<0, Length(r) - 1>>
  BY <1>4 DEF Sending
<1>6. /\ k \in DOMAIN SizeOf /\ z \in Nat /\ n \in Nat
      /\ s \in Seq(Byte) /\ t \in Seq(Byte)
      /\ t = s \o Part(k, 0, z)
      /\ Len(t) = Len(s) + z
  BY <1>4, <1>5, NextChunk
<1>l. Length(r) \in Nat BY <1>4, LengthType
<1>7. ASSUME w = <<0, Length(r) - 1>>, Len(t) <= Length(r) PROVE Cut(t, w) = Cut(s, w) \o Part(k, 0, z)
  <2>1. k = ChunksOf[m][n] /\ z = SizeOf[k] /\ s = Pre(m, n - 1) /\ t = Pre(m, n) OBVIOUS
  <2> HIDE DEF w, m, n, k, z, s, t
  <2>2. Cut(Pre(m, n), w) = Cut(Pre(m, n - 1), w) \o Part(k, 0, SizeOf[k]) BY <1>4, <1>5, <1>7, <1>l, <2>1, WholeGrows
  <2> QED BY <2>1, <2>2
<1> HIDE DEF r, m, n, w, k, z, s, t
<1>8. CASE streamContent(c)
  <2> DEFINE off == r.off + z
             pc == IF FALSE \/ n = Len(ChunksOf[m]) THEN "done" ELSE r.pc
             sent == r.sent \o Part(k, 0, z)
             next == n + 1
             q == [r EXCEPT !.sent = sent, !.next = next, !.off = off, !.pc = pc]
  <2>0. r.pc = "content" /\ (Fail(c) \/ (~(r.off + z > Length(r)) /\ WriteChunk(c, 0, z, FALSE)))
    BY <1>8 DEF streamContent, r, m, n, k, z
  <2>1. r.pc = "content" /\ (Fail(c) \/ (~(r.off + z > Length(r)) /\ Goto(c, q)))
    BY <2>0 DEF WriteChunk, r, m, n, k, z
  <2>a. ~(r.off + z > Length(r)) => Len(t) <= Length(r)
    <3>1. r.off = Len(s) /\ Len(s) \in Nat BY <1>5, <1>6, <2>1
    <3> QED BY <1>6, <1>l, <3>1
  <2>2. ~(r.off + z > Length(r)) => sent = Cut(t, w) BY <1>5, <1>7, <2>1, <2>a
  <2>3. off = Len(t) BY <1>5, <1>6, <2>1
  <2>4. /\ pc \in {"content", "done"}
        /\ IF pc = "done" THEN n = Len(ChunksOf[m]) ELSE n # Len(ChunksOf[m])
    BY <2>1
  <2>5. next = n + 1 OBVIOUS
  <2>6. Moves(r, sent, next, off, pc, q) BY DEF Moves
  <2> HIDE DEF off, pc, q, sent, next
  <2>7. ~(r.off + z > Length(r)) /\ Goto(c, q) => SentIInv' BY <1>r, <2>1, <2>2, <2>3, <2>4, <2>5, <2>6, ChunkWritten DEF m, n, w, t
  <2> QED BY <2>1, <2>7, FailSent
<1>9. CASE GetChunk(c)
  <2> DEFINE pc == IF n = Len(ChunksOf[m]) THEN "done" ELSE "chunk"
             sent == r.sent \o Part(k, 0, z)
             next == n + 1
             off == r.off
             q == [r EXCEPT !.sent = sent, !.next = next, !.pc = pc]
  <2>1. r.pc = "get" /\ (Fail(c) \/ Goto(c, q)) BY <1>9 DEF GetChunk, r, m, n, k, z
  <2>a. Len(t) <= Length(r)
    <3>1. Begins(t, Bytes(m)) BY <1>4, <1>5, NextChunk DEF t
    <3>2. r.kind = "chunks" BY <1>2, <2>1 DEF SentOK
    <3> QED BY <3>1, <3>2 DEF Begins, Length, m
  <2>2. sent = Cut(t, w) BY <1>5, <1>7, <2>1, <2>a
  <2>3. /\ pc \in {"chunk", "done"}
        /\ IF pc = "done" THEN n = Len(ChunksOf[m]) ELSE n # Len(ChunksOf[m])
    OBVIOUS
  <2>4. next = n + 1 /\ off = r.off OBVIOUS
  <2>5. Moves(r, sent, next, off, pc, q) BY DEF Moves
  <2> HIDE DEF off, pc, q, sent, next
  <2>6. Goto(c, q) => SentIInv' BY <1>r, <2>1, <2>2, <2>3, <2>4, <2>5, ChunkWritten DEF m, n, w, t
  <2> QED BY <2>1, <2>6, FailSent
<1>10. CASE streamRange(c)
  <2> DEFINE sl == Slice(z, r.off, w[1], w[2])
             i == sl[1]
             j == sl[2]
             off == r.off + z
             last == j > i /\ Len(r.sent) + (j - i) >= w[2] - w[1] + 1
             pc == IF last \/ n = Len(ChunksOf[m]) THEN "done" ELSE r.pc
             sent == r.sent \o Part(k, i, j)
             next == n + 1
             q == [r EXCEPT !.sent = sent, !.next = next, !.off = off, !.pc = pc]
  <2>1. r.pc = "stream" /\ (Fail(c) \/ (~(i > j) /\ Goto(c, q)))
    BY <1>10 DEF streamRange, WriteChunk, r, m, n, w, k, z
  <2>2. w[1] \in Int /\ w[2] \in Int /\ r.off = Len(s) /\ r.off \in Nat
    <3>1. Len(s) \in Nat BY <1>6
    <3> QED BY <1>5, <2>1, <3>1 DEF IsRange
  <2>3. sl = <<i, j>> /\ i \in Nat /\ j \in Int
    <3>2. \/ sl = <<0, 0>>
          \/ sl = <<IF r.off < w[1] THEN w[1] - r.off ELSE 0,
                    IF r.off + z > w[2] + 1 THEN w[2] - r.off + 1 ELSE z>>
      BY DEF Slice
    <3> HIDE DEF sl
    <3> QED BY <1>6, <2>2, <3>2
  <2>4. CASE Goto(c, q) /\ i <= j
    <3>0. j \in Nat
      <4> HIDE DEF i, j
      <4> QED BY <2>3, <2>4
    <3>1. Slice(z, Len(s), w[1], w[2]) = <<i, j>> BY <2>2, <2>3
    <3>2. Cut(s \o Part(k, 0, z), w) = Cut(s, w) \o Part(k, i, j)
      <4> HIDE DEF i, j
      <4>1. Slice(SizeOf[k], Len(s), w[1], w[2]) = <<i, j>> BY <3>1 DEF z
      <4>2. s \in Seq(Byte) /\ k \in DOMAIN SizeOf /\ IsRange(w) /\ i <= j BY <1>5, <1>6, <2>4
      <4>3. Cut(s \o Part(k, 0, SizeOf[k]), w) = Cut(s, w) \o Part(k, i, j)
        BY ONLY <4>1, <4>2, CutGrows
      <4> QED BY <4>3 DEF z
    <3>3. sent = Cut(t, w) BY <1>5, <1>6, <3>2
    <3>4. off = Len(t) BY <1>6, <2>2
    <3>5. last => Len(sent) >= (w[2] - w[1]) + 1
      <4> DEFINE p == Part(k, i, j)
      <4>1. r.sent \in Seq(Byte) BY <1>5, <1>6, CutType
      <4>2. Len(p) = j - i /\ p \in Seq(Byte)
        <5> HIDE DEF i, j
        <5>1. /\ Part(k, i, j) \in Seq(Byte) /\ Len(Part(k, i, j)) = IF i <= j THEN j - i ELSE 0
          BY <1>6, <2>3, <3>0, PartType
        <5> QED BY <2>4, <5>1
      <4> HIDE DEF i, j, p
      <4>3. Len(r.sent \o p) = Len(r.sent) + Len(p) BY <4>1, <4>2, ConcatFacts
      <4>4. last => Len(r.sent) + (j - i) >= w[2] - w[1] + 1 OBVIOUS
      <4>5. sent = r.sent \o p BY DEF p
      <4> HIDE DEF last, sent
      <4> QED BY <4>2, <4>3, <4>4, <4>5
    <3>6. /\ pc \in {"stream", "done"}
          /\ IF pc = "done" THEN n = Len(ChunksOf[m]) \/ last ELSE n # Len(ChunksOf[m])
      BY <2>1
    <3>7. next = n + 1 /\ Moves(r, sent, next, off, pc, q) BY DEF Moves
    <3> HIDE DEF last, off, pc, q, sent, next, i, j, sl
    <3> QED BY <1>r, <2>1, <2>4, <3>3, <3>4, <3>5, <3>6, <3>7, ChunkWritten DEF m, n, w, t
  <2>5. ~(i > j) => i <= j
    <3> HIDE DEF i, j
    <3> QED BY <2>3
  <2> QED BY <2>1, <2>4, <2>5, FailSent
<1>11. CASE WriteFails(c) BY <1>11, FailSent DEF WriteFails
<1>12. CASE downloadChunk(c)
  <2> DEFINE q == [r EXCEPT !.pc = "get"]
  <2>1. r.pc = "chunk" /\ (Fail(c) \/ Goto(c, q)) BY <1>12 DEF downloadChunk, r
  <2>2. q.pc = "get" /\ q.man = r.man /\ q.kind = r.kind /\ q.next = r.next /\ q.off = r.off /\ q.range = r.range
    BY <1>3 DEF IsRequest
  <2>3. q.sent = r.sent /\ q.header = r.header BY <1>3 DEF IsRequest
  <2>4. q.ok = r.ok BY <1>3 DEF IsRequest
  <2>5. IsRequest(q) BY <1>3 DEF IsRequest
  <2> HIDE DEF q
  <2>l. Length(q) = Length(r) BY <2>2 DEF Length
  <2>6. Sending(q) BY <1>4, <2>1, <2>2, <2>3, <2>l DEF Sending
  <2>7. Fits(r) BY <1>2, <2>1 DEF SentOK
  <2>8. Fits(q) BY <2>2, <2>3, <2>7, <2>l DEF Fits, Plain
  <2>9. SentOK(q) BY <1>2, <1>4, <2>1, <2>2, <2>6, <2>8 DEF SentOK, m
  <2> QED BY <1>3, <2>1, <2>4, <2>5, <2>9, FailSent, GotoSent
<1> QED BY <1>8, <1>9, <1>10, <1>11, <1>12

LEMMA SentSteps == SharingIInv /\ SentIInv /\ [Next]_vars => SentIInv'
<1> SUFFICES ASSUME SharingIInv, SentIInv, [Next]_vars PROVE SentIInv' OBVIOUS
<1>1. CASE \/ \E l \in Links : createShare(l) \/ updateShare(l) \/ revokeShare(l) \/ ShareExpires(l)
           \/ NewVersion \/ PermanentDelete
           \/ \E k \in DOMAIN SizeOf : collectOrphanedChunks(k)
  <2>1. Requests(req)
    BY <1>1 DEF createShare, updateShare, revokeShare, ShareExpires, NewVersion, PermanentDelete, collectOrphanedChunks
  <2> QED BY <2>1, KeepsSent
<1>2. ASSUME NEW c \in Clients,
             \/ downloadSharedFile(c) \/ streamSharedFile(c) \/ GetFileByID(c) \/ IncrementShareDownloadCount(c)
             \/ downloadFile(c) \/ streamFile(c) \/ GetManifest(c) \/ streamContent(c) \/ streamRange(c) \/ WriteFails(c)
             \/ getChunksInfo(c) \/ downloadChunk(c) \/ GetChunk(c)
      PROVE  SentIInv'
  BY <1>2, OpenedSent, FileReadSent, CountedSent, BegunSent, ManifestSent, ChunkSentExact
     DEF downloadFile, streamFile
<1>3. CASE SoftDelete \/ RestoreFromTrash \/ UNCHANGED vars
  BY <1>3 DEF vars, SentIInv, SoftDelete, RestoreFromTrash
<1> QED BY <1>1, <1>2, <1>3 DEF Next

-----------------------------------------------------------------------------
(* What SentExact says is cut of the content.                                *)
LEMMA CutWanted ==
  ASSUME NEW S, NEW s \in Seq(S), NEW w, IsRange(w), NEW want,
         want = {i \in 0 .. Len(s) - 1 : w # Nowhere /\ w[1] <= i /\ i <= w[2]}
  PROVE  (IF want = {} THEN <<>> ELSE SubSeq(s, Min(want) + 1, Max(want) + 1)) = Cut(s, w)
<1> DEFINE n == Len(s)
           f == First(w)
           e == Ends(n, w)
           v == Width(n, w)
<1>1. n \in Nat /\ w[1] \in Int /\ w[2] \in Int BY DEF IsRange
<1>2. w # Nowhere BY DEF IsRange, Nowhere
<1>3. /\ f \in Nat /\ e \in Int /\ e <= n /\ v \in Nat
      /\ v > 0 => f + v = e
      /\ v = IF e > f THEN e - f ELSE 0
  BY <1>1, WidthType DEF Width
<1>4. f = (IF w[1] < 0 THEN 0 ELSE w[1]) /\ e = (IF w[2] + 1 <= n THEN w[2] + 1 ELSE n) BY DEF First, Ends
<1>5. /\ Cut(s, w) \in Seq(S) /\ Len(Cut(s, w)) = v
      /\ \A x \in 1 .. v : Cut(s, w)[x] = s[f + x]
  BY CutType
<1>n. n = Len(s) OBVIOUS
<1> HIDE DEF n, f, e, v
<1>6. \A i : i \in want <=> i \in f .. e - 1 BY <1>1, <1>2, <1>3, <1>4, <1>n
<1>7. CASE v = 0
  <2>1. want = {} BY <1>3, <1>6, <1>7
  <2>2. Cut(s, w) = <<>> BY <1>5, <1>7
  <2> QED BY <2>1, <2>2
<1>8. CASE v # 0
  <2>1. f < e /\ f \in want /\ e - 1 \in want /\ want # {} /\ want \subseteq Int BY <1>3, <1>6, <1>8
  <2>2. \A i \in want : f <= i /\ i <= e - 1 BY <1>3, <1>6
  <2>3. Min(want) = f BY <1>3, <2>1, <2>2 DEF Min
  <2>4. Max(want) = e - 1 BY <1>3, <2>1, <2>2 DEF Max
  <2>5. (e - 1) + 1 = e BY <1>3
  <2>6. /\ SubSeq(s, f + 1, e) \in Seq(S) /\ Len(SubSeq(s, f + 1, e)) = v
        /\ \A x \in 1 .. v : SubSeq(s, f + 1, e)[x] = s[f + x]
    <3>1. f + 1 \in 1 .. n /\ e \in 1 .. n /\ f + 1 <= e /\ e - (f + 1) + 1 = v BY <1>1, <1>3, <2>1, <1>8
    <3>2. \A x \in 1 .. v : (f + 1) + x - 1 = f + x BY <1>3
    <3> DEFINE a == f + 1
               d == SubSeq(s, a, e)
    <3>3. a \in 1 .. Len(s) /\ e \in 1 .. Len(s) /\ a <= e /\ e - a + 1 = v BY <1>n, <3>1
    <3>4. \A x \in 1 .. v : a + x - 1 = f + x BY <3>2
    <3> HIDE DEF a
    <3>5. d \in Seq(S) /\ Len(d) = e - a + 1 BY <3>3
    <3>6. \A x \in 1 .. e - a + 1 : d[x] = s[a + x - 1] BY <3>3
    <3> HIDE DEF d
    <3>7. d \in Seq(S) /\ Len(d) = v /\ \A x \in 1 .. v : d[x] = s[f + x] BY <3>3, <3>4, <3>5, <3>6
    <3> QED BY <3>7 DEF a, d
  <2>7. SubSeq(s, f + 1, e) = Cut(s, w) BY <1>3, <1>5, <2>6, SameSeq
  <2> QED BY <2>1, <2>3, <2>4, <2>5, <2>7
<1> QED BY <1>7, <1>8

LEMMA BeginsPrefix ==
  ASSUME NEW S, NEW s \in Seq(S), NEW t \in Seq(S), Begins(s, t)
  PROVE  IsPrefix(s, t)
<1>1. Len(s) \in Nat /\ Len(t) \in Nat /\ Len(s) <= Len(t) /\ \A i \in 1 .. Len(s) : s[i] = t[i]
  BY DEF Begins
<1>2. SubSeq(s, 1, Len(s)) = s OBVIOUS
<1>3. SubSeq(t, 1, Len(s)) \in Seq(S) /\ Len(SubSeq(t, 1, Len(s))) = Len(s)
      /\ \A i \in 1 .. Len(s) : SubSeq(t, 1, Len(s))[i] = t[i]
  BY <1>1
<1>4. SubSeq(t, 1, Len(s)) = s BY <1>1, <1>3, SameSeq
<1> QED BY <1>1, <1>2, <1>4 DEF IsPrefix

(* Where a request is, it has sent what its range has of the chunks so far.  *)
LEMMA SentOKExact ==
  ASSUME NEW r, RequestTypes(r), SentOK(r), r.man # None,
         NEW all, all = 0 .. Len(Bytes(r.man)) - 1,
         NEW want, want = {i \in all : r.range # Nowhere /\ r.range[1] <= i /\ i <= r.range[2]},
         NEW bytes, bytes = IF want = {} THEN <<>> ELSE SubSeq(Bytes(r.man), Min(want) + 1, Max(want) + 1)
  PROVE  /\ IsPrefix(r.sent, bytes)
         /\ r.pc = "done" => r.sent = bytes
         /\ r.pc \in {"content", "stream", "done", "refused"} /\ Plain(r) =>
              want = all \cap Asked(r.header, Length(r))
<1> DEFINE m == r.man
           w == r.range
           s == Bytes(m)
<1>1. r.pc \in {"count", "manifest", "content", "stream", "chunk", "get", "done", "refused"} /\ m \in Manifests
  BY DEF SentOK, RequestTypes, Labels
<1>2. s \in Seq(Byte) /\ Len(s) \in Nat /\ all = 0 .. Len(s) - 1 BY <1>1, SizeType
<1>3. r.pc \in {"content", "stream", "done", "refused"} /\ Plain(r) =>
              want = all \cap Asked(r.header, Length(r))
  <2> SUFFICES ASSUME r.pc \in {"content", "stream", "done", "refused"}, Plain(r)
               PROVE  want = all \cap Asked(r.header, Length(r))
    OBVIOUS
  <2>1. Fits(r) /\ (w = Nowhere \/ IsRange(w)) BY DEF SentOK, Sending
  <2>2. InRange(w, Length(r)) = Asked(r.header, Length(r)) /\ (w # Nowhere => w[2] < Length(r)) BY <2>1 DEF Fits
  <2>3. Length(r) \in Nat BY <1>1, LengthType
  <2>4. \A i \in all : w # Nowhere /\ w[1] <= i /\ i <= w[2] => i \in 0 .. Length(r) - 1
    BY <1>2, <2>1, <2>2, <2>3 DEF IsRange
  <2>5. \A i \in all : i \in want <=> i \in InRange(w, Length(r)) BY <2>4 DEF InRange
  <2> QED BY <2>2, <2>5
<1>4. CASE r.pc \in {"count", "manifest", "refused"}
  <2>1. w = Nowhere /\ r.sent = <<>> BY <1>4 DEF SentOK, Fresh
  <2>2. bytes = <<>> BY <2>1
  <2>3. IsPrefix(<< >>, << >>) BY DEF IsPrefix
  <2> QED BY <1>3, <1>4, <2>1, <2>2, <2>3
<1>5. CASE r.pc = "done"
  <2>1. IsRange(w) /\ r.sent = Cut(s, w) BY <1>5 DEF SentOK
  <2>2. want = {i \in 0 .. Len(s) - 1 : w # Nowhere /\ w[1] <= i /\ i <= w[2]} BY <1>2
  <2>3. bytes = IF want = {} THEN <<>> ELSE SubSeq(s, Min(want) + 1, Max(want) + 1) OBVIOUS
  <2> HIDE DEF m, w, s
  <2>4. bytes = Cut(s, w) BY <1>2, <2>1, <2>2, <2>3, CutWanted
  <2>5. Cut(s, w) \in Seq(Byte) BY <1>2, <2>1, CutType
  <2>6. Begins(Cut(s, w), Cut(s, w)) BY <2>5 DEF Begins
  <2>7. IsPrefix(Cut(s, w), Cut(s, w)) BY <2>5, <2>6, BeginsPrefix
  <2> QED BY <1>3, <2>1, <2>4, <2>7
<1>6. CASE r.pc \in {"content", "stream", "chunk", "get"}
  <2> DEFINE p == Pre(m, r.next - 1)
  <2>1. /\ IsRange(w) /\ r.next \in 1 .. Len(ChunksOf[m]) /\ r.sent = Cut(p, w)
    BY <1>6 DEF SentOK, Sending
  <2>2. Len(ChunksOf[m]) \in Nat BY <1>1, PartsType
  <2>3. r.next - 1 \in 0 .. Len(ChunksOf[m]) BY <2>1, <2>2
  <2>4. p \in Seq(Byte) /\ Begins(p, s) BY <1>1, <2>3, PreFacts, PreBegins
  <2>5. want = {i \in 0 .. Len(s) - 1 : w # Nowhere /\ w[1] <= i /\ i <= w[2]} BY <1>2
  <2>6. bytes = IF want = {} THEN <<>> ELSE SubSeq(s, Min(want) + 1, Max(want) + 1) OBVIOUS
  <2> HIDE DEF m, w, s, p
  <2>7. bytes = Cut(s, w) BY <1>2, <2>1, <2>5, <2>6, CutWanted
  <2>8. Cut(s, w) \in Seq(Byte) /\ Cut(p, w) \in Seq(Byte) BY <1>2, <2>1, <2>4, CutType
  <2>9. Begins(Cut(p, w), Cut(s, w)) BY <1>2, <2>1, <2>4, CutBegins
  <2>10. IsPrefix(Cut(p, w), Cut(s, w)) BY <2>8, <2>9, BeginsPrefix
  <2> QED BY <1>3, <1>6, <2>1, <2>7, <2>10
<1> QED BY <1>1, <1>4, <1>5, <1>6

(* For any chunks of any sizes, any version and any header, and whatever     *)
(* becomes of the file meanwhile: what streamContent, streamRange and the    *)
(* downloads chunk by chunk have sent is a beginning of the bytes of the     *)
(* range, in order and without a gap, all of them when the request is done;  *)
(* and the range is the one that was asked for.                              *)
THEOREM SentCorrect == Spec => []SentExact
<1>1. Init => SentIInv
  <2> SUFFICES ASSUME Init, NEW c \in Clients PROVE SentOK(req[c]) BY DEF SentIInv
  <2>1. req[c] = Idle BY DEF Init
  <2> QED BY <2>1, IdleSent
<1>2. SharingIInv /\ SentIInv => SentExact
  <2> SUFFICES ASSUME SharingIInv, SentIInv, NEW c \in Clients, req[c].man # None
      PROVE  LET r == req[c]
                 all == 0 .. Len(Bytes(r.man)) - 1
                 want == {i \in all : r.range # Nowhere /\ r.range[1] <= i /\ i <= r.range[2]}
                 bytes == IF want = {} THEN <<>> ELSE SubSeq(Bytes(r.man), Min(want) + 1, Max(want) + 1)
             IN  /\ IsPrefix(r.sent, bytes)
                 /\ r.pc = "done" => r.sent = bytes
                 /\ r.pc \in {"content", "stream", "done", "refused"} /\ Plain(r)
                    => want = all \cap Asked(r.header, Length(r))
    BY DEF SentExact
  <2> DEFINE r == req[c]
             all == 0 .. Len(Bytes(r.man)) - 1
             want == {i \in all : r.range # Nowhere /\ r.range[1] <= i /\ i <= r.range[2]}
             bytes == IF want = {} THEN <<>> ELSE SubSeq(Bytes(r.man), Min(want) + 1, Max(want) + 1)
  <2>0. all = 0 .. Len(Bytes(r.man)) - 1 OBVIOUS
  <2>1. RequestTypes(r) /\ SentOK(r) /\ r.man # None BY DEF SharingIInv, SentIInv
  <2>2. want = {i \in all : r.range # Nowhere /\ r.range[1] <= i /\ i <= r.range[2]} OBVIOUS
  <2>3. bytes = IF want = {} THEN <<>> ELSE SubSeq(Bytes(r.man), Min(want) + 1, Max(want) + 1) OBVIOUS
  <2> HIDE DEF all, want, bytes, r
  <2>4. /\ IsPrefix(r.sent, bytes)
        /\ r.pc = "done" => r.sent = bytes
        /\ r.pc \in {"content", "stream", "done", "refused"} /\ Plain(r) =>
              want = all \cap Asked(r.header, Length(r))
    BY <2>0, <2>1, <2>2, <2>3, SentOKExact
  <2> QED BY <2>4 DEF all, want, bytes, r
<1> QED BY <1>1, <1>2, SharingIInvHolds, SentSteps, PTL DEF Spec
=============================================================================
