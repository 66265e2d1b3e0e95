-------------------------------- MODULE Shares --------------------------------
(***************************************************************************)
(* Public links to a file and the downloads that race with their owner     *)
(* (handlers_shares.go, handlers_public.go, handlers_download.go,          *)
(* db/shares.go).  A request reads the share, the file, the manifest and   *)
(* then chunk after chunk, each a statement or a read of the storage of    *)
(* its own; meanwhile the owner changes or revokes the share, replaces or  *)
(* deletes the file, and garbage collection removes its chunks.            *)
(* A file is never is_encrypted: nothing in the server sets that column.   *)
(* The answers declare size_bytes of the row, what some client said the    *)
(* size is (handlers_upload.go, sync/engine.go) and nothing compares with  *)
(* the chunks: it may be less or more than what they have.                 *)
(***************************************************************************)
EXTENDS Ranges, Sequences, SequencesExt

CONSTANTS
  Links,      \* ids of shares
  Clients,    \* requests at a time
  Kinds,      \* client -> the requests it makes
  Headers,    \* kind of request -> the Range headers it sends
  Manifests,  \* ids of manifests, versions of the file
  ChunksOf,   \* manifest -> its chunks
  SizeOf,     \* chunk -> its bytes
  SizeBytes,  \* manifest -> size_bytes of the file's row that has it
  None,
  Limits,     \* values of max_downloads
  MaxCount    \* bound: downloads counted

Unlimited == MaxCount + 1  \* max_downloads is NULL

(* A row of shares: max_downloads, download_count, and the history of the    *)
(* largest limit.                                                            *)
ShareRow == [active : BOOLEAN, protected : BOOLEAN, expires : {"later", "past"}, preview : BOOLEAN,
             max : 0 .. Unlimited, count : 0 .. MaxCount, peak : 0 .. Unlimited]

ASSUME SharesAssumption ==
  /\ ChunksOf \in [Manifests -> Seq(DOMAIN SizeOf)] /\ MaxCount \in Nat
  /\ \A k \in DOMAIN SizeOf : SizeOf[k] \in Nat
  /\ \A m \in Manifests : SizeBytes[m] \in Nat
  /\ \A k \in {"download", "stream", "owner"} :
       Headers[k] \subseteq [form : {"span", "from", "last"}, a : Nat, b : Nat]
  /\ Limits \subseteq 0 .. MaxCount
  /\ None \notin Manifests \cup Links \cup ShareRow

VARIABLES
  manifest,  \* of the file; None: the file is deleted
  kept,      \* the rows of the manifests are there
  stored,    \* chunks in the storage
  share,     \* link -> its row and the largest limit it ever had, or None
  req        \* the request of each client

vars == <<manifest, kept, stored, share, req>>

(* The bytes of a chunk, from position i up to but not with position j.      *)
Part(c, i, j) == [x \in 1 .. j - i |-> <<c, i + x>>]
Bytes(m) == FlattenSeq([k \in DOMAIN ChunksOf[m] |-> Part(ChunksOf[m][k], 0, SizeOf[ChunksOf[m][k]])])
Size(m) == SizeBytes[m]

(* Content-Length of a file; of all its chunks, each with its own.           *)
Length(r) == IF r.kind = "chunks" THEN Len(Bytes(r.man)) ELSE Size(r.man)

Idle == [pc |-> "idle", kind |-> "none", link |-> None, pwd |-> FALSE, limit |-> 0, count |-> 0,
         man |-> None, header |-> [form |-> "none", a |-> 0, b |-> 0], range |-> Nowhere,
         next |-> 1, off |-> 0, sent |-> <<>>, ok |-> FALSE, versions |-> {}]

Init ==
  /\ manifest \in Manifests /\ kept = TRUE /\ stored = DOMAIN SizeOf
  /\ share = [l \in Links |-> None]
  /\ req = [c \in Clients |-> Idle]

TypeOK ==
  /\ manifest \in Manifests \cup {None} /\ kept \in BOOLEAN /\ stored \subseteq DOMAIN SizeOf
  /\ share \in [Links -> ShareRow \cup {None}]
  /\ \A c \in Clients : req[c].man \in Manifests \cup {None}

-----------------------------------------------------------------------------
(* History: a request is allowed (ok) if at some moment since it began its   *)
(* share was active, had not expired, and allowed this with this password.   *)
Allowed(r, rows) ==
  /\ r.link # None /\ rows[r.link] # None
  /\ rows[r.link].active /\ rows[r.link].expires # "past"
  /\ rows[r.link].protected => r.pwd
  /\ r.kind = "download" => ~rows[r.link].preview

Over == {"idle", "done", "refused"}

(* The requests after a step, with their history.                            *)
Requests(next) ==
  req' = [c \in Clients |->
    IF next[c].pc \in Over THEN next[c]
    ELSE [next[c] EXCEPT !.ok = @ \/ Allowed(next[c], share'),
                         !.versions = IF next[c].man = None THEN @ \cup {manifest'} ELSE @ \cap {next[c].man}]]

Goto(c, r) == Requests([req EXCEPT ![c] = r])
Fail(c) == Goto(c, Idle)
Begin(c, kind) == req[c].pc \in Over /\ kind \in Kinds[c]

-----------------------------------------------------------------------------
(* The owner.                                                               *)

(* A share expires later, or never.  But the text of its time may be none    *)
(* that Parse reads: then it has expired at once.                            *)
CreateShare(l, protected, expires, max, preview) ==
  share' = [share EXCEPT ![l] = [active |-> TRUE, protected |-> protected, expires |-> expires,
                                 max |-> max, count |-> 0, preview |-> preview, peak |-> max]]

createShare(l) ==
  /\ manifest # None /\ share[l] = None
  /\ \E protected, preview \in BOOLEAN, expires \in {"later", "past"},
        max \in Limits \cup {Unlimited} : CreateShare(l, protected, expires, max, preview)
  /\ UNCHANGED <<manifest, kept, stored>> /\ Requests(req)

GetShareByID(l) == share[l] # None

UpdateShare(l, row) == share' = [share EXCEPT ![l] = row]
RevokeShare(l) == UpdateShare(l, [share[l] EXCEPT !.active = FALSE])

updateShare(l) ==
  /\ GetShareByID(l)
  /\ \/ \E max \in Limits :
          UpdateShare(l, [share[l] EXCEPT !.max = max, !.peak = Max({@, max})])
     \/ \E b \in BOOLEAN : UpdateShare(l, [share[l] EXCEPT !.preview = b])
     \/ \E b \in BOOLEAN : UpdateShare(l, [share[l] EXCEPT !.active = b])
  /\ UNCHANGED <<manifest, kept, stored>> /\ Requests(req)

revokeShare(l) ==
  /\ GetShareByID(l) /\ RevokeShare(l)
  /\ UNCHANGED <<manifest, kept, stored>> /\ Requests(req)

(* Time.                                                                     *)
ShareExpires(l) ==
  /\ share[l] # None /\ share[l].expires = "later"
  /\ share' = [share EXCEPT ![l].expires = "past"]
  /\ UNCHANGED <<manifest, kept, stored>> /\ Requests(req)

(* A sync replaces the file's manifest; the old one and its chunks stay.     *)
NewVersion ==
  /\ manifest # None
  /\ \E m \in Manifests \ {manifest} : manifest' = m
  /\ UNCHANGED <<kept, stored, share>> /\ Requests(req)

(* To the trash and back.  No statement here looks at is_trashed: a link     *)
(* goes on serving the file.                                                 *)
SoftDelete == manifest # None /\ UNCHANGED vars
RestoreFromTrash == manifest # None /\ UNCHANGED vars

(* The file is deleted, from the trash or not.  Where the connection has     *)
(* foreign keys on, its manifests and shares go with it; else they stay.     *)
PermanentDelete ==
  /\ manifest # None /\ manifest' = None
  /\ \/ kept' = FALSE /\ share' = [l \in Links |-> None]
     \/ UNCHANGED <<kept, share>>
  /\ UNCHANGED stored /\ Requests(req)

(* Then garbage collection takes its chunks, one by one.                     *)
collectOrphanedChunks(k) ==
  /\ manifest = None /\ k \in stored /\ stored' = stored \ {k}
  /\ UNCHANGED <<manifest, kept, share>> /\ Requests(req)

-----------------------------------------------------------------------------
(* Requests by link.  One that is refused at its first statements changes    *)
(* nothing.                                                                  *)

GetShareByToken(l) == share[l] # None /\ share[l].active

(* Mutant: the time is not looked at.                                        *)
ActiveOnly(l) == share[l] # None /\ share[l].active

validateShare(l) == GetShareByToken(l) /\ share[l].expires # "past"

(* A password may come in the body, as a Bearer token and in the query: the  *)
(* first that is not empty counts, be it the token of a login.               *)
extractSharePassword(body, bearer, query) ==
  IF body # "" THEN body ELSE IF bearer # "" THEN bearer ELSE query

Given == {extractSharePassword(body, bearer, query) : body, bearer, query \in {"", "right", "wrong"}}
authenticateSharePassword(l, given) == share[l].protected => given = "right"

downloadSharedFile(c) ==
  /\ Begin(c, "download")
  /\ UNCHANGED <<manifest, kept, stored, share>>
  /\ \E l \in Links, given \in Given :
       /\ validateShare(l) /\ authenticateSharePassword(l, given) /\ ~share[l].preview
       /\ Goto(c, [Idle EXCEPT !.pc = "file", !.kind = "download", !.link = l, !.pwd = given = "right",
                               !.limit = share[l].max, !.count = share[l].count])

streamSharedFile(c) ==
  /\ Begin(c, "stream")
  /\ UNCHANGED <<manifest, kept, stored, share>>
  /\ \E l \in Links, given \in Given :
       /\ validateShare(l) /\ authenticateSharePassword(l, given)
       /\ Goto(c, [Idle EXCEPT !.pc = "file", !.kind = "stream", !.link = l, !.pwd = given = "right"])

GetFileByID(c) ==
  /\ req[c].pc = "file"
  /\ UNCHANGED <<manifest, kept, stored, share>>
  /\ IF manifest = None THEN Fail(c)
     ELSE Goto(c, [req[c] EXCEPT !.man = manifest,
                                 !.pc = IF req[c].kind = "download" THEN "count" ELSE "manifest"])

(* Mutant: the count is the one that was read with the share.                *)
CountSeen(c) ==
  /\ req[c].pc = "count"
  /\ UNCHANGED <<manifest, kept, stored>>
  /\ LET l == req[c].link
     IN  IF req[c].count < req[c].limit /\ share[l] # None
         THEN /\ share[l].count < MaxCount
              /\ share' = [share EXCEPT ![l].count = @ + 1]
              /\ Goto(c, [req[c] EXCEPT !.pc = "manifest"])
         ELSE UNCHANGED share /\ Fail(c)

(* One statement counts and compares with the limit that was read with the   *)
(* share.  Without a limit it is not looked whether there was a row.         *)
IncrementShareDownloadCount(c) ==
  /\ req[c].pc = "count"
  /\ UNCHANGED <<manifest, kept, stored>>
  /\ LET l == req[c].link
     IN  IF share[l] = None
         THEN /\ UNCHANGED share
              /\ IF req[c].limit = Unlimited THEN Goto(c, [req[c] EXCEPT !.pc = "manifest"]) ELSE Fail(c)
         ELSE IF share[l].count < req[c].limit
         THEN /\ share[l].count < MaxCount
              /\ share' = [share EXCEPT ![l].count = @ + 1]
              /\ Goto(c, [req[c] EXCEPT !.pc = "manifest"])
         ELSE UNCHANGED share /\ Fail(c)

-----------------------------------------------------------------------------
(* Requests of the owner, and then what follows for both handlers.          *)

OwnerReads(c) ==
  /\ Begin(c, "owner") /\ manifest # None
  /\ UNCHANGED <<manifest, kept, stored, share>>
  /\ Goto(c, [Idle EXCEPT !.pc = "manifest", !.kind = "owner", !.man = manifest])

downloadFile(c) == OwnerReads(c)
streamFile(c) == OwnerReads(c)

(* The loop over the chunks; there may be none.                              *)
Loop(m, pc) == IF ChunksOf[m] = <<>> THEN "done" ELSE pc

(* Without a Range header: all of it.  (A client that has this version may   *)
(* be answered "not modified", and the request is over.)                     *)
handleFullDownload(r) ==
  [r EXCEPT !.pc = Loop(r.man, "content"), !.range = <<0, Length(r) - 1>>, !.limit = 0, !.count = 0]

RangeDownload(r, h) ==
  LET size == Size(r.man)
      range == IF r.kind = "owner" THEN handleRangeRequest(h, size) ELSE publicRangeRequest(h, size)
  IN  [r EXCEPT !.pc = IF range = Nowhere THEN "refused" ELSE Loop(r.man, "stream"),
                !.header = h, !.range = range, !.limit = 0, !.count = 0]

(* The manifest may be gone with its file.  Then the header is read.         *)
GetManifest(c) ==
  /\ req[c].pc = "manifest"
  /\ UNCHANGED <<manifest, kept, stored, share>>
  /\ IF ~kept THEN Fail(c)
     ELSE \/ Goto(c, handleFullDownload(req[c]))
          \/ \E h \in Headers[req[c].kind] : Goto(c, RangeDownload(req[c], h))

(* A chunk is read and written, from position i up to position j.            *)
WriteChunk(c, i, j, last) ==
  LET r == req[c]
      k == ChunksOf[r.man][r.next]
  IN  IF k \notin stored \/ i > j THEN Fail(c)
      ELSE Goto(c, [r EXCEPT !.sent = @ \o Part(k, i, j), !.next = @ + 1, !.off = @ + SizeOf[k],
                             !.pc = IF last \/ r.next = Len(ChunksOf[r.man]) THEN "done" ELSE @])

(* net/http refuses a Write beyond the Content-Length, and the handler       *)
(* returns.                                                                  *)
streamContent(c) ==
  /\ req[c].pc = "content"
  /\ UNCHANGED <<manifest, kept, stored, share>>
  /\ LET n == SizeOf[ChunksOf[req[c].man][req[c].next]]
     IN  IF req[c].off + n > Length(req[c]) THEN Fail(c) ELSE WriteChunk(c, 0, n, FALSE)

(* The part of the chunk that is in the range; the last one ends it.         *)
streamRange(c) ==
  /\ req[c].pc = "stream"
  /\ UNCHANGED <<manifest, kept, stored, share>>
  /\ LET r == req[c]
         s == Slice(SizeOf[ChunksOf[r.man][r.next]], r.off, r.range[1], r.range[2])
     IN  WriteChunk(c, s[1], s[2],
                    s[2] > s[1] /\ Len(r.sent) + (s[2] - s[1]) >= r.range[2] - r.range[1] + 1)

(* The client goes away: a write fails, and the handler returns.             *)
WriteFails(c) ==
  /\ req[c].pc \in {"content", "stream"}
  /\ UNCHANGED <<manifest, kept, stored, share>> /\ Fail(c)

-----------------------------------------------------------------------------
(* Chunk by chunk: the owner's client gets the list, then each chunk with a  *)
(* request that looks again whether the chunk is of the file.                *)

getChunksInfo(c) ==
  /\ Begin(c, "chunks") /\ manifest # None
  /\ UNCHANGED <<manifest, kept, stored, share>>
  /\ Goto(c, [Idle EXCEPT !.pc = Loop(manifest, "chunk"), !.kind = "chunks", !.man = manifest,
                          !.range = <<0, Len(Bytes(manifest)) - 1>>])

downloadChunk(c) ==
  /\ req[c].pc = "chunk"
  /\ UNCHANGED <<manifest, kept, stored, share>>
  /\ IF manifest # None /\ ChunksOf[req[c].man][req[c].next] \in ToSet(ChunksOf[manifest])
     THEN Goto(c, [req[c] EXCEPT !.pc = "get"])
     ELSE Fail(c)

GetChunk(c) ==
  /\ req[c].pc = "get"
  /\ UNCHANGED <<manifest, kept, stored, share>>
  /\ LET r == req[c]
         k == ChunksOf[r.man][r.next]
     IN  IF k \notin stored THEN Fail(c)
         ELSE Goto(c, [r EXCEPT !.sent = @ \o Part(k, 0, SizeOf[k]), !.next = @ + 1,
                                !.pc = IF r.next = Len(ChunksOf[r.man]) THEN "done" ELSE "chunk"])

Next ==
  \/ \E l \in Links : createShare(l) \/ updateShare(l) \/ revokeShare(l) \/ ShareExpires(l)
  \/ NewVersion \/ SoftDelete \/ RestoreFromTrash \/ PermanentDelete
  \/ \E k \in DOMAIN SizeOf : collectOrphanedChunks(k)
  \/ \E c \in Clients :
       \/ downloadSharedFile(c) \/ streamSharedFile(c) \/ GetFileByID(c) \/ IncrementShareDownloadCount(c)
       \/ downloadFile(c) \/ streamFile(c) \/ GetManifest(c) \/ streamContent(c) \/ streamRange(c) \/ WriteFails(c)
       \/ getChunksInfo(c) \/ downloadChunk(c) \/ GetChunk(c)

Spec == Init /\ [][Next]_vars

-----------------------------------------------------------------------------
(* However the downloads and the changes of the limit interleave, a share is *)
(* never downloaded more often than the largest limit it ever had.           *)
DownloadsWithinLimit == \A l \in Links : share[l] # None => share[l].count <= share[l].peak

(* The state is well typed, and no limit was exceeded.                       *)
SharingInv == TypeOK /\ DownloadsWithinLimit

(* What is sent by a link was allowed at some moment of the request, all     *)
(* conditions at once, and is a version the file had during the request:     *)
(* what the owner changed before the request began is respected.             *)
ServedJustified ==
  \A c \in Clients :
    req[c].kind \in {"download", "stream"} /\ req[c].pc \in {"content", "stream", "done"} =>
      req[c].ok /\ req[c].man \in req[c].versions

(* What the public handler reads as written: not "0-0" (taken as open), not  *)
(* a suffix, not an inverted range nor one behind the end.                   *)
Plain(r) ==
  \/ r.kind = "owner"
  \/ r.header.form = "none"
  \/ r.header.form = "from" /\ r.header.a < Size(r.man)
  \/ r.header.form = "span" /\ r.header.b > 0 /\ r.header.a <= r.header.b /\ r.header.a < Size(r.man)

(* The bytes sent are, in order and without a gap, the bytes of the range    *)
(* that the chunks of the one version the request read have, all of them     *)
(* when it is done, however the range falls on the chunks, whatever size the *)
(* row declares and whatever becomes of the file meanwhile.  The range is    *)
(* the one that was asked for of a file of the declared size, refused if     *)
(* that is empty.                                                            *)
SentExact ==
  \A c \in Clients : LET r == req[c] IN
    r.man # None =>
      LET all == 0 .. Len(Bytes(r.man)) - 1
          want == {i \in all : r.range # Nowhere /\ r.range[1] <= i /\ i <= r.range[2]}
          bytes == IF want = {} THEN <<>> ELSE SubSeq(Bytes(r.man), Min(want) + 1, Max(want) + 1)
      IN  /\ IsPrefix(r.sent, bytes)
          /\ r.pc = "done" => r.sent = bytes
          /\ r.pc \in {"content", "stream", "done", "refused"} /\ Plain(r) =>
               want = all \cap Asked(r.header, Length(r))
=============================================================================
