-------------------------------- MODULE Ranges --------------------------------
(***************************************************************************)
(* Byte ranges: what a Range header asks for, what the two handlers read   *)
(* in it (handlers_download.go, handlers_public.go), and the part of a     *)
(* chunk that streamRange writes.  Positions count from 0.                 *)
(***************************************************************************)
EXTENDS Integers, FiniteSetsExt

Nowhere == <<>>  \* no range: refused

(* Headers: "bytes=a-b", "bytes=a-" and "bytes=-b".                          *)
Header(maxByte) ==
  {[form |-> "span", a |-> a, b |-> b] : a, b \in 0 .. maxByte}
  \cup {[form |-> "from", a |-> a, b |-> 0] : a \in 0 .. maxByte}
  \cup {[form |-> "last", a |-> 0, b |-> b] : b \in 0 .. maxByte}

(* The reference: the positions a header asks for (RFC 7233).                *)
Asked(h, size) ==
  {i \in 0 .. size - 1 :
     CASE h.form = "none" -> TRUE
       [] h.form = "span" -> h.a <= i /\ i <= h.b
       [] h.form = "from" -> h.a <= i
       [] h.form = "last" -> i >= size - h.b}

(* DownloadHandler: the range is validated.                                  *)
handleRangeRequest(h, size) ==
  LET start == IF h.form = "last" THEN Max({size - h.b, 0}) ELSE h.a
      end == IF h.form = "span" THEN h.b ELSE size - 1
  IN  IF start >= size \/ start > end THEN Nowhere
      ELSE <<start, Min({end, size - 1})>>

(* PublicShareHandler: Sscanf reads two numbers, a missing one is 0, and an  *)
(* end of 0 is the end of the file.  Nothing is validated.                   *)
publicRangeRequest(h, size) ==
  LET start == IF h.form = "last" THEN 0 - h.b ELSE h.a
      end == IF h.form = "span" THEN h.b ELSE 0
  IN  <<start, IF end = 0 \/ end >= size THEN size - 1 ELSE end>>

(* Mutant: the last byte of a slice is lost.                                 *)
EndExcluded(n, off, start, end) ==
  IF off + n <= start \/ off >= end + 1 THEN <<0, 0>>
  ELSE <<IF off < start THEN start - off ELSE 0, IF off + n > end + 1 THEN end - off ELSE n>>

(* The slice of a chunk of n bytes at offset off: from, and up to but not    *)
(* with.  It is inverted, and the program panics, if the range is.           *)
Slice(n, off, start, end) ==
  IF off + n <= start \/ off >= end + 1 THEN <<0, 0>>
  ELSE <<IF off < start THEN start - off ELSE 0, IF off + n > end + 1 THEN end - off + 1 ELSE n>>
=============================================================================
