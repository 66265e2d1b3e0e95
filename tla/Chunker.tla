-------------------------------- MODULE Chunker -------------------------------
(***************************************************************************)
(* Content-defined chunking (chunk/chunker.go).  A polynomial over GF(2),  *)
(* a word of the code, is the set of its exponents: xor is the symmetric   *)
(* difference, a shift adds to the exponents.  A hash stands for what is   *)
(* hashed.  How the reader splits the input makes no difference: all state *)
(* lives across reads.                                                     *)
(***************************************************************************)
EXTENDS SequencesExt, Naturals

CONSTANTS
  Poly,        \* the polynomial
  MaskBits,    \* exponents of the mask
  WindowSize,
  MinSize, MaxSize,
  Bytes,       \* values of a byte, as polynomials
  MaxInput     \* bound on the length of an input

degree == Max(Poly)
Top == 2 * degree

ASSUME ChunkerAssumption ==
  /\ Poly # {} /\ Poly \subseteq 0..63 /\ degree > 0
  /\ WindowSize \in Nat /\ WindowSize > 0
  /\ MinSize \in Nat /\ MaxSize \in Nat /\ 0 < MinSize /\ MinSize <= MaxSize /\ MaxInput \in Nat
  /\ \A b \in Bytes : b \subseteq 0..(degree - 1)

VARIABLES
  proc,         \* which of the three procedures runs
  input,        \* what its reader will give
  offset,       \* bytes read so far
  chunkBuf,
  chunkOffset,
  window,
  fingerprint,
  chunks,       \* the chunks so far: [hash, offset, size]
  ended         \* "no", "eof" or "error"

chunkerVars == <<proc, input, offset, chunkBuf, chunkOffset, window, fingerprint, chunks, ended>>

(* Where an input may start; each procedure begins with these values.        *)
ChunkerInit ==
  /\ proc \in {"Chunk", "ChunkWithData", "ChunkStream"}
  /\ input \in BoundedSeq(Bytes, MaxInput)
  /\ offset = 0 /\ chunkBuf = <<>> /\ chunkOffset = 0
  /\ window = <<>> /\ fingerprint = {}
  /\ chunks = <<>> /\ ended = "no"

-----------------------------------------------------------------------------
(* Fingerprints.                                                            *)

Xor(p, q) == (p \ q) \cup (q \ p)
Shift(p, n) == {i + n : i \in p}
ShiftOne(p) == IF degree \in Shift(p, 1) THEN Xor(Shift(p, 1), Poly) ELSE Shift(p, 1)

(* The product, and the loop that reduces it from the highest bit down.      *)
Product(p, q) == {k \in 0..Top : Cardinality({i \in p : k >= i /\ k - i \in q}) % 2 = 1}
Reduced(p) ==
  LET r[i \in degree..(Top + 1)] ==
        IF i = Top + 1 THEN p
        ELSE IF i \in r[i + 1] THEN Xor(r[i + 1], Shift(Poly, i - degree)) ELSE r[i + 1]
  IN  r[degree]

(* outTable: for each byte, its product with x^WindowSize.                   *)
createRabinTable ==
  LET outPoly[n \in 0..WindowSize] == IF n = 0 THEN {0} ELSE ShiftOne(outPoly[n - 1])
  IN  [b \in Bytes |-> Reduced(Product(b, outPoly[WindowSize]))]

pushByte(fp, b) == Xor(ShiftOne(fp), b)

slideFingerprint(fp, oldByte, newByte) == pushByte(Xor(fp, createRabinTable[oldByte]), newByte)

-----------------------------------------------------------------------------
(* Mutant: a chunk may be one byte too long.                                 *)
PastMax(fp, size) == size >= MinSize /\ (fp \cap MaskBits = {} \/ size > MaxSize)

Boundary(fp, size) == size >= MinSize /\ (fp \cap MaskBits = {} \/ size >= MaxSize)

Found(buf) == [hash |-> buf, offset |-> chunkOffset, size |-> Len(buf)]

(* One byte.  After a boundary the next chunk starts at next; the window and *)
(* the fingerprint go on.                                                    *)
Byte(next) ==
  /\ ended = "no" /\ offset < Len(input)
  /\ LET b == input[offset + 1]
         buf == Append(chunkBuf, b)
         fp == IF Len(window) = WindowSize THEN slideFingerprint(fingerprint, Head(window), b)
               ELSE pushByte(fingerprint, b)
         cut == Boundary(fp, Len(buf))
     IN  /\ offset' = offset + 1
         /\ fingerprint' = fp
         /\ window' = Append(IF Len(window) = WindowSize THEN Tail(window) ELSE window, b)
         /\ chunks' = IF cut THEN Append(chunks, Found(buf)) ELSE chunks
         /\ chunkBuf' = IF cut THEN <<>> ELSE buf
         /\ chunkOffset' = IF cut THEN next ELSE chunkOffset
  /\ UNCHANGED <<proc, input, ended>>

Chunk == proc = "Chunk" /\ Byte(offset + 1)
ChunkWithData == proc = "ChunkWithData" /\ Byte(offset + 1)

(* The offset is advanced by the length of a buffer that is already empty.   *)
ChunkStream == proc = "ChunkStream" /\ Byte(chunkOffset + 0)

(* The end of the input: what is left is the last chunk.                     *)
Flush ==
  /\ ended = "no" /\ offset = Len(input)
  /\ chunks' = IF chunkBuf = <<>> THEN chunks ELSE Append(chunks, Found(chunkBuf))
  /\ chunkBuf' = <<>> /\ ended' = "eof"
  /\ UNCHANGED <<proc, input, offset, chunkOffset, window, fingerprint>>

(* An error of the reader, or of the callback.  Only the callback of         *)
(* ChunkStream has already had the chunks.                                   *)
ReadFails ==
  /\ ended = "no" /\ ended' = "error"
  /\ chunks' = IF proc = "ChunkStream" THEN chunks ELSE <<>>
  /\ UNCHANGED <<proc, input, offset, chunkBuf, chunkOffset, window, fingerprint>>

ChunkerNext == Chunk \/ ChunkWithData \/ ChunkStream \/ Flush \/ ReadFails

-----------------------------------------------------------------------------
Hashed == FlattenSeq([i \in DOMAIN chunks |-> chunks[i].hash])

(* Chunks put together are what was read, none is longer than MaxSize and    *)
(* none but the last shorter than MinSize; the offset of each is where it    *)
(* starts, except for ChunkStream, which reports 0 for all; and fingerprints *)
(* stay below the degree of the polynomial.                                  *)
ChunksExact ==
  /\ fingerprint \subseteq 0..(degree - 1)
  /\ ended # "error" => Hashed \o chunkBuf = SubSeq(input, 1, offset)
  /\ \A i \in DOMAIN chunks :
       /\ chunks[i].size = Len(chunks[i].hash)
       /\ chunks[i].size <= MaxSize
       /\ chunks[i].size >= MinSize \/ (i = Len(chunks) /\ ended = "eof")
       /\ chunks[i].offset = IF i = 1 \/ proc = "ChunkStream" THEN 0
                             ELSE chunks[i - 1].offset + chunks[i - 1].size

(* "slideFingerprint updates fingerprint by removing oldByte and adding      *)
(* newByte": the fingerprint is that of the bytes in the window.  It is not: *)
(* the byte that leaves has been shifted WindowSize - 1 times, and outTable  *)
(* holds its value after WindowSize shifts.                                  *)
WindowFingerprint ==
  Len(window) = WindowSize => fingerprint = FoldLeft(pushByte, {}, window)
=============================================================================
