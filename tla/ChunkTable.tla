----------------------------- MODULE ChunkTable -----------------------------
(***************************************************************************)
(* The SQL statements of internal/db/chunks.go, one operator each, on the  *)
(* chunks table abstracted to ref_count per hash.  A table is a function   *)
(* from Hashes to integers; NoRow stands for a hash without a row.  Size,  *)
(* backend, path and timestamps of a row take no part in any decision of   *)
(* the callers and are left out.                                           *)
(***************************************************************************)
EXTENDS Integers

CONSTANT Hashes    \* content hashes of CDC chunks

NoRow == -1

Tables == [Hashes -> Nat \cup {NoRow}]

EmptyTable == [h \in Hashes |-> NoRow]

(* ChunkExists: SELECT COUNT( * ) ... WHERE hash = ?                         *)
HasRow(t, h) == t[h] # NoRow

(* CreateChunk: INSERT with ref_count 1; hash is the primary key, so the    *)
(* statement fails when HasRow already holds.                              *)
RowInserted(t, h) == [t EXCEPT ![h] = 1]

(* Mutant: deduplication skips the storage call and the count.              *)
RowIncrementLost(t, h) == t

(* IncrementRefCount: ... SET ref_count = ref_count + 1 WHERE hash = ?      *)
(* No affected row is reported as an error (guard HasRow).                 *)
RowIncremented(t, h) == [t EXCEPT ![h] = @ + 1]

(* DecrementRefCount: the WHERE clause adds ref_count > 0.                  *)
CanDecrement(t, h) == t[h] > 0

RowDecremented(t, h) == [t EXCEPT ![h] = @ - 1]

(* DeleteChunk: no guard on ref_count; a missing row is only an error that  *)
(* every caller ignores.                                                   *)
RowRemoved(t, h) == [t EXCEPT ![h] = NoRow]
=============================================================================
