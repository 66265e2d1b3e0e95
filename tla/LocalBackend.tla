----------------------------- MODULE LocalBackend -----------------------------
(***************************************************************************)
(* The storage in the local file system (storage/local.go).  Nothing takes *)
(* its lock: calls interleave between system calls.  Two Puts of a key     *)
(* write the same temporary file, and a rename moves what another writer   *)
(* still has open; a Delete may remove the directory a Put has just made.  *)
(* All keys are in one directory.                                          *)
(***************************************************************************)
EXTENDS Naturals

CONSTANTS
  Keys,
  Ops    \* calls at a time

VARIABLES
  dir,     \* does the directory exist?
  tmp,     \* key -> what its temporary file holds: "none", "part" or "whole"
  blob,    \* key -> what is under its name, likewise
  io,      \* each call: where it is, and where the file it writes is now
  kept,    \* history: keys with a Put that returned, and not deleted since
  spoiled  \* history: keys of which a write broke off while another Put was under way

localVars == <<dir, tmp, blob, io, kept, spoiled>>

NoOp == [pc |-> "idle", key |-> "none", fd |-> "none", clean |-> FALSE]

LocalInit ==
  /\ dir = FALSE
  /\ tmp = [k \in Keys |-> "none"] /\ blob = [k \in Keys |-> "none"]
  /\ io = [c \in Ops |-> NoOp]
  /\ kept = {} /\ spoiled = {}

LocalTypeOK ==
  /\ dir \in BOOLEAN /\ kept \subseteq Keys /\ spoiled \subseteq Keys
  /\ tmp \in [Keys -> {"none", "part", "whole"}] /\ blob \in [Keys -> {"none", "part", "whole"}]
  /\ \A c \in Ops : /\ io[c].pc \in {"idle", "open", "write", "rename", "cleanup", "rmdir"}
                    /\ io[c].fd \in {"none", "tmp", "blob", "gone"}

At(c, pc) == io[c].pc = pc
Files(k) == {f \in {"tmp", "blob"} : (f = "tmp" /\ tmp[k] # "none") \/ (f = "blob" /\ blob[k] # "none")}

(* The open files of key k, after those at tmp and those at blob have moved. *)
Moved(k, tmpTo, blobTo) ==
  [d \in Ops |-> IF io[d].key # k THEN io[d]
                 ELSE [io[d] EXCEPT !.fd = CASE @ = "tmp" -> tmpTo [] @ = "blob" -> blobTo [] OTHER -> @]]

-----------------------------------------------------------------------------
(* Put: MkdirAll; WriteFile, which opens and truncates and then writes;      *)
(* Rename; and Remove if that failed.                                        *)

Put(c) ==
  /\ At(c, "idle") /\ dir' = TRUE
  /\ \E k \in Keys : io' = [io EXCEPT ![c] = [NoOp EXCEPT !.pc = "open", !.key = k]]
  /\ UNCHANGED <<tmp, blob, kept, spoiled>>

(* Another writer of the file that is now truncated may leave a gap.         *)
Open(c) ==
  /\ At(c, "open")
  /\ IF dir
     THEN LET k == io[c].key
          IN  /\ tmp' = [tmp EXCEPT ![k] = "part"]
              /\ io' = [d \in Ops |->
                   IF d = c THEN [io[c] EXCEPT !.pc = "write", !.fd = "tmp", !.clean = TRUE]
                   ELSE IF io[d].key = k /\ io[d].fd = "tmp" THEN [io[d] EXCEPT !.clean = FALSE]
                   ELSE io[d]]
     ELSE io' = [io EXCEPT ![c] = NoOp] /\ UNCHANGED tmp
  /\ UNCHANGED <<dir, blob, kept, spoiled>>

Written(c, was) == IF io[c].clean \/ was = "whole" THEN {"whole"} ELSE {"part", "whole"}

WriteFile(c) ==
  /\ At(c, "write")
  /\ LET k == io[c].key
     IN  CASE io[c].fd = "tmp" -> /\ \E v \in Written(c, tmp[k]) : tmp' = [tmp EXCEPT ![k] = v]
                                  /\ UNCHANGED blob
           [] io[c].fd = "blob" -> /\ \E v \in Written(c, blob[k]) : blob' = [blob EXCEPT ![k] = v]
                                   /\ UNCHANGED tmp
           [] OTHER -> UNCHANGED <<tmp, blob>>
  /\ io' = [io EXCEPT ![c].pc = "rename"]
  /\ UNCHANGED <<dir, kept, spoiled>>

(* The disk is full.  What is written stays where it is, and another Put of  *)
(* the key may already have given it the name, or may do so.                 *)
WriteFails(c) ==
  /\ At(c, "write")
  /\ LET others == {d \in Ops \ {c} : io[d].key = io[c].key /\ io[d].pc \in {"write", "rename"}}
     IN  spoiled' = IF io[c].fd = "blob" \/ others # {} THEN spoiled \cup {io[c].key} ELSE spoiled
  /\ io' = [io EXCEPT ![c] = NoOp]
  /\ UNCHANGED <<dir, tmp, blob, kept>>

Rename(c) ==
  /\ At(c, "rename")
  /\ LET k == io[c].key
     IN  IF tmp[k] = "none"
         THEN io' = [io EXCEPT ![c].pc = "cleanup"] /\ UNCHANGED <<tmp, blob, kept, spoiled>>
         ELSE /\ blob' = [blob EXCEPT ![k] = tmp[k]]
              /\ tmp' = [tmp EXCEPT ![k] = "none"]
              /\ io' = [Moved(k, "blob", "gone") EXCEPT ![c] = NoOp]
              /\ kept' = kept \cup {k}
              /\ spoiled' = IF io[c].clean /\ io[c].fd = "tmp" THEN spoiled \ {k} ELSE spoiled
  /\ UNCHANGED dir

(* The temporary file that is removed may be one a third writer has made.    *)
Cleanup(c) ==
  /\ At(c, "cleanup")
  /\ tmp' = [tmp EXCEPT ![io[c].key] = "none"]
  /\ io' = [Moved(io[c].key, "gone", "blob") EXCEPT ![c] = NoOp]
  /\ UNCHANGED <<dir, blob, kept, spoiled>>

-----------------------------------------------------------------------------
Delete(c) ==
  /\ At(c, "idle")
  /\ \E k \in Keys :
       /\ blob[k] # "none"
       /\ blob' = [blob EXCEPT ![k] = "none"]
       /\ io' = [Moved(k, "tmp", "gone") EXCEPT ![c] = [NoOp EXCEPT !.pc = "rmdir"]]
       /\ kept' = kept \ {k}
  /\ UNCHANGED <<dir, tmp, spoiled>>

(* Mutant: the directory is removed with what is in it.                      *)
RemoveAll(c) ==
  /\ At(c, "rmdir")
  /\ dir' = FALSE
  /\ tmp' = [k \in Keys |-> "none"] /\ blob' = [k \in Keys |-> "none"]
  /\ io' = [io EXCEPT ![c] = NoOp]
  /\ UNCHANGED <<kept, spoiled>>

(* The directory goes, unless there is a file in it.                         *)
RemoveDir(c) ==
  /\ At(c, "rmdir")
  /\ dir' = (dir /\ \E k \in Keys : Files(k) # {})
  /\ io' = [io EXCEPT ![c] = NoOp]
  /\ UNCHANGED <<tmp, blob, kept, spoiled>>

Get(k) == blob[k]
Exists(k) == blob[k] # "none"

(* The process stops; files stay as they are.                                *)
Stop ==
  /\ io' = [c \in Ops |-> NoOp]
  /\ spoiled' = spoiled \cup {io[c].key : c \in {d \in Ops : At(d, "write") /\ io[d].fd = "blob"}}
  /\ UNCHANGED <<dir, tmp, blob, kept>>

LocalNext ==
  \/ \E c \in Ops :
       \/ Put(c) \/ Open(c) \/ WriteFile(c) \/ WriteFails(c) \/ Rename(c) \/ Cleanup(c)
       \/ Delete(c) \/ RemoveDir(c)
  \/ Stop

-----------------------------------------------------------------------------
Putting(k) == {c \in Ops : io[c].key = k /\ io[c].pc = "write"}

(* "Put stores a chunk using atomic write": a chunk under its name is whole  *)
(* unless a Put of the same key is writing, or one of two overlapping Puts   *)
(* broke off; and a chunk whose Put returned stays until it is deleted,      *)
(* whatever Puts and Deletes of other keys do to the directory.              *)
BlobsKept ==
  /\ \A k \in Keys : Exists(k) /\ Putting(k) = {} /\ k \notin spoiled => Get(k) = "whole"
  /\ \A k \in kept : Exists(k) /\ dir

(* The state is well typed, and blobs are kept.                              *)
LocalInv == LocalTypeOK /\ BlobsKept
=============================================================================
