----------------------------- MODULE IPFSBackend ------------------------------
(***************************************************************************)
(* The storage in an IPFS node (storage/ipfs.go).  A block is found by its *)
(* CID, which the node computes; it is kept while it is pinned.  The node  *)
(* and its garbage collection are external.                                *)
(***************************************************************************)
EXTENDS Naturals

CONSTANTS
  Blocks,   \* contents; a block stands for its CID too
  Digest,   \* a key that is no CID: the server's keys are SHA-256 digests
  NoKey,    \* the empty key
  Tasks     \* calls at a time

VARIABLES
  pinFiles,  \* cfg.PinFiles
  blocks,    \* blocks in the node
  pins,      \* blocks that are pinned
  task,      \* each call: the block it has put and must still pin, or NoKey
  promised   \* history: blocks with a Put that returned no error, and not deleted since

ipfsVars == <<pinFiles, blocks, pins, task, promised>>

NewIPFSBackend ==
  /\ pinFiles \in BOOLEAN
  /\ blocks = {} /\ pins = {} /\ promised = {}
  /\ task = [t \in Tasks |-> NoKey]

Decode(key) == key \in Blocks

-----------------------------------------------------------------------------
(* Put and PutReader: the block is stored before its CID is known, and stays *)
(* in the node when the key is another.                                      *)
PutBlock(t, key) ==
  /\ task[t] = NoKey
  /\ \E b \in Blocks :
       /\ blocks' = blocks \cup {b}
       /\ IF key \in {NoKey, b}
          THEN /\ task' = [task EXCEPT ![t] = IF pinFiles THEN b ELSE NoKey]
               /\ promised' = IF pinFiles THEN promised ELSE promised \cup {b}
          ELSE UNCHANGED <<task, promised>>
  /\ UNCHANGED <<pinFiles, pins>>

(* Pin().Add.  The block may have been collected since it was put, and the   *)
(* node may not answer.                                                      *)
PutPin(t) ==
  /\ task[t] # NoKey
  /\ \/ /\ task[t] \in blocks
        /\ pins' = pins \cup {task[t]} /\ promised' = promised \cup {task[t]}
     \/ UNCHANGED <<pins, promised>>
  /\ task' = [task EXCEPT ![t] = NoKey]
  /\ UNCHANGED <<pinFiles, blocks>>

(* Delete: the pin goes.  Of a block that is not pinned it is an error.      *)
DeletePin(key) ==
  /\ Decode(key) /\ key \in pins
  /\ pins' = pins \ {key} /\ promised' = promised \ {key}
  /\ UNCHANGED <<pinFiles, blocks, task>>

GetBlock(key) == Decode(key) /\ key \in blocks
ExistsBlock(key) == Decode(key) /\ key \in blocks

(* The node collects what is not pinned.                                     *)
NodeCollects ==
  /\ \E b \in blocks \ pins : blocks' = blocks \ {b}
  /\ UNCHANGED <<pinFiles, pins, task, promised>>

IPFSNext ==
  \/ \E key \in Blocks \cup {Digest, NoKey} : DeletePin(key) \/ \E t \in Tasks : PutBlock(t, key)
  \/ \E t \in Tasks : PutPin(t)
  \/ NodeCollects

-----------------------------------------------------------------------------
(* What is pinned is in the node; and where files are pinned, a Put that     *)
(* returned no error is readable under its key until a Delete, whatever the  *)
(* node collects between the two calls of another Put.                       *)
IPFSInv ==
  /\ pinFiles \in BOOLEAN /\ pins \subseteq blocks /\ blocks \subseteq Blocks
  /\ task \in [Tasks -> Blocks \cup {NoKey}]
  /\ pinFiles => \A key \in promised : ExistsBlock(key) /\ GetBlock(key) /\ key \in pins
=============================================================================
