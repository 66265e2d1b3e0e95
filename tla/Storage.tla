-------------------------------- MODULE Storage -------------------------------
(***************************************************************************)
(* Where content goes: files of the mount are cut into chunks, and these   *)
(* are kept by one of the backends (storage/storage.go), the local file    *)
(* system, S3 behind the circuit breaker, or an IPFS node.  The layers     *)
(* share no state here, so a behaviour follows one of them.                *)
(***************************************************************************)
EXTENDS CircuitBreaker, LocalBackend, IPFSBackend, Chunker, FuseMount

VARIABLE layer  \* the mount, the chunker, or the backend of the configuration

storage == <<vars, localVars, ipfsVars, chunkerVars, fuseVars, layer>>

NewBackend ==
  /\ layer \in {"mount", "chunker", "local", "s3", "ipfs"}
  /\ Init /\ LocalInit /\ NewIPFSBackend /\ ChunkerInit /\ NewVaultDriftFS
  /\ pinFiles => layer = "ipfs"
  /\ layer # "chunker" => proc = "Chunk" /\ input = <<>>

StorageNext ==
  \/ layer = "mount" /\ FuseNext /\ UNCHANGED <<vars, localVars, ipfsVars, chunkerVars, layer>>
  \/ layer = "chunker" /\ ChunkerNext /\ UNCHANGED <<vars, localVars, ipfsVars, fuseVars, layer>>
  \/ layer = "local" /\ LocalNext /\ UNCHANGED <<vars, ipfsVars, chunkerVars, fuseVars, layer>>
  \/ layer = "s3" /\ Next /\ UNCHANGED <<localVars, ipfsVars, chunkerVars, fuseVars, layer>>
  \/ layer = "ipfs" /\ IPFSNext /\ UNCHANGED <<vars, localVars, chunkerVars, fuseVars, layer>>

StorageSpec == NewBackend /\ [][StorageNext]_storage

-----------------------------------------------------------------------------
(* The state of the breaker is well typed, and it is never closed with       *)
(* MaxFailures counted.                                                      *)
BreakerInv == TypeOK /\ ClosedBelowLimit

(* "All implementations must be safe for concurrent use": what a Put of the  *)
(* local or the IPFS backend has stored is there, and whole, until a Delete; *)
(* and what files of the mount refer to is counted and stored.               *)
BlobsInv == LocalInv /\ IPFSInv /\ FuseInv
=============================================================================
