------------------------------ MODULE Background ------------------------------
(***************************************************************************)
(* Background work: the jobs of worker.Manager, the trash one of them      *)
(* cleans while users fill and empty it, and the daemon that uploads what  *)
(* changes.  The collection is one step after another in TrashBin          *)
(* whichever worker runs it, and the daemon is a process of its own, so a  *)
(* behaviour follows one of the three.                                     *)
(***************************************************************************)
EXTENDS WorkerPool, TrashBin, SyncDaemon

VARIABLE part

background == <<part, vars, trashVars, daemonVars>>

Start == part \in {"jobs", "trash", "daemon"} /\ Init /\ TrashInit /\ NewSyncDaemon

Work ==
  \/ part = "jobs" /\ Next /\ UNCHANGED <<part, trashVars, daemonVars>>
  \/ part = "trash" /\ TrashNext /\ UNCHANGED <<part, vars, daemonVars>>
  \/ part = "daemon" /\ DaemonNext /\ UNCHANGED <<part, vars, trashVars>>

BackgroundSpec == Start /\ [][Work]_background

FairSpec == BackgroundSpec /\ Fairness /\ TrashFairness /\ DaemonFairness

-----------------------------------------------------------------------------
(* The state is well typed, no item is in the trash twice or both in it and  *)
(* out of it, jobs are conserved, the queue is in order, and a timer is      *)
(* known to the daemon unless an earlier one has taken its entry.            *)
BackgroundInv == TrashTypeOK /\ PoolInv /\ DaemonTypeOK /\ TimersKnown

(* A request to empty the trash returns, though it fails to delete items;    *)
(* and a change of a file is uploaded, though events come while timers fire. *)
WorkEnds == EmptyReturns /\ ChangesUploaded
=============================================================================
