------------------------------- MODULE TrashBin -------------------------------
(***************************************************************************)
(* A user's trash: moving items in and out of it, emptying it page by page *)
(* (emptyTrash in server/handlers_trash.go), and the daily trash-cleanup   *)
(* job of worker.Manager with its fixed cut-off date.  Here an item is its *)
(* row, of a file or of a folder without children, and what happens to its *)
(* chunks is UploadService's business.  A deleted row is neither in live   *)
(* nor in bin.                                                             *)
(***************************************************************************)
EXTENDS SequencesExt, Naturals

CONSTANTS
  Items,
  BatchSize,   \* page size of emptyTrash
  Retention,   \* days an item stays in the trash
  MaxRestarts  \* bound: restarts of the server

ASSUME TrashAssumption ==
  BatchSize \in Nat \ {0} /\ Retention \in Nat /\ MaxRestarts \in Nat

VARIABLES
  live,      \* items not in the trash
  bin,       \* items in the trash, ORDER BY trashed_at DESC
  age,       \* days since an item was trashed, saturating above Retention
  overdue,   \* items with trashed_at < OlderThan of the scheduled task
  picked,    \* rows the running cleanup job has still to delete
  emptying,        \* the emptyTrash request: "idle", "list", "delete"
  offset,    \* its page offset
  batch,     \* rows of the page it has still to delete
  full,      \* the page had batchSize rows
  promised,  \* what was in the trash when the request came, and not restored
  failed,    \* failedCount > 0, or ListTrash failed
  restarts   \* restarts so far

request == <<emptying, offset, batch, full, failed>>
trashVars == <<live, bin, age, overdue, picked, request, promised, restarts>>

InBin == Range(bin)
MaxAge == Retention + 1

TrashTypeOK ==
  /\ live \subseteq Items
  /\ bin \in Seq(Items) /\ IsInjective(bin) /\ InBin \cap live = {}
  /\ age \in [Items -> 0 .. MaxAge]
  /\ overdue \subseteq Items /\ picked \subseteq Items
  /\ emptying \in {"idle", "list", "delete"}
  /\ offset \in Nat
  /\ batch \in Seq(Items)
  /\ full \in BOOLEAN /\ failed \in BOOLEAN
  /\ promised \subseteq Items
  /\ restarts \in 0 .. MaxRestarts

TrashInit ==
  /\ live = Items
  /\ bin = <<>>
  /\ age = [f \in Items |-> 0]
  /\ overdue = {} /\ picked = {}
  /\ emptying = "idle" /\ offset = 0 /\ batch = <<>> /\ full = FALSE
  /\ promised = {} /\ failed = FALSE
  /\ restarts = 0

-----------------------------------------------------------------------------
(* Statements on one row.                                                   *)

Without(f) == RemoveFirst(bin, f)

(* SoftDelete of an item already in the trash sets trashed_at again.         *)
SoftDelete(f) ==
  /\ f \in live \cup InBin
  /\ live' = live \ {f}
  /\ bin' = <<f>> \o Without(f)
  /\ age' = [age EXCEPT ![f] = 0]
  /\ overdue' = overdue \ {f}
  /\ UNCHANGED <<picked, request, promised, restarts>>

(* Of an item that is not in the trash Restore changes nothing.              *)
Restore(f) ==
  /\ f \in InBin
  /\ live' = live \cup {f}
  /\ bin' = Without(f)
  /\ overdue' = overdue \ {f}
  /\ promised' = promised \ {f}
  /\ UNCHANGED <<age, picked, request, restarts>>

(* PermanentDelete: whether the row is in the trash is not asked.            *)
Deleted(f) ==
  /\ live' = live \ {f}
  /\ bin' = Without(f)

PermanentDelete(f) ==
  /\ f \in live \cup InBin
  /\ Deleted(f)
  /\ UNCHANGED <<age, overdue, picked, request, promised, restarts>>

-----------------------------------------------------------------------------
(* emptyTrash.                                                              *)

StartEmpty ==
  /\ emptying = "idle"
  /\ emptying' = "list" /\ offset' = 0 /\ failed' = FALSE
  /\ promised' = InBin
  /\ UNCHANGED <<live, bin, age, overdue, picked, batch, full, restarts>>

(* Rows offset .. offset + BatchSize - 1 of the bin as it is now.            *)
Page == SubSeq(bin, offset + 1, Min({offset + BatchSize, Len(bin)}))

(* A query that fails ends the request with an error.                        *)
ListPage ==
  /\ emptying = "list"
  /\ \/ Page = <<>> /\ emptying' = "idle" /\ UNCHANGED <<batch, full, failed>>
     \/ failed' = TRUE /\ emptying' = "idle" /\ UNCHANGED <<batch, full>>
     \/ /\ Page # <<>>
        /\ batch' = Page
        /\ full' = (Len(Page) = BatchSize)
        /\ emptying' = "delete"
        /\ UNCHANGED failed
  /\ UNCHANGED <<live, bin, age, overdue, picked, offset, promised, restarts>>

(* A deletion that fails, also because the row is gone, is only counted.     *)
DeleteItem ==
  /\ emptying = "delete" /\ batch # <<>>
  /\ batch' = Tail(batch)
  /\ \/ /\ Head(batch) \in live \cup InBin
        /\ Deleted(Head(batch))
        /\ UNCHANGED failed
     \/ /\ failed' = TRUE
        /\ UNCHANGED <<live, bin>>
  /\ UNCHANGED <<age, overdue, picked, emptying, offset, full, promised, restarts>>

(* A short page was the last one.                                            *)
EndPage ==
  /\ emptying = "delete" /\ batch = <<>>
  /\ \/ full /\ emptying' = "list" /\ offset' = offset + BatchSize
     \/ ~full /\ emptying' = "idle" /\ UNCHANGED offset
  /\ UNCHANGED <<live, bin, age, overdue, picked, batch, full, promised, failed, restarts>>

-----------------------------------------------------------------------------
(* Time, the trash-cleanup task, and restarts of the server.                *)

Day ==
  /\ \E f \in InBin : age[f] < MaxAge
  /\ age' = [f \in Items |-> IF f \in InBin /\ age[f] < MaxAge THEN age[f] + 1 ELSE age[f]]
  /\ UNCHANGED <<live, bin, overdue, picked, request, promised, restarts>>

(* The query of collectTrash: the cut-off is the one computed at Start, so    *)
(* that nothing becomes overdue while the server runs.                       *)
StartCleanup ==
  /\ picked = {}
  /\ overdue \cap InBin # {}
  /\ picked' = overdue \cap InBin
  /\ UNCHANGED <<live, bin, age, overdue, request, promised, restarts>>

CleanupItem(f) ==
  /\ f \in picked
  /\ Deleted(f)
  /\ picked' = picked \ {f}
  /\ UNCHANGED <<age, overdue, request, promised, restarts>>

(* Manager.Start computes OlderThan: now - 30 days.                          *)
Restart ==
  /\ restarts < MaxRestarts
  /\ restarts' = restarts + 1
  /\ overdue' = {f \in InBin : age[f] > Retention}
  /\ picked' = {} /\ promised' = {}
  /\ emptying' = "idle" /\ offset' = 0 /\ batch' = <<>> /\ full' = FALSE /\ failed' = FALSE
  /\ UNCHANGED <<live, bin, age>>

-----------------------------------------------------------------------------
Empty == ListPage \/ DeleteItem \/ EndPage

TrashNext ==
  \/ \E f \in Items : SoftDelete(f) \/ Restore(f) \/ PermanentDelete(f) \/ CleanupItem(f)
  \/ StartEmpty \/ Empty
  \/ Day \/ StartCleanup \/ Restart

(* A request in progress goes on, days pass, and the scheduler runs the task *)
(* again and again; restarts and users are under no obligation.              *)
TrashFairness ==
  /\ WF_trashVars(Empty) /\ WF_trashVars(Day) /\ WF_trashVars(StartCleanup)
  /\ WF_trashVars(\E f \in Items : CleanupItem(f))

-----------------------------------------------------------------------------
(* Properties.                                                              *)

(* emptyTrash comes to an end although deletions may fail and other requests *)
(* move items in and out of the pages it is reading.                         *)
EmptyReturns == (emptying # "idle") ~> (emptying = "idle")

(* emptyTrash permanently deletes all items in the user's trash: what was     *)
(* there when the request came is gone when it returns, unless it was         *)
(* restored meanwhile or its deletion failed.  It is not so: the second page  *)
(* is asked for at an offset counted before the first was deleted.           *)
EmptiesAll ==
  [][emptying # "idle" /\ emptying' = "idle" /\ ~failed' => promised' \cap Range(bin') = {}]_trashVars

(* 30-day retention: an item that has been in the trash for longer leaves it. *)
(* It does not: the cut-off is a time fixed when the manager starts.         *)
RetentionEnds ==
  \A f \in Items : (f \in InBin /\ age[f] > Retention) ~> (f \notin InBin \/ age[f] <= Retention)
=============================================================================
