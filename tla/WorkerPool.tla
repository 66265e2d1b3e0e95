------------------------------ MODULE WorkerPool ------------------------------
(***************************************************************************)
(* Background jobs (internal/worker): the in-memory priority queue with    *)
(* its condition variable, the pool of worker goroutines that pop, run and *)
(* retry jobs, the bounded results channel and its reader, the scheduler   *)
(* that submits recurring tasks, and the shutdown of all of them by        *)
(* Manager.Stop.                                                           *)
(*                                                                         *)
(* A job is its id.  What its handler does is UploadService's business     *)
(* (trash collection): here a handler returns, with or without an error.   *)
(***************************************************************************)
EXTENDS SequencesExt, Naturals

CONSTANTS
  Workers,      \* worker goroutines of the pool
  Jobs,         \* job ids that can be generated
  Tasks,        \* the jobs among them that the scheduler submits
  Priority,     \* Priority[j]
  Handled,      \* jobs whose type has a registered handler
  MaxRetries,   \* MaxRetries[j]; 0 when the submitter leaves it unset
  DefaultRetries,
  ResultsCap,   \* capacity of the results channel
  NoJob

ASSUME PoolAssumption ==
  /\ IsFiniteSet(Workers) /\ Tasks \subseteq Jobs
  /\ Priority \in [Jobs -> Nat]
  /\ MaxRetries \in [Jobs -> Nat] /\ DefaultRetries \in Nat
  /\ ResultsCap \in Nat \ {0}
  /\ NoJob \notin Jobs

VARIABLES
  queue,      \* MemoryQueue.jobs
  submitted,  \* jobs handed to Submit so far
  retries,    \* Job.Retries
  pc,         \* where each worker is in its loop
  job,        \* the job a worker has popped
  results,    \* the buffered results channel
  reported,   \* jobs whose result has been sent
  sched,      \* the scheduler goroutine: "new", "idle", "checking", "gone"
  stop        \* how far Manager.Stop has come; "off" before Start

vars == <<queue, submitted, retries, pc, job, results, reported, sched, stop>>

(* Submit replaces a MaxRetries of 0 before it pushes the job.               *)
AllowedRetries(j) == IF MaxRetries[j] = 0 THEN DefaultRetries ELSE MaxRetries[j]

(* "waiting" is inside cond.Wait, "woken" has been signalled and is about to *)
(* take the lock again.                                                      *)
Labels == {"new", "top", "pop", "waiting", "woken", "handle", "push", "send", "exited"}

(* Stop cancels the manager's context, the scheduler's, then the pool's, and  *)
(* waits for the goroutines of each before it goes on.                       *)
StopStages == {"off", "up", "scheduler", "pool", "down"}

TypeOK ==
  /\ queue \in Seq(Jobs)
  /\ submitted \subseteq Jobs
  /\ retries \in [Jobs -> Nat] /\ \A j \in Jobs : retries[j] <= AllowedRetries(j)
  /\ pc \in [Workers -> Labels]
  /\ job \in [Workers -> Jobs \cup {NoJob}]
  /\ results \in Seq(Jobs) /\ Len(results) <= ResultsCap
  /\ reported \subseteq Jobs
  /\ sched \in {"new", "idle", "checking", "gone"}
  /\ stop \in StopStages

Init ==
  /\ queue = <<>>
  /\ submitted = {}
  /\ retries = [j \in Jobs |-> 0]
  /\ pc = [w \in Workers |-> "new"]
  /\ job = [w \in Workers |-> NoJob]
  /\ results = <<>>
  /\ reported = {}
  /\ sched = "new"
  /\ stop = "off"

-----------------------------------------------------------------------------
(* MemoryQueue.                                                             *)

(* Before the first job of lower priority, or at the end.                    *)
Inserted(q, j) ==
  LET lower == {i \in DOMAIN q : Priority[j] > Priority[q[i]]}
  IN IF lower = {} THEN Append(q, j) ELSE InsertAt(q, Min(lower), j)

(* Mutant: Push does not signal.                                             *)
PushSilently(j, at) ==
  /\ queue' = Inserted(queue, j)
  /\ pc' = at

(* Push under the lock, Signal included: one waiter, if any, is woken.  at is *)
(* where the workers are when the pushing one has returned.                  *)
Push(j, at) ==
  /\ queue' = Inserted(queue, j)
  /\ \/ /\ \E w \in Workers : at[w] = "waiting" /\ pc' = [at EXCEPT ![w] = "woken"]
     \/ /\ \A w \in Workers : at[w] # "waiting"
        /\ pc' = at

(* The loop of Pop: wait while the queue is empty.                           *)
Pop(w) ==
  /\ pc[w] \in {"pop", "woken"}
  /\ \/ /\ queue = <<>>
        /\ pc' = [pc EXCEPT ![w] = "waiting"]
        /\ UNCHANGED <<queue, job>>
     \/ /\ queue # <<>>
        /\ job' = [job EXCEPT ![w] = Head(queue)]
        /\ queue' = Tail(queue)
        /\ pc' = [pc EXCEPT ![w] = "handle"]
  /\ UNCHANGED <<submitted, retries, results, reported, sched, stop>>

-----------------------------------------------------------------------------
(* WorkerPool.                                                              *)

(* Manager.Start.                                                            *)
StartManager ==
  /\ stop = "off" /\ stop' = "up"
  /\ pc' = [w \in Workers |-> "top"] /\ sched' = "idle"
  /\ UNCHANGED <<queue, submitted, retries, job, results, reported>>

(* QueueGC, at any time: nothing refuses a job after Stop.                   *)
Submit(j) ==
  /\ stop # "off" /\ j \in Jobs \ (submitted \cup Tasks)
  /\ submitted' = submitted \cup {j}
  /\ Push(j, pc)
  /\ UNCHANGED <<retries, job, results, reported, sched, stop>>

PoolCancelled == stop \in {"pool", "down"}

(* The select at the top of the worker's loop.                               *)
Top(w) ==
  /\ pc[w] = "top"
  /\ pc' = [pc EXCEPT ![w] = IF PoolCancelled THEN "exited" ELSE "pop"]
  /\ UNCHANGED <<queue, submitted, retries, job, results, reported, sched, stop>>

(* processJob up to its result: the handler returns nil, or an error that    *)
(* is retried or final; a job without a handler gets a final error.          *)
Handle(w) ==
  /\ pc[w] = "handle"
  /\ \/ /\ pc' = [pc EXCEPT ![w] = "send"]
        /\ UNCHANGED retries
     \/ /\ job[w] \in Handled
        /\ retries[job[w]] < AllowedRetries(job[w])
        /\ retries' = [retries EXCEPT ![job[w]] = @ + 1]
        /\ pc' = [pc EXCEPT ![w] = "push"]
  /\ UNCHANGED <<queue, submitted, job, results, reported, sched, stop>>

(* Mutant: the retried job is also reported as failed.                       *)
RequeueReported(w) ==
  /\ pc[w] = "push"
  /\ Push(job[w], [pc EXCEPT ![w] = "send"])
  /\ UNCHANGED <<job, submitted, retries, results, reported, sched, stop>>

(* Mutant: the back-off ends without the push.                               *)
RequeueDropped(w) ==
  /\ pc[w] = "push"
  /\ pc' = [pc EXCEPT ![w] = "top"]
  /\ job' = [job EXCEPT ![w] = NoJob]
  /\ UNCHANGED <<queue, submitted, retries, results, reported, sched, stop>>

(* After the back-off the job goes to the queue again.                       *)
Requeue(w) ==
  /\ pc[w] = "push"
  /\ Push(job[w], [pc EXCEPT ![w] = "top"])
  /\ job' = [job EXCEPT ![w] = NoJob]
  /\ UNCHANGED <<submitted, retries, results, reported, sched, stop>>

(* The send blocks while the channel is full.                                *)
Send(w) ==
  /\ pc[w] = "send"
  /\ Len(results) < ResultsCap
  /\ results' = Append(results, job[w])
  /\ reported' = reported \cup {job[w]}
  /\ job' = [job EXCEPT ![w] = NoJob]
  /\ pc' = [pc EXCEPT ![w] = "top"]
  /\ UNCHANGED <<queue, submitted, retries, sched, stop>>

(* Manager.processResults.                                                  *)
ProcessResult ==
  /\ results # <<>>
  /\ results' = Tail(results)
  /\ UNCHANGED <<queue, submitted, retries, pc, job, reported, sched, stop>>

-----------------------------------------------------------------------------
(* Scheduler: a tick snapshots the tasks and submits those that are due.     *)

Tick ==
  /\ sched = "idle"
  /\ \E j \in Tasks : j \notin submitted
  /\ sched' = "checking"
  /\ UNCHANGED <<queue, submitted, retries, pc, job, results, reported, stop>>

RunTask(j) ==
  /\ sched = "checking"
  /\ j \in Tasks \ submitted
  /\ submitted' = submitted \cup {j}
  /\ Push(j, pc)
  /\ UNCHANGED <<retries, job, results, reported, sched, stop>>

EndTick ==
  /\ sched = "checking"
  /\ sched' = "idle"
  /\ UNCHANGED <<queue, submitted, retries, pc, job, results, reported, stop>>

SchedulerExit ==
  /\ sched = "idle"
  /\ stop # "up"
  /\ sched' = "gone"
  /\ UNCHANGED <<queue, submitted, retries, pc, job, results, reported, stop>>

-----------------------------------------------------------------------------
(* Manager.Stop.                                                            *)

StopScheduler ==
  /\ stop = "up"
  /\ stop' = "scheduler"
  /\ UNCHANGED <<queue, submitted, retries, pc, job, results, reported, sched>>

(* Mutant: pool.Stop is called without waiting for the scheduler.            *)
StopPoolEarly ==
  /\ stop = "scheduler"
  /\ stop' = "pool"
  /\ UNCHANGED <<queue, submitted, retries, pc, job, results, reported, sched>>

StopPool ==
  /\ stop = "scheduler"
  /\ sched = "gone"
  /\ stop' = "pool"
  /\ UNCHANGED <<queue, submitted, retries, pc, job, results, reported, sched>>

(* wg.Wait returns and the results channel is closed.                        *)
CloseResults ==
  /\ stop = "pool"
  /\ \A w \in Workers : pc[w] = "exited"
  /\ stop' = "down"
  /\ UNCHANGED <<queue, submitted, retries, pc, job, results, reported, sched>>

-----------------------------------------------------------------------------
Step(w) == Top(w) \/ Pop(w) \/ Handle(w) \/ Requeue(w) \/ Send(w)

Next ==
  \/ \E j \in Jobs : Submit(j) \/ RunTask(j)
  \/ \E w \in Workers : Step(w)
  \/ ProcessResult
  \/ Tick \/ EndTick \/ SchedulerExit
  \/ StartManager \/ StopScheduler \/ StopPool \/ CloseResults

(* Goroutines are scheduled and handlers return; nobody has to submit a job  *)
(* or to stop the server, but a Stop that has begun goes on.                 *)
Fairness ==
  /\ \A w \in Workers : WF_vars(Step(w))
  /\ WF_vars(ProcessResult)
  /\ WF_vars(EndTick \/ SchedulerExit)
  /\ WF_vars(StopPool) /\ WF_vars(CloseResults)

-----------------------------------------------------------------------------
(* Properties.                                                              *)

InQueue(j) == {i \in DOMAIN queue : queue[i] = j}
Holders(j) == {w \in Workers : job[w] = j}

(* No job is lost or doubled on its way through queue, workers, retries and  *)
(* the results channel: a submitted job is in exactly one of these places    *)
(* (MemoryQueue.Push and Pop, processJob's retry).                           *)
JobsConserved ==
  \A j \in Jobs :
    Cardinality(InQueue(j)) + Cardinality(Holders(j)) + (IF j \in reported THEN 1 ELSE 0)
      = IF j \in submitted THEN 1 ELSE 0

(* Pop always returns a job of the highest priority that is queued: Push     *)
(* keeps the queue in order of priority, through retries too.                *)
QueueOrdered ==
  \A i, k \in DOMAIN queue : i < k => Priority[queue[i]] >= Priority[queue[k]]

(* The state is well typed, jobs are conserved, and the queue is in order.    *)
PoolInv == TypeOK /\ JobsConserved /\ QueueOrdered

(* No wake-up is lost: as long as a worker sleeps in cond.Wait, every queued *)
(* job has a worker of its own that is awake and on its way to Pop.          *)
NoLostWakeup ==
  (\E w \in Workers : pc[w] = "waiting") /\ ~PoolCancelled =>
     Len(queue) <= Cardinality({w \in Workers : pc[w] \in {"top", "pop", "woken"}})

(* Once the pool's context is cancelled the scheduler submits nothing: Stop  *)
(* takes down the producers before the consumers.                            *)
NoTaskAfterStop ==
  [][PoolCancelled => submitted' \cap Tasks = submitted \cap Tasks]_vars

(* A job that is submitted gets a result, after its retries, unless the pool *)
(* is stopped first.                                                         *)
JobReported ==
  \A j \in Jobs : j \in submitted ~> (j \in reported \/ PoolCancelled)

(* "Stop stops the worker pool": the call returns.  It does not: a worker     *)
(* that sleeps in cond.Wait is never signalled, and wg.Wait waits for it.    *)
StopReturns == (stop = "scheduler") ~> (stop = "down")
=============================================================================
