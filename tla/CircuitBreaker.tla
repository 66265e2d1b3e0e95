---------------------------- MODULE CircuitBreaker ----------------------------
(***************************************************************************)
(* The circuit breaker in front of the S3 backend (internal/circuit): its  *)
(* three states, the slot of the half-open test request, and retries with  *)
(* a timeout per attempt.  Every critical section of cb.mu is one step.    *)
(* What the protected function does and returns is left out: an attempt    *)
(* succeeds, fails, times out or is cancelled.                             *)
(***************************************************************************)
EXTENDS Naturals, FiniteSets

CONSTANTS
  Callers,      \* goroutines that use the breaker
  MaxFailures,
  MaxRetries,
  Modulus       \* of uint32 arithmetic; 2^32 in the code

ASSUME BreakerAssumption ==
  /\ MaxFailures \in Nat \ {0} /\ MaxRetries \in Nat
  /\ Modulus \in Nat /\ Modulus > MaxFailures + 1

VARIABLES
  state, failures,
  halfOpenCalls,
  cooled,   \* Timeout has passed since lastFailure
  pc,       \* where each caller is in Execute
  slot,     \* it has deferred releaseHalfOpenSlot
  tries,    \* attempts it has started
  ok        \* err == nil, once executeWithRetries has returned

breaker == <<state, failures, halfOpenCalls, cooled>>
call    == <<pc, slot, tries, ok>>
vars    == <<breaker, call>>

TypeOK ==
  /\ state \in {"closed", "open", "half-open"}
  /\ failures \in 0 .. (Modulus - 1)
  /\ halfOpenCalls \in 0 .. (Modulus - 1)
  /\ cooled \in BOOLEAN
  /\ pc \in [Callers -> {"idle", "acquire", "attempt", "running", "record", "release"}]
  /\ slot \in [Callers -> BOOLEAN]
  /\ tries \in [Callers -> 0 .. (MaxRetries + 1)]
  /\ ok \in [Callers -> BOOLEAN]

Init ==
  /\ state = "closed" /\ failures = 0 /\ halfOpenCalls = 0 /\ cooled = FALSE
  /\ pc = [c \in Callers |-> "idle"]
  /\ slot = [c \in Callers |-> FALSE]
  /\ tries = [c \in Callers |-> 0]
  /\ ok = [c \in Callers |-> FALSE]

-----------------------------------------------------------------------------
Goto(c, label) == pc' = [pc EXCEPT ![c] = label]

Return(c) ==
  /\ Goto(c, "idle")
  /\ slot' = [slot EXCEPT ![c] = FALSE]
  /\ tries' = [tries EXCEPT ![c] = 0]
  /\ ok' = [ok EXCEPT ![c] = FALSE]

(* currentState and the branch on it: an open circuit rejects the call.      *)
CurrentState(c) ==
  /\ pc[c] = "idle"
  /\ \/ /\ state = "open" /\ ~cooled
        /\ UNCHANGED <<state, halfOpenCalls, pc>>
     \/ /\ state = "open" /\ cooled
        /\ state' = "half-open"
        /\ halfOpenCalls' = 0
        /\ Goto(c, "acquire")
     \/ /\ state # "open"
        /\ Goto(c, IF state = "closed" THEN "attempt" ELSE "acquire")
        /\ UNCHANGED <<state, halfOpenCalls>>
  /\ UNCHANGED <<failures, cooled, slot, tries, ok>>

SlotFree == halfOpenCalls < 1

AcquireHalfOpenSlot(c) ==
  /\ pc[c] = "acquire"
  /\ \/ /\ SlotFree
        /\ halfOpenCalls' = (halfOpenCalls + 1) % Modulus
        /\ slot' = [slot EXCEPT ![c] = TRUE]
        /\ Goto(c, "attempt")
        /\ UNCHANGED <<tries, ok>>
     \/ /\ ~SlotFree
        /\ Return(c)
        /\ UNCHANGED halfOpenCalls
  /\ UNCHANGED <<state, failures, cooled>>

ReleaseHalfOpenSlot(c) ==
  /\ pc[c] = "release"
  /\ halfOpenCalls' = (halfOpenCalls + Modulus - 1) % Modulus
  /\ Return(c)
  /\ UNCHANGED <<state, failures, cooled>>

-----------------------------------------------------------------------------
(* executeWithRetries.                                                      *)

StartAttempt(c) ==
  /\ pc[c] = "attempt"
  /\ tries' = [tries EXCEPT ![c] = @ + 1]
  /\ Goto(c, "running")
  /\ UNCHANGED <<breaker, slot, ok>>

(* After an attempt without success: the next one, or the end of the loop.   *)
TryAgain(c) == Goto(c, IF tries[c] <= MaxRetries THEN "attempt" ELSE "record")

Answer(c) ==
  /\ pc[c] = "running"
  /\ \/ /\ ok' = [ok EXCEPT ![c] = TRUE]
        /\ Goto(c, "record")
     \/ /\ TryAgain(c)
        /\ UNCHANGED ok
  /\ UNCHANGED <<breaker, slot, tries>>

(* The timer of the attempt fires; its goroutine is left running.            *)
AttemptTimeout(c) ==
  /\ pc[c] = "running"
  /\ TryAgain(c)
  /\ UNCHANGED <<breaker, slot, tries, ok>>

(* ctx.Done, during an attempt or in the delay before the next one.          *)
Cancelled(c) ==
  /\ pc[c] = "running" \/ (pc[c] = "attempt" /\ tries[c] > 0)
  /\ Goto(c, "record")
  /\ UNCHANGED <<breaker, slot, tries, ok>>

-----------------------------------------------------------------------------
(* recordSuccess and recordFailure, and the return of the call unless the    *)
(* deferred release is still to run.                                        *)

ReturnFrom(c) ==
  \/ /\ slot[c]
     /\ Goto(c, "release")
     /\ UNCHANGED <<slot, tries, ok>>
  \/ /\ ~slot[c]
     /\ Goto(c, "idle")
     /\ tries' = [tries EXCEPT ![c] = 0]
     /\ ok' = [ok EXCEPT ![c] = FALSE]
     /\ UNCHANGED slot

RecordSuccess(c) ==
  /\ pc[c] = "record" /\ ok[c]
  /\ failures' = 0
  /\ \/ state = "half-open" /\ state' = "closed" /\ halfOpenCalls' = 0
     \/ state # "half-open" /\ UNCHANGED <<state, halfOpenCalls>>
  /\ ReturnFrom(c)
  /\ UNCHANGED cooled

(* Mutant: one failure too many.                                             *)
TooManyPlusOne(n) == n > MaxFailures

TooMany(n) == n >= MaxFailures

RecordFailure(c) ==
  LET n == (failures + 1) % Modulus
  IN /\ pc[c] = "record" /\ ~ok[c]
     /\ failures' = n
     /\ cooled' = FALSE
     /\ \/ state = "half-open" /\ state' = "open" /\ halfOpenCalls' = 0
        \/ /\ state # "half-open"
           /\ state' = IF TooMany(n) THEN "open" ELSE state
           /\ UNCHANGED halfOpenCalls
     /\ ReturnFrom(c)

(* config.Timeout passes after the last failure, whatever calls are in       *)
(* flight: with s3.go's settings the attempts of one call may last three     *)
(* times as long.                                                            *)
Cool ==
  /\ state = "open" /\ ~cooled
  /\ cooled' = TRUE
  /\ UNCHANGED <<state, failures, halfOpenCalls, call>>

-----------------------------------------------------------------------------
Next ==
  \/ \E c \in Callers :
       \/ CurrentState(c) \/ AcquireHalfOpenSlot(c) \/ ReleaseHalfOpenSlot(c)
       \/ StartAttempt(c) \/ Answer(c) \/ AttemptTimeout(c) \/ Cancelled(c)
       \/ RecordSuccess(c) \/ RecordFailure(c)
  \/ Cool

Spec == Init /\ [][Next]_vars

-----------------------------------------------------------------------------
(* Properties.                                                              *)

(* MaxFailures before opening the circuit: it is never closed with that many *)
(* failures counted, whatever calls that began in another state report.      *)
ClosedBelowLimit == state = "closed" => failures < MaxFailures

Testers == {c \in Callers : slot[c] /\ pc[c] \in {"attempt", "running"}}

(* "Allow only 1 test request at a time" (acquireHalfOpenSlot): while the    *)
(* circuit is half-open, at most one call that holds its slot is trying.     *)
OneTester == state = "half-open" => Cardinality(Testers) <= 1
=============================================================================
