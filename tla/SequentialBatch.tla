--------------------------- MODULE SequentialBatch ---------------------------
(***************************************************************************)
(* One call of execute_with_count that falls back to sequential execution: *)
(* the executor builds a SequentialBatchExecutor with its own reporter,    *)
(* interval and failure policy, and that executor pulls and runs one task  *)
(* after the other on the calling thread.  The loop itself is qubit-batch, *)
(* outside src/, modelled from what src/ and its tests rely on.            *)
(***************************************************************************)
EXTENDS Integers, FiniteSets

CONSTANTS
    Count,          \* the declared task count of this call
    FailureLimit,   \* failures that stop admission; 0 is TaskFailurePolicy::Continue
    Reporting       \* whether progress is reported

ASSUME CountAssumption == Count \in Nat
ASSUME FailureLimitAssumption == FailureLimit \in Nat
ASSUME ReportingAssumption == Reporting \in BOOLEAN

VARIABLES
    pc,             \* where the calling thread is
    accepted,       \* tasks accepted, the index of the next one
    outcome,        \* per task: what was recorded
    exhausted,      \* the iterator answered None
    exceeded,       \* the iterator gave an item beyond the declared count
    result          \* what the call returned; "none" while it runs

vars == <<pc, accepted, outcome, exhausted, exceeded, result>>

Task == 0 .. Count - 1
Recorded == {"succeeded", "failed"}
Failures == {i \in Task : outcome[i] = "failed"}
\* Mutant: the fallback is built without the executor's failure policy.
PolicyForgotten == FALSE

PolicyReached == FailureLimit > 0 /\ Cardinality(Failures) >= FailureLimit

(* The fallback accepts no task beyond the declared count, and answers      *)
(* nothing but the answers both strategies share.                           *)
TypeOK ==
    /\ pc \in {"start", "ask", "pull", "run", "drop", "report", "done"}
    /\ accepted \in 0 .. Count
    /\ outcome \in [Task -> Recorded \cup {"none"}]
    /\ exhausted \in BOOLEAN
    /\ exceeded \in BOOLEAN
    /\ result \in {"none", "Panic", "Finished", "StoppedByTaskFailurePolicy",
                   "CountShortfall", "CountExceeded", "ProgressReport"}

Init ==
    /\ pc = "start"
    /\ accepted = 0
    /\ outcome = [i \in Task |-> "none"]
    /\ exhausted = FALSE
    /\ exceeded = FALSE
    /\ result = "none"

Start ==
    /\ pc = "start"
    /\ pc' = "ask"
    /\ UNCHANGED <<accepted, outcome, exhausted, exceeded, result>>

\* A progress report fails or panics on the calling thread: before the first
\* task, or between two tasks.
ReportFails ==
    /\ pc \in {"start", "ask"}
    /\ Reporting
    /\ pc' = "done"
    /\ result' \in {"ProgressReport", "Panic"}
    /\ UNCHANGED <<accepted, outcome, exhausted, exceeded>>

Ask ==
    /\ pc = "ask"
    /\ pc' = IF PolicyReached THEN "report" ELSE "pull"
    /\ UNCHANGED <<accepted, outcome, exhausted, exceeded, result>>

PullNone ==
    /\ pc = "pull"
    /\ exhausted' = TRUE
    /\ pc' = "report"
    /\ UNCHANGED <<accepted, outcome, exceeded, result>>

PullExtra ==
    /\ pc = "pull"
    /\ accepted = Count
    /\ exceeded' = TRUE
    /\ pc' = "report"
    /\ UNCHANGED <<accepted, outcome, exhausted, result>>

\* Mutant: the declared count is not handed on.
PullUncounted ==
    /\ pc = "pull"
    /\ accepted' = accepted + 1
    /\ pc' = "run"
    /\ UNCHANGED <<outcome, exhausted, exceeded, result>>

PullAccept ==
    /\ pc = "pull"
    /\ accepted < Count
    /\ accepted' = accepted + 1
    /\ pc' = "run"
    /\ UNCHANGED <<outcome, exhausted, exceeded, result>>

\* The task just accepted runs; a panic of its body is captured.
RunTask ==
    /\ pc = "run"
    /\ \E o \in Recorded : outcome' = [outcome EXCEPT ![accepted - 1] = o]
    /\ pc' = "drop"
    /\ UNCHANGED <<accepted, exhausted, exceeded, result>>

DropTask ==
    /\ pc = "drop"
    /\ pc' = "ask"
    /\ UNCHANGED <<accepted, outcome, exhausted, exceeded, result>>

\* The source's conversion, its iterator, or the destruction of a task panics.
Panics ==
    /\ pc \in {"start", "pull", "drop"}
    /\ pc' = "done"
    /\ result' = "Panic"
    /\ UNCHANGED <<accepted, outcome, exhausted, exceeded>>

\* The count is checked first; then a terminal report that fails replaces the
\* answer, or panics.
Conclude ==
    /\ pc = "report"
    /\ \/ result' = IF exceeded THEN "CountExceeded"
                    ELSE IF ~exhausted THEN "StoppedByTaskFailurePolicy"
                    ELSE IF accepted < Count THEN "CountShortfall"
                    ELSE "Finished"
       \/ Reporting /\ result' = "Panic"
       \/ /\ Reporting /\ ~exceeded /\ (exhausted => accepted = Count)
          /\ result' = "ProgressReport"
    /\ pc' = "done"
    /\ UNCHANGED <<accepted, outcome, exhausted, exceeded>>

Step ==
    \/ Start \/ ReportFails \/ Ask
    \/ PullNone \/ PullExtra \/ PullAccept \/ RunTask \/ DropTask
    \/ Panics \/ Conclude

Terminated == pc = "done" /\ UNCHANGED vars

Next == Step \/ Terminated

Spec == Init /\ [][Next]_vars

-----------------------------------------------------------------------------
Contract == INSTANCE BatchContract WITH Window <- 1, pulling <- (pc = "pull")

(* The fallback keeps the promise of the parallel path with a window of one *)
(* item, so a caller can tell the strategies apart only by how far admission *)
(* runs ahead and by the threads its tasks run on.                          *)
ImplementsContract == Contract!Spec

(* Under a stop policy the fallback reports exactly the limit: the task     *)
(* after the decisive failure is never pulled.                              *)
StopsAtTheLimit ==
    /\ FailureLimit > 0 => Cardinality(Failures) <= FailureLimit
    /\ PolicyReached => pc \notin {"pull", "run"}
=============================================================================
