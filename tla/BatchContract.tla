---------------------------- MODULE BatchContract ----------------------------
(***************************************************************************)
(* What one call of BatchExecutor::execute_with_count promises, whichever  *)
(* strategy runs it: the Rayon worker pool (RayonBatch) or the sequential  *)
(* fallback on the calling thread (SequentialBatch).                       *)
(*                                                                         *)
(* Tasks are identified by the index the source gives them when it accepts *)
(* them.  The promise:                                                     *)
(*   - a task runs only after it was accepted, at most once, and never     *)
(*     after the call has returned or unwound;                             *)
(*   - at most Window items are pulled or accepted ahead of the completed  *)
(*     ones, and the source is not asked again once the failure policy is  *)
(*     reached;                                                            *)
(*   - every structured answer comes after each accepted task has          *)
(*     completed, and tells the truth about the tasks and the source: a    *)
(*     call that finished has seen the source end with every declared task *)
(*     run, and a call that was stopped has not seen it end.               *)
(***************************************************************************)
EXTENDS Integers, FiniteSets

CONSTANTS
    Count,          \* declared task count
    FailureLimit,   \* failures that stop admission; 0 is TaskFailurePolicy::Continue
    Window          \* items the strategy may take from the source ahead of completion

ASSUME CountAssumption == Count \in Nat
ASSUME FailureLimitAssumption == FailureLimit \in Nat
ASSUME WindowAssumption == Window \in Nat \ {0}

VARIABLES
    pulling,        \* the caller is inside the iterator's next()
    accepted,       \* number of accepted tasks, the index of the next one
    exhausted,      \* the iterator answered None
    exceeded,       \* the iterator gave an item beyond the declared count
    outcome,        \* per task: what was recorded for it
    result          \* what the call returned; "none" while it runs

vars == <<pulling, accepted, exhausted, exceeded, outcome, result>>

Task == 0 .. Count - 1

Recorded == {"succeeded", "failed"}    \* "failed" is an Err or a captured panic

Structured == {"Finished", "StoppedByTaskFailurePolicy",
               "CountShortfall", "CountExceeded", "ProgressReport"}

Failures == {i \in Task : outcome[i] = "failed"}

Unfinished == {i \in Task : i < accepted /\ outcome[i] = "none"}

PolicyReached == FailureLimit > 0 /\ Cardinality(Failures) >= FailureLimit

\* Items taken from the iterator that are not completed, the one being pulled included.
InFlight == Cardinality(Unfinished) + (IF pulling THEN 1 ELSE 0)

(* The caller is in the iterator or not, no task is accepted beyond the     *)
(* declared count, and the answer is a structured one or a panic.           *)
TypeOK ==
    /\ pulling \in BOOLEAN
    /\ accepted \in 0 .. Count
    /\ exhausted \in BOOLEAN
    /\ exceeded \in BOOLEAN
    /\ outcome \in [Task -> Recorded \cup {"none"}]
    /\ result \in Structured \cup {"none", "Panic"}

Init ==
    /\ pulling = FALSE
    /\ accepted = 0
    /\ exhausted = FALSE
    /\ exceeded = FALSE
    /\ outcome = [i \in Task |-> "none"]
    /\ result = "none"

\* Mutant: the iterator is asked whatever the policy says.
AskAlways ==
    /\ result = "none"
    /\ ~pulling /\ ~exhausted /\ ~exceeded
    /\ Cardinality(Unfinished) < Window
    /\ pulling' = TRUE
    /\ UNCHANGED <<accepted, exhausted, exceeded, outcome, result>>

\* The caller asks the iterator for an item, unless the policy is reached or
\* the iterator has ended or gone on for too long.
Ask ==
    /\ result = "none"
    /\ ~pulling /\ ~exhausted /\ ~exceeded
    /\ ~PolicyReached
    /\ Cardinality(Unfinished) < Window
    /\ pulling' = TRUE
    /\ UNCHANGED <<accepted, exhausted, exceeded, outcome, result>>

\* The item becomes the next task.
Accept ==
    /\ result = "none"
    /\ pulling
    /\ accepted < Count
    /\ pulling' = FALSE
    /\ accepted' = accepted + 1
    /\ UNCHANGED <<exhausted, exceeded, outcome, result>>

\* The iterator ends.
Exhaust ==
    /\ result = "none"
    /\ pulling
    /\ pulling' = FALSE
    /\ exhausted' = TRUE
    /\ UNCHANGED <<accepted, exceeded, outcome, result>>

\* The iterator gives more than the declared count.
Exceed ==
    /\ result = "none"
    /\ pulling
    /\ accepted = Count
    /\ pulling' = FALSE
    /\ exceeded' = TRUE
    /\ UNCHANGED <<accepted, exhausted, outcome, result>>

\* The iterator panics, or gives an item that is not accepted.
Decline ==
    /\ result = "none"
    /\ pulling
    /\ pulling' = FALSE
    /\ UNCHANGED <<accepted, exhausted, exceeded, outcome, result>>

\* An accepted task has run; its outcome is recorded.
Complete(i) ==
    /\ result = "none"
    /\ i \in Unfinished
    /\ \E o \in Recorded : outcome' = [outcome EXCEPT ![i] = o]
    /\ UNCHANGED <<pulling, accepted, exhausted, exceeded, result>>

\* Mutant: an answer does not wait for the tasks.
TruthfulEarly(v) ==
    /\ v = "Finished" => exhausted /\ accepted = Count
    /\ v = "CountExceeded" => exceeded /\ accepted = Count
    /\ v = "CountShortfall" => exhausted /\ accepted < Count
    /\ v = "StoppedByTaskFailurePolicy" => PolicyReached /\ ~exhausted /\ ~exceeded

\* Which answers are true of the present state.
Truthful(v) ==
    /\ v \in Structured => Unfinished = {}
    /\ v = "Finished" => exhausted /\ accepted = Count
    /\ v = "CountExceeded" => exceeded /\ accepted = Count
    /\ v = "CountShortfall" => exhausted /\ accepted < Count
    /\ v = "StoppedByTaskFailurePolicy" => PolicyReached /\ ~exhausted /\ ~exceeded

\* Only a panic can leave the call from inside the iterator.
Return ==
    /\ result = "none"
    /\ \E v \in Structured \cup {"Panic"} :
          /\ Truthful(v)
          /\ pulling => v = "Panic"
          /\ result' = v
    /\ pulling' = FALSE
    /\ UNCHANGED <<accepted, exhausted, exceeded, outcome>>

Next ==
    \/ Ask \/ Accept \/ Exhaust \/ Exceed \/ Decline
    \/ (\E i \in Task : Complete(i)) \/ Return

Spec == Init /\ [][Next]_vars

-----------------------------------------------------------------------------
(* The number of items a strategy can have taken from the iterator ahead of *)
(* the completed ones is bounded by its window: memory use does not depend  *)
(* on the length of the source.                                             *)
AdmissionWindow == InFlight <= Window

(* A failure policy stops admission, not the tasks admitted before it was   *)
(* reached: the failures finally reported exceed the limit by less than the *)
(* window.                                                                  *)
FailureOvershoot ==
    FailureLimit > 0 => Cardinality(Failures) <= FailureLimit + Window - 1
=============================================================================
