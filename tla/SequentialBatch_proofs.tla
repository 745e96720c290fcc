----------------------- MODULE SequentialBatch_proofs -----------------------
(***************************************************************************)
(* Proofs about SequentialBatch, for every declared count, failure limit   *)
(* and reporting mode: the fallback keeps the contract with a window of    *)
(* one item, and stops exactly at the limit of its policy.                 *)
(***************************************************************************)
EXTENDS SequentialBatch, FiniteSetTheorems, TLAPS

\* Every accepted task has run, except the one being run.
Completed == IF pc = "run" THEN accepted - 1 ELSE accepted

\* Where the calling thread is decides what has been recorded and what is known
\* of the source.
SeqInv ==
    /\ TypeOK
    /\ pc \in {"run", "drop"} => accepted > 0
    /\ \A i \in Task : outcome[i] # "none" <=> i < Completed
    /\ pc \in {"pull", "run"} => ~PolicyReached
    /\ FailureLimit > 0 => Cardinality(Failures) <= FailureLimit
    /\ exhausted \/ exceeded => pc \in {"report", "done"}
    /\ ~(exhausted /\ exceeded)
    /\ exceeded => accepted = Count
    /\ pc = "report" => exhausted \/ exceeded \/ PolicyReached
    /\ pc = "done" <=> result # "none"

(* Failures are finitely many. *)
LEMMA FailuresFinite ==
  ASSUME TRUE
  PROVE  IsFiniteSet(Failures) /\ Cardinality(Failures) \in Nat
<1>1. IsFiniteSet(Task)
  BY FS_Interval, CountAssumption DEF Task
<1>2. Failures \in SUBSET Task
  BY DEF Failures
<1>3. QED
  BY <1>1, <1>2, FS_Subset, FS_CardinalityType

(* Below the limit, one more task brings the failures at most to the limit. *)
LEMMA OneMoreTask ==
  ASSUME SeqInv, RunTask
  PROVE  /\ outcome' \in [Task -> Recorded \cup {"none"}]
         /\ \A i \in Task : outcome'[i] # "none" <=> i < accepted
         /\ FailureLimit > 0 => Cardinality(Failures') <= FailureLimit
<1> DEFINE i == accepted - 1
<1>1. PICK o \in Recorded : outcome' = [outcome EXCEPT ![i] = o]
  BY DEF RunTask
<1>2. outcome \in [Task -> Recorded \cup {"none"}] /\ accepted \in 1 .. Count
  BY CountAssumption DEF SeqInv, TypeOK, RunTask
<1>3. i \in Task
  BY <1>2, CountAssumption DEF Task
<1>4. outcome' \in [Task -> Recorded \cup {"none"}]
  BY <1>1, <1>2, <1>3
<1>5. ASSUME NEW j \in Task PROVE outcome'[j] # "none" <=> j < accepted
  <2>1. CASE j = i
    <3>1. outcome'[j] = o /\ o # "none"
      BY <1>1, <1>2, <2>1 DEF Recorded
    <3>2. j < accepted
      BY <1>2, <2>1
    <3>3. QED
      BY <3>1, <3>2
  <2>2. CASE j # i
    <3>1. outcome'[j] = outcome[j]
      BY <1>1, <1>2, <2>2
    <3>2. outcome[j] # "none" <=> j < i
      BY DEF SeqInv, Completed, RunTask
    <3>3. j < accepted <=> j < i
      BY <1>2, <2>2, CountAssumption DEF Task
    <3>4. QED
      BY <3>1, <3>2, <3>3
  <2>3. QED
    BY <2>1, <2>2
<1>6. ASSUME FailureLimit > 0 PROVE Cardinality(Failures') <= FailureLimit
  <2>1. Cardinality(Failures) < FailureLimit
    BY <1>6, FailuresFinite, FailureLimitAssumption DEF SeqInv, PolicyReached, RunTask
  <2>2. Failures' \subseteq Failures \cup {i}
    BY <1>1, <1>2 DEF Failures
  <2>3. IsFiniteSet(Failures \cup {i}) /\ Cardinality(Failures \cup {i}) <= Cardinality(Failures) + 1
    BY FailuresFinite, FS_AddElement
  <2>4. Cardinality(Failures') <= Cardinality(Failures \cup {i})
    BY <2>2, <2>3, FS_Subset
  <2>5. Cardinality(Failures \cup {i}) \in Nat /\ Cardinality(Failures') \in Nat
    BY <2>2, <2>3, FS_Subset, FS_CardinalityType
  <2>6. QED
    BY <2>1, <2>3, <2>4, <2>5, FailuresFinite, FailureLimitAssumption
<1>7. QED
  BY <1>4, <1>5, <1>6

(* The invariant holds initially. *)
LEMMA InitInv == Init => SeqInv
<1> SUFFICES ASSUME Init PROVE SeqInv
  OBVIOUS
<1>1. Failures = {}
  BY DEF Init, Failures
<1>2. Cardinality(Failures) = 0
  BY <1>1, FS_EmptySet
<1>3. TypeOK
  <2>1. outcome \in [Task -> Recorded \cup {"none"}]
    BY DEF Init
  <2>2. accepted \in 0 .. Count
    BY CountAssumption DEF Init
  <2>3. QED
    BY <2>1, <2>2 DEF Init, TypeOK
<1>4. \A i \in Task : ~(i < Completed)
  BY CountAssumption DEF Init, Task, Completed
<1>5. QED
  BY <1>2, <1>3, <1>4, FailureLimitAssumption DEF Init, SeqInv

(* A step that records nothing keeps the failures. *)
LEMMA SameFailures ==
  ASSUME UNCHANGED outcome
  PROVE  Failures' = Failures /\ (PolicyReached' <=> PolicyReached)
BY DEF Failures, PolicyReached

(* Every step keeps the invariant. *)
LEMMA StepInv == SeqInv /\ [Next]_vars => SeqInv'
<1> SUFFICES ASSUME SeqInv, [Next]_vars PROVE SeqInv'
  OBVIOUS
<1> USE CountAssumption, FailureLimitAssumption
<1>1. CASE Start
  BY <1>1, SameFailures DEF Start, SeqInv, TypeOK, Completed
<1>2. CASE ReportFails
  BY <1>2, SameFailures DEF ReportFails, SeqInv, TypeOK, Completed
<1>3. CASE Ask
  BY <1>3, SameFailures DEF Ask, SeqInv, TypeOK, Completed
<1>4. CASE PullNone
  BY <1>4, SameFailures DEF PullNone, SeqInv, TypeOK, Completed
<1>5. CASE PullExtra
  BY <1>5, SameFailures DEF PullExtra, SeqInv, TypeOK, Completed
<1>6. CASE PullAccept
  <2>1. accepted' \in 0 .. Count /\ accepted' > 0 /\ Completed' = Completed
    BY <1>6 DEF PullAccept, SeqInv, TypeOK, Completed
  <2>2. ~exceeded /\ ~exhausted /\ UNCHANGED <<outcome, exhausted, exceeded, result>>
    BY <1>6 DEF PullAccept, SeqInv
  <2>3. QED
    BY <1>6, <2>1, <2>2, SameFailures DEF PullAccept, SeqInv, TypeOK
<1>7. CASE RunTask
  <2>1. pc' = "drop" /\ accepted > 0 /\ UNCHANGED <<accepted, exhausted, exceeded, result>>
    BY <1>7 DEF RunTask, SeqInv
  <2>2. Completed' = accepted
    BY <2>1 DEF Completed
  <2>3. ~exhausted' /\ ~exceeded' /\ result' = "none"
    BY <1>7 DEF RunTask, SeqInv
  <2>4. TypeOK'
    BY <1>7, <2>1, OneMoreTask DEF SeqInv, TypeOK
  <2>5. /\ \A i \in Task : outcome'[i] # "none" <=> i < Completed'
        /\ FailureLimit > 0 => Cardinality(Failures') <= FailureLimit
    BY <1>7, <2>2, OneMoreTask
  <2>6. QED
    BY <2>1, <2>3, <2>4, <2>5 DEF SeqInv
<1>8. CASE DropTask
  BY <1>8, SameFailures DEF DropTask, SeqInv, TypeOK, Completed
<1>9. CASE Panics
  BY <1>9, SameFailures DEF Panics, SeqInv, TypeOK, Completed
<1>10. CASE Conclude
  <2>1. result' \in {"Panic", "Finished", "StoppedByTaskFailurePolicy",
                     "CountShortfall", "CountExceeded", "ProgressReport"}
    BY <1>10 DEF Conclude
  <2>2. pc = "report" /\ pc' = "done" /\ UNCHANGED <<accepted, outcome, exhausted, exceeded>>
    BY <1>10 DEF Conclude
  <2>3. QED
    BY <2>1, <2>2, SameFailures DEF SeqInv, TypeOK, Completed
<1>11. CASE Terminated \/ UNCHANGED vars
  BY <1>11, SameFailures DEF Terminated, vars, SeqInv, TypeOK, Completed
<1>12. QED
  BY <1>1, <1>2, <1>3, <1>4, <1>5, <1>6, <1>7, <1>8, <1>9, <1>10, <1>11 DEF Next, Step

LEMMA SeqInvariance == Spec => []SeqInv
BY InitInv, StepInv, PTL DEF Spec

(* The fallback accepts no task beyond the declared count, and answers      *)
(* nothing but the answers both strategies share.                           *)
THEOREM FallbackTypeCorrect == Spec => []TypeOK
<1>1. SeqInv => TypeOK
  BY DEF SeqInv
<1>2. QED
  BY <1>1, SeqInvariance, PTL

(* Under a stop policy the fallback reports exactly the limit: the task     *)
(* after the decisive failure is never pulled.                              *)
THEOREM StopsExactly == Spec => []StopsAtTheLimit
<1>1. SeqInv => StopsAtTheLimit
  BY DEF SeqInv, StopsAtTheLimit
<1>2. QED
  BY <1>1, SeqInvariance, PTL

-----------------------------------------------------------------------------

(* The contract counts sets as the fallback does. *)
LEMMA SameCardinality ==
  ASSUME NEW S
  PROVE  Contract!Cardinality(S) = Cardinality(S)
BY DEF Contract!Cardinality, Cardinality

(* The contract's words mean the same here. *)
LEMMA SameWords ==
  /\ Contract!Task = Task
  /\ Contract!Recorded = Recorded
  /\ Contract!PolicyReached <=> PolicyReached
<1>1. Contract!Task = Task
  BY DEF Contract!Task, Task
<1>2. Contract!Failures = Failures
  BY <1>1 DEF Contract!Failures, Failures
<1>3. Contract!PolicyReached <=> PolicyReached
  BY <1>2, SameCardinality DEF Contract!PolicyReached, PolicyReached
<1>4. QED
  BY <1>1, <1>3 DEF Contract!Recorded, Recorded

(* Only the task being run is unfinished. *)
LEMMA UnfinishedIsRunning ==
  ASSUME SeqInv
  PROVE  Contract!Unfinished = IF pc = "run" THEN {accepted - 1} ELSE {}
<1>1. accepted \in 0 .. Count
  BY DEF SeqInv, TypeOK
<1>2. \A i \in Task : outcome[i] = "none" <=> ~(i < Completed)
  BY DEF SeqInv
<1>3. CASE pc = "run"
  <2>1. accepted - 1 \in Task
    BY <1>1, <1>3, CountAssumption DEF SeqInv, Task
  <2>2. \A i \in Task : (i < accepted /\ ~(i < accepted - 1)) <=> i = accepted - 1
    BY <1>1, CountAssumption DEF Task
  <2>3. QED
    BY <1>2, <1>3, <2>1, <2>2, SameWords DEF Contract!Unfinished, Completed
<1>4. CASE pc # "run"
  BY <1>2, <1>4, SameWords DEF Contract!Unfinished, Completed
<1>5. QED
  BY <1>3, <1>4

(* A step that changes nothing the contract sees is a stutter of it. *)
LEMMA Stutters ==
  ASSUME UNCHANGED <<accepted, exhausted, exceeded, outcome, result>>, (pc = "pull") <=> (pc' = "pull")
  PROVE  UNCHANGED Contract!vars
BY DEF Contract!vars

(* Every answer of the fallback is true of its tasks and of its source. *)
LEMMA AnswersAreTrue ==
  ASSUME SeqInv, ReportFails \/ Panics \/ Conclude
  PROVE  Contract!Return
<1> DEFINE v == result'
<1>1. /\ result = "none" /\ (pc' = "pull") = FALSE
      /\ UNCHANGED <<accepted, exhausted, exceeded, outcome>>
  BY DEF ReportFails, Panics, Conclude, SeqInv
<1>2. v \in Contract!Structured \cup {"Panic"}
  BY DEF ReportFails, Panics, Conclude, Contract!Structured
<1>3. pc = "pull" => v = "Panic"
  BY DEF ReportFails, Panics, Conclude
<1>4. Contract!Truthful(v)
  <2>1. CASE v = "Panic"
    BY <2>1 DEF Contract!Truthful, Contract!Structured
  <2>2. CASE ReportFails
    <3>1. v \in {"ProgressReport", "Panic"} /\ pc # "run"
      BY <2>2 DEF ReportFails
    <3>2. Contract!Unfinished = {}
      BY <3>1, UnfinishedIsRunning
    <3>3. QED
      BY <3>1, <3>2 DEF Contract!Truthful
  <2>3. CASE Conclude
    <3>1. Contract!Unfinished = {}
      BY <2>3, UnfinishedIsRunning DEF Conclude
    <3>2. /\ exhausted \/ exceeded \/ PolicyReached
          /\ exceeded => accepted = Count
          /\ accepted \in 0 .. Count
      BY <2>3 DEF Conclude, SeqInv, TypeOK
    <3>3. /\ v = "Finished" => exhausted /\ accepted = Count
          /\ v = "CountExceeded" => exceeded
          /\ v = "CountShortfall" => exhausted /\ accepted < Count
          /\ v = "StoppedByTaskFailurePolicy" => ~exhausted /\ ~exceeded
      BY <2>3, <3>2, CountAssumption DEF Conclude
    <3>4. QED
      BY <3>1, <3>2, <3>3, SameWords DEF Contract!Truthful
  <2>4. QED
    BY <2>1, <2>2, <2>3 DEF Panics
<1>5. QED
  BY <1>1, <1>2, <1>3, <1>4 DEF Contract!Return

(* Every step of the fallback is a step of the contract or a stutter. *)
LEMMA StepRefines == SeqInv /\ [Next]_vars => [Contract!Next]_(Contract!vars)
<1> SUFFICES ASSUME SeqInv, [Next]_vars PROVE [Contract!Next]_(Contract!vars)
  OBVIOUS
<1>1. CASE Start \/ DropTask \/ Terminated \/ UNCHANGED vars
  BY <1>1, Stutters DEF Start, DropTask, Terminated, vars
<1>2. CASE Ask
  <2>1. CASE PolicyReached
    BY <1>2, <2>1, Stutters DEF Ask
  <2>2. CASE ~PolicyReached
    <3>1. /\ pc = "ask" /\ pc' = "pull" /\ result = "none" /\ ~exhausted /\ ~exceeded
          /\ UNCHANGED <<accepted, exhausted, exceeded, outcome, result>>
      BY <1>2, <2>2 DEF Ask, SeqInv
    <3>2. Contract!Cardinality(Contract!Unfinished) < 1
      BY <3>1, UnfinishedIsRunning, SameCardinality, FS_EmptySet
    <3>3. ~(pc = "pull") /\ (pc' = "pull") = TRUE
      BY <3>1
    <3>4. Contract!Ask
      BY <2>2, <3>1, <3>2, <3>3, SameWords DEF Contract!Ask
    <3>5. QED
      BY <3>4 DEF Contract!Next
  <2>3. QED
    BY <2>1, <2>2
<1>3. CASE PullNone \/ PullExtra \/ PullAccept
  <2>1. pc = "pull" /\ (pc' = "pull") = FALSE /\ result = "none"
    BY <1>3 DEF PullNone, PullExtra, PullAccept, SeqInv
  <2>2. Contract!Exhaust \/ Contract!Exceed \/ Contract!Accept
    BY <1>3, <2>1 DEF PullNone, PullExtra, PullAccept, Contract!Exhaust, Contract!Exceed,
                      Contract!Accept
  <2>3. QED
    BY <2>2 DEF Contract!Next
<1>4. CASE RunTask
  <2>1. accepted - 1 \in Contract!Unfinished
    BY <1>4, UnfinishedIsRunning DEF RunTask
  <2>2. result = "none" /\ (pc = "pull") = FALSE /\ (pc' = "pull") = FALSE
    BY <1>4 DEF RunTask, SeqInv
  <2>3. Contract!Complete(accepted - 1)
    BY <1>4, <2>1, <2>2, SameWords DEF RunTask, Contract!Complete
  <2>4. accepted - 1 \in Contract!Task
    BY <2>1 DEF Contract!Unfinished
  <2>5. QED
    BY <2>3, <2>4 DEF Contract!Next
<1>5. CASE ReportFails \/ Panics \/ Conclude
  BY <1>5, AnswersAreTrue DEF Contract!Next
<1>6. QED
  BY <1>1, <1>2, <1>3, <1>4, <1>5 DEF Next, Step

(* The fallback keeps the promise of the parallel path with a window of one *)
(* item, for every declared count, failure policy and reporting mode.       *)
THEOREM FallbackRefinement == Spec => ImplementsContract
<1>1. Init => Contract!Init
  BY DEF Init, Contract!Init, Contract!Task, Task
<1>2. QED
  BY <1>1, StepRefines, SeqInvariance, PTL DEF Spec, ImplementsContract, Contract!Spec
=============================================================================
