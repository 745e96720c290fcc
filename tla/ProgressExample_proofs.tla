----------------------- MODULE ProgressExample_proofs -----------------------
(***************************************************************************)
(* The example's assertions follow from the contract of a batch and from   *)
(* what its source, its tasks and its reporter do, for every number of     *)
(* tasks that has two fourth ones, every window and every schedule.        *)
(***************************************************************************)
EXTENDS ProgressExample, FiniteSetTheorems, TLAPS

Task == 0 .. Items - 1

\* Every fourth task.
Fourths == {i \in Task : i % 4 = 0}

(* There are as many as the division says.                                  *)
LEMMA FourthsCount == IsFiniteSet(Fourths) /\ Cardinality(Fourths) = Items \div 4
<1> DEFINE n == Items \div 4
           f == [k \in 1 .. n |-> 4 * (k - 1)]
<1>1. n \in Nat /\ Items = 4 * n
  BY ItemsAssumption
<1>2. \A k \in 1 .. n : 4 * (k - 1) \in 0 .. Items - 1 /\ (4 * (k - 1)) % 4 = 0
  BY <1>1
<1>3. \A i \in 0 .. Items - 1 : i % 4 = 0 => i \div 4 + 1 \in 1 .. n /\ 4 * (i \div 4 + 1 - 1) = i
  BY <1>1
<1> HIDE DEF n
<1>4. f \in [1 .. n -> Fourths]
  BY <1>2 DEF Fourths, Task
<1>5. \A k, l \in 1 .. n : f[k] = f[l] => k = l
  BY <1>1
<1>6. \A i \in Fourths : \E k \in 1 .. n : f[k] = i
  BY <1>3 DEF Fourths, Task
<1>7. f \in Bijection(1 .. n, Fourths)
  BY <1>4, <1>5, <1>6 DEF Bijection, Injection, IsInjective, Surjection
<1>8. ExistsBijection(1 .. n, Fourths)
  BY <1>7 DEF ExistsBijection
<1>9. IsFiniteSet(1 .. n) /\ Cardinality(1 .. n) = n
  BY <1>1, FS_Interval
<1>10. QED
  BY <1>8, <1>9, FS_Bijection DEF n

-----------------------------------------------------------------------------
(* The invariant.                                                           *)

\* Every call so far has reported one Started and, but for the one that is going
\* on, one terminal event.
CountersInv ==
    /\ main \in {"build", "call", "check", "ended"}
    /\ round \in 1 .. 3
    /\ main \in {"build", "call"} => terminal = round - 1
    /\ main = "check" => terminal = round
    /\ started = terminal + (IF main = "call" THEN 1 ELSE 0)

\* What has been recorded of the present call is what was programmed, and so are
\* its answers.
CallInv ==
    /\ accepted \in 0 .. Items
    /\ outcome \in [Task -> {"none", "succeeded", "failed"}]
    /\ ~exceeded
    /\ exhausted => accepted = Items
    /\ \A i \in Task : outcome[i] # "none" => (outcome[i] = "failed" <=> i % 4 = 0)
    /\ result \in {"none", "Finished", "StoppedByTaskFailurePolicy"}
    /\ result = "Finished" => \A i \in Task : outcome[i] # "none"
    /\ result = "StoppedByTaskFailurePolicy" => StopReached

IInv ==
    /\ CountersInv
    /\ main \in {"call", "check"} => CallInv
    /\ main = "check" => result # "none"

(* The limits of the three policies are those of the contract.              *)
LEMMA Limits ==
  ASSUME round \in 1 .. 3
  PROVE  Limit \in {0, 1, 2} /\ Range(Policies) = {0, 1, 2}
<1>1. Policies[1] = 0 /\ Policies[2] = 1 /\ Policies[3] = 2 /\ DOMAIN Policies = 1 .. 3
  BY DEF Policies
<1>2. Limit \in {0, 1, 2}
  BY <1>1 DEF Limit
<1>3. Range(Policies) = {0, 1, 2}
  BY <1>1 DEF Range
<1>4. QED
  BY <1>2, <1>3

(* A step of the call keeps what was recorded as programmed.                *)
LEMMA BatchStepInv ==
  ASSUME IInv, BatchStep
  PROVE  IInv'
<1>1. PICK limit \in Range(Policies) : limit = Limit /\ Batch(limit)!Next
  BY DEF BatchStep
<1>2. /\ main = "call" /\ main' = "call" /\ round' = round
      /\ started' = started /\ terminal' = terminal
      /\ CallInv /\ AsProgrammed
  BY DEF BatchStep, counters, IInv
<1>3. CountersInv'
  BY <1>2 DEF IInv, CountersInv
<1>4. result = "none"
  BY <1>1 DEF Batch!Next, Batch!Ask, Batch!Accept, Batch!Exhaust, Batch!Exceed, Batch!Decline,
     Batch!Complete, Batch!Return
<1>5. /\ ~exceeded'
      /\ exhausted' => accepted = Items
      /\ \A i \in Task : outcome'[i] # "none" => (outcome'[i] = "failed" <=> i % 4 = 0)
      /\ result' \notin {"Panic", "ProgressReport"}
  BY <1>2 DEF AsProgrammed, Task
<1>6. CASE Batch(limit)!Return
  <2>1. UNCHANGED <<accepted, exhausted, exceeded, outcome>>
    BY <1>6 DEF Batch!Return
  <2>2. PICK v \in Batch(limit)!Structured \cup {"Panic"} : Batch(limit)!Truthful(v) /\ result' = v
    BY <1>6 DEF Batch!Return
  <2>3. result' \in {"Finished", "StoppedByTaskFailurePolicy", "CountShortfall", "CountExceeded"}
    BY <1>5, <2>2 DEF Batch!Structured
  <2>4. result' # "CountShortfall" /\ result' # "CountExceeded"
    BY <1>2, <2>2 DEF Batch!Truthful, CallInv
  <2>5. ASSUME result' = "Finished" PROVE \A i \in Task : outcome'[i] # "none"
    <3>1. Batch(limit)!Unfinished = {} /\ accepted = Items
      BY <2>2, <2>5 DEF Batch!Truthful, Batch!Structured
    <3>2. QED
      BY <2>1, <3>1, ItemsAssumption DEF Batch!Unfinished, Batch!Task, Task
  <2>6. ASSUME result' = "StoppedByTaskFailurePolicy" PROVE StopReached'
    <3>1. Batch(limit)!PolicyReached
      BY <2>2, <2>6 DEF Batch!Truthful
    <3>2. Batch(limit)!Failures = Failed /\ Batch(limit)!Cardinality(Failed) = Cardinality(Failed)
      BY DEF Batch!Failures, Batch!Task, Failed, Batch!Cardinality, Cardinality
    <3>3. StopReached
      BY <1>1, <3>1, <3>2 DEF Batch!PolicyReached, StopReached
    <3>4. QED
      BY <1>2, <2>1, <3>3 DEF StopReached, Limit, Failed
  <2>7. QED
    BY <1>2, <1>3, <1>5, <2>1, <2>3, <2>4, <2>5, <2>6 DEF IInv, CallInv
<1>7. CASE ~Batch(limit)!Return
  <2>1. result' = "none"
    BY <1>1, <1>4, <1>7 DEF Batch!Next, Batch!Ask, Batch!Accept, Batch!Exhaust, Batch!Exceed,
       Batch!Decline, Batch!Complete
  <2>2. accepted' \in 0 .. Items /\ (accepted = Items => accepted' = accepted)
    BY <1>1, <1>2, <1>7, ItemsAssumption DEF Batch!Next, Batch!Ask, Batch!Accept, Batch!Exhaust,
       Batch!Exceed, Batch!Decline, Batch!Complete, CallInv
  <2>3. outcome' \in [Task -> {"none", "succeeded", "failed"}]
    <3>1. CASE \E i \in Batch(limit)!Task : Batch(limit)!Complete(i)
      BY <1>2, <3>1 DEF Batch!Complete, Batch!Recorded, CallInv, Batch!Task, Task
    <3>2. CASE outcome' = outcome
      BY <1>2, <3>2 DEF CallInv
    <3>3. QED
      BY <1>1, <1>7, <3>1, <3>2 DEF Batch!Next, Batch!Ask, Batch!Accept, Batch!Exhaust,
         Batch!Exceed, Batch!Decline
  <2>4. exhausted' => accepted' = Items
    BY <1>5, <2>2
  <2>5. QED
    BY <1>2, <1>3, <1>5, <2>1, <2>2, <2>3, <2>4 DEF IInv, CallInv
<1>8. QED
  BY <1>6, <1>7

(* The program's assertions on an answer hold: a batch that finished has    *)
(* run every fourth task, and one that was stopped has its failures.        *)
LEMMA AssertionsHold ==
  ASSUME IInv, main = "check"
  PROVE  Holds
<1>1. CallInv /\ result \in {"Finished", "StoppedByTaskFailurePolicy"} /\ Limit \in {0, 1, 2}
  BY Limits DEF IInv, CallInv, CountersInv
<1>2. CASE result = "Finished"
  <2>1. Failed = Fourths /\ Completed = Task
    BY <1>1, <1>2 DEF CallInv, Failed, Fourths, Completed, Task
  <2>2. Cardinality(Task) = Items
    BY FS_Interval, ItemsAssumption DEF Task
  <2>3. Cardinality(Failed) = Items \div 4 /\ Items \div 4 >= 2
    BY <2>1, FourthsCount, ItemsAssumption
  <2>4. Failed # {}
    BY <2>3, FS_EmptySet
  <2>5. Cardinality(Failed) >= Limit
    BY <1>1, <2>3, ItemsAssumption
  <2>6. Cardinality(Failed) = Items \div 4 /\ Cardinality(Completed) = Items
    BY <2>1, <2>2, FourthsCount
  <2>7. QED
    BY <1>2, <2>4, <2>5, <2>6, Zenon DEF Holds
<1>3. CASE result = "StoppedByTaskFailurePolicy"
  <2>1. Limit > 0 /\ Cardinality(Failed) >= Limit
    BY <1>1, <1>3 DEF CallInv, StopReached
  <2>2. Failed # {}
    BY <1>1, <2>1, FS_EmptySet
  <2>3. QED
    BY <1>1, <1>3, <2>1, <2>2 DEF Holds
<1>4. QED
  BY <1>1, <1>2, <1>3

(* The program starts by building an executor.                              *)
LEMMA InitInv == Init => IInv
BY DEF Init, IInv, CountersInv

(* Every step of the program keeps the invariant.                           *)
LEMMA StepInv == IInv /\ [Next]_vars => IInv'
<1> SUFFICES ASSUME IInv, [Next]_vars PROVE IInv'
  OBVIOUS
<1>1. CASE Call
  <2>1. CountersInv'
    BY <1>1 DEF Call, IInv, CountersInv
  <2>2. CallInv'
    <3>1. accepted' = 0 /\ ~exhausted' /\ ~exceeded' /\ result' = "none"
      BY <1>1 DEF Call
    <3>2. outcome' = [i \in Task |-> "none"]
      BY <1>1 DEF Call, Task
    <3>3. QED
      BY <3>1, <3>2, ItemsAssumption DEF CallInv
  <2>3. main' = "call"
    BY <1>1 DEF Call
  <2>4. QED
    BY <2>1, <2>2, <2>3 DEF IInv
<1>2. CASE BatchStep
  BY <1>2, BatchStepInv
<1>3. CASE Answer
  <2>1. CountersInv' /\ main' = "check" /\ result' # "none"
    BY <1>3 DEF Answer, IInv, CountersInv, call
  <2>2. CallInv'
    BY <1>3 DEF Answer, IInv, CallInv, call, StopReached, Limit, Failed
  <2>3. QED
    BY <2>1, <2>2 DEF IInv
<1>4. CASE Check
  <2>1. main = "check" /\ Holds
    BY <1>4, AssertionsHold DEF Check
  <2>2. Len(Policies) = 3
    BY DEF Policies
  <2>3. CASE round < 3
    BY <1>4, <2>1, <2>2, <2>3 DEF Check, IInv, CountersInv, counters
  <2>4. CASE round = 3
    BY <1>4, <2>1, <2>2, <2>4 DEF Check, IInv, CountersInv, counters
  <2>5. QED
    BY <2>3, <2>4 DEF IInv, CountersInv
<1>5. CASE ReportRunning
  <2>1. CountersInv' /\ main' = "call"
    BY <1>5 DEF ReportRunning, IInv, CountersInv
  <2>2. CallInv'
    BY <1>5 DEF ReportRunning, IInv, CallInv, call, StopReached, Limit, Failed
  <2>3. QED
    BY <2>1, <2>2 DEF IInv
<1>6. CASE UNCHANGED vars
  BY <1>6 DEF vars, counters, call, IInv, CountersInv, CallInv, StopReached, Limit, Failed
<1>7. QED
  BY <1>1, <1>2, <1>3, <1>4, <1>5, <1>6 DEF Next, Step, Exited

(* The invariant holds whatever the schedule.                               *)
LEMMA Invariance == Spec => []IInv
BY InitInv, StepInv, PTL DEF Spec

(* No assertion of the example fails, for every number of tasks with two    *)
(* fourth ones, every window and every schedule.                            *)
THEOREM ExampleNeverPanics == Spec => []ExamplePasses
<1>1. IInv => ExamplePasses
  BY DEF IInv, CountersInv, ExamplePasses
<1>2. QED
  BY <1>1, Invariance, PTL
=============================================================================
