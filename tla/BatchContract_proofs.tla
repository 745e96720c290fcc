------------------------ MODULE BatchContract_proofs ------------------------
(***************************************************************************)
(* The two quantitative consequences of the contract, for every task       *)
(* count, failure limit and window.  The bound on the failures is not      *)
(* inductive: what holds in every state is a bound on the failures plus    *)
(* the items that can still become failures.                               *)
(***************************************************************************)
EXTENDS BatchContract, FiniteSetTheorems, TLAPS

(* Once the policy is reached nothing is added to what is in flight. *)
Overshoot ==
    PolicyReached => Cardinality(Failures) + InFlight <= FailureLimit + Window - 1

IInv == TypeOK /\ AdmissionWindow /\ Overshoot

(* Sets of tasks are finite. *)
LEMMA TaskSetsFinite ==
  ASSUME NEW S \in SUBSET Task
  PROVE  IsFiniteSet(S) /\ Cardinality(S) \in Nat
<1>1. IsFiniteSet(Task)
  BY FS_Interval, CountAssumption DEF Task
<1>2. QED
  BY <1>1, FS_Subset, FS_CardinalityType

(* The two counts of the contract are numbers. *)
LEMMA CountsAreNumbers ==
  /\ IsFiniteSet(Failures) /\ Cardinality(Failures) \in Nat
  /\ IsFiniteSet(Unfinished) /\ Cardinality(Unfinished) \in Nat
<1>1. Failures \in SUBSET Task /\ Unfinished \in SUBSET Task
  BY DEF Failures, Unfinished
<1>2. QED
  BY <1>1, TaskSetsFinite

(* Accepting an item adds at most one unfinished task. *)
LEMMA AcceptCounts ==
  ASSUME TypeOK, Accept
  PROVE  /\ Cardinality(Failures') = Cardinality(Failures)
         /\ Cardinality(Unfinished') \in Nat
         /\ Cardinality(Unfinished') <= Cardinality(Unfinished) + 1
<1>1. Failures' = Failures
  BY DEF Failures, Accept
<1>2. Unfinished' \subseteq Unfinished \cup {accepted}
  BY CountAssumption DEF Unfinished, Accept, TypeOK, Task
<1>3. /\ IsFiniteSet(Unfinished \cup {accepted})
      /\ Cardinality(Unfinished \cup {accepted}) \in Nat
      /\ Cardinality(Unfinished \cup {accepted}) <= Cardinality(Unfinished) + 1
  <2>1. IsFiniteSet(Unfinished) /\ Cardinality(Unfinished) \in Nat
    BY CountsAreNumbers
  <2>2. QED
    BY <2>1, FS_AddElement, FS_CardinalityType
<1>4. /\ Cardinality(Unfinished') \in Nat
      /\ Cardinality(Unfinished') <= Cardinality(Unfinished \cup {accepted})
  BY <1>2, <1>3, FS_Subset, FS_CardinalityType
<1>5. QED
  BY <1>1, <1>3, <1>4, CountsAreNumbers

(* A completion turns one unfinished task into at most one failure. *)
LEMMA CompleteCounts ==
  ASSUME TypeOK, NEW i \in Task, Complete(i)
  PROVE  /\ Cardinality(Unfinished') = Cardinality(Unfinished) - 1
         /\ \/ Cardinality(Failures') = Cardinality(Failures)
            \/ Cardinality(Failures') = Cardinality(Failures) + 1
<1>1. i \in Unfinished /\ outcome[i] = "none"
  BY DEF Complete, Unfinished
<1>2. PICK o \in Recorded : outcome' = [outcome EXCEPT ![i] = o]
  BY DEF Complete
<1>3. Unfinished' = Unfinished \ {i}
  BY <1>1, <1>2 DEF Unfinished, Complete, TypeOK, Recorded
<1>4. Cardinality(Unfinished') = Cardinality(Unfinished) - 1
  BY <1>1, <1>3, CountsAreNumbers, FS_RemoveElement
<1>5. CASE o = "failed"
  <2>1. Failures' = Failures \cup {i} /\ i \notin Failures
    BY <1>1, <1>2, <1>5 DEF Failures, TypeOK
  <2>2. QED
    BY <1>4, <2>1, CountsAreNumbers, FS_AddElement
<1>6. CASE o = "succeeded"
  <2>1. Failures' = Failures
    BY <1>1, <1>2, <1>6 DEF Failures, TypeOK
  <2>2. QED
    BY <1>4, <2>1
<1>7. QED
  BY <1>5, <1>6 DEF Recorded

(* The call starts with nothing in flight. *)
LEMMA InitInv == Init => IInv
<1> SUFFICES ASSUME Init PROVE IInv
  OBVIOUS
<1>1. TypeOK
  <2>1. accepted \in 0 .. Count
    BY CountAssumption DEF Init
  <2>2. outcome \in [Task -> Recorded \cup {"none"}]
    BY DEF Init
  <2>3. QED
    BY <2>1, <2>2 DEF Init, TypeOK
<1>2. Failures = {} /\ Unfinished = {}
  <2>1. \A i \in Task : outcome[i] = "none" /\ ~(i < accepted)
    BY DEF Init, Task
  <2>2. QED
    BY <2>1 DEF Failures, Unfinished
<1>3. Cardinality(Failures) = 0 /\ InFlight = 0
  BY <1>2, FS_EmptySet DEF Init, InFlight
<1>4. QED
  BY <1>1, <1>3, WindowAssumption, FailureLimitAssumption
     DEF IInv, AdmissionWindow, Overshoot, PolicyReached

(* No step exceeds the window, or adds to what can still fail. *)
LEMMA StepInv == IInv /\ [Next]_vars => IInv'
<1> SUFFICES ASSUME IInv, [Next]_vars PROVE IInv'
  OBVIOUS
<1> USE WindowAssumption, FailureLimitAssumption DEF IInv
<1> DEFINE F == Cardinality(Failures)
           U == Cardinality(Unfinished)
<1>0. F \in Nat /\ U \in Nat /\ F' \in Nat /\ U' \in Nat
  <2>1. Failures' \in SUBSET Task /\ Unfinished' \in SUBSET Task
    BY DEF Failures, Unfinished
  <2>2. QED
    BY <2>1, CountsAreNumbers, TaskSetsFinite
<1>1. CASE Ask
  <2>1. TypeOK'
    <3>1. pulling' = TRUE /\ UNCHANGED <<accepted, exhausted, exceeded, outcome, result>>
      BY <1>1 DEF Ask
    <3>2. QED
      BY <3>1 DEF TypeOK
  <2>2. F' = F /\ U' = U
    BY <1>1 DEF Ask, Failures, Unfinished
  <2>3. InFlight' = U + 1 /\ U < Window
    BY <1>1, <2>2 DEF Ask, InFlight
  <2>4. ~PolicyReached'
    BY <1>1, <2>2 DEF Ask, PolicyReached
  <2>5. QED
    BY <1>0, <2>1, <2>3, <2>4 DEF AdmissionWindow, Overshoot
<1>2. CASE Accept
  <2>1. TypeOK'
    <3>1. accepted' \in 0 .. Count
      BY <1>2, CountAssumption DEF Accept, TypeOK
    <3>2. pulling' = FALSE /\ UNCHANGED <<exhausted, exceeded, outcome, result>>
      BY <1>2 DEF Accept
    <3>3. QED
      BY <3>1, <3>2 DEF TypeOK
  <2>2. F' = F /\ U' <= U + 1
    BY <1>2, AcceptCounts
  <2>3. InFlight = U + 1 /\ InFlight' = U'
    BY <1>2, <1>0 DEF Accept, InFlight
  <2>4. PolicyReached' <=> PolicyReached
    BY <2>2 DEF PolicyReached
  <2>5. QED
    BY <1>0, <2>1, <2>2, <2>3, <2>4 DEF AdmissionWindow, Overshoot
<1>3. CASE Exhaust \/ Exceed \/ Decline \/ Return \/ UNCHANGED vars
  <2>1. TypeOK'
    BY <1>3 DEF Exhaust, Exceed, Decline, Return, vars, TypeOK
  <2>2. F' = F /\ U' = U
    BY <1>3 DEF Exhaust, Exceed, Decline, Return, vars, Failures, Unfinished
  <2>3. InFlight' <= InFlight /\ InFlight \in Nat /\ InFlight' \in Nat
    BY <1>0, <1>3, <2>2 DEF Exhaust, Exceed, Decline, Return, vars, InFlight, TypeOK
  <2>4. PolicyReached' <=> PolicyReached
    BY <2>2 DEF PolicyReached
  <2>5. QED
    BY <1>0, <2>1, <2>2, <2>3, <2>4 DEF AdmissionWindow, Overshoot
<1>4. ASSUME NEW i \in Task, Complete(i) PROVE IInv'
  <2>1. TypeOK'
    BY <1>4 DEF Complete, TypeOK, Recorded
  <2>2. U' = U - 1 /\ (F' = F \/ F' = F + 1)
    BY <1>4, CompleteCounts
  <2>3. InFlight' = InFlight - 1 /\ InFlight \in Nat
    BY <1>0, <1>4, <2>2 DEF Complete, InFlight, TypeOK
  <2>4. QED
    BY <1>0, <2>1, <2>2, <2>3 DEF AdmissionWindow, Overshoot, PolicyReached
<1>5. QED
  BY <1>1, <1>2, <1>3, <1>4 DEF Next

(* The invariant of the contract holds in every behaviour it allows. *)
THEOREM Invariance == Spec => []IInv
<1>1. QED
  BY InitInv, StepInv, PTL DEF Spec

(* A strategy that keeps the contract holds at most a window of items, for *)
(* every length of the source.                                             *)
THEOREM WindowBound == Spec => []AdmissionWindow
<1>1. IInv => AdmissionWindow
  BY DEF IInv
<1>2. QED
  BY <1>1, Invariance, PTL

(* A strategy that keeps the contract reports fewer than a window of       *)
(* failures beyond the limit.                                              *)
THEOREM OvershootBound == Spec => []FailureOvershoot
<1>1. IInv => FailureOvershoot
  <2> SUFFICES ASSUME IInv PROVE FailureOvershoot
    OBVIOUS
  <2>1. Cardinality(Failures) \in Nat /\ InFlight \in Nat
    BY CountsAreNumbers DEF InFlight
  <2>2. QED
    BY <2>1, WindowAssumption, FailureLimitAssumption
       DEF IInv, Overshoot, PolicyReached, FailureOvershoot
<1>2. QED
  BY <1>1, Invariance, PTL
=============================================================================
