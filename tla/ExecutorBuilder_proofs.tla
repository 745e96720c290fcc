----------------------- MODULE ExecutorBuilder_proofs -----------------------
(***************************************************************************)
(* Proofs about ExecutorBuilder, for every machine, every cap of Rayon's   *)
(* and every setting: what is built can run its calls, and what is         *)
(* rejected is not built.                                                  *)
(***************************************************************************)
EXTENDS ExecutorBuilder, TLAPS

(* A valid builder asks for at least one thread and gets at most as many.   *)
LEMMA GrantedBounds ==
  ASSUME NEW n \in Nat \ {0}
  PROVE  Granted(n) \in 1 .. n
BY CoresAssumption DEF Granted

LEMMA SettingsAreNumbers ==
  /\ ThreadCounts \cup {Cores, 1} \subseteq Nat
  /\ Thresholds \cup {100} \subseteq Nat
  /\ Counts \subseteq Nat
<1>1. ThreadCounts \subseteq Nat /\ Thresholds \subseteq Nat /\ Counts \subseteq Nat
  BY Zenon, SettingsAssumption
<1>2. Cores \in Nat
  BY CoresAssumption
<1>3. QED
  BY <1>1, <1>2

(* A valid builder has a thread count, and its executor keeps it.           *)
LEMMA ValidBuilder ==
  ASSUME NEW b \in Builders, Invalid(b) = {}
  PROVE  /\ b.thread_count \in Nat \ {0}
         /\ Askable(b)
         /\ NewWithRayon(b) \in Executors
         /\ NewWithRayon(b).thread_count = b.thread_count
<1>1. b.thread_count \in Nat \ {0} /\ Askable(b)
  <2>1. b.thread_count # 0 /\ b.stack_size # 0 /\ b.thread_name_prefix = "valid"
    BY DEF Invalid, Builders
  <2>2. b.thread_count \in ThreadCounts \cup {Cores, 1}
    BY DEF Builders, DefaultThreadCounts
  <2>3. QED
    BY <2>1, <2>2, SettingsAreNumbers DEF Askable
<1>2. NewWithRayon(b) \in Executors /\ NewWithRayon(b).thread_count = b.thread_count
  BY DEF Builders, Executors, NewWithRayon
<1>3. QED
  BY <1>1, <1>2

\* Either nothing is built, or an executor on a pool of at most its thread count.
Built ==
    IF answer = "Ok"
    THEN executor \in Executors /\ executor.thread_count \in Nat /\ capacity \in 1 .. executor.thread_count
    ELSE executor = Unset /\ capacity = 0

BuilderInv ==
    /\ builder \in Builders
    /\ answer \in Errors \cup {"none", "Ok", "Panic"}
    /\ Built
    /\ answer \in {"Ok", "BuildFailed", "Panic"} => Askable(builder)

(* A default builder is valid.                                              *)
LEMMA DefaultIsValid ==
  ASSUME NEW b \in DefaultBuilders
  PROVE  b \in Builders /\ Invalid(b) = {}
<1>1. PICK n \in DefaultThreadCounts :
         b = [thread_count |-> n, sequential_threshold |-> DefaultThreshold,
              report_interval |-> DefaultInterval, reporter |-> Noop,
              task_failure_policy |-> "Continue",
              thread_name_prefix |-> "valid", stack_size |-> Unset]
  BY DEF DefaultBuilders
<1>2. n # 0
  BY CoresAssumption DEF DefaultThreadCounts
<1>3. QED
  BY <1>1, <1>2, UnsetAssumption DEF Builders, Policies, Invalid

(* A build that fails leaves nothing behind.                                *)
LEMMA FailureInv ==
  ASSUME BuilderInv, answer = "none", NEW a, Fails(builder', a), builder' \in Builders,
         answer' = a \/ (answer' = "Panic" /\ Invalid(builder') = {})
  PROVE  BuilderInv'
<1>1. a \in Errors /\ a # "Ok" /\ (a = "BuildFailed" => Invalid(builder') = {})
  BY DEF Fails, Invalid, Errors
<1>2. executor' = Unset /\ capacity' = 0
  BY DEF Fails, BuilderInv, Built
<1>3. Invalid(builder') = {} => Askable(builder')
  BY ValidBuilder
<1>4. answer' \in {"BuildFailed", "Panic"} => Invalid(builder') = {}
  BY <1>1 DEF Errors
<1>5. answer' \in Errors \cup {"Panic"} /\ answer' # "Ok"
  BY <1>1
<1>6. QED
  BY <1>2, <1>3, <1>4, <1>5 DEF BuilderInv, Built, Askable

(* A build that succeeds has a pool and an executor that fit.               *)
LEMMA SuccessInv ==
  ASSUME builder' \in Builders, Succeeds(builder')
  PROVE  BuilderInv'
<1>1. /\ builder'.thread_count \in Nat \ {0} /\ Askable(builder')
      /\ executor' \in Executors /\ executor'.thread_count = builder'.thread_count
  BY ValidBuilder DEF Succeeds
<1>2. capacity' \in 1 .. executor'.thread_count
  BY <1>1, GrantedBounds DEF Succeeds
<1>3. answer' = "Ok"
  BY DEF Succeeds
<1>4. QED
  BY <1>1, <1>2, <1>3 DEF BuilderInv, Built, Askable

(* A setter keeps the builder a builder.                                    *)
LEMMA SetterInv ==
  ASSUME BuilderInv, answer = "none",
         ThreadCount \/ SequentialThreshold \/ ReportInterval \/ ReporterArc \/ NoReporter
         \/ FailurePolicy \/ ThreadNamePrefix \/ StackSize
  PROVE  BuilderInv'
<1>1. builder \in Builders
  BY DEF BuilderInv
<1>2. UNCHANGED <<answer, executor, capacity>>
  BY DEF ThreadCount, SequentialThreshold, ReportInterval, ReporterArc, NoReporter, FailurePolicy,
     ThreadNamePrefix, StackSize, Set
<1>3. builder' \in Builders
  <2>1. CASE ThreadCount
    BY <1>1, <2>1 DEF ThreadCount, Set, Builders
  <2>2. CASE SequentialThreshold
    BY <1>1, <2>2 DEF SequentialThreshold, Set, Builders
  <2>3. CASE ReportInterval
    BY <1>1, <2>3 DEF ReportInterval, Set, Builders
  <2>4. CASE ReporterArc \/ NoReporter
    BY <1>1, <2>4 DEF ReporterArc, NoReporter, Set, Builders
  <2>5. CASE FailurePolicy
    BY <1>1, <2>5 DEF FailurePolicy, Set, Builders
  <2>6. CASE ThreadNamePrefix
    BY <1>1, <2>6 DEF ThreadNamePrefix, Set, Builders
  <2>7. CASE StackSize
    BY <1>1, <2>7 DEF StackSize, Set, Builders
  <2>8. QED
    BY <2>1, <2>2, <2>3, <2>4, <2>5, <2>6, <2>7
<1>4. QED
  BY <1>2, <1>3 DEF BuilderInv, Built, Askable

(* The invariant holds of every sequence of settings and whatever ends it.  *)
LEMMA BuilderInvariance == Spec => []BuilderInv
<1>1. Init => BuilderInv
  BY DefaultIsValid DEF Init, BuilderInv, Built
<1>2. ASSUME BuilderInv, [Next]_vars PROVE BuilderInv'
  <2>1. CASE ThreadCount \/ SequentialThreshold \/ ReportInterval \/ ReporterArc \/ NoReporter
             \/ FailurePolicy \/ ThreadNamePrefix \/ StackSize
    <3>1. answer = "none"
      BY <2>1 DEF ThreadCount, SequentialThreshold, ReportInterval, ReporterArc, NoReporter,
         FailurePolicy, ThreadNamePrefix, StackSize, Set
    <3>2. QED
      BY <1>2, <2>1, <3>1, SetterInv
  <2>2. CASE Build
    <3>1. builder' = builder /\ builder' \in Builders /\ answer = "none"
      BY <1>2, <2>2 DEF Build, BuilderInv
    <3>2. Succeeds(builder') \/ Fails(builder', answer')
      BY <2>2, <3>1 DEF Build
    <3>3. QED
      BY <1>2, <3>1, <3>2, SuccessInv, FailureInv
  <2>3. CASE New
    <3>1. answer = "none" /\ builder \in Builders
      BY <1>2, <2>3 DEF New, BuilderInv
    <3>2. builder' \in Builders
      BY <2>3, <3>1 DEF New, Builders
    <3>3. Succeeds(builder') \/ Fails(builder', answer')
      BY <2>3 DEF New
    <3>4. QED
      BY <1>2, <3>1, <3>2, <3>3, SuccessInv, FailureInv
  <2>4. CASE Default
    <3>1. builder' = builder /\ builder' \in Builders /\ answer = "none" /\ Invalid(builder') = {}
      BY <2>4, DefaultIsValid DEF Default
    <3>2. Succeeds(builder') \/ ((\E a \in Errors : Fails(builder', a)) /\ answer' = "Panic")
      BY <2>4, <3>1 DEF Default
    <3>3. QED
      BY <1>2, <3>1, <3>2, SuccessInv, FailureInv
  <2>5. CASE Terminated \/ UNCHANGED vars
    BY <1>2, <2>5 DEF Terminated, vars, BuilderInv, Built, Askable
  <2>6. QED
    BY <1>2, <2>1, <2>2, <2>3, <2>4, <2>5 DEF Next
<1>3. QED
  BY <1>1, <1>2, PTL DEF Spec

(* The setters and the two ways around them keep the builder's fields, and  *)
(* whatever ends it leaves an executor of the kept ones, or none.           *)
THEOREM TypeCorrect == Spec => []TypeOK
<1>1. BuilderInv => TypeOK
  <2> SUFFICES ASSUME BuilderInv PROVE TypeOK
    OBVIOUS
  <2>1. executor \in Executors \cup {Unset}
    BY DEF BuilderInv, Built
  <2>2. capacity \in Nat
    <3>1. CASE answer = "Ok"
      BY <3>1 DEF BuilderInv, Built
    <3>2. CASE answer # "Ok"
      BY <3>2 DEF BuilderInv, Built
    <3>3. QED
      BY <3>1, <3>2
  <2>3. QED
    BY <2>1, <2>2 DEF BuilderInv, TypeOK
<1>2. QED
  BY <1>1, BuilderInvariance, PTL

(* Whatever was built, every call it runs in parallel has a task and a      *)
(* worker, and no more workers than the pool has threads.                   *)
THEOREM ParallelCallsCanRun == Spec => []ParallelCallsHaveWorkers
<1>1. BuilderInv => ParallelCallsHaveWorkers
  <2> SUFFICES ASSUME BuilderInv, executor # Unset, NEW n \in Counts, ~Sequential(n)
               PROVE  n > 0 /\ WorkerCount(n) \in 1 .. capacity /\ capacity <= executor.thread_count
    BY DEF ParallelCallsHaveWorkers
  <2>1. /\ executor \in Executors /\ executor.thread_count \in Nat
        /\ capacity \in 1 .. executor.thread_count
    BY DEF BuilderInv, Built
  <2>2. executor.sequential_threshold \in Nat /\ n \in Nat
    <3>1. executor.sequential_threshold \in Thresholds \cup {100}
      BY <2>1 DEF Executors, DefaultThreshold
    <3>2. QED
      BY <3>1, SettingsAreNumbers
  <2>3. n > 0
    BY <2>2 DEF Sequential
  <2>4. QED
    BY <2>1, <2>2, <2>3 DEF WorkerCount
<1>2. QED
  BY <1>1, BuilderInvariance, PTL

(* An executor exists exactly after a build that succeeded, with a pool, and *)
(* Rayon was asked for one only with settings that passed the validation.    *)
THEOREM NothingHalfBuilt == Spec => []BuildIsAllOrNothing
<1>1. BuilderInv => BuildIsAllOrNothing
  BY UnsetAssumption DEF BuilderInv, Built, BuildIsAllOrNothing
<1>2. QED
  BY <1>1, BuilderInvariance, PTL
=============================================================================
