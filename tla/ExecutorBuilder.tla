--------------------------- MODULE ExecutorBuilder --------------------------
(***************************************************************************)
(* RayonBatchExecutorBuilder and the executor it builds: the settings, the *)
(* validation, the pool Rayon grants, and the choice the executor makes    *)
(* for a declared count.  RayonBatch assumes a pool with a thread and a    *)
(* batch with a task; this module is where that comes from.                *)
(*                                                                         *)
(* A reporter is a value without structure, an interval a number of        *)
(* seconds; a name prefix is valid or holds a NUL byte.                    *)
(***************************************************************************)
EXTENDS Integers

CONSTANTS
    Cores,          \* the machine's parallelism
    RayonMax,       \* Rayon caps the number of threads of a pool
    ThreadCounts,   \* values given to thread_count()
    Thresholds,     \* values given to sequential_threshold()
    StackSizes,     \* values given to stack_size()
    Intervals,      \* values given to report_interval()
    Reporters,      \* reporters the user has
    Counts,         \* declared task counts of later calls
    Noop,           \* NoopReporter
    Unset           \* None

ASSUME CoresAssumption == Cores \in Nat \ {0} /\ RayonMax \in Nat \ {0}
ASSUME SettingsAssumption ==
    /\ ThreadCounts \subseteq Nat /\ Thresholds \subseteq Nat /\ Counts \subseteq Nat
    /\ StackSizes \subseteq Nat /\ Intervals \subseteq Nat /\ Unset \notin StackSizes /\ Noop \notin Reporters

VARIABLES
    builder,        \* the builder's fields
    answer,         \* what build(), new() or default() answered; "none" before
    executor,       \* the executor's fields, or Unset
    capacity        \* pool.current_num_threads(); 0 without a pool

vars == <<builder, answer, executor, capacity>>

\* The detected parallelism, or 1 if it cannot be detected.
DefaultThreadCounts == {Cores, 1}

DefaultThreshold == 100
DefaultInterval == 5

Errors == {"ZeroThreadCount", "ZeroStackSize", "InvalidThreadNamePrefix", "BuildFailed"}

Policies == {"Continue", "Stop"}

Builders ==
    [thread_count : ThreadCounts \cup DefaultThreadCounts,
     sequential_threshold : Thresholds \cup {DefaultThreshold},
     report_interval : Intervals \cup {DefaultInterval},
     reporter : Reporters \cup {Noop},
     task_failure_policy : Policies,
     thread_name_prefix : {"valid", "nul"},
     stack_size : StackSizes \cup {Unset}]

\* The builder's thread_name_prefix and stack_size end with the pool's creation.
Executors ==
    [thread_count : ThreadCounts \cup DefaultThreadCounts,
     sequential_threshold : Thresholds \cup {DefaultThreshold},
     report_interval : Intervals \cup {DefaultInterval},
     reporter : Reporters \cup {Noop},
     task_failure_policy : Policies]

\* None is neither an executor nor a stack size of zero.
ASSUME UnsetAssumption == Unset \notin Executors /\ Unset # 0

(* The builder holds what the setters accept, and the executor what         *)
(* new_with_rayon keeps of it.                                              *)
TypeOK ==
    /\ builder \in Builders
    /\ answer \in Errors \cup {"none", "Ok", "Panic"}
    /\ executor \in Executors \cup {Unset}
    /\ capacity \in Nat

\* RayonBatchExecutorBuilder::default, also behind RayonBatchExecutor::builder.
DefaultBuilders ==
    {[thread_count |-> n, sequential_threshold |-> DefaultThreshold,
      report_interval |-> DefaultInterval, reporter |-> Noop,
      task_failure_policy |-> "Continue",
      thread_name_prefix |-> "valid", stack_size |-> Unset] : n \in DefaultThreadCounts}

Init ==
    /\ builder \in DefaultBuilders
    /\ answer = "none"
    /\ executor = Unset
    /\ capacity = 0

\* A setter replaces one field of the builder it consumes.
Set(field, values) ==
    /\ answer = "none"
    /\ \E v \in values : builder' = [builder EXCEPT ![field] = v]
    /\ UNCHANGED <<answer, executor, capacity>>

ThreadCount == Set("thread_count", ThreadCounts)
SequentialThreshold == Set("sequential_threshold", Thresholds)
ReportInterval == Set("report_interval", Intervals)
ReporterArc == Set("reporter", Reporters)
NoReporter == Set("reporter", {Noop})
FailurePolicy == Set("task_failure_policy", Policies)
ThreadNamePrefix == Set("thread_name_prefix", {"valid", "nul"})
StackSize == Set("stack_size", StackSizes)

\* Mutant: the validation lets a zero thread count through to Rayon, where it
\* means the number of cores.
InvalidUnlessRayon(b) ==
    IF b.stack_size = 0 THEN {"ZeroStackSize"}
    ELSE IF b.thread_name_prefix = "nul" THEN {"InvalidThreadNamePrefix"}
    ELSE {}

\* What build() finds wrong, in the order it looks.
Invalid(b) ==
    IF b.thread_count = 0 THEN {"ZeroThreadCount"}
    ELSE IF b.stack_size = 0 THEN {"ZeroStackSize"}
    ELSE IF b.thread_name_prefix = "nul" THEN {"InvalidThreadNamePrefix"}
    ELSE {}

\* The threads a pool gets when asked for n; zero asks for the default.
Granted(n) ==
    LET asked == IF n = 0 THEN Cores ELSE n
    IN  IF asked < RayonMax THEN asked ELSE RayonMax

\* Mutant: the executor keeps the settings of its pool.
NewWithRayonAll(b) == b

\* What the executor keeps of its builder, beside the pool.
NewWithRayon(b) ==
    [thread_count |-> b.thread_count, sequential_threshold |-> b.sequential_threshold,
     report_interval |-> b.report_interval, reporter |-> b.reporter,
     task_failure_policy |-> b.task_failure_policy]

\* build() of builder b: validation fails, the operating system refuses Rayon
\* its threads, or there is a pool and an executor.
Fails(b, a) ==
    /\ a \in IF Invalid(b) # {} THEN Invalid(b) ELSE {"BuildFailed"}
    /\ UNCHANGED <<executor, capacity>>

Succeeds(b) ==
    /\ Invalid(b) = {}
    /\ capacity' = Granted(b.thread_count)
    /\ executor' = NewWithRayon(b)
    /\ answer' = "Ok"

Build ==
    /\ answer = "none"
    /\ Succeeds(builder) \/ Fails(builder, answer')
    /\ UNCHANGED builder

\* RayonBatchExecutor::new: a default builder with a thread count.
New ==
    /\ answer = "none" /\ builder \in DefaultBuilders
    /\ \E n \in ThreadCounts : builder' = [builder EXCEPT !.thread_count = n]
    /\ Succeeds(builder') \/ Fails(builder', answer')

\* RayonBatchExecutor::default panics where build() answers an error.
Default ==
    /\ answer = "none" /\ builder \in DefaultBuilders
    /\ \/ Succeeds(builder)
       \/ (\E a \in Errors : Fails(builder, a)) /\ answer' = "Panic"
    /\ UNCHANGED builder

Terminated == answer # "none" /\ UNCHANGED vars

Next ==
    \/ ThreadCount \/ SequentialThreshold \/ ReportInterval \/ ReporterArc \/ NoReporter
    \/ FailurePolicy \/ ThreadNamePrefix \/ StackSize
    \/ Build \/ New \/ Default \/ Terminated

Spec == Init /\ [][Next]_vars

-----------------------------------------------------------------------------
(* What the executor does with a call from an idle thread.                  *)

\* Mutant: the threshold is not inclusive.
SequentialBelow(n) == n < executor.sequential_threshold \/ executor.thread_count <= 1

\* count <= self.sequential_threshold || self.thread_count <= 1
Sequential(n) == n <= executor.sequential_threshold \/ executor.thread_count <= 1

WorkerCount(n) == IF capacity < n THEN capacity ELSE n

(* An executor exists only after a valid build, and whatever it was given   *)
(* and whatever Rayon granted, each call it runs in parallel has a task, at *)
(* least one worker to receive it (so the channel is no rendezvous without  *)
(* receivers), and no more workers than the pool has threads.               *)
ParallelCallsHaveWorkers ==
    executor # Unset =>
        \A n \in Counts : ~Sequential(n) =>
            /\ n > 0
            /\ WorkerCount(n) \in 1 .. capacity
            /\ capacity <= executor.thread_count

\* Settings a Rayon pool can be asked for.
Askable(b) == b.thread_count > 0 /\ b.stack_size # 0 /\ b.thread_name_prefix = "valid"

(* An executor exists exactly after an answer Ok, and exactly then there is *)
(* a pool: a failed build leaves neither behind.  What validation rejects   *)
(* never reaches Rayon: wherever its answer shows, the thread count, the    *)
(* stack size and the name prefix are all usable, so that a zero count is   *)
(* never taken for Rayon's own default and no thread is named with a NUL.   *)
BuildIsAllOrNothing ==
    /\ answer = "Ok" <=> executor # Unset
    /\ executor # Unset <=> capacity > 0
    /\ answer \in {"Ok", "BuildFailed", "Panic"} => Askable(builder)
=============================================================================
