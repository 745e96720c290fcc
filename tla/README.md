# rs-rayon-batch in TLA+

`qubit-rayon-batch` runs a batch of tasks on a dedicated Rayon thread pool: one
caller feeds a bounded channel from a lazy task source, a handful of worker jobs
drain it, and the call returns when its scope is empty. This directory holds the
TLA+ models of that crate, the TLC configurations that check them on small
instances, and theorems about them that TLAPS proves for every value of the
constants. Paths below are relative to the crate (`src/` here is the crate's own
`src/` directory).

## Inventory

| Component | Where | State | Operations |
| --- | --- | --- | --- |
| Parallel execution of one batch | `src/rayon_batch_executor.rs`, `execute_with_count` and `run_rayon_worker` | the channel and who owns its ends, the task each party holds, the coordinator's counters and outcomes | spawn the jobs, drop the original receiver, pull, send, close, join; receive, run, destroy |
| Sequential fallback | `sequential_executor`, then `SequentialBatchExecutor` of qubit-batch | counters and outcomes of one call | pull, run, destroy, conclude |
| Reentry guard | `src/internal/active_batch_guard.rs` | `ACTIVE_POOLS`, one vector per thread | `enter`, `drop` |
| Choice of strategy | the first lines of `call_with_count` and `execute_with_count`, `worker_count` | the guard, the executor's `thread_count` and `sequential_threshold` | sequential or parallel |
| Builder | `src/rayon_batch_executor_builder.rs`, its error, `constants.rs` | the settings | setters, `build`, validation |
| Callable adapter | `call_with_executor` of qubit-batch, called by `call_with_count` | indexed outputs | deposit, collect |
| Progress | the coordinator and qubit-progress | report interval, reporter, automatic reporter thread | started, running, terminal reports; the thread's join |
| Example | `examples/progress_and_failure_policy.rs` | three event counters | one call per failure policy, and assertions on each |

How they interact. The caller calls the executor, and the executor calls back
into the user's iterator on the caller's thread, into the user's tasks on pool
threads and into the user's reporter on both the caller's thread and a scoped
reporter thread. Caller and jobs share a crossbeam channel and the coordinator's
context (accepted count, outcomes, policy). Callbacks may call the same executor,
a clone of it or an executor on another pool; the thread-local registry and
Rayon's `current_thread_index` decide whether such a call may be parallel.

What is hard here:

* **Unwinding in the middle.** Panics from a task's body are captured, but the
  destructor of a runnable, the iterator, the conversion of the source and
  synchronous reports unwind through the scope while other parties are blocked
  on the channel (`rayon_batch_executor.rs:433-451`).
* **Two blocking waits that do not yield.** `send` and `recv` block the OS
  thread; Rayon's wait at the end of a scope serves other jobs of the worker's
  own pool instead. What may stall depends on which one a thread is in.
* **Reentry.** The caller's thread is not a worker of the pool while a source
  runs, so `current_thread_index` does not see that the pool is busy for this
  thread; the registry does. A task's thread is a worker, but has no registration.
* **Stop policies.** Failures are recorded by workers while the caller is
  between the check of the policy and the end of a send.
* **Two threads report.** The caller reports the start and the end, a scoped
  thread what happens in between, from counters it read earlier; the user's
  reporter may call the executor it reports for.
* **Two steps per success.** A callable's value is deposited inside its runnable,
  its outcome is recorded after the runnable has ended.
* **Competing answers.** A panic, a scheduling error, a count error, a failing
  report and the failure policy can all be true of one call.

What makes each component correct:

* one parallel batch: no accepted task is lost or run twice; nothing of the call
  outlives it; the answer is true of the tasks; admission runs ahead by a bounded
  number of items; the call returns;
* the fallback: the same promise, with a window of one item;
* the registry: it lists exactly the guards on the thread's stack; no thread
  waits for a pool it occupies; a call is not made sequential without need;
* the choice of strategy and the builder: a parallel call always has a task, a
  worker and a channel with capacity; a rejected build builds nothing;
* the adapter: a call hands out the values of its successes, and no others;
* progress: started first, a true terminal event last, counts in order, although
  two threads report them.

`PROJECT.json` lists these components, the hazards with their source lines and
the properties for each, and for every definition the lines it models.

## Modules

| Module | Models |
| --- | --- |
| `BatchContract` | abstract: what one call of `execute_with_count` promises, whichever strategy runs it |
| `RayonBatch` | the parallel path of one call: the caller, the worker jobs, a reporter that may fail |
| `RayonBatchInv` | the inductive invariant of `RayonBatch` |
| `SequentialBatch` | the sequential fallback of one call |
| `CallBatch` | `call_with_count` over `RayonBatch`: values, events and the reporter's thread |
| `NestedPools` | calls that make calls: threads as stacks of frames, several pools, clones, the registry, the choice of strategy, Rayon's cooperative wait, paused sources, reporters that call |
| `NestedPoolsInv` | the inductive invariants of `NestedPools`: `IInv`, and on top of it `WaitInv`, which is `NestingInv` and `CountInv` |
| `ExecutorBuilder` | settings, validation, pool creation, and the choice of strategy for a declared count |
| `ProgressExample` | the example program over `BatchContract` |
| `MC*` | the instances TLC checks |
| `BatchContract_proofs`, `RayonBatch_proofs`, `SequentialBatch_proofs`, `CallBatch_proofs`, `NestedPools_proofs`, `NestedStalls_proofs`, `ExecutorBuilder_proofs`, `ProgressExample_proofs` | theorems |

`RayonBatch` and `SequentialBatch` both implement `BatchContract` (`INSTANCE ...
WITH pulling <- (pc = "pull")`, with `Window` the only difference: `2 *
worker_count + 1` items or one). `NestedPools` looks at the same calls from
further away: tasks there have no outcomes and sources no counts, but there are
many calls. It has the spawn loop, the channel, the close and the join of
`RayonBatch` with the same guards.

`CallBatch` extends `RayonBatch`: each of its actions is an action of the batch
with a guard or an effect added, or leaves the batch alone, so that it implements
`RayonBatch` by definition (the lemma `CallsAreBatches`). `ProgressExample` uses the contract the other way round, as all a
client knows: its calls do whatever `BatchContract` allows, restricted only by
what the program itself decides (which tasks fail, how many items the source
gives). The contract had to say more for this to hold, namely that `exhausted` and
`exceeded` are facts about the source that answers depend on, and both strategies
were checked and proved against it.

### From code to model

`RayonBatch`, by line of `src/rayon_batch_executor.rs`:

| Code | Action |
| --- | --- |
| 431-433 coordinator started, source converted, `Started` reported | `Start`, `StartFails` |
| 435-441 one `spawn_fifo` per job, receiver cloned | `Spawn` |
| 442 `drop(work_receiver)` | `DropReceiver` |
| 444 `source.by_ref()`: the counted source checks for a stop, then enters the user's iterator | `Ask`, then `PullNone`, `PullAccept`, `PullExtra`, `PullRefuse` or `PullPanics` |
| 445-447 `send`: blocks while full, fails without receivers | `Send`, `SendFails` |
| 449-450 `drop(work_sender)`, `Ok(())` | `CloseSender` |
| 433-451 the scope waits for all jobs; a panic outranks the closure's result | `Join`, `JoinUnwinds` |
| 431, 453 the coordinator's answer | `Conclude` |
| 475-478 `recv` | `StartJob`, `Recv`, `RecvClosed` |
| 479 `execute_task`: run and record, then the runnable is destroyed | `RunTask`, then `DropTask` or `DropPanics` |
| the scoped reporter thread | `ReporterFails` |

A step boundary stands wherever another thread can observe or change shared
state: the check for a stop and the iterator are two steps, as are the record of
an outcome and the destruction of the runnable, and each spawn of a job. An
outcome is `"succeeded"` or `"failed"` (an `Err` or a captured panic); what a task
computes does not matter to any property. `original` and the states of the jobs
say who owns a receiver: crossbeam refuses a send when there is none, and the
last receiver to go discards the buffer (`ReceiversGone`, `DropPanics`).

`CallBatch` adds to this:

| Code | Action |
| --- | --- |
| 356 `call_with_executor(self, tasks, count)`, then 431-433 | `CallStart`, `CallStartFails`: `Started` is reported by the caller |
| 435-450 the loop, now over the adapter's runnables | `CallFeeds` |
| 479 the runnable calls its callable, destroys it and deposits the value | `Deposit` |
| 479 the runnable ends, its outcome is recorded | `RunCallable` |
| the reporter's thread reads the counters, then calls the reporter | `ReportBegins`, `ReportReturns` |
| the scope is empty: the thread is stopped and joined, then the call goes on or unwinds | `JoinReporter`, `CallJoins` |
| 431, 453 terminal report and answer | `CallConcludes` |

A callable is destroyed before its value is deposited, so its destructor's panic
is a captured failure; the adapter's own runnable is destroyed later and does not
panic. Hence `SendFails` and `DropPanics` are not steps of a call.

The counted source, the coordinator, crossbeam and Rayon are dependencies whose
code is not in this repository. They are modelled from how the crate uses them,
what its documentation and tests say of them, and marked external in the map.
Where those leave the order of two answers open, the model allows both.

`NestedPools`: `CallWithCount` and `ExecuteWithCount` are the head of the two
methods, with `Registers` for `ActiveBatchGuard::enter`, `KeepsGuard` for which
guard survives (the one of `call_with_count` is dropped before
`execute_with_count` enters again), `Leave` with `WithoutLast` for the guard's
`Drop` on return and on unwinding alike. `TakeJob` is Rayon: an idle worker, or
one that waits for a scope of another pool, takes the oldest job of its own pool.
`ReporterCalls` is a call made by a running reporter on its scoped thread, which
`Leave` joins. The user's program, who calls whom and which source waits for which
call, is the constant `Plan`. A member of `Call` is one execution of a call: it
has one place in the program, and is made once (`SitesAssumption`,
`RootsAssumption`).

`ExecutorBuilder`: one action per setter, then `Build`, `New` or `Default`;
`Invalid` is the order of validation in `build`, `Granted` is Rayon's cap on pool
sizes, and `default()` panics where `build` answers an error.

`ProgressExample`: `Call` is lines 59-76, `BatchStep` the call by its contract,
`ReportRunning` and `Answer` the reporter's counters, `Holds` and `Check` the
assertions of lines 76-105.

Operators commented as mutants are not used by any specification. Each is a
plausible mistake in the definition that follows it, and `PROJECT.json` says which
property notices when it takes that definition's place.

## Runs

| Run | Instance | Question |
| --- | --- | --- |
| `parallel_batch` | 2 threads, 6 tasks, limit 1, reporting | type and inductive invariant, `TaskAccounting`, `NothingOutlivesTheCall`, `NoSchedulingError`, `AdmissionWindow`, `FailureOvershoot`, `NeverStuck`, `EveryStepCounts`, and the contract |
| `parallel_batch_returns` | 2 threads, 5 tasks | `CallReturns` under fairness, also when every worker unwinds |
| `disconnect_is_reported` | 2 threads, 4 tasks | violated: see Findings |
| `contract` | 6 tasks, limit 2, window 3 | the contract alone bounds the failures beyond the limit |
| `sequential_batch` | 4 tasks, limit 2 | the fallback implements the contract and stops exactly at the limit |
| `nested_acyclic` | pools A and B of two workers, two external threads on clones of A, seven calls | the inductive invariant `IInv`, `GuardRegistry`, `NoSelfWait`, `LosesParallelismOnlyByReentry`, `CompleteOnReturn`, no deadlock |
| `nested_returns` | three programs: one external thread of `nested_acyclic`; A calls B calls A with one item per nested call; a batch of one item whose source waits for a clone's batch and whose reporter calls, on A | all calls return, under fairness; `EveryStepCounts`; `WaitInv`; and `BlockedOnlySo`: what the model calls blocked is what cannot move |
| `nested_stalls` | three programs: A calls B calls A with nested batches larger than the channel; the waiting source with a batch of two items, which may take both workers, and a reporter that calls B; calls from A to B to C only, two of them by sources | they may stall, but only as documented (`StallsOnlyAsDocumented`), and a pool whose calls call nothing is never drawn into the stall (`LeafPoolsDrain`) |
| `callable_batch` | 2 threads, 4 tasks, limit 1, two `Running` events | `OutputsMatchOutcome`, `EventsInOrder`, `TerminalEventIsTrue`, `CallNeverStuck` |
| `callable_batch_returns` | 2 threads, 3 tasks, no limit | `CallReturns` with a reporter's thread to join, under fairness |
| `progress_example` | 12 items per call, window 5 | `ExamplePasses`, and `ExampleEnds` under fairness |
| `executor_builder` | cores 2, cap 3, counts on both sides of every threshold | `ParallelCallsHaveWorkers`, `BuildIsAllOrNothing` |

Why the bounds are enough. Six tasks with two workers are one more than the
window of `2 * 2 + 1` items, so the caller meets a full channel with tasks left;
with a limit of one failure the overshoot reaches its bound of four more.
Four tasks suffice for the disconnect: one per worker that unwinds, one to be
refused. Two workers are the smallest pool on which jobs share a receiver and a
last receiver exists; more are the business of the proofs, which hold for all
pools. The acyclic program nests in every way the guard is for: from a task into
another pool and into the same pool, from the source into the same pool and into
another, through `call_with_count` and `execute_with_count`, with a nested call
that panics. A run of several programs has one initial state for each
(`Programs`). In the large cycle a call of five items exceeds what two workers
and a channel of two hold, so that a worker of each pool can block in a send.
The small cycle cannot fill a channel, and needs workers that wait in one pool
to serve their own. The paused source keeps one worker or both in `recv`: with
one, the other serves the awaited batch, its nested call and the reporter's; with
both, nothing can, and the documentation allows that. In `nested_returns` the
source of the acyclic program calls B with three items, more than a channel of
two holds, so that `BlockedOnlySo` meets blocked sends.
The program in a line has no cycle of pools and no `awaits`, and stalls all the
same. A worker of A runs a batch on B whose source calls C; while it waits for C's
scope it takes the job of the other batch on A and blocks in `recv`, on top of the
call to C. The source of that other batch waits for a call on B, and B's workers
are in `recv` for the source that stands below. This is why
`StallsOnlyAsDocumented` speaks of a source that waits for any call, its own
included. The call to C is the case `LeafPoolsDrain` is about: its caller cannot
return, yet C has run both of its items and its scope is empty. The reporter's call to
B is another, which returns before the paused source stalls the rest.
Four tasks in `callable_batch` are more than two workers hold, and two `Running`
events let a second report read the counters while the batch drains; one is enough
to be inside a callback at the join. The example has 64 items; 12 keep three
failures, more than either limit, and the same arithmetic (`Items \div 4`
failures), and its window of 5 is the one two threads have.
Safety runs of `NestedPools` use the symmetry of the workers of A and of B, which no
expression tells apart; liveness runs do not.
`nested_stalls` and `contract` do not check deadlock: the programs of the first may
stop (that is the question), and the contract promises no progress.

Checks on the number of tasks are boundaries of the source itself: `Count` is the
declared count and the iterator may give fewer, as many or more. The failure
limit zero stands for `TaskFailurePolicy::Continue`. `MaxRunning` bounds the
`Running` events of `CallBatch` and `ProgressExample`. Nothing else is bounded.

### Fairness

`CallBatch` assumes what `RayonBatch` does, for its own caller and workers, and
that a report which has begun returns; nothing makes one begin. The join of the
reporter's thread comes to its turn because `MaxRunning` bounds the reports: it stands
in for the flag by which the coordinator stops that thread, which the model leaves out. `ProgressExample`
assumes that the program and the call it is in go on.

`RayonBatch` assumes weak fairness of the caller and of each worker job: the OS
schedules the caller's and the pool's threads, Rayon's workers take jobs from
their pool's queue, and the user's iterator and tasks return (a task that blocks
forever blocks the call, as documented). Nothing is assumed of the
reporter's failures, of which branch an iterator or a destructor takes, or of
anything strong. That a queued job gets a free thread is an assumption of this
module alone: in `NestedPools` jobs compete for the pool's threads, fairness is
only that a thread that can step eventually does, and whether the job is ever
reached is the question.

## What is proved

TLAPS proves these from the assumptions the modules name. For one batch:
`PoolThreads > 0`, `Count > 0`, `FailureLimit \in Nat`, `Reporting \in BOOLEAN`. For
nested calls: finitely many threads and pools, and a program that says for each
call where it is made, once; nothing about how deep calls nest, how many there
are, how large the pools are or which pool calls which. For the example: its
items are a multiple of four, with two failing tasks at least (it has 64).

| Theorem | Says |
| --- | --- |
| `Invariance` of `RayonBatch_proofs` and of `NestedPools_proofs` | `Spec => []IInv` |
| `TypeCorrect`, `Accounting`, `EmptyScope`, `PanicsTakePrecedence` of `RayonBatch_proofs` | `TypeOK`, `TaskAccounting`, `NothingOutlivesTheCall`, `NoSchedulingError` always hold |
| `Refinement` | `RayonBatch` implements `BatchContract` |
| `WindowBounded`, `OvershootBounded` | `AdmissionWindow` and `FailureOvershoot` of `RayonBatch` |
| `SomeoneCanMove`, `NoEndlessCall`, `StepsBounded` | `NeverStuck`; `EveryStepCounts` of `RayonBatch`; a call of `n` tasks and `w` workers is over after at most `6 * n + 3 * w + 8` steps |
| `OvershootBound`, `WindowBound` | the same bounds for anything that keeps the contract |
| `CallTypeCorrect` | `CallTypeOK` of `CallBatch` |
| `OutputsAreOutcomes`, `EventsAreInOrder`, `TerminalEventTrue` | `OutputsMatchOutcome`, `EventsInOrder`, `TerminalEventIsTrue` of `CallBatch`, for any number of reports |
| `CallCanMove` | `CallNeverStuck` of `CallBatch` |
| `FallbackRefinement`, `FallbackTypeCorrect`, `StopsExactly` | `SequentialBatch` implements `BatchContract` with a window of one; its `TypeOK`; `StopsAtTheLimit` |
| `TypeCorrect`, `RegistryExact`, `NeverSelfWait`, `SequentialByReentry`, `CompletesOnReturn` of `NestedPools_proofs` | `TypeOK`, `GuardRegistry`, `NoSelfWait`, `LosesParallelismOnlyByReentry`, `CompleteOnReturn`, for every program |
| `Nesting`, `NoOtherStall` | `NestingInv`, and with it `StallsOnlyAsDocumented`, for every program |
| `LeafPoolsAreServed` | `LeafPoolsDrain`, for every program |
| `Waiting`, `NoEndlessProgram`, `ProgramBounded` | `WaitInv`, and with it `EveryStepCounts` of `NestedPools`; a call of `n` items and `w` workers takes at most `4 * n + 3 * w + 6` steps on all stacks together |
| `WaitsAreAll` | a thread is `Blocked` if and only if no guard of an action holds for it, and a blocked thread takes no step |
| `TypeCorrect` of `ExecutorBuilder_proofs`, `ParallelCallsCanRun`, `NothingHalfBuilt` | `TypeOK`, `ParallelCallsHaveWorkers`, `BuildIsAllOrNothing` of `ExecutorBuilder`, for every machine and every setting |
| `ExampleNeverPanics` | `ExamplePasses`: no assertion of the example fails, for every window and every number of items |

The argument. `TaskAccounting` is not inductive: that no task is lost when the
last receiver goes depends on who still owns a receiver, which depends on where
the caller is in its spawn loop and how far each job has gone. `IInv` adds exactly
that (`RayonBatchInv`): `CallerInv` ties the channel's ends to the caller's
position, `JobInv` says what a job owns and that it leaves only a closed and
drained channel, `ChannelInv` that tasks are destroyed unrun only after every
receiver has gone by a worker's unwinding, `SourceInv` why the loop ended,
`ScopeInv` what the join established. From `IInv`: if a structured answer
is given, no job unwound, so nothing was discarded, every job left a drained
channel, and `TaskAccounting` puts every accepted task among the completed. If the
closure saw a disconnected channel, then some job unwound, and the scope raises
that panic instead: `ScheduleFailed` and `IncompleteSchedule` are never answered.

The refinement needs one counting fact, `UnfinishedBound`: unfinished tasks are
in the caller's hand, in the channel, held by a worker, or discarded, hence at most
`2 * WorkerCount + 1`, and at most `2 * WorkerCount` while the caller is about to
ask. It follows from `TaskAccounting`, the bound on the channel and on `discarded`,
and injectivity of the places. With it each action of `RayonBatch` maps to an
action of `BatchContract` or to a stutter: `Ask` to `Ask`, `PullAccept` to
`Accept`, `PullNone` to `Exhaust`, `PullExtra` to `Exceed` or `Decline`, the other
ends of a pull to `Decline`, `RunTask` to `Complete`, and
`Conclude`, `JoinUnwinds` and `StartFails` to `Return`. The bounds of the abstract
module then carry over through the refinement.

That a call returns is a liveness property, and only TLC checks it. What a
termination argument needs of the code is proved. `NeverStuck`: until the call is
over, the caller is not in one of its two waits or some worker is not in one of its
own. It follows from `IInv`: a caller that waits has dropped the original receiver,
and its channel is full or closed; so a worker that has not left is queued first,
has a task, or has something to hear from `recv`; and if all have left, send and
join no longer wait. `EveryStepCounts`: each step makes `StepsLeft` smaller, which
starts at no more than the bound of `StepsBounded` and stays a natural number
(`StepsLeft` weighs a task by where it is, and a job by its state). So no
interleaving is longer than this bound, and none ends before the call does unless
somebody who can go on never does: the one thing left to fairness.

For `CallBatch`, every step is a step of the batch or leaves it alone
(`CallStep`), so `IInv` holds of a call without a second proof (`CallsAreBatches`, which
says no more than that), and the theorems add two invariants to it. `OutInv`: a deposited value belongs to a success or to a
runnable that is running; with `Held = {}` at the end of a call
(`EmptyScope`) the outputs are the successes. `EventInv`: the reporter's thread
exists only while the batch goes on, and what it has read lies between the last
event's count and the present one, so that its late report still fits in
(`OrderExtended`). The terminal event is true because the caller comes to it with
every accepted task counted, and without failures, count errors and reporter
errors only when all declared tasks have run (`FinalCount`). `CallCanMove` does not
follow from `NeverStuck`: `SendFails` and `DropPanics` are no steps of a call, so a caller
whose receivers had gone would wait for ever. `CalmInv` says that no job unwinds, and
`JobInv` that one which has left otherwise has seen the sender closed, so a send has a receiver
(`SendHasReceiver`).

The fallback needs less: `SeqInv` says that exactly the tasks before the current
one have an outcome, so at most one is unfinished (`UnfinishedIsRunning`), and that
the policy is not reached while an item is pulled or run, so a task adds at most
the decisive failure (`OneMoreTask`).

For nested calls, what the registry of a thread must list depends on where every
call on its stack is. `IInv` of `NestedPoolsInv` has a part for each thing that the
four properties lean on:

* `CallInv` and `SourceInv`: what a caller owns at each point of the call, and how
  far its source is;
* `FrameInv`: a call has one frame, on one stack, and is suspended below another
  frame only where the code calls out. That a call does not appear twice rests on
  `RootsInv` and on the two assumptions about the program: who is `Due` is idle, has
  one site, and its site is running;
* `RegistryInv`: registrations are those of the owners, no pool twice. Dropping a
  guard removes *the last registration of its pool*, and this says it is the only
  one, hence the call's own (`GuardRegistry` counts owners, `RegistryCount`);
* `JobInv`: `jobs[c]` is the number of `c`'s job frames on all stacks plus its jobs
  in the queue, so an empty scope has no job left anywhere. This needs the stacks
  of all threads at once, since a waiting worker takes jobs of other calls on top
  of its own;
* `ItemInv`: an item below `next[c]` is done, in the channel or held by a job, and a
  closed channel that still has items has a job.

`NoSelfWait` and `LosesParallelismOnlyByReentry` are parts of `IInv` themselves:
`Decide` establishes them from `RegistryInv` (the registry knows every guard on the
stack) and `Home` (the thread knows its pool), and neither half would do alone.
`TakeJob` keeps the first because only job frames are put on a waiting call.

`NoOtherStall` is the theorem about Rayon's cooperative wait. `IInv` does not know
what lies on what; `NestingInv` does. `PresentInv`: a call under way is on a stack.
`StackInv`: on a frame lies the call its source or its task has made, or a job
taken in a join; at the bottom of a worker's stack is a job, and every job on it is
of the worker's own pool. `PlaceInv`: an item is in one place, so two workers do not
run one task. `ParallelInv`: a reporter's call comes from a parallel call under way,
and a parallel call has workers. `DescentInv`: if calls made from within calls
descend in some order of the pools, then every frame is on the pool of the frame
at the bottom of its stack, or below it.

Suppose then that every thread is blocked, that the pools can be ordered so that
calls go down, and that no source waits for a call while it keeps a worker in `recv`
or at its end. The innermost frame of every nonempty stack is a call in `send` or in
`join` (`TopsWait`): nobody is in `recv`, because the caller of such a job would be
at its source, and whoever waits for a nested call has a frame on top. Take one on
the pool of least rank (`LeastNumber`). In `send` its channel is full, in `join` a
job is left or a reporter's call is out. If it has jobs, a worker of its pool is
busy with something (`BusyWorker`), and that worker's innermost frame waits in its
turn, on a lower pool: everything on the stack is on that pool or below by
`DescentInv`, and not on the same one by `NoSelfWait`. If only the reporter's call
is out, that call is the bottom of some stack, on a lower pool than the caller's,
and the innermost frame there waits, on that pool or lower. So no rank is least
(`LowerWaiter`), and there is no such state. `CyclicPools` looks at the calls made
so far only, so that it does not hold because of calls a program might have made.
The two reasons that remain are those of the user guide: cycles of pools
(`doc/user_guide.md:279-283`), and callbacks and sources that wait for work which
needs the same pool (`doc/user_guide.md:192-194`, `:334-340`).

`LeafPoolsAreServed` says what a stall cannot reach. Let every thread be blocked, and
let no call made on pool `p` call or wait for anything from its source or its tasks.
Nothing lies on top of a frame of such a call, except jobs at its join
(`LeafInnermost`), so wherever it is innermost its caller can only be in a `send` with a
full channel (`LeafWaits`). If a call on `p` had a job left, some worker of `p` would be
in something (`BusyWorker`); at the bottom of its stack is a job of a call on `p`, which
is therefore its innermost frame, and the only wait there is `recv` on a channel that is
empty and open. But then the caller of that job would be in a `send` with a full
channel of positive capacity (`LeafScopes`). So no scope on `p` has jobs; a `send` needs
them (`JobInv`), hence every caller is past its source, and by `ItemInv` all that was
given has run. The argument does not look at the order of the pools, and holds of
programs whose calls go round in cycles elsewhere.

That nested calls do not go on for ever either is `NoEndlessProgram`. `StepsLeft(c)`
counts what is left of the call itself and of its items, and its jobs to spawn, in
the queue and on stacks; a step uses up some of this for one call and nothing of
another's, also when a waiting worker takes another call's job. For this to be a
count, what is still to do must not be done: an item in the channel or held by a job
is not in `done`, and a call that spawns has a job to spawn. This is `CountInv`,
which is inductive on top of `IInv` and `NestingInv`: that an item just completed is
nobody else's needs `PlaceInv`. A program of finitely many calls therefore stops,
and where it stops short of the end, `NoOtherStall` says why.

`WaitsAreAll` closes the gap between `Blocked`, in which `NoOtherStall` speaks, and
the actions. `CanGo(t)` is the disjunction of the guards of `Step(t)`; a step needs
it (`StepsGo`), a thread that is not blocked has it (`UnblockedGo`, from `FrameInv`
and `SourceInv`: the innermost frame is at one of the points where the code can be),
and a blocked one has not (`BlockedWait`, as that frame is at one point only).

For the example, `IInv` of `ProgressExample_proofs` says what the counters are in each
round and what the call's answer implies; the exact numbers come from counting the
failing tasks: `FourthsCount` maps every fourth task to its quotient.

For the builder, `BuilderInv` says that an executor's thread count and its pool
come from the same valid builder. That a parallel call has a worker
(`WorkerCount(n) \in 1 .. capacity`) then follows from what Rayon grants
(`GrantedBounds`), under `UnsetAssumption`: `None` is neither an executor nor a
stack size. The two constants `RayonBatch` assumes positive have here their reason.
`NothingHalfBuilt` needs two parts of it: `Built`, that pool and executor come and stay
away together, and that wherever an answer of Rayon's shows (`Ok`, `BuildFailed`, the
panic of `default()`) the builder is `Askable`, so what the validation rejects has not
reached Rayon (`ValidBuilder`).

Only model-checked: every liveness property (`CallReturns` twice, `AllCallsReturn`,
`ExampleEnds`), which TLAPS cannot do under fairness; and `BlockedOnlySo`, which is
stated with `ENABLED`. Of `CallReturns` what remains to the runs is that under
fairness someone who can go on does; of `AllCallsReturn` also that its programs have
no stall. Of `BlockedOnlySo` it is that a thread for which a guard of `CanGo` holds
has a successor state, that is, that no action has a contradiction behind its guard;
that a blocked thread takes no step is part of `WaitsAreAll`. Every other property
of a passing run is stated by a theorem.

## Findings

`DisconnectIsReported` states the documentation of `execute_with_count`
(`src/rayon_batch_executor.rs:385-388`): it returns `ScheduleFailed` if the internal
work channel disconnects. The run shows two tasks whose destruction panics, one
per worker, while the caller has a third to send: the send fails, the closure
returns `WorkChannelDisconnected`, and the scope raises a worker's panic instead.
`PanicsTakePrecedence` proves that this is no accident of the instance: the two
scheduling errors cannot be answered at all. The code is right to propagate the
panic; its documentation of the two errors describes answers nobody will see.

Not a disagreement, but worth knowing: the user guide warns of cycles of pools
(`doc/user_guide.md:279-283`) and, for sources, of delays (`:334-340`). The program in a
line shows that two batches whose sources call, on pools that only call downwards,
can stop for good. `NoOtherStall` says that such sources are the only other way.

## Not modelled

* When a `Running` event is due: `report_interval` is a setting only, and the
  reporter's thread may report at any time of the batch. Whether a terminal event
  follows a failed running report is left open, as nothing in this crate says so.
* What values a callable computes: a value is there or not. The assertions of the
  example on values are therefore those of `OutputsMatchOutcome`.
* Outputs and events of the sequential fallback, which is one thread doing one
  thing after the other, in a dependency.
* Panics of further destructors while a channel's buffer is discarded during
  unwinding (a double panic aborts the process), and of the task a failed send gives
  back: such a call ends in a panic already.
* That the reporter's thread is told to stop and joined at the end of the scope:
  qubit-batch does this, and `CallJoins` and `Leave` assume it.
* In `NestedPools`, calls made while the source is converted (`into_iter`) or from the
  synchronous `Started` and terminal reports. They run on the caller's thread as those
  of the source do, before the first item or after the join.
* The difference between the configured thread count and the pool's capacity
  within `NestedPools`, which takes them as equal; `ExecutorBuilder` has both.
* Addresses as pool identities: a guard is dropped within the call that borrows
  the executor, so a pool's identity cannot be reused while it is registered.
* The re-exports, benchmarks and test support, which keep no state of the library.

## Plan

Done: the contract and the parallel path with their proofs, calls with their
values, events and proofs, the fallback with its refinement, nested calls with
paused sources and calling reporters and the proofs of all their invariants, of
what they can stall for and of their end, the builder and its proofs, the example and its proof.

Left, if the code grows:

1. Further programs for `NestedPools`: pools of different sizes, a cycle of three
   pools. The theorems cover them; the runs would show the stalls.
2. A bound on the steps of `CallBatch` as in `StepsBounded`, once the report interval
   bounds the reports of a call.
