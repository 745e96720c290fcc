----------------------------- MODULE RayonBatch -----------------------------
(***************************************************************************)
(* One call of RayonBatchExecutor::execute_with_count on the parallel      *)
(* path: the caller enters an in-place FIFO scope, creates one bounded     *)
(* channel, spawns worker_count worker jobs that share its receiving end,  *)
(* and feeds it from the task source until the source stops.               *)
(*                                                                         *)
(* The processes are the caller (the producer), the worker jobs, and the   *)
(* automatic progress reporter, which can only fail.  The source iterator, *)
(* the tasks and the reporters are the user's: they answer anything, and   *)
(* may panic where the code lets them.  Outside src/ and modelled from     *)
(* their use there: the counted source and the outcome bookkeeping of      *)
(* qubit-batch, crossbeam's bounded channel and Rayon's scope.             *)
(***************************************************************************)
EXTENDS Integers, Sequences, FiniteSets

CONSTANTS
    PoolThreads,    \* pool.current_num_threads()
    Count,          \* the declared task count of this call
    FailureLimit,   \* failures that stop admission; 0 is TaskFailurePolicy::Continue
    Reporting       \* whether progress is reported

ASSUME PoolThreadsAssumption == PoolThreads \in Nat \ {0}
\* A call with no task never leaves the sequential path (count <= threshold).
ASSUME CountAssumption == Count \in Nat \ {0}
ASSUME FailureLimitAssumption == FailureLimit \in Nat
ASSUME ReportingAssumption == Reporting \in BOOLEAN

VARIABLES
    pc,             \* where the calling thread is
    original,       \* the caller still owns the channel's original receiver
    sender,         \* the work sender is open
    chan,           \* tasks buffered in the channel
    hand,           \* the task the caller is sending
    job,            \* per worker: the state of its job
    holds,          \* per worker: the task it owns
    accepted,       \* tasks accepted by the source, the index of the next one
    outcome,        \* per task: what the context recorded
    exhausted,      \* the iterator answered None
    exceeded,       \* the iterator gave an item beyond the declared count
    reporter,       \* the automatic running reporter: "ok" or "failed"
    closure,        \* how the scope's closure ended
    discarded,      \* tasks destroyed without having run
    result          \* what the call returned; "none" while it runs

chanVars == <<chan, original, sender>>
workVars == <<job, holds, outcome>>
sourceVars == <<accepted, exhausted, exceeded>>
callerVars == <<pc, hand, sourceVars, closure, result>>
batchVars == <<chanVars, workVars, reporter, discarded>>
vars == <<callerVars, batchVars>>

Task == 0 .. Count - 1
NoTask == -1

\* worker_count: the smaller of the pool's capacity and the declared count.
WorkerCount == IF PoolThreads < Count THEN PoolThreads ELSE Count
Worker == 1 .. WorkerCount

Recorded == {"succeeded", "failed"}    \* "failed" is an Err or a captured panic
Ended == {"exited", "unwound"}
Buffered == {chan[k] : k \in 1 .. Len(chan)}

Results == {"Finished", "StoppedByTaskFailurePolicy", "CountShortfall",
            "CountExceeded", "ProgressReport", "IncompleteSchedule",
            "ScheduleFailed", "Panic"}

(* Where the caller and each worker job are, and what each of them owns: a  *)
(* task in the hand, in the channel or held has an index the source gave.   *)
TypeOK ==
    /\ pc \in {"start", "spawn", "ask", "pull", "send", "close", "join", "report", "done"}
    /\ original \in BOOLEAN
    /\ sender \in BOOLEAN
    /\ chan \in Seq(Task)
    /\ hand \in Task \cup {NoTask}
    /\ job \in [Worker -> {"unspawned", "queued", "recv", "run", "drop"} \cup Ended]
    /\ holds \in [Worker -> Task \cup {NoTask}]
    /\ accepted \in 0 .. Count
    /\ outcome \in [Task -> Recorded \cup {"none"}]
    /\ exhausted \in BOOLEAN
    /\ exceeded \in BOOLEAN
    /\ reporter \in {"ok", "failed"}
    /\ closure \in {"running", "ok", "disconnected", "panicked"}
    /\ discarded \in SUBSET Task
    /\ result \in Results \cup {"none"}

Init ==
    /\ pc = "start"
    /\ original = TRUE
    /\ sender = TRUE
    /\ chan = <<>>
    /\ hand = NoTask
    /\ job = [w \in Worker |-> "unspawned"]
    /\ holds = [w \in Worker |-> NoTask]
    /\ accepted = 0
    /\ outcome = [i \in Task |-> "none"]
    /\ exhausted = FALSE
    /\ exceeded = FALSE
    /\ reporter = "ok"
    /\ closure = "running"
    /\ discarded = {}
    /\ result = "none"

-----------------------------------------------------------------------------
(* What the shared execution context answers.                               *)

Failures == {i \in Task : outcome[i] = "failed"}
Unfinished == {i \in Task : i < accepted /\ outcome[i] = "none"}

PolicyReached == FailureLimit > 0 /\ Cardinality(Failures) >= FailureLimit

\* Why the counted source stops asking the user's iterator.
Stopped == PolicyReached \/ reporter = "failed"

\* crossbeam refuses a send once every receiver is gone.  A job that has not
\* started, or has not been spawned yet, still owns its clone or will be cloned
\* from the original.
ReceiversGone == ~original /\ \A w \in Worker : job[w] \in Ended

-----------------------------------------------------------------------------
(* The calling thread.                                                      *)

\* The coordinator converts the source, reports Started synchronously and
\* starts the automatic reporter before it calls the closure that spawns.
Start ==
    /\ pc = "start"
    /\ pc' = "spawn"
    /\ UNCHANGED <<batchVars, sourceVars, hand, closure, result>>

\* A failing Started report is an error without a task; a panic of the source's
\* conversion, of the report or of the reporter's creation propagates.
StartFails ==
    /\ pc = "start"
    /\ pc' = "done"
    /\ result' \in {"Panic"} \cup (IF Reporting THEN {"ProgressReport"} ELSE {})
    /\ UNCHANGED <<batchVars, sourceVars, hand, closure>>

\* scope.spawn_fifo of the next worker job, with its clone of the receiver.
Spawn(w) ==
    /\ pc = "spawn"
    /\ job[w] = "unspawned"
    /\ \A v \in Worker : v < w => job[v] # "unspawned"
    /\ job' = [job EXCEPT ![w] = "queued"]
    /\ UNCHANGED <<callerVars, chanVars, holds, outcome, reporter, discarded>>

\* Mutant: drop(work_receiver) is missing.
DropReceiverOmitted ==
    /\ pc = "spawn"
    /\ \A w \in Worker : job[w] # "unspawned"
    /\ pc' = "ask"
    /\ UNCHANGED <<workVars, chanVars, sourceVars, hand, closure, result, reporter, discarded>>

\* drop(work_receiver), after the spawn loop.
DropReceiver ==
    /\ pc = "spawn"
    /\ \A w \in Worker : job[w] # "unspawned"
    /\ original' = FALSE
    /\ pc' = "ask"
    /\ UNCHANGED <<workVars, sourceVars, hand, closure, result, chan, sender, reporter, discarded>>

\* Mutant: the source is asked whatever the policy says.
AskAlways ==
    /\ pc = "ask"
    /\ pc' = "pull"
    /\ UNCHANGED <<batchVars, sourceVars, hand, closure, result>>

\* source.next(): the counted source looks for a reason to stop before it
\* enters the user's iterator.
Ask ==
    /\ pc = "ask"
    /\ pc' = IF Stopped THEN "close" ELSE "pull"
    /\ UNCHANGED <<batchVars, sourceVars, hand, closure, result>>

\* The iterator is really exhausted, even if a stop was requested meanwhile.
PullNone ==
    /\ pc = "pull"
    /\ exhausted' = TRUE
    /\ pc' = "close"
    /\ UNCHANGED <<batchVars, hand, accepted, exceeded, closure, result>>

\* One item too many: it is not run.
PullExtra ==
    /\ pc = "pull"
    /\ accepted = Count
    /\ exceeded' \in IF Stopped THEN BOOLEAN ELSE {TRUE}
    /\ pc' = "close"
    /\ UNCHANGED <<batchVars, hand, accepted, exhausted, closure, result>>

\* Mutant: the declared count is not looked at.
PullAcceptExtra ==
    /\ pc = "pull"
    /\ hand' = accepted
    /\ accepted' = accepted + 1
    /\ pc' = "send"
    /\ UNCHANGED <<batchVars, exhausted, exceeded, closure, result>>

\* The item is accepted with the next index.
PullAccept ==
    /\ pc = "pull"
    /\ accepted < Count
    /\ hand' = accepted
    /\ accepted' = accepted + 1
    /\ pc' = "send"
    /\ UNCHANGED <<batchVars, exhausted, exceeded, closure, result>>

\* A stop requested while the iterator ran: the item may be refused.
PullRefuse ==
    /\ pc = "pull"
    /\ accepted < Count
    /\ Stopped
    /\ pc' = "close"
    /\ UNCHANGED <<batchVars, sourceVars, hand, closure, result>>

\* The iterator panics: unwinding the closure drops the sender, and the scope
\* still waits for its jobs.
PullPanics ==
    /\ pc = "pull"
    /\ sender' = FALSE
    /\ closure' = "panicked"
    /\ pc' = "join"
    /\ UNCHANGED <<workVars, sourceVars, hand, result, chan, original, reporter, discarded>>

\* Mutant: an unbounded channel.
SendUnbounded ==
    /\ pc = "send"
    /\ ~ReceiversGone
    /\ chan' = Append(chan, hand)
    /\ hand' = NoTask
    /\ pc' = "ask"
    /\ UNCHANGED <<workVars, sourceVars, closure, result, original, sender, reporter, discarded>>

\* work_sender.send(task) blocks while the channel holds WorkerCount tasks.
Send ==
    /\ pc = "send"
    /\ ~ReceiversGone
    /\ Len(chan) < WorkerCount
    /\ chan' = Append(chan, hand)
    /\ hand' = NoTask
    /\ pc' = "ask"
    /\ UNCHANGED <<workVars, sourceVars, closure, result, original, sender, reporter, discarded>>

\* work_sender.send(task) fails: the closure returns WorkChannelDisconnected
\* and drops the sender and the task.
SendFails ==
    /\ pc = "send"
    /\ ReceiversGone
    /\ discarded' = discarded \cup {hand}
    /\ hand' = NoTask
    /\ sender' = FALSE
    /\ closure' = "disconnected"
    /\ pc' = "join"
    /\ UNCHANGED <<workVars, sourceVars, result, chan, original, reporter>>

\* Mutant: the jobs are spawned outside the scope, so nothing waits for them.
CloseSenderDetached ==
    /\ pc = "close"
    /\ sender' = FALSE
    /\ closure' = "ok"
    /\ pc' = "report"
    /\ UNCHANGED <<workVars, sourceVars, hand, result, chan, original, reporter, discarded>>

\* The for loop is over: drop(work_sender), Ok(()).
CloseSender ==
    /\ pc = "close"
    /\ sender' = FALSE
    /\ closure' = "ok"
    /\ pc' = "join"
    /\ UNCHANGED <<workVars, sourceVars, hand, result, chan, original, reporter, discarded>>

\* in_place_scope_fifo waits for every spawned job, whatever the closure did.
Joined == \A w \in Worker : job[w] \in Ended

\* A panic of a job or of the closure outranks the closure's return value.
Unwinds == closure = "panicked" \/ \E w \in Worker : job[w] = "unwound"

JoinUnwinds ==
    /\ pc = "join"
    /\ Joined
    /\ Unwinds
    /\ pc' = "done"
    /\ result' = "Panic"
    /\ UNCHANGED <<batchVars, sourceVars, hand, closure>>

Join ==
    /\ pc = "join"
    /\ Joined
    /\ ~Unwinds
    /\ pc' = "report"
    /\ UNCHANGED <<batchVars, sourceVars, hand, closure, result>>

CountErrors ==
    IF exceeded THEN {"CountExceeded"}
    ELSE IF exhausted /\ accepted < Count THEN {"CountShortfall"}
    ELSE {}

Conclusion ==
    IF exhausted THEN "Finished" ELSE "StoppedByTaskFailurePolicy"

\* What the coordinator makes of the finished batch.  The order of a running
\* report failure and a count error is left open; a failing terminal report
\* is attached to a count error, and replaces every other answer.
Verdicts ==
    IF closure = "disconnected" THEN {"ScheduleFailed"}
    ELSE IF Unfinished # {} THEN {"IncompleteSchedule"}
    ELSE IF reporter = "failed" THEN {"ProgressReport"} \cup CountErrors
    ELSE IF CountErrors # {} THEN CountErrors
    ELSE {Conclusion} \cup (IF Reporting THEN {"ProgressReport"} ELSE {})

Conclude ==
    /\ pc = "report"
    /\ result' \in Verdicts \cup (IF Reporting THEN {"Panic"} ELSE {})
    /\ pc' = "done"
    /\ UNCHANGED <<batchVars, sourceVars, hand, closure>>

-----------------------------------------------------------------------------
(* The worker jobs: run_rayon_worker.                                       *)

\* The pool takes the jobs of the scope in FIFO order.
StartJob(w) ==
    /\ job[w] = "queued"
    /\ \A v \in Worker : v < w => job[v] # "queued"
    /\ job' = [job EXCEPT ![w] = "recv"]
    /\ UNCHANGED <<callerVars, chanVars, holds, outcome, reporter, discarded>>

\* Mutant: the task stays in the channel.
RecvKeeps(w) ==
    /\ job[w] = "recv"
    /\ chan # <<>>
    /\ holds' = [holds EXCEPT ![w] = Head(chan)]
    /\ job' = [job EXCEPT ![w] = "run"]
    /\ UNCHANGED <<callerVars, chanVars, outcome, reporter, discarded>>

\* work_receiver.recv() returns a task.
Recv(w) ==
    /\ job[w] = "recv"
    /\ chan # <<>>
    /\ holds' = [holds EXCEPT ![w] = Head(chan)]
    /\ chan' = Tail(chan)
    /\ job' = [job EXCEPT ![w] = "run"]
    /\ UNCHANGED <<callerVars, original, sender, outcome, reporter, discarded>>

\* Mutant: try_recv instead of recv, a worker leaves when it finds nothing.
RecvTried(w) ==
    /\ job[w] = "recv"
    /\ chan = <<>>
    /\ job' = [job EXCEPT ![w] = "exited"]
    /\ UNCHANGED <<callerVars, chanVars, holds, outcome, reporter, discarded>>

\* work_receiver.recv() fails: the loop breaks and the receiver is dropped.
RecvClosed(w) ==
    /\ job[w] = "recv"
    /\ chan = <<>>
    /\ ~sender
    /\ job' = [job EXCEPT ![w] = "exited"]
    /\ UNCHANGED <<callerVars, chanVars, holds, outcome, reporter, discarded>>

\* context.execute_task(task): Runnable::run is called, a panic is captured,
\* and the outcome is recorded.
RunTask(w) ==
    /\ job[w] = "run"
    /\ \E o \in Recorded : outcome' = [outcome EXCEPT ![holds[w]] = o]
    /\ job' = [job EXCEPT ![w] = "drop"]
    /\ UNCHANGED <<callerVars, chanVars, holds, reporter, discarded>>

\* The runnable is destroyed and the worker receives again.
DropTask(w) ==
    /\ job[w] = "drop"
    /\ holds' = [holds EXCEPT ![w] = NoTask]
    /\ job' = [job EXCEPT ![w] = "recv"]
    /\ UNCHANGED <<callerVars, chanVars, outcome, reporter, discarded>>

\* Destroying the runnable panics: the job unwinds and drops its receiver.
\* The last receiver to go discards what the channel still buffers.
DropPanics(w) ==
    /\ job[w] = "drop"
    /\ holds' = [holds EXCEPT ![w] = NoTask]
    /\ job' = [job EXCEPT ![w] = "unwound"]
    /\ IF ~original /\ \A v \in Worker \ {w} : job[v] \in Ended
       THEN /\ discarded' = discarded \cup Buffered
            /\ chan' = <<>>
       ELSE UNCHANGED <<chan, discarded>>
    /\ UNCHANGED <<callerVars, original, sender, outcome, reporter>>

\* The automatic running reporter fails while the batch runs.
ReporterFails ==
    /\ Reporting
    /\ pc \in {"spawn", "ask", "pull", "send", "close", "join"}
    /\ reporter = "ok"
    /\ reporter' = "failed"
    /\ UNCHANGED <<callerVars, chanVars, workVars, discarded>>

-----------------------------------------------------------------------------

Producer ==
    \/ Start \/ StartFails
    \/ (\E w \in Worker : Spawn(w)) \/ DropReceiver
    \/ Ask \/ PullNone \/ PullExtra \/ PullAccept \/ PullRefuse \/ PullPanics
    \/ Send \/ SendFails \/ CloseSender
    \/ Join \/ JoinUnwinds \/ Conclude

Work(w) ==
    StartJob(w) \/ Recv(w) \/ RecvClosed(w) \/ RunTask(w) \/ DropTask(w) \/ DropPanics(w)

\* The call is over; nothing of it is left to move.
Terminated == pc = "done" /\ UNCHANGED vars

Next == Producer \/ (\E w \in Worker : Work(w)) \/ ReporterFails \/ Terminated

Spec == Init /\ [][Next]_vars

\* The operating system schedules the caller and the pool's threads, the pool
\* takes queued jobs, and the user's iterator and tasks return.  Nothing makes
\* a reporter fail.
Fairness == WF_vars(Producer) /\ \A w \in Worker : WF_vars(Work(w))

FairSpec == Spec /\ Fairness

-----------------------------------------------------------------------------
InHand == {hand} \ {NoTask}
Held == {holds[w] : w \in {v \in Worker : job[v] = "run"}}
Completed == {i \in Task : outcome[i] # "none"}

(* Every accepted task is in exactly one place: in the caller's hand, in    *)
(* the channel, owned by one worker that has not run it yet, recorded, or   *)
(* destroyed unrun.  The workers share one receiver and the scope may       *)
(* unwind at any time, but no task is lost, and none is run twice.          *)
TaskAccounting ==
    /\ InHand \cup Buffered \cup Held \cup Completed \cup discarded = 0 .. accepted - 1
    /\ InHand \cap (Buffered \cup Held \cup Completed \cup discarded) = {}
    /\ Buffered \cap (Held \cup Completed \cup discarded) = {}
    /\ Held \cap (Completed \cup discarded) = {}
    /\ Completed \cap discarded = {}
    /\ \A k, l \in 1 .. Len(chan) : chan[k] = chan[l] => k = l
    /\ \A v, w \in Worker :
          job[v] = "run" /\ job[w] = "run" /\ holds[v] = holds[w] => v = w

(* execute_with_count returns or unwinds only when its scope is empty: no   *)
(* job can still run and borrow the call's context, the channel holds       *)
(* nothing, and a structured answer leaves no accepted task unrun.          *)
NothingOutlivesTheCall ==
    pc = "done" =>
        /\ \A w \in Worker : job[w] \in Ended \cup {"unspawned"}
        /\ Held = {} /\ Buffered = {} /\ InHand = {}
        /\ result # "Panic" => Unfinished = {} /\ discarded = {}

(* The closure can fail with WorkChannelDisconnected only because every     *)
(* worker has unwound, so the scope propagates that panic instead: the call *)
(* never answers ScheduleFailed or IncompleteSchedule.                      *)
NoSchedulingError == result \notin {"ScheduleFailed", "IncompleteSchedule"}

(* The documentation of execute_with_count: it returns ScheduleFailed if    *)
(* the internal work channel disconnects.                                   *)
DisconnectIsReported ==
    pc = "done" /\ closure = "disconnected" => result = "ScheduleFailed"

Contract == INSTANCE BatchContract WITH
    Window <- 2 * WorkerCount + 1,
    pulling <- (pc = "pull")

(* The parallel path keeps the promise of BatchExecutor: tasks run once and *)
(* during the call, the source is asked only while the policy is not        *)
(* reached, and the answer is true of the tasks.                            *)
ImplementsContract == Contract!Spec

(* The caller is ahead of the completed tasks by at most one item, a full   *)
(* channel and a busy worker each: 2 * worker_count + 1 items, however long *)
(* the source is.                                                           *)
AdmissionWindow == Contract!AdmissionWindow

(* The failures finally recorded exceed the policy's limit by at most the   *)
(* items that were in flight when it was reached.                           *)
FailureOvershoot == Contract!FailureOvershoot

\* The two places where the caller blocks: send on a full channel that still
\* has a receiver, and the scope's wait for its jobs.
CallerBlocked ==
    \/ pc = "send" /\ ~ReceiversGone /\ Len(chan) >= WorkerCount
    \/ pc = "join" /\ ~Joined

\* A job that is over or not spawned has no step, one in the pool's queue waits
\* for those before it, and recv blocks on an empty channel with a sender.
WorkerBlocked(w) ==
    \/ job[w] \in Ended \cup {"unspawned"}
    \/ job[w] = "queued" /\ \E v \in Worker : v < w /\ job[v] = "queued"
    \/ job[w] = "recv" /\ chan = <<>> /\ sender

(* Until the call is over somebody can go on, without the help of the       *)
(* reporter: while the caller waits in send or for its scope, some worker   *)
(* is not blocked, wherever the others have unwound or the source stopped.  *)
NeverStuck ==
    pc # "done" => ~CallerBlocked \/ \E w \in Worker : ~WorkerBlocked(w)

\* The steps of the calling thread outside its loop, or that it has left there.
CallerSteps ==
    CASE pc = "start" -> 7 [] pc = "spawn" -> 6 [] pc = "ask" -> 5
      [] pc = "pull" -> 4 [] pc = "send" -> 6 [] pc = "close" -> 3
      [] pc = "join" -> 2 [] pc = "report" -> 1 [] OTHER -> 0

JobSteps(w) ==
    CASE job[w] = "unspawned" -> 3 [] job[w] = "queued" -> 2 [] job[w] = "recv" -> 1
      [] job[w] = "run" -> 3 [] job[w] = "drop" -> 2 [] OTHER -> 0

JobsLeft == {s \in Worker \X (1 .. 3) : s[2] <= JobSteps(s[1])}

\* What a call still has to do at most.  An item of the source costs six steps:
\* ask, pull and send, then receive, run and destroy; a job is spawned, starts
\* and ends; the reporter can fail once.
StepsLeft ==
    CallerSteps + 6 * (Count - accepted) + 3 * (Cardinality(InHand) + Len(chan))
    + Cardinality(JobsLeft) + (IF reporter = "ok" THEN 1 ELSE 0)

(* Every step of a call uses up one of the steps it has left: no loop of    *)
(* the caller or of a worker goes round without an item, so that no         *)
(* interleaving and no sequence of failures keeps a call busy for ever.     *)
EveryStepCounts == [][StepsLeft' < StepsLeft]_vars

(* A call returns or unwinds, whatever the iterator, the tasks and the      *)
(* reporter answer, provided they return: the caller is never left blocked  *)
(* on a full channel, nor the workers on an empty one.                      *)
CallReturns == <>(pc = "done")
=============================================================================
