---------------------------- MODULE NestedPools -----------------------------
(***************************************************************************)
(* Several executors, their clones, and calls that call: the tasks and the *)
(* lazy sources of a batch start further batches on the same or on another *)
(* Rayon pool.  A thread is a stack of frames.  A call frame is a thread   *)
(* inside execute_with_count, a job frame is a pool thread inside          *)
(* run_rayon_worker.  The module is about what keeps such programs moving: *)
(* ActiveBatchGuard, the sequential fallback, the bounded channel, and     *)
(* Rayon's cooperative wait.                                               *)
(*                                                                         *)
(* Which call starts which is the user's program, and is given by Plan;    *)
(* a run may look at several programs, each in behaviours of its own.      *)
(* Tasks succeed, or panic when a call they made panicked; a source panics *)
(* where Plan says so, and may wait for another thread's call before it    *)
(* ends.  The scoped thread of the automatic running reporter is a thread  *)
(* as well, and the reporter may call an executor.  What a single call     *)
(* does with failures, failing reports and counts is the subject of        *)
(* RayonBatch.                                                             *)
(***************************************************************************)
EXTENDS Integers, Sequences, FiniteSets

CONSTANTS
    Thread,         \* external threads and pool threads
    Pool,           \* Rayon pools; the clones of an executor share one
    Home,           \* Home[t]: the pool whose worker t is, or NoPool
    Threshold,      \* Threshold[p]: sequential_threshold of p's executor
    Call,           \* the calls of the program, each made at most once
    Plan,           \* Plan[c]: what call c is, and the calls made from within it
    Programs,       \* per program and external thread: the calls it makes in turn
    NoPool, NoCall

ASSUME ThreadsAssumption ==
    /\ IsFiniteSet(Thread) /\ IsFiniteSet(Pool) /\ NoPool \notin Pool
    /\ Home \in [Thread -> Pool \cup {NoPool}]
ASSUME ThresholdAssumption == Threshold \in [Pool -> Nat]
ASSUME ProgramsAssumption ==
    \A program \in Programs :
        /\ program \in [Thread -> Seq(Call)]
        /\ \A t \in Thread : Home[t] # NoPool => program[t] = <<>>
ASSUME PlanAssumption ==
    /\ NoCall \notin Call
    /\ \A c \in Call :
          /\ Plan[c].pool \in Pool /\ Plan[c].items \in Nat
          /\ Plan[c].viaCall \in BOOLEAN   \* made through call_with_count
          /\ Plan[c].panics \in BOOLEAN    \* the source panics after its items
          \* the call made by the source before item i, and by task i
          /\ Plan[c].inSource \in [1 .. Plan[c].items -> Call \cup {NoCall}]
          /\ Plan[c].inTask \in [1 .. Plan[c].items -> Call \cup {NoCall}]
          \* the call the source waits for before it reports its exhaustion
          /\ Plan[c].awaits \in Call \cup {NoCall}
          \* the call made by the running reporter; it is not to panic
          /\ Plan[c].inReport \in Call \cup {NoCall}
          /\ Plan[c].inReport # NoCall => ~Plan[Plan[c].inReport].panics

\* The calls made by the source and the tasks of call c, and all that are made
\* from within other calls.
Inside(c) ==
    (UNION {{Plan[c].inSource[i], Plan[c].inTask[i]} : i \in 1 .. Plan[c].items}) \ {NoCall}
Nested == (UNION {Inside(c) \cup {Plan[c].inReport} : c \in Call}) \ {NoCall}

\* A member of Call is one execution of a call: it has one place in the program,
\* and a program makes it itself only if no other call does, and once.
ASSUME SitesAssumption ==
    \A c, d \in Call :
        /\ \A i \in 1 .. Plan[c].items, j \in 1 .. Plan[d].items :
              /\ Plan[c].inSource[i] = Plan[d].inSource[j] /\ Plan[c].inSource[i] # NoCall
                     => c = d /\ i = j
              /\ Plan[c].inTask[i] = Plan[d].inTask[j] /\ Plan[c].inTask[i] # NoCall
                     => c = d /\ i = j
              /\ Plan[c].inSource[i] = Plan[d].inTask[j] => Plan[c].inSource[i] = NoCall
        /\ Plan[c].inReport = Plan[d].inReport /\ Plan[c].inReport # NoCall => c = d
        /\ Plan[c].inReport \notin Inside(d)
ASSUME RootsAssumption ==
    \A program \in Programs : \A t, u \in Thread :
        \A i \in 1 .. Len(program[t]), j \in 1 .. Len(program[u]) :
            /\ program[t][i] \notin Nested
            /\ program[t][i] = program[u][j] => t = u /\ i = j

VARIABLES
    stack,          \* stack[t]: frames, the innermost first
    active,         \* active[t]: ACTIVE_POOLS of the thread
    guard,          \* guard[c]: the call owns an ActiveBatchGuard
    mode,           \* mode[c]: "parallel" or "sequential", once decided
    phase,          \* phase[c]: where the caller is in the call
    next,           \* next[c]: the item the source is to give
    open,           \* open[c]: the work sender is open
    chan,           \* chan[c]: items in the bounded channel
    jobs,           \* jobs[c]: worker jobs that have not ended
    queue,          \* queue[p]: worker jobs waiting for a pool thread
    done,           \* done[c]: items that have completed
    broken,         \* broken[c]: the call is unwinding
    roots           \* roots[t]: calls the external thread has yet to make

callVars == <<guard, mode, phase, next, open, broken>>
workVars == <<chan, jobs, queue, done>>
vars == <<stack, active, callVars, workVars, roots>>

Over == {"returned", "panicked"}

CallFrame(c) == [kind |-> "call", call |-> c, item |-> 0]
JobFrame(c, i) == [kind |-> "job", call |-> c, item |-> i]
Frame == {CallFrame(c) : c \in Call}
         \cup UNION {{JobFrame(c, i) : i \in 0 .. Plan[c].items} : c \in Call}

Workers(p) == {t \in Thread : Home[t] = p}

\* worker_count: the smaller of the pool's capacity and the declared count.
WorkerCount(c) ==
    LET n == Cardinality(Workers(Plan[c].pool))
    IN  IF n < Plan[c].items THEN n ELSE Plan[c].items

(* Frames name calls of the program and items of theirs, registrations name *)
(* pools, and every call is at a point of execute_with_count.               *)
TypeOK ==
    /\ stack \in [Thread -> Seq(Frame)]
    /\ active \in [Thread -> Seq(Pool)]
    /\ guard \in [Call -> BOOLEAN]
    /\ mode \in [Call -> {"none", "parallel", "sequential"}]
    /\ phase \in [Call -> {"idle", "call", "enter", "spawn", "pull", "send", "run", "join"} \cup Over]
    /\ next \in [Call -> Nat]
    /\ open \in [Call -> BOOLEAN]
    /\ chan \in [Call -> Seq(Nat)]
    /\ jobs \in [Call -> Nat]
    /\ queue \in [Pool -> Seq(Call)]
    /\ done \in [Call -> SUBSET Nat]
    /\ broken \in [Call -> BOOLEAN]
    /\ roots \in [Thread -> Seq(Call)]

Init ==
    /\ stack = [t \in Thread |-> <<>>]
    /\ active = [t \in Thread |-> <<>>]
    /\ guard = [c \in Call |-> FALSE]
    /\ mode = [c \in Call |-> "none"]
    /\ phase = [c \in Call |-> "idle"]
    /\ next = [c \in Call |-> 1]
    /\ open = [c \in Call |-> TRUE]
    /\ chan = [c \in Call |-> <<>>]
    /\ jobs = [c \in Call |-> 0]
    /\ queue = [p \in Pool |-> <<>>]
    /\ done = [c \in Call |-> {}]
    /\ broken = [c \in Call |-> FALSE]
    /\ roots \in Programs

-----------------------------------------------------------------------------

InCall(t, c, ph) ==
    /\ stack[t] # <<>>
    /\ Head(stack[t]) = CallFrame(c)
    /\ phase[c] = ph

InJob(t, c, i) == stack[t] # <<>> /\ Head(stack[t]) = JobFrame(c, i)

Replace(t, frame) == stack' = [stack EXCEPT ![t] = <<frame>> \o Tail(@)]

\* Thread t makes call c: the innermost frame is its caller's.
Make(t, c) ==
    /\ stack' = [stack EXCEPT ![t] = <<CallFrame(c)>> \o @]
    /\ phase' = [phase EXCEPT ![c] = IF Plan[c].viaCall THEN "call" ELSE "enter"]

\* A nested call still has to be made / was made and came back.
Due(d) == d # NoCall /\ phase[d] = "idle"
Back(d) == d # NoCall => phase[d] \in Over

\* ActiveBatchGuard::enter gives a guard unless the pool is already active on
\* the thread.
Registers(t, p) == \A k \in 1 .. Len(active[t]) : active[t][k] # p

\* Mutant: the oldest registration goes, whichever pool it is of.
WithoutOldest(s, p) == Tail(s)

\* Dropping a guard removes the last registration of its pool, if any.
WithoutLast(s, p) ==
    LET Last == {k \in 1 .. Len(s) : s[k] = p /\ \A j \in k + 1 .. Len(s) : s[j] # p}
    IN  IF Last = {} THEN s
        ELSE LET k == CHOOSE k \in Last : TRUE
             IN  SubSeq(s, 1, k - 1) \o SubSeq(s, k + 1, Len(s))

\* Mutants: only the registry, or only the thread, is looked at.
ReentrantByRegistry(t, p) == ~Registers(t, p)
ReentrantByThread(t, p) == Home[t] = p

\* active_guard.is_none() || pool.current_thread_index().is_some()
Reentrant(t, p) == ~Registers(t, p) \/ Home[t] = p

\* ... || count <= sequential_threshold || thread_count <= 1
RunsSequentially(t, c) ==
    LET p == Plan[c].pool
    IN  \/ Reentrant(t, p)
        \/ Plan[c].items <= Threshold[p]
        \/ Cardinality(Workers(p)) <= 1

-----------------------------------------------------------------------------
(* The caller.                                                              *)

StartRoot(t) ==
    /\ stack[t] = <<>>
    /\ roots[t] # <<>>
    /\ Make(t, Head(roots[t]))
    /\ roots' = [roots EXCEPT ![t] = Tail(@)]
    /\ UNCHANGED <<active, guard, mode, next, open, broken, workVars>>

\* Mutant: call_with_count holds its guard while it calls execute_with_count.
KeepsAnyGuard(t, c, sequential) == Registers(t, Plan[c].pool)

\* The guard of the fallback is held while the tasks run; the guard of the
\* parallel path of call_with_count is dropped before execute_with_count
\* enters its own.
KeepsGuard(t, c, sequential) ==
    Registers(t, Plan[c].pool) /\ (sequential \/ phase[c] = "enter")

Decide(t, c) ==
    LET sequential == RunsSequentially(t, c)
        keeps == KeepsGuard(t, c, sequential)
    IN  /\ mode' = [mode EXCEPT ![c] = IF sequential THEN "sequential" ELSE "parallel"]
        /\ phase' = [phase EXCEPT ![c] = IF sequential THEN "pull"
                                         ELSE IF @ = "call" THEN "enter" ELSE "spawn"]
        /\ guard' = [guard EXCEPT ![c] = keeps]
        /\ active' = IF keeps THEN [active EXCEPT ![t] = Append(@, Plan[c].pool)] ELSE active
        /\ UNCHANGED <<stack, next, open, broken, workVars, roots>>

CallWithCount(t, c) == InCall(t, c, "call") /\ Decide(t, c)
ExecuteWithCount(t, c) == InCall(t, c, "enter") /\ Decide(t, c)

\* Mutant: the range of the spawn loop includes its end.
SpawnOneMore(t, c) ==
    /\ InCall(t, c, "spawn")
    /\ jobs' = [jobs EXCEPT ![c] = @ + 1]
    /\ queue' = [queue EXCEPT ![Plan[c].pool] = Append(@, c)]
    /\ phase' = [phase EXCEPT ![c] = IF jobs'[c] > WorkerCount(c) THEN "pull" ELSE @]
    /\ UNCHANGED <<stack, active, guard, mode, next, open, broken, chan, done, roots>>

\* Mutant: rayon's own in_place_scope_fifo, the scope of the caller's pool.
SpawnAtHome(t, c) ==
    LET p == IF Home[t] = NoPool THEN Plan[c].pool ELSE Home[t]
    IN  /\ InCall(t, c, "spawn")
        /\ jobs' = [jobs EXCEPT ![c] = @ + 1]
        /\ queue' = [queue EXCEPT ![p] = Append(@, c)]
        /\ phase' = [phase EXCEPT ![c] = IF jobs'[c] = WorkerCount(c) THEN "pull" ELSE @]
        /\ UNCHANGED <<stack, active, guard, mode, next, open, broken, chan, done, roots>>

\* One worker job more in the pool's queue, behind those of other calls.
Spawn(t, c) ==
    /\ InCall(t, c, "spawn")
    /\ jobs' = [jobs EXCEPT ![c] = @ + 1]
    /\ queue' = [queue EXCEPT ![Plan[c].pool] = Append(@, c)]
    /\ phase' = [phase EXCEPT ![c] = IF jobs'[c] = WorkerCount(c) THEN "pull" ELSE @]
    /\ UNCHANGED <<stack, active, guard, mode, next, open, broken, chan, done, roots>>

\* The source makes a call of its own before it gives the next item.
SourceCalls(t, c) ==
    /\ InCall(t, c, "pull")
    /\ next[c] <= Plan[c].items
    /\ LET d == Plan[c].inSource[next[c]] IN Due(d) /\ Make(t, d)
    /\ UNCHANGED <<active, guard, mode, next, open, broken, workVars, roots>>

\* The source gives an item.
SourceGives(t, c) ==
    /\ InCall(t, c, "pull")
    /\ next[c] <= Plan[c].items
    /\ LET d == Plan[c].inSource[next[c]] IN Back(d) /\ (d # NoCall => phase[d] = "returned")
    /\ phase' = [phase EXCEPT ![c] = IF mode[c] = "parallel" THEN "send" ELSE "run"]
    /\ UNCHANGED <<stack, active, guard, mode, next, open, broken, workVars, roots>>

\* Mutant: the sender outlives the closure, drop(work_sender) is missing.
SourceEndsSenderKept(t, c) ==
    /\ InCall(t, c, "pull")
    /\ next[c] > Plan[c].items
    /\ Back(Plan[c].awaits)
    /\ phase' = [phase EXCEPT ![c] = "join"]
    /\ UNCHANGED <<stack, active, guard, mode, next, open, broken, workVars, roots>>

\* The source is exhausted, once it has waited for the call it awaits, or
\* panics itself or with the call it made: the sender is dropped either way,
\* and the scope is waited for.
SourceEnds(t, c) ==
    LET exhausted == next[c] > Plan[c].items
        panics == IF exhausted THEN Plan[c].panics
                  ELSE LET d == Plan[c].inSource[next[c]]
                       IN  d # NoCall /\ phase[d] = "panicked"
    IN  /\ InCall(t, c, "pull")
        /\ IF exhausted THEN Back(Plan[c].awaits) ELSE panics
        /\ open' = [open EXCEPT ![c] = FALSE]
        /\ broken' = [broken EXCEPT ![c] = panics]
        /\ phase' = [phase EXCEPT ![c] = "join"]
        /\ UNCHANGED <<stack, active, guard, mode, next, workVars, roots>>

\* Mutant: the index is advanced before the item is sent.
SendAdvanced(t, c) ==
    /\ InCall(t, c, "send")
    /\ Len(chan[c]) < WorkerCount(c)
    /\ next' = [next EXCEPT ![c] = @ + 1]
    /\ chan' = [chan EXCEPT ![c] = Append(@, next'[c])]
    /\ phase' = [phase EXCEPT ![c] = "pull"]
    /\ UNCHANGED <<stack, active, guard, mode, open, broken, jobs, queue, done, roots>>

\* Mutant: an unbounded channel, a send never blocks.
SendUnbounded(t, c) ==
    /\ InCall(t, c, "send")
    /\ chan' = [chan EXCEPT ![c] = Append(@, next[c])]
    /\ next' = [next EXCEPT ![c] = @ + 1]
    /\ phase' = [phase EXCEPT ![c] = "pull"]
    /\ UNCHANGED <<stack, active, guard, mode, open, broken, jobs, queue, done, roots>>

\* work_sender.send: blocks the thread itself while the channel is full.
Send(t, c) ==
    /\ InCall(t, c, "send")
    /\ Len(chan[c]) < WorkerCount(c)
    /\ chan' = [chan EXCEPT ![c] = Append(@, next[c])]
    /\ next' = [next EXCEPT ![c] = @ + 1]
    /\ phase' = [phase EXCEPT ![c] = "pull"]
    /\ UNCHANGED <<stack, active, guard, mode, open, broken, jobs, queue, done, roots>>

\* Threads for reporters: created for a call, of no pool and no program.
ReporterThread == {t \in Thread : Home[t] = NoPool /\ \A program \in Programs : program[t] = <<>>}

\* The reporter runs beside a parallel batch and has its call still to make.
ReportDue(c) ==
    mode[c] = "parallel" /\ phase[c] \in {"spawn", "pull", "send", "join"} /\ Due(Plan[c].inReport)

\* Mutant: a reporter's thread for every call, also for one that falls back.
ReporterCallsAlways(t, c) ==
    /\ t \in ReporterThread /\ stack[t] = <<>>
    /\ phase[c] \notin {"idle"} \cup Over
    /\ Due(Plan[c].inReport)
    /\ Make(t, Plan[c].inReport)
    /\ UNCHANGED <<active, guard, mode, next, open, broken, workVars, roots>>

\* The running reporter of call c makes a call, on a thread without registrations.
ReporterCalls(t, c) ==
    /\ t \in ReporterThread /\ stack[t] = <<>>
    /\ ReportDue(c)
    /\ Make(t, Plan[c].inReport)
    /\ UNCHANGED <<active, guard, mode, next, open, broken, workVars, roots>>

\* The reporter's thread is joined before the call ends.
ReporterJoined(c) ==
    LET d == Plan[c].inReport IN d # NoCall => phase[d] \in {"idle"} \cup Over

\* The scope is empty: the call returns or unwinds, and drops its guard.
Leave(t, c) ==
    /\ InCall(t, c, "join")
    /\ jobs[c] = 0
    /\ ReporterJoined(c)
    /\ phase' = [phase EXCEPT ![c] = IF broken[c] THEN "panicked" ELSE "returned"]
    /\ guard' = [guard EXCEPT ![c] = FALSE]
    /\ active' = IF guard[c]
                 THEN [active EXCEPT ![t] = WithoutLast(@, Plan[c].pool)]
                 ELSE active
    /\ stack' = [stack EXCEPT ![t] = Tail(@)]
    /\ UNCHANGED <<mode, next, open, broken, workVars, roots>>

-----------------------------------------------------------------------------
(* Tasks, run by a worker job or by the sequential fallback.                *)

\* Task i of call c is being run by thread t.
Running(t, c, i) ==
    \/ InJob(t, c, i) /\ i > 0
    \/ InCall(t, c, "run") /\ i = next[c]

TaskCalls(t, c) ==
    /\ \E i \in 1 .. Plan[c].items :
          /\ Running(t, c, i)
          /\ Due(Plan[c].inTask[i])
          /\ Make(t, Plan[c].inTask[i])
    /\ UNCHANGED <<active, guard, mode, next, open, broken, workVars, roots>>

\* A panic that leaves the task is captured; the batch goes on.
SequentialTaskEnds(t, c) ==
    /\ InCall(t, c, "run")
    /\ Back(Plan[c].inTask[next[c]])
    /\ done' = [done EXCEPT ![c] = @ \cup {next[c]}]
    /\ next' = [next EXCEPT ![c] = @ + 1]
    /\ phase' = [phase EXCEPT ![c] = "pull"]
    /\ UNCHANGED <<stack, active, guard, mode, open, broken, chan, jobs, queue, roots>>

WorkerTaskEnds(t, c) ==
    /\ \E i \in 1 .. Plan[c].items :
          /\ InJob(t, c, i)
          /\ Back(Plan[c].inTask[i])
          /\ done' = [done EXCEPT ![c] = @ \cup {i}]
          /\ Replace(t, JobFrame(c, 0))
    /\ UNCHANGED <<active, callVars, chan, jobs, queue, roots>>

-----------------------------------------------------------------------------
(* The pool threads.                                                        *)

\* An idle worker takes the oldest job of its pool.  So does a worker that
\* waits for a scope of another pool; an external thread just waits.
TakeJob(t) ==
    /\ Home[t] # NoPool
    /\ queue[Home[t]] # <<>>
    /\ stack[t] # <<>> => LET c == Head(stack[t]).call IN InCall(t, c, "join") /\ jobs[c] > 0
    /\ stack' = [stack EXCEPT ![t] = <<JobFrame(Head(queue[Home[t]]), 0)>> \o @]
    /\ queue' = [queue EXCEPT ![Home[t]] = Tail(@)]
    /\ UNCHANGED <<active, callVars, chan, jobs, done, roots>>

\* recv blocks the thread itself while the channel is empty and open.
Recv(t, c) ==
    /\ InJob(t, c, 0)
    /\ chan[c] # <<>>
    /\ Replace(t, JobFrame(c, Head(chan[c])))
    /\ chan' = [chan EXCEPT ![c] = Tail(@)]
    /\ UNCHANGED <<active, callVars, jobs, queue, done, roots>>

\* Mutant: a worker leaves when the channel is closed, drained or not.
JobEndsUndrained(t, c) ==
    /\ InJob(t, c, 0)
    /\ ~open[c]
    /\ jobs' = [jobs EXCEPT ![c] = @ - 1]
    /\ stack' = [stack EXCEPT ![t] = Tail(@)]
    /\ UNCHANGED <<active, callVars, chan, queue, done, roots>>

JobEnds(t, c) ==
    /\ InJob(t, c, 0)
    /\ chan[c] = <<>>
    /\ ~open[c]
    /\ jobs' = [jobs EXCEPT ![c] = @ - 1]
    /\ stack' = [stack EXCEPT ![t] = Tail(@)]
    /\ UNCHANGED <<active, callVars, chan, queue, done, roots>>

-----------------------------------------------------------------------------

\* The calls whose reporter calls.
Reporting == {c \in Call : Plan[c].inReport # NoCall}

Step(t) ==
    \/ StartRoot(t) \/ TakeJob(t)
    \/ \E c \in Reporting : ReporterCalls(t, c)
    \/ \E c \in {stack[t][k].call : k \in 1 .. Len(stack[t])} :
          \/ CallWithCount(t, c) \/ ExecuteWithCount(t, c) \/ Spawn(t, c)
          \/ SourceCalls(t, c) \/ SourceGives(t, c) \/ SourceEnds(t, c)
          \/ Send(t, c) \/ Leave(t, c)
          \/ TaskCalls(t, c) \/ SequentialTaskEnds(t, c) \/ WorkerTaskEnds(t, c)
          \/ Recv(t, c) \/ JobEnds(t, c)

Finished == \A t \in Thread : roots[t] = <<>> /\ stack[t] = <<>>
Terminated == Finished /\ UNCHANGED vars

Next == (\E t \in Thread : Step(t)) \/ Terminated

Spec == Init /\ [][Next]_vars

\* Every thread that can take a step is scheduled eventually.
FairSpec == Spec /\ \A t \in Thread : WF_vars(Step(t))

-----------------------------------------------------------------------------

Frames(t) == {stack[t][k] : k \in 1 .. Len(stack[t])}

(* ACTIVE_POOLS of a thread lists, once each, the pools of the calls on its *)
(* stack that own a guard: returning, unwinding and the hand-over from      *)
(* call_with_count to execute_with_count neither leak a registration nor    *)
(* remove another call's, whatever was nested in between.                   *)
GuardRegistry ==
    \A t \in Thread :
        LET owners == {c \in Call : guard[c] /\ CallFrame(c) \in Frames(t)}
        IN  /\ {active[t][k] : k \in 1 .. Len(active[t])} = {Plan[c].pool : c \in owners}
            /\ Len(active[t]) = Cardinality(owners)

(* A thread never waits in a parallel call for a pool it is part of, nor in *)
(* two parallel calls for one pool: such a call could only be served by the *)
(* threads it keeps busy.                                                   *)
NoSelfWait ==
    \A t \in Thread, c \in Call :
        CallFrame(c) \in Frames(t) /\ mode[c] = "parallel" =>
            /\ Home[t] # Plan[c].pool
            /\ \A d \in Call \ {c} :
                  CallFrame(d) \in Frames(t) /\ mode[d] = "parallel"
                      => Plan[d].pool # Plan[c].pool

(* A large call on an executor of several threads loses its parallelism     *)
(* only by reentry: the caller is a worker of the pool, or an outer call on *)
(* the same stack is using that pool.                                       *)
LosesParallelismOnlyByReentry ==
    \A t \in Thread : \A k \in 1 .. Len(stack[t]) :
        LET c == stack[t][k].call
            p == Plan[c].pool
        IN  stack[t][k].kind = "call" /\ mode[c] = "sequential" =>
                \/ Plan[c].items <= Threshold[p]
                \/ Cardinality(Workers(p)) <= 1
                \/ Home[t] = p
                \/ \E j \in k + 1 .. Len(stack[t]) :
                      stack[t][j].kind = "call" /\ Plan[stack[t][j].call].pool = p

(* When a call is over its scope is empty, and a call that returned has run *)
(* every item exactly to completion, on whichever threads they ran.         *)
CompleteOnReturn ==
    \A c \in Call :
        /\ phase[c] \in Over => jobs[c] = 0 /\ chan[c] = <<>>
        /\ phase[c] = "returned" => done[c] = 1 .. Plan[c].items

(* Every call of the program comes back.                                    *)
AllCallsReturn == <>Finished

-----------------------------------------------------------------------------

\* A nested call has been made and is not back.
InProgress(d) == d # NoCall /\ phase[d] \notin {"idle"} \cup Over

\* The source of call c waits: for a call it made itself, or for another
\* thread's call.
SourceWaits(c) ==
    /\ phase[c] = "pull"
    /\ IF next[c] <= Plan[c].items THEN InProgress(Plan[c].inSource[next[c]])
                                   ELSE ~Back(Plan[c].awaits)

JobQueued(t) == Home[t] # NoPool /\ queue[Home[t]] # <<>>
\* Everything a thread may have to wait for: work, an item, room in a channel,
\* the end of a scope, or what its source or its task waits for.
Blocked(t) ==
    \/ /\ stack[t] = <<>> /\ roots[t] = <<>> /\ ~JobQueued(t)
       /\ t \in ReporterThread => \A c \in Reporting : ~ReportDue(c)
    \/ \E c \in Call :
          \/ InJob(t, c, 0) /\ chan[c] = <<>> /\ open[c]
          \/ InCall(t, c, "send") /\ Len(chan[c]) >= WorkerCount(c)
          \/ InCall(t, c, "join") /\ IF jobs[c] > 0 THEN ~JobQueued(t) ELSE ~ReporterJoined(c)
          \/ InCall(t, c, "pull") /\ SourceWaits(c)
          \/ \E i \in 1 .. Plan[c].items : Running(t, c, i) /\ InProgress(Plan[c].inTask[i])

(* These are all the waits: a thread that is not in one of them can go on.  *)
BlockedOnlySo == \A t \in Thread : Blocked(t) <=> ~ENABLED Step(t)

Stalled == ~Finished /\ \A t \in Thread : Blocked(t)

\* With the pools in this order, calls made from within calls go down: those of
\* tasks and sources stay on the pool or go to one below, the reporter's leave it.
GoesDown(rank) ==
    \A c, d \in {e \in Call : phase[e] # "idle"} :
        LET above == Plan[c].pool
            below == Plan[d].pool
        IN  /\ d \in Inside(c) => below = above \/ rank[below] < rank[above]
            /\ d = Plan[c].inReport => rank[below] < rank[above]

CyclicPools == \A rank \in [Pool -> 1 .. Cardinality(Pool)] : ~GoesDown(rank)

(* If nothing can move, it is for one of the two documented reasons: the    *)
(* calls made so far go round in a circle of pools, or a source waits for a *)
(* call while it keeps a worker in recv, or at its very end.  No other      *)
(* program stalls, whatever is nested in what, however small the pools and  *)
(* the channels are, whichever jobs waiting workers have taken.             *)
StallsOnlyAsDocumented ==
    Stalled => \/ CyclicPools
               \/ \E c \in Call : /\ SourceWaits(c)
                                  /\ next[c] <= Plan[c].items => \E t \in Thread : InJob(t, c, 0)

\* The calls made on pool p so far, and whether none of them makes another call
\* from its source or a task, or waits for one.
MadeOn(p) == {c \in Call : Plan[c].pool = p /\ phase[c] # "idle"}
CallsNothing(c) == Inside(c) = {} /\ Plan[c].awaits = NoCall
LeafPool(p) == \A c \in MadeOn(p) : CallsNothing(c)

(* A standstill takes no such pool with it: when nothing can move any more, *)
(* a pool whose calls make no calls has served all of them.  Their sources  *)
(* are at an end, their scopes are empty and every item given has run, also *)
(* when the caller cannot return, because it is buried under a job that it  *)
(* took from its own pool while it waited.                                  *)
LeafPoolsDrain ==
    Stalled => \A p \in Pool : LeafPool(p) =>
        \A c \in MadeOn(p) :
            phase[c] \in {"join"} \cup Over /\ jobs[c] = 0 /\ done[c] = 1 .. next[c] - 1

-----------------------------------------------------------------------------

\* The steps of a call outside its loop.
PhaseSteps(c) ==
    CASE phase[c] = "idle" -> 6 [] phase[c] = "call" -> 5 [] phase[c] = "enter" -> 4
      [] phase[c] = "spawn" -> 3 [] phase[c] = "pull" -> 2
      [] phase[c] \in {"send", "run", "join"} -> 1 [] OTHER -> 0

\* What call c and its jobs still have to do at most, before they are over: an
\* item is given, sent, received and run, a job spawned, taken and ended.
StepsLeft(c) ==
    LET unspawned == IF phase[c] \in {"idle", "call", "enter", "spawn"}
                     THEN WorkerCount(c) - jobs[c] ELSE 0
        queued == {k \in 1 .. Len(queue[Plan[c].pool]) : queue[Plan[c].pool][k] = c}
    IN  PhaseSteps(c) + 3 * (Plan[c].items + 1 - next[c]) + Len(chan[c])
        + Cardinality((1 .. Plan[c].items) \ done[c])
        + 3 * unspawned + Cardinality(queued) + jobs[c]

\* One step of call c is used up, and of no other call.
Uses(c) == StepsLeft(c)' < StepsLeft(c) /\ \A d \in Call \ {c} : StepsLeft(d)' = StepsLeft(d)

(* Every step of every thread is a step of one call, and uses up one of the *)
(* steps this call has left, whatever the thread has on its stack: taking   *)
(* jobs of other calls while it waits, falling back, a panic of a source or *)
(* a call of the reporter never sends a call back to do something again.    *)
EveryStepCounts == [][\E c \in Call : Uses(c)]_vars
=============================================================================
