------------------------------ MODULE CallBatch ------------------------------
(***************************************************************************)
(* One call of call_with_count on the parallel path, with progress         *)
(* reporting.  It is an execute_with_count whose tasks are the runnables   *)
(* of an adapter: each runs and destroys its callable, and deposits the    *)
(* value it gave.  Around the batch the coordinator reports Started, lets  *)
(* a scoped thread report Running while the batch goes on, and reports     *)
(* Succeeded or Failed once that thread is joined.                         *)
(*                                                                         *)
(* The adapter and the reporter are qubit-batch and qubit-progress,        *)
(* outside src/, modelled from what src/ and its tests rely on.            *)
(***************************************************************************)
EXTENDS RayonBatch

CONSTANT MaxRunning     \* bound on the Running events of the model

ASSUME MaxRunningAssumption == MaxRunning \in Nat

VARIABLES
    outputs,        \* indices of the values deposited so far
    events,         \* what the reporter was given, in order
    auto,           \* the automatic reporter's thread
    snapshot        \* completed tasks, as that thread last read them

reportVars == <<events, auto, snapshot>>
callVars == <<vars, outputs, reportVars>>

Event == [phase : {"started", "running", "succeeded", "failed"}, completed : Nat]
Terminal == {"succeeded", "failed"}

CompletedCount == Cardinality(Completed)
Succeeded == {i \in Task : outcome[i] = "succeeded"}

(* Values have the indices of tasks, events a phase and a count, and the     *)
(* reporter's thread is in one place of its loop.                           *)
CallTypeOK ==
    /\ outputs \in SUBSET Task
    /\ events \in Seq(Event)
    /\ auto \in {"off", "idle", "reporting", "joined"}
    /\ snapshot \in 0 .. Count

CallInit ==
    /\ Init
    /\ outputs = {}
    /\ events = <<>>
    /\ auto = "off"
    /\ snapshot = 0

-----------------------------------------------------------------------------
(* The calling thread.                                                      *)

Report(phase) == events' = Append(events, [phase |-> phase, completed |-> CompletedCount])

\* Started is reported by the caller, before the scope exists.
CallStart ==
    /\ Start
    /\ IF Reporting THEN Report("started") /\ auto' = "idle" ELSE UNCHANGED <<events, auto>>
    /\ UNCHANGED <<outputs, snapshot>>

\* The failure may be one of the report itself.
CallStartFails ==
    /\ StartFails
    /\ UNCHANGED events \/ (Reporting /\ Report("started"))
    /\ UNCHANGED <<outputs, auto, snapshot>>

\* Sending callables is sending runnables.  It cannot fail, as no runnable of
\* the adapter unwinds a worker.
CallFeeds ==
    /\ \/ (\E w \in Worker : Spawn(w)) \/ DropReceiver
       \/ Ask \/ PullNone \/ PullExtra \/ PullAccept \/ PullRefuse \/ PullPanics
       \/ Send \/ CloseSender
    /\ UNCHANGED <<outputs, reportVars>>

\* Mutant: the caller goes on while the reporter's thread may be reporting.
ReporterLeft == TRUE

\* The scoped reporter has been joined, if there was one.
ReporterJoined == auto \in {"off", "joined"}

\* Mutant: the thread is told to stop only when the closure returned.
JoinReporterIfOk ==
    /\ pc = "join" /\ Joined /\ closure = "ok"
    /\ auto = "idle"
    /\ auto' = "joined"
    /\ UNCHANGED <<vars, outputs, events, snapshot>>

\* The scope is empty: the thread is told to stop, and joined once it is not
\* inside the user's reporter, also when the call unwinds.
JoinReporter ==
    /\ pc = "join" /\ Joined
    /\ auto = "idle"
    /\ auto' = "joined"
    /\ UNCHANGED <<vars, outputs, events, snapshot>>

CallJoins ==
    /\ ReporterJoined
    /\ Join \/ JoinUnwinds
    /\ UNCHANGED <<outputs, reportVars>>

\* Mutant: the terminal event looks at the tasks only.
CallConcludesByFailures ==
    /\ Conclude
    /\ Reporting
    /\ Report(IF Failures = {} THEN "succeeded" ELSE "failed")
    /\ UNCHANGED <<outputs, auto, snapshot>>

\* The terminal report, by the caller.  Whether there is one after a running
\* report failed is left open.
CallConcludes ==
    /\ Conclude
    /\ \/ /\ Reporting
          /\ Report(IF Failures = {} /\ CountErrors = {} /\ reporter = "ok"
                    THEN "succeeded" ELSE "failed")
       \/ ~(Reporting /\ reporter = "ok") /\ UNCHANGED events
    /\ UNCHANGED <<outputs, auto, snapshot>>

-----------------------------------------------------------------------------
(* The workers.                                                             *)

\* Mutant: the values are numbered from one.
DepositFromOne(w) ==
    /\ job[w] = "run" /\ holds[w] + 1 \notin outputs
    /\ outputs' = outputs \cup {holds[w] + 1}
    /\ UNCHANGED <<vars, reportVars>>

\* The callable gave a value and is destroyed; the adapter deposits the value.
Deposit(w) ==
    /\ job[w] = "run" /\ holds[w] \notin outputs
    /\ outputs' = outputs \cup {holds[w]}
    /\ UNCHANGED <<vars, reportVars>>

\* Mutant: the outcome does not look at what the callable did.
RunCallableAny(w) == RunTask(w) /\ UNCHANGED <<outputs, reportVars>>

\* The runnable ends and its outcome is recorded: a success exactly if it has
\* deposited.  An error, and a panic of the callable or of its destruction,
\* end it before.
RunCallable(w) ==
    /\ RunTask(w)
    /\ outcome'[holds[w]] = "succeeded" <=> holds[w] \in outputs
    /\ UNCHANGED <<outputs, reportVars>>

\* The adapter's own destruction does not panic.
WorkerMoves(w) ==
    /\ StartJob(w) \/ Recv(w) \/ RecvClosed(w) \/ DropTask(w)
    /\ UNCHANGED <<outputs, reportVars>>

-----------------------------------------------------------------------------
(* The automatic running reporter.                                          *)

Batching == pc \in {"spawn", "ask", "pull", "send", "close", "join"}

\* It reads the counters ...
ReportBegins ==
    /\ Batching
    /\ auto = "idle" /\ Len(events) <= MaxRunning
    /\ auto' = "reporting"
    /\ snapshot' = CompletedCount
    /\ UNCHANGED <<vars, outputs, events>>

\* ... and calls the user's reporter.  Its first failure ends the thread.
ReportReturns ==
    /\ auto = "reporting"
    /\ events' = Append(events, [phase |-> "running", completed |-> snapshot])
    /\ \/ auto' = "idle" /\ UNCHANGED vars
       \/ auto' = "joined" /\ ReporterFails
    /\ UNCHANGED <<outputs, snapshot>>

-----------------------------------------------------------------------------

CallCaller ==
    CallStart \/ CallStartFails \/ CallFeeds \/ JoinReporter \/ CallJoins \/ CallConcludes

CallWork(w) == Deposit(w) \/ RunCallable(w) \/ WorkerMoves(w)

CallEnded == Terminated /\ UNCHANGED <<outputs, reportVars>>

CallNext ==
    \/ CallCaller \/ (\E w \in Worker : CallWork(w))
    \/ ReportBegins \/ ReportReturns \/ CallEnded

CallSpec == CallInit /\ [][CallNext]_callVars

\* As for RayonBatch; and a report that has begun returns.
CallFairSpec ==
    /\ CallSpec
    /\ WF_callVars(CallCaller) /\ WF_callVars(ReportReturns)
    /\ \A w \in Worker : WF_callVars(CallWork(w))

-----------------------------------------------------------------------------
(* The values a call hands out are those of its successful tasks, whatever  *)
(* ended it: a value is deposited and its outcome recorded in two steps on  *)
(* some worker, and neither is ever without the other in an answer.  While  *)
(* the call runs no failed task has a value, and no success lacks its own.  *)
OutputsMatchOutcome ==
    /\ Succeeded \subseteq outputs
    /\ outputs \cap Failures = {}
    /\ pc = "done" => outputs = Succeeded

(* The reporter hears one Started first and at most one terminal event,     *)
(* last; the completed count it is given never decreases, though two        *)
(* threads report it, and never runs ahead of the tasks.                    *)
EventsInOrder ==
    /\ \A k \in 1 .. Len(events) :
          /\ events[k].phase = "started" <=> k = 1
          /\ events[k].phase \in Terminal => k = Len(events) /\ pc = "done"
          /\ events[k].completed <= CompletedCount
    /\ \A k, l \in 1 .. Len(events) :
          k <= l => events[k].completed <= events[l].completed

(* A call that answers has told the reporter so, with the final count, and  *)
(* success only if every declared task succeeded.                           *)
TerminalEventIsTrue ==
    /\ result \in {"Finished", "StoppedByTaskFailurePolicy"} /\ Reporting =>
          events # <<>> /\ events[Len(events)].phase \in Terminal
    /\ events # <<>> /\ events[Len(events)].phase \in Terminal =>
          /\ events[Len(events)].completed = accepted
          /\ events[Len(events)].phase = "succeeded" => Succeeded = Task
          /\ events[Len(events)].phase = "failed" => result # "Finished" \/ Failures # {}

\* What a caller waits for in a call: room in a channel that has receivers, or
\* the scope and then the reporter's thread, while that is in a report.
CallWaits ==
    \/ pc = "send" /\ (ReceiversGone \/ Len(chan) >= WorkerCount)
    \/ pc = "join" /\ (~Joined \/ auto = "reporting")

(* Until a call is over the caller, a worker or a report can go on.  A send *)
(* of a call has no answer to give but to wait: that it always has a        *)
(* receiver rests on the jobs, which leave only after the sender is closed, *)
(* and on the adapter, whose runnables unwind none of them.                 *)
CallNeverStuck ==
    pc # "done" => ~CallWaits \/ auto = "reporting" \/ \E w \in Worker : ~WorkerBlocked(w)
=============================================================================
