-------------------------- MODULE CallBatch_proofs --------------------------
(***************************************************************************)
(* Proofs about CallBatch, for every pool size, task count, failure limit  *)
(* and number of reports.  A call refines a batch step by step, so the     *)
(* invariant of RayonBatchInv holds of it; on top of it, the deposited     *)
(* values match the outcomes, no report outlives the call, and the call is *)
(* never stuck.                                                            *)
(***************************************************************************)
EXTENDS CallBatch, RayonBatch_proofs

(* Every step of a call is a step of its batch, or leaves the batch alone.  *)
LEMMA CallStep == [CallNext]_callVars => [Next]_vars
<1> SUFFICES ASSUME [CallNext]_callVars PROVE [Next]_vars
  OBVIOUS
<1>1. CASE CallCaller
  <2>1. CallCaller => Producer \/ UNCHANGED vars
    BY DEF CallCaller, CallStart, CallStartFails, CallFeeds, JoinReporter, CallJoins,
       CallConcludes, Producer
  <2>2. QED
    BY <1>1, <2>1 DEF Next
<1>2. ASSUME NEW w \in Worker, CallWork(w) PROVE [Next]_vars
  <2>1. Work(w) \/ UNCHANGED vars
    BY <1>2 DEF CallWork, Deposit, RunCallable, WorkerMoves, Work
  <2>2. QED
    BY <2>1 DEF Next
<1>3. CASE ReportBegins
  BY <1>3 DEF ReportBegins
<1>4. CASE ReportReturns
  BY <1>4 DEF ReportReturns, Next
<1>5. CASE CallEnded
  BY <1>5 DEF CallEnded, Next
<1>6. CASE UNCHANGED callVars
  BY <1>6 DEF callVars
<1>7. QED
  BY <1>1, <1>2, <1>3, <1>4, <1>5, <1>6 DEF CallNext

(* A call is a batch by definition: its actions are those of                *)
(* execute_with_count, with more said about them.  So the invariants of     *)
(* RayonBatch can be used below.                                            *)
LEMMA CallsAreBatches == CallSpec => Spec
<1>1. CallInit => Init
  BY DEF CallInit
<1>2. QED
  BY <1>1, CallStep, PTL DEF CallSpec, Spec

(* So the invariant of the batch holds during a call.                       *)
LEMMA CallInvariance == CallSpec => []IInv
BY CallsAreBatches, Invariance, PTL

-----------------------------------------------------------------------------
(* The deposited values.                                                    *)

\* A value belongs to a success, or to a runnable that is still running.
OutInv ==
    /\ outputs \in SUBSET Task
    /\ Succeeded \subseteq outputs
    /\ outputs \subseteq Succeeded \cup Held

(* No step leaves it: a value comes from a running runnable, and a runnable *)
(* ends as a success exactly if it deposited.                               *)
LEMMA OutStep == IInv /\ OutInv /\ [CallNext]_callVars => OutInv'
<1> SUFFICES ASSUME IInv, OutInv, [CallNext]_callVars PROVE OutInv'
  OBVIOUS
<1>0. /\ job \in [Worker -> {"unspawned", "queued", "recv", "run", "drop"} \cup Ended]
      /\ holds \in [Worker -> Task \cup {NoTask}]
      /\ outcome \in [Task -> Recorded \cup {"none"}]
      /\ \A w \in Worker : job[w] = "run" => holds[w] \in Task
  BY DEF IInv, TypeOK, JobInv
<1> DEFINE Frame ==
      /\ UNCHANGED <<outputs, outcome>>
      /\ \A w \in Worker : job[w] = "run" => job'[w] = "run" /\ holds'[w] = holds[w]
<1>1. ASSUME Frame PROVE OutInv'
  <2>1. Held \subseteq Held' /\ Succeeded' = Succeeded /\ outputs' = outputs
    BY <1>1 DEF Held, Succeeded
  <2>2. QED
    BY <2>1 DEF OutInv
<1>2. CASE CallStart \/ CallStartFails
  BY <1>1, <1>2 DEF CallStart, CallStartFails, Start, StartFails, batchVars, workVars
<1>3. CASE CallFeeds
  <2>1. Frame
    BY <1>0, <1>3 DEF CallFeeds, Spawn, DropReceiver, Ask, PullNone, PullExtra, PullAccept,
       PullRefuse, PullPanics, Send, CloseSender, batchVars, workVars
  <2>2. QED
    BY <1>1, <2>1
<1>4. CASE JoinReporter \/ CallJoins \/ CallConcludes
  <2>1. Frame
    BY <1>4 DEF JoinReporter, CallJoins, CallConcludes, Join, JoinUnwinds, Conclude, vars,
       batchVars, workVars
  <2>2. QED
    BY <1>1, <2>1
<1>5. ASSUME NEW w \in Worker, Deposit(w) PROVE OutInv'
  <2>1. holds[w] \in Held /\ holds[w] \in Task /\ outputs' = outputs \cup {holds[w]}
    BY <1>0, <1>5 DEF Deposit, Held
  <2>2. Held' = Held /\ Succeeded' = Succeeded
    BY <1>5 DEF Deposit, vars, batchVars, workVars, Held, Succeeded
  <2>3. QED
    BY <2>1, <2>2 DEF OutInv
<1>6. ASSUME NEW w \in Worker, RunCallable(w) PROVE OutInv'
  <2> DEFINE t == holds[w]
  <2>1. t \in Task /\ outputs' = outputs /\ (outcome'[t] = "succeeded" <=> t \in outputs)
    BY <1>0, <1>6 DEF RunCallable, RunTask
  <2>2. \A i \in Task \ {t} : outcome'[i] = outcome[i]
    BY <1>0, <1>6 DEF RunCallable, RunTask
  <2>3. Held \subseteq Held' \cup {t}
    <3>1. job' = [job EXCEPT ![w] = "drop"] /\ holds' = holds
      BY <1>6 DEF RunCallable, RunTask
    <3>2. QED
      BY <1>0, <3>1 DEF Held
  <2>4. QED
    <3> HIDE DEF t
    <3> QED BY <2>1, <2>2, <2>3 DEF OutInv, Succeeded
<1>7. ASSUME NEW w \in Worker, WorkerMoves(w) PROVE OutInv'
  <2>1. Frame
    BY <1>0, <1>7 DEF WorkerMoves, StartJob, Recv, RecvClosed, DropTask
  <2>2. QED
    BY <1>1, <2>1
<1>8. CASE ReportBegins \/ ReportReturns \/ CallEnded \/ UNCHANGED callVars
  <2>1. Frame
    BY <1>8 DEF ReportBegins, ReportReturns, ReporterFails, CallEnded, Terminated, callVars,
       vars, batchVars, workVars
  <2>2. QED
    BY <1>1, <2>1
<1>9. QED
  BY <1>2, <1>3, <1>4, <1>5, <1>6, <1>7, <1>8 DEF CallNext, CallCaller, CallWork

(* The invariant of the values holds throughout a call.                     *)
LEMMA OutInvariance == CallSpec => []OutInv
<1>1. CallInit => OutInv
  BY CountAssumption DEF CallInit, Init, OutInv, Succeeded
<1>2. QED
  BY <1>1, OutStep, CallInvariance, PTL DEF CallSpec

(* The values handed out by a call are those of its successful tasks, and   *)
(* while it runs no failed task has a value and no success lacks its own.   *)
THEOREM OutputsAreOutcomes == CallSpec => []OutputsMatchOutcome
<1>1. ASSUME IInv, OutInv, NothingOutlivesTheCall PROVE OutputsMatchOutcome
  <2>1. Held \cap Completed = {}
    BY <1>1 DEF IInv, TaskAccounting
  <2>2. Failures \subseteq Completed /\ Failures \cap Succeeded = {}
    BY DEF Failures, Completed, Succeeded
  <2>3. pc = "done" => Held = {}
    BY <1>1 DEF NothingOutlivesTheCall
  <2>4. QED
    BY <1>1, <2>1, <2>2, <2>3 DEF OutInv, OutputsMatchOutcome
<1>2. CallSpec => []NothingOutlivesTheCall
  BY CallsAreBatches, EmptyScope, PTL
<1>3. QED
  BY <1>1, <1>2, OutInvariance, CallInvariance, PTL

-----------------------------------------------------------------------------
(* The events.                                                              *)

\* Only a batch that goes on has a reporter thread, and what that thread has
\* read lies between the last event and the tasks.
EventInv ==
    /\ events \in Seq(Event)
    /\ auto \in {"off", "idle", "reporting", "joined"}
    /\ snapshot \in Nat
    /\ pc = "start" => events = <<>> /\ auto = "off"
    /\ auto \in {"idle", "reporting"} => Batching
    /\ auto # "off" \/ (Reporting /\ pc \notin {"start", "done"}) => events # <<>>
    /\ auto = "reporting" =>
          /\ snapshot <= CompletedCount
          /\ \A k \in 1 .. Len(events) : events[k].completed <= snapshot
    /\ EventsInOrder

(* Completed tasks are counted, and the count never decreases.              *)
LEMMA CountGrows ==
  ASSUME IInv, [Next]_vars
  PROVE  /\ CompletedCount \in Nat /\ CompletedCount' \in Nat
         /\ CompletedCount <= CompletedCount'
<1>1. Completed \subseteq Completed'
  <2>1. ASSUME NEW w \in Worker, RunTask(w) PROVE Completed \subseteq Completed'
    <3>1. outcome \in [Task -> Recorded \cup {"none"}]
      BY DEF IInv, TypeOK
    <3>2. QED
      BY <2>1, <3>1 DEF RunTask, Completed, Recorded
  <2>2. outcome' = outcome \/ \E w \in Worker : RunTask(w)
    BY DEF Next, Producer, Start, StartFails, Spawn, DropReceiver, Ask, PullNone, PullExtra,
       PullAccept, PullRefuse, PullPanics, Send, SendFails, CloseSender, Join, JoinUnwinds,
       Conclude, Work, StartJob, Recv, RecvClosed, DropTask, DropPanics, ReporterFails,
       Terminated, vars, batchVars, workVars
  <2>3. QED
    BY <2>1, <2>2 DEF Completed
<1>2. Completed \in SUBSET Task /\ Completed' \in SUBSET Task
  BY DEF Completed
<1>3. /\ IsFiniteSet(Completed')
      /\ Cardinality(Completed) \in Nat /\ Cardinality(Completed') \in Nat
  BY <1>2, TaskSetsFinite
<1>4. QED
  BY <1>1, <1>3, FS_Subset DEF CompletedCount

(* Events that were in order still are when no event is added.              *)
LEMMA OrderKept ==
  ASSUME IInv, [Next]_vars, EventInv, events' = events, pc = "done" => pc' = "done"
  PROVE  EventsInOrder'
<1>1. \A k \in 1 .. Len(events) : events[k].completed \in Nat
  <2>1. ASSUME NEW k \in 1 .. Len(events) PROVE events[k] \in Event
    BY DEF EventInv
  <2>2. QED
    BY <2>1 DEF Event
<1>2. \A k \in 1 .. Len(events) :
         /\ events[k].phase = "started" <=> k = 1
         /\ events[k].phase \in Terminal => k = Len(events) /\ pc' = "done"
         /\ events[k].completed <= CompletedCount
  BY DEF EventInv, EventsInOrder
<1>3. \A k \in 1 .. Len(events) : events[k].completed <= CompletedCount'
  BY <1>1, <1>2, CountGrows
<1>4. QED
  BY <1>2, <1>3 DEF EventInv, EventsInOrder

(* An event with a count between the last one and the tasks may be added.   *)
LEMMA OrderExtended ==
  ASSUME IInv, [Next]_vars, EventInv, NEW e \in Event, events' = Append(events, e),
         pc # "done", e.phase \in Terminal => pc' = "done",
         e.phase = "started" <=> events = <<>>,
         e.completed <= CompletedCount,
         \A k \in 1 .. Len(events) : events[k].completed <= e.completed
  PROVE  EventsInOrder'
<1> DEFINE n == Len(events)
<1>1. n \in Nat /\ events \in Seq(Event) /\ (n = 0 <=> events = <<>>)
  BY DEF EventInv
<1>2. /\ Len(events') = n + 1 /\ events'[n + 1] = e
      /\ \A k \in 1 .. n : events'[k] = events[k] /\ events[k] \in Event
  BY <1>1
<1>3. e.completed \in Nat /\ \A k \in 1 .. n : events[k].completed \in Nat
  BY <1>2 DEF Event
<1>4. \A k \in 1 .. n :
         /\ events[k].phase = "started" <=> k = 1
         /\ events[k].phase \notin Terminal
         /\ events[k].completed <= CompletedCount
  BY DEF EventInv, EventsInOrder
<1>5. \A k \in 1 .. n + 1 :
         /\ events'[k].phase = "started" <=> k = 1
         /\ events'[k].phase \in Terminal => k = n + 1 /\ pc' = "done"
         /\ events'[k].completed <= CompletedCount'
  <2>1. \A k \in 1 .. n + 1 : k = n + 1 \/ k \in 1 .. n
    BY <1>1
  <2>2. n + 1 = 1 <=> events = <<>>
    BY <1>1
  <2> HIDE DEF n
  <2>3. CompletedCount \in Nat /\ CompletedCount' \in Nat /\ CompletedCount <= CompletedCount'
    BY CountGrows
  <2>4. QED
    BY <1>2, <1>3, <1>4, <2>1, <2>2, <2>3
<1>6. \A k, l \in 1 .. n + 1 : k <= l => events'[k].completed <= events'[l].completed
  <2>1. \A k \in 1 .. n + 1 : k = n + 1 \/ k \in 1 .. n
    BY <1>1
  <2>2. \A k, l \in 1 .. n : k <= l => events[k].completed <= events[l].completed
    BY DEF EventInv, EventsInOrder
  <2>3. \A l \in 1 .. n : ~(n + 1 <= l)
    BY <1>1
  <2> HIDE DEF n
  <2>4. QED
    BY <1>2, <1>3, <2>1, <2>2, <2>3
<1>7. QED
  BY <1>2, <1>5, <1>6 DEF EventsInOrder

(* No step leaves the invariant of the events.                              *)
LEMMA EventStep == IInv /\ EventInv /\ [CallNext]_callVars => EventInv'
<1> SUFFICES ASSUME IInv, EventInv, [CallNext]_callVars PROVE EventInv'
  OBVIOUS
<1>1. [Next]_vars
  BY CallStep
<1>2. /\ CompletedCount \in Nat /\ CompletedCount' \in Nat
      /\ CompletedCount <= CompletedCount'
  BY <1>1, CountGrows
<1>3. ASSUME NEW p \in {"started", "running", "succeeded", "failed"}, NEW c \in Nat
      PROVE  [phase |-> p, completed |-> c] \in Event
  BY DEF Event
<1>4. ASSUME UNCHANGED reportVars, pc = "done" => pc' = "done", pc' # "start",
             auto \in {"idle", "reporting"} => Batching',
             pc' = "done" \/ pc # "start" \/ ~Reporting
      PROVE  EventInv'
  <2>1. EventsInOrder'
    BY <1>1, <1>4, OrderKept DEF reportVars
  <2>2. Reporting /\ pc' \notin {"start", "done"} => Reporting /\ pc \notin {"start", "done"}
    BY <1>4
  <2>3. auto = "reporting" => /\ snapshot <= CompletedCount'
                             /\ \A k \in 1 .. Len(events) : events[k].completed <= snapshot
    BY <1>2 DEF EventInv
  <2>4. QED
    BY <1>4, <2>1, <2>2, <2>3 DEF EventInv, reportVars
<1>5. CASE CallStart
  <2>1. pc = "start" /\ pc' = "spawn" /\ snapshot' = snapshot
    BY <1>5 DEF CallStart, Start
  <2>2. CASE ~Reporting
    <3>1. UNCHANGED reportVars /\ auto = "off"
      BY <1>5, <2>1, <2>2 DEF CallStart, reportVars, EventInv
    <3>2. QED
      BY <1>4, <2>1, <2>2, <3>1
  <2>3. CASE Reporting
    <3> DEFINE e == [phase |-> "started", completed |-> CompletedCount]
    <3>1. e \in Event /\ events = <<>> /\ events' = Append(events, e) /\ auto' = "idle"
      BY <1>2, <1>3, <1>5, <2>1, <2>3 DEF CallStart, Report, EventInv
    <3>2. EventsInOrder'
      BY <1>1, <1>2, <2>1, <3>1, OrderExtended DEF Terminal
    <3>3. events' \in Seq(Event) /\ events' # <<>>
      BY <3>1
    <3>4. QED
      BY <2>1, <3>1, <3>2, <3>3 DEF EventInv, Batching
  <2>4. QED
    BY <2>2, <2>3
<1>6. CASE CallStartFails
  <2>1. pc = "start" /\ pc' = "done" /\ auto = "off" /\ UNCHANGED <<auto, snapshot>>
    BY <1>6 DEF CallStartFails, StartFails, EventInv
  <2>2. CASE UNCHANGED events
    BY <1>4, <2>1, <2>2 DEF reportVars
  <2>3. CASE Report("started")
    <3> DEFINE e == [phase |-> "started", completed |-> CompletedCount]
    <3>1. e \in Event /\ events = <<>> /\ events' = Append(events, e)
      BY <1>2, <1>3, <2>1, <2>3 DEF Report, EventInv
    <3>2. EventsInOrder'
      BY <1>1, <1>2, <2>1, <3>1, OrderExtended DEF Terminal
    <3>3. events' \in Seq(Event)
      BY <3>1
    <3>4. QED
      BY <2>1, <3>2, <3>3 DEF EventInv
  <2>4. QED
    BY <1>6, <2>2, <2>3 DEF CallStartFails
<1>7. CASE CallFeeds
  <2>1. UNCHANGED reportVars /\ pc \notin {"start", "done"} /\ pc' # "start" /\ Batching'
    BY <1>7 DEF CallFeeds, Spawn, DropReceiver, Ask, PullNone, PullExtra, PullAccept,
       PullRefuse, PullPanics, Send, CloseSender, Batching, callerVars
  <2>2. QED
    BY <1>4, <2>1
<1>8. CASE JoinReporter
  <2>1. auto = "idle" /\ auto' = "joined" /\ UNCHANGED <<vars, events, snapshot>> /\ pc = "join"
    BY <1>8 DEF JoinReporter
  <2>2. EventsInOrder'
    BY <1>1, <2>1, OrderKept DEF vars, callerVars
  <2>3. QED
    BY <2>1, <2>2 DEF EventInv, vars, callerVars
<1>9. CASE CallJoins
  <2>1. /\ UNCHANGED reportVars /\ pc = "join" /\ pc' \in {"report", "done"}
        /\ auto \in {"off", "joined"}
    BY <1>9 DEF CallJoins, ReporterJoined, Join, JoinUnwinds
  <2>2. QED
    BY <1>4, <2>1
<1>10. CASE CallConcludes
  <2>1. pc = "report" /\ pc' = "done" /\ UNCHANGED <<auto, snapshot>>
    BY <1>10 DEF CallConcludes, Conclude
  <2>2. auto \in {"off", "joined"}
    BY <2>1 DEF EventInv, Batching
  <2>3. CASE UNCHANGED events
    BY <1>4, <2>1, <2>2, <2>3 DEF reportVars
  <2>4. ASSUME Reporting, NEW p \in {"succeeded", "failed"}, Report(p) PROVE EventInv'
    <3> DEFINE e == [phase |-> p, completed |-> CompletedCount]
    <3>1. e \in Event /\ events # <<>> /\ events \in Seq(Event) /\ events' = Append(events, e)
      BY <1>2, <1>3, <2>1, <2>4 DEF Report, EventInv
    <3>2. \A k \in 1 .. Len(events) : events[k].completed <= CompletedCount
      BY DEF EventInv, EventsInOrder
    <3>3. EventsInOrder'
      BY <1>1, <1>2, <2>1, <2>4, <3>1, <3>2, OrderExtended
    <3>4. events' \in Seq(Event) /\ events' # <<>>
      BY <3>1
    <3>5. QED
      BY <2>1, <2>2, <3>3, <3>4 DEF EventInv
  <2>5. QED
    BY <1>10, <2>3, <2>4 DEF CallConcludes
<1>11. ASSUME NEW w \in Worker, CallWork(w) PROVE EventInv'
  <2>1. UNCHANGED <<reportVars, pc>>
    BY <1>11 DEF CallWork, Deposit, RunCallable, WorkerMoves, RunTask, StartJob, Recv,
       RecvClosed, DropTask, vars, callerVars
  <2>2. CASE pc = "start"
    BY <1>1, <1>2, <2>1, <2>2, OrderKept DEF EventInv, reportVars
  <2>3. CASE pc # "start"
    BY <1>4, <2>1, <2>3 DEF Batching, EventInv
  <2>4. QED
    BY <2>2, <2>3
<1>12. CASE ReportBegins
  <2>1. /\ Batching /\ auto = "idle" /\ auto' = "reporting" /\ snapshot' = CompletedCount
        /\ UNCHANGED <<vars, events>>
    BY <1>12 DEF ReportBegins
  <2>2. EventsInOrder'
    BY <1>1, <2>1, OrderKept DEF vars, callerVars
  <2>3. \A k \in 1 .. Len(events) : events[k].completed <= CompletedCount
    BY DEF EventInv, EventsInOrder
  <2>4. QED
    BY <1>2, <2>1, <2>2, <2>3 DEF EventInv, Batching, vars, callerVars
<1>13. CASE ReportReturns
  <2> DEFINE e == [phase |-> "running", completed |-> snapshot]
  <2>1. /\ e \in Event /\ events # <<>> /\ events \in Seq(Event) /\ events' = Append(events, e)
        /\ pc' = pc /\ pc \notin {"start", "done"} /\ auto' \in {"idle", "joined"} /\ Batching'
        /\ snapshot' = snapshot
    BY <1>3, <1>13 DEF ReportReturns, EventInv, Batching, ReporterFails, vars, callerVars
  <2>2. /\ snapshot <= CompletedCount
        /\ \A k \in 1 .. Len(events) : events[k].completed <= snapshot
    BY <1>13 DEF ReportReturns, EventInv
  <2>3. EventsInOrder'
    BY <1>1, <2>1, <2>2, OrderExtended DEF Terminal
  <2>4. events' \in Seq(Event) /\ events' # <<>>
    BY <2>1
  <2>5. QED
    BY <2>1, <2>3, <2>4 DEF EventInv
<1>14. CASE CallEnded \/ UNCHANGED callVars
  <2>1. UNCHANGED <<reportVars, vars>>
    BY <1>14 DEF CallEnded, Terminated, callVars
  <2>2. EventsInOrder'
    BY <1>1, <2>1, OrderKept DEF vars, callerVars, reportVars
  <2>3. CompletedCount' = CompletedCount
    BY <2>1 DEF CompletedCount, Completed, vars, batchVars, workVars
  <2>4. QED
    BY <2>1, <2>2, <2>3 DEF EventInv, Batching, reportVars, vars, callerVars
<1>15. QED
  BY <1>5, <1>6, <1>7, <1>8, <1>9, <1>10, <1>11, <1>12, <1>13, <1>14 DEF CallNext, CallCaller

(* The invariant of the events holds throughout a call.                     *)
LEMMA EventInvariance == CallSpec => []EventInv
<1>1. CallInit => EventInv
  BY DEF CallInit, Init, EventInv, EventsInOrder
<1>2. QED
  BY <1>1, EventStep, CallInvariance, PTL DEF CallSpec

(* The reporter hears Started first and a terminal event last, and counts   *)
(* that never decrease, from two threads.                                   *)
THEOREM EventsAreInOrder == CallSpec => []EventsInOrder
<1>1. EventInv => EventsInOrder
  BY DEF EventInv
<1>2. QED
  BY <1>1, EventInvariance, PTL

\* The count a report is made from is one of tasks of the call.
SnapshotInv == snapshot \in 0 .. Count

(* It is read from the counters, or not read at all.                        *)
LEMMA SnapshotStep == SnapshotInv /\ [CallNext]_callVars => SnapshotInv'
<1> SUFFICES ASSUME SnapshotInv, [CallNext]_callVars PROVE SnapshotInv'
  OBVIOUS
<1>1. CASE ReportBegins
  <2>1. snapshot' = Cardinality(Completed)
    BY <1>1 DEF ReportBegins, CompletedCount
  <2>2. Completed \in SUBSET Task
    BY DEF Completed
  <2>3. IsFiniteSet(Task) /\ Cardinality(Task) = Count
    BY FS_Interval, CountAssumption DEF Task
  <2>4. Cardinality(Completed) \in Nat /\ Cardinality(Completed) <= Count
    BY <2>2, <2>3, FS_Subset, TaskSetsFinite
  <2>5. QED
    BY <2>1, <2>4, CountAssumption DEF SnapshotInv
<1>2. CASE ~ReportBegins
  <2>1. snapshot' = snapshot
    <3>1. CASE CallCaller
      BY <3>1 DEF CallCaller, CallStart, CallStartFails, CallFeeds, JoinReporter, CallJoins,
         CallConcludes, reportVars
    <3>2. ASSUME NEW w \in Worker, CallWork(w) PROVE snapshot' = snapshot
      BY <3>2 DEF CallWork, Deposit, RunCallable, WorkerMoves, reportVars
    <3>3. CASE ReportReturns \/ CallEnded \/ UNCHANGED callVars
      BY <3>3 DEF ReportReturns, CallEnded, callVars, reportVars
    <3>4. QED
      BY <1>2, <3>1, <3>2, <3>3 DEF CallNext
  <2>2. QED
    BY <2>1 DEF SnapshotInv
<1>3. QED
  BY <1>1, <1>2

(* Deposited values and what the reporter's thread read are of tasks of the *)
(* call, and the events are events.                                         *)
THEOREM CallTypeCorrect == CallSpec => []CallTypeOK
<1>1. CallInit => SnapshotInv
  BY CountAssumption DEF CallInit, SnapshotInv
<1>2. CallSpec => []SnapshotInv
  BY <1>1, SnapshotStep, PTL DEF CallSpec
<1>3. OutInv /\ EventInv /\ SnapshotInv => CallTypeOK
  BY DEF OutInv, EventInv, SnapshotInv, CallTypeOK
<1>4. QED
  BY <1>2, <1>3, OutInvariance, EventInvariance, PTL

-----------------------------------------------------------------------------
(* The terminal event.                                                      *)

\* The last event is a terminal one.
Told == events # <<>> /\ events[Len(events)].phase \in Terminal

(* Until a call is over, the reporter has been given no terminal event.     *)
LEMMA NotYetTold ==
  ASSUME EventInv, pc # "done"
  PROVE  ~Told
<1>1. ASSUME events # <<>> PROVE Len(events) \in 1 .. Len(events)
  BY <1>1 DEF EventInv
<1>2. QED
  BY <1>1 DEF Told, EventInv, EventsInOrder

(* The caller comes to its terminal report with all accepted tasks counted, *)
(* and a batch without a failure and without an error has run every task.   *)
LEMMA FinalCount ==
  ASSUME IInv, pc = "report"
  PROVE  /\ CompletedCount = accepted
         /\ Failures = {} /\ CountErrors = {} /\ reporter = "ok" => Succeeded = Task
<1>1. /\ Unfinished = {}
      /\ exhausted \/ exceeded \/ Stopped
      /\ exceeded => accepted = Count
  BY ReportIsComplete
<1>2. accepted \in 0 .. Count /\ outcome \in [Task -> Recorded \cup {"none"}]
  BY DEF IInv, TypeOK
<1>3. Completed = 0 .. accepted - 1
  <2>1. \A i \in 0 .. accepted - 1 : i \in Task /\ i < accepted
    BY <1>2, CountAssumption DEF Task
  <2>2. 0 .. accepted - 1 \subseteq Completed
    BY <1>1, <2>1 DEF Unfinished, Completed
  <2>3. Completed \subseteq 0 .. accepted - 1
    BY DEF IInv, TaskAccounting
  <2>4. QED
    BY <2>2, <2>3
<1>4. CompletedCount = accepted
  <2>1. Cardinality(0 .. accepted - 1) = accepted
    BY <1>2, FS_Interval, CountAssumption
  <2>2. QED
    BY <1>3, <2>1 DEF CompletedCount
<1>5. ASSUME Failures = {}, CountErrors = {}, reporter = "ok" PROVE Succeeded = Task
  <2>1. ~PolicyReached
    <3>1. Cardinality(Failures) = 0
      BY <1>5, FS_EmptySet
    <3>2. QED
      BY <3>1, FailureLimitAssumption DEF PolicyReached
  <2>2. accepted = Count
    BY <1>1, <1>2, <1>5, <2>1, CountAssumption DEF CountErrors, Stopped
  <2>3. Completed = Task
    BY <1>3, <2>2 DEF Task
  <2>4. QED
    BY <1>2, <1>5, <2>3 DEF Succeeded, Completed, Failures, Recorded
<1>6. QED
  BY <1>4, <1>5

(* No step makes the terminal event untrue.                                 *)
LEMMA TerminalStep ==
  ASSUME IInv, IInv', EventInv, EventInv', NothingOutlivesTheCall, TerminalEventIsTrue,
         [CallNext]_callVars
  PROVE  TerminalEventIsTrue'
<1>1. CASE pc' # "done"
  <2>1. result' = "none"
    BY <1>1 DEF IInv, CallerInv
  <2>2. ~Told'
    <3>1. ASSUME events' # <<>> PROVE Len(events') \in 1 .. Len(events')
      BY <3>1 DEF EventInv
    <3>2. QED
      BY <1>1, <3>1 DEF Told, EventInv, EventsInOrder
  <2>3. QED
    BY <2>1, <2>2 DEF TerminalEventIsTrue, Told
<1>2. CASE pc = "done"
  <2>1. \A w \in Worker : job[w] \notin {"run", "drop", "recv", "queued"}
    BY <1>2 DEF NothingOutlivesTheCall, Ended
  <2>2. auto # "reporting" /\ auto # "idle"
    BY <1>2 DEF EventInv, Batching
  <2>3. UNCHANGED <<result, events, accepted, outcome>>
    BY <1>2, <2>1, <2>2 DEF CallNext, CallCaller, CallStart, Start, CallStartFails, StartFails,
       CallFeeds, Spawn, DropReceiver, Ask, PullNone, PullExtra, PullAccept, PullRefuse,
       PullPanics, Send, CloseSender, JoinReporter, CallJoins, Join, JoinUnwinds,
       CallConcludes, Conclude, CallWork, Deposit, RunCallable, RunTask, WorkerMoves, StartJob,
       Recv, RecvClosed, DropTask, ReportBegins, ReportReturns, CallEnded, Terminated,
       callVars, reportVars, vars, callerVars, sourceVars, batchVars, workVars
  <2>4. QED
    BY <2>3 DEF TerminalEventIsTrue, Succeeded, Failures
<1>3. CASE pc # "done" /\ pc' = "done"
  <2>1. CallStartFails \/ CallConcludes \/ (CallJoins /\ result' = "Panic")
    BY <1>3 DEF CallNext, CallCaller, CallStart, Start, CallFeeds, Spawn, DropReceiver, Ask,
       PullNone, PullExtra, PullAccept, PullRefuse, PullPanics, Send, CloseSender, JoinReporter,
       CallJoins, Join, JoinUnwinds, CallWork, Deposit, RunCallable, RunTask, WorkerMoves,
       StartJob, Recv, RecvClosed, DropTask, ReportBegins, ReportReturns, ReporterFails,
       CallEnded, Terminated, callVars, vars, callerVars
  <2>2. ~Told
    BY <1>3, NotYetTold
  <2>3. CASE CallStartFails
    <3>1. result' \in {"Panic", "ProgressReport"}
      BY <2>3 DEF CallStartFails, StartFails
    <3>2. ~Told'
      <4>1. events = <<>>
        BY <2>3 DEF CallStartFails, StartFails, EventInv
      <4>2. events' = <<>> \/ events' = <<[phase |-> "started", completed |-> CompletedCount]>>
        BY <2>3, <4>1 DEF CallStartFails, Report
      <4>3. QED
        BY <4>2 DEF Told, Terminal
    <3>3. QED
      BY <3>1, <3>2 DEF TerminalEventIsTrue, Told
  <2>4. CASE CallJoins /\ result' = "Panic"
    <3>1. events' = events
      BY <2>4 DEF CallJoins, reportVars
    <3>2. QED
      BY <2>2, <2>4, <3>1 DEF TerminalEventIsTrue, Told
  <2>5. CASE CallConcludes
    <3>1. /\ pc = "report" /\ UNCHANGED <<accepted, outcome>>
          /\ result' \in Verdicts \cup {"Panic"}
      BY <2>5 DEF CallConcludes, Conclude, batchVars, workVars, sourceVars
    <3>2. /\ CompletedCount = accepted
          /\ Failures = {} /\ CountErrors = {} /\ reporter = "ok" => Succeeded = Task
          /\ closure = "ok" /\ Unfinished = {}
      BY <3>1, FinalCount, ReportIsComplete
    <3>3. result' \in {"Finished", "StoppedByTaskFailurePolicy"} =>
             reporter = "ok" /\ CountErrors = {}
      <4>1. reporter \in {"ok", "failed"}
        BY DEF IInv, TypeOK
      <4>2. QED
        BY <3>1, <3>2, <4>1 DEF Verdicts, CountErrors
    <3>4. Succeeded' = Succeeded /\ Failures' = Failures
      BY <3>1 DEF Succeeded, Failures
    <3>5. CASE UNCHANGED events /\ ~(Reporting /\ reporter = "ok")
      <4>1. ~Told'
        BY <2>2, <3>5 DEF Told
      <4>2. QED
        BY <3>3, <3>5, <4>1 DEF TerminalEventIsTrue, Told
    <3>6. ASSUME NEW p \in Terminal, Report(p),
                 p = IF Failures = {} /\ CountErrors = {} /\ reporter = "ok"
                     THEN "succeeded" ELSE "failed"
          PROVE  TerminalEventIsTrue'
      <4>1. /\ events' # <<>>
            /\ events'[Len(events')] = [phase |-> p, completed |-> CompletedCount]
        BY <3>6 DEF Report, EventInv
      <4>2. QED
        BY <3>1, <3>2, <3>3, <3>4, <3>6, <4>1 DEF TerminalEventIsTrue, Terminal
    <3>7. QED
      BY <2>5, <3>5, <3>6 DEF CallConcludes, Terminal
  <2>6. QED
    BY <2>1, <2>3, <2>4, <2>5
<1>4. QED
  BY <1>1, <1>2, <1>3

(* A call that answers has told the reporter so with the final count, and   *)
(* has told it of success only if every declared task succeeded.            *)
THEOREM TerminalEventTrue == CallSpec => []TerminalEventIsTrue
<1>1. CallInit => TerminalEventIsTrue
  BY DEF CallInit, Init, TerminalEventIsTrue
<1>2. CallSpec => []NothingOutlivesTheCall
  BY CallsAreBatches, EmptyScope, PTL
<1>3. QED
  BY <1>1, <1>2, TerminalStep, CallInvariance, EventInvariance, PTL DEF CallSpec

-----------------------------------------------------------------------------
(* Whether a call can stop half way.                                        *)

\* A runnable of the adapter unwinds no worker, so no send is refused.
CalmInv == closure # "disconnected" /\ \A w \in Worker : job[w] # "unwound"

(* Only DropPanics and SendFails leave it, and neither is a step of a call. *)
LEMMA CalmStep == IInv /\ CalmInv /\ [CallNext]_callVars => CalmInv'
<1> SUFFICES ASSUME IInv, CalmInv, [CallNext]_callVars PROVE CalmInv'
  OBVIOUS
<1>0. job \in [Worker -> {"unspawned", "queued", "recv", "run", "drop"} \cup Ended]
  BY DEF IInv, TypeOK
<1>1. CASE CallCaller
  <2>1. CASE CallFeeds
    <3>1. CASE \E w \in Worker : Spawn(w)
      <4>1. PICK w \in Worker : job' = [job EXCEPT ![w] = "queued"] /\ closure' = closure
        BY <3>1 DEF Spawn, callerVars
      <4>2. QED
        BY <1>0, <4>1 DEF CalmInv
    <3>2. CASE ~ \E w \in Worker : Spawn(w)
      <4>1. UNCHANGED job /\ closure' # "disconnected"
        BY <2>1, <3>2 DEF CallFeeds, DropReceiver, Ask, PullNone, PullExtra, PullAccept,
           PullRefuse, PullPanics, Send, CloseSender, callerVars, batchVars, workVars, CalmInv
      <4>2. QED
        BY <4>1 DEF CalmInv
    <3>3. QED
      BY <3>1, <3>2
  <2>2. CASE CallStart \/ CallStartFails \/ JoinReporter \/ CallJoins \/ CallConcludes
    BY <2>2 DEF CallStart, CallStartFails, JoinReporter, CallJoins, CallConcludes, Start,
       StartFails, Join, JoinUnwinds, Conclude, vars, callerVars, batchVars, workVars, CalmInv
  <2>3. QED
    BY <1>1, <2>1, <2>2 DEF CallCaller
<1>2. ASSUME NEW w \in Worker, CallWork(w) PROVE CalmInv'
  <2>1. closure' = closure
    BY <1>2 DEF CallWork, Deposit, RunCallable, WorkerMoves, StartJob, Recv, RecvClosed,
       RunTask, DropTask, vars, callerVars
  <2>2. UNCHANGED job \/ \E s \in {"recv", "run", "drop", "exited"} : job' = [job EXCEPT ![w] = s]
    BY <1>2 DEF CallWork, Deposit, RunCallable, WorkerMoves, StartJob, Recv, RecvClosed,
       RunTask, DropTask, vars, batchVars, workVars
  <2>3. QED
    BY <1>0, <2>1, <2>2 DEF CalmInv
<1>3. CASE ReportBegins \/ ReportReturns \/ CallEnded \/ UNCHANGED callVars
  BY <1>3 DEF ReportBegins, ReportReturns, ReporterFails, CallEnded, Terminated, callVars,
     vars, callerVars, batchVars, workVars, CalmInv
<1>4. QED
  BY <1>1, <1>2, <1>3 DEF CallNext

(* Whoever sends has a receiver: a job that is over has seen a closed       *)
(* channel, and a job that is not over still owns its clone.                *)
LEMMA SendHasReceiver ==
  ASSUME IInv, CalmInv, pc = "send"
  PROVE  ~ReceiversGone
<1>1. sender
  BY DEF IInv, CallerInv
<1>2. \A w \in Worker : job[w] \notin Ended
  BY <1>1 DEF IInv, JobInv, CalmInv, Ended
<1>3. Worker # {}
  BY WorkerCountType DEF Worker
<1>4. QED
  BY <1>2, <1>3 DEF ReceiversGone

(* Until a call is over the caller, a worker or a report can go on, for     *)
(* every pool, every source and every reporter: a call is never left in a   *)
(* send without receivers nor at a join with nobody left to end it.         *)
THEOREM CallCanMove == CallSpec => []CallNeverStuck
<1>1. CallInit => CalmInv
  BY DEF CallInit, Init, CalmInv
<1>2. ASSUME IInv, CalmInv PROVE CallNeverStuck
  <2>1. SUFFICES ASSUME pc # "done", CallWaits, auto # "reporting"
                 PROVE  \E w \in Worker : ~WorkerBlocked(w)
    BY DEF CallNeverStuck
  <2>2. CallerBlocked
    BY <1>2, <2>1, SendHasReceiver DEF CallWaits, CallerBlocked
  <2>3. QED
    BY <1>2, <2>1, <2>2, SomeoneMoves DEF NeverStuck
<1>3. QED
  BY <1>1, <1>2, CalmStep, CallInvariance, PTL DEF CallSpec
=============================================================================
