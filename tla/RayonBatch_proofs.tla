------------------------- MODULE RayonBatch_proofs --------------------------
(***************************************************************************)
(* Proofs about RayonBatch, for every pool size, task count, failure limit *)
(* and reporting mode.  Each action of the caller and of the workers       *)
(* preserves the inductive invariant of RayonBatchInv; type correctness,   *)
(* the accounting of tasks, the emptiness of the scope on return and the   *)
(* absence of scheduling errors follow, and from them that the batch       *)
(* implements BatchContract.  At the end: somebody can always go on, and a *)
(* call has finitely many steps.                                           *)
(***************************************************************************)
EXTENDS RayonBatchInv, FiniteSetTheorems, WellFoundedInduction, TLAPS

(* A parallel batch has at least one worker. *)
LEMMA WorkerCountType == WorkerCount \in Nat \ {0}
BY PoolThreadsAssumption, CountAssumption DEF WorkerCount

(* A set listed by the numbers 1 .. n has at most n elements. *)
LEMMA ImageCardinality ==
  ASSUME NEW n \in Nat, NEW f
  PROVE  LET T == {f[k] : k \in 1 .. n}
         IN  IsFiniteSet(T) /\ Cardinality(T) <= n
<1> DEFINE T == {f[k] : k \in 1 .. n}
           g == [k \in 1 .. n |-> f[k]]
<1>1. g \in Surjection(1 .. n, T)
  BY DEF Surjection
<1>2. IsFiniteSet(1 .. n) /\ Cardinality(1 .. n) = n
  BY FS_Interval
<1>3. QED
  BY <1>1, <1>2, FS_Surjection

(* Sets of tasks are finite. *)
LEMMA TaskSetsFinite ==
  ASSUME NEW S \in SUBSET Task
  PROVE  IsFiniteSet(S) /\ Cardinality(S) \in Nat
<1>1. IsFiniteSet(Task)
  BY FS_Interval, CountAssumption DEF Task
<1>2. QED
  BY <1>1, FS_Subset, FS_CardinalityType

(* A step that moves no task keeps the accounting. *)
LEMMA AccountingFrame ==
  ASSUME TaskAccounting,
         UNCHANGED <<hand, chan, outcome, discarded, accepted>>,
         \A w \in Worker : /\ job'[w] = "run" <=> job[w] = "run"
                           /\ job[w] = "run" => holds'[w] = holds[w]
  PROVE  TaskAccounting'
<1>1. InHand' = InHand /\ Buffered' = Buffered /\ Completed' = Completed
  BY DEF InHand, Buffered, Completed
<1>2. Held' = Held
  BY DEF Held
<1>3. QED
  BY <1>1, <1>2 DEF TaskAccounting

(* The call starts with nothing accepted and nothing spawned. *)
LEMMA InitInv == Init => IInv
<1> SUFFICES ASSUME Init PROVE IInv
  OBVIOUS
<1> USE WorkerCountType, CountAssumption
<1>1. TypeOK
  <2> USE WorkerCountType, CountAssumption DEF Init
  <2>1. chan \in Seq(Task)
    OBVIOUS
  <2>2. job \in [Worker -> {"unspawned", "queued", "recv", "run", "drop"} \cup Ended]
    OBVIOUS
  <2>3. holds \in [Worker -> Task \cup {NoTask}] /\ outcome \in [Task -> Recorded \cup {"none"}]
    OBVIOUS
  <2>4. hand \in Task \cup {NoTask} /\ accepted \in 0 .. Count
    OBVIOUS
  <2>5. QED
    BY <2>1, <2>2, <2>3, <2>4 DEF TypeOK
<1>2. CallerInv
  BY DEF Init, CallerInv
<1>3. JobInv
  BY DEF Init, JobInv, Worker
<1>4. ChannelInv
  BY FS_EmptySet DEF Init, ChannelInv, ReceiversGone
<1>5. SourceInv
  BY DEF Init, SourceInv
<1>6. ScopeInv
  BY DEF Init, ScopeInv
<1>7. TaskAccounting
  BY DEF Init, TaskAccounting, InHand, Buffered, Held, Completed, Worker, Task
<1>8. QED
  BY <1>1, <1>2, <1>3, <1>4, <1>5, <1>6, <1>7 DEF IInv

(* The call enters the scope and begins to spawn its jobs. *)
LEMMA StartInv ==
  ASSUME IInv, Start
  PROVE  IInv'
<1>1. TypeOK'
  BY DEF IInv, TypeOK, Start, sourceVars, batchVars, chanVars, workVars
<1>2. CallerInv'
  BY DEF IInv, CallerInv, Start, sourceVars, batchVars, chanVars, workVars
<1>3. JobInv'
  BY DEF IInv, JobInv, Completed, Start, sourceVars, batchVars, chanVars,
     workVars
<1>4. ChannelInv'
  BY DEF IInv, ChannelInv, ReceiversGone, Start, sourceVars, batchVars,
     chanVars, workVars
<1>5. SourceInv'
  BY DEF IInv, SourceInv, Stopped, PolicyReached, Failures, Start, sourceVars,
     batchVars, chanVars, workVars
<1>6. ScopeInv'
  BY DEF IInv, ScopeInv, Start, sourceVars, batchVars, chanVars, workVars
<1>7. TaskAccounting'
  BY AccountingFrame DEF IInv, Start, sourceVars, batchVars, chanVars,
     workVars
<1>8. QED
  BY <1>1, <1>2, <1>3, <1>4, <1>5, <1>6, <1>7 DEF IInv

(* A failing start ends the call before anything was spawned. *)
LEMMA StartFailsInv ==
  ASSUME IInv, StartFails
  PROVE  IInv'
<1>1. TypeOK'
  BY DEF IInv, TypeOK, Results, StartFails, sourceVars, batchVars,
     chanVars, workVars
<1>2. CallerInv'
  BY DEF IInv, CallerInv, StartFails, sourceVars, batchVars, chanVars,
     workVars
<1>3. JobInv'
  BY DEF IInv, JobInv, Completed, StartFails, sourceVars, batchVars,
     chanVars, workVars
<1>4. ChannelInv'
  BY DEF IInv, ChannelInv, ReceiversGone, StartFails, sourceVars,
     batchVars, chanVars, workVars
<1>5. SourceInv'
  BY DEF IInv, SourceInv, Stopped, PolicyReached, Failures, StartFails,
     sourceVars, batchVars, chanVars, workVars
<1>6. ScopeInv'
  BY DEF IInv, ScopeInv, CallerInv, StartFails, sourceVars, batchVars,
     chanVars, workVars
<1>7. TaskAccounting'
  BY AccountingFrame DEF IInv, StartFails, sourceVars, batchVars,
     chanVars, workVars
<1>8. QED
  BY <1>1, <1>2, <1>3, <1>4, <1>5, <1>6, <1>7 DEF IInv

(* A spawned job owns nothing yet. *)
LEMMA SpawnInv ==
  ASSUME IInv, NEW w \in Worker, Spawn(w)
  PROVE  IInv'
<1>1. TypeOK'
  BY DEF IInv, TypeOK, Spawn, callerVars, sourceVars, chanVars
<1>2. CallerInv'
  BY DEF IInv, CallerInv, Spawn, callerVars, sourceVars, chanVars
<1>3. JobInv'
  BY DEF IInv, JobInv, Completed, Spawn, callerVars, sourceVars, chanVars
<1>4. ChannelInv'
  BY DEF IInv, ChannelInv, ReceiversGone, JobInv, Spawn, callerVars,
     sourceVars, chanVars
<1>5. SourceInv'
  BY DEF IInv, SourceInv, Stopped, PolicyReached, Failures, Spawn, callerVars,
     sourceVars, chanVars
<1>6. ScopeInv'
  BY DEF IInv, ScopeInv, Spawn, callerVars, sourceVars, chanVars
<1>7. TaskAccounting'
  BY AccountingFrame DEF IInv, Spawn, callerVars, sourceVars, chanVars
<1>8. QED
  BY <1>1, <1>2, <1>3, <1>4, <1>5, <1>6, <1>7 DEF IInv

(* The original receiver goes when every job owns a clone. *)
LEMMA DropReceiverInv ==
  ASSUME IInv, DropReceiver
  PROVE  IInv'
<1>1. TypeOK'
  BY DEF IInv, TypeOK, DropReceiver, sourceVars, workVars
<1>2. CallerInv'
  BY DEF IInv, CallerInv, DropReceiver, sourceVars, workVars
<1>3. JobInv'
  BY DEF IInv, JobInv, Completed, DropReceiver, sourceVars, workVars
<1>4. ChannelInv'
  <2>1. chan = <<>> /\ chan' = chan
    <3>1. accepted = 0
      BY DEF IInv, CallerInv, DropReceiver
    <3>2. \A k \in 1 .. Len(chan) : chan[k] \in 0 .. accepted - 1
      BY DEF IInv, TaskAccounting, Buffered
    <3>3. \A k \in 1 .. Len(chan) : FALSE
      BY <3>1, <3>2
    <3>4. QED
      BY <3>3 DEF IInv, TypeOK, DropReceiver, workVars
  <2>2. ~ReceiversGone
    BY DEF ReceiversGone, DropReceiver, IInv, CallerInv
  <2>3. discarded = {} /\ closure # "disconnected" /\ UNCHANGED <<discarded, closure>>
    BY <2>2 DEF IInv, ChannelInv, DropReceiver
  <2>4. QED
    BY <2>1, <2>3, WorkerCountType, FS_EmptySet DEF ChannelInv
<1>5. SourceInv'
  BY DEF IInv, SourceInv, Stopped, PolicyReached, Failures, DropReceiver,
     sourceVars, workVars
<1>6. ScopeInv'
  BY DEF IInv, ScopeInv, DropReceiver, sourceVars, workVars
<1>7. TaskAccounting'
  BY AccountingFrame DEF IInv, DropReceiver, sourceVars, workVars
<1>8. QED
  BY <1>1, <1>2, <1>3, <1>4, <1>5, <1>6, <1>7 DEF IInv

(* Asking the source moves no task. *)
LEMMA AskInv ==
  ASSUME IInv, Ask
  PROVE  IInv'
<1>1. TypeOK'
  BY DEF IInv, TypeOK, Ask, sourceVars, batchVars, chanVars, workVars
<1>2. CallerInv'
  BY DEF IInv, CallerInv, Ask, sourceVars, batchVars, chanVars, workVars
<1>3. JobInv'
  BY DEF IInv, JobInv, Completed, Ask, sourceVars, batchVars, chanVars,
     workVars
<1>4. ChannelInv'
  BY DEF IInv, ChannelInv, ReceiversGone, Ask, sourceVars, batchVars,
     chanVars, workVars
<1>5. SourceInv'
  BY DEF IInv, SourceInv, Stopped, PolicyReached, Failures, Ask, sourceVars,
     batchVars, chanVars, workVars
<1>6. ScopeInv'
  BY DEF IInv, ScopeInv, Ask, sourceVars, batchVars, chanVars, workVars
<1>7. TaskAccounting'
  BY AccountingFrame DEF IInv, Ask, sourceVars, batchVars, chanVars, workVars
<1>8. QED
  BY <1>1, <1>2, <1>3, <1>4, <1>5, <1>6, <1>7 DEF IInv

(* Observing the end of the iterator moves no task. *)
LEMMA PullNoneInv ==
  ASSUME IInv, PullNone
  PROVE  IInv'
<1>1. TypeOK'
  BY DEF IInv, TypeOK, PullNone, batchVars, chanVars, workVars
<1>2. CallerInv'
  BY DEF IInv, CallerInv, PullNone, batchVars, chanVars, workVars
<1>3. JobInv'
  BY DEF IInv, JobInv, Completed, PullNone, batchVars, chanVars, workVars
<1>4. ChannelInv'
  BY DEF IInv, ChannelInv, ReceiversGone, PullNone, batchVars, chanVars,
     workVars
<1>5. SourceInv'
  BY DEF IInv, SourceInv, PullNone, batchVars, chanVars, workVars
<1>6. ScopeInv'
  BY DEF IInv, ScopeInv, PullNone, batchVars, chanVars, workVars
<1>7. TaskAccounting'
  BY AccountingFrame DEF IInv, PullNone, batchVars, chanVars, workVars
<1>8. QED
  BY <1>1, <1>2, <1>3, <1>4, <1>5, <1>6, <1>7 DEF IInv

(* An excess item never becomes a task. *)
LEMMA PullExtraInv ==
  ASSUME IInv, PullExtra
  PROVE  IInv'
<1>1. TypeOK'
  BY DEF IInv, TypeOK, PullExtra, batchVars, chanVars, workVars
<1>2. CallerInv'
  BY DEF IInv, CallerInv, PullExtra, batchVars, chanVars, workVars
<1>3. JobInv'
  BY DEF IInv, JobInv, Completed, PullExtra, batchVars, chanVars, workVars
<1>4. ChannelInv'
  BY DEF IInv, ChannelInv, ReceiversGone, PullExtra, batchVars, chanVars,
     workVars
<1>5. SourceInv'
  BY DEF IInv, SourceInv, Stopped, PolicyReached, Failures, PullExtra,
     batchVars, chanVars, workVars
<1>6. ScopeInv'
  BY DEF IInv, ScopeInv, PullExtra, batchVars, chanVars, workVars
<1>7. TaskAccounting'
  BY AccountingFrame DEF IInv, PullExtra, batchVars, chanVars, workVars
<1>8. QED
  BY <1>1, <1>2, <1>3, <1>4, <1>5, <1>6, <1>7 DEF IInv

(* The accepted item is the only task with the next index. *)
LEMMA PullAcceptInv ==
  ASSUME IInv, PullAccept
  PROVE  IInv'
<1>1. TypeOK'
  BY CountAssumption DEF IInv, TypeOK, PullAccept, Task, batchVars, chanVars,
     workVars
<1>2. CallerInv'
  <2>1. hand' # NoTask
    BY CountAssumption DEF IInv, TypeOK, PullAccept, NoTask
  <2>2. ~ original
    BY DEF IInv, CallerInv, PullAccept
  <2> QED BY <2>1, <2>2 DEF IInv, CallerInv, PullAccept, vars, callerVars, sourceVars,
                            batchVars, chanVars, workVars
<1>3. JobInv'
  BY DEF IInv, JobInv, Completed, PullAccept, batchVars, chanVars, workVars
<1>4. ChannelInv'
  BY DEF IInv, ChannelInv, ReceiversGone, PullAccept, batchVars, chanVars,
     workVars
<1>5. SourceInv'
  BY DEF IInv, SourceInv, Stopped, PolicyReached, Failures, PullAccept,
     batchVars, chanVars, workVars
<1>6. ScopeInv'
  BY DEF IInv, ScopeInv, PullAccept, batchVars, chanVars, workVars
<1>7. TaskAccounting'
  <2>1. accepted \in Task /\ accepted \in Nat /\ hand' = accepted /\ accepted' = accepted + 1
    BY CountAssumption DEF IInv, TypeOK, PullAccept, Task
  <2>2. InHand = {} /\ InHand' = {accepted}
    BY <2>1 DEF InHand, IInv, CallerInv, PullAccept, NoTask
  <2>3. /\ Buffered' = Buffered /\ Held' = Held /\ Completed' = Completed
        /\ UNCHANGED <<chan, job, holds, discarded>>
    BY DEF Buffered, Held, Completed, PullAccept, batchVars, chanVars, workVars
  <2>4. accepted \notin Buffered \cup Held \cup Completed \cup discarded
    BY <2>1 DEF IInv, TaskAccounting
  <2>5. 0 .. accepted' - 1 = (0 .. accepted - 1) \cup {accepted}
    BY <2>1
  <2>6. QED
    BY <2>1, <2>2, <2>3, <2>4, <2>5 DEF IInv, TaskAccounting
<1>8. QED
  BY <1>1, <1>2, <1>3, <1>4, <1>5, <1>6, <1>7 DEF IInv

(* A refused item never becomes a task. *)
LEMMA PullRefuseInv ==
  ASSUME IInv, PullRefuse
  PROVE  IInv'
<1>1. TypeOK'
  BY DEF IInv, TypeOK, PullRefuse, sourceVars, batchVars, chanVars, workVars
<1>2. CallerInv'
  BY DEF IInv, CallerInv, PullRefuse, sourceVars, batchVars, chanVars,
     workVars
<1>3. JobInv'
  BY DEF IInv, JobInv, Completed, PullRefuse, sourceVars, batchVars, chanVars,
     workVars
<1>4. ChannelInv'
  BY DEF IInv, ChannelInv, ReceiversGone, PullRefuse, sourceVars, batchVars,
     chanVars, workVars
<1>5. SourceInv'
  BY DEF IInv, SourceInv, Stopped, PolicyReached, Failures, PullRefuse,
     sourceVars, batchVars, chanVars, workVars
<1>6. ScopeInv'
  BY DEF IInv, ScopeInv, PullRefuse, sourceVars, batchVars, chanVars, workVars
<1>7. TaskAccounting'
  BY AccountingFrame DEF IInv, PullRefuse, sourceVars, batchVars, chanVars,
     workVars
<1>8. QED
  BY <1>1, <1>2, <1>3, <1>4, <1>5, <1>6, <1>7 DEF IInv

(* A panicking iterator closes the sender while the caller holds nothing. *)
LEMMA PullPanicsInv ==
  ASSUME IInv, PullPanics
  PROVE  IInv'
<1>1. TypeOK'
  BY DEF IInv, TypeOK, PullPanics, sourceVars, workVars
<1>2. CallerInv'
  BY DEF IInv, CallerInv, PullPanics, sourceVars, workVars
<1>3. JobInv'
  BY DEF IInv, JobInv, Completed, PullPanics, sourceVars, workVars
<1>4. ChannelInv'
  BY DEF IInv, ChannelInv, ReceiversGone, CallerInv, PullPanics, sourceVars,
     workVars
<1>5. SourceInv'
  BY DEF IInv, SourceInv, PullPanics, sourceVars, workVars
<1>6. ScopeInv'
  BY DEF IInv, ScopeInv, PullPanics, sourceVars, workVars
<1>7. TaskAccounting'
  BY AccountingFrame DEF IInv, PullPanics, sourceVars, workVars
<1>8. QED
  BY <1>1, <1>2, <1>3, <1>4, <1>5, <1>6, <1>7 DEF IInv

(* The task moves from the caller's hand to the tail of the channel. *)
LEMMA SendInv ==
  ASSUME IInv, Send
  PROVE  IInv'
<1>1. TypeOK'
  <2>1. hand \in Task
    BY DEF IInv, Send, CallerInv, TypeOK
  <2>2. chan' \in Seq(Task)
    BY <2>1 DEF IInv, TypeOK, Send
  <2>3. QED
    BY <2>2 DEF IInv, TypeOK, Send, vars, callerVars, sourceVars, batchVars, chanVars, workVars
<1>2. CallerInv'
  BY DEF IInv, CallerInv, Send, sourceVars, workVars
<1>3. JobInv'
  BY DEF IInv, JobInv, CallerInv, Completed, Send, sourceVars, workVars
<1>4. ChannelInv'
  BY WorkerCountType DEF IInv, ChannelInv, ReceiversGone, Send, sourceVars,
     workVars
<1>5. SourceInv'
  BY DEF IInv, SourceInv, Stopped, PolicyReached, Failures, Send, sourceVars,
     workVars
<1>6. ScopeInv'
  BY DEF IInv, ScopeInv, Send, sourceVars, workVars
<1>7. TaskAccounting'
  <2>1. hand \in Task /\ hand # NoTask
    BY DEF IInv, Send, CallerInv, TypeOK
  <2>2. chan \in Seq(Task) /\ chan' = Append(chan, hand)
    BY DEF IInv, Send, TypeOK
  <2>3. Buffered' = Buffered \cup {hand}
    BY <2>1, <2>2 DEF Buffered
  <2>4. InHand = {hand} /\ InHand' = {}
    BY <2>1 DEF InHand, Send
  <2>5. Held' = Held /\ Completed' = Completed /\ discarded' = discarded /\ accepted' = accepted
    BY DEF Held, Completed, Send, sourceVars, workVars
  <2>6. \A k, l \in 1 .. Len(chan') : chan'[k] = chan'[l] => k = l
    <3>1. \A k \in 1 .. Len(chan) : chan[k] # hand
      BY <2>4 DEF IInv, TaskAccounting, Buffered
    <3>2. QED
      BY <2>1, <2>2, <3>1 DEF IInv, TaskAccounting
  <2>7. QED
    BY <2>3, <2>4, <2>5, <2>6 DEF IInv, TaskAccounting, Send, workVars
<1>8. QED
  BY <1>1, <1>2, <1>3, <1>4, <1>5, <1>6, <1>7 DEF IInv

(* A refused task is destroyed, and every worker has unwound by then. *)
LEMMA SendFailsInv ==
  ASSUME IInv, SendFails
  PROVE  IInv'
<1>1. TypeOK'
  <2>1. hand \in Task
    BY DEF IInv, SendFails, CallerInv, TypeOK
  <2>3. QED
    BY <2>1 DEF IInv, TypeOK, SendFails, vars, callerVars, sourceVars, batchVars, chanVars, workVars
<1>2. CallerInv'
  BY DEF IInv, CallerInv, SendFails, sourceVars, workVars
<1>3. JobInv'
  BY DEF IInv, JobInv, Completed, SendFails, sourceVars, workVars
<1>4. ChannelInv'
  <2>1. /\ ReceiversGone /\ closure = "running" /\ closure' = "disconnected"
        /\ UNCHANGED <<job, chan, original>> /\ discarded' = discarded \cup {hand}
        /\ sender
    BY DEF SendFails, IInv, CallerInv, workVars
  <2>2. \E w \in Worker : job[w] = "unwound"
    <3>1. 1 \in Worker
      BY WorkerCountType DEF Worker
    <3>2. job[1] = "unwound"
      BY <2>1, <3>1 DEF ReceiversGone, IInv, JobInv, Ended
    <3>3. QED
      BY <3>1, <3>2
  <2>3. Cardinality(discarded') <= WorkerCount + 1
    <3>1. IsFiniteSet(discarded) /\ Cardinality(discarded) \in Nat
      BY TaskSetsFinite DEF IInv, TypeOK
    <3>2. Cardinality(discarded) <= WorkerCount
      BY <2>1, <3>1, WorkerCountType DEF IInv, ChannelInv
    <3>3. /\ Cardinality(discarded \cup {hand}) \in Nat
          /\ Cardinality(discarded \cup {hand}) <= Cardinality(discarded) + 1
      <4>1. Cardinality(discarded \cup {hand}) =
              IF hand \in discarded THEN Cardinality(discarded) ELSE Cardinality(discarded) + 1
        BY <3>1, FS_AddElement
      <4>2. QED
        BY <3>1, <4>1
    <3>4. Cardinality(discarded') = Cardinality(discarded \cup {hand})
      BY <2>1
    <3>5. QED
      BY <3>1, <3>2, <3>3, <3>4, WorkerCountType
  <2>4. QED
    BY <2>1, <2>2, <2>3 DEF IInv, ChannelInv, ReceiversGone
<1>5. SourceInv'
  BY DEF IInv, SourceInv, SendFails, sourceVars, workVars
<1>6. ScopeInv'
  BY DEF IInv, ScopeInv, SendFails, sourceVars, workVars
<1>7. TaskAccounting'
  <2>1. hand # NoTask
    BY DEF IInv, CallerInv, SendFails
  <2>2. InHand = {hand} /\ InHand' = {}
    BY <2>1 DEF InHand, SendFails
  <2>3. /\ Buffered' = Buffered /\ Held' = Held /\ Completed' = Completed
        /\ UNCHANGED <<chan, job, holds, accepted>>
        /\ discarded' = discarded \cup {hand}
    BY DEF Buffered, Held, Completed, SendFails, workVars, sourceVars
  <2>4. QED
    BY <2>2, <2>3 DEF IInv, TaskAccounting
<1>8. QED
  BY <1>1, <1>2, <1>3, <1>4, <1>5, <1>6, <1>7 DEF IInv

(* Closing the sender moves no task. *)
LEMMA CloseSenderInv ==
  ASSUME IInv, CloseSender
  PROVE  IInv'
<1>1. TypeOK'
  BY DEF IInv, TypeOK, CloseSender, sourceVars, workVars
<1>2. CallerInv'
  BY DEF IInv, CallerInv, CloseSender, sourceVars, workVars
<1>3. JobInv'
  BY DEF IInv, JobInv, Completed, CloseSender, sourceVars, workVars
<1>4. ChannelInv'
  BY DEF IInv, ChannelInv, ReceiversGone, CallerInv, CloseSender, sourceVars,
     workVars
<1>5. SourceInv'
  BY DEF IInv, SourceInv, Stopped, PolicyReached, Failures, CloseSender,
     sourceVars, workVars
<1>6. ScopeInv'
  BY DEF IInv, ScopeInv, CloseSender, sourceVars, workVars
<1>7. TaskAccounting'
  BY AccountingFrame DEF IInv, CloseSender, sourceVars, workVars
<1>8. QED
  BY <1>1, <1>2, <1>3, <1>4, <1>5, <1>6, <1>7 DEF IInv

(* A structured answer is prepared only when no job unwound. *)
LEMMA JoinInv ==
  ASSUME IInv, Join
  PROVE  IInv'
<1>1. TypeOK'
  BY DEF IInv, TypeOK, Join, sourceVars, batchVars, chanVars, workVars
<1>2. CallerInv'
  BY DEF IInv, CallerInv, Join, sourceVars, batchVars, chanVars, workVars
<1>3. JobInv'
  BY DEF IInv, JobInv, Completed, Join, sourceVars, batchVars, chanVars,
     workVars
<1>4. ChannelInv'
  BY DEF IInv, ChannelInv, ReceiversGone, Join, sourceVars, batchVars,
     chanVars, workVars
<1>5. SourceInv'
  BY DEF IInv, SourceInv, Stopped, PolicyReached, Failures, Join, sourceVars,
     batchVars, chanVars, workVars
<1>6. ScopeInv'
  BY DEF IInv, ScopeInv, Joined, Unwinds, Join, sourceVars, batchVars,
     chanVars, workVars
<1>7. TaskAccounting'
  BY AccountingFrame DEF IInv, Join, sourceVars, batchVars, chanVars, workVars
<1>8. QED
  BY <1>1, <1>2, <1>3, <1>4, <1>5, <1>6, <1>7 DEF IInv

(* The panic leaves the scope after its jobs have ended. *)
LEMMA JoinUnwindsInv ==
  ASSUME IInv, JoinUnwinds
  PROVE  IInv'
<1>1. TypeOK'
  BY DEF IInv, TypeOK, Results, JoinUnwinds, sourceVars, batchVars, chanVars,
     workVars
<1>2. CallerInv'
  BY DEF IInv, CallerInv, JoinUnwinds, sourceVars, batchVars, chanVars,
     workVars
<1>3. JobInv'
  BY DEF IInv, JobInv, Completed, JoinUnwinds, sourceVars, batchVars,
     chanVars, workVars
<1>4. ChannelInv'
  BY DEF IInv, ChannelInv, ReceiversGone, JoinUnwinds, sourceVars, batchVars,
     chanVars, workVars
<1>5. SourceInv'
  BY DEF IInv, SourceInv, Stopped, PolicyReached, Failures, JoinUnwinds,
     sourceVars, batchVars, chanVars, workVars
<1>6. ScopeInv'
  BY DEF IInv, ScopeInv, Joined, JoinUnwinds, sourceVars, batchVars, chanVars,
     workVars
<1>7. TaskAccounting'
  BY AccountingFrame DEF IInv, JoinUnwinds, sourceVars, batchVars, chanVars,
     workVars
<1>8. QED
  BY <1>1, <1>2, <1>3, <1>4, <1>5, <1>6, <1>7 DEF IInv

(* The answer is chosen after the scope was left without a panic. *)
LEMMA ConcludeInv ==
  ASSUME IInv, Conclude
  PROVE  IInv'
<1>1. TypeOK'
  BY DEF IInv, TypeOK, Results, Conclude, Verdicts, CountErrors, Conclusion,
     sourceVars, batchVars, chanVars, workVars
<1>2. CallerInv'
  BY DEF IInv, CallerInv, Conclude, Verdicts, CountErrors, Conclusion,
     sourceVars, batchVars, chanVars, workVars
<1>3. JobInv'
  BY DEF IInv, JobInv, Completed, Conclude, sourceVars, batchVars, chanVars,
     workVars
<1>4. ChannelInv'
  BY DEF IInv, ChannelInv, ReceiversGone, Conclude, sourceVars, batchVars,
     chanVars, workVars
<1>5. SourceInv'
  BY DEF IInv, SourceInv, Stopped, PolicyReached, Failures, Conclude,
     sourceVars, batchVars, chanVars, workVars
<1>6. ScopeInv'
  BY DEF IInv, ScopeInv, Joined, Unwinds, Conclude, sourceVars, batchVars,
     chanVars, workVars
<1>7. TaskAccounting'
  BY AccountingFrame DEF IInv, Conclude, sourceVars, batchVars, chanVars,
     workVars
<1>8. QED
  BY <1>1, <1>2, <1>3, <1>4, <1>5, <1>6, <1>7 DEF IInv

(* A starting job owns nothing yet. *)
LEMMA StartJobInv ==
  ASSUME IInv, NEW w \in Worker, StartJob(w)
  PROVE  IInv'
<1>1. TypeOK'
  BY DEF IInv, TypeOK, StartJob, callerVars, sourceVars, chanVars
<1>2. CallerInv'
  BY DEF IInv, CallerInv, StartJob, callerVars, sourceVars, chanVars
<1>3. JobInv'
  BY DEF IInv, JobInv, Completed, StartJob, callerVars, sourceVars, chanVars
<1>4. ChannelInv'
  BY DEF IInv, ChannelInv, ReceiversGone, Ended, StartJob, callerVars,
     sourceVars, chanVars
<1>5. SourceInv'
  BY DEF IInv, SourceInv, Stopped, PolicyReached, Failures, StartJob,
     callerVars, sourceVars, chanVars
<1>6. ScopeInv'
  BY DEF IInv, ScopeInv, Joined, Ended, StartJob, callerVars, sourceVars,
     chanVars
<1>7. TaskAccounting'
  BY AccountingFrame DEF IInv, StartJob, callerVars, sourceVars, chanVars
<1>8. QED
  BY <1>1, <1>2, <1>3, <1>4, <1>5, <1>6, <1>7 DEF IInv

(* The task moves from the head of the channel to one worker. *)
LEMMA RecvInv ==
  ASSUME IInv, NEW w \in Worker, Recv(w)
  PROVE  IInv'
<1>1. TypeOK'
  BY DEF IInv, TypeOK, Recv, callerVars, sourceVars
<1>2. CallerInv'
  BY DEF IInv, CallerInv, Recv, callerVars, sourceVars
<1>3. JobInv'
  BY DEF IInv, JobInv, TypeOK, Completed, Recv, callerVars, sourceVars
<1>4. ChannelInv'
  BY WorkerCountType DEF IInv, ChannelInv, ReceiversGone, Ended, Recv,
     callerVars, sourceVars
<1>5. SourceInv'
  BY DEF IInv, SourceInv, Stopped, PolicyReached, Failures, Recv, callerVars,
     sourceVars
<1>6. ScopeInv'
  BY DEF IInv, ScopeInv, Joined, Ended, Recv, callerVars, sourceVars
<1>7. TaskAccounting'
  <2> DEFINE t == Head(chan)
  <2>1. chan \in Seq(Task) /\ chan # <<>> /\ t = chan[1] /\ t \in Task /\ Len(chan) \in Nat \ {0} 
    BY DEF IInv, Recv, TypeOK
  <2>2. Len(chan') = Len(chan) - 1 /\ \A k \in 1 .. Len(chan') : chan'[k] = chan[k + 1]
    BY <2>1 DEF Recv
  <2>3. Buffered = Buffered' \cup {t}
    <3>1. Buffered \subseteq Buffered' \cup {t}
      <4> SUFFICES ASSUME NEW k \in 1 .. Len(chan), k # 1 PROVE chan[k] \in Buffered'
        BY <2>1 DEF Buffered
      <4>1. k - 1 \in 1 .. Len(chan') /\ chan'[k - 1] = chan[k]
        BY <2>1, <2>2
      <4>2. QED BY <4>1 DEF Buffered
    <3>2. Buffered' \cup {t} \subseteq Buffered
      BY <2>1, <2>2 DEF Buffered
    <3>3. QED
      BY <3>1, <3>2
  <2>4. t \notin Buffered' /\ \A k, l \in 1 .. Len(chan') : chan'[k] = chan'[l] => k = l
    <3>1. \A k, l \in 1 .. Len(chan) : chan[k] = chan[l] => k = l
      BY DEF IInv, TaskAccounting
    <3>2. \A k \in 1 .. Len(chan') : k + 1 \in 1 .. Len(chan) /\ k + 1 # 1
      BY <2>1, <2>2
    <3>3. QED BY <2>1, <2>2, <3>1, <3>2 DEF Buffered
  <2>5. job[w] # "run" /\ job' = [job EXCEPT ![w] = "run"] /\ holds' = [holds EXCEPT ![w] = t]
    BY DEF Recv
  <2>6. /\ job \in [Worker -> {"unspawned", "queued", "recv", "run", "drop"} \cup Ended]
        /\ holds \in [Worker -> Task \cup {NoTask}]
    BY DEF IInv, TypeOK
  <2>7. Held' = Held \cup {t}
    BY <2>5, <2>6 DEF Held
  <2>8. InHand' = InHand /\ Completed' = Completed /\ discarded' = discarded /\ accepted' = accepted
    BY DEF InHand, Completed, Recv, sourceVars, callerVars
  <2>9. t \notin Held
    BY <2>3 DEF IInv, TaskAccounting
  <2>10. \A u, v \in Worker : job'[u] = "run" /\ job'[v] = "run" /\ holds'[u] = holds'[v] => u = v
    BY <2>5, <2>6, <2>9 DEF Held, IInv, TaskAccounting
  <2>11. QED
    <3> HIDE DEF t
    <3> QED BY <2>3, <2>4, <2>7, <2>8, <2>9, <2>10 DEF IInv, TaskAccounting
<1>8. QED
  BY <1>1, <1>2, <1>3, <1>4, <1>5, <1>6, <1>7 DEF IInv

(* A worker exits only on a closed and empty channel. *)
LEMMA RecvClosedInv ==
  ASSUME IInv, NEW w \in Worker, RecvClosed(w)
  PROVE  IInv'
<1>1. TypeOK'
  BY DEF IInv, TypeOK, Ended, RecvClosed, callerVars, sourceVars, chanVars
<1>2. CallerInv'
  BY DEF IInv, CallerInv, RecvClosed, callerVars, sourceVars, chanVars
<1>3. JobInv'
  BY DEF IInv, JobInv, Completed, RecvClosed, callerVars, sourceVars, chanVars
<1>4. ChannelInv'
  BY DEF IInv, ChannelInv, ReceiversGone, Ended, RecvClosed, callerVars,
     sourceVars, chanVars
<1>5. SourceInv'
  BY DEF IInv, SourceInv, Stopped, PolicyReached, Failures, RecvClosed,
     callerVars, sourceVars, chanVars
<1>6. ScopeInv'
  BY DEF IInv, ScopeInv, Joined, Ended, RecvClosed, callerVars, sourceVars,
     chanVars
<1>7. TaskAccounting'
  BY AccountingFrame DEF IInv, RecvClosed, callerVars, sourceVars, chanVars
<1>8. QED
  BY <1>1, <1>2, <1>3, <1>4, <1>5, <1>6, <1>7 DEF IInv

(* The task leaves its worker by being recorded. *)
LEMMA RunTaskInv ==
  ASSUME IInv, NEW w \in Worker, RunTask(w)
  PROVE  IInv'
<1>1. TypeOK'
  <2>1. outcome' \in [Task -> Recorded \cup {"none"}]
    BY DEF IInv, TypeOK, RunTask
  <2>2. QED
    BY <2>1 DEF IInv, TypeOK, RunTask, vars, callerVars, sourceVars, batchVars, chanVars, workVars
<1>2. CallerInv'
  BY DEF IInv, CallerInv, RunTask, callerVars, sourceVars, chanVars
<1>3. JobInv'
  BY DEF IInv, JobInv, TypeOK, Completed, RunTask, Recorded, callerVars,
     sourceVars, chanVars
<1>4. ChannelInv'
  BY DEF IInv, ChannelInv, ReceiversGone, Ended, RunTask, callerVars,
     sourceVars, chanVars
<1>5. SourceInv'
  <2>1. PolicyReached => PolicyReached'
    <3>1. holds[w] \in Task /\ outcome[holds[w]] = "none"
      BY DEF IInv, JobInv, TaskAccounting, Held, Completed, RunTask
    <3>2. Failures \subseteq Failures'
      BY <3>1 DEF Failures, RunTask, IInv, TypeOK
    <3>3. /\ Failures' \in SUBSET Task /\ Failures \in SUBSET Task
      BY DEF Failures
    <3>4. /\ IsFiniteSet(Failures')
          /\ Cardinality(Failures') \in Nat /\ Cardinality(Failures) \in Nat
      BY <3>3, TaskSetsFinite
    <3>5. Cardinality(Failures) <= Cardinality(Failures')
      BY <3>2, <3>4, FS_Subset
    <3>6. QED
      BY <3>4, <3>5, FailureLimitAssumption DEF PolicyReached
  <2>2. QED
    BY <2>1 DEF IInv, SourceInv, Stopped, RunTask, callerVars, sourceVars
<1>6. ScopeInv'
  BY DEF IInv, ScopeInv, Joined, Ended, RunTask, callerVars, sourceVars,
     chanVars
<1>7. TaskAccounting'
  <2>1. holds[w] \in Task /\ job[w] = "run"
    BY DEF IInv, JobInv, RunTask
  <2>2. job' = [job EXCEPT ![w] = "drop"] /\ holds' = holds
    BY DEF RunTask
  <2>3. job \in [Worker -> {"unspawned", "queued", "recv", "run", "drop"} \cup Ended]
    BY DEF IInv, TypeOK
  <2>4. Held = Held' \cup {holds[w]}
    BY <2>1, <2>2, <2>3 DEF Held
  <2>5. holds[w] \notin Held'
    BY <2>1, <2>2, <2>3 DEF Held, IInv, TaskAccounting
  <2>6. Completed' = Completed \cup {holds[w]}
    BY <2>1 DEF RunTask, Completed, IInv, TypeOK, Recorded
  <2>7. InHand' = InHand /\ Buffered' = Buffered /\ UNCHANGED <<chan, discarded, accepted>>
    BY DEF InHand, Buffered, RunTask, callerVars, sourceVars, chanVars
  <2>8. \A u, v \in Worker : job'[u] = "run" /\ job'[v] = "run" /\ holds'[u] = holds'[v] => u = v
    BY <2>2, <2>3 DEF IInv, TaskAccounting
  <2>9. QED
    BY <2>4, <2>5, <2>6, <2>7, <2>8 DEF IInv, TaskAccounting
<1>8. QED
  BY <1>1, <1>2, <1>3, <1>4, <1>5, <1>6, <1>7 DEF IInv

(* A recorded task is destroyed and its worker receives again. *)
LEMMA DropTaskInv ==
  ASSUME IInv, NEW w \in Worker, DropTask(w)
  PROVE  IInv'
<1>1. TypeOK'
  BY DEF IInv, TypeOK, DropTask, callerVars, sourceVars, chanVars
<1>2. CallerInv'
  BY DEF IInv, CallerInv, DropTask, callerVars, sourceVars, chanVars
<1>3. JobInv'
  BY DEF IInv, JobInv, TypeOK, Completed, DropTask, callerVars, sourceVars,
     chanVars
<1>4. ChannelInv'
  BY DEF IInv, ChannelInv, ReceiversGone, Ended, DropTask, callerVars,
     sourceVars, chanVars
<1>5. SourceInv'
  BY DEF IInv, SourceInv, Stopped, PolicyReached, Failures, DropTask,
     callerVars, sourceVars, chanVars
<1>6. ScopeInv'
  BY DEF IInv, ScopeInv, Joined, Ended, DropTask, callerVars, sourceVars,
     chanVars
<1>7. TaskAccounting'
  BY AccountingFrame DEF IInv, DropTask, callerVars, sourceVars, chanVars
<1>8. QED
  BY <1>1, <1>2, <1>3, <1>4, <1>5, <1>6, <1>7 DEF IInv

(* When the last receiver unwinds, the buffered tasks are destroyed unrun. *)
LEMMA DropPanicsInv ==
  ASSUME IInv, NEW w \in Worker, DropPanics(w)
  PROVE  IInv'
<1>1. TypeOK'
  <2>1. Buffered \subseteq Task
    BY DEF IInv, TypeOK, Buffered
  <2>2. chan' \in Seq(Task) /\ discarded' \in SUBSET Task
    <3>1. CASE UNCHANGED <<chan, discarded>>
      BY <3>1 DEF IInv, TypeOK
    <3>2. CASE chan' = <<>> /\ discarded' = discarded \cup Buffered
      BY <2>1, <3>2 DEF IInv, TypeOK
    <3>3. QED
      BY <3>1, <3>2 DEF DropPanics
  <2>3. job' \in [Worker -> {"unspawned", "queued", "recv", "run", "drop"} \cup Ended]
    BY DEF IInv, TypeOK, DropPanics, Ended
  <2>4. holds' \in [Worker -> Task \cup {NoTask}]
    BY DEF IInv, TypeOK, DropPanics
  <2>5. QED
    BY <2>2, <2>3, <2>4 DEF IInv, TypeOK, DropPanics, callerVars, sourceVars
<1>2. CallerInv'
  BY DEF IInv, CallerInv, DropPanics, callerVars, sourceVars
<1>3. JobInv'
  BY DEF IInv, JobInv, TypeOK, Completed, DropPanics, callerVars, sourceVars
<1>4. ChannelInv'
  <2> DEFINE last == ~original /\ \A v \in Worker \ {w} : job[v] \in Ended
  <2>1. /\ job[w] = "drop" /\ job' = [job EXCEPT ![w] = "unwound"]
        /\ original' = original /\ closure' = closure
        /\ job \in [Worker -> {"unspawned", "queued", "recv", "run", "drop"} \cup Ended]
    BY DEF DropPanics, IInv, TypeOK, callerVars
  <2>2. ~ReceiversGone
    BY <2>1 DEF ReceiversGone, Ended
  <2>3. discarded = {} /\ closure # "disconnected"
    BY <2>2 DEF IInv, ChannelInv
  <2>4. ReceiversGone' <=> last
    BY <2>1 DEF ReceiversGone, Ended
  <2>5. job'[w] = "unwound"
    BY <2>1
  <2>6. CASE last
    <3>1. chan' = <<>> /\ discarded' = Buffered
      BY <2>3, <2>6 DEF DropPanics
    <3>2. chan \in Seq(Task) /\ Len(chan) \in Nat /\ Len(chan) <= WorkerCount
      BY DEF IInv, TypeOK, ChannelInv
    <3>3. Cardinality(Buffered) <= Len(chan) /\ IsFiniteSet(Buffered)
      BY <3>2, ImageCardinality DEF Buffered
    <3>4. Cardinality(discarded') <= WorkerCount
      BY <3>1, <3>2, <3>3, WorkerCountType, FS_CardinalityType
    <3>5. QED
      BY <2>1, <2>3, <2>4, <2>5, <2>6, <3>1, <3>4, WorkerCountType DEF ChannelInv
  <2>7. CASE ~last
    <3>1. chan' = chan /\ discarded' = {}
      BY <2>3, <2>7 DEF DropPanics
    <3>2. QED
      BY <2>1, <2>3, <2>4, <2>7, <3>1, WorkerCountType, FS_EmptySet DEF IInv, ChannelInv
  <2>8. QED BY <2>6, <2>7
<1>5. SourceInv'
  BY DEF IInv, SourceInv, Stopped, PolicyReached, Failures, DropPanics,
     callerVars, sourceVars
<1>6. ScopeInv'
  BY DEF IInv, ScopeInv, Joined, Ended, DropPanics, callerVars, sourceVars
<1>7. TaskAccounting'
  <2>1. /\ job[w] = "drop" /\ job' = [job EXCEPT ![w] = "unwound"]
        /\ holds' = [holds EXCEPT ![w] = NoTask]
        /\ UNCHANGED <<hand, outcome, accepted>>
        /\ job \in [Worker -> {"unspawned", "queued", "recv", "run", "drop"} \cup Ended]
        /\ holds \in [Worker -> Task \cup {NoTask}]
    BY DEF DropPanics, IInv, TypeOK, callerVars, sourceVars
  <2>2. \A v \in Worker : /\ job'[v] = "run" <=> job[v] = "run"
                          /\ job[v] = "run" => holds'[v] = holds[v]
    BY <2>1
  <2>3. CASE UNCHANGED <<chan, discarded>>
    BY <2>1, <2>2, <2>3, AccountingFrame DEF IInv
  <2>4. CASE chan' = <<>> /\ discarded' = discarded \cup Buffered
    <3>1. Buffered' = {} /\ Held' = Held /\ InHand' = InHand /\ Completed' = Completed
      BY <2>1, <2>2, <2>4 DEF Buffered, Held, InHand, Completed
    <3>2. \A k, l \in 1 .. Len(chan') : chan'[k] = chan'[l] => k = l
      BY <2>4
    <3>3. QED
      BY <2>1, <2>2, <2>4, <3>1, <3>2 DEF IInv, TaskAccounting
  <2>5. QED
    BY <2>3, <2>4 DEF DropPanics
<1>8. QED
  BY <1>1, <1>2, <1>3, <1>4, <1>5, <1>6, <1>7 DEF IInv

(* A failing reporter moves no task. *)
LEMMA ReporterFailsInv ==
  ASSUME IInv, ReporterFails
  PROVE  IInv'
<1>1. TypeOK'
  BY DEF IInv, TypeOK, ReporterFails, callerVars, sourceVars, chanVars,
     workVars
<1>2. CallerInv'
  BY DEF IInv, CallerInv, ReporterFails, callerVars, sourceVars, chanVars,
     workVars
<1>3. JobInv'
  BY DEF IInv, JobInv, Completed, ReporterFails, callerVars, sourceVars,
     chanVars, workVars
<1>4. ChannelInv'
  BY DEF IInv, ChannelInv, ReceiversGone, ReporterFails, callerVars,
     sourceVars, chanVars, workVars
<1>5. SourceInv'
  BY DEF IInv, SourceInv, Stopped, ReporterFails, callerVars, sourceVars,
     chanVars, workVars
<1>6. ScopeInv'
  BY DEF IInv, ScopeInv, ReporterFails, callerVars, sourceVars, chanVars,
     workVars
<1>7. TaskAccounting'
  BY AccountingFrame DEF IInv, ReporterFails, callerVars, sourceVars,
     chanVars, workVars
<1>8. QED
  BY <1>1, <1>2, <1>3, <1>4, <1>5, <1>6, <1>7 DEF IInv

(* A stuttering step keeps everything. *)
LEMMA StutterInv ==
  ASSUME IInv, UNCHANGED vars
  PROVE  IInv'
<1>1. TypeOK'
  BY DEF IInv, TypeOK, vars, callerVars, sourceVars, batchVars, chanVars,
     workVars
<1>2. CallerInv'
  BY DEF IInv, CallerInv, vars, callerVars, sourceVars, batchVars, chanVars,
     workVars
<1>3. JobInv'
  BY DEF IInv, JobInv, Completed, vars, callerVars, sourceVars, batchVars,
     chanVars, workVars
<1>4. ChannelInv'
  BY DEF IInv, ChannelInv, ReceiversGone, vars, callerVars, sourceVars,
     batchVars, chanVars, workVars
<1>5. SourceInv'
  BY DEF IInv, SourceInv, Stopped, PolicyReached, Failures, vars, callerVars,
     sourceVars, batchVars, chanVars, workVars
<1>6. ScopeInv'
  BY DEF IInv, ScopeInv, Joined, Unwinds, vars, callerVars, sourceVars,
     batchVars, chanVars, workVars
<1>7. TaskAccounting'
  BY AccountingFrame DEF IInv, vars, callerVars, sourceVars, batchVars,
     chanVars, workVars
<1>8. QED
  BY <1>1, <1>2, <1>3, <1>4, <1>5, <1>6, <1>7 DEF IInv

(* No step leaves the inductive invariant. *)
LEMMA StepInv == IInv /\ [Next]_vars => IInv'
<1> SUFFICES ASSUME IInv, [Next]_vars PROVE IInv'
  OBVIOUS
<1>1. CASE Producer
  BY <1>1, StartInv, StartFailsInv, SpawnInv, DropReceiverInv, AskInv, PullNoneInv,
     PullExtraInv, PullAcceptInv, PullRefuseInv, PullPanicsInv, SendInv, SendFailsInv,
     CloseSenderInv, JoinInv, JoinUnwindsInv, ConcludeInv DEF Producer
<1>2. ASSUME NEW w \in Worker, Work(w) PROVE IInv'
  BY <1>2, StartJobInv, RecvInv, RecvClosedInv, RunTaskInv, DropTaskInv, DropPanicsInv DEF Work
<1>3. CASE ReporterFails
  BY <1>3, ReporterFailsInv
<1>4. CASE Terminated \/ UNCHANGED vars
  BY <1>4, StutterInv DEF Terminated
<1>5. QED
  BY <1>1, <1>2, <1>3, <1>4 DEF Next

(* The inductive invariant holds throughout the call. *)
THEOREM Invariance == Spec => []IInv
<1>1. QED
  BY InitInv, StepInv, PTL DEF Spec

(* Every variable keeps its type, for every instance. *)
THEOREM TypeCorrect == Spec => []TypeOK
<1>1. IInv => TypeOK
  BY DEF IInv
<1>2. QED
  BY <1>1, Invariance, PTL

(* No task of a parallel batch is lost or run twice. *)
THEOREM Accounting == Spec => []TaskAccounting
<1>1. IInv => TaskAccounting
  BY DEF IInv
<1>2. QED
  BY <1>1, Invariance, PTL

(* The caller comes to its answer with every accepted task completed, and   *)
(* stops asking only for a reason that still holds.                         *)
LEMMA ReportIsComplete ==
  ASSUME IInv, pc = "report"
  PROVE  /\ closure = "ok" /\ Unfinished = {}
         /\ exhausted \/ exceeded \/ Stopped
         /\ exceeded => accepted = Count
<1>1. /\ Joined /\ ~Unwinds /\ closure # "running" /\ ~original /\ hand = NoTask
  BY DEF IInv, ScopeInv, CallerInv
<1>2. closure = "ok" /\ discarded = {}
  BY <1>1 DEF IInv, TypeOK, Unwinds, ChannelInv
<1>3. ReceiversGone /\ Held = {} /\ InHand = {}
  BY <1>1 DEF ReceiversGone, Joined, Held, InHand, Ended
<1>4. Buffered = {}
  <2>1. chan = <<>>
    BY <1>3 DEF IInv, ChannelInv
  <2>2. QED
    BY <2>1 DEF Buffered
<1>5. \A i \in Task : i < accepted => i \in Completed
  BY <1>2, <1>3, <1>4, CountAssumption DEF IInv, TaskAccounting, TypeOK, Task
<1>6. Unfinished = {}
  BY <1>5 DEF Unfinished, Completed
<1>7. QED
  BY <1>2, <1>6 DEF IInv, SourceInv

(* The call ends with an empty scope: no job, no buffered task, and after a *)
(* structured answer no task that was accepted and did not run.             *)
THEOREM EmptyScope == Spec => []NothingOutlivesTheCall
<1>1. ASSUME IInv, pc = "done" PROVE NothingOutlivesTheCall
  <2>1. CASE original
    <3>1. accepted = 0 /\ \A w \in Worker : job[w] = "unspawned"
      BY <1>1, <2>1 DEF IInv, CallerInv, JobInv
    <3>2. InHand = {} /\ Buffered = {} /\ Held = {} /\ discarded = {}
      <4>1. 0 .. accepted - 1 = {}
        BY <3>1
      <4>2. QED
        BY <1>1, <4>1 DEF IInv, TaskAccounting
    <3>3. Unfinished = {}
      BY <3>1 DEF Unfinished, Task
    <3>4. QED
      BY <3>1, <3>2, <3>3 DEF NothingOutlivesTheCall
  <2>2. CASE ~original
    <3>1. Joined /\ ReceiversGone /\ hand = NoTask /\ closure # "running"
      BY <1>1, <2>2 DEF IInv, ScopeInv, CallerInv, Joined, ReceiversGone
    <3>2. InHand = {} /\ Held = {}
      BY <3>1 DEF InHand, Held, Joined, Ended
    <3>3. Buffered = {}
      <4>1. chan = <<>>
        BY <1>1, <3>1 DEF IInv, ChannelInv
      <4>2. QED
        BY <4>1 DEF Buffered
    <3>4. ASSUME result # "Panic" PROVE Unfinished = {} /\ discarded = {}
      <4>1. ~Unwinds
        BY <1>1, <2>2, <3>4 DEF IInv, ScopeInv
      <4>2. discarded = {}
        BY <1>1, <4>1 DEF IInv, ChannelInv, Unwinds
      <4>3. \A i \in Task : i < accepted => i \in Completed
        BY <1>1, <3>2, <3>3, <4>2, CountAssumption DEF IInv, TaskAccounting, TypeOK, Task
      <4>4. Unfinished = {}
        BY <4>3 DEF Unfinished, Completed
      <4>5. QED
        BY <4>2, <4>4
    <3>5. QED
      BY <3>1, <3>2, <3>3, <3>4 DEF NothingOutlivesTheCall, Joined
  <2>3. QED
    BY <2>1, <2>2
<1>2. IInv => NothingOutlivesTheCall
  BY <1>1 DEF NothingOutlivesTheCall
<1>3. QED
  BY <1>2, Invariance, PTL

(* The call never answers with a scheduling error: whenever the channel     *)
(* disconnects, a worker's panic takes precedence.                          *)
THEOREM PanicsTakePrecedence == Spec => []NoSchedulingError
<1>1. Init => NoSchedulingError
  BY DEF Init, NoSchedulingError
<1>2. ASSUME IInv, NoSchedulingError, [Next]_vars PROVE NoSchedulingError'
  <2>1. CASE Conclude
    <3>1. closure = "ok" /\ Unfinished = {}
      BY <1>2, <2>1, ReportIsComplete DEF Conclude
    <3>2. result' \in Verdicts \cup {"Panic"}
      BY <2>1 DEF Conclude
    <3>3. QED
      BY <3>1, <3>2 DEF Verdicts, CountErrors, Conclusion, NoSchedulingError
  <2>2. CASE StartFails \/ JoinUnwinds
    BY <2>2 DEF StartFails, JoinUnwinds, NoSchedulingError
  <2>3. CASE Producer /\ ~(Conclude \/ StartFails \/ JoinUnwinds)
    BY <1>2, <2>3 DEF NoSchedulingError, callerVars, Producer, Start, Spawn, DropReceiver,
       Ask, PullNone, PullExtra, PullAccept, PullRefuse, PullPanics, Send, SendFails,
       CloseSender, Join
  <2>4. CASE (\E w \in Worker : Work(w)) \/ ReporterFails \/ Terminated \/ UNCHANGED vars
    BY <1>2, <2>4 DEF NoSchedulingError, vars, callerVars, Work, StartJob, Recv, RecvClosed,
       RunTask, DropTask, DropPanics, ReporterFails, Terminated
  <2>5. QED
    BY <1>2, <2>1, <2>2, <2>3, <2>4 DEF Next
<1>3. QED
  BY <1>1, <1>2, Invariance, PTL DEF Spec

-----------------------------------------------------------------------------
(* The parallel path implements BatchContract, with a window of two items   *)
(* per worker and one more.  The heart of it is UnfinishedBound: where the  *)
(* accepted tasks can be, by TaskAccounting, bounds how many there can be.  *)

(* Two finite sets together have at most the sum of their elements. *)
LEMMA UnionBound ==
  ASSUME NEW S, NEW T, IsFiniteSet(S), IsFiniteSet(T)
  PROVE  /\ IsFiniteSet(S \cup T)
         /\ Cardinality(S \cup T) \in Nat
         /\ Cardinality(S \cup T) <= Cardinality(S) + Cardinality(T)
<1>1. IsFiniteSet(S \cap T)
  BY FS_Intersection
<1>2. /\ Cardinality(S) \in Nat /\ Cardinality(T) \in Nat
      /\ Cardinality(S \cap T) \in Nat
  BY <1>1, FS_CardinalityType
<1>3. /\ IsFiniteSet(S \cup T)
      /\ Cardinality(S \cup T) = Cardinality(S) + Cardinality(T) - Cardinality(S \cap T)
  BY FS_Union
<1>4. Cardinality(S \cup T) \in Nat
  BY <1>3, FS_CardinalityType
<1>5. QED
  BY <1>2, <1>3, <1>4

(* A worker holds at most one task that has not run. *)
LEMMA HeldBound ==
  ASSUME IInv
  PROVE  IsFiniteSet(Held) /\ Cardinality(Held) \in Nat /\ Cardinality(Held) <= WorkerCount
<1> DEFINE all == {holds[w] : w \in 1 .. WorkerCount}
<1>1. IsFiniteSet(all) /\ Cardinality(all) <= WorkerCount
  BY WorkerCountType, ImageCardinality
<1>2. Held \subseteq all
  BY DEF Held, Worker
<1>3. IsFiniteSet(Held) /\ Cardinality(Held) <= Cardinality(all)
  BY <1>1, <1>2, FS_Subset
<1>4. Cardinality(Held) \in Nat /\ Cardinality(all) \in Nat
  BY <1>1, <1>3, FS_CardinalityType
<1>5. QED
  BY <1>1, <1>3, <1>4, WorkerCountType

(* The channel buffers at most one task per worker. *)
LEMMA BufferedBound ==
  ASSUME IInv
  PROVE  /\ IsFiniteSet(Buffered) /\ Cardinality(Buffered) \in Nat
         /\ Cardinality(Buffered) <= WorkerCount
<1>1. Len(chan) \in Nat /\ Len(chan) <= WorkerCount
  BY DEF IInv, TypeOK, ChannelInv
<1>2. IsFiniteSet(Buffered) /\ Cardinality(Buffered) <= Len(chan)
  BY <1>1, ImageCardinality DEF Buffered
<1>3. Cardinality(Buffered) \in Nat
  BY <1>2, FS_CardinalityType
<1>4. QED
  BY <1>1, <1>2, <1>3, WorkerCountType

(* The caller has a task in hand only while it sends. *)
LEMMA InHandBound ==
  ASSUME IInv
  PROVE  /\ IsFiniteSet(InHand) /\ Cardinality(InHand) \in Nat
         /\ Cardinality(InHand) = IF pc = "send" THEN 1 ELSE 0
<1>1. CASE pc = "send"
  <2>1. InHand = {hand}
    BY <1>1 DEF IInv, CallerInv, InHand
  <2>2. IsFiniteSet({hand}) /\ Cardinality({hand}) = 1
    BY FS_Singleton
  <2>3. QED
    BY <1>1, <2>1, <2>2
<1>2. CASE pc # "send"
  <2>1. InHand = {}
    BY <1>2 DEF IInv, CallerInv, InHand
  <2>2. QED
    BY <1>2, <2>1, FS_EmptySet
<1>3. QED
  BY <1>1, <1>2

(* What is accepted and not completed is in hand, buffered, held, or was    *)
(* destroyed after every receiver had gone: never more than fits.           *)
LEMMA UnfinishedBound ==
  ASSUME IInv
  PROVE  /\ Cardinality(Unfinished) \in Nat
         /\ Cardinality(Unfinished) + (IF pc = "pull" THEN 1 ELSE 0) <= 2 * WorkerCount + 1
         /\ pc = "ask" => Cardinality(Unfinished) < 2 * WorkerCount + 1
<1> USE WorkerCountType
<1>1. Unfinished \subseteq InHand \cup Buffered \cup Held \cup discarded
  <2>1. \A i \in Unfinished : i \in 0 .. accepted - 1 /\ i \notin Completed
    BY CountAssumption DEF Unfinished, Completed, IInv, TypeOK, Task
  <2>2. QED
    BY <2>1 DEF IInv, TaskAccounting
<1>2. Cardinality(Unfinished) \in Nat
  BY TaskSetsFinite DEF Unfinished
<1>3. CASE discarded = {}
  <2> DEFINE places == InHand \cup (Buffered \cup Held)
  <2>1. /\ IsFiniteSet(Buffered \cup Held) /\ Cardinality(Buffered \cup Held) \in Nat
        /\ Cardinality(Buffered \cup Held) <= 2 * WorkerCount
    <3>1. Cardinality(Buffered \cup Held) <= Cardinality(Buffered) + Cardinality(Held)
      BY HeldBound, BufferedBound, UnionBound
    <3>2. IsFiniteSet(Buffered \cup Held) /\ Cardinality(Buffered \cup Held) \in Nat
      BY HeldBound, BufferedBound, UnionBound
    <3>3. QED
      BY <3>1, <3>2, HeldBound, BufferedBound
  <2>2. /\ IsFiniteSet(places) /\ Cardinality(places) \in Nat
        /\ Cardinality(places) <= (IF pc = "send" THEN 1 ELSE 0) + 2 * WorkerCount
    <3>1. /\ IsFiniteSet(places) /\ Cardinality(places) \in Nat
          /\ Cardinality(places) <= Cardinality(InHand) + Cardinality(Buffered \cup Held)
      BY <2>1, InHandBound, UnionBound
    <3>2. QED
      BY <2>1, <3>1, InHandBound
  <2>3. Unfinished \subseteq places
    BY <1>1, <1>3
  <2>4. Cardinality(Unfinished) <= Cardinality(places)
    BY <2>2, <2>3, FS_Subset
  <2>5. QED
    BY <1>2, <2>2, <2>4
<1>4. CASE discarded # {}
  <2>1. ReceiversGone /\ chan = <<>>
    BY <1>4 DEF IInv, ChannelInv
  <2>2. Buffered = {} /\ Held = {}
    BY <2>1 DEF Buffered, Held, ReceiversGone, Ended
  <2>3. /\ IsFiniteSet(discarded) /\ Cardinality(discarded) \in Nat
        /\ Cardinality(discarded) <= WorkerCount + (IF closure = "disconnected" THEN 1 ELSE 0)
    BY TaskSetsFinite DEF IInv, TypeOK, ChannelInv
  <2>4. Unfinished \subseteq InHand \cup discarded
    BY <1>1, <2>2
  <2>5. /\ IsFiniteSet(InHand \cup discarded) /\ Cardinality(InHand \cup discarded) \in Nat
        /\ Cardinality(InHand \cup discarded) <= Cardinality(InHand) + Cardinality(discarded)
    BY <2>3, InHandBound, UnionBound
  <2>6. Cardinality(Unfinished) <= Cardinality(InHand \cup discarded)
    BY <2>4, <2>5, FS_Subset
  <2>7. closure = "disconnected" => pc \notin {"send", "pull", "ask"}
    BY DEF IInv, CallerInv
  <2>8. QED
    BY <1>2, <2>3, <2>5, <2>6, <2>7, InHandBound
<1>5. QED
  BY <1>3, <1>4

(* Cardinality means the same in the instance. *)
LEMMA SameCardinality == \A S : Contract!Cardinality(S) = Cardinality(S)
BY DEF Contract!Cardinality, Cardinality

(* The contract's words mean the same here. *)
LEMMA SameWords ==
  /\ Contract!Task = Task
  /\ Contract!Recorded = Recorded
  /\ Contract!Unfinished = Unfinished
  /\ Contract!Failures = Failures
  /\ Contract!PolicyReached <=> PolicyReached
  /\ Contract!InFlight = Cardinality(Unfinished) + (IF pc = "pull" THEN 1 ELSE 0)
<1>1. Contract!Task = Task
  BY DEF Contract!Task, Task
<1>2. Contract!Recorded = Recorded
  BY DEF Contract!Recorded, Recorded
<1>3. Contract!Unfinished = Unfinished
  BY <1>1 DEF Contract!Unfinished, Unfinished
<1>4. Contract!Failures = Failures
  BY <1>1 DEF Contract!Failures, Failures
<1>5. Contract!PolicyReached <=> PolicyReached
  BY <1>4, SameCardinality DEF Contract!PolicyReached, PolicyReached
<1>6. Contract!InFlight = Cardinality(Unfinished) + (IF pc = "pull" THEN 1 ELSE 0)
  BY <1>3, SameCardinality DEF Contract!InFlight
<1>7. QED
  BY <1>1, <1>2, <1>3, <1>4, <1>5, <1>6

(* A step that changes nothing the contract sees is a stutter of it. *)
LEMMA Stutters ==
  ASSUME UNCHANGED <<accepted, exhausted, exceeded, outcome, result>>, (pc = "pull") <=> (pc' = "pull")
  PROVE  UNCHANGED Contract!vars
BY DEF Contract!vars

(* The caller's steps are steps of the contract. *)
LEMMA CallerRefines ==
  ASSUME IInv, Producer
  PROVE  [Contract!Next]_(Contract!vars)
<1> USE DEF batchVars, sourceVars, workVars, chanVars, callerVars
<1>1. CASE Start \/ DropReceiver \/ Send \/ SendFails \/ CloseSender \/ Join
  BY <1>1, Stutters DEF Start, DropReceiver, Send, SendFails, CloseSender, Join
<1>2. ASSUME NEW w \in Worker, Spawn(w) PROVE UNCHANGED Contract!vars
  BY <1>2, Stutters DEF Spawn
<1>3. CASE Ask
  <2>1. CASE Stopped
    BY <1>3, <2>1, Stutters DEF Ask
  <2>2. CASE ~Stopped
    <3>1. Contract!Ask
      <4>1. result = "none" /\ pc = "ask" /\ pc' = "pull" /\ ~exhausted /\ ~exceeded
             /\ UNCHANGED <<accepted, exhausted, exceeded, outcome, result>>
        BY <1>3, <2>2 DEF Ask, IInv, CallerInv, SourceInv
      <4>2. ~Contract!PolicyReached
        BY <2>2, SameWords DEF Stopped
      <4>3. Contract!Cardinality(Contract!Unfinished) < 2 * WorkerCount + 1
        BY <4>1, UnfinishedBound, SameWords, SameCardinality
      <4>4. QED
        <5>1. ~(pc = "pull") /\ (pc' = "pull") = TRUE
          BY <4>1
        <5>2. QED
          BY <4>1, <4>2, <4>3, <5>1 DEF Contract!Ask
    <3>2. QED
      BY <3>1 DEF Contract!Next
  <2>3. QED
    BY <2>1, <2>2
<1>4. CASE PullNone \/ PullExtra \/ PullRefuse \/ PullPanics
  <2>1. pc = "pull" /\ pc' # "pull" /\ result = "none" /\ UNCHANGED <<accepted, outcome, result>>
    BY <1>4 DEF PullNone, PullExtra, PullRefuse, PullPanics, IInv, CallerInv
  <2>2. CASE PullNone
    BY <2>1, <2>2 DEF PullNone, Contract!Exhaust, Contract!Next
  <2>3. CASE PullExtra /\ exceeded' = TRUE
    BY <2>1, <2>3 DEF PullExtra, Contract!Exceed, Contract!Next
  <2>4. CASE PullRefuse \/ PullPanics \/ (PullExtra /\ exceeded' # TRUE)
    <3>1. UNCHANGED <<exhausted, exceeded>>
      BY <2>4 DEF PullRefuse, PullPanics, PullExtra, IInv, TypeOK, SourceInv
    <3>2. QED
      BY <2>1, <3>1 DEF Contract!Decline, Contract!Next
  <2>5. QED
    BY <1>4, <2>2, <2>3, <2>4
<1>5. CASE PullAccept
  <2>1. Contract!Accept
    BY <1>5 DEF PullAccept, Contract!Accept, IInv, CallerInv
  <2>2. QED
    BY <2>1 DEF Contract!Next
<1>6. CASE StartFails \/ JoinUnwinds \/ Conclude
  <2> DEFINE v == result'
  <2>1. /\ result = "none" /\ pc # "pull" /\ pc' # "pull"
        /\ UNCHANGED <<accepted, exhausted, exceeded, outcome>>
    BY <1>6 DEF StartFails, JoinUnwinds, Conclude, IInv, CallerInv
  <2>2. v \in Contract!Structured \cup {"Panic"} /\ Contract!Truthful(v)
    <3>1. CASE StartFails
      <4>1. v \in {"ProgressReport", "Panic"} /\ accepted = 0
        BY <3>1 DEF StartFails, IInv, CallerInv
      <4>2. Contract!Unfinished = {}
        BY <4>1 DEF Contract!Unfinished, Contract!Task
      <4>3. QED
        BY <4>1, <4>2 DEF Contract!Truthful, Contract!Structured
    <3>2. CASE JoinUnwinds
      BY <3>2 DEF JoinUnwinds, Contract!Truthful, Contract!Structured
    <3>3. CASE Conclude
      <4>1. Contract!Unfinished = Unfinished
        BY SameWords
      <4>2. /\ closure = "ok" /\ Unfinished = {}
            /\ exhausted \/ exceeded \/ Stopped
            /\ exceeded => accepted = Count
        BY <3>3, ReportIsComplete DEF Conclude
      <4>3. /\ v \in Contract!Structured \cup {"Panic"}
            /\ v = "Finished" => exhausted /\ accepted = Count
            /\ v = "CountExceeded" => exceeded /\ accepted = Count
            /\ v = "CountShortfall" => exhausted /\ accepted < Count
            /\ v = "StoppedByTaskFailurePolicy" => ~exhausted /\ ~exceeded /\ reporter # "failed"
        <5>1. accepted \in 0 .. Count
          BY DEF IInv, TypeOK
        <5>2. v \in Verdicts \cup {"Panic"}
          BY <3>3 DEF Conclude
        <5>3. ASSUME v \in CountErrors
              PROVE  \/ v = "CountExceeded" /\ exceeded /\ accepted = Count
                     \/ v = "CountShortfall" /\ exhausted /\ accepted < Count
          BY <4>2, <5>3 DEF CountErrors
        <5>4. v = Conclusion /\ CountErrors = {} /\ ~exceeded =>
                 \/ v = "Finished" /\ exhausted /\ accepted = Count
                 \/ v = "StoppedByTaskFailurePolicy" /\ ~exhausted
          BY <5>1, CountAssumption DEF Conclusion, CountErrors
        <5>5. CountErrors = {} => ~exceeded
          BY DEF CountErrors
        <5>6. \/ v \in {"ProgressReport", "Panic"}
              \/ v \in CountErrors
              \/ v = Conclusion /\ CountErrors = {} /\ reporter # "failed"
          BY <4>2, <5>2 DEF Verdicts
        <5>7. QED
          BY <5>3, <5>4, <5>5, <5>6 DEF Contract!Structured
      <4>4. v = "StoppedByTaskFailurePolicy" => Contract!PolicyReached
        BY <4>2, <4>3, SameWords DEF Stopped
      <4>5. QED
        BY <4>1, <4>2, <4>3, <4>4 DEF Contract!Truthful
    <3>4. QED
      BY <1>6, <3>1, <3>2, <3>3
  <2>3. Contract!Return
    BY <2>1, <2>2 DEF Contract!Return
  <2>4. QED
    BY <2>3 DEF Contract!Next
<1>7. QED
  BY <1>1, <1>2, <1>3, <1>4, <1>5, <1>6 DEF Producer

(* The workers' steps are completions, or invisible to the contract. *)
LEMMA WorkRefines ==
  ASSUME IInv, NEW w \in Worker, Work(w)
  PROVE  [Contract!Next]_(Contract!vars)
<1>1. CASE StartJob(w) \/ Recv(w) \/ RecvClosed(w) \/ DropTask(w) \/ DropPanics(w)
  BY <1>1, Stutters
     DEF StartJob, Recv, RecvClosed, DropTask, DropPanics, callerVars, sourceVars
<1>2. CASE RunTask(w)
  <2>1. holds[w] \in Task /\ holds[w] \in Held
    BY <1>2 DEF IInv, JobInv, RunTask, Held
  <2>2. holds[w] \in Contract!Unfinished
    <3>1. holds[w] \notin Completed /\ holds[w] \in 0 .. accepted - 1
      BY <2>1 DEF IInv, TaskAccounting
    <3>2. accepted \in Int
      BY CountAssumption DEF IInv, TypeOK
    <3>3. holds[w] < accepted
      BY <3>1, <3>2
    <3>4. QED
      BY <2>1, <3>1, <3>3, SameWords DEF Completed, Unfinished
  <2>3. result = "none"
    <3>1. ~(pc = "done")
      BY <1>2 DEF IInv, ScopeInv, JobInv, Joined, Ended, RunTask
    <3>2. QED
      BY <3>1 DEF IInv, CallerInv
  <2>4. Contract!Complete(holds[w])
    BY <1>2, <2>2, <2>3 DEF Contract!Complete, Contract!Recorded, Recorded, RunTask,
                            callerVars, sourceVars
  <2>5. QED
    BY <2>1, <2>4 DEF Contract!Next, Contract!Task, Task
<1>3. QED
  BY <1>1, <1>2 DEF Work

(* The parallel path starts as the contract does. *)
LEMMA InitRefines == Init => Contract!Init
BY DEF Init, Contract!Init, Contract!Task, Task

(* Every step of the parallel path is a step of the contract or a stutter. *)
LEMMA StepRefines == IInv /\ [Next]_vars => [Contract!Next]_(Contract!vars)
<1> SUFFICES ASSUME IInv, [Next]_vars PROVE [Contract!Next]_(Contract!vars)
  OBVIOUS
<1>1. CASE ReporterFails \/ Terminated \/ UNCHANGED vars
  BY <1>1, Stutters DEF ReporterFails, Terminated, vars, callerVars, sourceVars,
                        batchVars, workVars
<1>2. QED
  BY <1>1, CallerRefines, WorkRefines DEF Next

(* The parallel path implements the contract of execute_with_count, for     *)
(* every pool size, task count, failure policy and reporting mode.          *)
THEOREM Refinement == Spec => ImplementsContract
<1>1. QED
  BY InitRefines, StepRefines, Invariance, PTL DEF Spec, ImplementsContract, Contract!Spec

(* At most 2 * worker_count + 1 items are ahead of the completed ones. *)
THEOREM WindowBounded == Spec => []AdmissionWindow
<1>1. IInv => AdmissionWindow
  BY UnfinishedBound, SameWords DEF AdmissionWindow, Contract!AdmissionWindow
<1>2. QED
  BY <1>1, Invariance, PTL

ContractProofs == INSTANCE BatchContract_proofs WITH
    Window <- 2 * WorkerCount + 1,
    pulling <- (pc = "pull")

(* The failures recorded exceed the limit of the policy by at most          *)
(* 2 * worker_count.                                                        *)
THEOREM OvershootBounded == Spec => []FailureOvershoot
<1>1. Count \in Nat /\ FailureLimit \in Nat /\ 2 * WorkerCount + 1 \in Nat \ {0}
  BY WorkerCountType, CountAssumption, FailureLimitAssumption
<1>2. Contract!Init => ContractProofs!Init
  BY DEF Contract!Init, ContractProofs!Init, Contract!Task, ContractProofs!Task
<1>3. [Contract!Next]_(Contract!vars) => [ContractProofs!Next]_(ContractProofs!vars)
  <2>1. Contract!Cardinality(Contract!Unfinished)
            = ContractProofs!Cardinality(ContractProofs!Unfinished)
    BY DEF Contract!Cardinality, ContractProofs!Cardinality, Contract!Unfinished, 
           ContractProofs!Unfinished, Contract!Task, ContractProofs!Task
  <2>2. Contract!PolicyReached <=> ContractProofs!PolicyReached
    BY DEF Contract!Cardinality, ContractProofs!Cardinality, Contract!Failures,
           ContractProofs!Failures, Contract!Task, ContractProofs!Task,
           Contract!PolicyReached, ContractProofs!PolicyReached
  <2>3. /\ Contract!Ask <=> ContractProofs!Ask
        /\ Contract!Accept <=> ContractProofs!Accept
        /\ Contract!Exhaust <=> ContractProofs!Exhaust
        /\ Contract!Exceed <=> ContractProofs!Exceed
        /\ Contract!Decline <=> ContractProofs!Decline
    BY <2>1, <2>2 DEF Contract!Ask, ContractProofs!Ask, Contract!Accept,
       ContractProofs!Accept, Contract!Exhaust, ContractProofs!Exhaust,
       Contract!Exceed, ContractProofs!Exceed, Contract!Decline, ContractProofs!Decline
  <2>4. \A i : Contract!Complete(i) <=> ContractProofs!Complete(i)
    BY DEF Contract!Complete, ContractProofs!Complete, Contract!Unfinished,
           ContractProofs!Unfinished, Contract!Task, ContractProofs!Task,
           Contract!Recorded, ContractProofs!Recorded
  <2>5. Contract!Return <=> ContractProofs!Return
    BY <2>2 DEF Contract!Return, ContractProofs!Return, Contract!Truthful,
           ContractProofs!Truthful, Contract!Structured, ContractProofs!Structured,
           Contract!Unfinished, ContractProofs!Unfinished, Contract!Task, ContractProofs!Task
  <2>6. QED
    BY <2>3, <2>4, <2>5 DEF Contract!Next, ContractProofs!Next, Contract!vars,
       ContractProofs!vars, Contract!Task, ContractProofs!Task
<1>4. ContractProofs!Spec => []ContractProofs!FailureOvershoot
  BY <1>1, ContractProofs!OvershootBound
<1>5. ContractProofs!FailureOvershoot => FailureOvershoot
  BY DEF FailureOvershoot, ContractProofs!FailureOvershoot, Contract!FailureOvershoot,
     Contract!Cardinality, ContractProofs!Cardinality, Contract!Failures,
     ContractProofs!Failures, Contract!Task, ContractProofs!Task
<1>6. QED
  BY <1>2, <1>3, <1>4, <1>5, Refinement, PTL
     DEF ImplementsContract, Contract!Spec, ContractProofs!Spec

(* A set of workers has a first one. *)
LEMMA FirstWorker ==
  ASSUME NEW S \in SUBSET Worker, S # {}
  PROVE  \E w \in S : \A v \in Worker : v < w => v \notin S
<1> DEFINE R == {ss \in Nat \X Nat : ss[1] < ss[2]}
<1>1. IsWellFoundedOn(R, Nat)
  BY NatLessThanWellFounded, Zenon DEF OpToRel
<1>2. \A v, w \in Worker : v < w => <<v, w>> \in R
  BY WorkerCountType DEF Worker
<1>3. S \subseteq Nat
  BY WorkerCountType DEF Worker
<1> HIDE DEF R
<1>4. PICK w \in S : \A v \in S : <<v, w>> \notin R
  BY <1>1, <1>3, WFMin
<1>5. QED
  BY <1>2, <1>4

(* In send the channel is not empty and every job is spawned; in join the   *)
(* sender is gone: so a worker that is not over can receive, can run, or is *)
(* the next of the pool's queue.                                            *)
LEMMA SomeoneMoves == IInv => NeverStuck
<1> SUFFICES ASSUME IInv, pc # "done", CallerBlocked
             PROVE  \E w \in Worker : ~WorkerBlocked(w)
  BY DEF NeverStuck
<1>1. ~original /\ (chan # <<>> \/ ~sender)
  <2>1. Len(chan) >= WorkerCount => chan # <<>>
    BY WorkerCountType
  <2>2. QED
    BY <2>1 DEF IInv, CallerInv, CallerBlocked
<1>2. PICK w \in Worker : job[w] \notin Ended
  BY <1>1 DEF CallerBlocked, ReceiversGone, Joined
<1>3. job[w] \in {"queued", "recv", "run", "drop"}
  BY <1>1, <1>2 DEF IInv, TypeOK, JobInv
<1>4. CASE \E v \in Worker : job[v] = "queued"
  <2> DEFINE Q == {v \in Worker : job[v] = "queued"}
  <2>1. PICK v \in Q : \A u \in Worker : u < v => u \notin Q
    BY <1>4, FirstWorker
  <2>2. QED
    BY <2>1 DEF WorkerBlocked, Ended
<1>5. CASE ~ \E v \in Worker : job[v] = "queued"
  BY <1>1, <1>3, <1>5 DEF WorkerBlocked, Ended
<1>6. QED
  BY <1>4, <1>5

(* Until a call is over, the caller or a worker is not blocked, for every   *)
(* pool and every source.                                                   *)
THEOREM SomeoneCanMove == Spec => []NeverStuck
<1>1. QED
  BY SomeoneMoves, Invariance, PTL

(* The steps left of the jobs are finitely many. *)
LEMMA JobsLeftFinite == IsFiniteSet(JobsLeft) /\ Cardinality(JobsLeft) \in Nat
<1>1. IsFiniteSet(Worker) /\ IsFiniteSet(1 .. 3)
  <2>1. \A n \in Nat : IsFiniteSet(1 .. n)
    BY FS_Interval
  <2>2. QED
    BY <2>1, WorkerCountType DEF Worker
<1>2. IsFiniteSet(Worker \X (1 .. 3))
  BY <1>1, FS_Product
<1>3. JobsLeft \in SUBSET (Worker \X (1 .. 3))
  BY DEF JobsLeft
<1>4. QED
  BY <1>2, <1>3, FS_Subset, FS_CardinalityType

(* A job in a state has that many steps left. *)
LEMMA JobStepsType == \A w \in Worker : JobSteps(w) \in 0 .. 3 /\ JobSteps(w)' \in 0 .. 3
BY DEF JobSteps

(* A job's own steps make the others' no longer. *)
LEMMA JobGoesOn ==
  ASSUME NEW w \in Worker, JobSteps(w)' < JobSteps(w),
         \A v \in Worker \ {w} : job'[v] = job[v]
  PROVE  Cardinality(JobsLeft') \in Nat /\ Cardinality(JobsLeft') < Cardinality(JobsLeft)
<1>1. \A v \in Worker \ {w} : JobSteps(v)' = JobSteps(v)
  BY DEF JobSteps
<1>2. JobsLeft' \in SUBSET JobsLeft
  BY <1>1, JobStepsType DEF JobsLeft
<1>3. <<w, JobSteps(w)>> \in JobsLeft /\ <<w, JobSteps(w)>> \notin JobsLeft'
  BY JobStepsType DEF JobsLeft
<1>4. IsFiniteSet(JobsLeft')
  BY JobsLeftFinite, <1>2, FS_Subset
<1>5. Cardinality(JobsLeft') <= Cardinality(JobsLeft) /\ Cardinality(JobsLeft') # Cardinality(JobsLeft)
  BY JobsLeftFinite, <1>2, <1>3, FS_Subset
<1>6. QED
  BY <1>4, <1>5, JobsLeftFinite, FS_CardinalityType

(* A job that receives a task has to run and to destroy it, no more. *)
LEMMA JobReceives ==
  ASSUME NEW w \in Worker, job[w] = "recv", job'[w] = "run",
         \A v \in Worker \ {w} : job'[v] = job[v]
  PROVE  Cardinality(JobsLeft') \in Nat /\ Cardinality(JobsLeft') <= Cardinality(JobsLeft) + 2
<1> DEFINE S == JobsLeft \cup {<<w, 2>>}
<1>1. \A v \in Worker \ {w} : JobSteps(v)' = JobSteps(v)
  BY DEF JobSteps
<1>2. JobSteps(w) = 1
  BY DEF JobSteps
<1>3. JobsLeft' \in SUBSET (S \cup {<<w, 3>>})
  BY <1>1, <1>2 DEF JobsLeft
<1>4. /\ IsFiniteSet(S)
      /\ Cardinality(S) = IF <<w, 2>> \in JobsLeft THEN Cardinality(JobsLeft)
                                                   ELSE Cardinality(JobsLeft) + 1
  BY JobsLeftFinite, FS_AddElement
<1> HIDE DEF S
<1>5. /\ IsFiniteSet(S \cup {<<w, 3>>})
      /\ Cardinality(S \cup {<<w, 3>>}) = IF <<w, 3>> \in S THEN Cardinality(S)
                                                            ELSE Cardinality(S) + 1
  BY <1>4, FS_AddElement
<1>6. /\ Cardinality(JobsLeft') <= Cardinality(S \cup {<<w, 3>>})
      /\ Cardinality(JobsLeft') \in Nat
  <2>1. IsFiniteSet(JobsLeft') /\ Cardinality(JobsLeft') <= Cardinality(S \cup {<<w, 3>>})
    BY <1>3, <1>5, FS_Subset
  <2>2. QED
    BY <2>1, FS_CardinalityType
<1>7. QED
  BY <1>4, <1>5, <1>6, JobsLeftFinite

(* Steps that leave the jobs alone. *)
LEMMA JobsFrame ==
  ASSUME UNCHANGED job
  PROVE  JobsLeft' = JobsLeft
<1>1. \A w \in Worker : JobSteps(w)' = JobSteps(w)
  BY DEF JobSteps
<1>2. QED
  BY <1>1 DEF JobsLeft

(* The caller's hand is empty or holds one task. *)
LEMMA InHandCount ==
  /\ hand = NoTask => Cardinality(InHand) = 0
  /\ hand # NoTask => Cardinality(InHand) = 1
<1>1. hand = NoTask => InHand = {}
  BY DEF InHand
<1>2. hand # NoTask => InHand = {hand}
  BY DEF InHand
<1>3. QED
  BY <1>1, <1>2, FS_EmptySet, FS_Singleton

(* The same in the next state. *)
LEMMA InHandCountNext ==
  /\ hand' = NoTask => Cardinality(InHand') = 0
  /\ hand' # NoTask => Cardinality(InHand') = 1
<1>1. hand' = NoTask => InHand' = {}
  BY DEF InHand
<1>2. hand' # NoTask => InHand' = {hand'}
  BY DEF InHand
<1>3. QED
  BY <1>1, <1>2, FS_EmptySet, FS_Singleton

(* The summands of what is left are natural numbers. *)
LEMMA StepsLeftType ==
  ASSUME TypeOK
  PROVE  /\ CallerSteps \in 0 .. 7 /\ Count - accepted \in Nat
         /\ Cardinality(InHand) \in 0 .. 1 /\ Len(chan) \in Nat
         /\ Cardinality(JobsLeft) \in Nat
         /\ StepsLeft \in Nat
<1>1. CallerSteps \in 0 .. 7
  BY DEF CallerSteps
<1>2. Count - accepted \in Nat /\ Len(chan) \in Nat
  BY CountAssumption DEF TypeOK
<1>3. Cardinality(InHand) \in 0 .. 1
  BY InHandCount
<1>4. \A a \in 0 .. 7, b \in Nat, c \in 0 .. 1, d \in Nat, e \in Nat, f \in 0 .. 1 :
          a + 6 * b + 3 * (c + d) + e + f \in Nat
  OBVIOUS
<1>5. (IF reporter = "ok" THEN 1 ELSE 0) \in 0 .. 1
  OBVIOUS
<1>6. QED
  BY <1>1, <1>2, <1>3, <1>4, <1>5, JobsLeftFinite, Zenon DEF StepsLeft

(* The steps of the caller that leave the jobs alone. *)
LEMMA CallerCounts ==
  ASSUME IInv, TypeOK', UNCHANGED <<job, reporter>>,
         \/ Start \/ StartFails \/ DropReceiver \/ Ask \/ PullNone \/ PullExtra
         \/ PullAccept \/ PullRefuse \/ PullPanics \/ Send \/ SendFails \/ CloseSender
         \/ Join \/ JoinUnwinds \/ Conclude
  PROVE  StepsLeft' < StepsLeft
<1> DEFINE H == Cardinality(InHand)
           L == Len(chan)
           H1 == Cardinality(InHand')
           L1 == Len(chan')
           C1 == CallerSteps'
           A == accepted
           A1 == accepted'
           J == Cardinality(JobsLeft)
           J1 == Cardinality(JobsLeft')
           P == IF reporter = "ok" THEN 1 ELSE 0
           P1 == IF reporter' = "ok" THEN 1 ELSE 0
<1>1. /\ J \in Nat /\ J1 = J /\ P \in 0 .. 1 /\ P1 = P
  BY JobsFrame, JobsLeftFinite
<1>2. /\ CallerSteps \in 0 .. 7 /\ C1 \in 0 .. 7 /\ Count \in Nat
      /\ A \in 0 .. Count /\ A1 \in 0 .. Count
      /\ H \in 0 .. 1 /\ H1 \in 0 .. 1 /\ L \in Nat /\ L1 \in Nat
  BY InHandCount, InHandCountNext, CountAssumption DEF IInv, TypeOK, CallerSteps
<1>3. C1 + 6 * (Count - A1) + 3 * (H1 + L1) < CallerSteps + 6 * (Count - A) + 3 * (H + L)
  <2>1. CASE Start \/ StartFails \/ DropReceiver \/ Ask \/ PullNone \/ PullExtra
             \/ PullRefuse \/ PullPanics \/ CloseSender \/ Join \/ JoinUnwinds \/ Conclude
    <3>1. A1 = A /\ H1 = H /\ L1 = L
      BY <2>1 DEF Start, StartFails, DropReceiver, Ask, PullNone, PullExtra, PullRefuse,
         PullPanics, CloseSender, Join, JoinUnwinds, Conclude, batchVars, chanVars,
         sourceVars, InHand
    <3>2. <<pc, pc'>> \in {<<"start", "spawn">>, <<"start", "done">>, <<"spawn", "ask">>,
                            <<"ask", "close">>, <<"ask", "pull">>, <<"pull", "close">>,
                            <<"pull", "join">>, <<"close", "join">>, <<"join", "done">>,
                            <<"join", "report">>, <<"report", "done">>}
      BY <2>1 DEF Start, StartFails, DropReceiver, Ask, PullNone, PullExtra, PullRefuse,
         PullPanics, CloseSender, Join, JoinUnwinds, Conclude
    <3>3. C1 < CallerSteps
      BY <3>2 DEF CallerSteps
    <3> HIDE DEF A, A1, H, H1, L, L1, C1
    <3>4. QED
      BY <1>2, <3>1, <3>3
  <2>2. CASE PullAccept
    <3>1. hand = NoTask /\ hand' # NoTask
      BY <2>2 DEF IInv, CallerInv, PullAccept, NoTask, TypeOK
    <3>2. H = 0 /\ H1 = 1
      BY <3>1, InHandCount, InHandCountNext
    <3>3. A1 = A + 1 /\ L1 = L /\ CallerSteps = 4 /\ C1 = 6
      BY <2>2 DEF PullAccept, batchVars, chanVars, CallerSteps
    <3> HIDE DEF A, A1, H, H1, L, L1, C1
    <3>4. QED
      BY <1>2, <3>2, <3>3
  <2>3. CASE Send
    <3>1. hand # NoTask /\ hand' = NoTask
      BY <2>3 DEF IInv, CallerInv, Send
    <3>2. H = 1 /\ H1 = 0
      BY <3>1, InHandCount, InHandCountNext
    <3>3. A1 = A /\ CallerSteps = 6 /\ C1 = 5
      BY <2>3 DEF Send, sourceVars, CallerSteps
    <3>4. L1 = L + 1
      BY <2>3, <3>1 DEF Send, IInv, TypeOK
    <3> HIDE DEF A, A1, H, H1, L, L1, C1
    <3>5. QED
      BY <1>2, <3>2, <3>3, <3>4
  <2>4. CASE SendFails
    <3>1. A1 = A /\ L1 = L /\ CallerSteps = 6 /\ C1 = 2 /\ hand' = NoTask
      BY <2>4 DEF SendFails, sourceVars, CallerSteps
    <3>2. H1 = 0
      BY <3>1, InHandCountNext
    <3> HIDE DEF A, A1, H, H1, L, L1, C1
    <3>3. QED
      BY <1>2, <3>1, <3>2
  <2>5. QED
    BY <2>1, <2>2, <2>3, <2>4
<1>4. /\ StepsLeft = CallerSteps + 6 * (Count - A) + 3 * (H + L) + J + P
      /\ StepsLeft' = C1 + 6 * (Count - A1) + 3 * (H1 + L1) + J1 + P1
  BY DEF StepsLeft
<1> HIDE DEF A, A1, H, H1, L, L1, J, J1, P, P1, C1
<1>5. QED
  BY <1>1, <1>2, <1>3, <1>4

(* A step of a job, other than to receive, and its spawning. *)
LEMMA JobCounts ==
  ASSUME IInv, TypeOK', NEW w \in Worker,
         \/ Spawn(w) \/ StartJob(w) \/ RecvClosed(w)
         \/ RunTask(w) \/ DropTask(w) \/ DropPanics(w)
  PROVE  StepsLeft' < StepsLeft
<1> DEFINE H == Cardinality(InHand)
           L == Len(chan)
           H1 == Cardinality(InHand')
           L1 == Len(chan')
           C1 == CallerSteps'
           J == Cardinality(JobsLeft)
           J1 == Cardinality(JobsLeft')
           P == IF reporter = "ok" THEN 1 ELSE 0
           P1 == IF reporter' = "ok" THEN 1 ELSE 0
<1>1. JobSteps(w)' < JobSteps(w) /\ \A v \in Worker \ {w} : job'[v] = job[v]
  BY DEF Spawn, StartJob, RecvClosed, RunTask, DropTask, DropPanics, JobSteps, IInv, TypeOK
<1>2. J1 < J /\ J \in Nat /\ J1 \in Nat
  BY <1>1, JobGoesOn, JobsLeftFinite
<1>3. /\ C1 = CallerSteps /\ accepted' = accepted /\ H1 = H /\ P1 = P
      /\ CallerSteps \in Nat /\ accepted \in Nat /\ Count \in Nat /\ H \in Nat /\ P \in Nat
  <2>1. UNCHANGED <<pc, accepted, hand, reporter>>
    BY DEF Spawn, StartJob, RecvClosed, RunTask, DropTask, DropPanics, callerVars, sourceVars
  <2>2. QED
    BY <2>1, InHandCount, CountAssumption DEF CallerSteps, InHand, IInv, TypeOK
<1>4. L1 <= L /\ L \in Nat /\ L1 \in Nat
  <2>1. L \in Nat /\ L1 \in Nat
    BY DEF IInv, TypeOK
  <2>2. chan' = chan \/ chan' = <<>>
    BY DEF Spawn, StartJob, RecvClosed, RunTask, DropTask, DropPanics, chanVars
  <2>3. QED
    BY <2>1, <2>2
<1>5. /\ StepsLeft = CallerSteps + 6 * (Count - accepted) + 3 * (H + L) + J + P
      /\ StepsLeft' = C1 + 6 * (Count - accepted') + 3 * (H1 + L1) + J1 + P1
  BY DEF StepsLeft
<1> HIDE DEF H, H1, L, L1, J, J1, P, P1, C1
<1>6. QED
  BY <1>2, <1>3, <1>4, <1>5

(* A received task leaves the channel, and adds two steps to a job. *)
LEMMA RecvCounts ==
  ASSUME IInv, TypeOK', NEW w \in Worker, Recv(w)
  PROVE  StepsLeft' < StepsLeft
<1> DEFINE H == Cardinality(InHand)
           L == Len(chan)
           H1 == Cardinality(InHand')
           L1 == Len(chan')
           C1 == CallerSteps'
           J == Cardinality(JobsLeft)
           J1 == Cardinality(JobsLeft')
           P == IF reporter = "ok" THEN 1 ELSE 0
           P1 == IF reporter' = "ok" THEN 1 ELSE 0
<1>1. job[w] = "recv" /\ job'[w] = "run" /\ \A v \in Worker \ {w} : job'[v] = job[v]
  BY DEF Recv, IInv, TypeOK
<1>2. J1 <= J + 2 /\ J \in Nat /\ J1 \in Nat
  BY <1>1, JobReceives, JobsLeftFinite
<1>3. /\ C1 = CallerSteps /\ accepted' = accepted /\ H1 = H /\ P1 = P
      /\ CallerSteps \in Nat /\ accepted \in Nat /\ Count \in Nat /\ H \in Nat /\ P \in Nat
  <2>1. UNCHANGED <<pc, accepted, hand, reporter>>
    BY DEF Recv, callerVars, sourceVars
  <2>2. QED
    BY <2>1, InHandCount, CountAssumption DEF CallerSteps, InHand, IInv, TypeOK
<1>4. L1 = L - 1 /\ L \in Nat /\ L1 \in Nat
  BY DEF Recv, IInv, TypeOK
<1>5. /\ StepsLeft = CallerSteps + 6 * (Count - accepted) + 3 * (H + L) + J + P
      /\ StepsLeft' = C1 + 6 * (Count - accepted') + 3 * (H1 + L1) + J1 + P1
  BY DEF StepsLeft
<1> HIDE DEF H, H1, L, L1, J, J1, P, P1, C1
<1>6. QED
  BY <1>2, <1>3, <1>4, <1>5

(* The reporter fails once. *)
LEMMA ReporterCounts ==
  ASSUME IInv, ReporterFails
  PROVE  StepsLeft' < StepsLeft
<1> DEFINE B == CallerSteps + 6 * (Count - accepted) + 3 * (Cardinality(InHand) + Len(chan))
                + Cardinality(JobsLeft)
<1>1. UNCHANGED <<pc, accepted, hand, chan, job>> /\ reporter = "ok" /\ reporter' = "failed"
  BY DEF ReporterFails, callerVars, sourceVars, chanVars, workVars
<1>2. B' = B
  BY <1>1, JobsFrame DEF CallerSteps, InHand
<1>3. B \in Nat
  <2>1. \A a \in 0 .. 7, b \in Nat, c \in 0 .. 1, d \in Nat, e \in Nat :
            a + 6 * b + 3 * (c + d) + e \in Nat
    OBVIOUS
  <2>2. QED
    BY <2>1, StepsLeftType, Zenon DEF IInv
<1>4. StepsLeft = B + 1 /\ StepsLeft' = B' + 0
  BY <1>1 DEF StepsLeft
<1> HIDE DEF B
<1>5. QED
  BY <1>2, <1>3, <1>4

(* Every step uses one up. *)
LEMMA StepCounts ==
  ASSUME IInv, IInv', [Next]_vars
  PROVE  StepsLeft' < StepsLeft \/ UNCHANGED vars
<1>1. TypeOK /\ TypeOK'
  BY DEF IInv
<1>2. CASE Producer
  <2>1. CASE \E w \in Worker : Spawn(w)
    BY <1>1, <2>1, JobCounts
  <2>2. CASE \/ Start \/ StartFails \/ DropReceiver \/ Ask \/ PullNone \/ PullExtra
             \/ PullAccept \/ PullRefuse \/ PullPanics \/ Send \/ SendFails \/ CloseSender
             \/ Join \/ JoinUnwinds \/ Conclude
    <3>1. UNCHANGED <<job, reporter>>
      BY <2>2 DEF Start, StartFails, DropReceiver, Ask, PullNone, PullExtra, PullAccept,
         PullRefuse, PullPanics, Send, SendFails, CloseSender, Join, JoinUnwinds, Conclude,
         batchVars, workVars
    <3>2. QED
      BY <1>1, <2>2, <3>1, CallerCounts
  <2>3. QED
    BY <1>2, <2>1, <2>2 DEF Producer
<1>3. CASE \E w \in Worker : Work(w)
  BY <1>1, <1>3, JobCounts, RecvCounts DEF Work
<1>4. CASE ReporterFails
  BY <1>4, ReporterCounts
<1>5. CASE Terminated \/ UNCHANGED vars
  BY <1>5 DEF Terminated
<1>6. QED
  BY <1>2, <1>3, <1>4, <1>5 DEF Next

(* A call makes only finitely many steps, however its threads interleave    *)
(* and whatever the source, the tasks and the reporter answer.              *)
THEOREM NoEndlessCall == Spec => EveryStepCounts
<1>1. IInv /\ IInv' /\ [Next]_vars => [StepsLeft' < StepsLeft]_vars
  BY StepCounts
<1>2. QED
  BY <1>1, Invariance, PTL DEF Spec, EveryStepCounts

(* Their number is bounded: six steps for each declared task, three for     *)
(* each worker, and eight.                                                  *)
THEOREM StepsBounded == Spec => [](StepsLeft \in 0 .. 6 * Count + 3 * WorkerCount + 8)
<1> DEFINE B == 6 * Count + 3 * WorkerCount + 8
           Bounded == StepsLeft <= B
<1>1. B \in Nat
  BY CountAssumption, WorkerCountType
<1>2. IInv => StepsLeft \in Nat
  BY StepsLeftType DEF IInv
<1>3. (IInv => StepsLeft \in Nat)'
  BY <1>2, PTL
<1>4. Init => Bounded
  <2> SUFFICES ASSUME Init PROVE Bounded
    OBVIOUS
  <2>1. /\ CallerSteps = 7 /\ Count - accepted = Count /\ Len(chan) = 0
        /\ Cardinality(InHand) = 0 /\ reporter = "ok"
    BY InHandCount, CountAssumption DEF Init, CallerSteps
  <2>2. Cardinality(JobsLeft) <= 3 * WorkerCount
    <3>1. /\ IsFiniteSet(Worker) /\ Cardinality(Worker) = WorkerCount
          /\ IsFiniteSet(1 .. 3) /\ Cardinality(1 .. 3) = 3
      <4>1. \A n \in Nat : IsFiniteSet(1 .. n) /\ Cardinality(1 .. n) = n
        BY FS_Interval
      <4>2. QED
        BY <4>1, WorkerCountType DEF Worker
    <3>2. /\ IsFiniteSet(Worker \X (1 .. 3))
          /\ Cardinality(Worker \X (1 .. 3)) = WorkerCount * 3
      BY <3>1, FS_Product
    <3>3. JobsLeft \in SUBSET (Worker \X (1 .. 3))
      BY DEF JobsLeft
    <3>4. Cardinality(JobsLeft) <= Cardinality(Worker \X (1 .. 3))
      BY <3>2, <3>3, FS_Subset
    <3>5. QED
      BY <3>2, <3>4, WorkerCountType
  <2>3. QED
    BY <2>1, <2>2, JobsLeftFinite, CountAssumption, WorkerCountType DEF StepsLeft
<1>5. IInv /\ IInv' /\ [Next]_vars /\ Bounded => Bounded'
  <2> SUFFICES ASSUME IInv, IInv', [Next]_vars, Bounded PROVE Bounded'
    OBVIOUS
  <2>1. StepsLeft \in Nat /\ StepsLeft' \in Nat
    BY <1>2, <1>3
  <2>2. UNCHANGED vars => StepsLeft' = StepsLeft
    BY JobsFrame DEF vars, callerVars, sourceVars, batchVars, chanVars, workVars, StepsLeft,
       CallerSteps, InHand
  <2>3. StepsLeft' <= StepsLeft
    BY <2>1, <2>2, StepCounts
  <2> HIDE DEF B
  <2>4. QED
    BY <1>1, <2>1, <2>3
<1>6. IInv /\ Bounded => StepsLeft \in 0 .. B
  BY StepsLeftType, <1>1 DEF IInv
<1>7. QED
  BY <1>4, <1>5, <1>6, Invariance, PTL DEF Spec
=============================================================================
