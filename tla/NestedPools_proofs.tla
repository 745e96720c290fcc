------------------------- MODULE NestedPools_proofs -------------------------
(***************************************************************************)
(* Proofs about NestedPools, for every program, every number of pools and  *)
(* every number of threads in them.  First what a step does to the stacks, *)
(* then that each action keeps the parts of the invariant of               *)
(* NestedPoolsInv, then what follows for threads and for calls.            *)
(***************************************************************************)
EXTENDS NestedPoolsInv, FiniteSetTheorems, SequenceTheorems, TLAPS

-----------------------------------------------------------------------------
(* Frames and stacks.                                                       *)

(* A call frame is a frame, and says which call it is of. *)
LEMMA CallFrameType ==
  ASSUME NEW c \in Call
  PROVE  /\ CallFrame(c) \in Frame
         /\ CallFrame(c).kind = "call" /\ CallFrame(c).call = c
BY DEF Frame, CallFrame

(* So is a job frame. *)
LEMMA JobFrameType ==
  ASSUME NEW c \in Call, NEW i \in 0 .. Plan[c].items
  PROVE  /\ JobFrame(c, i) \in Frame
         /\ JobFrame(c, i).kind = "job" /\ JobFrame(c, i).call = c /\ JobFrame(c, i).item = i
<1>1. JobFrame(c, i) \in {JobFrame(c, j) : j \in 0 .. Plan[c].items}
  OBVIOUS
<1>2. QED
  BY <1>1 DEF Frame, JobFrame

(* There are no other frames. *)
LEMMA FrameCases ==
  ASSUME NEW f \in Frame
  PROVE  /\ f.call \in Call
         /\ \/ f.kind = "call" /\ f = CallFrame(f.call)
            \/ f.kind = "job" /\ f.item \in 0 .. Plan[f.call].items /\ f = JobFrame(f.call, f.item)
<1>1. CASE f \in {CallFrame(c) : c \in Call}
  BY <1>1 DEF CallFrame
<1>2. CASE f \in UNION {{JobFrame(c, i) : i \in 0 .. Plan[c].items} : c \in Call}
  <2>1. PICK c \in Call : f \in {JobFrame(c, i) : i \in 0 .. Plan[c].items}
    BY <1>2
  <2>2. QED
    BY <2>1 DEF JobFrame
<1>3. QED
  BY <1>1, <1>2 DEF Frame

(* The calls made by the source and the tasks of a call, and all nested ones, *)
(* are calls of the program, by their sites.                                *)
LEMMA InsideSites ==
  ASSUME NEW c \in Call
  PROVE  \A d : d \in Inside(c) <=>
             /\ d \in Call
             /\ \E i \in 1 .. Plan[c].items : d = Plan[c].inSource[i] \/ d = Plan[c].inTask[i]
<1> DEFINE Of(i) == {Plan[c].inSource[i], Plan[c].inTask[i]}
           I == 1 .. Plan[c].items
<1>1. NoCall \notin Call /\ \A i \in I : Of(i) \subseteq Call \cup {NoCall}
  BY PlanAssumption
<1>2. Inside(c) = (UNION {Of(i) : i \in I}) \ {NoCall}
  BY DEF Inside
<1>3. \A i : \A d : d \in Of(i) <=> d = Plan[c].inSource[i] \/ d = Plan[c].inTask[i]
  OBVIOUS
<1> HIDE DEF Of, I
<1>4. \A d : d \in Inside(c) <=> d # NoCall /\ \E i \in I : d \in Of(i)
  BY <1>2
<1>5. QED
  BY <1>1, <1>3, <1>4 DEF I

LEMMA NestedSites ==
  \A d : d \in Nested <=> d \in Call /\ \E c \in Call : d \in Inside(c) \/ d = Plan[c].inReport
<1> DEFINE Of(c) == Inside(c) \cup {Plan[c].inReport}
<1>1. NoCall \notin Call /\ \A c \in Call : Of(c) \subseteq Call \cup {NoCall}
  BY PlanAssumption, InsideSites
<1>2. Nested = (UNION {Of(c) : c \in Call}) \ {NoCall}
  BY DEF Nested
<1>3. \A c : \A d : d \in Of(c) <=> d \in Inside(c) \/ d = Plan[c].inReport
  OBVIOUS
<1> HIDE DEF Of
<1>4. \A d : d \in Nested <=> d # NoCall /\ \E c \in Call : d \in Of(c)
  BY <1>2
<1>5. QED
  BY <1>1, <1>3, <1>4

\* A frame f is pushed on t's stack, the innermost one removed or replaced by f.
Pushed(t, f) ==
    /\ Len(stack'[t]) = Len(stack[t]) + 1
    /\ stack'[t][1] = f
    /\ \A k \in 1 .. Len(stack[t]) : stack'[t][k + 1] = stack[t][k]
Popped(t) ==
    /\ Len(stack[t]) = Len(stack'[t]) + 1
    /\ \A k \in 1 .. Len(stack'[t]) : stack'[t][k] = stack[t][k + 1]
Replaced(t, f) ==
    /\ Len(stack'[t]) = Len(stack[t])
    /\ stack'[t][1] = f
    /\ \A k \in 2 .. Len(stack[t]) : stack'[t][k] = stack[t][k]
ElsewhereSame(t) == \A u \in Thread \ {t} : stack'[u] = stack[u]

(* Stacks are sequences of frames, so that positions have frames. *)
LEMMA StackFrames ==
  ASSUME TypeOK, NEW t \in Thread
  PROVE  /\ stack[t] \in Seq(Frame) /\ Len(stack[t]) \in Nat
         /\ \A k \in 1 .. Len(stack[t]) : stack[t][k] \in Frame
         /\ stack[t] # <<>> => Len(stack[t]) > 0 /\ Head(stack[t]) = stack[t][1]
         /\ stack[t] = <<>> => Len(stack[t]) = 0
<1>1. stack[t] \in Seq(Frame)
  BY DEF TypeOK
<1>2. QED
  BY <1>1, ElementOfSeq, LenProperties, EmptySeq

(* What the three stack updates of the actions do. *)
LEMMA PushStep ==
  ASSUME TypeOK, NEW t \in Thread, NEW f \in Frame,
         stack' = [stack EXCEPT ![t] = <<f>> \o @]
  PROVE  stack' \in [Thread -> Seq(Frame)] /\ Pushed(t, f) /\ ElsewhereSame(t)
<1>1. stack \in [Thread -> Seq(Frame)] /\ stack[t] \in Seq(Frame)
  BY DEF TypeOK
<1>2. stack'[t] = <<f>> \o stack[t] /\ <<f>> \in Seq(Frame) /\ Len(<<f>>) = 1 /\ <<f>>[1] = f
  BY <1>1
<1>3. Len(stack[t]) \in Nat
  BY <1>1
<1>4. /\ stack'[t] \in Seq(Frame)
      /\ Len(stack'[t]) = 1 + Len(stack[t])
      /\ \A i \in 1 .. 1 + Len(stack[t]) : stack'[t][i] = IF i <= 1 THEN <<f>>[i] ELSE stack[t][i - 1]
  BY <1>1, <1>2, ConcatProperties
<1>5. \A k \in 1 .. Len(stack[t]) : k + 1 \in 1 .. 1 + Len(stack[t]) /\ ~(k + 1 <= 1) /\ (k + 1) - 1 = k
  BY <1>3
<1>6. \A k \in 1 .. Len(stack[t]) : stack'[t][k + 1] = stack[t][k]
  BY <1>4, <1>5
<1>7. stack'[t][1] = f
  BY <1>2, <1>3, <1>4
<1>8. stack' \in [Thread -> Seq(Frame)] /\ ElsewhereSame(t)
  BY <1>1, <1>2, <1>4 DEF ElsewhereSame
<1>9. QED
  BY <1>3, <1>4, <1>6, <1>7, <1>8 DEF Pushed

LEMMA PopStep ==
  ASSUME TypeOK, NEW t \in Thread, stack[t] # <<>>,
         stack' = [stack EXCEPT ![t] = Tail(@)]
  PROVE  stack' \in [Thread -> Seq(Frame)] /\ Popped(t) /\ ElsewhereSame(t)
<1>1. stack \in [Thread -> Seq(Frame)] /\ stack[t] \in Seq(Frame) /\ Len(stack[t]) \in Nat
  BY DEF TypeOK
<1>2. stack'[t] = Tail(stack[t])
  BY <1>1
<1>3. /\ stack'[t] \in Seq(Frame) /\ Len(stack'[t]) = Len(stack[t]) - 1
      /\ \A k \in 1 .. Len(stack'[t]) : stack'[t][k] = stack[t][k + 1]
  BY <1>1, <1>2, HeadTailProperties
<1>4. stack' \in [Thread -> Seq(Frame)] /\ ElsewhereSame(t)
  BY <1>1, <1>2, <1>3 DEF ElsewhereSame
<1>5. QED
  BY <1>1, <1>3, <1>4 DEF Popped

LEMMA ReplaceStep ==
  ASSUME TypeOK, NEW t \in Thread, NEW f \in Frame, stack[t] # <<>>, Replace(t, f)
  PROVE  stack' \in [Thread -> Seq(Frame)] /\ Replaced(t, f) /\ ElsewhereSame(t)
<1>1. stack \in [Thread -> Seq(Frame)] /\ stack[t] \in Seq(Frame)
  BY DEF TypeOK
<1>2. /\ stack'[t] = <<f>> \o Tail(stack[t])
      /\ <<f>> \in Seq(Frame) /\ Len(<<f>>) = 1 /\ <<f>>[1] = f
  BY <1>1 DEF Replace
<1>3. /\ Tail(stack[t]) \in Seq(Frame) /\ Len(Tail(stack[t])) = Len(stack[t]) - 1
      /\ \A k \in 1 .. Len(stack[t]) - 1 : Tail(stack[t])[k] = stack[t][k + 1]
      /\ Len(stack[t]) \in Nat \ {0}
  BY <1>1, HeadTailProperties, EmptySeq
<1>4. /\ stack'[t] \in Seq(Frame)
      /\ Len(stack'[t]) = 1 + Len(Tail(stack[t]))
      /\ \A i \in 1 .. 1 + Len(Tail(stack[t])) :
            stack'[t][i] = IF i <= 1 THEN <<f>>[i] ELSE Tail(stack[t])[i - 1]
  BY <1>2, <1>3, ConcatProperties
<1>5. ASSUME NEW k \in 2 .. Len(stack[t]) PROVE stack'[t][k] = stack[t][k]
  <2>1. k \in 1 .. 1 + Len(Tail(stack[t])) /\ ~(k <= 1) /\ k - 1 \in 1 .. Len(stack[t]) - 1
        /\ (k - 1) + 1 = k
    BY <1>3
  <2>2. stack'[t][k] = Tail(stack[t])[k - 1]
    BY <1>4, <2>1
  <2>3. Tail(stack[t])[k - 1] = stack[t][(k - 1) + 1]
    BY <1>3, <2>1
  <2>4. QED
    BY <2>1, <2>2, <2>3
<1>6. stack'[t][1] = f
  BY <1>2, <1>3, <1>4
<1>7. stack' \in [Thread -> Seq(Frame)] /\ ElsewhereSame(t)
  BY <1>1, <1>2, <1>4 DEF ElsewhereSame, Replace
<1>8. QED
  BY <1>3, <1>4, <1>5, <1>6, <1>7 DEF Replaced

-----------------------------------------------------------------------------
(* Registrations.                                                           *)

\* Sequence s without its k-th element.
Without(s, k) == SubSeq(s, 1, k - 1) \o SubSeq(s, k + 1, Len(s))

(* Taking one element out of a sequence. *)
LEMMA WithoutAt ==
  ASSUME NEW S, NEW s \in Seq(S), NEW k \in 1 .. Len(s)
  PROVE  /\ Without(s, k) \in Seq(S)
         /\ Len(Without(s, k)) = Len(s) - 1
         /\ \A i \in 1 .. Len(Without(s, k)) : Without(s, k)[i] = IF i < k THEN s[i] ELSE s[i + 1]
<1> DEFINE r == Without(s, k)
           a == SubSeq(s, 1, k - 1)
           b == SubSeq(s, k + 1, Len(s))
<1>0. r = a \o b
  BY DEF Without
<1> HIDE DEF r
<1>1. Len(s) \in Nat /\ \A i \in 1 .. Len(s) : s[i] \in S
  BY ElementOfSeq
<1>2. a \in Seq(S) /\ Len(a) = k - 1 /\ \A i \in 1 .. k - 1 : a[i] = s[i]
  <2>1. /\ a \in Seq(S)
        /\ Len(a) = IF 1 <= k - 1 THEN (k - 1) - 1 + 1 ELSE 0
        /\ \A i \in 1 .. (k - 1) - 1 + 1 : a[i] = s[1 + i - 1]
    <3>1. \A i \in 1 .. k - 1 : s[i] \in S
      BY <1>1
    <3>2. 1 \in Int /\ k - 1 \in Int
      BY <1>1
    <3>3. QED
      BY <3>1, <3>2, SubSeqProperties
  <2>2. QED
    BY <1>1, <2>1
<1>3. b \in Seq(S) /\ Len(b) = Len(s) - k /\ \A i \in 1 .. Len(s) - k : b[i] = s[k + i]
  <2>1. /\ b \in Seq(S)
        /\ Len(b) = IF k + 1 <= Len(s) THEN Len(s) - (k + 1) + 1 ELSE 0
        /\ \A i \in 1 .. Len(s) - (k + 1) + 1 : b[i] = s[(k + 1) + i - 1]
    <3>1. \A i \in k + 1 .. Len(s) : s[i] \in S
      BY <1>1
    <3>2. k + 1 \in Int /\ Len(s) \in Int
      BY <1>1
    <3>3. QED
      BY <3>1, <3>2, SubSeqProperties
  <2>2. QED
    BY <1>1, <2>1
<1> HIDE DEF a, b
<1>4. /\ r \in Seq(S)
      /\ Len(r) = Len(a) + Len(b)
      /\ \A i \in 1 .. Len(a) + Len(b) : r[i] = IF i <= Len(a) THEN a[i] ELSE b[i - Len(a)]
  BY <1>0, <1>2, <1>3, ConcatProperties
<1>5. Len(r) = Len(s) - 1
  <2>1. Len(r) = (k - 1) + (Len(s) - k)
    BY <1>2, <1>3, <1>4
  <2>2. \A n \in Nat : \A j \in 1 .. n : (j - 1) + (n - j) = n - 1
    OBVIOUS
  <2>3. QED
    BY <1>1, <2>1, <2>2
<1>6. ASSUME NEW i \in 1 .. Len(r) PROVE r[i] = IF i < k THEN s[i] ELSE s[i + 1]
  <2>1. r[i] = IF i <= k - 1 THEN a[i] ELSE b[i - (k - 1)]
    BY <1>1, <1>2, <1>3, <1>4
  <2>2. CASE i < k
    <3>1. i <= k - 1 /\ i \in 1 .. k - 1
      BY <1>1, <1>5, <2>2
    <3>2. QED
      BY <1>2, <2>1, <2>2, <3>1
  <2>3. CASE ~(i < k)
    <3>1. ~(i <= k - 1) /\ i - (k - 1) \in 1 .. Len(s) - k /\ k + (i - (k - 1)) = i + 1
      <4>1. \A n \in Nat : \A m \in 1 .. n, j \in 1 .. n - 1 : ~(j < m) =>
               ~(j <= m - 1) /\ j - (m - 1) \in 1 .. n - m /\ m + (j - (m - 1)) = j + 1
        OBVIOUS
      <4>2. i \in 1 .. Len(s) - 1
        BY <1>5
      <4>3. QED
        BY <1>1, <2>3, <4>1, <4>2
    <3>2. b[i - (k - 1)] = s[i + 1]
      BY <1>3, <3>1
    <3>3. QED
      BY <2>1, <2>3, <3>1, <3>2
  <2>4. QED
    BY <2>2, <2>3
<1>7. QED
  BY <1>4, <1>5, <1>6 DEF r

Distinct(s) == \A k, l \in 1 .. Len(s) : s[k] = s[l] => k = l
Elements(s) == {s[k] : k \in 1 .. Len(s)}

(* Dropping a guard takes out exactly the registration of its pool, if the  *)
(* registrations are of different pools.                                    *)
LEMMA WithoutLastRemoves ==
  ASSUME NEW S, NEW s \in Seq(S), NEW p
  PROVE  /\ WithoutLast(s, p) \in Seq(S)
         /\ Distinct(s) => /\ Distinct(WithoutLast(s, p))
                           /\ Elements(WithoutLast(s, p)) = Elements(s) \ {p}
<1> DEFINE Last == {k \in 1 .. Len(s) : s[k] = p /\ \A j \in k + 1 .. Len(s) : s[j] # p}
           r == WithoutLast(s, p)
<1>1. CASE Last = {}
  <2>1. r = s
    BY <1>1 DEF WithoutLast
  <2>2. ASSUME Distinct(s) PROVE p \notin Elements(s)
    <3> SUFFICES ASSUME NEW k \in 1 .. Len(s), s[k] = p PROVE FALSE
      BY DEF Elements
    <3>1. \A j \in k + 1 .. Len(s) : s[j] # p
      <4> SUFFICES ASSUME NEW j \in k + 1 .. Len(s), s[j] = p PROVE FALSE
        OBVIOUS
      <4>1. j \in 1 .. Len(s) /\ j # k
        OBVIOUS
      <4>2. QED
        BY <2>2, <4>1 DEF Distinct
    <3>2. k \in Last
      BY <3>1
    <3>3. QED
      BY <1>1, <3>2
  <2>3. QED
    BY <2>1, <2>2
<1>2. CASE Last # {}
  <2> DEFINE k == CHOOSE k \in Last : TRUE
  <2>1. k \in Last
    BY <1>2
  <2>2. k \in 1 .. Len(s) /\ s[k] = p
    BY <2>1
  <2>3. r = Without(s, k)
    BY <1>2 DEF WithoutLast, Without
  <2> HIDE DEF k, r, Last
  <2>4. /\ r \in Seq(S) /\ Len(r) = Len(s) - 1
        /\ \A i \in 1 .. Len(r) : r[i] = IF i < k THEN s[i] ELSE s[i + 1]
    BY <2>2, <2>3, WithoutAt
  <2>5. Len(s) \in Nat
    OBVIOUS
  <2>6. ASSUME Distinct(s) PROVE Distinct(r)
    <3> SUFFICES ASSUME NEW i \in 1 .. Len(r), NEW j \in 1 .. Len(r), r[i] = r[j] PROVE i = j
      BY DEF Distinct
    <3>1. /\ i \in 1 .. Len(s) /\ i + 1 \in 1 .. Len(s)
          /\ j \in 1 .. Len(s) /\ j + 1 \in 1 .. Len(s)
      BY <2>4, <2>5
    <3>2. (IF i < k THEN s[i] ELSE s[i + 1]) = (IF j < k THEN s[j] ELSE s[j + 1])
      BY <2>4
    <3>3. (IF i < k THEN i ELSE i + 1) = (IF j < k THEN j ELSE j + 1)
      BY <2>6, <3>1, <3>2 DEF Distinct
    <3>4. QED
      BY <2>2, <2>5, <3>1, <3>3
  <2>7. ASSUME Distinct(s) PROVE Elements(r) = Elements(s) \ {p}
    <3>1. ASSUME NEW i \in 1 .. Len(r) PROVE r[i] \in Elements(s) \ {p}
      <4>1. PICK j \in 1 .. Len(s) : r[i] = s[j] /\ j # k
        <5>1. i \in 1 .. Len(s) /\ i + 1 \in 1 .. Len(s)
          BY <2>4, <2>5
        <5>2. r[i] = IF i < k THEN s[i] ELSE s[i + 1]
          BY <2>4
        <5>3. (i < k => i # k) /\ (~(i < k) => i + 1 # k)
          BY <2>2, <2>5, <5>1
        <5>4. QED
          BY <5>1, <5>2, <5>3
      <4>2. s[j] # p
        BY <2>2, <2>7, <4>1 DEF Distinct
      <4>3. QED
        BY <4>1, <4>2 DEF Elements
    <3>2. ASSUME NEW j \in 1 .. Len(s), s[j] # p PROVE s[j] \in Elements(r)
      <4>1. j # k
        BY <2>2, <3>2
      <4>2. CASE j < k
        <5>1. j \in 1 .. Len(r) /\ r[j] = s[j]
          BY <2>2, <2>4, <2>5, <4>2
        <5>2. QED
          BY <5>1 DEF Elements
      <4>3. CASE j > k
        <5>1. j - 1 \in 1 .. Len(r) /\ ~(j - 1 < k) /\ (j - 1) + 1 = j
          BY <2>2, <2>4, <2>5, <4>3
        <5>2. r[j - 1] = s[j]
          BY <2>4, <5>1
        <5>3. QED
          BY <5>1, <5>2 DEF Elements
      <4>4. QED
        BY <2>2, <2>5, <4>1, <4>2, <4>3
    <3>3. QED
      BY <3>1, <3>2 DEF Elements
  <2>8. QED
    BY <2>4, <2>6, <2>7 DEF r
<1>3. QED
  BY <1>1, <1>2

-----------------------------------------------------------------------------
(* The steps.                                                               *)

(* A step is an action of a thread for a call of the program. *)
LEMMA StepCases ==
  ASSUME TypeOK, NEW t \in Thread, Step(t)
  PROVE  \/ StartRoot(t) \/ TakeJob(t)
         \/ \E c \in Call :
               \/ ReporterCalls(t, c)
               \/ CallWithCount(t, c) \/ ExecuteWithCount(t, c) \/ Spawn(t, c)
               \/ SourceCalls(t, c) \/ SourceGives(t, c) \/ SourceEnds(t, c)
               \/ Send(t, c) \/ Leave(t, c)
               \/ TaskCalls(t, c) \/ SequentialTaskEnds(t, c) \/ WorkerTaskEnds(t, c)
               \/ Recv(t, c) \/ JobEnds(t, c)
<1>1. {stack[t][k].call : k \in 1 .. Len(stack[t])} \subseteq Call
  BY StackFrames, FrameCases
<1>2. Reporting \subseteq Call
  BY DEF Reporting
<1>3. QED
  BY <1>1, <1>2 DEF Step

(* The innermost frame of a thread in a call, or in a job. *)
LEMMA Innermost ==
  ASSUME TypeOK, NEW t \in Thread, NEW c \in Call
  PROVE  /\ \A ph : InCall(t, c, ph) =>
               /\ stack[t] # <<>> /\ 1 \in 1 .. Len(stack[t])
               /\ stack[t][1] = CallFrame(c) /\ phase[c] = ph
         /\ \A i : InJob(t, c, i) =>
               /\ stack[t] # <<>> /\ 1 \in 1 .. Len(stack[t])
               /\ stack[t][1] = JobFrame(c, i) /\ i \in 0 .. Plan[c].items
<1>1. ASSUME stack[t] # <<>>
      PROVE  /\ 1 \in 1 .. Len(stack[t]) /\ Head(stack[t]) = stack[t][1]
             /\ stack[t][1] \in Frame
  BY <1>1, StackFrames
<1>2. ASSUME NEW i, InJob(t, c, i) PROVE i \in 0 .. Plan[c].items
  <2>1. JobFrame(c, i) \in Frame
    BY <1>1, <1>2 DEF InJob
  <2>2. JobFrame(c, i).kind = "job" /\ JobFrame(c, i).call = c /\ JobFrame(c, i).item = i
    BY DEF JobFrame
  <2>3. QED
    BY <2>1, <2>2, FrameCases
<1>3. QED
  BY <1>1, <1>2 DEF InCall, InJob

\* Where a thread can make a call: idle, in a task, or in a source.
CanCall(t) ==
    stack[t] # <<>> => \/ stack[t][1].kind = "job"
                       \/ phase[stack[t][1].call] \in {"pull", "run"}

\* Thread t makes call d, which had not been made, and no other variable of
\* calls or of pools changes.
Calls(t, d) ==
    /\ CanCall(t) /\ phase[d] = "idle"
    /\ stack' = [stack EXCEPT ![t] = <<CallFrame(d)>> \o @]
    /\ \E ph \in {"call", "enter"} : phase' = [phase EXCEPT ![d] = ph]
    /\ UNCHANGED <<active, guard, mode, next, open, broken, chan, jobs, queue, done>>
    /\ \/ UNCHANGED roots /\ d \in Nested
       \/ roots[t] # <<>> /\ d = Head(roots[t]) /\ roots' = [roots EXCEPT ![t] = Tail(@)]

\* Where thread t makes call d: at the bottom of its stack a call that no source
\* and no task makes, and a reporter's only while it is due, or else what its
\* source or task has come to.
Site(t, d) ==
    \/ /\ stack[t] = <<>> /\ (roots[t] # <<>> \/ Home[t] = NoPool)
       /\ \A c \in Call : d \notin Inside(c) /\ (d = Plan[c].inReport => ReportDue(c))
    \/ stack[t] # <<>> /\ d \in Inside(stack[t][1].call) /\ On(CallFrame(d), stack[t][1])

(* Whoever makes a call makes it like this. *)
LEMMA MakesCall ==
  ASSUME IInv, NEW t \in Thread,
         \/ StartRoot(t)
         \/ \E c \in Call : ReporterCalls(t, c) \/ SourceCalls(t, c) \/ TaskCalls(t, c)
  PROVE  \E d \in Call : Calls(t, d) /\ Site(t, d)
<1> USE DEF Make, workVars
<1>0. TypeOK /\ RootsInv /\ SourceInv
  BY DEF IInv
<1> USE <1>0
<1>1. CASE StartRoot(t)
  <2>1. roots[t] \in Seq(Call) /\ roots[t] # <<>>
    BY <1>1 DEF TypeOK, StartRoot
  <2>2. Head(roots[t]) = roots[t][1] /\ 1 \in 1 .. Len(roots[t]) /\ Head(roots[t]) \in Call
    BY <2>1, HeadTailProperties, EmptySeq
  <2>3. phase[Head(roots[t])] = "idle" /\ Head(roots[t]) \notin Nested
    BY <2>2 DEF RootsInv
  <2>4. Calls(t, Head(roots[t]))
    BY <1>1, <2>3 DEF StartRoot, Calls, CanCall
  <2>5. Site(t, Head(roots[t]))
    BY <1>1, <2>2, <2>3, NestedSites DEF StartRoot, Site
  <2>6. QED
    BY <2>2, <2>4, <2>5
<1>2. ASSUME NEW c \in Call, ReporterCalls(t, c) PROVE \E d \in Call : Calls(t, d) /\ Site(t, d)
  <2> DEFINE d == Plan[c].inReport
  <2>1. d \in Call /\ d \in Nested /\ phase[d] = "idle" /\ d # NoCall
    BY <1>2, PlanAssumption, NestedSites DEF ReporterCalls, ReportDue, Due
  <2>2. Calls(t, d)
    BY <1>2, <2>1 DEF ReporterCalls, Calls, CanCall
  <2>3. \A e \in Call : d \notin Inside(e) /\ (d = Plan[e].inReport => e = c)
    BY <2>1, SitesAssumption
  <2>4. Site(t, d)
    BY <1>2, <2>3 DEF ReporterCalls, ReporterThread, Site
  <2>5. QED
    BY <2>1, <2>2, <2>4
<1>3. ASSUME NEW c \in Call, SourceCalls(t, c) PROVE \E d \in Call : Calls(t, d) /\ Site(t, d)
  <2> DEFINE d == Plan[c].inSource[next[c]]
  <2>1. InCall(t, c, "pull") /\ Due(d) /\ Make(t, d)
    BY <1>3 DEF SourceCalls
  <2>2. next[c] \in 1 .. Plan[c].items /\ next[c] <= Plan[c].items
    <3>1. next[c] \in 1 .. Plan[c].items + 1 /\ next[c] <= Plan[c].items /\ Plan[c].items \in Nat
      BY <1>3, PlanAssumption DEF SourceInv, SourceCalls
    <3>2. QED
      BY <3>1
  <2>3. d \in Call /\ d \in Nested /\ d \in Inside(c) /\ phase[d] = "idle"
    BY <2>1, <2>2, PlanAssumption, InsideSites, NestedSites DEF Due
  <2>4. stack[t] # <<>> /\ stack[t][1] = CallFrame(c) /\ phase[c] = "pull"
    BY <2>1, Innermost
  <2>5. CanCall(t)
    BY <2>4, CallFrameType DEF CanCall
  <2>6. Calls(t, d)
    BY <1>3, <2>1, <2>3, <2>5 DEF SourceCalls, Calls
  <2>7. Site(t, d)
    <3>1. On(CallFrame(d), CallFrame(c))
      BY <2>2, <2>4, CallFrameType DEF On
    <3>2. QED
      BY <2>3, <2>4, <3>1, CallFrameType DEF Site
  <2>8. QED
    BY <2>3, <2>6, <2>7
<1>4. ASSUME NEW c \in Call, TaskCalls(t, c) PROVE \E d \in Call : Calls(t, d) /\ Site(t, d)
  <2>1. PICK i \in 1 .. Plan[c].items :
           Running(t, c, i) /\ Due(Plan[c].inTask[i]) /\ Make(t, Plan[c].inTask[i])
    BY <1>4 DEF TaskCalls
  <2> DEFINE d == Plan[c].inTask[i]
  <2>2. d \in Call /\ d \in Nested /\ d \in Inside(c) /\ phase[d] = "idle"
    BY <2>1, PlanAssumption, InsideSites, NestedSites DEF Due
  <2>3. /\ stack[t] # <<>>
        /\ \/ stack[t][1] = JobFrame(c, i)
           \/ stack[t][1] = CallFrame(c) /\ phase[c] = "run" /\ i = next[c]
    BY <2>1, Innermost DEF Running
  <2>4. CanCall(t)
    BY <2>3, CallFrameType DEF CanCall, JobFrame
  <2>5. Calls(t, d)
    BY <1>4, <2>1, <2>2, <2>4 DEF TaskCalls, Calls
  <2>6. Site(t, d)
    <3>1. CASE stack[t][1] = JobFrame(c, i)
      <4>1. On(CallFrame(d), JobFrame(c, i))
        BY PlanAssumption DEF On, JobFrame
      <4>2. JobFrame(c, i).call = c
        BY DEF JobFrame
      <4>3. QED
        BY <2>2, <2>3, <3>1, <4>1, <4>2 DEF Site
    <3>2. CASE stack[t][1] = CallFrame(c) /\ phase[c] = "run" /\ i = next[c]
      <4>1. On(CallFrame(d), CallFrame(c))
        BY <3>2, CallFrameType DEF On
      <4>2. QED
        BY <2>2, <2>3, <3>2, <4>1, CallFrameType DEF Site
    <3>3. QED
      BY <2>3, <3>1, <3>2
  <2>7. QED
    BY <2>2, <2>5, <2>6
<1>5. QED
  BY <1>1, <1>2, <1>3, <1>4

-----------------------------------------------------------------------------
(* Types.                                                                   *)

(* Making a call keeps the types. *)
LEMMA CallsType ==
  ASSUME TypeOK, NEW t \in Thread, NEW d \in Call, Calls(t, d)
  PROVE  TypeOK'
<1>1. stack' \in [Thread -> Seq(Frame)]
  BY PushStep, CallFrameType DEF Calls
<1>2. roots' \in [Thread -> Seq(Call)]
  <2>1. CASE UNCHANGED roots
    BY <2>1 DEF TypeOK
  <2>2. CASE roots[t] # <<>> /\ roots' = [roots EXCEPT ![t] = Tail(@)]
    <3>1. roots \in [Thread -> Seq(Call)] /\ roots[t] \in Seq(Call)
      BY DEF TypeOK
    <3>2. Tail(roots[t]) \in Seq(Call)
      BY <2>2, <3>1, HeadTailProperties
    <3>3. QED
      BY <2>2, <3>1, <3>2
  <2>3. QED
    BY <2>1, <2>2 DEF Calls
<1>3. phase' \in [Call -> {"idle", "call", "enter", "spawn", "pull", "send", "run", "join"} \cup Over]
  BY DEF TypeOK, Calls
<1>4. QED
  BY <1>1, <1>2, <1>3 DEF TypeOK, Calls

(* So does each action of a caller. *)
LEMMA CallerType ==
  ASSUME IInv, NEW t \in Thread, NEW c \in Call,
         \/ CallWithCount(t, c) \/ ExecuteWithCount(t, c) \/ Spawn(t, c)
         \/ SourceGives(t, c) \/ SourceEnds(t, c) \/ Send(t, c) \/ Leave(t, c)
         \/ SequentialTaskEnds(t, c)
  PROVE  TypeOK'
<1> USE PlanAssumption DEF workVars
<1>1. TypeOK
  BY DEF IInv
<1>2. CASE CallWithCount(t, c) \/ ExecuteWithCount(t, c)
  <2>1. Decide(t, c)
    BY <1>2 DEF CallWithCount, ExecuteWithCount
  <2>2. active' \in [Thread -> Seq(Pool)]
    <3>1. active \in [Thread -> Seq(Pool)] /\ Append(active[t], Plan[c].pool) \in Seq(Pool)
      BY <1>1 DEF TypeOK
    <3>2. QED
      BY <2>1, <3>1 DEF Decide
  <2>3. mode' \in [Call -> {"none", "parallel", "sequential"}]
    BY <1>1, <2>1 DEF TypeOK, Decide
  <2>4. phase' \in [Call -> {"idle", "call", "enter", "spawn", "pull", "send", "run", "join"} \cup Over]
    BY <1>1, <2>1 DEF TypeOK, Decide
  <2>5. guard' \in [Call -> BOOLEAN]
    <3>1. KeepsGuard(t, c, RunsSequentially(t, c)) \in BOOLEAN
      BY DEF KeepsGuard, Registers
    <3>2. QED
      BY <1>1, <2>1, <3>1 DEF TypeOK, Decide
  <2>6. QED
    BY <1>1, <2>1, <2>2, <2>3, <2>4, <2>5 DEF TypeOK, Decide
<1>3. CASE Spawn(t, c)
  <2>1. queue' \in [Pool -> Seq(Call)]
    <3>1. queue \in [Pool -> Seq(Call)] /\ Append(queue[Plan[c].pool], c) \in Seq(Call)
      BY <1>1 DEF TypeOK
    <3>2. QED
      BY <1>3, <3>1 DEF Spawn
  <2>2. jobs' \in [Call -> Nat]
    BY <1>1, <1>3 DEF TypeOK, Spawn
  <2>3. QED
    BY <1>1, <1>3, <2>1, <2>2 DEF TypeOK, Spawn
<1>4. CASE SourceGives(t, c)
  BY <1>1, <1>4 DEF TypeOK, SourceGives
<1>5. CASE SourceEnds(t, c)
  BY <1>1, <1>5 DEF TypeOK, SourceEnds
<1>6. CASE Send(t, c)
  <2>1. chan' \in [Call -> Seq(Nat)]
    <3>1. chan \in [Call -> Seq(Nat)] /\ Append(chan[c], next[c]) \in Seq(Nat)
      BY <1>1 DEF TypeOK
    <3>2. QED
      BY <1>6, <3>1 DEF Send
  <2>2. QED
    BY <1>1, <1>6, <2>1 DEF TypeOK, Send
<1>7. CASE Leave(t, c)
  <2>1. stack' \in [Thread -> Seq(Frame)]
    <3>1. stack[t] # <<>>
      BY <1>7 DEF Leave, InCall
    <3>2. QED
      BY <1>1, <1>7, <3>1, PopStep DEF Leave
  <2>2. active' \in [Thread -> Seq(Pool)]
    <3>1. active \in [Thread -> Seq(Pool)] /\ active[t] \in Seq(Pool)
      BY <1>1 DEF TypeOK
    <3>2. WithoutLast(active[t], Plan[c].pool) \in Seq(Pool)
      BY <3>1, WithoutLastRemoves
    <3>3. QED
      BY <1>7, <3>1, <3>2 DEF Leave
  <2>3. phase' \in [Call -> {"idle", "call", "enter", "spawn", "pull", "send", "run", "join"} \cup Over]
    BY <1>1, <1>7 DEF TypeOK, Leave, Over
  <2>4. QED
    BY <1>1, <1>7, <2>1, <2>2, <2>3 DEF TypeOK, Leave
<1>8. CASE SequentialTaskEnds(t, c)
  <2>1. done' \in [Call -> SUBSET Nat] /\ next' \in [Call -> Nat]
    BY <1>1, <1>8 DEF TypeOK, SequentialTaskEnds
  <2>2. phase' \in [Call -> {"idle", "call", "enter", "spawn", "pull", "send", "run", "join"} \cup Over]
    BY <1>1, <1>8 DEF TypeOK, SequentialTaskEnds
  <2>3. QED
    BY <1>1, <1>8, <2>1, <2>2 DEF TypeOK, SequentialTaskEnds
<1>9. QED
  BY <1>2, <1>3, <1>4, <1>5, <1>6, <1>7, <1>8
(* A queue holds finitely many jobs. *)
LEMMA QueuedFinite ==
  ASSUME TypeOK, NEW c \in Call
  PROVE  IsFiniteSet(QueuedJobs(c)) /\ Cardinality(QueuedJobs(c)) \in Nat
<1>1. Len(queue[Plan[c].pool]) \in Nat
  BY PlanAssumption DEF TypeOK
<1>2. IsFiniteSet(1 .. Len(queue[Plan[c].pool]))
  BY <1>1, FS_Interval
<1>3. QED
  BY <1>2, FS_Subset, FS_CardinalityType DEF QueuedJobs

(* What is received is an item of the call. *)
LEMMA ReceivedItem ==
  ASSUME IInv, NEW c \in Call, chan[c] # <<>>
  PROVE  /\ Head(chan[c]) \in 1 .. next[c] - 1 /\ Head(chan[c]) \in 1 .. Plan[c].items
         /\ Head(chan[c]) \in Buffered(c)
<1>1. chan[c] \in Seq(Nat) /\ 1 \in 1 .. Len(chan[c]) /\ Head(chan[c]) = chan[c][1]
  BY EmptySeq DEF IInv, TypeOK
<1>2. Head(chan[c]) \in Buffered(c)
  BY <1>1 DEF Buffered
<1>3. Head(chan[c]) \in 1 .. next[c] - 1
  BY <1>2 DEF IInv, ItemInv
<1>4. next[c] \in 1 .. Plan[c].items + 1 /\ Plan[c].items \in Nat
  BY PlanAssumption DEF IInv, SourceInv
<1>5. QED
  BY <1>2, <1>3, <1>4

(* A job frame on a stack is one of the jobs counted. *)
LEMMA JobsOnStack ==
  ASSUME IInv, NEW t \in Thread, NEW k \in 1 .. Len(stack[t]), NEW c \in Call,
         IsJobOf(stack[t][k], c)
  PROVE  /\ <<t, Len(stack[t]) + 1 - k>> \in StackJobs(c)
         /\ Cardinality(StackJobs(c)) \in Nat \ {0}
         /\ jobs[c] \in Nat \ {0}
<1> DEFINE h == Len(stack[t]) + 1 - k
<1>1. h \in 1 .. Len(stack[t]) /\ Len(stack[t]) + 1 - h = k
  BY StackFrames DEF IInv
<1>2. h \in JobHeights(t, c)
  BY <1>1 DEF JobHeights, At
<1>3. <<t, h>> \in StackJobs(c)
  BY <1>2 DEF StackJobs
<1>4. IsFiniteSet(StackJobs(c))
  BY DEF IInv, JobInv
<1>5. Cardinality(StackJobs(c)) \in Nat \ {0}
  BY <1>3, <1>4, FS_CardinalityType, FS_EmptySet
<1>6. Cardinality(QueuedJobs(c)) \in Nat
  BY QueuedFinite DEF IInv
<1>7. QED
  BY <1>3, <1>5, <1>6 DEF IInv, JobInv

(* And each action of a worker. *)
LEMMA WorkerType ==
  ASSUME IInv, NEW t \in Thread,
         \/ TakeJob(t)
         \/ \E c \in Call : WorkerTaskEnds(t, c) \/ Recv(t, c) \/ JobEnds(t, c)
  PROVE  TypeOK'
<1> USE PlanAssumption DEF callVars
<1>1. TypeOK /\ JobInv /\ ItemInv
  BY DEF IInv
<1>2. CASE TakeJob(t)
  <2>1. Home[t] \in Pool /\ queue[Home[t]] \in Seq(Call) /\ queue[Home[t]] # <<>>
    BY <1>1, <1>2, ThreadsAssumption DEF TypeOK, TakeJob
  <2>2. Head(queue[Home[t]]) \in Call /\ Tail(queue[Home[t]]) \in Seq(Call)
    BY <2>1, HeadTailProperties
  <2>3. stack' \in [Thread -> Seq(Frame)]
    <3>1. JobFrame(Head(queue[Home[t]]), 0) \in Frame
      BY <2>2, PlanAssumption, JobFrameType
    <3>2. QED
      BY <1>1, <1>2, <3>1, PushStep DEF TakeJob
  <2>4. queue' \in [Pool -> Seq(Call)]
    BY <1>1, <1>2, <2>2 DEF TypeOK, TakeJob
  <2>5. QED
    BY <1>1, <1>2, <2>3, <2>4 DEF TypeOK, TakeJob
<1>3. ASSUME NEW c \in Call, WorkerTaskEnds(t, c) PROVE TypeOK'
  <2>1. PICK i \in 1 .. Plan[c].items :
           /\ InJob(t, c, i) /\ done' = [done EXCEPT ![c] = @ \cup {i}]
           /\ Replace(t, JobFrame(c, 0))
    BY <1>3 DEF WorkerTaskEnds
  <2>2. stack[t] # <<>>
    BY <2>1 DEF InJob
  <2>3. stack' \in [Thread -> Seq(Frame)]
    BY <1>1, <2>1, <2>2, JobFrameType, ReplaceStep
  <2>4. QED
    <3>1. done' \in [Call -> SUBSET Nat]
      BY <1>1, <2>1 DEF TypeOK
    <3>2. QED
      BY <1>1, <1>3, <2>3, <3>1 DEF TypeOK, WorkerTaskEnds
<1>4. ASSUME NEW c \in Call, Recv(t, c) PROVE TypeOK'
  <2>1. chan[c] \in Seq(Nat) /\ chan[c] # <<>>
    BY <1>1, <1>4 DEF TypeOK, Recv
  <2>2. Head(chan[c]) \in 0 .. Plan[c].items /\ Tail(chan[c]) \in Seq(Nat)
    BY <1>1, <2>1, ReceivedItem, HeadTailProperties
  <2>3. stack[t] # <<>>
    BY <1>4 DEF Recv, InJob
  <2>4. stack' \in [Thread -> Seq(Frame)]
    BY <1>1, <1>4, <2>2, <2>3, JobFrameType, ReplaceStep DEF Recv
  <2>5. QED
    BY <1>1, <1>4, <2>2, <2>4 DEF TypeOK, Recv
<1>5. ASSUME NEW c \in Call, JobEnds(t, c) PROVE TypeOK'
  <2>1. stack[t] # <<>>
    BY <1>5 DEF JobEnds, InJob
  <2>2. stack' \in [Thread -> Seq(Frame)]
    BY <1>1, <1>5, <2>1, PopStep DEF JobEnds
  <2>3. jobs' \in [Call -> Nat]
    <3>1. 1 \in 1 .. Len(stack[t]) /\ stack[t][1] = JobFrame(c, 0)
      BY <1>1, <1>5, Innermost DEF JobEnds
    <3>2. IsJobOf(stack[t][1], c)
      BY <3>1 DEF IsJobOf, JobFrame
    <3>3. jobs[c] \in Nat \ {0}
      BY <3>1, <3>2, JobsOnStack
    <3>4. QED
      BY <1>1, <1>5, <3>3 DEF TypeOK, JobEnds
  <2>4. QED
    BY <1>1, <1>5, <2>2, <2>3 DEF TypeOK, JobEnds
<1>6. QED
  BY <1>2, <1>3, <1>4, <1>5
-----------------------------------------------------------------------------
(* Where callers are, and how far their sources have come.                  *)

(* The strategy is decided for the thread's state: a parallel call is never *)
(* made by a worker of the pool, nor under a registration of it.            *)
LEMMA Decision ==
  ASSUME IInv, NEW t \in Thread, NEW c \in Call, CallWithCount(t, c) \/ ExecuteWithCount(t, c)
  PROVE  /\ phase[c] \in {"call", "enter"} /\ ~guard[c]
         /\ UNCHANGED <<stack, next, open, broken, chan, jobs, queue, done, roots>>
         /\ \E sequential \in BOOLEAN, keeps \in BOOLEAN :
               /\ sequential = RunsSequentially(t, c)
               /\ mode' = [mode EXCEPT ![c] = IF sequential THEN "sequential" ELSE "parallel"]
               /\ phase' = [phase EXCEPT ![c] = IF sequential THEN "pull"
                                                ELSE IF @ = "call" THEN "enter" ELSE "spawn"]
               /\ guard' = [guard EXCEPT ![c] = keeps]
               /\ active' = IF keeps THEN [active EXCEPT ![t] = Append(@, Plan[c].pool)] ELSE active
               /\ keeps => Registers(t, Plan[c].pool)
               /\ ~sequential => /\ Registers(t, Plan[c].pool) /\ Home[t] # Plan[c].pool
                                 /\ keeps <=> phase[c] = "enter"
<1>1. phase[c] \in {"call", "enter"} /\ Decide(t, c)
  BY DEF CallWithCount, ExecuteWithCount, InCall
<1>2. ~guard[c]
  BY <1>1 DEF IInv, CallInv
<1> DEFINE sequential == RunsSequentially(t, c)
           keeps == KeepsGuard(t, c, sequential)
<1>3. sequential \in BOOLEAN /\ keeps \in BOOLEAN
  BY DEF RunsSequentially, KeepsGuard, Registers
<1>4. keeps => Registers(t, Plan[c].pool)
  BY DEF KeepsGuard
<1>5. ~sequential => /\ Registers(t, Plan[c].pool) /\ Home[t] # Plan[c].pool
                     /\ keeps <=> phase[c] = "enter"
  BY DEF RunsSequentially, Reentrant, KeepsGuard
<1>6. /\ mode' = [mode EXCEPT ![c] = IF sequential THEN "sequential" ELSE "parallel"]
      /\ phase' = [phase EXCEPT ![c] = IF sequential THEN "pull"
                                       ELSE IF @ = "call" THEN "enter" ELSE "spawn"]
      /\ guard' = [guard EXCEPT ![c] = keeps]
      /\ active' = IF keeps THEN [active EXCEPT ![t] = Append(@, Plan[c].pool)] ELSE active
      /\ UNCHANGED <<stack, next, open, broken, chan, jobs, queue, done, roots>>
  BY <1>1 DEF Decide, workVars
<1> HIDE DEF sequential, keeps
<1>7. QED
  BY <1>1, <1>2, <1>3, <1>4, <1>5, <1>6 DEF sequential

(* A caller moves among the points its strategy has. *)
LEMMA CallStep ==
  ASSUME IInv, NEW t \in Thread, NEW c \in Call,
         \/ Calls(t, c) \/ CallWithCount(t, c) \/ ExecuteWithCount(t, c) \/ Spawn(t, c)
         \/ SourceGives(t, c) \/ SourceEnds(t, c) \/ Send(t, c) \/ Leave(t, c)
         \/ SequentialTaskEnds(t, c)
  PROVE  CallInv' /\ SourceInv'
<1> USE PlanAssumption DEF workVars
<1>1. TypeOK /\ CallInv /\ SourceInv
  BY DEF IInv
<1>2. CASE Calls(t, c)
  <2>1. PICK ph \in {"call", "enter"} : phase' = [phase EXCEPT ![c] = ph]
    BY <1>2 DEF Calls
  <2>2. phase[c] = "idle" /\ UNCHANGED <<guard, mode, next, open, broken>>
    BY <1>2 DEF Calls
  <2>3. \A d \in Call : phase'[d] = IF d = c THEN ph ELSE phase[d]
    BY <1>1, <2>1 DEF TypeOK
  <2>4. CallInv'
    BY <1>1, <2>1, <2>2, <2>3 DEF CallInv, Over
  <2>5. SourceInv'
    BY <1>1, <2>1, <2>2, <2>3 DEF SourceInv
  <2>6. QED
    BY <2>4, <2>5
<1>3. CASE CallWithCount(t, c) \/ ExecuteWithCount(t, c)
  <2>1. PICK sequential \in BOOLEAN, keeps \in BOOLEAN :
           /\ mode' = [mode EXCEPT ![c] = IF sequential THEN "sequential" ELSE "parallel"]
           /\ phase' = [phase EXCEPT ![c] = IF sequential THEN "pull"
                                            ELSE IF @ = "call" THEN "enter" ELSE "spawn"]
           /\ guard' = [guard EXCEPT ![c] = keeps]
           /\ ~sequential => (keeps <=> phase[c] = "enter")
    BY <1>3, Decision
  <2>2. phase[c] \in {"call", "enter"} /\ UNCHANGED <<next, open, broken>>
    BY <1>3, Decision
  <2>3. \A d \in Call :
           /\ mode'[d] = IF d = c THEN (IF sequential THEN "sequential" ELSE "parallel") ELSE mode[d]
           /\ phase'[d] = IF d = c THEN IF sequential THEN "pull"
                                        ELSE IF phase[c] = "call" THEN "enter" ELSE "spawn"
                          ELSE phase[d]
           /\ guard'[d] = IF d = c THEN keeps ELSE guard[d]
    BY <1>1, <2>1 DEF TypeOK
  <2>4. CallInv'
    BY <1>1, <2>1, <2>2, <2>3 DEF CallInv, Over
  <2>5. SourceInv'
    BY <1>1, <2>1, <2>2, <2>3 DEF SourceInv
  <2>6. QED
    BY <2>4, <2>5
<1>4. CASE Spawn(t, c)
  <2>1. /\ phase[c] = "spawn" /\ UNCHANGED <<guard, mode, open, broken, next>>
        /\ phase'[c] \in {"spawn", "pull"}
        /\ \A d \in Call : d # c => phase'[d] = phase[d]
    BY <1>1, <1>4 DEF Spawn, InCall, TypeOK
  <2>2. CallInv'
    BY <1>1, <2>1 DEF TypeOK, CallInv, Over
  <2>3. SourceInv'
    BY <1>1, <2>1 DEF SourceInv
  <2>4. QED
    BY <2>2, <2>3
<1>5. CASE SourceGives(t, c)
  <2>1. /\ phase[c] = "pull" /\ UNCHANGED <<guard, mode, open, broken, next>> /\ next[c] <= Plan[c].items
        /\ phase'[c] \in {IF mode[c] = "parallel" THEN "send" ELSE "run"}
        /\ \A d \in Call : d # c => phase'[d] = phase[d]
    BY <1>1, <1>5 DEF SourceGives, InCall, TypeOK
  <2>2. CallInv'
    BY <1>1, <2>1 DEF TypeOK, CallInv, Over
  <2>3. SourceInv'
    BY <1>1, <2>1 DEF SourceInv
  <2>4. QED
    BY <2>2, <2>3
<1>6. CASE SourceEnds(t, c)
  <2>1. PICK panics \in BOOLEAN :
           /\ broken' = [broken EXCEPT ![c] = panics]
           /\ ~panics => next[c] > Plan[c].items
    BY <1>6 DEF SourceEnds
  <2>2. /\ phase[c] = "pull" /\ phase' = [phase EXCEPT ![c] = "join"]
        /\ open' = [open EXCEPT ![c] = FALSE] /\ UNCHANGED <<guard, mode, next>>
    BY <1>6 DEF SourceEnds, InCall
  <2>3. CallInv'
    BY <1>1, <2>2 DEF TypeOK, CallInv, Over
  <2>4. next[c] > Plan[c].items => next[c] = Plan[c].items + 1
    BY <1>1 DEF SourceInv
  <2>5. SourceInv'
    BY <1>1, <2>1, <2>2, <2>4 DEF TypeOK, SourceInv
  <2>6. QED
    BY <2>3, <2>5
<1>7. CASE Send(t, c)
  <2>1. /\ phase[c] = "send" /\ UNCHANGED <<guard, mode, open, broken>>
        /\ phase' = [phase EXCEPT ![c] = "pull"] /\ next' = [next EXCEPT ![c] = @ + 1]
    BY <1>7 DEF Send, InCall
  <2>2. \A d \in Call : /\ phase'[d] = IF d = c THEN "pull" ELSE phase[d]
                       /\ next'[d] = IF d = c THEN next[c] + 1 ELSE next[d]
    BY <1>1, <2>1 DEF TypeOK
  <2>3. CallInv'
    BY <1>1, <2>1, <2>2 DEF TypeOK, CallInv, Over
  <2>4. next[c] + 1 \in 1 .. Plan[c].items + 1
    BY <1>1, <2>1 DEF SourceInv
  <2>5. SourceInv'
    BY <1>1, <2>1, <2>2, <2>4 DEF SourceInv
  <2>6. QED
    BY <2>3, <2>5
<1>8. CASE Leave(t, c)
  BY <1>1, <1>8 DEF Leave, InCall, TypeOK, CallInv, SourceInv, Over
<1>9. CASE SequentialTaskEnds(t, c)
  <2>1. /\ phase[c] = "run" /\ UNCHANGED <<guard, mode, open, broken>>
        /\ phase' = [phase EXCEPT ![c] = "pull"] /\ next' = [next EXCEPT ![c] = @ + 1]
    BY <1>9 DEF SequentialTaskEnds, InCall
  <2>2. \A d \in Call : /\ phase'[d] = IF d = c THEN "pull" ELSE phase[d]
                       /\ next'[d] = IF d = c THEN next[c] + 1 ELSE next[d]
    BY <1>1, <2>1 DEF TypeOK
  <2>3. CallInv'
    BY <1>1, <2>1, <2>2 DEF TypeOK, CallInv, Over
  <2>4. next[c] + 1 \in 1 .. Plan[c].items + 1
    BY <1>1, <2>1 DEF SourceInv
  <2>5. SourceInv'
    BY <1>1, <2>1, <2>2, <2>4 DEF SourceInv
  <2>6. QED
    BY <2>3, <2>5
<1>10. QED
  BY <1>2, <1>3, <1>4, <1>5, <1>6, <1>7, <1>8, <1>9

(* Nothing a worker does moves a caller. *)
LEMMA WorkersLeaveCalls ==
  ASSUME IInv, NEW t \in Thread,
         \/ TakeJob(t)
         \/ \E c \in Call : WorkerTaskEnds(t, c) \/ Recv(t, c) \/ JobEnds(t, c)
  PROVE  UNCHANGED <<active, guard, mode, phase, next, open, broken, roots>> /\ CallInv' /\ SourceInv'
<1>1. UNCHANGED <<active, guard, mode, phase, next, open, broken, roots>>
  BY DEF TakeJob, WorkerTaskEnds, Recv, JobEnds, callVars
<1>2. QED
  BY <1>1 DEF IInv, CallInv, SourceInv

-----------------------------------------------------------------------------
(* Which frames are on which stack.                                         *)

\* The innermost frame is that of call c, and the call moves on.
Stays(t, c) ==
    /\ 1 \in 1 .. Len(stack[t]) /\ stack[t][1] = CallFrame(c)
    /\ UNCHANGED <<stack, roots>>
    /\ \E ph : ph \notin {"idle"} \cup Over /\ phase' = [phase EXCEPT ![c] = ph]

(* Between being made and being over a call stays on its stack. *)
LEMMA CallerStays ==
  ASSUME IInv, NEW t \in Thread, NEW c \in Call,
         \/ CallWithCount(t, c) \/ ExecuteWithCount(t, c) \/ Spawn(t, c)
         \/ SourceGives(t, c) \/ SourceEnds(t, c) \/ Send(t, c) \/ SequentialTaskEnds(t, c)
  PROVE  Stays(t, c)
<1> USE DEF Over
<1>1. TypeOK
  BY DEF IInv
<1>2. \E ph : InCall(t, c, ph)
  BY DEF CallWithCount, ExecuteWithCount, Spawn, SourceGives, SourceEnds, Send, SequentialTaskEnds
<1>3. 1 \in 1 .. Len(stack[t]) /\ stack[t][1] = CallFrame(c)
  BY <1>1, <1>2, Innermost
<1>4. UNCHANGED <<stack, roots>>
  BY DEF CallWithCount, ExecuteWithCount, Decide, Spawn, SourceGives, SourceEnds, Send,
         SequentialTaskEnds, workVars
<1>5. \E ph \in {"enter", "spawn", "pull", "send", "run", "join"} : phase' = [phase EXCEPT ![c] = ph]
  <2>1. CASE CallWithCount(t, c) \/ ExecuteWithCount(t, c)
    BY <2>1 DEF CallWithCount, ExecuteWithCount, Decide
  <2>2. CASE Spawn(t, c)
    BY <2>2 DEF Spawn, InCall
  <2>3. CASE SourceGives(t, c)
    BY <2>3 DEF SourceGives
  <2>4. CASE SourceEnds(t, c) \/ Send(t, c) \/ SequentialTaskEnds(t, c)
    BY <2>4 DEF SourceEnds, Send, SequentialTaskEnds
  <2>5. QED
    BY <2>1, <2>2, <2>3, <2>4
<1>6. QED
  BY <1>3, <1>4, <1>5 DEF Stays

\* The innermost frame, of call c, goes, and the call is over.
Leaves(t, c) ==
    /\ stack[t] # <<>> /\ 1 \in 1 .. Len(stack[t]) /\ stack[t][1] = CallFrame(c)
    /\ phase[c] = "join" /\ jobs[c] = 0
    /\ \E ph \in Over : phase' = [phase EXCEPT ![c] = ph]
    /\ stack' = [stack EXCEPT ![t] = Tail(@)]
    /\ guard' = [guard EXCEPT ![c] = FALSE]
    /\ active' = IF guard[c]
                 THEN [active EXCEPT ![t] = WithoutLast(@, Plan[c].pool)]
                 ELSE active
    /\ UNCHANGED <<mode, next, open, broken, chan, jobs, queue, done, roots>>

LEMMA LeaveStep ==
  ASSUME IInv, NEW t \in Thread, NEW c \in Call, Leave(t, c)
  PROVE  Leaves(t, c)
<1>1. TypeOK
  BY DEF IInv
<1>2. stack[t] # <<>> /\ 1 \in 1 .. Len(stack[t]) /\ stack[t][1] = CallFrame(c) /\ phase[c] = "join"
  BY <1>1, Innermost DEF Leave
<1>3. QED
  BY <1>2 DEF Leave, Leaves, Over, workVars

\* What a worker does to its stack: a job frame comes, where nothing or a
\* waiting call was innermost, goes, or changes its item.
JobMoves(t) ==
    \/ /\ 1 \in 1 .. Len(stack[t]) /\ stack[t][1].kind = "call" => phase[stack[t][1].call] = "join"
       /\ \E f \in Frame : f.kind = "job" /\ Pushed(t, f)
    \/ 1 \in 1 .. Len(stack[t]) /\ stack[t][1].kind = "job" /\ Popped(t)
    \/ /\ 1 \in 1 .. Len(stack[t]) /\ stack[t][1].kind = "job"
       /\ \E f \in Frame : f.kind = "job" /\ f.call = stack[t][1].call /\ Replaced(t, f)

(* The head of a pool's queue is a call on that pool. *)
LEMMA QueueHead ==
  ASSUME TypeOK, JobInv, NEW t \in Thread, TakeJob(t)
  PROVE  /\ Home[t] \in Pool /\ queue[Home[t]] \in Seq(Call) /\ queue[Home[t]] # <<>>
         /\ 1 \in 1 .. Len(queue[Home[t]]) /\ Head(queue[Home[t]]) = queue[Home[t]][1]
         /\ Head(queue[Home[t]]) \in Call /\ Plan[Head(queue[Home[t]])].pool = Home[t]
<1>1. Home[t] \in Pool /\ queue[Home[t]] \in Seq(Call) /\ queue[Home[t]] # <<>>
  BY ThreadsAssumption DEF TypeOK, TakeJob
<1>2. /\ 1 \in 1 .. Len(queue[Home[t]]) /\ Head(queue[Home[t]]) = queue[Home[t]][1]
      /\ Head(queue[Home[t]]) \in Call
  BY <1>1, HeadTailProperties, EmptySeq
<1>3. QED
  BY <1>1, <1>2 DEF JobInv

LEMMA WorkerMoves ==
  ASSUME IInv, NEW t \in Thread,
         \/ TakeJob(t)
         \/ \E c \in Call : WorkerTaskEnds(t, c) \/ Recv(t, c) \/ JobEnds(t, c)
  PROVE  JobMoves(t) /\ ElsewhereSame(t)
<1> USE PlanAssumption
<1>1. TypeOK /\ JobInv
  BY DEF IInv
<1>2. CASE TakeJob(t)
  <2> DEFINE c == Head(queue[Home[t]])
  <2>1. c \in Call
    BY <1>1, <1>2, QueueHead
  <2>2. JobFrame(c, 0) \in Frame /\ JobFrame(c, 0).kind = "job"
    BY <2>1, JobFrameType
  <2>3. Pushed(t, JobFrame(c, 0)) /\ ElsewhereSame(t)
    BY <1>1, <1>2, <2>2, PushStep DEF TakeJob
  <2>4. ASSUME 1 \in 1 .. Len(stack[t]), stack[t][1].kind = "call"
        PROVE  phase[stack[t][1].call] = "join"
    <3>1. stack[t] # <<>> /\ Head(stack[t]) = stack[t][1]
      BY <1>1, <2>4, StackFrames
    <3>2. QED
      BY <1>2, <3>1 DEF TakeJob, InCall
  <2>5. QED
    BY <2>2, <2>3, <2>4 DEF JobMoves
<1>3. ASSUME NEW c \in Call, NEW i, NEW j \in 0 .. Plan[c].items, InJob(t, c, i),
             Replace(t, JobFrame(c, j))
      PROVE  JobMoves(t) /\ ElsewhereSame(t)
  <2>1. stack[t] # <<>> /\ 1 \in 1 .. Len(stack[t]) /\ stack[t][1] = JobFrame(c, i)
    BY <1>1, <1>3, Innermost
  <2>2. stack[t][1].kind = "job" /\ stack[t][1].call = c
    BY <2>1 DEF JobFrame
  <2>3. JobFrame(c, j) \in Frame /\ JobFrame(c, j).kind = "job" /\ JobFrame(c, j).call = c
    BY JobFrameType
  <2>4. Replaced(t, JobFrame(c, j)) /\ ElsewhereSame(t)
    BY <1>1, <1>3, <2>1, <2>3, ReplaceStep
  <2>5. QED
    BY <2>1, <2>2, <2>3, <2>4 DEF JobMoves
<1>4. ASSUME NEW c \in Call, WorkerTaskEnds(t, c) PROVE JobMoves(t) /\ ElsewhereSame(t)
  BY <1>3, <1>4 DEF WorkerTaskEnds
<1>5. ASSUME NEW c \in Call, Recv(t, c) PROVE JobMoves(t) /\ ElsewhereSame(t)
  <2>1. Head(chan[c]) \in 0 .. Plan[c].items
    BY <1>5, ReceivedItem DEF Recv
  <2>2. QED
    BY <1>3, <1>5, <2>1 DEF Recv
<1>6. ASSUME NEW c \in Call, JobEnds(t, c) PROVE JobMoves(t) /\ ElsewhereSame(t)
  <2>1. stack[t] # <<>> /\ 1 \in 1 .. Len(stack[t]) /\ stack[t][1] = JobFrame(c, 0)
    BY <1>1, <1>6, Innermost DEF JobEnds
  <2>2. stack[t][1].kind = "job"
    BY <2>1 DEF JobFrame
  <2>3. Popped(t) /\ ElsewhereSame(t)
    BY <1>1, <1>6, <2>1, PopStep DEF JobEnds
  <2>4. QED
    BY <2>1, <2>2, <2>3 DEF JobMoves
<1>7. QED
  BY <1>2, <1>4, <1>5, <1>6

(* The innermost call has no other frame. *)
LEMMA HeadCall ==
  ASSUME TypeOK, FrameInv, NEW t \in Thread, NEW c \in Call,
         1 \in 1 .. Len(stack[t]), stack[t][1] = CallFrame(c)
  PROVE  /\ phase[c] \notin {"idle"} \cup Over
         /\ \A u \in Thread : \A l \in 1 .. Len(stack[u]) :
               stack[u][l].kind = "call" /\ stack[u][l].call = c => u = t /\ l = 1
<1>1. stack[t][1].kind = "call" /\ stack[t][1].call = c
  BY CallFrameType
<1>2. ASSUME NEW u \in Thread, NEW l \in 1 .. Len(stack[u]),
             stack[u][l].kind = "call", stack[u][l].call = c
      PROVE  u = t /\ l = 1
  <2>1. stack[u][l] \in Frame
    BY StackFrames
  <2>2. stack[u][l] = CallFrame(c)
    BY <1>2, <2>1, FrameCases
  <2>3. QED
    BY <1>1, <2>2 DEF FrameInv
<1>3. QED
  BY <1>1, <1>2 DEF FrameInv

(* Frames stay apart, and callers below the innermost frame keep still. *)
LEMMA CallsFrames ==
  ASSUME IInv, NEW t \in Thread, NEW d \in Call, Calls(t, d)
  PROVE  FrameInv'
<1>1. TypeOK /\ FrameInv
  BY DEF IInv
<1>2. CallFrame(d) \in Frame /\ CallFrame(d).kind = "call" /\ CallFrame(d).call = d
  BY CallFrameType
<1>3. Pushed(t, CallFrame(d)) /\ ElsewhereSame(t)
  BY <1>1, <1>2, PushStep DEF Calls
<1>4. PICK ph \in {"call", "enter"} : phase' = [phase EXCEPT ![d] = ph]
  BY DEF Calls
<1>5. /\ phase'[d] = ph
      /\ \A c \in Call : c # d => phase'[c] = phase[c]
  BY <1>1, <1>4 DEF TypeOK
<1>6. \A u \in Thread : \A k \in 1 .. Len(stack[u]) :
         /\ stack[u][k] \in Frame /\ stack[u][k] # CallFrame(d)
         /\ stack[u][k].kind = "call" => stack[u][k].call \in Call /\ stack[u][k].call # d
  <2> SUFFICES ASSUME NEW u \in Thread, NEW k \in 1 .. Len(stack[u])
               PROVE  /\ stack[u][k] \in Frame /\ stack[u][k] # CallFrame(d)
                      /\ stack[u][k].kind = "call" => stack[u][k].call \in Call /\ stack[u][k].call # d
    OBVIOUS
  <2>1. stack[u][k] \in Frame
    BY <1>1, StackFrames
  <2>2. stack[u][k].kind = "call" => phase[stack[u][k].call] # "idle"
    BY <1>1 DEF FrameInv
  <2>3. phase[d] = "idle"
    BY DEF Calls
  <2>4. QED
    BY <1>2, <2>1, <2>2, <2>3, FrameCases
<1>7. Len(stack[t]) \in Nat
  BY <1>1, StackFrames
\* A frame of stack' is the new one, or one of stack, which is innermost where
\* a call can be made or was not innermost.
<1>8. ASSUME NEW u \in Thread, NEW k \in 1 .. Len(stack'[u])
      PROVE  \/ u = t /\ k = 1 /\ stack'[u][k] = CallFrame(d)
             \/ /\ u = t /\ k > 1 /\ k - 1 \in 1 .. Len(stack[u]) /\ stack'[u][k] = stack[u][k - 1]
             \/ u # t /\ k \in 1 .. Len(stack[u]) /\ stack'[u][k] = stack[u][k]
  <2>1. CASE u # t
    BY <1>3, <2>1 DEF ElsewhereSame
  <2>2. CASE u = t /\ k = 1
    BY <1>3, <2>2 DEF Pushed
  <2>3. CASE u = t /\ k # 1
    <3>1. k \in 1 .. Len(stack[t]) + 1
      BY <1>3, <2>3 DEF Pushed
    <3>2. k > 1 /\ k - 1 \in 1 .. Len(stack[t]) /\ (k - 1) + 1 = k
      BY <1>7, <2>3, <3>1
    <3>3. QED
      BY <1>3, <2>3, <3>2 DEF Pushed
  <2>4. QED
    BY <2>1, <2>2, <2>3
<1>9. ASSUME NEW u \in Thread, NEW k \in 1 .. Len(stack'[u]), stack'[u][k].kind = "call"
      PROVE  /\ phase'[stack'[u][k].call] \notin {"idle"} \cup Over
             /\ k > 1 => phase'[stack'[u][k].call] \in {"pull", "run", "join"}
  <2>1. CASE u = t /\ k = 1 /\ stack'[u][k] = CallFrame(d)
    BY <1>2, <1>5, <2>1 DEF Over
  <2>2. CASE u = t /\ k > 1 /\ k - 1 \in 1 .. Len(stack[u]) /\ stack'[u][k] = stack[u][k - 1]
    <3>1. stack[u][k - 1].kind = "call"
      BY <1>9, <2>2
    <3>2. phase'[stack[u][k - 1].call] = phase[stack[u][k - 1].call]
      BY <1>5, <1>6, <2>2, <3>1
    <3>3. phase[stack[u][k - 1].call] \notin {"idle"} \cup Over
      BY <1>1, <2>2, <3>1 DEF FrameInv
    <3>4. phase[stack[u][k - 1].call] \in {"pull", "run", "join"}
      <4>1. CASE k - 1 > 1
        BY <1>1, <2>2, <3>1, <4>1 DEF FrameInv
      <4>2. CASE k - 1 = 1
        <5>1. stack[t] # <<>>
          BY <1>1, <1>7, <2>2, StackFrames
        <5>2. QED
          BY <2>2, <3>1, <4>2, <5>1 DEF Calls, CanCall
      <4>3. QED
        BY <2>2, <4>1, <4>2
    <3>5. QED
      BY <2>2, <3>2, <3>3, <3>4
  <2>3. CASE u # t /\ k \in 1 .. Len(stack[u]) /\ stack'[u][k] = stack[u][k]
    BY <1>1, <1>5, <1>6, <1>9, <2>3 DEF FrameInv
  <2>4. QED
    BY <1>8, <2>1, <2>2, <2>3
<1>10. ASSUME NEW u \in Thread, NEW k \in 1 .. Len(stack'[u]), stack'[u][k].kind = "call",
              NEW v \in Thread, NEW l \in 1 .. Len(stack'[v]), stack'[v][l] = stack'[u][k]
       PROVE  v = u /\ l = k
  <2>0. ASSUME NEW x \in Thread, NEW i \in 1 .. Len(stack'[x]), stack'[x][i] = CallFrame(d)
        PROVE  x = t /\ i = 1
    <3>1. /\ i - 1 \in 1 .. Len(stack[x]) => stack[x][i - 1] # CallFrame(d)
          /\ i \in 1 .. Len(stack[x]) => stack[x][i] # CallFrame(d)
      BY <1>6
    <3>2. QED
      BY <1>8, <2>0, <3>1
  <2>1. CASE u = t /\ k = 1 /\ stack'[u][k] = CallFrame(d)
    BY <1>10, <2>0, <2>1
  <2>2. CASE v = t /\ l = 1 /\ stack'[v][l] = CallFrame(d)
    BY <1>10, <2>0, <2>2
  <2>3. CASE ~(u = t /\ k = 1) /\ ~(v = t /\ l = 1)
    <3>1. PICK k0 \in 1 .. Len(stack[u]) : stack'[u][k] = stack[u][k0] /\ k = IF u = t THEN k0 + 1 ELSE k0
      BY <1>8, <2>3
    <3>2. PICK l0 \in 1 .. Len(stack[v]) : stack'[v][l] = stack[v][l0] /\ l = IF v = t THEN l0 + 1 ELSE l0
      BY <1>8, <2>3
    <3>3. v = u /\ l0 = k0
      BY <1>1, <1>10, <3>1, <3>2 DEF FrameInv
    <3>4. QED
      BY <3>1, <3>2, <3>3
  <2>4. QED
    BY <1>8, <2>1, <2>2, <2>3
<1>11. QED
  BY <1>9, <1>10 DEF FrameInv

LEMMA StaysFrames ==
  ASSUME IInv, NEW t \in Thread, NEW c \in Call, Stays(t, c)
  PROVE  FrameInv'
<1>1. TypeOK /\ FrameInv
  BY DEF IInv
<1>2. PICK ph : ph \notin {"idle"} \cup Over /\ phase' = [phase EXCEPT ![c] = ph]
  BY DEF Stays
<1>3. \A d \in Call : phase'[d] = IF d = c THEN ph ELSE phase[d]
  BY <1>1, <1>2 DEF TypeOK
<1>4. stack' = stack /\ 1 \in 1 .. Len(stack[t]) /\ stack[t][1] = CallFrame(c)
  BY DEF Stays
<1>5. \A u \in Thread : \A l \in 1 .. Len(stack[u]) :
         stack[u][l].kind = "call" /\ stack[u][l].call = c => u = t /\ l = 1
  BY <1>1, <1>4, HeadCall
<1>6. \A u \in Thread : \A l \in 1 .. Len(stack[u]) : stack[u][l].call \in Call
  BY <1>1, StackFrames, FrameCases
<1>7. ASSUME NEW u \in Thread, NEW k \in 1 .. Len(stack[u]), stack[u][k].kind = "call"
      PROVE  /\ phase'[stack[u][k].call] \notin {"idle"} \cup Over
             /\ k > 1 => phase'[stack[u][k].call] \in {"pull", "run", "join"}
             /\ \A v \in Thread : \A l \in 1 .. Len(stack[v]) :
                   stack[v][l] = stack[u][k] => v = u /\ l = k
  <2>1. CASE stack[u][k].call = c
    <3>1. u = t /\ k = 1
      BY <1>5, <1>7, <2>1
    <3>2. QED
      BY <1>1, <1>2, <1>3, <1>7, <2>1, <3>1 DEF FrameInv
  <2>2. CASE stack[u][k].call # c
    <3>1. phase'[stack[u][k].call] = phase[stack[u][k].call]
      BY <1>3, <1>6, <2>2
    <3>2. QED
      BY <1>1, <1>7, <3>1 DEF FrameInv
  <2>3. QED
    BY <2>1, <2>2
<1>8. QED
  BY <1>4, <1>7 DEF FrameInv

LEMMA LeavesFrames ==
  ASSUME IInv, NEW t \in Thread, NEW c \in Call, Leaves(t, c)
  PROVE  FrameInv'
<1>1. TypeOK /\ FrameInv
  BY DEF IInv
<1>2. Popped(t) /\ ElsewhereSame(t)
  BY <1>1, PopStep DEF Leaves
<1>3. \A d \in Call : d # c => phase'[d] = phase[d]
  BY <1>1 DEF TypeOK, Leaves
<1>4. \A u \in Thread : \A l \in 1 .. Len(stack[u]) :
         stack[u][l].kind = "call" /\ stack[u][l].call = c => u = t /\ l = 1
  BY <1>1, HeadCall DEF Leaves
<1>5. \A u \in Thread : \A l \in 1 .. Len(stack[u]) : stack[u][l].call \in Call
  BY <1>1, StackFrames, FrameCases
<1>6. ASSUME NEW u \in Thread, NEW k \in 1 .. Len(stack'[u])
      PROVE  \E k0 \in 1 .. Len(stack[u]) :
                /\ stack'[u][k] = stack[u][k0]
                /\ k0 = IF u = t THEN k + 1 ELSE k
  <2>1. CASE u = t
    <3>1. Len(stack'[t]) + 1 = Len(stack[t]) /\ stack'[t][k] = stack[t][k + 1]
      BY <1>2, <2>1 DEF Popped
    <3>2. Len(stack'[t]) \in Nat
      <4>1. stack' \in [Thread -> Seq(Frame)]
        BY <1>1, PopStep DEF Leaves
      <4>2. QED
        BY <4>1
    <3>3. k + 1 \in 1 .. Len(stack[t])
      BY <2>1, <3>1, <3>2
    <3>4. QED
      BY <2>1, <3>1, <3>3
  <2>2. CASE u # t
    BY <1>2, <2>2 DEF ElsewhereSame
  <2>3. QED
    BY <2>1, <2>2
<1>7. ASSUME NEW u \in Thread, NEW k \in 1 .. Len(stack'[u]), stack'[u][k].kind = "call"
      PROVE  /\ phase'[stack'[u][k].call] \notin {"idle"} \cup Over
             /\ k > 1 => phase'[stack'[u][k].call] \in {"pull", "run", "join"}
             /\ \A v \in Thread : \A l \in 1 .. Len(stack'[v]) :
                   stack'[v][l] = stack'[u][k] => v = u /\ l = k
  <2>1. PICK k0 \in 1 .. Len(stack[u]) : stack'[u][k] = stack[u][k0] /\ k0 = IF u = t THEN k + 1 ELSE k
    BY <1>6
  <2>2. k \in Nat \ {0}
    OBVIOUS
  <2>3. ~(u = t /\ k0 = 1)
    BY <2>1, <2>2
  <2>4. stack[u][k0].call # c
    BY <1>4, <1>7, <2>1, <2>3
  <2>5. phase'[stack[u][k0].call] = phase[stack[u][k0].call]
    BY <1>3, <1>5, <2>4
  <2>6. k > 1 => k0 > 1
    BY <2>1, <2>2
  <2>7. ASSUME NEW v \in Thread, NEW l \in 1 .. Len(stack'[v]), stack'[v][l] = stack'[u][k]
        PROVE  v = u /\ l = k
    <3>1. PICK l0 \in 1 .. Len(stack[v]) : stack'[v][l] = stack[v][l0] /\ l0 = IF v = t THEN l + 1 ELSE l
      BY <1>6
    <3>2. v = u /\ l0 = k0
      <4>1. stack[v][l0] = stack[u][k0] /\ stack[u][k0].kind = "call"
        BY <1>7, <2>1, <2>7, <3>1
      <4>2. QED
        BY <1>1, <4>1 DEF FrameInv
    <3>3. l = k
      BY <2>1, <3>1, <3>2
    <3>4. QED
      BY <3>2, <3>3
  <2>8. QED
    BY <1>1, <1>7, <2>1, <2>5, <2>6, <2>7 DEF FrameInv
<1>8. QED
  BY <1>7 DEF FrameInv

\* Positions of t's call frames shift by o.
Shifted(t, o) ==
    /\ \A k \in 1 .. Len(stack'[t]) : stack'[t][k].kind = "call" =>
          /\ k + o \in 1 .. Len(stack[t]) /\ stack'[t][k] = stack[t][k + o]
          /\ k > 1 /\ k + o = 1 => phase[stack[t][1].call] = "join"
    /\ \A k \in 1 .. Len(stack[t]) : stack[t][k].kind = "call" =>
          k - o \in 1 .. Len(stack'[t]) /\ stack'[t][k - o] = stack[t][k]

(* A worker that moves keeps its call frames, and their order. *)
LEMMA JobMovesShift ==
  ASSUME TypeOK, TypeOK', NEW t \in Thread, JobMoves(t)
  PROVE  \E o \in {-1, 0, 1} : Shifted(t, o)
<1> DEFINE n == Len(stack[t])
           m == Len(stack'[t])
<1>1. n \in Nat /\ m \in Nat
  BY DEF TypeOK
<1>2. ASSUME NEW f \in Frame, f.kind = "job", Pushed(t, f),
             1 \in 1 .. n /\ stack[t][1].kind = "call" => phase[stack[t][1].call] = "join"
      PROVE  Shifted(t, -1)
  <2>1. m = n + 1 /\ stack'[t][1] = f /\ \A k \in 1 .. n : stack'[t][k + 1] = stack[t][k]
    BY <1>2 DEF Pushed
  <2>2. ASSUME NEW k \in 1 .. m, stack'[t][k].kind = "call"
        PROVE  /\ k + (-1) \in 1 .. n /\ stack'[t][k] = stack[t][k + (-1)]
               /\ k > 1 /\ k + (-1) = 1 => phase[stack[t][1].call] = "join"
    <3>1. k # 1
      BY <1>2, <2>1, <2>2
    <3>2. k + (-1) \in 1 .. n /\ (k + (-1)) + 1 = k
      BY <1>1, <2>1, <3>1
    <3>3. stack'[t][k] = stack[t][k + (-1)]
      BY <2>1, <3>2
    <3>4. QED
      BY <1>2, <2>2, <3>2, <3>3
  <2>3. ASSUME NEW k \in 1 .. n
        PROVE  k - (-1) \in 1 .. m /\ stack'[t][k - (-1)] = stack[t][k]
    <3>1. k - (-1) = k + 1 /\ k + 1 \in 1 .. m
      BY <1>1, <2>1
    <3>2. QED
      BY <2>1, <3>1
  <2>4. QED
    BY <2>2, <2>3 DEF Shifted
<1>3. ASSUME 1 \in 1 .. n, stack[t][1].kind = "job", Popped(t) PROVE Shifted(t, 1)
  <2>1. n = m + 1 /\ \A k \in 1 .. m : stack'[t][k] = stack[t][k + 1]
    BY <1>3 DEF Popped
  <2>2. ASSUME NEW k \in 1 .. m
        PROVE  /\ k + 1 \in 1 .. n /\ stack'[t][k] = stack[t][k + 1]
               /\ k > 1 /\ k + 1 = 1 => phase[stack[t][1].call] = "join"
    BY <1>1, <2>1
  <2>3. ASSUME NEW k \in 1 .. n, stack[t][k].kind = "call"
        PROVE  k - 1 \in 1 .. m /\ stack'[t][k - 1] = stack[t][k]
    <3>1. k # 1
      BY <1>3, <2>3
    <3>2. k - 1 \in 1 .. m /\ (k - 1) + 1 = k
      BY <1>1, <2>1, <3>1
    <3>3. QED
      BY <2>1, <3>2
  <2>4. QED
    BY <2>2, <2>3 DEF Shifted
<1>4. ASSUME 1 \in 1 .. n, stack[t][1].kind = "job", NEW f \in Frame, f.kind = "job", Replaced(t, f)
      PROVE  Shifted(t, 0)
  <2>1. m = n /\ stack'[t][1] = f /\ \A k \in 2 .. n : stack'[t][k] = stack[t][k]
    BY <1>4 DEF Replaced
  <2>2. ASSUME NEW k \in 1 .. m, stack'[t][k].kind = "call"
        PROVE  /\ k + 0 \in 1 .. n /\ stack'[t][k] = stack[t][k + 0]
               /\ k > 1 /\ k + 0 = 1 => phase[stack[t][1].call] = "join"
    <3>1. k # 1
      BY <1>4, <2>1, <2>2
    <3>2. k \in 2 .. n /\ k + 0 = k
      BY <1>1, <2>1, <3>1
    <3>3. QED
      BY <2>1, <3>2
  <2>3. ASSUME NEW k \in 1 .. n, stack[t][k].kind = "call"
        PROVE  k - 0 \in 1 .. m /\ stack'[t][k - 0] = stack[t][k]
    <3>1. k # 1
      BY <1>4, <2>3
    <3>2. k \in 2 .. n /\ k - 0 = k
      BY <1>1, <2>1, <3>1
    <3>3. QED
      BY <2>1, <3>2
  <2>4. QED
    BY <2>2, <2>3 DEF Shifted
<1>5. QED
  BY <1>2, <1>3, <1>4 DEF JobMoves

LEMMA WorkersFrames ==
  ASSUME IInv, TypeOK', NEW t \in Thread, JobMoves(t), ElsewhereSame(t), UNCHANGED phase
  PROVE  FrameInv'
<1>1. TypeOK /\ FrameInv
  BY DEF IInv
<1>2. PICK o \in {-1, 0, 1} : Shifted(t, o)
  BY <1>1, JobMovesShift
<1>3. ASSUME NEW u \in Thread, NEW k \in 1 .. Len(stack'[u]), stack'[u][k].kind = "call"
      PROVE  \E k0 \in 1 .. Len(stack[u]) :
                /\ stack'[u][k] = stack[u][k0]
                /\ k0 = IF u = t THEN k + o ELSE k
                /\ u = t /\ k > 1 /\ k0 = 1 => phase[stack[u][k0].call] = "join"
  <2>1. CASE u = t
    BY <1>2, <1>3, <2>1 DEF Shifted
  <2>2. CASE u # t
    BY <2>2 DEF ElsewhereSame
  <2>3. QED
    BY <2>1, <2>2
<1>4. ASSUME NEW u \in Thread, NEW k \in 1 .. Len(stack'[u]), stack'[u][k].kind = "call"
      PROVE  /\ phase[stack'[u][k].call] \notin {"idle"} \cup Over
             /\ k > 1 => phase[stack'[u][k].call] \in {"pull", "run", "join"}
             /\ \A v \in Thread : \A l \in 1 .. Len(stack'[v]) :
                   stack'[v][l] = stack'[u][k] => v = u /\ l = k
  <2>1. PICK k0 \in 1 .. Len(stack[u]) :
           /\ stack'[u][k] = stack[u][k0]
           /\ k0 = IF u = t THEN k + o ELSE k
           /\ u = t /\ k > 1 /\ k0 = 1 => phase[stack[u][k0].call] = "join"
    BY <1>3, <1>4
  <2>2. phase[stack'[u][k].call] \notin {"idle"} \cup Over
    BY <1>1, <1>4, <2>1 DEF FrameInv
  <2>3. ASSUME k > 1 PROVE phase[stack'[u][k].call] \in {"pull", "run", "join"}
    <3>1. CASE k0 > 1
      BY <1>1, <1>4, <2>1, <3>1 DEF FrameInv
    <3>2. CASE k0 = 1
      BY <2>1, <2>3, <3>2
    <3>3. QED
      BY <3>1, <3>2
  <2>4. ASSUME NEW v \in Thread, NEW l \in 1 .. Len(stack'[v]), stack'[v][l] = stack'[u][k]
        PROVE  v = u /\ l = k
    <3>1. PICK l0 \in 1 .. Len(stack[v]) : stack'[v][l] = stack[v][l0] /\ l0 = IF v = t THEN l + o ELSE l
      BY <1>3, <1>4, <2>4
    <3>2. v = u /\ l0 = k0
      <4>1. stack[v][l0] = stack[u][k0] /\ stack[u][k0].kind = "call"
        BY <1>4, <2>1, <2>4, <3>1
      <4>2. QED
        BY <1>1, <4>1 DEF FrameInv
    <3>3. l = k
      BY <2>1, <3>1, <3>2
    <3>4. QED
      BY <3>2, <3>3
  <2>5. QED
    BY <2>2, <2>3, <2>4
<1>5. QED
  BY <1>4 DEF FrameInv

(* The calls to be made by a program have not been made. *)
LEMMA CallsRoots ==
  ASSUME IInv, NEW t \in Thread, NEW d \in Call, Calls(t, d)
  PROVE  RootsInv'
<1>1. TypeOK /\ RootsInv
  BY DEF IInv
<1>2. \A c \in Call : c # d => phase'[c] = phase[c]
  BY <1>1 DEF TypeOK, Calls
<1>3. \A u \in Thread : roots[u] \in Seq(Call) /\ \A i \in 1 .. Len(roots[u]) : roots[u][i] \in Call
  BY <1>1, ElementOfSeq DEF TypeOK
<1>4. CASE UNCHANGED roots /\ d \in Nested
  <2>1. \A u \in Thread : \A i \in 1 .. Len(roots[u]) : roots[u][i] # d
    BY <1>1, <1>4 DEF RootsInv
  <2>2. QED
    BY <1>1, <1>2, <1>3, <1>4, <2>1 DEF RootsInv
<1>5. CASE roots[t] # <<>> /\ d = Head(roots[t]) /\ roots' = [roots EXCEPT ![t] = Tail(@)]
  <2>1. /\ Len(roots[t]) \in Nat \ {0} /\ Head(roots[t]) = roots[t][1]
        /\ Len(Tail(roots[t])) = Len(roots[t]) - 1
        /\ \A i \in 1 .. Len(roots[t]) - 1 : Tail(roots[t])[i] = roots[t][i + 1]
    BY <1>3, <1>5, HeadTailProperties, EmptySeq
  <2>2. roots'[t] = Tail(roots[t]) /\ \A u \in Thread : u # t => roots'[u] = roots[u]
    BY <1>1, <1>5 DEF TypeOK
  <2>3. ASSUME NEW u \in Thread, NEW i \in 1 .. Len(roots'[u])
        PROVE  \E i0 \in 1 .. Len(roots[u]) :
                  /\ roots'[u][i] = roots[u][i0] /\ i0 = IF u = t THEN i + 1 ELSE i
                  /\ roots'[u][i] # d
    <3>1. CASE u = t
      <4>1. /\ i + 1 \in 1 .. Len(roots[t]) /\ i \in 1 .. Len(roots[t]) - 1 /\ i + 1 # 1
            /\ 1 \in 1 .. Len(roots[t])
        <5>1. i \in 1 .. Len(roots[t]) - 1
          BY <2>1, <2>2, <3>1
        <5>2. \A n \in Nat \ {0} : \A j \in 1 .. n - 1 : j + 1 \in 1 .. n /\ j + 1 # 1 /\ 1 \in 1 .. n
          OBVIOUS
        <5>3. QED
          BY <2>1, <5>1, <5>2
      <4>2. roots'[u][i] = roots[u][i + 1]
        BY <2>1, <2>2, <3>1, <4>1
      <4>3. roots[t][i + 1] # roots[t][1]
        BY <1>1, <4>1 DEF RootsInv
      <4>4. QED
        BY <1>5, <2>1, <3>1, <4>1, <4>2, <4>3
    <3>2. CASE u # t
      <4>1. roots'[u] = roots[u] /\ 1 \in 1 .. Len(roots[t])
        BY <2>1, <2>2, <3>2
      <4>2. roots[u][i] # roots[t][1]
        BY <1>1, <3>2, <4>1 DEF RootsInv
      <4>3. QED
        BY <1>5, <2>1, <3>2, <4>1, <4>2
    <3>3. QED
      BY <3>1, <3>2
  <2>4. ASSUME NEW u \in Thread, NEW i \in 1 .. Len(roots'[u])
        PROVE  /\ roots'[u][i] \notin Nested /\ phase'[roots'[u][i]] = "idle"
               /\ \A v \in Thread : \A j \in 1 .. Len(roots'[v]) :
                     roots'[u][i] = roots'[v][j] => u = v /\ i = j
    <3>1. PICK i0 \in 1 .. Len(roots[u]) :
             /\ roots'[u][i] = roots[u][i0] /\ i0 = IF u = t THEN i + 1 ELSE i
             /\ roots'[u][i] # d
      BY <2>3
    <3>2. roots[u][i0] \notin Nested /\ phase[roots[u][i0]] = "idle" /\ roots[u][i0] \in Call
      BY <1>1, <1>3 DEF RootsInv
    <3>3. phase'[roots'[u][i]] = "idle"
      BY <1>2, <3>1, <3>2
    <3>4. ASSUME NEW v \in Thread, NEW j \in 1 .. Len(roots'[v]), roots'[u][i] = roots'[v][j]
          PROVE  u = v /\ i = j
      <4>1. PICK j0 \in 1 .. Len(roots[v]) : roots'[v][j] = roots[v][j0] /\ j0 = IF v = t THEN j + 1 ELSE j
        BY <2>3
      <4>2. u = v /\ i0 = j0
        <5>1. roots[u][i0] = roots[v][j0]
          BY <3>1, <3>4, <4>1
        <5>2. QED
          BY <1>1, <5>1 DEF RootsInv
      <4>3. i = j
        BY <3>1, <4>1, <4>2
      <4>4. QED
        BY <4>2, <4>3
    <3>5. QED
      BY <3>1, <3>2, <3>3, <3>4
  <2>5. QED
    BY <2>4 DEF RootsInv
<1>6. QED
  BY <1>4, <1>5 DEF Calls

LEMMA OthersRoots ==
  ASSUME IInv, NEW t \in Thread,
         \/ \E c \in Call : Stays(t, c) \/ Leaves(t, c)
         \/ UNCHANGED <<phase, roots>>
  PROVE  RootsInv'
<1>1. TypeOK /\ RootsInv /\ FrameInv
  BY DEF IInv
<1>2. \A u \in Thread : \A i \in 1 .. Len(roots[u]) : roots[u][i] \in Call
  BY <1>1, ElementOfSeq DEF TypeOK
<1>3. UNCHANGED roots
  BY DEF Stays, Leaves
<1>4. \A d \in Call : phase[d] = "idle" => phase'[d] = "idle"
  <2>1. ASSUME NEW c \in Call, Stays(t, c) \/ Leaves(t, c)
        PROVE  \A d \in Call : phase[d] = "idle" => phase'[d] = "idle"
    <3>1. phase[c] # "idle"
      BY <1>1, <2>1, HeadCall DEF Stays, Leaves
    <3>2. \A d \in Call : d # c => phase'[d] = phase[d]
      BY <1>1, <2>1 DEF TypeOK, Stays, Leaves
    <3>3. QED
      BY <3>1, <3>2
  <2>2. QED
    BY <2>1
<1>5. QED
  BY <1>1, <1>2, <1>3, <1>4 DEF RootsInv

-----------------------------------------------------------------------------
(* What the registry says of a thread.                                      *)

\* The calls with a frame on t's stack.
CallsOn(t) == {c \in Call : CallFrame(c) \in Frames(t)}

(* Pushing, popping and worker moves in terms of calls. *)
LEMMA CallsOnPush ==
  ASSUME TypeOK, TypeOK', NEW t \in Thread, NEW d \in Call, Pushed(t, CallFrame(d)), ElsewhereSame(t)
  PROVE  /\ CallsOn(t)' = CallsOn(t) \cup {d}
         /\ \A u \in Thread : u # t => CallsOn(u)' = CallsOn(u)
<1>1. Len(stack[t]) \in Nat /\ Len(stack'[t]) = Len(stack[t]) + 1
  BY DEF TypeOK, Pushed
<1>2. stack'[t][1] = CallFrame(d) /\ \A k \in 1 .. Len(stack[t]) : stack'[t][k + 1] = stack[t][k]
  BY DEF Pushed
<1>3. \A c \in Call : CallFrame(c) = CallFrame(d) => c = d
  BY CallFrameType
<1>4. ASSUME NEW c \in Call, CallFrame(c) \in Frames(t) \/ c = d
      PROVE  CallFrame(c) \in Frames(t)'
  <2>1. CASE c = d
    <3>1. 1 \in 1 .. Len(stack'[t])
      BY <1>1
    <3>2. QED
      BY <1>2, <2>1, <3>1 DEF Frames
  <2>2. CASE CallFrame(c) \in Frames(t)
    <3>1. PICK k \in 1 .. Len(stack[t]) : CallFrame(c) = stack[t][k]
      BY <2>2 DEF Frames
    <3>2. k + 1 \in 1 .. Len(stack'[t])
      BY <1>1
    <3>3. QED
      BY <1>2, <3>1, <3>2 DEF Frames
  <2>3. QED
    BY <1>4, <2>1, <2>2
<1>5. ASSUME NEW c \in Call, CallFrame(c) \in Frames(t)'
      PROVE  CallFrame(c) \in Frames(t) \/ c = d
  <2>1. PICK k \in 1 .. Len(stack'[t]) : CallFrame(c) = stack'[t][k]
    BY <1>5 DEF Frames
  <2>2. CASE k = 1
    BY <1>2, <1>3, <2>1, <2>2
  <2>3. CASE k # 1
    <3>1. k - 1 \in 1 .. Len(stack[t]) /\ (k - 1) + 1 = k
      BY <1>1, <2>3
    <3>2. CallFrame(c) = stack[t][k - 1]
      BY <1>2, <2>1, <3>1
    <3>3. QED
      BY <3>1, <3>2 DEF Frames
  <2>4. QED
    BY <2>2, <2>3
<1>6. \A u \in Thread : u # t => CallsOn(u)' = CallsOn(u)
  BY DEF CallsOn, Frames, ElsewhereSame
<1>7. QED
  BY <1>4, <1>5, <1>6 DEF CallsOn

LEMMA CallsOnPop ==
  ASSUME TypeOK, TypeOK', FrameInv, NEW t \in Thread, NEW c \in Call,
         1 \in 1 .. Len(stack[t]), stack[t][1] = CallFrame(c), Popped(t), ElsewhereSame(t)
  PROVE  /\ CallsOn(t)' = CallsOn(t) \ {c}
         /\ \A u \in Thread : u # t => CallsOn(u)' = CallsOn(u) /\ c \notin CallsOn(u)
<1>1. Len(stack'[t]) \in Nat /\ Len(stack[t]) = Len(stack'[t]) + 1
  BY DEF TypeOK, Popped
<1>2. \A k \in 1 .. Len(stack'[t]) : stack'[t][k] = stack[t][k + 1]
  BY DEF Popped
<1>3. \A u \in Thread : \A l \in 1 .. Len(stack[u]) : stack[u][l] = CallFrame(c) => u = t /\ l = 1
  BY HeadCall, CallFrameType
<1>4. ASSUME NEW d \in Call, CallFrame(d) \in Frames(t), d # c
      PROVE  CallFrame(d) \in Frames(t)'
  <2>1. PICK k \in 1 .. Len(stack[t]) : CallFrame(d) = stack[t][k]
    BY <1>4 DEF Frames
  <2>2. k # 1
    BY <1>4, <2>1, CallFrameType
  <2>3. k - 1 \in 1 .. Len(stack'[t]) /\ (k - 1) + 1 = k
    BY <1>1, <2>2
  <2>4. stack'[t][k - 1] = CallFrame(d)
    BY <1>2, <2>1, <2>3
  <2>5. QED
    BY <2>3, <2>4 DEF Frames
<1>5. ASSUME NEW d \in Call, CallFrame(d) \in Frames(t)'
      PROVE  CallFrame(d) \in Frames(t) /\ d # c
  <2>1. PICK k \in 1 .. Len(stack'[t]) : CallFrame(d) = stack'[t][k]
    BY <1>5 DEF Frames
  <2>2. k + 1 \in 1 .. Len(stack[t]) /\ k + 1 # 1
    BY <1>1
  <2>3. CallFrame(d) = stack[t][k + 1]
    BY <1>2, <2>1
  <2>4. QED
    BY <1>3, <2>2, <2>3 DEF Frames
<1>6. \A u \in Thread : u # t => CallsOn(u)' = CallsOn(u) /\ c \notin CallsOn(u)
  BY <1>3 DEF CallsOn, Frames, ElsewhereSame
<1>7. QED
  BY <1>4, <1>5, <1>6 DEF CallsOn

LEMMA CallsOnShift ==
  ASSUME TypeOK, TypeOK', NEW t \in Thread, JobMoves(t), ElsewhereSame(t)
  PROVE  \A u \in Thread : CallsOn(u)' = CallsOn(u)
<1>1. PICK o \in {-1, 0, 1} : Shifted(t, o)
  BY JobMovesShift
<1>2. ASSUME NEW c \in Call PROVE CallFrame(c) \in Frames(t) <=> CallFrame(c) \in Frames(t)'
  <2>1. CallFrame(c).kind = "call"
    BY CallFrameType
  <2>2. ASSUME CallFrame(c) \in Frames(t) PROVE CallFrame(c) \in Frames(t)'
    <3>1. PICK k \in 1 .. Len(stack[t]) : CallFrame(c) = stack[t][k]
      BY <2>2 DEF Frames
    <3>2. k - o \in 1 .. Len(stack'[t]) /\ stack'[t][k - o] = stack[t][k]
      BY <1>1, <2>1, <3>1 DEF Shifted
    <3>3. QED
      BY <3>1, <3>2 DEF Frames
  <2>3. ASSUME CallFrame(c) \in Frames(t)' PROVE CallFrame(c) \in Frames(t)
    <3>1. PICK k \in 1 .. Len(stack'[t]) : CallFrame(c) = stack'[t][k]
      BY <2>3 DEF Frames
    <3>2. k + o \in 1 .. Len(stack[t]) /\ stack'[t][k] = stack[t][k + o]
      BY <1>1, <2>1, <3>1 DEF Shifted
    <3>3. QED
      BY <3>1, <3>2 DEF Frames
  <2>4. QED
    BY <2>2, <2>3
<1>3. CallsOn(t)' = CallsOn(t)
  BY <1>2 DEF CallsOn
<1>4. \A u \in Thread : u # t => CallsOn(u)' = CallsOn(u)
  BY DEF CallsOn, Frames, ElsewhereSame
<1>5. QED
  BY <1>3, <1>4

(* The innermost call is on its thread's stack and on no other. *)
LEMMA HeadCallOn ==
  ASSUME TypeOK, FrameInv, NEW t \in Thread, NEW c \in Call,
         1 \in 1 .. Len(stack[t]), stack[t][1] = CallFrame(c)
  PROVE  /\ c \in CallsOn(t)
         /\ \A u \in Thread : u # t => c \notin CallsOn(u)
<1>1. \A u \in Thread : \A l \in 1 .. Len(stack[u]) : stack[u][l] = CallFrame(c) => u = t /\ l = 1
  BY HeadCall, CallFrameType
<1>2. QED
  BY <1>1 DEF CallsOn, Frames

\* The registrations act are those of the owners own.
Registry(act, own) ==
    /\ Elements(act) = {Plan[c].pool : c \in own}
    /\ Distinct(act)
    /\ \A c, d \in own : Plan[c].pool = Plan[d].pool => c = d

LEMMA RegistryOf ==
  /\ RegistryInv <=> \A t \in Thread : Registry(active[t], Owners(t))
  /\ RegistryInv' <=> \A t \in Thread : Registry(active'[t], Owners(t)')
  /\ \A t \in Thread : Owners(t) = {c \in CallsOn(t) : guard[c]}
  /\ \A t \in Thread : Owners(t)' = {c \in CallsOn(t)' : guard'[c]}
  /\ \A t \in Thread : CallsOn(t) \subseteq Call /\ CallsOn(t)' \subseteq Call
BY DEF RegistryInv, Registry, Registered, Elements, Distinct, Owners, CallsOn

(* Registering one pool more. *)
LEMMA AppendElements ==
  ASSUME NEW S, NEW s \in Seq(S), NEW p \in S, p \notin Elements(s)
  PROVE  /\ Elements(Append(s, p)) = Elements(s) \cup {p}
         /\ Distinct(s) => Distinct(Append(s, p))
<1> DEFINE r == Append(s, p)
           n == Len(s)
<1>1. n \in Nat /\ Len(r) = n + 1 /\ r[n + 1] = p /\ \A k \in 1 .. n : r[k] = s[k]
  BY AppendProperties
<1>2. \A k \in 1 .. n + 1 : k \in 1 .. n \/ k = n + 1
  BY <1>1
<1>3. n + 1 \in 1 .. n + 1 /\ 1 .. n \subseteq 1 .. n + 1
  BY <1>1
<1> HIDE DEF r, n
<1>4. \A k \in 1 .. n : s[k] # p
  BY DEF Elements, n
<1>5. Elements(r) = Elements(s) \cup {p}
  <2>1. \A x : (\E k \in 1 .. n + 1 : x = r[k]) <=> (x = p \/ \E k \in 1 .. n : x = s[k])
    BY <1>1, <1>2, <1>3
  <2>2. QED
    BY <1>1, <2>1 DEF Elements, n
<1>6. ASSUME Distinct(s) PROVE Distinct(r)
  <2> SUFFICES ASSUME NEW k \in 1 .. n + 1, NEW l \in 1 .. n + 1, r[k] = r[l] PROVE k = l
    BY <1>1 DEF Distinct
  <2>1. CASE k = n + 1
    BY <1>1, <1>2, <1>4, <2>1
  <2>2. CASE l = n + 1
    BY <1>1, <1>2, <1>4, <2>2
  <2>3. CASE k \in 1 .. n /\ l \in 1 .. n
    BY <1>1, <1>6, <2>3 DEF Distinct, n
  <2>4. QED
    BY <1>2, <2>1, <2>2, <2>3
<1>7. QED
  BY <1>5, <1>6 DEF r

(* A thread's owners change with its calls and their guards. *)
LEMMA OwnersSame ==
  ASSUME NEW t \in Thread, CallsOn(t)' = CallsOn(t), \A d \in CallsOn(t) : guard'[d] = guard[d]
  PROVE  Owners(t)' = Owners(t)
<1>1. \A d : d \in Owners(t) <=> d \in CallsOn(t) /\ guard[d]
  BY RegistryOf
<1>2. \A d : d \in Owners(t)' <=> d \in CallsOn(t)' /\ guard'[d]
  BY RegistryOf
<1>3. \A d : d \in Owners(t)' <=> d \in Owners(t)
  BY <1>1, <1>2
<1>4. QED
  BY <1>3

(* If neither the registrations nor their owners change, all is as before. *)
LEMMA RegistrySame ==
  ASSUME RegistryInv, UNCHANGED active, \A t \in Thread : Owners(t)' = Owners(t)
  PROVE  RegistryInv'
BY RegistryOf

(* A call does not own a guard before its decision. *)
LEMMA CallsRegistry ==
  ASSUME IInv, TypeOK', NEW t \in Thread, NEW d \in Call, Calls(t, d)
  PROVE  RegistryInv'
<1>1. TypeOK /\ RegistryInv /\ CallInv
  BY DEF IInv
<1>2. UNCHANGED <<active, guard>> /\ ~guard[d]
  BY <1>1 DEF Calls, CallInv
<1>3. Pushed(t, CallFrame(d)) /\ ElsewhereSame(t)
  BY <1>1, CallFrameType, PushStep DEF Calls
<1>4. \A u \in Thread : CallsOn(u)' = CallsOn(u) \/ CallsOn(u)' = CallsOn(u) \cup {d}
  BY <1>1, <1>3, CallsOnPush
<1>5. \A u \in Thread : Owners(u)' = Owners(u)
  <2> SUFFICES ASSUME NEW u \in Thread PROVE Owners(u)' = Owners(u)
    OBVIOUS
  <2>1. \A e : e \in Owners(u) <=> e \in CallsOn(u) /\ guard[e]
    BY RegistryOf
  <2>2. \A e : e \in Owners(u)' <=> e \in CallsOn(u)' /\ guard[e]
    BY <1>2, RegistryOf
  <2>3. \A e : e \in Owners(u)' <=> e \in Owners(u)
    BY <1>2, <1>4, <2>1, <2>2
  <2>4. QED
    BY <2>3
<1>6. QED
  BY <1>1, <1>2, <1>5, RegistrySame

(* A guard is entered only if its pool is not registered yet. *)
LEMMA DecideRegistry ==
  ASSUME IInv, NEW t \in Thread, NEW c \in Call, CallWithCount(t, c) \/ ExecuteWithCount(t, c)
  PROVE  RegistryInv'
<1> USE PlanAssumption
<1>1. TypeOK /\ RegistryInv /\ FrameInv
  BY DEF IInv
<1>2. /\ ~guard[c]
      /\ UNCHANGED stack
  BY Decision
<1>3. PICK keeps \in BOOLEAN :
         /\ guard' = [guard EXCEPT ![c] = keeps]
         /\ active' = IF keeps THEN [active EXCEPT ![t] = Append(@, Plan[c].pool)] ELSE active
         /\ keeps => Registers(t, Plan[c].pool)
  BY Decision
<1>4. \A u \in Thread : CallsOn(u)' = CallsOn(u)
  BY <1>2 DEF CallsOn, Frames
<1>5. c \in CallsOn(t) /\ \A u \in Thread : u # t => c \notin CallsOn(u)
  <2>1. 1 \in 1 .. Len(stack[t]) /\ stack[t][1] = CallFrame(c)
    BY CallerStays DEF Stays
  <2>2. QED
    BY <1>1, <2>1, HeadCallOn
<1>6. \A d \in Call : guard'[d] = IF d = c THEN keeps ELSE guard[d]
  BY <1>1, <1>3 DEF TypeOK
<1>7. CASE ~keeps
  <2>1. ASSUME NEW u \in Thread PROVE Owners(u)' = Owners(u)
    <3>1. \A d \in Call : guard'[d] <=> guard[d]
      BY <1>2, <1>6, <1>7
    <3>2. \A d : d \in Owners(u)' <=> d \in CallsOn(u) /\ guard'[d]
      BY <1>4, RegistryOf
    <3>3. \A d : d \in Owners(u) <=> d \in CallsOn(u) /\ guard[d]
      BY RegistryOf
    <3>4. \A d : d \in CallsOn(u) => d \in Call
      BY RegistryOf
    <3>5. \A d : d \in Owners(u)' <=> d \in Owners(u)
      BY <3>1, <3>2, <3>3, <3>4
    <3>6. QED
      BY <3>5
  <2>2. QED
    BY <1>1, <1>3, <1>7, <2>1, RegistrySame
<1>8. CASE keeps
  <2>1. Owners(t)' = Owners(t) \cup {c} /\ c \notin Owners(t)
    <3>1. \A d : d \in Owners(t)' <=> d \in CallsOn(t) /\ guard'[d]
      BY <1>4, RegistryOf
    <3>2. \A d : d \in Owners(t) <=> d \in CallsOn(t) /\ guard[d]
      BY RegistryOf
    <3>3. \A d : d \in CallsOn(t) => d \in Call
      BY RegistryOf
    <3>4. \A d : d \in Owners(t)' <=> d \in Owners(t) \/ d = c
      BY <1>5, <1>6, <1>8, <3>1, <3>2, <3>3
    <3>5. QED
      BY <1>2, <3>2, <3>4
  <2>2. ASSUME NEW u \in Thread, u # t PROVE Owners(u)' = Owners(u)
    <3>1. \A d \in CallsOn(u) : d # c /\ d \in Call
      BY <1>5, <2>2, RegistryOf
    <3>2. \A d \in CallsOn(u) : guard'[d] = guard[d]
      BY <1>6, <3>1
    <3>3. QED
      BY <1>4, <3>2, OwnersSame
  <2>3. active[t] \in Seq(Pool) /\ Plan[c].pool \in Pool
    BY <1>1 DEF TypeOK
  <2>4. active'[t] = Append(active[t], Plan[c].pool) /\ \A u \in Thread : u # t => active'[u] = active[u]
    BY <1>1, <1>3, <1>8 DEF TypeOK
  <2>5. Plan[c].pool \notin Elements(active[t])
    BY <1>3, <1>8 DEF Registers, Elements
  <2>6. Registry(active[t], Owners(t))
    BY <1>1, RegistryOf
  <2>7. /\ Elements(active'[t]) = Elements(active[t]) \cup {Plan[c].pool}
        /\ Distinct(active'[t])
    BY <2>3, <2>4, <2>5, <2>6, AppendElements DEF Registry
  <2>8. Registry(active'[t], Owners(t)')
    <3>1. Elements(active[t]) = {Plan[d].pool : d \in Owners(t)}
      BY <2>6 DEF Registry
    <3>2. \A d \in Owners(t) : Plan[d].pool # Plan[c].pool
      BY <2>5, <3>1
    <3>3. Elements(active'[t]) = {Plan[d].pool : d \in Owners(t)'}
      BY <2>1, <2>7, <3>1
    <3>4. \A d, e \in Owners(t)' : Plan[d].pool = Plan[e].pool => d = e
      BY <2>1, <2>6, <3>2 DEF Registry
    <3>5. QED
      BY <2>7, <3>3, <3>4 DEF Registry
  <2>9. ASSUME NEW u \in Thread PROVE Registry(active'[u], Owners(u)')
    <3>1. Registry(active[u], Owners(u))
      BY <1>1, RegistryOf
    <3>2. u # t => active'[u] = active[u] /\ Owners(u)' = Owners(u)
      BY <2>2, <2>4
    <3>3. QED
      BY <2>8, <3>1, <3>2
  <2>10. QED
    BY <2>9, RegistryOf
<1>9. QED
  BY <1>7, <1>8

(* Dropping a guard takes out the registration of its own call. *)
LEMMA LeavesRegistry ==
  ASSUME IInv, TypeOK', NEW t \in Thread, NEW c \in Call, Leaves(t, c)
  PROVE  RegistryInv'
<1>1. TypeOK /\ RegistryInv /\ FrameInv
  BY DEF IInv
<1>2. Popped(t) /\ ElsewhereSame(t)
  BY <1>1, PopStep DEF Leaves
<1>3. /\ CallsOn(t)' = CallsOn(t) \ {c}
      /\ \A u \in Thread : u # t => CallsOn(u)' = CallsOn(u) /\ c \notin CallsOn(u)
  BY <1>1, <1>2, CallsOnPop DEF Leaves
<1>4. c \in CallsOn(t)
  BY <1>1, HeadCallOn DEF Leaves
<1>5. \A d \in Call : guard'[d] = IF d = c THEN FALSE ELSE guard[d]
  BY <1>1 DEF TypeOK, Leaves
<1>6. Owners(t)' = Owners(t) \ {c}
  <2>1. \A d : d \in Owners(t)' <=> d \in CallsOn(t) \ {c} /\ guard'[d]
    BY <1>3, RegistryOf
  <2>2. \A d : d \in Owners(t) <=> d \in CallsOn(t) /\ guard[d]
    BY RegistryOf
  <2>3. \A d : d \in CallsOn(t) => d \in Call
    BY RegistryOf
  <2>4. \A d : d \in Owners(t)' <=> d \in Owners(t) \ {c}
    BY <1>5, <2>1, <2>2, <2>3
  <2>5. QED
    BY <2>4
<1>7. ASSUME NEW u \in Thread, u # t PROVE Owners(u)' = Owners(u)
  <2>1. \A d \in CallsOn(u) : d # c /\ d \in Call
    BY <1>3, <1>7, RegistryOf
  <2>2. \A d \in CallsOn(u) : guard'[d] = guard[d]
    BY <1>5, <2>1
  <2>3. QED
    BY <1>3, <1>7, <2>2, OwnersSame
<1>8. CASE ~guard[c]
  <2>1. active' = active /\ c \notin Owners(t)
    BY <1>8, RegistryOf DEF Leaves
  <2>2. QED
    BY <1>1, <1>6, <1>7, <2>1, RegistrySame
<1>9. CASE guard[c]
  <2>1. c \in Owners(t)
    BY <1>4, <1>9, RegistryOf
  <2>2. active[t] \in Seq(Pool)
    BY <1>1 DEF TypeOK
  <2>3. /\ active'[t] = WithoutLast(active[t], Plan[c].pool)
        /\ \A u \in Thread : u # t => active'[u] = active[u]
    BY <1>1, <1>9 DEF TypeOK, Leaves
  <2>4. Registry(active[t], Owners(t))
    BY <1>1, RegistryOf
  <2>5. Distinct(active'[t]) /\ Elements(active'[t]) = Elements(active[t]) \ {Plan[c].pool}
    BY <2>2, <2>3, <2>4, WithoutLastRemoves DEF Registry
  <2>6. Registry(active'[t], Owners(t)')
    <3>1. \A d \in Owners(t) : Plan[d].pool = Plan[c].pool => d = c
      BY <2>1, <2>4 DEF Registry
    <3>2. Elements(active'[t]) = {Plan[d].pool : d \in Owners(t)'}
      BY <1>6, <2>4, <2>5, <3>1 DEF Registry
    <3>3. QED
      BY <1>6, <2>4, <2>5, <3>2 DEF Registry
  <2>7. ASSUME NEW u \in Thread PROVE Registry(active'[u], Owners(u)')
    <3>1. Registry(active[u], Owners(u))
      BY <1>1, RegistryOf
    <3>2. u # t => active'[u] = active[u] /\ Owners(u)' = Owners(u)
      BY <1>7, <2>3
    <3>3. QED
      BY <2>6, <3>1, <3>2
  <2>8. QED
    BY <2>7, RegistryOf
<1>10. QED
  BY <1>8, <1>9

(* No other step has to do with registrations. *)
LEMMA OthersRegistry ==
  ASSUME IInv, UNCHANGED <<active, guard>>, \A t \in Thread : CallsOn(t)' = CallsOn(t)
  PROVE  RegistryInv'
<1>1. \A t \in Thread : Owners(t)' = Owners(t)
  BY RegistryOf
<1>2. QED
  BY <1>1, RegistrySame DEF IInv

-----------------------------------------------------------------------------
(* Waiting for other pools only.                                            *)

\* The calls on t's stack that were decided to be parallel.
Parallel(t) == {c \in CallsOn(t) : mode[c] = "parallel"}

LEMMA ParallelOf ==
  /\ NoSelfWait <=> \A t \in Thread : \A c \in Parallel(t) :
        /\ Home[t] # Plan[c].pool
        /\ \A d \in Parallel(t) : d # c => Plan[d].pool # Plan[c].pool
  /\ NoSelfWait' <=> \A t \in Thread : \A c \in Parallel(t)' :
        /\ Home[t] # Plan[c].pool
        /\ \A d \in Parallel(t)' : d # c => Plan[d].pool # Plan[c].pool
BY DEF NoSelfWait, Parallel, CallsOn

(* It takes one more parallel call on a stack to break this. *)
LEMMA SelfWaitSame ==
  ASSUME NoSelfWait, \A t \in Thread : Parallel(t)' \subseteq Parallel(t)
  PROVE  NoSelfWait'
BY ParallelOf

(* A call that is being made has no strategy yet. *)
LEMMA CallsSelfWait ==
  ASSUME IInv, TypeOK', NEW t \in Thread, NEW d \in Call, Calls(t, d)
  PROVE  NoSelfWait'
<1>1. TypeOK /\ NoSelfWait /\ CallInv
  BY DEF IInv
<1>2. UNCHANGED mode /\ mode[d] # "parallel"
  BY <1>1 DEF Calls, CallInv, Over
<1>3. Pushed(t, CallFrame(d)) /\ ElsewhereSame(t)
  BY <1>1, CallFrameType, PushStep DEF Calls
<1>4. \A u \in Thread : CallsOn(u)' = CallsOn(u) \/ CallsOn(u)' = CallsOn(u) \cup {d}
  BY <1>1, <1>3, CallsOnPush
<1>5. ASSUME NEW u \in Thread, NEW e \in Parallel(u)' PROVE e \in Parallel(u)
  <2>1. e \in CallsOn(u)' /\ mode[e] = "parallel"
    BY <1>2, <1>5 DEF Parallel
  <2>2. e \in CallsOn(u)
    BY <1>2, <1>4, <2>1
  <2>3. QED
    BY <2>1, <2>2 DEF Parallel
<1>6. QED
  BY <1>1, <1>5, SelfWaitSame

(* Outer parallel calls of a stack own their guards. *)
LEMMA OuterParallel ==
  ASSUME IInv, NEW t \in Thread, NEW c \in Call,
         1 \in 1 .. Len(stack[t]), stack[t][1] = CallFrame(c),
         NEW d \in Parallel(t), d # c
  PROVE  d \in Owners(t)
<1>1. PICK k \in 1 .. Len(stack[t]) : stack[t][k] = CallFrame(d)
  BY DEF Parallel, CallsOn, Frames
<1>2. d \in Call /\ stack[t][k].kind = "call" /\ stack[t][k].call = d
  BY <1>1, CallFrameType DEF Parallel, CallsOn
<1>3. k > 1
  <2>1. k # 1
    BY <1>1, <1>2, CallFrameType
  <2>2. QED
    BY <2>1
<1>4. phase[d] \in {"pull", "run", "join"}
  BY <1>2, <1>3 DEF IInv, FrameInv
<1>5. guard[d]
  BY <1>2, <1>4 DEF IInv, CallInv, Parallel, Over
<1>6. QED
  BY <1>1, <1>2, <1>5 DEF Owners, Frames

(* A call is decided to be parallel only if neither the thread nor an outer *)
(* parallel call of it is of the call's pool.                               *)
LEMMA DecideSelfWait ==
  ASSUME IInv, NEW t \in Thread, NEW c \in Call, CallWithCount(t, c) \/ ExecuteWithCount(t, c)
  PROVE  NoSelfWait'
<1>1. TypeOK /\ FrameInv /\ NoSelfWait /\ RegistryInv
  BY DEF IInv
<1>2. PICK sequential \in BOOLEAN :
         /\ mode' = [mode EXCEPT ![c] = IF sequential THEN "sequential" ELSE "parallel"]
         /\ ~sequential => Registers(t, Plan[c].pool) /\ Home[t] # Plan[c].pool
  BY Decision
<1>3. \A d \in Call : mode'[d] = IF d = c THEN (IF sequential THEN "sequential" ELSE "parallel")
                                 ELSE mode[d]
  BY <1>1, <1>2 DEF TypeOK
<1>4. \A u \in Thread : CallsOn(u)' = CallsOn(u)
  BY CallerStays DEF Stays, CallsOn, Frames
<1>5. 1 \in 1 .. Len(stack[t]) /\ stack[t][1] = CallFrame(c)
  BY CallerStays DEF Stays
<1>6. c \in CallsOn(t) /\ \A u \in Thread : u # t => c \notin CallsOn(u)
  BY <1>1, <1>5, HeadCallOn
<1>7. ASSUME NEW u \in Thread, NEW d \in Parallel(u)'
      PROVE  d \in Parallel(u) \/ (u = t /\ d = c /\ ~sequential)
  <2>1. d \in CallsOn(u) /\ mode'[d] = "parallel" /\ d \in Call
    BY <1>4, <1>7 DEF Parallel, CallsOn
  <2>2. QED
    BY <1>3, <1>6, <2>1 DEF Parallel
<1>8. CASE sequential
  BY <1>1, <1>7, <1>8, SelfWaitSame
<1>9. CASE ~sequential
  <2>1. Registers(t, Plan[c].pool) /\ Home[t] # Plan[c].pool
    BY <1>2, <1>9
  <2>2. ASSUME NEW d \in Parallel(t), d # c PROVE Plan[d].pool # Plan[c].pool
    <3>1. d \in Owners(t)
      BY <1>5, <2>2, OuterParallel
    <3>2. Plan[d].pool \in Registered(t)
      BY <1>1, <3>1 DEF RegistryInv
    <3>3. QED
      BY <2>1, <3>2 DEF Registered, Registers
  <2>3. ASSUME NEW u \in Thread, NEW d \in Parallel(u)'
        PROVE  /\ Home[u] # Plan[d].pool
               /\ \A e \in Parallel(u)' : e # d => Plan[e].pool # Plan[d].pool
    <3>1. CASE d \in Parallel(u)
      <4>1. Home[u] # Plan[d].pool /\ \A e \in Parallel(u) : e # d => Plan[e].pool # Plan[d].pool
        BY <1>1, <3>1, ParallelOf
      <4>2. QED
        BY <1>7, <2>2, <3>1, <4>1
    <3>2. CASE u = t /\ d = c
      BY <1>7, <2>1, <2>2, <3>2
    <3>3. QED
      BY <1>7, <3>1, <3>2
  <2>4. QED
    BY <2>3, ParallelOf
<1>10. QED
  BY <1>8, <1>9

(* No other step decides. *)
LEMMA OthersSelfWait ==
  ASSUME IInv, UNCHANGED mode, \A t \in Thread : CallsOn(t)' \subseteq CallsOn(t)
  PROVE  NoSelfWait'
<1>1. \A t \in Thread : Parallel(t)' \subseteq Parallel(t)
  BY DEF Parallel
<1>2. QED
  BY <1>1, SelfWaitSame DEF IInv

-----------------------------------------------------------------------------
(* Losing parallelism.                                                      *)

\* An outer call of the k-th frame of stack s is on pool p.
Outer(s, k, p) ==
    \E j \in k + 1 .. Len(s) : s[j].kind = "call" /\ Plan[s[j].call].pool = p

Justified(t, s, k) ==
    LET c == s[k].call
        p == Plan[c].pool
    IN  \/ Plan[c].items <= Threshold[p]
        \/ Cardinality(Workers(p)) <= 1
        \/ Home[t] = p
        \/ Outer(s, k, p)

LEMMA LosesOf ==
  /\ LosesParallelismOnlyByReentry <=>
        \A t \in Thread : \A k \in 1 .. Len(stack[t]) :
            stack[t][k].kind = "call" /\ mode[stack[t][k].call] = "sequential" => Justified(t, stack[t], k)
  /\ LosesParallelismOnlyByReentry' <=>
        \A t \in Thread : \A k \in 1 .. Len(stack'[t]) :
            stack'[t][k].kind = "call" /\ mode'[stack'[t][k].call] = "sequential"
               => Justified(t, stack'[t], k)
BY DEF LosesParallelismOnlyByReentry, Justified, Outer

(* Frames that move together keep their outer calls. *)
LEMMA LosesSame ==
  ASSUME IInv, UNCHANGED mode, NEW t \in Thread, ElsewhereSame(t), NEW o \in {-1, 0, 1},
         Len(stack[t]) \in Nat, Len(stack'[t]) \in Nat,
         \A k \in 1 .. Len(stack'[t]) :
            stack'[t][k].kind = "call" /\ mode[stack'[t][k].call] = "sequential" =>
               k + o \in 1 .. Len(stack[t]) /\ stack'[t][k] = stack[t][k + o],
         \A k \in 2 .. Len(stack[t]) : stack[t][k].kind = "call" =>
               k - o \in 1 .. Len(stack'[t]) /\ stack'[t][k - o] = stack[t][k]
  PROVE  LosesParallelismOnlyByReentry'
<1>1. LosesParallelismOnlyByReentry
  BY DEF IInv
<1>2. ASSUME NEW k \in 1 .. Len(stack'[t]), stack'[t][k].kind = "call", mode[stack'[t][k].call] = "sequential"
      PROVE  Justified(t, stack'[t], k)
  <2>1. k + o \in 1 .. Len(stack[t]) /\ stack'[t][k] = stack[t][k + o]
    BY <1>2
  <2>2. Justified(t, stack[t], k + o)
    BY <1>1, <1>2, <2>1, LosesOf
  <2>3. ASSUME NEW p, Outer(stack[t], k + o, p) PROVE Outer(stack'[t], k, p)
    <3>1. PICK j \in (k + o) + 1 .. Len(stack[t]) : stack[t][j].kind = "call" /\ Plan[stack[t][j].call].pool = p
      BY <2>3 DEF Outer
    <3>2. j \in 2 .. Len(stack[t])
      BY <2>1
    <3>3. j - o \in 1 .. Len(stack'[t]) /\ stack'[t][j - o] = stack[t][j]
      BY <3>1, <3>2
    <3>4. j - o \in k + 1 .. Len(stack'[t])
      BY <3>1, <3>3
    <3>5. QED
      BY <3>1, <3>3, <3>4 DEF Outer
  <2>4. QED
    BY <2>1, <2>2, <2>3 DEF Justified
<1>3. ASSUME NEW u \in Thread, u # t, NEW k \in 1 .. Len(stack'[u]),
             stack'[u][k].kind = "call", mode'[stack'[u][k].call] = "sequential"
      PROVE  Justified(u, stack'[u], k)
  <2>1. stack'[u] = stack[u]
    BY <1>3 DEF ElsewhereSame
  <2>2. QED
    BY <1>1, <1>3, <2>1, LosesOf
<1>4. QED
  BY <1>2, <1>3, LosesOf

LEMMA CallsLoses ==
  ASSUME IInv, TypeOK', NEW t \in Thread, NEW d \in Call, Calls(t, d)
  PROVE  LosesParallelismOnlyByReentry'
<1>1. TypeOK /\ CallInv
  BY DEF IInv
<1>2. UNCHANGED mode /\ mode[d] # "sequential"
  BY <1>1 DEF Calls, CallInv, Over
<1>3. Pushed(t, CallFrame(d)) /\ ElsewhereSame(t)
  BY <1>1, CallFrameType, PushStep DEF Calls
<1>4. Len(stack[t]) \in Nat /\ Len(stack'[t]) = Len(stack[t]) + 1 /\ stack'[t][1] = CallFrame(d)
  BY <1>1, <1>3 DEF TypeOK, Pushed
<1>5. \A k \in 1 .. Len(stack[t]) : stack'[t][k + 1] = stack[t][k]
  BY <1>3 DEF Pushed
<1>6. ASSUME NEW k \in 1 .. Len(stack'[t]), stack'[t][k].kind = "call", mode[stack'[t][k].call] = "sequential"
      PROVE  k + (-1) \in 1 .. Len(stack[t]) /\ stack'[t][k] = stack[t][k + (-1)]
  <2>1. k # 1
    BY <1>2, <1>4, <1>6, CallFrameType
  <2>2. k + (-1) \in 1 .. Len(stack[t]) /\ (k + (-1)) + 1 = k
    BY <1>4, <2>1
  <2>3. QED
    BY <1>5, <2>2
<1>7. ASSUME NEW k \in 2 .. Len(stack[t])
      PROVE  k - (-1) \in 1 .. Len(stack'[t]) /\ stack'[t][k - (-1)] = stack[t][k]
  <2>1. k \in 1 .. Len(stack[t]) /\ k - (-1) = k + 1 /\ k + 1 \in 1 .. Len(stack'[t])
    BY <1>4
  <2>2. QED
    BY <1>5, <2>1
<1>8. -1 \in {-1, 0, 1} /\ Len(stack'[t]) \in Nat
  BY <1>4
<1>9. QED
  BY <1>2, <1>3, <1>4, <1>6, <1>7, <1>8, LosesSame

LEMMA LeavesLoses ==
  ASSUME IInv, TypeOK', NEW t \in Thread, NEW c \in Call, Leaves(t, c)
  PROVE  LosesParallelismOnlyByReentry'
<1>1. TypeOK
  BY DEF IInv
<1>2. Popped(t) /\ ElsewhereSame(t) /\ UNCHANGED mode
  BY <1>1, PopStep DEF Leaves
<1>3. Len(stack'[t]) \in Nat /\ Len(stack[t]) = Len(stack'[t]) + 1
  BY <1>2 DEF TypeOK, Popped
<1>4. \A k \in 1 .. Len(stack'[t]) : stack'[t][k] = stack[t][k + 1] /\ k + 1 \in 1 .. Len(stack[t])
  BY <1>2, <1>3 DEF Popped
<1>5. ASSUME NEW k \in 2 .. Len(stack[t])
      PROVE  k - 1 \in 1 .. Len(stack'[t]) /\ stack'[t][k - 1] = stack[t][k]
  <2>1. k - 1 \in 1 .. Len(stack'[t]) /\ (k - 1) + 1 = k
    BY <1>3
  <2>2. QED
    BY <1>4, <2>1
<1>6. QED
  BY <1>2, <1>3, <1>4, <1>5, LosesSame

LEMMA WorkersLoses ==
  ASSUME IInv, TypeOK', NEW t \in Thread, JobMoves(t), ElsewhereSame(t), UNCHANGED mode
  PROVE  LosesParallelismOnlyByReentry'
<1>1. TypeOK
  BY DEF IInv
<1>2. PICK o \in {-1, 0, 1} : Shifted(t, o)
  BY <1>1, JobMovesShift
<1>3. Len(stack[t]) \in Nat /\ Len(stack'[t]) \in Nat
  BY <1>1 DEF TypeOK
<1>4. \A k \in 2 .. Len(stack[t]) : k \in 1 .. Len(stack[t])
  OBVIOUS
<1>5. /\ \A k \in 1 .. Len(stack'[t]) : stack'[t][k].kind = "call" =>
            k + o \in 1 .. Len(stack[t]) /\ stack'[t][k] = stack[t][k + o]
      /\ \A k \in 2 .. Len(stack[t]) : stack[t][k].kind = "call" =>
            k - o \in 1 .. Len(stack'[t]) /\ stack'[t][k - o] = stack[t][k]
  BY <1>2, <1>4 DEF Shifted
<1>6. QED
  BY <1>3, <1>5, LosesSame

LEMMA OthersLoses ==
  ASSUME IInv, UNCHANGED <<mode, stack>>
  PROVE  LosesParallelismOnlyByReentry'
BY LosesOf DEF IInv

(* Reentry shows in the registry, and then an outer call has the pool. *)
LEMMA DecideLoses ==
  ASSUME IInv, NEW t \in Thread, NEW c \in Call, CallWithCount(t, c) \/ ExecuteWithCount(t, c)
  PROVE  LosesParallelismOnlyByReentry'
<1> DEFINE p == Plan[c].pool
<1>1. TypeOK /\ FrameInv /\ RegistryInv /\ LosesParallelismOnlyByReentry
  BY DEF IInv
<1>2. PICK sequential \in BOOLEAN :
         /\ sequential = RunsSequentially(t, c)
         /\ mode' = [mode EXCEPT ![c] = IF sequential THEN "sequential" ELSE "parallel"]
  BY Decision
<1>3. \A d \in Call : mode'[d] = IF d = c THEN (IF sequential THEN "sequential" ELSE "parallel")
                                 ELSE mode[d]
  BY <1>1, <1>2 DEF TypeOK
<1>4. stack' = stack /\ 1 \in 1 .. Len(stack[t]) /\ stack[t][1] = CallFrame(c)
  BY CallerStays DEF Stays
<1>5. \A u \in Thread : \A l \in 1 .. Len(stack[u]) :
         stack[u][l].kind = "call" /\ stack[u][l].call = c => u = t /\ l = 1
  BY <1>1, <1>4, HeadCall
<1>6. \A u \in Thread : \A l \in 1 .. Len(stack[u]) : stack[u][l].call \in Call
  BY <1>1, StackFrames, FrameCases
<1>7. ASSUME ~Registers(t, p) PROVE Outer(stack[t], 1, p)
  <2>1. p \in Registered(t)
    BY <1>7 DEF Registers, Registered
  <2>2. PICK d \in Owners(t) : Plan[d].pool = p
    BY <1>1, <2>1 DEF RegistryInv
  <2>3. d \in Call /\ guard[d] /\ d # c
    BY <2>2, Decision DEF Owners
  <2>4. PICK j \in 1 .. Len(stack[t]) : stack[t][j] = CallFrame(d)
    BY <2>2 DEF Owners, Frames
  <2>5. stack[t][j].kind = "call" /\ stack[t][j].call = d
    BY <2>3, <2>4, CallFrameType
  <2>6. j # 1
    BY <1>4, <2>3, <2>5, CallFrameType
  <2>7. j \in 1 + 1 .. Len(stack[t])
    BY <2>6
  <2>8. QED
    BY <2>2, <2>5, <2>7 DEF Outer
<1>8. ASSUME sequential PROVE Justified(t, stack[t], 1)
  <2>1. stack[t][1].call = c
    BY <1>4, CallFrameType
  <2>2. RunsSequentially(t, c)
    BY <1>2, <1>8
  <2>3. QED
    BY <1>7, <2>1, <2>2 DEF RunsSequentially, Reentrant, Justified
<1>9. ASSUME NEW u \in Thread, NEW k \in 1 .. Len(stack[u]),
             stack[u][k].kind = "call", mode'[stack[u][k].call] = "sequential"
      PROVE  Justified(u, stack[u], k)
  <2>1. CASE stack[u][k].call = c
    BY <1>3, <1>5, <1>8, <1>9, <2>1
  <2>2. CASE stack[u][k].call # c
    <3>1. mode[stack[u][k].call] = "sequential"
      BY <1>3, <1>6, <1>9, <2>2
    <3>2. QED
      BY <1>1, <1>9, <3>1, LosesOf
  <2>3. QED
    BY <2>1, <2>2
<1>10. QED
  BY <1>4, <1>9, LosesOf

-----------------------------------------------------------------------------
(* The jobs of a call.                                                      *)

(* Sets in one-to-one correspondence have the same number of elements. *)
LEMMA SameCardinality ==
  ASSUME NEW S, IsFiniteSet(S), NEW T, NEW f \in [S -> T],
         \A x, y \in S : f[x] = f[y] => x = y,
         \A y \in T : \E x \in S : f[x] = y
  PROVE  IsFiniteSet(T) /\ Cardinality(T) = Cardinality(S)
<1>1. f \in Bijection(S, T)
  BY DEF Bijection, Injection, IsInjective, Surjection
<1>2. ExistsBijection(S, T)
  BY <1>1 DEF ExistsBijection
<1>3. QED
  BY <1>2, FS_Bijection

(* Steps of a stack leave the frames below the innermost at their heights. *)
LEMMA PushHeights ==
  ASSUME NEW t \in Thread, NEW f, Len(stack[t]) \in Nat, Pushed(t, f)
  PROVE  /\ Len(stack'[t]) = Len(stack[t]) + 1 /\ At(t, Len(stack[t]))' = f
         /\ \A h \in 1 .. Len(stack[t]) : At(t, h)' = At(t, h)
<1> DEFINE n == Len(stack[t])
<1>1. Len(stack'[t]) = n + 1 /\ stack'[t][1] = f /\ \A k \in 1 .. n : stack'[t][k + 1] = stack[t][k]
  BY DEF Pushed
<1>2. \A h \in 1 .. n : n + 1 - h \in 1 .. n /\ (n + 1) + 1 - h = (n + 1 - h) + 1
  OBVIOUS
<1>3. (n + 1) + 1 - (n + 1) = 1
  OBVIOUS
<1> HIDE DEF n
<1>4. ASSUME NEW h \in 1 .. n PROVE stack'[t][(n + 1) + 1 - h] = stack[t][n + 1 - h]
  BY <1>1, <1>2
<1>5. stack'[t][(n + 1) + 1 - (n + 1)] = f
  BY <1>1, <1>3
<1>6. QED
  BY <1>1, <1>4, <1>5 DEF At, n

LEMMA PopHeights ==
  ASSUME NEW t \in Thread, Len(stack'[t]) \in Nat, Popped(t)
  PROVE  /\ Len(stack[t]) = Len(stack'[t]) + 1 /\ At(t, Len(stack[t])) = stack[t][1]
         /\ \A h \in 1 .. Len(stack'[t]) : At(t, h)' = At(t, h)
<1> DEFINE m == Len(stack'[t])
<1>1. Len(stack[t]) = m + 1 /\ \A k \in 1 .. m : stack'[t][k] = stack[t][k + 1]
  BY DEF Popped
<1>2. \A h \in 1 .. m : m + 1 - h \in 1 .. m /\ (m + 1) + 1 - h = (m + 1 - h) + 1
  OBVIOUS
<1>3. (m + 1) + 1 - (m + 1) = 1
  OBVIOUS
<1> HIDE DEF m
<1>4. ASSUME NEW h \in 1 .. m PROVE stack'[t][m + 1 - h] = stack[t][(m + 1) + 1 - h]
  BY <1>1, <1>2
<1>5. stack[t][(m + 1) + 1 - (m + 1)] = stack[t][1]
  BY <1>3
<1>6. QED
  BY <1>1, <1>4, <1>5 DEF At, m

LEMMA ReplaceHeights ==
  ASSUME NEW t \in Thread, NEW f, Len(stack[t]) \in Nat, Replaced(t, f)
  PROVE  /\ Len(stack'[t]) = Len(stack[t])
         /\ At(t, Len(stack[t])) = stack[t][1] /\ At(t, Len(stack[t]))' = f
         /\ \A h \in 1 .. Len(stack[t]) : h # Len(stack[t]) => At(t, h)' = At(t, h)
<1> DEFINE n == Len(stack[t])
<1>1. Len(stack'[t]) = n /\ stack'[t][1] = f /\ \A k \in 2 .. n : stack'[t][k] = stack[t][k]
  BY DEF Replaced
<1>2. \A h \in 1 .. n : h # n => n + 1 - h \in 2 .. n
  OBVIOUS
<1>3. n + 1 - n = 1
  OBVIOUS
<1> HIDE DEF n
<1>4. ASSUME NEW h \in 1 .. n, h # n PROVE stack'[t][n + 1 - h] = stack[t][n + 1 - h]
  BY <1>1, <1>2, <1>4
<1>5. stack'[t][n + 1 - n] = f /\ stack[t][n + 1 - n] = stack[t][1]
  BY <1>1, <1>3
<1>6. QED
  BY <1>1, <1>4, <1>5 DEF At, n

(* Jobs on stacks, as a set of threads and heights. *)
LEMMA StackJobsOf ==
  ASSUME NEW c \in Call
  PROVE  /\ \A u, h : <<u, h>> \in StackJobs(c) <=>
               u \in Thread /\ h \in 1 .. Len(stack[u]) /\ IsJobOf(At(u, h), c)
         /\ \A u, h : <<u, h>> \in StackJobs(c)' <=>
               u \in Thread /\ h \in 1 .. Len(stack'[u]) /\ IsJobOf(At(u, h)', c)
         /\ \A x \in StackJobs(c) \cup StackJobs(c)' : \E u \in Thread, h \in Nat : x = <<u, h>>
<1>1. \A u, h : <<u, h>> \in StackJobs(c) <=>
          u \in Thread /\ h \in 1 .. Len(stack[u]) /\ IsJobOf(stack[u][Len(stack[u]) + 1 - h], c)
  BY DEF StackJobs, JobHeights, At
<1>2. \A u, h : <<u, h>> \in StackJobs(c)' <=>
          u \in Thread /\ h \in 1 .. Len(stack'[u]) /\ IsJobOf(stack'[u][Len(stack'[u]) + 1 - h], c)
  BY DEF StackJobs, JobHeights, IsJobOf, At
<1>3. \A x \in StackJobs(c) \cup StackJobs(c)' : \E u \in Thread, h \in Nat : x = <<u, h>>
  BY DEF StackJobs, JobHeights, At
<1>4. \A u, h : IsJobOf(At(u, h)', c) <=> IsJobOf(stack'[u][Len(stack'[u]) + 1 - h], c)
  BY DEF At, IsJobOf
<1>5. QED
  BY <1>1, <1>2, <1>3, <1>4 DEF At

(* A frame that comes is one job more of its call, if it is a job. *)
LEMMA PushJobs ==
  ASSUME TypeOK, NEW t \in Thread, NEW f, Pushed(t, f), ElsewhereSame(t),
         NEW c \in Call, IsFiniteSet(StackJobs(c))
  PROVE  /\ IsFiniteSet(StackJobs(c)')
         /\ Cardinality(StackJobs(c)') = IF IsJobOf(f, c) THEN Cardinality(StackJobs(c)) + 1
                                         ELSE Cardinality(StackJobs(c))
<1>1. PICK n \in Nat : n = Len(stack[t])
  BY DEF TypeOK
<1> DEFINE new == <<t, n + 1>>
<1>2. Len(stack'[t]) = n + 1 /\ At(t, n + 1)' = f /\ \A h \in 1 .. n : At(t, h)' = At(t, h)
  BY <1>1, PushHeights
<1>3. \A u \in Thread : u # t => Len(stack'[u]) = Len(stack[u]) /\ \A h : At(u, h)' = At(u, h)
  BY DEF ElsewhereSame, At
<1>4. \A h : h \in 1 .. n + 1 <=> h \in 1 .. n \/ h = n + 1
  BY <1>1
<1>5. new \notin StackJobs(c)
  BY <1>1, StackJobsOf
<1>6. IsJobOf(At(t, n + 1)', c) <=> IsJobOf(f, c)
  BY <1>2
<1>7. ASSUME NEW u \in Thread, NEW h
      PROVE  <<u, h>> \in StackJobs(c)' <=> <<u, h>> \in StackJobs(c) \/ (IsJobOf(f, c) /\ <<u, h>> = new)
  <2>1. CASE u # t
    BY <1>3, <2>1, StackJobsOf
  <2>2. CASE u = t
    <3>1. <<u, h>> \in StackJobs(c)' <=> h \in 1 .. n + 1 /\ IsJobOf(At(t, h)', c)
      BY <1>2, <2>2, StackJobsOf
    <3>2. <<u, h>> \in StackJobs(c) <=> h \in 1 .. n /\ IsJobOf(At(t, h), c)
      BY <1>1, <2>2, StackJobsOf
    <3>3. <<u, h>> = new <=> h = n + 1
      BY <2>2
    <3>4. h \in 1 .. n => At(t, h)' = At(t, h)
      BY <1>2
    <3> HIDE DEF new
    <3>5. CASE h \in 1 .. n
      BY <1>1, <1>4, <3>1, <3>2, <3>3, <3>4, <3>5
    <3>6. CASE h = n + 1
      BY <1>1, <1>4, <1>6, <3>1, <3>2, <3>3, <3>6
    <3>7. QED
      BY <1>4, <3>1, <3>2, <3>3, <3>5, <3>6
  <2>3. QED
    BY <2>1, <2>2
<1>8. StackJobs(c)' = IF IsJobOf(f, c) THEN StackJobs(c) \cup {new} ELSE StackJobs(c)
  <2>1. \A x : x \in StackJobs(c)' => x \in StackJobs(c) \/ (IsJobOf(f, c) /\ x = new)
    BY <1>7, StackJobsOf
  <2>2. \A x : x \in StackJobs(c) => x \in StackJobs(c)'
    BY <1>7, StackJobsOf
  <2>3. IsJobOf(f, c) => new \in StackJobs(c)'
    BY <1>7
  <2>4. QED
    BY <2>1, <2>2, <2>3
<1>9. QED
  BY <1>5, <1>8, FS_AddElement

(* One that goes is one job less. *)
LEMMA PopJobs ==
  ASSUME TypeOK, TypeOK', NEW t \in Thread, 1 \in 1 .. Len(stack[t]), Popped(t), ElsewhereSame(t),
         NEW c \in Call, IsFiniteSet(StackJobs(c))
  PROVE  /\ IsFiniteSet(StackJobs(c)')
         /\ Cardinality(StackJobs(c)') = IF IsJobOf(stack[t][1], c) THEN Cardinality(StackJobs(c)) - 1
                                         ELSE Cardinality(StackJobs(c))
<1> DEFINE m == Len(stack'[t])
           f == stack[t][1]
           old == <<t, m + 1>>
<1>1. m \in Nat
  BY DEF TypeOK
<1>2. Len(stack[t]) = m + 1 /\ At(t, m + 1) = f /\ \A h \in 1 .. m : At(t, h)' = At(t, h)
  BY <1>1, PopHeights
<1>3. \A u \in Thread : u # t => Len(stack'[u]) = Len(stack[u]) /\ \A h : At(u, h)' = At(u, h)
  BY DEF ElsewhereSame, At
<1>4. \A h : h \in 1 .. m + 1 <=> h \in 1 .. m \/ h = m + 1
  BY <1>1
<1>5. old \notin StackJobs(c)'
  BY <1>1, StackJobsOf
<1>6. IsJobOf(At(t, m + 1), c) <=> IsJobOf(f, c)
  BY <1>2
<1>7. ASSUME NEW u \in Thread, NEW h
      PROVE  <<u, h>> \in StackJobs(c) <=> <<u, h>> \in StackJobs(c)' \/ (IsJobOf(f, c) /\ <<u, h>> = old)
  <2>1. CASE u # t
    BY <1>3, <2>1, StackJobsOf
  <2>2. CASE u = t
    <3>1. <<u, h>> \in StackJobs(c) <=> h \in 1 .. m + 1 /\ IsJobOf(At(t, h), c)
      BY <1>2, <2>2, StackJobsOf
    <3>2. <<u, h>> \in StackJobs(c)' <=> h \in 1 .. m /\ IsJobOf(At(t, h)', c)
      BY <2>2, StackJobsOf
    <3>3. <<u, h>> = old <=> h = m + 1
      BY <2>2
    <3>4. h \in 1 .. m => At(t, h)' = At(t, h)
      BY <1>2
    <3> HIDE DEF old, f
    <3>5. CASE h \in 1 .. m
      BY <1>1, <1>4, <3>1, <3>2, <3>3, <3>4, <3>5
    <3>6. CASE h = m + 1
      BY <1>1, <1>4, <1>6, <3>1, <3>2, <3>3, <3>6
    <3>7. QED
      BY <1>4, <3>1, <3>2, <3>3, <3>5, <3>6
  <2>3. QED
    BY <2>1, <2>2
<1> HIDE DEF m, f
<1>8. IsJobOf(f, c) => old \in StackJobs(c) /\ StackJobs(c)' = StackJobs(c) \ {old}
  <2>1. \A x : x \in StackJobs(c) => x \in StackJobs(c)' \/ x = old
    BY <1>7, StackJobsOf
  <2>2. \A x : x \in StackJobs(c)' => x \in StackJobs(c) \ {old}
    BY <1>5, <1>7, StackJobsOf
  <2>3. IsJobOf(f, c) => old \in StackJobs(c)
    BY <1>7
  <2>4. QED
    BY <2>1, <2>2, <2>3
<1>9. ~IsJobOf(f, c) => StackJobs(c)' = StackJobs(c)
  <2>1. \A x : ~IsJobOf(f, c) => (x \in StackJobs(c) <=> x \in StackJobs(c)')
    BY <1>7, StackJobsOf
  <2>2. QED
    BY <2>1
<1>10. QED
  BY <1>8, <1>9, FS_RemoveElement DEF f

(* And one that changes its item is as many. *)
LEMMA ReplaceJobs ==
  ASSUME TypeOK, NEW t \in Thread, NEW f, 1 \in 1 .. Len(stack[t]), Replaced(t, f), ElsewhereSame(t),
         NEW c \in Call, IsJobOf(f, c) <=> IsJobOf(stack[t][1], c)
  PROVE  StackJobs(c)' = StackJobs(c)
<1> DEFINE n == Len(stack[t])
<1>1. n \in Nat
  BY DEF TypeOK
<1>2. /\ Len(stack'[t]) = n /\ At(t, n) = stack[t][1] /\ At(t, n)' = f
      /\ \A h \in 1 .. n : h # n => At(t, h)' = At(t, h)
  BY <1>1, ReplaceHeights
<1>3. \A u \in Thread : u # t => Len(stack'[u]) = Len(stack[u]) /\ \A h : At(u, h)' = At(u, h)
  BY DEF ElsewhereSame, At
<1>4. Len(stack'[t]) = Len(stack[t]) /\ \A h \in 1 .. Len(stack[t]) : IsJobOf(At(t, h), c) <=> IsJobOf(At(t, h)', c)
  <2> SUFFICES ASSUME NEW h \in 1 .. n PROVE IsJobOf(At(t, h), c) <=> IsJobOf(At(t, h)', c)
    BY <1>2
  <2>1. CASE h = n
    <3>1. At(t, h) = stack[t][1]
      BY <1>2, <2>1
    <3>2. At(t, h)' = f
      BY <1>2, <2>1
    <3>3. QED
      BY <3>1, <3>2
  <2>2. CASE h # n
    BY <1>2, <2>2
  <2>3. QED
    BY <2>1, <2>2
<1> HIDE DEF n
<1>5. ASSUME NEW u \in Thread, NEW h PROVE <<u, h>> \in StackJobs(c) <=> <<u, h>> \in StackJobs(c)'
  <2>1. CASE u # t
    BY <1>3, <2>1, StackJobsOf
  <2>2. CASE u = t
    BY <1>4, <2>2, StackJobsOf
  <2>3. QED
    BY <2>1, <2>2
<1>6. \A x : x \in StackJobs(c) <=> x \in StackJobs(c)'
  BY <1>5, StackJobsOf
<1>7. QED
  BY <1>6

\* Queues hold calls on their pools.
QueuesInv == \A p \in Pool : \A k \in 1 .. Len(queue[p]) : Plan[queue[p][k]].pool = p

(* A job more at the end of its pool's queue. *)
LEMMA AppendJobs ==
  ASSUME TypeOK, QueuesInv, NEW c \in Call,
         queue' = [queue EXCEPT ![Plan[c].pool] = Append(@, c)]
  PROVE  /\ QueuesInv'
         /\ \A d \in Call : Cardinality(QueuedJobs(d)') = IF d = c THEN Cardinality(QueuedJobs(d)) + 1
                                                          ELSE Cardinality(QueuedJobs(d))
<1> USE PlanAssumption
<1>1. PICK p \in Pool : p = Plan[c].pool
  OBVIOUS
<1>2. queue[p] \in Seq(Call) /\ queue'[p] = Append(queue[p], c) /\ \A q \in Pool : q # p => queue'[q] = queue[q]
  BY <1>1 DEF TypeOK
<1>3. PICK n \in Nat : n = Len(queue[p])
  BY <1>2
<1>4. Len(queue'[p]) = n + 1 /\ queue'[p][n + 1] = c /\ \A k \in 1 .. n : queue'[p][k] = queue[p][k]
  BY <1>2, <1>3
<1>5. \A k : k \in 1 .. n + 1 <=> k \in 1 .. n \/ k = n + 1
  OBVIOUS
<1>6. QueuesInv'
  BY <1>1, <1>2, <1>3, <1>4, <1>5 DEF QueuesInv
<1>7. ASSUME NEW d \in Call
      PROVE  Cardinality(QueuedJobs(d)') = IF d = c THEN Cardinality(QueuedJobs(d)) + 1
                                           ELSE Cardinality(QueuedJobs(d))
  <2>1. CASE d = c
    <3>1. \A k : k \in QueuedJobs(d) <=> k \in 1 .. n /\ queue[p][k] = c
      BY <1>1, <1>3, <2>1 DEF QueuedJobs
    <3>2. \A k : k \in QueuedJobs(d)' <=> k \in 1 .. n + 1 /\ queue'[p][k] = c
      BY <1>1, <1>4, <2>1 DEF QueuedJobs
    <3>3. QueuedJobs(d)' = QueuedJobs(d) \cup {n + 1}
      BY <1>4, <1>5, <3>1, <3>2
    <3>4. n + 1 \notin QueuedJobs(d)
      BY <3>1
    <3>5. IsFiniteSet(QueuedJobs(d))
      BY QueuedFinite
    <3>6. Cardinality(QueuedJobs(d) \cup {n + 1}) = Cardinality(QueuedJobs(d)) + 1
      BY <3>4, <3>5, FS_AddElement
    <3>7. QED
      BY <2>1, <3>3, <3>6
  <2>2. CASE d # c /\ Plan[d].pool = p
    <3>1. \A k : k \in QueuedJobs(d) <=> k \in 1 .. n /\ queue[p][k] = d
      BY <1>3, <2>2 DEF QueuedJobs
    <3>2. \A k : k \in QueuedJobs(d)' <=> k \in 1 .. n + 1 /\ queue'[p][k] = d
      BY <1>4, <2>2 DEF QueuedJobs
    <3>3. \A k : k \in QueuedJobs(d)' <=> k \in QueuedJobs(d)
      BY <1>4, <1>5, <2>2, <3>1, <3>2
    <3>4. QueuedJobs(d)' = QueuedJobs(d)
      BY <3>3
    <3>5. QED
      BY <2>2, <3>4
  <2>3. CASE Plan[d].pool # p
    <3>1. queue'[Plan[d].pool] = queue[Plan[d].pool] /\ d # c
      BY <1>1, <1>2, <2>3
    <3>2. QueuedJobs(d)' = QueuedJobs(d)
      BY <3>1 DEF QueuedJobs
    <3>3. QED
      BY <3>1, <3>2
  <2>4. QED
    BY <2>1, <2>2, <2>3
<1>8. QED
  BY <1>6, <1>7

(* The oldest job of a pool's queue goes. *)
LEMMA TailJobs ==
  ASSUME TypeOK, QueuesInv, NEW p \in Pool, queue[p] # <<>>,
         queue' = [queue EXCEPT ![p] = Tail(@)]
  PROVE  /\ QueuesInv'
         /\ \A d \in Call : Cardinality(QueuedJobs(d)') =
               IF d = Head(queue[p]) THEN Cardinality(QueuedJobs(d)) - 1 ELSE Cardinality(QueuedJobs(d))
<1> USE PlanAssumption
<1>1. queue[p] \in Seq(Call) /\ queue'[p] = Tail(queue[p]) /\ \A q \in Pool : q # p => queue'[q] = queue[q]
  BY DEF TypeOK
<1>2. PICK n \in Nat : n + 1 = Len(queue[p])
  <2>1. Len(queue[p]) \in Nat /\ Len(queue[p]) # 0
    BY <1>1, EmptySeq
  <2>2. Len(queue[p]) - 1 \in Nat /\ (Len(queue[p]) - 1) + 1 = Len(queue[p])
    BY <2>1
  <2>3. QED
    BY <2>2
<1>3. /\ Len(queue'[p]) = n /\ Head(queue[p]) = queue[p][1]
      /\ \A k \in 1 .. n : queue'[p][k] = queue[p][k + 1]
  <2>1. /\ Head(queue[p]) = queue[p][1] /\ Len(Tail(queue[p])) = Len(queue[p]) - 1
        /\ \A k \in 1 .. Len(Tail(queue[p])) : Tail(queue[p])[k] = queue[p][k + 1]
    BY <1>1, HeadTailProperties
  <2>2. (n + 1) - 1 = n
    OBVIOUS
  <2>3. Len(Tail(queue[p])) = n
    BY <1>2, <2>1, <2>2
  <2>4. QED
    BY <1>1, <2>1, <2>3
<1>4. /\ \A k \in 1 .. n : k + 1 \in 1 .. n + 1 /\ k + 1 # 1
      /\ \A k \in 1 .. n + 1 : k # 1 => k - 1 \in 1 .. n /\ (k - 1) + 1 = k
      /\ 1 \in 1 .. n + 1
  OBVIOUS
<1>5. QueuesInv'
  BY <1>1, <1>2, <1>3, <1>4 DEF QueuesInv
<1>6. ASSUME NEW d \in Call
      PROVE  Cardinality(QueuedJobs(d)') = IF d = Head(queue[p]) THEN Cardinality(QueuedJobs(d)) - 1
                                           ELSE Cardinality(QueuedJobs(d))
  <2>1. CASE Plan[d].pool = p
    <3>1. \A k : k \in QueuedJobs(d) <=> k \in 1 .. n + 1 /\ queue[p][k] = d
      BY <1>2, <2>1 DEF QueuedJobs
    <3>2. \A k : k \in QueuedJobs(d)' <=> k \in 1 .. n /\ queue'[p][k] = d
      BY <1>3, <2>1 DEF QueuedJobs
    <3> DEFINE rest == QueuedJobs(d) \ {1}
               f == [k \in rest |-> k - 1]
    <3>3. f \in [rest -> QueuedJobs(d)']
      <4> SUFFICES ASSUME NEW k \in rest PROVE k - 1 \in QueuedJobs(d)'
        OBVIOUS
      <4>1. k \in 1 .. n + 1 /\ k # 1 /\ queue[p][k] = d
        BY <3>1
      <4>2. k - 1 \in 1 .. n /\ (k - 1) + 1 = k
        BY <1>4, <4>1
      <4>3. QED
        BY <1>3, <3>2, <4>1, <4>2
    <3>4. \A x, y \in rest : f[x] = f[y] => x = y
      <4>1. \A x \in rest : x \in Int
        BY <3>1
      <4>2. QED
        BY <4>1
    <3>5. ASSUME NEW y \in QueuedJobs(d)' PROVE \E x \in rest : f[x] = y
      <4>1. y \in 1 .. n /\ queue'[p][y] = d
        BY <3>2
      <4>2. y + 1 \in rest
        BY <1>3, <1>4, <3>1, <4>1
      <4>3. f[y + 1] = y
        BY <4>1, <4>2
      <4>4. QED
        BY <4>2, <4>3
    <3>6. IsFiniteSet(QueuedJobs(d))
      BY QueuedFinite
    <3>7. /\ IsFiniteSet(rest)
          /\ Cardinality(rest) = IF 1 \in QueuedJobs(d) THEN Cardinality(QueuedJobs(d)) - 1
                                 ELSE Cardinality(QueuedJobs(d))
      BY <3>6, FS_RemoveElement
    <3>8. 1 \in QueuedJobs(d) <=> d = Head(queue[p])
      BY <1>3, <1>4, <3>1
    <3> HIDE DEF f, rest
    <3>9. Cardinality(QueuedJobs(d)') = Cardinality(rest)
      BY <3>3, <3>4, <3>5, <3>7, SameCardinality
    <3>10. QED
      BY <3>7, <3>8, <3>9
  <2>2. CASE Plan[d].pool # p
    <3>1. queue'[Plan[d].pool] = queue[Plan[d].pool]
      BY <1>1, <2>2
    <3>2. QueuedJobs(d)' = QueuedJobs(d)
      BY <3>1 DEF QueuedJobs
    <3>3. d # Head(queue[p])
      BY <1>2, <1>3, <1>4, <2>2 DEF QueuesInv
    <3>4. QED
      BY <3>2, <3>3
  <2>3. QED
    BY <2>1, <2>2
<1>7. QED
  BY <1>5, <1>6

JobCount ==
    \A c \in Call :
        /\ IsFiniteSet(StackJobs(c))
        /\ jobs[c] = Cardinality(StackJobs(c)) + Cardinality(QueuedJobs(c))
JobPhase ==
    \A c \in Call :
        /\ jobs[c] > 0 => mode[c] = "parallel" /\ phase[c] \in {"spawn", "pull", "send", "join"}
        /\ mode[c] = "parallel" /\ phase[c] \in {"pull", "send"} => jobs[c] > 0

LEMMA JobInvOf ==
  /\ JobInv <=> QueuesInv /\ JobCount /\ JobPhase
  /\ JobInv' <=> QueuesInv' /\ JobCount' /\ JobPhase'
BY DEF JobInv, QueuesInv, JobCount, JobPhase

(* If no stack has more or less jobs of a call than before, the count holds. *)
LEMMA CountSame ==
  ASSUME JobInv, UNCHANGED <<jobs, queue>>,
         \A c \in Call : IsFiniteSet(StackJobs(c)') /\ Cardinality(StackJobs(c)') = Cardinality(StackJobs(c))
  PROVE  QueuesInv' /\ JobCount'
<1>1. \A c \in Call : QueuedJobs(c)' = QueuedJobs(c)
  BY DEF QueuedJobs
<1>2. QueuesInv'
  BY JobInvOf DEF QueuesInv
<1>3. JobCount'
  BY <1>1, JobInvOf DEF JobCount
<1>4. QED
  BY <1>2, <1>3

LEMMA CallsCount ==
  ASSUME IInv, NEW t \in Thread, NEW d \in Call, Calls(t, d)
  PROVE  QueuesInv' /\ JobCount'
<1>1. TypeOK /\ JobInv /\ JobCount
  BY JobInvOf DEF IInv
<1>2. Pushed(t, CallFrame(d)) /\ ElsewhereSame(t)
  BY <1>1, CallFrameType, PushStep DEF Calls
<1>3. \A c : ~IsJobOf(CallFrame(d), c)
  BY CallFrameType DEF IsJobOf
<1>4. \A c \in Call : IsFiniteSet(StackJobs(c)') /\ Cardinality(StackJobs(c)') = Cardinality(StackJobs(c))
  BY <1>1, <1>2, <1>3, PushJobs DEF JobCount
<1>5. UNCHANGED <<jobs, queue>>
  BY DEF Calls
<1>6. QED
  BY <1>1, <1>4, <1>5, CountSame

LEMMA LeavesCount ==
  ASSUME IInv, TypeOK', NEW t \in Thread, NEW c \in Call, Leaves(t, c)
  PROVE  QueuesInv' /\ JobCount'
<1>1. TypeOK /\ JobInv /\ JobCount
  BY JobInvOf DEF IInv
<1>2. Popped(t) /\ ElsewhereSame(t) /\ 1 \in 1 .. Len(stack[t])
  BY <1>1, PopStep DEF Leaves
<1>3. \A d : ~IsJobOf(stack[t][1], d)
  BY CallFrameType DEF IsJobOf, Leaves
<1>4. \A d \in Call : IsFiniteSet(StackJobs(d)') /\ Cardinality(StackJobs(d)') = Cardinality(StackJobs(d))
  BY <1>1, <1>2, <1>3, PopJobs DEF JobCount
<1>5. UNCHANGED <<jobs, queue>>
  BY DEF Leaves
<1>6. QED
  BY <1>1, <1>4, <1>5, CountSame

LEMMA StaysCount ==
  ASSUME IInv, UNCHANGED <<stack, jobs, queue>>
  PROVE  QueuesInv' /\ JobCount'
<1>1. JobInv /\ JobCount
  BY JobInvOf DEF IInv
<1>2. \A d \in Call : StackJobs(d)' = StackJobs(d)
  BY DEF StackJobs, JobHeights, IsJobOf, At
<1>3. \A d \in Call : IsFiniteSet(StackJobs(d)') /\ Cardinality(StackJobs(d)') = Cardinality(StackJobs(d))
  BY <1>1, <1>2 DEF JobCount
<1>4. QED
  BY <1>1, <1>3, CountSame

(* A worker that receives or ends a task goes on with its job. *)
LEMMA ItemCount ==
  ASSUME IInv, NEW t \in Thread, NEW c \in Call, NEW i, NEW j \in 0 .. Plan[c].items,
         InJob(t, c, i), Replace(t, JobFrame(c, j)), UNCHANGED <<jobs, queue>>
  PROVE  QueuesInv' /\ JobCount'
<1>1. TypeOK /\ JobInv /\ JobCount
  BY JobInvOf DEF IInv
<1>2. stack[t] # <<>> /\ 1 \in 1 .. Len(stack[t]) /\ stack[t][1] = JobFrame(c, i)
  BY <1>1, Innermost
<1>3. Replaced(t, JobFrame(c, j)) /\ ElsewhereSame(t)
  BY <1>1, <1>2, JobFrameType, ReplaceStep
<1>4. \A d : IsJobOf(JobFrame(c, j), d) <=> IsJobOf(stack[t][1], d)
  BY <1>2 DEF IsJobOf, JobFrame
<1>5. \A d \in Call : StackJobs(d)' = StackJobs(d)
  BY <1>1, <1>2, <1>3, <1>4, ReplaceJobs
<1>6. \A d \in Call : IsFiniteSet(StackJobs(d)') /\ Cardinality(StackJobs(d)') = Cardinality(StackJobs(d))
  BY <1>1, <1>5 DEF JobCount
<1>7. QED
  BY <1>1, <1>6, CountSame

(* A job is counted from its spawning, through the queue, to its end. *)
LEMMA SpawnCount ==
  ASSUME IInv, NEW t \in Thread, NEW c \in Call, Spawn(t, c)
  PROVE  QueuesInv' /\ JobCount'
<1>1. TypeOK /\ QueuesInv /\ JobCount
  BY JobInvOf DEF IInv
<1>2. /\ UNCHANGED stack /\ queue' = [queue EXCEPT ![Plan[c].pool] = Append(@, c)]
      /\ jobs' = [jobs EXCEPT ![c] = @ + 1]
  BY DEF Spawn
<1>3. /\ QueuesInv'
      /\ \A d \in Call : Cardinality(QueuedJobs(d)') = IF d = c THEN Cardinality(QueuedJobs(d)) + 1
                                                       ELSE Cardinality(QueuedJobs(d))
  BY <1>1, <1>2, AppendJobs
<1>4. \A d \in Call : StackJobs(d)' = StackJobs(d)
  BY <1>2 DEF StackJobs, JobHeights, IsJobOf, At
<1>5. ASSUME NEW d \in Call
      PROVE  IsFiniteSet(StackJobs(d)') /\ jobs'[d] = Cardinality(StackJobs(d)') + Cardinality(QueuedJobs(d)')
  <2>1. IsFiniteSet(StackJobs(d)) /\ jobs[d] = Cardinality(StackJobs(d)) + Cardinality(QueuedJobs(d))
    BY <1>1 DEF JobCount
  <2>2. Cardinality(StackJobs(d)) \in Nat /\ Cardinality(QueuedJobs(d)) \in Nat
    BY <1>1, <2>1, FS_CardinalityType, QueuedFinite
  <2>3. jobs'[d] = IF d = c THEN jobs[d] + 1 ELSE jobs[d]
    BY <1>1, <1>2 DEF TypeOK
  <2>4. Cardinality(StackJobs(d)') = Cardinality(StackJobs(d)) /\ IsFiniteSet(StackJobs(d)')
    BY <1>4, <2>1
  <2>5. Cardinality(QueuedJobs(d)') = IF d = c THEN Cardinality(QueuedJobs(d)) + 1
                                      ELSE Cardinality(QueuedJobs(d))
    BY <1>3
  <2>6. QED
    BY <2>1, <2>2, <2>3, <2>4, <2>5
<1>6. QED
  BY <1>3, <1>5 DEF JobCount

LEMMA TakeCount ==
  ASSUME IInv, NEW t \in Thread, TakeJob(t)
  PROVE  QueuesInv' /\ JobCount'
<1> DEFINE p == Home[t]
           c == Head(queue[p])
<1>1. TypeOK /\ JobInv /\ QueuesInv /\ JobCount
  BY JobInvOf DEF IInv
<1>2. p \in Pool /\ queue[p] # <<>> /\ c \in Call
  BY <1>1, QueueHead
<1>3. /\ stack' = [stack EXCEPT ![t] = <<JobFrame(c, 0)>> \o @]
      /\ queue' = [queue EXCEPT ![p] = Tail(@)] /\ UNCHANGED jobs
  BY DEF TakeJob
<1>4. /\ QueuesInv'
      /\ \A d \in Call : Cardinality(QueuedJobs(d)') = IF d = c THEN Cardinality(QueuedJobs(d)) - 1
                                                       ELSE Cardinality(QueuedJobs(d))
  BY <1>1, <1>2, <1>3, TailJobs
<1>5. Pushed(t, JobFrame(c, 0)) /\ ElsewhereSame(t)
  <2>1. JobFrame(c, 0) \in Frame
    BY <1>2, PlanAssumption, JobFrameType
  <2>2. QED
    BY <1>1, <1>3, <2>1, PushStep
<1>6. \A d : IsJobOf(JobFrame(c, 0), d) <=> d = c
  BY DEF IsJobOf, JobFrame
<1> HIDE DEF p, c
<1>7. ASSUME NEW d \in Call
      PROVE  IsFiniteSet(StackJobs(d)') /\ jobs'[d] = Cardinality(StackJobs(d)') + Cardinality(QueuedJobs(d)')
  <2>1. IsFiniteSet(StackJobs(d)) /\ jobs[d] = Cardinality(StackJobs(d)) + Cardinality(QueuedJobs(d))
    BY <1>1 DEF JobCount
  <2>2. Cardinality(StackJobs(d)) \in Nat /\ Cardinality(QueuedJobs(d)) \in Nat
    BY <1>1, <2>1, FS_CardinalityType, QueuedFinite
  <2>3. /\ IsFiniteSet(StackJobs(d)')
        /\ Cardinality(StackJobs(d)') = IF d = c THEN Cardinality(StackJobs(d)) + 1
                                        ELSE Cardinality(StackJobs(d))
    BY <1>1, <1>5, <1>6, <2>1, PushJobs
  <2>4. Cardinality(QueuedJobs(d)') = IF d = c THEN Cardinality(QueuedJobs(d)) - 1
                                      ELSE Cardinality(QueuedJobs(d))
    BY <1>4
  <2>5. QED
    BY <1>3, <2>1, <2>2, <2>3, <2>4
<1>8. QED
  BY <1>4, <1>7 DEF JobCount

LEMMA EndCount ==
  ASSUME IInv, TypeOK', NEW t \in Thread, NEW c \in Call, JobEnds(t, c)
  PROVE  QueuesInv' /\ JobCount'
<1>1. TypeOK /\ QueuesInv /\ JobCount
  BY JobInvOf DEF IInv
<1>2. /\ stack' = [stack EXCEPT ![t] = Tail(@)] /\ UNCHANGED queue
      /\ jobs' = [jobs EXCEPT ![c] = @ - 1]
  BY DEF JobEnds
<1>3. stack[t] # <<>> /\ 1 \in 1 .. Len(stack[t]) /\ stack[t][1] = JobFrame(c, 0)
  BY <1>1, Innermost DEF JobEnds
<1>4. Popped(t) /\ ElsewhereSame(t)
  BY <1>1, <1>2, <1>3, PopStep
<1>5. \A d : IsJobOf(stack[t][1], d) <=> d = c
  BY <1>3 DEF IsJobOf, JobFrame
<1>6. QueuesInv' /\ \A d \in Call : QueuedJobs(d)' = QueuedJobs(d)
  BY <1>1, <1>2 DEF QueuesInv, QueuedJobs
<1>7. ASSUME NEW d \in Call
      PROVE  IsFiniteSet(StackJobs(d)') /\ jobs'[d] = Cardinality(StackJobs(d)') + Cardinality(QueuedJobs(d)')
  <2>1. IsFiniteSet(StackJobs(d)) /\ jobs[d] = Cardinality(StackJobs(d)) + Cardinality(QueuedJobs(d))
    BY <1>1 DEF JobCount
  <2>2. Cardinality(StackJobs(d)) \in Nat /\ Cardinality(QueuedJobs(d)) \in Nat
    BY <1>1, <2>1, FS_CardinalityType, QueuedFinite
  <2>3. /\ IsFiniteSet(StackJobs(d)')
        /\ Cardinality(StackJobs(d)') = IF d = c THEN Cardinality(StackJobs(d)) - 1
                                        ELSE Cardinality(StackJobs(d))
    BY <1>1, <1>3, <1>4, <1>5, <2>1, PopJobs
  <2>4. jobs'[d] = IF d = c THEN jobs[d] - 1 ELSE jobs[d]
    BY <1>1, <1>2 DEF TypeOK
  <2>5. Cardinality(QueuedJobs(d)') = Cardinality(QueuedJobs(d))
    BY <1>6
  <2>6. QED
    BY <2>1, <2>2, <2>3, <2>4, <2>5
<1>8. QED
  BY <1>6, <1>7 DEF JobCount

(* While a call has jobs it is at its scope, and a producer has jobs. *)
LEMMA CallerJobPhase ==
  ASSUME IInv, NEW t \in Thread, NEW c \in Call,
         \/ Calls(t, c) \/ CallWithCount(t, c) \/ ExecuteWithCount(t, c) \/ Spawn(t, c)
         \/ SourceGives(t, c) \/ SourceEnds(t, c) \/ Send(t, c) \/ Leaves(t, c)
         \/ SequentialTaskEnds(t, c)
  PROVE  JobPhase'
<1> USE DEF workVars, InCall
<1>1. TypeOK /\ CallInv /\ JobPhase
  BY JobInvOf DEF IInv
<1>2. CASE Calls(t, c)
  <2>1. phase[c] = "idle" /\ UNCHANGED <<mode, jobs>>
    BY <1>2 DEF Calls
  <2>2. PICK ph \in {"call", "enter"} : phase' = [phase EXCEPT ![c] = ph]
    BY <1>2 DEF Calls
  <2>3. \A d \in Call : phase'[d] = IF d = c THEN ph ELSE phase[d]
    BY <1>1, <2>2 DEF TypeOK
  <2>4. QED
    BY <1>1, <2>1, <2>2, <2>3 DEF JobPhase
<1>3. CASE CallWithCount(t, c) \/ ExecuteWithCount(t, c)
  <2>1. PICK sequential \in BOOLEAN :
           /\ mode' = [mode EXCEPT ![c] = IF sequential THEN "sequential" ELSE "parallel"]
           /\ phase' = [phase EXCEPT ![c] = IF sequential THEN "pull"
                                            ELSE IF @ = "call" THEN "enter" ELSE "spawn"]
    BY <1>3, Decision
  <2>2. phase[c] \in {"call", "enter"} /\ UNCHANGED jobs
    BY <1>3, Decision
  <2>3. \A d \in Call :
           /\ mode'[d] = IF d = c THEN (IF sequential THEN "sequential" ELSE "parallel") ELSE mode[d]
           /\ phase'[d] = IF d = c THEN IF sequential THEN "pull"
                                        ELSE IF phase[c] = "call" THEN "enter" ELSE "spawn"
                          ELSE phase[d]
    BY <1>1, <2>1 DEF TypeOK
  <2>4. QED
    BY <1>1, <2>2, <2>3 DEF JobPhase
<1>4. CASE Spawn(t, c)
  <2>1. phase[c] = "spawn" /\ mode[c] = "parallel" /\ UNCHANGED mode
    BY <1>1, <1>4 DEF Spawn, TypeOK, CallInv, Over
  <2>2. \A d \in Call : jobs'[d] = IF d = c THEN jobs[d] + 1 ELSE jobs[d]
    BY <1>1, <1>4 DEF Spawn, TypeOK
  <2>3. phase'[c] \in {"pull", "spawn"} /\ \A d \in Call : d # c => phase'[d] = phase[d]
    BY <1>1, <1>4 DEF Spawn, TypeOK
  <2>4. jobs[c] + 1 > 0
    BY <1>1 DEF TypeOK
  <2>5. ASSUME NEW d \in Call
        PROVE  /\ jobs'[d] > 0 => mode'[d] = "parallel" /\ phase'[d] \in {"spawn", "pull", "send", "join"}
               /\ mode'[d] = "parallel" /\ phase'[d] \in {"pull", "send"} => jobs'[d] > 0
    <3>1. CASE d = c
      BY <2>1, <2>2, <2>3, <2>4, <3>1
    <3>2. CASE d # c
      BY <1>1, <2>1, <2>2, <2>3, <3>2 DEF JobPhase
    <3>3. QED
      BY <3>1, <3>2
  <2>6. QED
    BY <2>5 DEF JobPhase
<1>5. CASE SourceGives(t, c)
  BY <1>1, <1>5 DEF SourceGives, TypeOK, JobPhase
<1>6. CASE SourceEnds(t, c)
  BY <1>1, <1>6 DEF SourceEnds, TypeOK, JobPhase
<1>7. CASE Send(t, c)
  BY <1>1, <1>7 DEF Send, TypeOK, JobPhase
<1>8. CASE Leaves(t, c)
  <2>1. PICK ph \in Over : phase' = [phase EXCEPT ![c] = ph]
    BY <1>8 DEF Leaves
  <2>2. \A d \in Call : phase'[d] = IF d = c THEN ph ELSE phase[d]
    BY <1>1, <2>1 DEF TypeOK
  <2>3. jobs[c] = 0 /\ UNCHANGED <<jobs, mode>>
    BY <1>8 DEF Leaves
  <2>4. QED
    BY <1>1, <2>1, <2>2, <2>3 DEF JobPhase, Over
<1>9. CASE SequentialTaskEnds(t, c)
  <2>1. phase[c] = "run" /\ mode[c] = "sequential" /\ UNCHANGED <<mode, jobs>>
    BY <1>1, <1>9 DEF SequentialTaskEnds, TypeOK, CallInv, Over
  <2>2. \A d \in Call : phase'[d] = IF d = c THEN "pull" ELSE phase[d]
    BY <1>1, <1>9 DEF SequentialTaskEnds, TypeOK
  <2>3. QED
    BY <1>1, <2>1, <2>2 DEF JobPhase
<1>10. QED
  BY <1>2, <1>3, <1>4, <1>5, <1>6, <1>7, <1>8, <1>9

LEMMA WorkerJobPhase ==
  ASSUME IInv, NEW t \in Thread,
         \/ TakeJob(t)
         \/ \E c \in Call : WorkerTaskEnds(t, c) \/ Recv(t, c) \/ JobEnds(t, c)
  PROVE  JobPhase'
<1>1. TypeOK /\ CallInv /\ JobPhase
  BY JobInvOf DEF IInv
<1>2. UNCHANGED <<phase, mode>>
  BY WorkersLeaveCalls
<1>3. CASE UNCHANGED jobs
  BY <1>1, <1>2, <1>3 DEF JobPhase
<1>4. ASSUME NEW c \in Call, JobEnds(t, c) PROVE JobPhase'
  <2>1. phase[c] \notin {"pull", "send"}
    BY <1>1, <1>4 DEF CallInv, JobEnds, Over
  <2>2. \A d \in Call : jobs'[d] = IF d = c THEN jobs[d] - 1 ELSE jobs[d]
    BY <1>1, <1>4 DEF TypeOK, JobEnds
  <2>3. \A d \in Call : jobs[d] \in Nat
    BY <1>1 DEF TypeOK
  <2>4. QED
    BY <1>1, <1>2, <2>1, <2>2, <2>3 DEF JobPhase
<1>5. QED
  BY <1>3, <1>4 DEF TakeJob, WorkerTaskEnds, Recv

-----------------------------------------------------------------------------
(* Where the items are.                                                     *)

\* Of the frames of all stacks, those of gone may go and those of come may come.
Changes(gone, come) ==
    \A u \in Thread : Frames(u) \ gone \subseteq Frames(u)' /\ Frames(u)' \subseteq Frames(u) \cup come

LEMMA PushChanges ==
  ASSUME NEW t \in Thread, NEW f, Len(stack[t]) \in Nat, Pushed(t, f), ElsewhereSame(t)
  PROVE  Changes({}, {f})
<1>1. \A u \in Thread : u # t => Frames(u)' = Frames(u)
  BY DEF ElsewhereSame, Frames
<1>2. ASSUME NEW k \in 1 .. Len(stack[t]) PROVE stack[t][k] \in Frames(t)'
  <2>1. k + 1 \in 1 .. Len(stack'[t]) /\ stack'[t][k + 1] = stack[t][k]
    BY DEF Pushed
  <2>2. QED
    BY <2>1 DEF Frames
<1>3. ASSUME NEW k \in 1 .. Len(stack'[t]) PROVE stack'[t][k] \in Frames(t) \cup {f}
  <2>1. CASE k = 1
    BY <2>1 DEF Pushed
  <2>2. CASE k # 1
    <3>1. k - 1 \in 1 .. Len(stack[t]) /\ (k - 1) + 1 = k
      BY <2>2 DEF Pushed
    <3>2. stack'[t][k] = stack[t][k - 1]
      BY <3>1 DEF Pushed
    <3>3. QED
      BY <3>1, <3>2 DEF Frames
  <2>3. QED
    BY <2>1, <2>2
<1>4. Frames(t) \subseteq Frames(t)'
  BY <1>2 DEF Frames
<1>5. Frames(t)' \subseteq Frames(t) \cup {f}
  BY <1>3 DEF Frames
<1>6. QED
  BY <1>1, <1>4, <1>5 DEF Changes

LEMMA PopChanges ==
  ASSUME NEW t \in Thread, Len(stack'[t]) \in Nat, Popped(t), ElsewhereSame(t)
  PROVE  Changes({stack[t][1]}, {})
<1>1. \A u \in Thread : u # t => Frames(u)' = Frames(u)
  BY DEF ElsewhereSame, Frames
<1>2. ASSUME NEW k \in 1 .. Len(stack[t]) PROVE stack[t][k] \in Frames(t)' \cup {stack[t][1]}
  <2>1. CASE k = 1
    BY <2>1
  <2>2. CASE k # 1
    <3>1. k - 1 \in 1 .. Len(stack'[t]) /\ (k - 1) + 1 = k
      BY <2>2 DEF Popped
    <3>2. stack'[t][k - 1] = stack[t][k]
      BY <3>1 DEF Popped
    <3>3. QED
      BY <3>1, <3>2 DEF Frames
  <2>3. QED
    BY <2>1, <2>2
<1>3. ASSUME NEW k \in 1 .. Len(stack'[t]) PROVE stack'[t][k] \in Frames(t)
  <2>1. k + 1 \in 1 .. Len(stack[t]) /\ stack'[t][k] = stack[t][k + 1]
    BY DEF Popped
  <2>2. QED
    BY <2>1 DEF Frames
<1>4. Frames(t) \ {stack[t][1]} \subseteq Frames(t)'
  BY <1>2 DEF Frames
<1>5. Frames(t)' \subseteq Frames(t)
  BY <1>3 DEF Frames
<1>6. QED
  BY <1>1, <1>4, <1>5 DEF Changes

LEMMA ReplaceChanges ==
  ASSUME NEW t \in Thread, NEW f, Len(stack[t]) \in Nat, 1 \in 1 .. Len(stack[t]),
         Replaced(t, f), ElsewhereSame(t)
  PROVE  Changes({stack[t][1]}, {f}) /\ f \in Frames(t)'
<1>1. \A u \in Thread : u # t => Frames(u)' = Frames(u)
  BY DEF ElsewhereSame, Frames
<1>2. \A k \in 1 .. Len(stack[t]) : k = 1 \/ k \in 2 .. Len(stack[t])
  OBVIOUS
<1>3. ASSUME NEW k \in 1 .. Len(stack[t]) PROVE stack[t][k] \in Frames(t)' \cup {stack[t][1]}
  BY <1>2 DEF Frames, Replaced
<1>4. ASSUME NEW k \in 1 .. Len(stack'[t]) PROVE stack'[t][k] \in Frames(t) \cup {f}
  BY <1>2 DEF Frames, Replaced
<1>5. Frames(t) \ {stack[t][1]} \subseteq Frames(t)'
  BY <1>3 DEF Frames
<1>6. Frames(t)' \subseteq Frames(t) \cup {f}
  BY <1>4 DEF Frames
<1>7. f \in Frames(t)'
  BY DEF Frames, Replaced
<1>8. QED
  BY <1>1, <1>5, <1>6, <1>7 DEF Changes

ItemFrames ==
    \A t \in Thread : \A f \in Frames(t) : f.kind = "job" => f.item < next[f.call]
ItemSets ==
    \A c \in Call :
        /\ done[c] \cup Buffered(c) \subseteq 1 .. next[c] - 1
        /\ 1 .. next[c] - 1 \subseteq done[c] \cup Buffered(c) \cup Held(c)
ChanPhase ==
    \A c \in Call :
        /\ chan[c] # <<>> => mode[c] = "parallel" /\ phase[c] \in {"pull", "send", "join"}
        /\ phase[c] = "join" /\ chan[c] # <<>> => jobs[c] > 0

LEMMA ItemInvOf ==
  /\ ItemInv <=> ItemFrames /\ ItemSets /\ ChanPhase
  /\ ItemInv' <=> ItemFrames' /\ ItemSets' /\ ChanPhase'
<1>1. ItemFrames <=> \A t \in Thread : \A k \in 1 .. Len(stack[t]) :
          stack[t][k].kind = "job" => stack[t][k].item < next[stack[t][k].call]
  BY DEF ItemFrames, Frames
<1>2. ItemFrames' <=> \A t \in Thread : \A k \in 1 .. Len(stack'[t]) :
          stack'[t][k].kind = "job" => stack'[t][k].item < next'[stack'[t][k].call]
  BY DEF ItemFrames, Frames
<1>3. QED
  BY <1>1, <1>2 DEF ItemInv, ItemSets, ChanPhase

(* Sources only go on. *)
LEMMA FramesItems ==
  ASSUME IInv, NEW gone, NEW come, Changes(gone, come),
         \A c \in Call : next'[c] = next[c] \/ next'[c] = next[c] + 1,
         \A f \in come : f.kind = "job" => f.item < next'[f.call]
  PROVE  ItemFrames'
<1>1. TypeOK /\ ItemFrames
  BY ItemInvOf DEF IInv
<1>2. ASSUME NEW t \in Thread, NEW f \in Frames(t)', f.kind = "job", f \notin come
      PROVE  f.item < next'[f.call]
  <2>1. f \in Frames(t) /\ f \in Frame
    BY <1>1, <1>2, StackFrames DEF Changes, Frames
  <2>2. f.item < next[f.call]
    BY <1>1, <1>2, <2>1 DEF ItemFrames
  <2>3. f.call \in Call /\ f.item \in Nat
    <3>1. Plan[f.call].items \in Nat /\ f.call \in Call
      BY <2>1, FrameCases, PlanAssumption
    <3>2. QED
      BY <1>2, <2>1, <3>1, FrameCases
  <2>4. next[f.call] \in Nat /\ (next'[f.call] = next[f.call] \/ next'[f.call] = next[f.call] + 1)
    BY <1>1, <2>3 DEF TypeOK
  <2>5. QED
    BY <2>2, <2>3, <2>4
<1>3. QED
  BY <1>2 DEF ItemFrames

(* What is held is held on, unless its frame goes. *)
LEMMA HeldKept ==
  ASSUME NEW gone, NEW come, Changes(gone, come), NEW c \in Call, NEW i \in Held(c), JobFrame(c, i) \notin gone
  PROVE  i \in Held(c)'
BY DEF Held, Changes

LEMMA ItemsSame ==
  ASSUME IInv, UNCHANGED <<next, chan, done>>, NEW gone, NEW come, Changes(gone, come),
         \A c \in Call : \A i \in 1 .. Plan[c].items : JobFrame(c, i) \notin gone
  PROVE  ItemSets'
<1>1. ItemSets
  BY ItemInvOf DEF IInv
<1>2. \A c \in Call : Buffered(c)' = Buffered(c)
  BY DEF Buffered
<1>3. \A c \in Call : Held(c) \subseteq 1 .. Plan[c].items
  BY DEF Held
<1>4. \A c \in Call : Held(c) \subseteq Held(c)'
  BY <1>3, HeldKept
<1>5. QED
  BY <1>1, <1>2, <1>4 DEF ItemSets

(* An item goes into the channel as the source goes on. *)
LEMMA SendItems ==
  ASSUME IInv, NEW t \in Thread, NEW c \in Call, Send(t, c)
  PROVE  ItemSets'
<1>1. TypeOK /\ ItemSets
  BY ItemInvOf DEF IInv
<1>2. /\ UNCHANGED <<stack, done>>
      /\ chan'[c] = Append(chan[c], next[c]) /\ next'[c] = next[c] + 1
      /\ \A d \in Call : d # c => chan'[d] = chan[d] /\ next'[d] = next[d]
  BY <1>1 DEF Send, TypeOK
<1>3. \A d \in Call : Held(d)' = Held(d)
  BY <1>2 DEF Held, Frames
<1>4. chan[c] \in Seq(Nat) /\ next[c] \in Nat \ {0} /\ Len(chan[c]) \in Nat
  BY DEF IInv, TypeOK, SourceInv
<1>5. /\ Len(chan'[c]) = Len(chan[c]) + 1 /\ chan'[c][Len(chan[c]) + 1] = next[c]
      /\ \A k \in 1 .. Len(chan[c]) : chan'[c][k] = chan[c][k]
  BY <1>2, <1>4, AppendProperties
<1>6. Buffered(c)' = Buffered(c) \cup {next[c]}
  <2>1. \A k : k \in 1 .. Len(chan[c]) + 1 <=> k \in 1 .. Len(chan[c]) \/ k = Len(chan[c]) + 1
    BY <1>4
  <2>2. \A x : (\E k \in 1 .. Len(chan'[c]) : x = chan'[c][k])
                  <=> (x = next[c] \/ \E k \in 1 .. Len(chan[c]) : x = chan[c][k])
    BY <1>5, <2>1
  <2>3. QED
    BY <2>2 DEF Buffered
<1>7. 1 .. next'[c] - 1 = (1 .. next[c] - 1) \cup {next[c]}
  BY <1>2, <1>4
<1>8. ASSUME NEW d \in Call
      PROVE  /\ done'[d] \cup Buffered(d)' \subseteq 1 .. next'[d] - 1
             /\ 1 .. next'[d] - 1 \subseteq done'[d] \cup Buffered(d)' \cup Held(d)'
  <2>1. CASE d = c
    BY <1>1, <1>2, <1>3, <1>6, <1>7, <2>1 DEF ItemSets
  <2>2. CASE d # c
    BY <1>1, <1>2, <1>3, <2>2 DEF ItemSets, Buffered
  <2>3. QED
    BY <2>1, <2>2
<1>9. QED
  BY <1>8 DEF ItemSets

(* The fallback completes an item as the source goes on. *)
LEMMA SequentialItems ==
  ASSUME IInv, NEW t \in Thread, NEW c \in Call, SequentialTaskEnds(t, c)
  PROVE  ItemSets'
<1>1. TypeOK /\ ItemSets
  BY ItemInvOf DEF IInv
<1>2. /\ UNCHANGED <<stack, chan>>
      /\ done'[c] = done[c] \cup {next[c]} /\ next'[c] = next[c] + 1
      /\ \A d \in Call : d # c => done'[d] = done[d] /\ next'[d] = next[d]
  BY <1>1 DEF SequentialTaskEnds, TypeOK
<1>3. \A d \in Call : Held(d)' = Held(d) /\ Buffered(d)' = Buffered(d)
  BY <1>2 DEF Held, Frames, Buffered
<1>4. next[c] \in Nat \ {0}
  BY DEF IInv, TypeOK, SourceInv
<1>5. 1 .. next'[c] - 1 = (1 .. next[c] - 1) \cup {next[c]}
  BY <1>2, <1>4
<1>6. ASSUME NEW d \in Call
      PROVE  /\ done'[d] \cup Buffered(d)' \subseteq 1 .. next'[d] - 1
             /\ 1 .. next'[d] - 1 \subseteq done'[d] \cup Buffered(d)' \cup Held(d)'
  <2>1. CASE d = c
    BY <1>1, <1>2, <1>3, <1>5, <2>1 DEF ItemSets
  <2>2. CASE d # c
    BY <1>1, <1>2, <1>3, <2>2 DEF ItemSets
  <2>3. QED
    BY <2>1, <2>2
<1>7. QED
  BY <1>6 DEF ItemSets

(* A job's frame in terms of its call and its item. *)
LEMMA JobFrameIs ==
  \A c, d, i, j : JobFrame(c, i) = JobFrame(d, j) <=> c = d /\ i = j
BY DEF JobFrame

(* A received item is held by the worker that received it. *)
LEMMA RecvItems ==
  ASSUME IInv, NEW t \in Thread, NEW c \in Call, Recv(t, c)
  PROVE  ItemSets' /\ ItemFrames'
<1> DEFINE i == Head(chan[c])
<1>1. TypeOK /\ ItemSets
  BY ItemInvOf DEF IInv
<1>2. /\ stack[t] # <<>> /\ 1 \in 1 .. Len(stack[t]) /\ stack[t][1] = JobFrame(c, 0)
      /\ Replace(t, JobFrame(c, i)) /\ chan[c] # <<>>
  BY <1>1, Innermost DEF Recv
<1>3. i \in 1 .. next[c] - 1 /\ i \in 1 .. Plan[c].items /\ i \in Buffered(c)
  BY <1>2, ReceivedItem
<1>4. chan[c] \in Seq(Nat) /\ next[c] \in Nat /\ Plan[c].items \in Nat /\ i = chan[c][1]
  BY <1>1, <1>2, PlanAssumption DEF TypeOK
<1>5. /\ UNCHANGED <<done, next>> /\ chan'[c] = Tail(chan[c])
      /\ \A d \in Call : d # c => chan'[d] = chan[d]
  BY <1>1 DEF Recv, TypeOK, callVars
<1> HIDE DEF i
<1>6. Changes({JobFrame(c, 0)}, {JobFrame(c, i)}) /\ JobFrame(c, i) \in Frames(t)'
  <2>1. JobFrame(c, i) \in Frame
    <3>1. i \in 0 .. Plan[c].items
      BY <1>3, <1>4
    <3>2. QED
      BY <3>1, JobFrameType
  <2>2. Replaced(t, JobFrame(c, i)) /\ ElsewhereSame(t)
    BY <1>1, <1>2, <2>1, ReplaceStep
  <2>3. Len(stack[t]) \in Nat
    BY <1>1, StackFrames
  <2>4. QED
    BY <1>2, <2>2, <2>3, ReplaceChanges
<1>7. ASSUME NEW d \in Call PROVE Held(d) \subseteq Held(d)'
  <2>1. ASSUME NEW j \in Held(d) PROVE j \in Held(d)'
    <3>1. j \in 1 .. Plan[d].items
      BY DEF Held
    <3>2. JobFrame(d, j) # JobFrame(c, 0)
      BY <3>1, JobFrameIs
    <3>3. JobFrame(d, j) \notin {JobFrame(c, 0)}
      BY <3>2
    <3>4. QED
      BY <1>6, <3>3, HeldKept
  <2>2. QED
    BY <2>1
<1>8. i \in Held(c)'
  BY <1>3, <1>6 DEF Held
<1>9. Buffered(c)' \subseteq Buffered(c) /\ Buffered(c) \subseteq Buffered(c)' \cup {i}
  <2>1. PICK n \in Nat : Len(chan[c]) = n + 1
    <3>1. Len(chan[c]) \in Nat /\ Len(chan[c]) # 0
      BY <1>2, <1>4, EmptySeq
    <3>2. Len(chan[c]) - 1 \in Nat /\ (Len(chan[c]) - 1) + 1 = Len(chan[c])
      BY <3>1
    <3>3. QED
      BY <3>2
  <2>2. (n + 1) - 1 = n
    OBVIOUS
  <2>3. /\ Len(Tail(chan[c])) = Len(chan[c]) - 1
        /\ \A k \in 1 .. Len(Tail(chan[c])) : Tail(chan[c])[k] = chan[c][k + 1]
    BY <1>2, <1>4, HeadTailProperties
  <2>4. Len(chan'[c]) = n /\ \A k \in 1 .. n : chan'[c][k] = chan[c][k + 1]
    BY <1>5, <2>1, <2>2, <2>3
  <2>5. \A k \in 1 .. n : k + 1 \in 1 .. n + 1
    OBVIOUS
  <2>6. \A k \in 1 .. n + 1 : k = 1 \/ (k - 1 \in 1 .. n /\ (k - 1) + 1 = k)
    OBVIOUS
  <2>7. ASSUME NEW k \in 1 .. n PROVE chan'[c][k] \in Buffered(c)
    BY <2>1, <2>4, <2>5 DEF Buffered
  <2>8. ASSUME NEW k \in 1 .. n + 1 PROVE chan[c][k] \in Buffered(c)' \cup {i}
    <3>1. CASE k = 1
      BY <1>4, <3>1
    <3>2. CASE k - 1 \in 1 .. n /\ (k - 1) + 1 = k
      <4>1. chan'[c][k - 1] = chan[c][k]
        BY <2>4, <3>2
      <4>2. chan'[c][k - 1] \in Buffered(c)'
        BY <2>4, <3>2 DEF Buffered
      <4>3. QED
        BY <4>1, <4>2
    <3>3. QED
      BY <2>6, <3>1, <3>2
  <2>9. QED
    BY <2>1, <2>4, <2>7, <2>8 DEF Buffered
<1>10. ASSUME NEW d \in Call
       PROVE  /\ done'[d] \cup Buffered(d)' \subseteq 1 .. next'[d] - 1
              /\ 1 .. next'[d] - 1 \subseteq done'[d] \cup Buffered(d)' \cup Held(d)'
  <2>1. CASE d = c
    BY <1>1, <1>5, <1>7, <1>8, <1>9, <2>1 DEF ItemSets
  <2>2. CASE d # c
    <3>1. Buffered(d)' = Buffered(d)
      BY <1>5, <2>2 DEF Buffered
    <3>2. QED
      BY <1>1, <1>5, <1>7, <3>1 DEF ItemSets
  <2>3. QED
    BY <2>1, <2>2
<1>11. ItemSets'
  BY <1>10 DEF ItemSets
<1>12. ItemFrames'
  <2>1. \A f \in {JobFrame(c, i)} : f.item < next'[f.call]
    <3>1. i < next[c]
      BY <1>3, <1>4
    <3>2. QED
      BY <1>5, <3>1 DEF JobFrame
  <2>2. QED
    BY <1>5, <1>6, <2>1, FramesItems
<1>13. QED
  BY <1>11, <1>12

(* A task that ends leaves its item done. *)
LEMMA TaskItems ==
  ASSUME IInv, NEW t \in Thread, NEW c \in Call, WorkerTaskEnds(t, c)
  PROVE  ItemSets' /\ ItemFrames'
<1>1. TypeOK /\ ItemSets /\ ItemFrames
  BY ItemInvOf DEF IInv
<1>2. PICK i \in 1 .. Plan[c].items :
         InJob(t, c, i) /\ done' = [done EXCEPT ![c] = @ \cup {i}] /\ Replace(t, JobFrame(c, 0))
  BY DEF WorkerTaskEnds
<1>3. stack[t] # <<>> /\ 1 \in 1 .. Len(stack[t]) /\ stack[t][1] = JobFrame(c, i)
  BY <1>1, <1>2, Innermost
<1>4. /\ UNCHANGED <<next, chan>> /\ done'[c] = done[c] \cup {i}
      /\ \A d \in Call : d # c => done'[d] = done[d]
  BY <1>1, <1>2 DEF WorkerTaskEnds, TypeOK, callVars
<1>5. i \in 1 .. next[c] - 1
  <2>1. JobFrame(c, i) \in Frames(t) /\ JobFrame(c, i).kind = "job" /\ JobFrame(c, i).item = i
        /\ JobFrame(c, i).call = c
    BY <1>3 DEF Frames, JobFrame
  <2>2. i < next[c]
    BY <1>1, <2>1 DEF ItemFrames
  <2>3. next[c] \in Nat
    BY <1>1 DEF TypeOK
  <2>4. QED
    BY <2>2, <2>3
<1>6. Changes({JobFrame(c, i)}, {JobFrame(c, 0)})
  <2>1. JobFrame(c, 0) \in Frame
    BY PlanAssumption, JobFrameType
  <2>2. Replaced(t, JobFrame(c, 0)) /\ ElsewhereSame(t)
    BY <1>1, <1>2, <1>3, <2>1, ReplaceStep
  <2>3. Len(stack[t]) \in Nat
    BY <1>1, StackFrames
  <2>4. QED
    BY <1>3, <2>2, <2>3, ReplaceChanges
<1>7. ASSUME NEW d \in Call PROVE Held(d) \subseteq Held(d)' \cup (IF d = c THEN {i} ELSE {})
  <2>1. ASSUME NEW j \in Held(d), ~(d = c /\ j = i) PROVE j \in Held(d)'
    <3>1. JobFrame(d, j) \notin {JobFrame(c, i)}
      BY <2>1, JobFrameIs
    <3>2. QED
      BY <1>6, <3>1, HeldKept
  <2>2. QED
    BY <2>1
<1>8. ASSUME NEW d \in Call
      PROVE  /\ done'[d] \cup Buffered(d)' \subseteq 1 .. next'[d] - 1
             /\ 1 .. next'[d] - 1 \subseteq done'[d] \cup Buffered(d)' \cup Held(d)'
  <2>1. Buffered(d)' = Buffered(d)
    BY <1>4 DEF Buffered
  <2>2. CASE d = c
    BY <1>1, <1>4, <1>5, <1>7, <2>1, <2>2 DEF ItemSets
  <2>3. CASE d # c
    BY <1>1, <1>4, <1>7, <2>1, <2>3 DEF ItemSets
  <2>4. QED
    BY <2>2, <2>3
<1>9. ItemSets'
  BY <1>8 DEF ItemSets
<1>10. ItemFrames'
  <2>1. \A f \in {JobFrame(c, 0)} : f.item < next'[f.call]
    <3>1. 0 < next[c]
      BY DEF IInv, TypeOK, SourceInv
    <3>2. QED
      BY <1>4, <3>1 DEF JobFrame
  <2>2. QED
    BY <1>4, <1>6, <2>1, FramesItems
<1>11. QED
  BY <1>9, <1>10

(* Elsewhere the items stay where they are. *)
LEMMA CallsItems ==
  ASSUME IInv, NEW t \in Thread, NEW d \in Call, Calls(t, d)
  PROVE  ItemSets' /\ ItemFrames'
<1>1. TypeOK
  BY DEF IInv
<1>2. UNCHANGED <<next, chan, done>>
  BY DEF Calls
<1>3. Changes({}, {CallFrame(d)})
  <2>1. Pushed(t, CallFrame(d)) /\ ElsewhereSame(t)
    BY <1>1, CallFrameType, PushStep DEF Calls
  <2>2. QED
    BY <1>1, <2>1, StackFrames, PushChanges
<1>4. \A f \in {CallFrame(d)} : f.kind # "job"
  BY CallFrameType
<1>5. ItemSets'
  BY <1>2, <1>3, ItemsSame
<1>6. ItemFrames'
  BY <1>2, <1>3, <1>4, FramesItems
<1>7. QED
  BY <1>5, <1>6

LEMMA StaysItems ==
  ASSUME IInv, UNCHANGED stack, \A c \in Call : next'[c] = next[c] \/ next'[c] = next[c] + 1
  PROVE  /\ ItemFrames'
         /\ UNCHANGED <<next, chan, done>> => ItemSets'
<1>1. Changes({}, {})
  BY DEF Changes, Frames
<1>2. QED
  BY <1>1, FramesItems, ItemsSame

LEMMA LeavesItems ==
  ASSUME IInv, TypeOK', NEW t \in Thread, NEW c \in Call, Leaves(t, c)
  PROVE  ItemSets' /\ ItemFrames'
<1>1. TypeOK
  BY DEF IInv
<1>2. UNCHANGED <<next, chan, done>>
  BY DEF Leaves
<1>3. Changes({CallFrame(c)}, {})
  <2>1. Popped(t) /\ ElsewhereSame(t) /\ stack[t][1] = CallFrame(c)
    BY <1>1, PopStep DEF Leaves
  <2>2. Len(stack'[t]) \in Nat
    BY DEF TypeOK
  <2>3. QED
    BY <2>1, <2>2, PopChanges
<1>4. \A d, i : JobFrame(d, i) # CallFrame(c)
  BY DEF JobFrame, CallFrame
<1>5. \A d \in Call : \A i \in 1 .. Plan[d].items : JobFrame(d, i) \notin {CallFrame(c)}
  BY <1>4
<1>6. ItemSets'
  BY <1>2, <1>3, <1>5, ItemsSame
<1>7. ItemFrames'
  BY <1>2, <1>3, FramesItems
<1>8. QED
  BY <1>6, <1>7

LEMMA TakeItems ==
  ASSUME IInv, NEW t \in Thread, TakeJob(t)
  PROVE  ItemSets' /\ ItemFrames'
<1> DEFINE c == Head(queue[Home[t]])
<1>1. TypeOK /\ JobInv /\ c \in Call
  BY QueueHead DEF IInv
<1>2. UNCHANGED <<next, chan, done>>
  BY DEF TakeJob, callVars
<1>3. Changes({}, {JobFrame(c, 0)})
  <2>1. JobFrame(c, 0) \in Frame
    BY <1>1, PlanAssumption, JobFrameType
  <2>2. Pushed(t, JobFrame(c, 0)) /\ ElsewhereSame(t)
    BY <1>1, <2>1, PushStep DEF TakeJob
  <2>3. QED
    BY <1>1, <2>2, StackFrames, PushChanges
<1> HIDE DEF c
<1>4. \A f \in {JobFrame(c, 0)} : f.item < next'[f.call]
  <2>1. 0 < next[c]
    BY <1>1 DEF IInv, TypeOK, SourceInv
  <2>2. QED
    BY <1>2, <2>1 DEF JobFrame
<1>5. ItemSets'
  BY <1>2, <1>3, ItemsSame
<1>6. ItemFrames'
  BY <1>2, <1>3, <1>4, FramesItems
<1>7. QED
  BY <1>5, <1>6

LEMMA EndItems ==
  ASSUME IInv, TypeOK', NEW t \in Thread, NEW c \in Call, JobEnds(t, c)
  PROVE  ItemSets' /\ ItemFrames'
<1>1. TypeOK
  BY DEF IInv
<1>2. UNCHANGED <<next, chan, done>>
  BY DEF JobEnds, callVars
<1>3. Changes({JobFrame(c, 0)}, {})
  <2>1. stack[t] # <<>> /\ stack[t][1] = JobFrame(c, 0)
    BY <1>1, Innermost DEF JobEnds
  <2>2. Popped(t) /\ ElsewhereSame(t)
    BY <1>1, <2>1, PopStep DEF JobEnds
  <2>3. Len(stack'[t]) \in Nat
    BY DEF TypeOK
  <2>4. QED
    BY <2>1, <2>2, <2>3, PopChanges
<1>4. \A d \in Call : \A i \in 1 .. Plan[d].items : JobFrame(d, i) \notin {JobFrame(c, 0)}
  BY JobFrameIs
<1>5. ItemSets'
  BY <1>2, <1>3, <1>4, ItemsSame
<1>6. ItemFrames'
  BY <1>2, <1>3, FramesItems
<1>7. QED
  BY <1>5, <1>6

(* Only producers fill channels, and a scope is waited for while its channel *)
(* has items.                                                                *)
LEMMA CallerChan ==
  ASSUME IInv, NEW t \in Thread, NEW c \in Call,
         \/ Calls(t, c) \/ CallWithCount(t, c) \/ ExecuteWithCount(t, c) \/ Spawn(t, c)
         \/ SourceGives(t, c) \/ SourceEnds(t, c) \/ Send(t, c) \/ Leaves(t, c)
         \/ SequentialTaskEnds(t, c)
  PROVE  ChanPhase'
<1> USE DEF workVars, InCall
<1>1. TypeOK /\ CallInv /\ JobPhase /\ ChanPhase
  BY JobInvOf, ItemInvOf DEF IInv
<1>2. CASE Calls(t, c)
  <2>1. phase[c] = "idle" /\ UNCHANGED <<mode, jobs, chan>>
    BY <1>2 DEF Calls
  <2>2. PICK ph \in {"call", "enter"} : phase' = [phase EXCEPT ![c] = ph]
    BY <1>2 DEF Calls
  <2>3. \A d \in Call : phase'[d] = IF d = c THEN ph ELSE phase[d]
    BY <1>1, <2>2 DEF TypeOK
  <2>4. QED
    BY <1>1, <2>1, <2>2, <2>3 DEF ChanPhase
<1>3. CASE CallWithCount(t, c) \/ ExecuteWithCount(t, c)
  <2>1. PICK sequential \in BOOLEAN :
           /\ mode' = [mode EXCEPT ![c] = IF sequential THEN "sequential" ELSE "parallel"]
           /\ phase' = [phase EXCEPT ![c] = IF sequential THEN "pull"
                                            ELSE IF @ = "call" THEN "enter" ELSE "spawn"]
    BY <1>3, Decision
  <2>2. phase[c] \in {"call", "enter"} /\ UNCHANGED <<jobs, chan>>
    BY <1>3, Decision
  <2>3. \A d \in Call : d # c => mode'[d] = mode[d] /\ phase'[d] = phase[d]
    BY <1>1, <2>1 DEF TypeOK
  <2>4. chan[c] = <<>>
    BY <1>1, <2>2 DEF ChanPhase
  <2>5. QED
    BY <1>1, <2>2, <2>3, <2>4 DEF ChanPhase
<1>4. CASE Spawn(t, c)
  <2>1. chan[c] = <<>>
    BY <1>1, <1>4 DEF Spawn, ChanPhase
  <2>2. UNCHANGED <<mode, chan>> /\ \A d \in Call : d # c => phase'[d] = phase[d] /\ jobs'[d] = jobs[d]
    BY <1>1, <1>4 DEF Spawn, TypeOK
  <2>3. QED
    BY <1>1, <2>1, <2>2 DEF ChanPhase
<1>5. CASE SourceGives(t, c)
  <2>1. phase[c] = "pull" /\ UNCHANGED <<mode, chan, jobs>>
    BY <1>5 DEF SourceGives
  <2>2. \A d \in Call : phase'[d] = IF d = c THEN (IF mode[c] = "parallel" THEN "send" ELSE "run") ELSE phase[d]
    BY <1>1, <1>5 DEF SourceGives, TypeOK
  <2>3. QED
    BY <1>1, <2>1, <2>2 DEF ChanPhase
<1>6. CASE SourceEnds(t, c)
  <2>1. phase[c] = "pull" /\ UNCHANGED <<mode, chan, jobs>>
    BY <1>6 DEF SourceEnds
  <2>2. \A d \in Call : phase'[d] = IF d = c THEN "join" ELSE phase[d]
    BY <1>1, <1>6 DEF SourceEnds, TypeOK
  <2>3. QED
    BY <1>1, <2>1, <2>2 DEF ChanPhase, JobPhase
<1>7. CASE Send(t, c)
  <2>1. phase[c] = "send" /\ mode[c] = "parallel" /\ UNCHANGED <<mode, jobs>>
    BY <1>1, <1>7 DEF Send, TypeOK, CallInv, Over
  <2>2. /\ phase'[c] = "pull"
        /\ \A d \in Call : d # c => phase'[d] = phase[d] /\ chan'[d] = chan[d]
    BY <1>1, <1>7 DEF Send, TypeOK
  <2>3. QED
    BY <1>1, <2>1, <2>2 DEF ChanPhase
<1>8. CASE Leaves(t, c)
  <2>1. PICK ph \in Over : phase' = [phase EXCEPT ![c] = ph]
    BY <1>8 DEF Leaves
  <2>2. \A d \in Call : phase'[d] = IF d = c THEN ph ELSE phase[d]
    BY <1>1, <2>1 DEF TypeOK
  <2>3. phase[c] = "join" /\ jobs[c] = 0 /\ UNCHANGED <<jobs, mode, chan>>
    BY <1>8 DEF Leaves
  <2>4. chan[c] = <<>>
    BY <1>1, <2>3 DEF ChanPhase
  <2>5. QED
    BY <1>1, <2>1, <2>2, <2>3, <2>4 DEF ChanPhase, Over
<1>9. CASE SequentialTaskEnds(t, c)
  <2>1. phase[c] = "run" /\ UNCHANGED <<mode, jobs, chan>>
    BY <1>9 DEF SequentialTaskEnds
  <2>2. \A d \in Call : phase'[d] = IF d = c THEN "pull" ELSE phase[d]
    BY <1>1, <1>9 DEF SequentialTaskEnds, TypeOK
  <2>3. QED
    BY <1>1, <2>1, <2>2 DEF ChanPhase
<1>10. QED
  BY <1>2, <1>3, <1>4, <1>5, <1>6, <1>7, <1>8, <1>9

LEMMA WorkerChan ==
  ASSUME IInv, NEW t \in Thread,
         \/ TakeJob(t)
         \/ \E c \in Call : WorkerTaskEnds(t, c) \/ Recv(t, c) \/ JobEnds(t, c)
  PROVE  ChanPhase'
<1>1. TypeOK /\ ChanPhase
  BY ItemInvOf DEF IInv
<1>2. UNCHANGED <<phase, mode>>
  BY WorkersLeaveCalls
<1>3. CASE UNCHANGED <<jobs, chan>>
  BY <1>1, <1>2, <1>3 DEF ChanPhase
<1>4. ASSUME NEW c \in Call, JobEnds(t, c) PROVE ChanPhase'
  <2>1. chan[c] = <<>> /\ UNCHANGED chan
    BY <1>4 DEF JobEnds
  <2>2. \A d \in Call : d # c => jobs'[d] = jobs[d]
    BY <1>1, <1>4 DEF TypeOK, JobEnds
  <2>3. QED
    BY <1>1, <1>2, <2>1, <2>2 DEF ChanPhase
<1>5. ASSUME NEW c \in Call, Recv(t, c) PROVE ChanPhase'
  <2>1. chan[c] # <<>> /\ UNCHANGED jobs
    BY <1>5 DEF Recv
  <2>2. \A d \in Call : d # c => chan'[d] = chan[d]
    BY <1>1, <1>5 DEF TypeOK, Recv
  <2>3. QED
    BY <1>1, <1>2, <2>1, <2>2 DEF ChanPhase
<1>6. QED
  BY <1>3, <1>4, <1>5 DEF TakeJob, WorkerTaskEnds

-----------------------------------------------------------------------------
(* Invariance.                                                              *)

(* A program starts with empty stacks and nothing registered. *)
LEMMA InitInv ==
  ASSUME Init
  PROVE  IInv
<1>1. TypeOK
  <2>1. roots \in [Thread -> Seq(Call)]
    BY ProgramsAssumption DEF Init
  <2>2. /\ stack \in [Thread -> Seq(Frame)] /\ active \in [Thread -> Seq(Pool)]
        /\ queue \in [Pool -> Seq(Call)] /\ chan \in [Call -> Seq(Nat)]
    BY DEF Init
  <2>3. QED
    BY <2>1, <2>2 DEF Init, TypeOK
<1>2. CallInv
  BY DEF Init, CallInv, Over
<1>3. SourceInv
  <2>1. \A c \in Call : 1 \in 1 .. Plan[c].items + 1
    BY PlanAssumption
  <2>2. QED
    BY <2>1 DEF Init, SourceInv
<1>4. \A t \in Thread : stack[t] = <<>> /\ Len(stack[t]) = 0 /\ active[t] = <<>> /\ Len(active[t]) = 0
  BY DEF Init
<1>5. FrameInv
  BY <1>4 DEF FrameInv
<1>6. RootsInv
  <2>1. \A t \in Thread : \A i \in 1 .. Len(roots[t]) : roots[t][i] \in Call
    BY <1>1, ElementOfSeq DEF TypeOK
  <2>2. QED
    <3>1. /\ roots \in Programs
          /\ \A c \in Call : phase[c] = "idle"
      BY DEF Init
    <3>2. \A t, u \in Thread : \A i \in 1 .. Len(roots[t]), j \in 1 .. Len(roots[u]) :
             roots[t][i] \notin Nested /\ (roots[t][i] = roots[u][j] => t = u /\ i = j)
      BY <3>1, RootsAssumption
    <3>3. QED
      BY <2>1, <3>1, <3>2 DEF RootsInv
<1>7. \A t \in Thread : Frames(t) = {} /\ Registered(t) = {}
  BY <1>4 DEF Frames, Registered
<1>8. RegistryInv
  BY <1>4, <1>7 DEF RegistryInv, Owners
<1>9. NoSelfWait /\ LosesParallelismOnlyByReentry
  BY <1>4, <1>7 DEF NoSelfWait, LosesParallelismOnlyByReentry
<1>10. JobInv
  <2>1. \A p \in Pool : Len(queue[p]) = 0
    BY DEF Init
  <2>2. ASSUME NEW c \in Call PROVE StackJobs(c) = {} /\ QueuedJobs(c) = {}
    BY <1>4, <2>1, PlanAssumption DEF StackJobs, JobHeights, QueuedJobs
  <2>3. \A c \in Call : jobs[c] = 0 /\ mode[c] = "none"
    BY DEF Init
  <2>4. \A c \in Call : IsFiniteSet(StackJobs(c)) /\ jobs[c] = Cardinality(StackJobs(c)) + Cardinality(QueuedJobs(c))
    BY <2>2, <2>3, FS_EmptySet
  <2>5. QED
    BY <2>1, <2>3, <2>4 DEF JobInv
<1>11. ItemInv
  <2>1. \A c \in Call : done[c] = {} /\ Buffered(c) = {} /\ next[c] = 1 /\ chan[c] = <<>>
    BY DEF Init, Buffered
  <2>2. 1 .. 1 - 1 = {}
    OBVIOUS
  <2>3. QED
    BY <1>4, <2>1, <2>2 DEF ItemInv
<1>12. QED
  BY <1>1, <1>2, <1>3, <1>5, <1>6, <1>8, <1>9, <1>10, <1>11 DEF IInv

(* Making a call keeps the invariant. *)
LEMMA CallsInv ==
  ASSUME IInv, NEW t \in Thread, NEW d \in Call, Calls(t, d)
  PROVE  IInv'
<1>1. TypeOK'
  BY CallsType DEF IInv
<1>2. CallInv' /\ SourceInv'
  BY CallStep
<1>3. FrameInv' /\ RootsInv'
  BY CallsFrames, CallsRoots
<1>4. RegistryInv' /\ NoSelfWait' /\ LosesParallelismOnlyByReentry'
  BY <1>1, CallsRegistry, CallsSelfWait, CallsLoses
<1>5. JobInv'
  BY CallsCount, CallerJobPhase, JobInvOf
<1>6. ItemInv'
  BY CallsItems, CallerChan, ItemInvOf
<1>7. QED
  BY <1>1, <1>2, <1>3, <1>4, <1>5, <1>6 DEF IInv

(* Deciding its strategy does. *)
LEMMA DecideInv ==
  ASSUME IInv, NEW t \in Thread, NEW c \in Call, CallWithCount(t, c) \/ ExecuteWithCount(t, c)
  PROVE  IInv'
<1>1. TypeOK'
  BY CallerType
<1>2. CallInv' /\ SourceInv'
  BY CallStep
<1>3. Stays(t, c) /\ UNCHANGED <<stack, next, chan, jobs, queue, done>>
  BY CallerStays, Decision
<1>4. FrameInv' /\ RootsInv'
  BY <1>3, StaysFrames, OthersRoots
<1>5. RegistryInv' /\ NoSelfWait' /\ LosesParallelismOnlyByReentry'
  BY DecideRegistry, DecideSelfWait, DecideLoses
<1>6. JobInv'
  BY <1>3, StaysCount, CallerJobPhase, JobInvOf
<1>7. ItemInv'
  BY <1>3, StaysItems, CallerChan, ItemInvOf
<1>8. QED
  BY <1>1, <1>2, <1>4, <1>5, <1>6, <1>7 DEF IInv

(* Producing and the tasks of the fallback do. *)
LEMMA CallerInv ==
  ASSUME IInv, NEW t \in Thread, NEW c \in Call,
         \/ Spawn(t, c) \/ SourceGives(t, c) \/ SourceEnds(t, c) \/ Send(t, c)
         \/ SequentialTaskEnds(t, c)
  PROVE  IInv'
<1>1. TypeOK' /\ TypeOK
  BY CallerType DEF IInv
<1>2. CallInv' /\ SourceInv'
  BY CallStep
<1>3. Stays(t, c) /\ UNCHANGED stack
  BY CallerStays DEF Stays
<1>4. FrameInv' /\ RootsInv'
  BY <1>3, StaysFrames, OthersRoots
<1>5. UNCHANGED <<active, guard, mode>>
  BY DEF Spawn, SourceGives, SourceEnds, Send, SequentialTaskEnds
<1>6. RegistryInv' /\ NoSelfWait' /\ LosesParallelismOnlyByReentry'
  <2>1. \A u \in Thread : CallsOn(u)' = CallsOn(u)
    BY <1>3 DEF CallsOn, Frames
  <2>2. QED
    BY <1>3, <1>5, <2>1, OthersRegistry, OthersSelfWait, OthersLoses
<1>7. JobInv'
  <2>1. QueuesInv' /\ JobCount'
    <3>1. CASE Spawn(t, c)
      BY <3>1, SpawnCount
    <3>2. CASE ~Spawn(t, c)
      <4>1. UNCHANGED <<jobs, queue>>
        BY <3>2 DEF SourceGives, SourceEnds, Send, SequentialTaskEnds, workVars
      <4>2. QED
        BY <1>3, <4>1, StaysCount
    <3>3. QED
      BY <3>1, <3>2
  <2>2. QED
    BY <2>1, CallerJobPhase, JobInvOf
<1>8. ItemInv'
  <2>1. \A d \in Call : next'[d] = next[d] \/ next'[d] = next[d] + 1
    <3>1. UNCHANGED next \/ next' = [next EXCEPT ![c] = @ + 1]
      BY DEF Spawn, SourceGives, SourceEnds, Send, SequentialTaskEnds
    <3>2. next \in [Call -> Nat]
      BY <1>1 DEF TypeOK
    <3>3. QED
      BY <3>1, <3>2
  <2>2. ItemSets'
    <3>1. CASE Spawn(t, c) \/ SourceGives(t, c) \/ SourceEnds(t, c)
      <4>1. UNCHANGED <<next, chan, done>>
        BY <3>1 DEF Spawn, SourceGives, SourceEnds, workVars
      <4>2. QED
        BY <1>3, <2>1, <4>1, StaysItems
    <3>2. QED
      BY <3>1, SendItems, SequentialItems
  <2>3. QED
    BY <1>3, <2>1, <2>2, StaysItems, CallerChan, ItemInvOf
<1>9. QED
  BY <1>1, <1>2, <1>4, <1>6, <1>7, <1>8 DEF IInv

(* Ending the call does. *)
LEMMA LeaveInv ==
  ASSUME IInv, NEW t \in Thread, NEW c \in Call, Leave(t, c)
  PROVE  IInv'
<1>1. TypeOK' /\ TypeOK /\ FrameInv
  BY CallerType DEF IInv
<1>2. CallInv' /\ SourceInv'
  BY CallStep
<1>3. Leaves(t, c)
  BY LeaveStep
<1>4. FrameInv' /\ RootsInv'
  BY <1>3, LeavesFrames, OthersRoots
<1>5. RegistryInv' /\ LosesParallelismOnlyByReentry'
  BY <1>1, <1>3, LeavesRegistry, LeavesLoses
<1>6. NoSelfWait'
  <2>1. \A u \in Thread : CallsOn(u)' \subseteq CallsOn(u)
    <3>1. Popped(t) /\ ElsewhereSame(t)
      BY <1>1, <1>3, PopStep DEF Leaves
    <3>2. /\ CallsOn(t)' = CallsOn(t) \ {c}
          /\ \A u \in Thread : u # t => CallsOn(u)' = CallsOn(u)
      BY <1>1, <1>3, <3>1, CallsOnPop DEF Leaves
    <3>3. QED
      BY <3>2
  <2>2. UNCHANGED mode
    BY <1>3 DEF Leaves
  <2>3. QED
    BY <2>1, <2>2, OthersSelfWait
<1>7. JobInv'
  BY <1>1, <1>3, LeavesCount, CallerJobPhase, JobInvOf
<1>8. ItemInv'
  BY <1>1, <1>3, LeavesItems, CallerChan, ItemInvOf
<1>9. QED
  BY <1>1, <1>2, <1>4, <1>5, <1>6, <1>7, <1>8 DEF IInv

(* And so do the workers. *)
LEMMA WorkerInv ==
  ASSUME IInv, NEW t \in Thread,
         \/ TakeJob(t)
         \/ \E c \in Call : WorkerTaskEnds(t, c) \/ Recv(t, c) \/ JobEnds(t, c)
  PROVE  IInv'
<1>1. TypeOK' /\ TypeOK
  BY WorkerType DEF IInv
<1>2. UNCHANGED <<active, guard, mode, phase, next, open, broken, roots>> /\ CallInv' /\ SourceInv'
  BY WorkersLeaveCalls
<1>3. JobMoves(t) /\ ElsewhereSame(t)
  BY WorkerMoves
<1>4. FrameInv' /\ RootsInv'
  BY <1>1, <1>2, <1>3, WorkersFrames, OthersRoots
<1>5. RegistryInv' /\ NoSelfWait' /\ LosesParallelismOnlyByReentry'
  <2>1. \A u \in Thread : CallsOn(u)' = CallsOn(u)
    BY <1>1, <1>3, CallsOnShift
  <2>2. QED
    BY <1>1, <1>2, <1>3, <2>1, OthersRegistry, OthersSelfWait, WorkersLoses
<1>6. JobInv'
  <2>1. ASSUME NEW c \in Call, WorkerTaskEnds(t, c) PROVE QueuesInv' /\ JobCount'
    <3>1. UNCHANGED <<jobs, queue>>
      BY <2>1 DEF WorkerTaskEnds
    <3>2. \E i : InJob(t, c, i) /\ Replace(t, JobFrame(c, 0))
      BY <2>1 DEF WorkerTaskEnds
    <3>3. QED
      BY <3>1, <3>2, PlanAssumption, ItemCount
  <2>2. ASSUME NEW c \in Call, Recv(t, c) PROVE QueuesInv' /\ JobCount'
    <3>1. UNCHANGED <<jobs, queue>> /\ InJob(t, c, 0) /\ Replace(t, JobFrame(c, Head(chan[c]))) /\ chan[c] # <<>>
      BY <2>2 DEF Recv
    <3>2. Head(chan[c]) \in 0 .. Plan[c].items
      BY <3>1, ReceivedItem
    <3>3. QED
      BY <3>1, <3>2, ItemCount
  <2>3. QueuesInv' /\ JobCount'
    BY <1>1, <2>1, <2>2, TakeCount, EndCount
  <2>4. QED
    BY <2>3, WorkerJobPhase, JobInvOf
<1>7. ItemInv'
  <2>1. ItemSets' /\ ItemFrames'
    BY <1>1, TakeItems, TaskItems, RecvItems, EndItems
  <2>2. QED
    BY <2>1, WorkerChan, ItemInvOf
<1>8. QED
  BY <1>1, <1>2, <1>4, <1>5, <1>6, <1>7 DEF IInv

LEMMA NextInv ==
  ASSUME IInv, [Next]_vars
  PROVE  IInv'
<1>1. TypeOK
  BY DEF IInv
<1>2. CASE UNCHANGED vars
  <2>1. UNCHANGED <<stack, active, guard, mode, phase, next, open, broken, chan, jobs, queue, done, roots>>
    BY <1>2 DEF vars, callVars, workVars
  <2>2. TypeOK' /\ CallInv' /\ SourceInv' /\ FrameInv' /\ RootsInv'
    BY <2>1 DEF IInv, TypeOK, CallInv, SourceInv, FrameInv, RootsInv
  <2>3. \A u \in Thread : CallsOn(u)' = CallsOn(u)
    BY <2>1 DEF CallsOn, Frames
  <2>4. RegistryInv' /\ NoSelfWait' /\ LosesParallelismOnlyByReentry'
    BY <2>1, <2>3, OthersRegistry, OthersSelfWait, OthersLoses
  <2>5. JobPhase' /\ ChanPhase'
    BY <2>1, JobInvOf, ItemInvOf DEF IInv, JobPhase, ChanPhase
  <2>6. JobInv' /\ ItemInv'
    BY <2>1, <2>5, StaysCount, StaysItems, JobInvOf, ItemInvOf
  <2>7. QED
    BY <2>2, <2>4, <2>6 DEF IInv
<1>3. ASSUME NEW t \in Thread, Step(t) PROVE IInv'
  <2>1. \/ StartRoot(t) \/ TakeJob(t)
        \/ \E c \in Call :
              \/ ReporterCalls(t, c)
              \/ CallWithCount(t, c) \/ ExecuteWithCount(t, c) \/ Spawn(t, c)
              \/ SourceCalls(t, c) \/ SourceGives(t, c) \/ SourceEnds(t, c)
              \/ Send(t, c) \/ Leave(t, c)
              \/ TaskCalls(t, c) \/ SequentialTaskEnds(t, c) \/ WorkerTaskEnds(t, c)
              \/ Recv(t, c) \/ JobEnds(t, c)
    BY <1>1, <1>3, StepCases
  <2>2. CASE StartRoot(t) \/ \E c \in Call : ReporterCalls(t, c) \/ SourceCalls(t, c) \/ TaskCalls(t, c)
    BY <2>2, MakesCall, CallsInv
  <2>3. CASE \E c \in Call : CallWithCount(t, c) \/ ExecuteWithCount(t, c)
    BY <2>3, DecideInv
  <2>4. CASE \E c \in Call : \/ Spawn(t, c) \/ SourceGives(t, c) \/ SourceEnds(t, c) \/ Send(t, c)
                             \/ SequentialTaskEnds(t, c)
    BY <2>4, CallerInv
  <2>5. CASE \E c \in Call : Leave(t, c)
    BY <2>5, LeaveInv
  <2>6. CASE TakeJob(t) \/ \E c \in Call : WorkerTaskEnds(t, c) \/ Recv(t, c) \/ JobEnds(t, c)
    BY <2>6, WorkerInv
  <2>7. QED
    BY <2>1, <2>2, <2>3, <2>4, <2>5, <2>6
<1>4. QED
  BY <1>2, <1>3 DEF Next, Terminated

(* The invariant holds throughout, for every program: IInv says where each  *)
(* caller, frame, registration, job and item can be.                        *)
THEOREM Invariance == Spec => []IInv
<1>1. Init => IInv
  BY InitInv
<1>2. IInv /\ [Next]_vars => IInv'
  BY NextInv
<1>3. QED
  BY <1>1, <1>2, PTL DEF Spec

-----------------------------------------------------------------------------
(* What follows for threads and calls.                                      *)

(* At every point of every program the state is well formed: stacks are of  *)
(* frames, registries of pools, and counts of worker jobs never go below    *)
(* zero, however calls, workers and reporters interleave.                   *)
THEOREM TypeCorrect == Spec => []TypeOK
BY Invariance, PTL DEF IInv

(* No thread waits in a parallel call for a pool it is part of, or in two   *)
(* parallel calls for one pool: ActiveBatchGuard and current_thread_index   *)
(* are enough for that, in any program and for any number of executors.     *)
THEOREM NeverSelfWait == Spec => []NoSelfWait
BY Invariance, PTL DEF IInv

(* In any program a call runs sequentially only because it is small, its    *)
(* pool has one thread, or it is made from within the pool or under a call  *)
(* that uses the pool.                                                      *)
THEOREM SequentialByReentry == Spec => []LosesParallelismOnlyByReentry
BY Invariance, PTL DEF IInv

(* Registrations of different pools, one for each owner, are as many as the *)
(* owners.                                                                  *)
LEMMA RegistryCount ==
  ASSUME IInv, NEW t \in Thread
  PROVE  Len(active[t]) = Cardinality(Owners(t))
<1>0. active[t] \in Seq(Pool) /\ Registry(active[t], Owners(t))
  BY RegistryOf DEF IInv, TypeOK
<1>1. /\ {active[t][k] : k \in 1 .. Len(active[t])} = {Plan[c].pool : c \in Owners(t)}
      /\ \A k, l \in 1 .. Len(active[t]) : active[t][k] = active[t][l] => k = l
      /\ \A c, d \in Owners(t) : Plan[c].pool = Plan[d].pool => c = d
  BY <1>0 DEF Registry, Elements, Distinct
<1>2. PICK n \in Nat : n = Len(active[t])
  BY <1>0
<1>3. \A k \in 1 .. n : \E c \in Owners(t) : Plan[c].pool = active[t][k]
  <2>1. \A k \in 1 .. n : active[t][k] \in {active[t][j] : j \in 1 .. n}
    OBVIOUS
  <2>2. {active[t][j] : j \in 1 .. n} = {Plan[c].pool : c \in Owners(t)}
    BY <1>1, <1>2, Zenon
  <2>3. TAKE k \in 1 .. n
  <2>4. active[t][k] \in {Plan[c].pool : c \in Owners(t)}
    BY <2>1, <2>2
  <2>5. QED
    BY <2>4
<1> DEFINE f == [k \in 1 .. n |-> CHOOSE c \in Owners(t) : Plan[c].pool = active[t][k]]
<1>4. ASSUME NEW k \in 1 .. n PROVE f[k] \in Owners(t) /\ Plan[f[k]].pool = active[t][k]
  BY <1>3
<1>5. f \in [1 .. n -> Owners(t)]
  BY <1>3
<1> HIDE DEF f
<1>6. \A k, l \in 1 .. n : f[k] = f[l] => k = l
  BY <1>1, <1>2, <1>4
<1>7. ASSUME NEW c \in Owners(t) PROVE \E k \in 1 .. n : f[k] = c
  <2>1. PICK k \in 1 .. n : active[t][k] = Plan[c].pool
    <3>1. {active[t][k] : k \in 1 .. n} = {Plan[d].pool : d \in Owners(t)}
      BY <1>1, <1>2, Zenon
    <3>2. Plan[c].pool \in {active[t][k] : k \in 1 .. n}
      BY <3>1
    <3>3. QED
      BY <3>2
  <2>2. f[k] = c
    BY <1>1, <1>4, <2>1
  <2>3. QED
    BY <2>2
<1>8. IsFiniteSet(1 .. n) /\ Cardinality(1 .. n) = n
  BY FS_Interval
<1>9. Cardinality(Owners(t)) = n
  BY <1>5, <1>6, <1>7, <1>8, SameCardinality
<1>10. QED
  BY <1>2, <1>9

(* The registry of each thread holds a registration for each call on its    *)
(* stack that owns a guard, and no other, at every point of any program:    *)
(* returning, unwinding and the hand-over of call_with_count leak none.     *)
THEOREM RegistryExact == Spec => []GuardRegistry
<1>1. IInv => GuardRegistry
  <2> SUFFICES ASSUME IInv PROVE GuardRegistry
    OBVIOUS
  <2>1. \A t \in Thread : Registered(t) = {Plan[c].pool : c \in Owners(t)}
    BY DEF IInv, RegistryInv
  <2>2. \A t \in Thread : Len(active[t]) = Cardinality(Owners(t))
    BY RegistryCount
  <2>3. QED
    BY <2>1, <2>2 DEF GuardRegistry, Registered, Owners
<1>2. QED
  BY <1>1, Invariance, PTL

(* In any program, a call that is over has no job left, in the queue of its *)
(* pool or on a thread, and its channel is drained; if it returned, every   *)
(* item it declared has completed, on whichever threads.                    *)
THEOREM CompletesOnReturn == Spec => []CompleteOnReturn
<1>1. IInv => CompleteOnReturn
  <2> SUFFICES ASSUME IInv, NEW c \in Call
               PROVE  /\ phase[c] \in Over => jobs[c] = 0 /\ chan[c] = <<>>
                      /\ phase[c] = "returned" => done[c] = 1 .. Plan[c].items
    BY DEF CompleteOnReturn
  <2>1. TypeOK /\ SourceInv /\ JobInv /\ JobPhase /\ ItemSets /\ ChanPhase
    BY JobInvOf, ItemInvOf DEF IInv
  <2>2. ASSUME phase[c] \in Over PROVE jobs[c] = 0 /\ chan[c] = <<>>
    <3>1. phase[c] \notin {"spawn", "pull", "send", "join"}
      BY <2>2 DEF Over
    <3>2. ~(jobs[c] > 0) /\ jobs[c] \in Nat
      BY <2>1, <3>1 DEF TypeOK, JobPhase
    <3>3. chan[c] = <<>>
      BY <2>1, <3>1 DEF ChanPhase
    <3>4. QED
      BY <3>2, <3>3
  <2>3. ASSUME phase[c] = "returned" PROVE done[c] = 1 .. Plan[c].items
    <3>1. jobs[c] = 0 /\ chan[c] = <<>>
      BY <2>2, <2>3 DEF Over
    <3>2. Buffered(c) = {}
      BY <3>1 DEF Buffered
    <3>3. ASSUME NEW i \in Held(c) PROVE FALSE
      <4>1. PICK t \in Thread : JobFrame(c, i) \in Frames(t)
        BY DEF Held
      <4>2. PICK k \in 1 .. Len(stack[t]) : stack[t][k] = JobFrame(c, i)
        BY <4>1 DEF Frames
      <4>3. IsJobOf(stack[t][k], c)
        BY <4>2 DEF IsJobOf, JobFrame
      <4>4. QED
        BY <3>1, <4>3, JobsOnStack
    <3>4. next[c] = Plan[c].items + 1 /\ Plan[c].items \in Nat
      BY <2>1, <2>3, PlanAssumption DEF SourceInv
    <3>5. 1 .. next[c] - 1 = 1 .. Plan[c].items
      BY <3>4
    <3>6. QED
      BY <2>1, <3>2, <3>3, <3>5 DEF ItemSets
  <2>4. QED
    BY <2>2, <2>3
<1>2. QED
  BY <1>1, Invariance, PTL
=============================================================================
