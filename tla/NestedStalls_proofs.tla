------------------------- MODULE NestedStalls_proofs -------------------------
(***************************************************************************)
(* What nested calls can come to a standstill for, proved for every        *)
(* program: first that NestingInv of NestedPoolsInv is inductive on top of *)
(* IInv, then that a state in which every thread is blocked has a cycle of *)
(* pools or a source that waits for a call.  And that they cannot go on    *)
(* forever: CountInv is inductive as well, and every step is one of those  *)
(* that a call has left.  At the end, that a thread is blocked if and only *)
(* if no guard of an action holds for it.                                  *)
(***************************************************************************)
EXTENDS NestedPools_proofs, WellFoundedInduction

-----------------------------------------------------------------------------
(* Stacks from the bottom.                                                  *)

(* The frames of a stack are those at its heights. *)
LEMMA AtFrames ==
  ASSUME TypeOK, NEW t \in Thread
  PROVE  /\ Len(stack[t]) \in Nat
         /\ \A h \in 1 .. Len(stack[t]) : At(t, h) \in Frame /\ At(t, h) \in Frames(t)
         /\ \A f \in Frames(t) : \E h \in 1 .. Len(stack[t]) : f = At(t, h)
         /\ stack[t] # <<>> => /\ 1 \in 1 .. Len(stack[t]) /\ Len(stack[t]) \in 1 .. Len(stack[t])
                               /\ At(t, Len(stack[t])) = stack[t][1] /\ Head(stack[t]) = stack[t][1]
         /\ stack[t] = <<>> => Len(stack[t]) = 0
<1> DEFINE n == Len(stack[t])
<1>1. /\ n \in Nat /\ \A k \in 1 .. n : stack[t][k] \in Frame
      /\ stack[t] # <<>> => n > 0 /\ Head(stack[t]) = stack[t][1]
      /\ stack[t] = <<>> => n = 0
  BY StackFrames
<1>2. \A h \in 1 .. n : At(t, h) = stack[t][n + 1 - h]
  BY DEF At
<1>3. Frames(t) = {stack[t][k] : k \in 1 .. n}
  BY DEF Frames
<1> HIDE DEF n
<1>4. \A h \in 1 .. n : n + 1 - h \in 1 .. n /\ n + 1 - (n + 1 - h) = h
  BY <1>1
<1>5. ASSUME NEW f \in Frames(t) PROVE \E h \in 1 .. n : f = At(t, h)
  <2>1. PICK k \in 1 .. n : f = stack[t][k]
    BY <1>3
  <2>2. At(t, n + 1 - k) = stack[t][n + 1 - (n + 1 - k)]
    BY <1>2, <1>4
  <2>3. QED
    BY <1>4, <2>1, <2>2
<1>6. n > 0 => 1 \in 1 .. n /\ n \in 1 .. n /\ n + 1 - n = 1
  BY <1>1
<1>7. QED
  BY <1>1, <1>2, <1>3, <1>4, <1>5, <1>6 DEF n

(* A call under way has one frame, at one height, and is interrupted there  *)
(* unless it is innermost.                                                  *)
LEMMA OneFrame ==
  ASSUME TypeOK, FrameInv, NEW t \in Thread, NEW h \in 1 .. Len(stack[t]), At(t, h).kind = "call"
  PROVE  /\ At(t, h).call \in Call /\ At(t, h) = CallFrame(At(t, h).call)
         /\ phase[At(t, h).call] \notin {"idle"} \cup Over
         /\ h < Len(stack[t]) => phase[At(t, h).call] \in {"pull", "run", "join"}
         /\ \A u \in Thread : \A l \in 1 .. Len(stack[u]) :
               At(u, l).kind = "call" /\ At(u, l).call = At(t, h).call => u = t /\ l = h
<1> DEFINE k == Len(stack[t]) + 1 - h
<1>1. Len(stack[t]) \in Nat /\ At(t, h) \in Frame
  BY AtFrames
<1>2. k \in 1 .. Len(stack[t]) /\ stack[t][k] = At(t, h) /\ (h < Len(stack[t]) => k > 1)
  BY <1>1 DEF At
<1> HIDE DEF k
<1>3. At(t, h).call \in Call /\ At(t, h) = CallFrame(At(t, h).call)
  BY <1>1, FrameCases
<1>4. /\ phase[At(t, h).call] \notin {"idle"} \cup Over
      /\ k > 1 => phase[At(t, h).call] \in {"pull", "run", "join"}
      /\ \A u \in Thread : \A l \in 1 .. Len(stack[u]) : stack[u][l] = stack[t][k] => u = t /\ l = k
  BY <1>2 DEF FrameInv
<1>5. ASSUME NEW u \in Thread, NEW l \in 1 .. Len(stack[u]),
             At(u, l).kind = "call", At(u, l).call = At(t, h).call
      PROVE  u = t /\ l = h
  <2> DEFINE j == Len(stack[u]) + 1 - l
  <2>1. Len(stack[u]) \in Nat /\ At(u, l) \in Frame
    BY AtFrames
  <2>2. j \in 1 .. Len(stack[u]) /\ stack[u][j] = At(u, l) /\ l = Len(stack[u]) + 1 - j
    BY <2>1 DEF At
  <2> HIDE DEF j
  <2>3. At(u, l) = At(t, h)
    BY <1>3, <1>5, <2>1, FrameCases
  <2>4. u = t /\ j = k
    BY <1>2, <1>4, <2>2, <2>3
  <2>5. h = Len(stack[t]) + 1 - k
    BY <1>1 DEF k
  <2>6. QED
    BY <2>2, <2>4, <2>5
<1>6. QED
  BY <1>2, <1>3, <1>4, <1>5

\* A step of thread t changes at most the frame at height m + 1 of its stack; if
\* there is one afterwards it is f.
Moves(t, m, f) ==
    /\ m \in Nat /\ Len(stack[t]) \in {m, m + 1} /\ Len(stack'[t]) \in {m, m + 1}
    /\ \A h \in 1 .. m : At(t, h)' = At(t, h)
    /\ Len(stack'[t]) = m + 1 => At(t, m + 1)' = f
    /\ ElsewhereSame(t)

\* The other frames, and their calls, stay as they are.
Unmoved(t, m, u, h) == h \in 1 .. (IF u = t THEN m ELSE Len(stack[u]))
Still(t, m) ==
    \A u \in Thread, h \in Nat : Unmoved(t, m, u, h) /\ At(u, h).kind = "call" =>
        phase'[At(u, h).call] = phase[At(u, h).call] /\ next'[At(u, h).call] = next[At(u, h).call]

(* Before and after such a step, a frame is unmoved or at height m + 1. *)
LEMMA MovesAt ==
  ASSUME TypeOK, NEW t \in Thread, NEW m, NEW f, Moves(t, m, f)
  PROVE  /\ \A u \in Thread, h \in Nat : Unmoved(t, m, u, h) =>
                /\ h \in 1 .. Len(stack[u]) /\ h \in 1 .. Len(stack'[u]) /\ At(u, h)' = At(u, h)
                /\ u # t => (h < Len(stack'[u]) <=> h < Len(stack[u]))
         /\ \A u \in Thread : \A h \in 1 .. Len(stack'[u]) :
                \/ h \in Nat /\ Unmoved(t, m, u, h)
                \/ u = t /\ h = m + 1 /\ Len(stack'[t]) = m + 1 /\ At(u, h)' = f
         /\ \A u \in Thread : \A h \in 1 .. Len(stack[u]) :
                \/ h \in Nat /\ Unmoved(t, m, u, h)
                \/ u = t /\ h = m + 1 /\ Len(stack[t]) = m + 1
<1>1. m \in Nat /\ Len(stack[t]) \in {m, m + 1} /\ Len(stack'[t]) \in {m, m + 1}
  BY DEF Moves
<1>2. \A u \in Thread : u # t => stack'[u] = stack[u]
  BY DEF Moves, ElsewhereSame
<1>3. \A u \in Thread : Len(stack[u]) \in Nat
  BY AtFrames
<1>4. \A j \in {m, m + 1} : /\ \A h \in Nat : h \in 1 .. m => h \in 1 .. j
                            /\ \A h \in 1 .. j : h \in Nat /\ (h \in 1 .. m \/ (h = m + 1 /\ j = m + 1))
  BY <1>1
<1>5. ASSUME NEW u \in Thread, NEW h \in Nat, Unmoved(t, m, u, h)
      PROVE  /\ h \in 1 .. Len(stack[u]) /\ h \in 1 .. Len(stack'[u]) /\ At(u, h)' = At(u, h)
             /\ u # t => (h < Len(stack'[u]) <=> h < Len(stack[u]))
  <2>1. CASE u = t
    <3>1. h \in 1 .. m
      BY <1>5, <2>1 DEF Unmoved
    <3>2. QED
      BY <1>1, <1>4, <2>1, <3>1 DEF Moves
  <2>2. CASE u # t
    BY <1>2, <1>5, <2>2 DEF Unmoved, At
  <2>3. QED
    BY <2>1, <2>2
<1>6. ASSUME NEW u \in Thread, NEW h \in 1 .. Len(stack'[u])
      PROVE  \/ h \in Nat /\ Unmoved(t, m, u, h)
             \/ u = t /\ h = m + 1 /\ Len(stack'[t]) = m + 1 /\ At(u, h)' = f
  <2>1. CASE u = t
    <3>1. CASE h \in Nat /\ h \in 1 .. m
      BY <2>1, <3>1 DEF Unmoved
    <3>2. CASE h = m + 1 /\ Len(stack'[t]) = m + 1
      BY <2>1, <3>2 DEF Moves
    <3>3. QED
      BY <1>1, <1>4, <2>1, <3>1, <3>2
  <2>2. CASE u # t
    BY <1>2, <1>3, <2>2 DEF Unmoved
  <2>3. QED
    BY <2>1, <2>2
<1>7. ASSUME NEW u \in Thread, NEW h \in 1 .. Len(stack[u])
      PROVE  \/ h \in Nat /\ Unmoved(t, m, u, h)
             \/ u = t /\ h = m + 1 /\ Len(stack[t]) = m + 1
  <2>1. CASE u = t
    <3>1. CASE h \in Nat /\ h \in 1 .. m
      BY <2>1, <3>1 DEF Unmoved
    <3>2. QED
      BY <1>1, <1>4, <2>1, <3>1
  <2>2. CASE u # t
    BY <1>3, <2>2 DEF Unmoved
  <2>3. QED
    BY <2>1, <2>2
<1>8. QED
  BY <1>5, <1>6, <1>7

(* The stacks stay in order if the frame that comes, or stays, at the top   *)
(* of t's stack fits what is below it.                                      *)
LEMMA StackKept ==
  ASSUME TypeOK, TypeOK', FrameInv, StackInv, NEW t \in Thread, NEW m, NEW f, Moves(t, m, f), Still(t, m),
         \A u \in Thread : roots[u] = <<>> => roots'[u] = <<>>,
         Len(stack'[t]) = m + 1 =>
            /\ m = 0 => Bottom(t, f)
            /\ m > 0 => On(f, At(t, m))
            /\ f.kind = "job" => Plan[f.call].pool = Home[t]
  PROVE  StackInv'
<1>1. m \in Nat /\ \A u \in Thread : Len(stack[u]) \in Nat
  BY AtFrames DEF Moves
<1>2. ASSUME NEW u \in Thread, Home[u] # NoPool PROVE roots'[u] = <<>>
  BY <1>2 DEF StackInv
<1>3. ASSUME NEW u \in Thread, NEW h \in Nat, Unmoved(t, m, u, h), NEW g PROVE On(g, At(u, h))' <=> On(g, At(u, h))
  <2>1. At(u, h)' = At(u, h) /\ h \in 1 .. Len(stack[u])
    BY <1>3, MovesAt
  <2>2. CASE At(u, h).kind = "job"
    BY <2>1, <2>2 DEF On
  <2>3. CASE At(u, h).kind # "job"
    <3>1. At(u, h).kind = "call"
      BY <2>1, <2>3, AtFrames, FrameCases
    <3>2. phase'[At(u, h).call] = phase[At(u, h).call] /\ next'[At(u, h).call] = next[At(u, h).call]
      BY <1>3, <3>1 DEF Still
    <3>3. QED
      BY <2>1, <3>2 DEF On
  <2>4. QED
    BY <2>2, <2>3
<1>4. ASSUME NEW u \in Thread, NEW h \in 1 .. Len(stack'[u])
      PROVE  /\ h = 1 => Bottom(u, At(u, h)')
             /\ h < Len(stack'[u]) => On(At(u, h + 1), At(u, h))'
             /\ At(u, h)'.kind = "job" => Plan[At(u, h)'.call].pool = Home[u]
  <2>1. CASE h \in Nat /\ Unmoved(t, m, u, h)
    <3>1. h \in 1 .. Len(stack[u]) /\ At(u, h)' = At(u, h) /\ (u # t => (h < Len(stack'[u]) <=> h < Len(stack[u])))
      BY <2>1, MovesAt
    <3>2. ASSUME h < Len(stack'[u]) PROVE On(At(u, h + 1)', At(u, h))
      <4>1. h + 1 \in 1 .. Len(stack'[u]) /\ h + 1 \in Nat
        <5>1. Len(stack'[u]) \in Nat
          <6>1. stack'[u] \in Seq(Frame)
            BY DEF TypeOK
          <6>2. QED
            BY <6>1, LenProperties
        <5>2. \A n \in Nat : h < n => h + 1 \in 1 .. n
          BY <2>1
        <5>3. QED
          BY <2>1, <3>2, <5>1, <5>2
      <4>2. CASE Unmoved(t, m, u, h + 1)
        <5>1. h + 1 \in 1 .. Len(stack[u]) /\ At(u, h + 1)' = At(u, h + 1)
          BY <4>1, <4>2, MovesAt
        <5>2. h < Len(stack[u])
          BY <1>1, <2>1, <5>1
        <5>3. QED
          BY <3>1, <5>1, <5>2 DEF StackInv
      <4>3. CASE u = t /\ h + 1 = m + 1 /\ Len(stack'[t]) = m + 1 /\ At(u, h + 1)' = f
        <5>1. h = m /\ m > 0
          BY <1>1, <2>1, <4>3
        <5>2. On(f, At(t, m))
          BY <4>3, <5>1
        <5>3. QED
          BY <4>3, <5>1, <5>2
      <4>4. QED
        BY <4>1, <4>2, <4>3, MovesAt
    <3>3. h < Len(stack'[u]) => On(At(u, h + 1), At(u, h))'
      <4>1. \A g : On(g, At(u, h))' <=> On(g, At(u, h))
        BY <1>3, <2>1
      <4> HIDE DEF On
      <4>2. On(At(u, h + 1), At(u, h))' <=> On(At(u, h + 1)', At(u, h))
        <5>1. PICK g : g = At(u, h + 1)'
          OBVIOUS
        <5>2. On(g, At(u, h))' <=> On(g, At(u, h))
          BY <4>1
        <5>3. QED
          BY <5>1, <5>2 DEF On, At
      <4>3. QED
        BY <3>2, <4>2
    <3>4. /\ h = 1 => Bottom(u, At(u, h))
          /\ At(u, h).kind = "job" => Plan[At(u, h).call].pool = Home[u]
      BY <3>1 DEF StackInv
    <3>5. QED
      BY <3>1, <3>3, <3>4
  <2>2. CASE u = t /\ h = m + 1 /\ Len(stack'[t]) = m + 1 /\ At(u, h)' = f
    <3>1. ~(h < Len(stack'[u])) /\ (h = 1 => m = 0)
      BY <1>1, <2>2
    <3>2. QED
      BY <2>2, <3>1
  <2>3. QED
    BY <2>1, <2>2, MovesAt
<1>5. QED
  BY <1>2, <1>4 DEF StackInv, Bottom, At

\* Frame f is of a pool that is the one of frame g, or below it.
Low(rank, f, g) ==
    \/ Plan[f.call].pool = Plan[g.call].pool
    \/ rank[Plan[f.call].pool] < rank[Plan[g.call].pool]

(* Calls that have been made stay made, so that an order of the pools found *)
(* later was an order before.                                               *)
LEMMA DescentKept ==
  ASSUME TypeOK, TypeOK', DescentInv, NEW t \in Thread, NEW m, NEW f, Moves(t, m, f),
         \A c \in Call : phase[c] # "idle" => phase'[c] # "idle",
         Len(stack'[t]) = m + 1 /\ m > 0 =>
            \A rank \in [Pool -> 1 .. Cardinality(Pool)] :
                GoesDown(rank)' => Low(rank, f, At(t, m)) \/ Low(rank, f, At(t, 1))
  PROVE  DescentInv'
<1> USE PlanAssumption
<1>1. m \in Nat /\ Cardinality(Pool) \in Nat
  BY ThreadsAssumption, FS_CardinalityType DEF Moves
<1>2. ASSUME NEW rank \in [Pool -> 1 .. Cardinality(Pool)], GoesDown(rank)'
      PROVE  /\ GoesDown(rank)
             /\ \A u \in Thread : \A h \in 1 .. Len(stack[u]) : Low(rank, At(u, h), At(u, 1))
  <2>1. {e \in Call : phase[e] # "idle"} \subseteq {e \in Call : phase'[e] # "idle"}
    OBVIOUS
  <2>2. GoesDown(rank)
    BY <1>2, <2>1 DEF GoesDown
  <2>3. QED
    BY <2>2 DEF DescentInv, Low
<1>3. ASSUME NEW rank \in [Pool -> 1 .. Cardinality(Pool)], GoesDown(rank)',
             NEW u \in Thread, NEW h \in 1 .. Len(stack'[u])
      PROVE  Low(rank, At(u, h)', At(u, 1)')
  <2>1. CASE h \in Nat /\ Unmoved(t, m, u, h)
    <3>1. Unmoved(t, m, u, 1) /\ h \in 1 .. Len(stack[u])
      <4>1. \A n \in Nat : h \in 1 .. n => 1 \in 1 .. n
        BY <2>1
      <4>2. \A v \in Thread : Len(stack[v]) \in Nat
        BY AtFrames
      <4>3. QED
        BY <1>1, <2>1, <4>1, <4>2, MovesAt DEF Unmoved
    <3>2. At(u, h)' = At(u, h) /\ At(u, 1)' = At(u, 1)
      BY <2>1, <3>1, MovesAt
    <3>3. QED
      BY <1>2, <1>3, <3>1, <3>2
  <2>2. CASE u = t /\ h = m + 1 /\ Len(stack'[t]) = m + 1 /\ At(u, h)' = f
    <3>1. CASE m = 0
      <4>1. At(u, h)' = At(u, 1)'
        <5>1. h = 1
          BY <2>2, <3>1
        <5>2. QED
          BY <5>1 DEF At
      <4>2. QED
        BY <4>1 DEF Low
    <3>2. CASE m > 0
      <4>1. Unmoved(t, m, t, 1) /\ Unmoved(t, m, t, m)
        BY <1>1, <3>2 DEF Unmoved
      <4>2. At(t, 1)' = At(t, 1) /\ 1 \in 1 .. Len(stack[t]) /\ m \in 1 .. Len(stack[t])
        BY <1>1, <4>1, MovesAt
      <4>3. Low(rank, At(t, m), At(t, 1))
        BY <1>2, <1>3, <4>2
      <4>4. Low(rank, f, At(t, m)) \/ Low(rank, f, At(t, 1))
        BY <1>3, <2>2, <3>2
      <4>5. CASE Low(rank, f, At(t, 1))
        BY <2>2, <4>2, <4>5
      <4>6. CASE Low(rank, f, At(t, m))
        <5>1. f \in Frame /\ At(t, m) \in Frame /\ At(t, 1) \in Frame
          <6>1. At(t, h)' \in Frame
            <7>1. stack'[t] \in Seq(Frame) /\ h \in 1 .. Len(stack'[t])
              BY <2>2 DEF TypeOK
            <7>2. Len(stack'[t]) \in Nat /\ \A k \in 1 .. Len(stack'[t]) : stack'[t][k] \in Frame
              BY <7>1, ElementOfSeq, LenProperties
            <7>3. Len(stack'[t]) + 1 - h \in 1 .. Len(stack'[t])
              BY <7>1, <7>2
            <7>4. QED
              BY <7>2, <7>3 DEF At
          <6>2. QED
            BY <2>2, <4>2, <6>1, AtFrames
        <5>2. /\ Plan[f.call].pool \in Pool /\ Plan[At(t, m).call].pool \in Pool
              /\ Plan[At(t, 1).call].pool \in Pool
          BY <5>1, FrameCases
        <5>3. \A p \in Pool : rank[p] \in Nat
          BY <1>1
        <5>4. Low(rank, f, At(t, 1))
          BY <4>3, <4>6, <5>2, <5>3 DEF Low
        <5>5. QED
          BY <2>2, <4>2, <5>4
      <4>7. QED
        BY <4>4, <4>5, <4>6
    <3>3. QED
      BY <1>1, <3>1, <3>2
  <2>3. QED
    BY <2>1, <2>2, MovesAt
<1>4. QED
  BY <1>3 DEF DescentInv, Low, At

(* A call is on a stack if its frame has come, or has not gone. *)
LEMMA PresentKept ==
  ASSUME TypeOK, TypeOK', PresentInv, NEW t \in Thread, NEW m, NEW f, Moves(t, m, f),
         \A c \in Call : phase'[c] \notin {"idle"} \cup Over =>
            \/ Len(stack'[t]) = m + 1 /\ f = CallFrame(c)
            \/ /\ phase[c] \notin {"idle"} \cup Over
               /\ Len(stack[t]) = m + 1 => At(t, m + 1) # CallFrame(c)
  PROVE  PresentInv'
<1>1. ASSUME NEW u \in Thread, NEW h \in 1 .. Len(stack'[u]) PROVE At(u, h)' \in Frames(u)'
  <2>1. Len(stack'[u]) \in Nat
    BY LenProperties DEF TypeOK
  <2>2. Len(stack'[u]) + 1 - h \in 1 .. Len(stack'[u])
    BY <2>1
  <2>3. QED
    BY <2>2 DEF At, Frames
<1>2. ASSUME NEW c \in Call, phase'[c] \notin {"idle"} \cup Over
      PROVE  \E u \in Thread : CallFrame(c) \in Frames(u)'
  <2>1. CASE Len(stack'[t]) = m + 1 /\ f = CallFrame(c)
    <3>1. m + 1 \in 1 .. Len(stack'[t]) /\ At(t, m + 1)' = f
      BY <2>1 DEF Moves
    <3>2. QED
      BY <1>1, <2>1, <3>1
  <2>2. CASE /\ phase[c] \notin {"idle"} \cup Over
             /\ Len(stack[t]) = m + 1 => At(t, m + 1) # CallFrame(c)
    <3>1. PICK u \in Thread : CallFrame(c) \in Frames(u)
      BY <2>2 DEF PresentInv
    <3>2. PICK h \in 1 .. Len(stack[u]) : CallFrame(c) = At(u, h)
      BY <3>1, AtFrames
    <3>3. h \in Nat /\ Unmoved(t, m, u, h)
      BY <2>2, <3>2, MovesAt
    <3>4. h \in 1 .. Len(stack'[u]) /\ At(u, h)' = CallFrame(c)
      BY <3>2, <3>3, MovesAt
    <3>5. QED
      BY <1>1, <3>4
  <2>3. QED
    BY <1>2, <2>1, <2>2
<1>3. QED
  BY <1>2 DEF PresentInv, CallFrame, Over

\* The two halves of PlaceInv.
ChanOrder == \A c \in Call : \A k, l \in 1 .. Len(chan[c]) : k < l => chan[c][k] < chan[c][l]
AtWork(f) == f.kind = "job" /\ f.item > 0
InChannel(ch, f) == \E k \in 1 .. Len(ch[f.call]) : ch[f.call][k] = f.item
WorkPlaces ==
    \A t \in Thread : \A h \in 1 .. Len(stack[t]) : AtWork(At(t, h)) =>
        /\ ~InChannel(chan, At(t, h))
        /\ \A u \in Thread : \A l \in 1 .. Len(stack[u]) : At(u, l) = At(t, h) => u = t /\ l = h

LEMMA PlaceInvOf ==
  /\ PlaceInv <=> ChanOrder /\ WorkPlaces
  /\ PlaceInv' <=> ChanOrder' /\ WorkPlaces'
<1>1. \A ch, f : f.item \in {ch[f.call][k] : k \in 1 .. Len(ch[f.call])} <=> InChannel(ch, f)
  BY DEF InChannel
<1>2. PlaceInv <=> ChanOrder /\ WorkPlaces
  <2>1. \A f : f.item \notin Buffered(f.call) <=> ~InChannel(chan, f)
    BY <1>1 DEF Buffered
  <2>2. QED
    BY <2>1 DEF PlaceInv, ChanOrder, WorkPlaces, AtWork
<1>3. PlaceInv' <=> ChanOrder' /\ WorkPlaces'
  <2>1. \A f : f.item \notin {chan'[f.call][k] : k \in 1 .. Len(chan'[f.call])} <=> ~InChannel(chan', f)
    BY <1>1
  <2>2. PlaceInv' <=>
          /\ ChanOrder'
          /\ \A t \in Thread : \A h \in 1 .. Len(stack'[t]) : AtWork(At(t, h)') =>
               /\ At(t, h)'.item \notin {chan'[At(t, h)'.call][k] : k \in 1 .. Len(chan'[At(t, h)'.call])}
               /\ \A u \in Thread : \A l \in 1 .. Len(stack'[u]) : At(u, l)' = At(t, h)' => u = t /\ l = h
    BY DEF PlaceInv, ChanOrder, AtWork, Buffered
  <2>3. QED
    BY <2>1, <2>2 DEF WorkPlaces
<1>4. QED
  BY <1>2, <1>3

(* Items at work stay in one place if the one that comes is nowhere else and *)
(* none is sent again.                                                       *)
LEMMA WorkKept ==
  ASSUME TypeOK, WorkPlaces, NEW t \in Thread, NEW m, NEW f, Moves(t, m, f),
         \A u \in Thread, h \in Nat : Unmoved(t, m, u, h) /\ AtWork(At(u, h)) =>
            ~InChannel(chan', At(u, h)),
         Len(stack'[t]) = m + 1 /\ AtWork(f) =>
            /\ ~InChannel(chan', f)
            /\ \A u \in Thread, h \in Nat : Unmoved(t, m, u, h) => At(u, h) # f
  PROVE  WorkPlaces'
<1>1. ASSUME NEW u \in Thread, NEW h \in 1 .. Len(stack'[u]), AtWork(At(u, h)')
      PROVE  /\ ~InChannel(chan', At(u, h)')
             /\ \A v \in Thread : \A l \in 1 .. Len(stack'[v]) : At(v, l)' = At(u, h)' => v = u /\ l = h
  <2>1. CASE h \in Nat /\ Unmoved(t, m, u, h)
    <3>1. h \in 1 .. Len(stack[u]) /\ At(u, h)' = At(u, h)
      BY <2>1, MovesAt
    <3>2. /\ \A v \in Thread : \A l \in 1 .. Len(stack[v]) : At(v, l) = At(u, h) => v = u /\ l = h
      BY <1>1, <3>1 DEF WorkPlaces
    <3>3. ASSUME NEW v \in Thread, NEW l \in 1 .. Len(stack'[v]), At(v, l)' = At(u, h)' PROVE v = u /\ l = h
      <4>1. CASE l \in Nat /\ Unmoved(t, m, v, l)
        <5>1. l \in 1 .. Len(stack[v]) /\ At(v, l)' = At(v, l)
          BY <4>1, MovesAt
        <5>2. QED
          BY <3>1, <3>2, <3>3, <5>1
      <4>2. CASE v = t /\ Len(stack'[t]) = m + 1 /\ At(v, l)' = f
        BY <1>1, <2>1, <3>1, <3>3, <4>2
      <4>3. QED
        BY <4>1, <4>2, MovesAt
    <3>4. ~InChannel(chan', At(u, h))
      BY <1>1, <2>1, <3>1
    <3>5. ~InChannel(chan', At(u, h)')
      BY <3>1, <3>4 DEF InChannel
    <3>6. QED
      BY <3>3, <3>5
  <2>2. CASE u = t /\ h = m + 1 /\ Len(stack'[t]) = m + 1 /\ At(u, h)' = f
    <3>1. /\ ~InChannel(chan', f)
          /\ \A v \in Thread, l \in Nat : Unmoved(t, m, v, l) => At(v, l) # f
      BY <1>1, <2>2
    <3>2. ASSUME NEW v \in Thread, NEW l \in 1 .. Len(stack'[v]), At(v, l)' = f PROVE v = u /\ l = h
      <4>1. CASE l \in Nat /\ Unmoved(t, m, v, l)
        <5>1. At(v, l)' = At(v, l)
          BY <4>1, MovesAt
        <5>2. QED
          BY <3>1, <3>2, <4>1, <5>1
      <4>2. CASE v = t /\ l = m + 1
        BY <2>2, <4>2
      <4>3. QED
        BY <4>1, <4>2, MovesAt
    <3>3. ~InChannel(chan', At(u, h)')
      BY <2>2, <3>1 DEF InChannel
    <3>4. QED
      BY <2>2, <3>2, <3>3
  <2>3. QED
    BY <2>1, <2>2, MovesAt
<1>2. QED
  BY <1>1 DEF WorkPlaces, AtWork, At, InChannel

(* A frame that comes, goes or is replaced is the topmost. *)
LEMMA PushMoves ==
  ASSUME TypeOK, NEW t \in Thread, NEW f, Pushed(t, f), ElsewhereSame(t)
  PROVE  \E m \in Nat :
            /\ Moves(t, m, f) /\ Len(stack[t]) = m /\ Len(stack'[t]) = m + 1
            /\ m > 0 => 1 \in 1 .. Len(stack[t]) /\ stack[t] # <<>> /\ At(t, m) = stack[t][1]
            /\ m = 0 => stack[t] = <<>>
<1>1. PICK m \in Nat : Len(stack[t]) = m
  BY AtFrames
<1>2. Len(stack'[t]) = m + 1 /\ stack'[t][1] = f
  BY <1>1 DEF Pushed
<1>3. \A h \in 1 .. m : At(t, h)' = At(t, h)
  BY <1>1, PushHeights
<1>4. At(t, m + 1)' = f
  <2>1. (m + 1) + 1 - (m + 1) = 1
    OBVIOUS
  <2>2. QED
    BY <1>2, <2>1 DEF At
<1>5. /\ m > 0 => 1 \in 1 .. Len(stack[t]) /\ stack[t] # <<>> /\ At(t, m) = stack[t][1]
      /\ m = 0 => stack[t] = <<>>
  <2>1. stack[t] # <<>> => /\ 1 \in 1 .. Len(stack[t]) /\ Len(stack[t]) \in 1 .. Len(stack[t])
                           /\ At(t, Len(stack[t])) = stack[t][1]
    BY AtFrames
  <2>2. stack[t] = <<>> => Len(stack[t]) = 0
    BY AtFrames
  <2>3. QED
    BY <1>1, <2>1, <2>2
<1>6. QED
  BY <1>1, <1>2, <1>3, <1>4, <1>5 DEF Moves

LEMMA PopMoves ==
  ASSUME TypeOK, TypeOK', NEW t \in Thread, NEW f, Popped(t), ElsewhereSame(t)
  PROVE  \E m \in Nat :
            /\ Moves(t, m, f) /\ Len(stack[t]) = m + 1 /\ Len(stack'[t]) = m
            /\ At(t, m + 1) = stack[t][1]
<1>1. PICK m \in Nat : Len(stack'[t]) = m
  BY LenProperties DEF TypeOK
<1>2. Len(stack[t]) = m + 1
  BY <1>1 DEF Popped
<1>3. \A h \in 1 .. m : At(t, h)' = At(t, h)
  BY <1>1, PopHeights
<1>4. At(t, m + 1) = stack[t][1]
  <2>1. (m + 1) + 1 - (m + 1) = 1
    OBVIOUS
  <2>2. QED
    BY <1>2, <2>1 DEF At
<1>5. QED
  BY <1>1, <1>2, <1>3, <1>4 DEF Moves

LEMMA ReplaceMoves ==
  ASSUME TypeOK, NEW t \in Thread, 1 \in 1 .. Len(stack[t]), NEW f,
         \/ Replaced(t, f) /\ ElsewhereSame(t)
         \/ UNCHANGED stack /\ f = stack[t][1]
  PROVE  \E m \in Nat :
            /\ Moves(t, m, f) /\ Len(stack[t]) = m + 1 /\ Len(stack'[t]) = m + 1
            /\ At(t, m + 1) = stack[t][1]
<1>1. Len(stack[t]) \in Nat \ {0}
  BY AtFrames
<1>2. PICK m \in Nat : Len(stack[t]) = m + 1
  <2>1. Len(stack[t]) - 1 \in Nat /\ Len(stack[t]) = (Len(stack[t]) - 1) + 1
    BY <1>1
  <2>2. QED
    BY <2>1
<1>3. \A h \in 1 .. m : h \in 1 .. m + 1 /\ h # m + 1
  OBVIOUS
<1>4. At(t, m + 1) = stack[t][1]
  BY <1>2 DEF At
<1>5. CASE Replaced(t, f) /\ ElsewhereSame(t)
  BY <1>1, <1>2, <1>3, <1>4, <1>5, ReplaceHeights DEF Moves
<1>6. CASE UNCHANGED stack /\ f = stack[t][1]
  <2>1. \A h : At(t, h)' = At(t, h)
    BY <1>6 DEF At
  <2>2. QED
    BY <1>2, <1>4, <1>6, <2>1 DEF Moves, ElsewhereSame
<1>7. QED
  BY <1>5, <1>6

(* An order of the pools for the calls made later orders the stacks now. *)
LEMMA LowBefore ==
  ASSUME DescentInv, \A c \in Call : phase[c] # "idle" => phase'[c] # "idle",
         NEW rank \in [Pool -> 1 .. Cardinality(Pool)], GoesDown(rank)',
         NEW u \in Thread, NEW h \in 1 .. Len(stack[u])
  PROVE  Low(rank, At(u, h), At(u, 1))
<1>1. {e \in Call : phase[e] # "idle"} \subseteq {e \in Call : phase'[e] # "idle"}
  OBVIOUS
<1>2. GoesDown(rank)
  BY <1>1 DEF GoesDown
<1>3. QED
  BY <1>2 DEF DescentInv, Low

(* A frame on a stack is of a call that has been made. *)
LEMMA MadeCalls ==
  ASSUME IInv, NEW t \in Thread, NEW h \in 1 .. Len(stack[t])
  PROVE  At(t, h) \in Frame /\ At(t, h).call \in Call /\ phase[At(t, h).call] # "idle"
<1>1. TypeOK /\ FrameInv
  BY DEF IInv
<1>2. At(t, h) \in Frame /\ At(t, h) \in Frames(t)
  BY <1>1, AtFrames
<1>3. CASE At(t, h).kind = "call"
  BY <1>1, <1>2, <1>3, OneFrame, FrameCases
<1>4. CASE At(t, h).kind = "job"
  <2>1. PICK k \in 1 .. Len(stack[t]) : At(t, h) = stack[t][k]
    BY <1>2 DEF Frames
  <2>2. At(t, h).call \in Call /\ IsJobOf(stack[t][k], At(t, h).call)
    BY <1>2, <1>4, <2>1, FrameCases DEF IsJobOf
  <2>3. jobs[At(t, h).call] \in Nat \ {0}
    BY <2>2, JobsOnStack
  <2>4. phase[At(t, h).call] \in {"spawn", "pull", "send", "join"}
    BY <2>2, <2>3 DEF IInv, JobInv
  <2>5. QED
    BY <1>2, <2>2, <2>4
<1>5. QED
  BY <1>2, <1>3, <1>4, FrameCases


-----------------------------------------------------------------------------
(* NestingInv, step by step.                                                *)

(* The items in a channel stay in order if no item comes. *)
LEMMA OrderSame ==
  ASSUME ChanOrder, UNCHANGED chan
  PROVE  ChanOrder'
BY DEF ChanOrder

(* An item at work is not in the channel. *)
LEMMA WorkSame ==
  ASSUME TypeOK, WorkPlaces, UNCHANGED chan, NEW t \in Thread, NEW m, NEW f, Moves(t, m, f),
         Len(stack'[t]) = m + 1 => ~AtWork(f)
  PROVE  WorkPlaces'
<1>1. \A u \in Thread, h \in Nat : Unmoved(t, m, u, h) /\ AtWork(At(u, h)) => ~InChannel(chan', At(u, h))
  <2> SUFFICES ASSUME NEW u \in Thread, NEW h \in Nat, Unmoved(t, m, u, h), AtWork(At(u, h))
               PROVE  ~InChannel(chan', At(u, h))
    OBVIOUS
  <2>1. h \in 1 .. Len(stack[u])
    BY MovesAt
  <2>2. ~InChannel(chan, At(u, h))
    BY <2>1 DEF WorkPlaces
  <2>3. QED
    BY <2>2 DEF InChannel
<1>2. QED
  BY <1>1, WorkKept

(* Making a call keeps what waiting depends on. *)
LEMMA CallsWait ==
  ASSUME IInv, TypeOK', NestingInv, NEW t \in Thread, NEW d \in Call, Calls(t, d), Site(t, d)
  PROVE  NestingInv'
<1> DEFINE f == CallFrame(d)
<1>0. TypeOK /\ FrameInv /\ PresentInv /\ StackInv /\ ChanOrder /\ WorkPlaces /\ ParallelInv /\ DescentInv
  BY PlaceInvOf DEF IInv, NestingInv
<1>1. f \in Frame /\ f.kind = "call" /\ f.call = d /\ ~AtWork(f)
  BY CallFrameType DEF AtWork
<1>2. Pushed(t, f) /\ ElsewhereSame(t)
  BY <1>0, <1>1, PushStep DEF Calls
<1>3. PICK ph \in {"call", "enter"} : phase' = [phase EXCEPT ![d] = ph]
  BY DEF Calls
<1>4. /\ phase[d] = "idle" /\ UNCHANGED <<mode, next, chan>>
      /\ \A c \in Call : phase'[c] = IF c = d THEN ph ELSE phase[c]
  BY <1>0, <1>3 DEF Calls, TypeOK
<1> HIDE DEF f
<1>5. PICK m \in Nat : /\ Moves(t, m, f) /\ Len(stack[t]) = m /\ Len(stack'[t]) = m + 1
                       /\ m > 0 => 1 \in 1 .. Len(stack[t]) /\ stack[t] # <<>> /\ At(t, m) = stack[t][1]
                       /\ m = 0 => stack[t] = <<>>
  BY <1>0, <1>2, PushMoves
<1>6. Len(stack[t]) # m + 1 /\ (m > 0 => m \in 1 .. Len(stack[t]))
  BY <1>5
<1>7. Still(t, m)
  <2> SUFFICES ASSUME NEW u \in Thread, NEW h \in Nat, Unmoved(t, m, u, h), At(u, h).kind = "call"
               PROVE  /\ phase'[At(u, h).call] = phase[At(u, h).call]
                      /\ next'[At(u, h).call] = next[At(u, h).call]
    BY DEF Still
  <2>1. h \in 1 .. Len(stack[u])
    BY <1>0, <1>5, MovesAt
  <2>2. At(u, h).call \in Call /\ phase[At(u, h).call] # "idle"
    BY <2>1, MadeCalls
  <2>3. QED
    BY <1>4, <2>2
<1>8. StackInv'
  <2>1. \A u \in Thread : roots[u] = <<>> => roots'[u] = <<>>
    BY <1>0 DEF Calls, TypeOK
  <2>2. m = 0 => Bottom(t, f)
    <3>1. ASSUME stack[t] = <<>> PROVE Home[t] = NoPool /\ \A c \in Call : d \notin Inside(c)
      BY <1>0, <3>1 DEF Site, StackInv
    <3>2. QED
      BY <1>1, <1>5, <3>1 DEF Bottom
  <2>3. m > 0 => On(f, At(t, m))
    BY <1>5 DEF Site, f
  <2>4. QED
    BY <1>0, <1>1, <1>5, <1>7, <2>1, <2>2, <2>3, StackKept
<1>9. \A c \in Call : phase[c] # "idle" => phase'[c] # "idle"
  BY <1>4
<1>10. DescentInv'
  <2>1. ASSUME m > 0, NEW rank \in [Pool -> 1 .. Cardinality(Pool)], GoesDown(rank)'
        PROVE  Low(rank, f, At(t, m))
    <3>1. d \in Inside(At(t, m).call)
      BY <1>5, <2>1 DEF Site
    <3>2. At(t, m).call \in Call /\ phase'[At(t, m).call] # "idle"
      BY <1>6, <1>9, <2>1, MadeCalls
    <3>3. phase'[d] # "idle"
      BY <1>3, <1>4
    <3>4. QED
      BY <1>1, <2>1, <3>1, <3>2, <3>3, InsideSites DEF GoesDown, Low
  <2>2. QED
    BY <1>0, <1>5, <1>9, <2>1, DescentKept
<1>11. PresentInv'
  BY <1>0, <1>4, <1>5, <1>6, PresentKept DEF f
<1>12. PlaceInv'
  BY <1>0, <1>1, <1>4, <1>5, WorkSame, OrderSame, PlaceInvOf
<1>13. ParallelInv'
  <2> SUFFICES ASSUME NEW c \in Call
               PROVE  /\ Plan[c].inReport # NoCall /\ phase'[Plan[c].inReport] # "idle" =>
                            mode[c] = "parallel" /\ phase'[c] \notin {"idle", "call", "enter"}
                      /\ mode[c] = "parallel" => Cardinality(Workers(Plan[c].pool)) > 1
    BY <1>4 DEF ParallelInv, Workers
  <2>1. mode[c] = "parallel" => Cardinality(Workers(Plan[c].pool)) > 1
    BY <1>0 DEF ParallelInv
  <2>2. ASSUME Plan[c].inReport # NoCall, phase'[Plan[c].inReport] # "idle"
        PROVE  mode[c] = "parallel" /\ phase'[c] \notin {"idle", "call", "enter"}
    <3>1. Plan[c].inReport \in Call
      BY <2>2, PlanAssumption
    <3>2. CASE Plan[c].inReport = d
      <4>1. ReportDue(c)
        <5>1. CASE stack[t] = <<>>
          BY <3>2, <5>1 DEF Site
        <5>2. CASE stack[t] # <<>>
          <6>1. m > 0 /\ d \in Inside(At(t, m).call)
            BY <1>5, <5>2 DEF Site
          <6>2. At(t, m).call \in Call
            BY <1>6, <6>1, MadeCalls
          <6>3. QED
            BY <3>2, <6>1, <6>2, SitesAssumption
        <5>3. QED
          BY <5>1, <5>2
      <4>2. QED
        BY <1>4, <4>1 DEF ReportDue
    <3>3. CASE Plan[c].inReport # d
      <4>1. mode[c] = "parallel" /\ phase[c] \notin {"idle", "call", "enter"}
        BY <1>0, <1>4, <2>2, <3>1, <3>3 DEF ParallelInv
      <4>2. QED
        BY <1>4, <4>1
    <3>4. QED
      BY <3>2, <3>3
  <2>3. QED
    BY <2>1, <2>2
<1>14. QED
  BY <1>8, <1>10, <1>11, <1>12, <1>13 DEF NestingInv


(* What the caller does to the channel keeps its order, and sends no item   *)
(* that is at work.                                                         *)
LEMMA SendPlaces ==
  ASSUME IInv, ChanOrder, WorkPlaces, NEW t \in Thread, NEW c \in Call, Send(t, c)
  PROVE  /\ ChanOrder'
         /\ \A u \in Thread : \A h \in 1 .. Len(stack[u]) :
               AtWork(At(u, h)) => ~InChannel(chan', At(u, h))
<1>1. TypeOK /\ ItemFrames /\ ItemSets
  BY ItemInvOf DEF IInv
<1>2. PICK n \in Nat : n = Len(chan[c])
  BY <1>1 DEF TypeOK
<1>3. chan[c] \in Seq(Nat) /\ chan'[c] = Append(chan[c], next[c]) /\ \A d \in Call : d # c => chan'[d] = chan[d]
  BY <1>1 DEF TypeOK, Send
<1>4. Len(chan'[c]) = n + 1 /\ chan'[c][n + 1] = next[c] /\ \A k \in 1 .. n : chan'[c][k] = chan[c][k]
  BY <1>1, <1>2, <1>3 DEF TypeOK
<1>5. \A k : k \in 1 .. n + 1 <=> k \in 1 .. n \/ k = n + 1
  OBVIOUS
<1>6. next[c] \in Nat /\ \A k \in 1 .. n : chan[c][k] \in 1 .. next[c] - 1
  <2>1. \A k \in 1 .. n : chan[c][k] \in Buffered(c)
    BY <1>2 DEF Buffered
  <2>2. QED
    BY <1>1, <2>1 DEF ItemSets, TypeOK
<1>7. ChanOrder'
  <2> SUFFICES ASSUME NEW d \in Call, NEW k \in 1 .. Len(chan'[d]), NEW l \in 1 .. Len(chan'[d]), k < l
               PROVE  chan'[d][k] < chan'[d][l]
    BY DEF ChanOrder
  <2>1. CASE d # c
    BY <1>3, <2>1 DEF ChanOrder
  <2>2. CASE d = c
    <3>1. k \in 1 .. n
      BY <1>4, <2>2
    <3>2. CASE l \in 1 .. n
      BY <1>2, <1>4, <2>2, <3>1, <3>2 DEF ChanOrder
    <3>3. CASE l = n + 1
      <4>1. chan'[c][k] \in 1 .. next[c] - 1 /\ chan'[c][l] = next[c]
        BY <1>4, <1>6, <3>1, <3>3
      <4>2. QED
        BY <1>6, <2>2, <4>1
    <3>4. QED
      BY <1>4, <1>5, <2>2, <3>2, <3>3
  <2>3. QED
    BY <2>1, <2>2
<1>8. ASSUME NEW u \in Thread, NEW h \in 1 .. Len(stack[u]), AtWork(At(u, h)), InChannel(chan', At(u, h))
      PROVE  FALSE
  <2> DEFINE f == At(u, h)
  <2>1. f \in Frames(u) /\ f.kind = "job" /\ f.call \in Call
    BY <1>1, <1>8, AtFrames, FrameCases DEF AtWork
  <2>2. f.item < next[f.call] /\ ~InChannel(chan, f)
    BY <1>1, <1>8, <2>1 DEF ItemFrames, WorkPlaces
  <2> HIDE DEF f
  <2>3. PICK k \in 1 .. Len(chan'[f.call]) : chan'[f.call][k] = f.item
    BY <1>8 DEF InChannel, f
  <2>4. CASE f.call # c
    <3>1. chan'[f.call] = chan[f.call]
      BY <1>3, <2>1, <2>4
    <3>2. QED
      BY <2>2, <2>3, <3>1 DEF InChannel
  <2>5. CASE f.call = c /\ k \in 1 .. n
    BY <1>2, <1>4, <2>2, <2>3, <2>5 DEF InChannel
  <2>6. CASE f.call = c /\ k = n + 1
    <3>1. f.item = next[c] /\ f.item < next[c]
      BY <1>4, <2>2, <2>3, <2>6
    <3>2. QED
      BY <1>6, <3>1
  <2>7. QED
    BY <1>4, <1>5, <2>3, <2>4, <2>5, <2>6
<1>9. QED
  BY <1>7, <1>8

(* A decision is made before a reporter can have called, and for parallelism *)
(* only on a pool of several threads.                                        *)
LEMMA CallerParallel ==
  ASSUME IInv, ParallelInv, NEW t \in Thread, NEW c \in Call,
         \/ CallWithCount(t, c) \/ ExecuteWithCount(t, c) \/ Spawn(t, c)
         \/ SourceGives(t, c) \/ SourceEnds(t, c) \/ Send(t, c) \/ SequentialTaskEnds(t, c)
         \/ Leaves(t, c)
  PROVE  ParallelInv'
<1>1. TypeOK
  BY DEF IInv
<1>2. /\ \A d \in Call : d # c => phase'[d] = phase[d] /\ mode'[d] = mode[d]
      /\ phase[c] # "idle" /\ phase'[c] # "idle"
      /\ \/ mode'[c] = mode[c] /\ phase[c] \notin {"call", "enter"} /\ phase'[c] \notin {"call", "enter"}
         \/ /\ phase[c] \in {"call", "enter"}
            /\ mode'[c] = "parallel" => Cardinality(Workers(Plan[c].pool)) > 1
  <2>1. CASE CallWithCount(t, c) \/ ExecuteWithCount(t, c)
    <3>1. PICK sequential \in BOOLEAN, keeps \in BOOLEAN :
             /\ sequential = RunsSequentially(t, c)
             /\ mode' = [mode EXCEPT ![c] = IF sequential THEN "sequential" ELSE "parallel"]
             /\ phase' = [phase EXCEPT ![c] = IF sequential THEN "pull"
                                              ELSE IF @ = "call" THEN "enter" ELSE "spawn"]
      BY <2>1, Decision
    <3>2. phase[c] \in {"call", "enter"}
      BY <2>1, Decision
    <3>3. ~sequential => Cardinality(Workers(Plan[c].pool)) > 1
      <4>1. IsFiniteSet(Workers(Plan[c].pool))
        BY ThreadsAssumption, FS_Subset DEF Workers
      <4>2. Cardinality(Workers(Plan[c].pool)) \in Nat
        BY <4>1, FS_CardinalityType
      <4>3. ~sequential => ~(Cardinality(Workers(Plan[c].pool)) <= 1)
        BY <3>1 DEF RunsSequentially
      <4>4. QED
        BY <4>2, <4>3
    <3>4. mode'[c] = "parallel" => ~sequential
      BY <1>1, <3>1 DEF TypeOK
    <3>5. QED
      BY <1>1, <3>1, <3>2, <3>3, <3>4 DEF TypeOK
  <2>2. CASE Spawn(t, c) \/ SourceGives(t, c) \/ SourceEnds(t, c) \/ Send(t, c) \/ SequentialTaskEnds(t, c)
    <3>1. /\ mode' = mode /\ phase[c] \in {"spawn", "pull", "send", "run"}
          /\ \E ph \in {"spawn", "pull", "send", "run", "join"} : phase' = [phase EXCEPT ![c] = ph]
      <4>1. CASE Spawn(t, c)
        BY <1>1, <4>1 DEF Spawn, InCall
      <4>2. CASE SourceGives(t, c)
        BY <1>1, <4>2 DEF SourceGives, InCall
      <4>3. CASE SourceEnds(t, c)
        BY <1>1, <4>3 DEF SourceEnds, InCall
      <4>4. CASE Send(t, c) \/ SequentialTaskEnds(t, c)
        BY <1>1, <4>4 DEF Send, SequentialTaskEnds, InCall
      <4>5. QED
        BY <2>2, <4>1, <4>2, <4>3, <4>4
    <3>2. QED
      BY <1>1, <3>1 DEF TypeOK
  <2>3. CASE Leaves(t, c)
    BY <1>1, <2>3 DEF Leaves, TypeOK, Over
  <2>4. QED
    BY <2>1, <2>2, <2>3
<1>3. ASSUME NEW d \in Call
      PROVE  /\ Plan[d].inReport # NoCall /\ phase'[Plan[d].inReport] # "idle" =>
                   mode'[d] = "parallel" /\ phase'[d] \notin {"idle", "call", "enter"}
             /\ mode'[d] = "parallel" => Cardinality(Workers(Plan[d].pool)) > 1
  <2>1. /\ Plan[d].inReport # NoCall /\ phase[Plan[d].inReport] # "idle" =>
              mode[d] = "parallel" /\ phase[d] \notin {"idle", "call", "enter"}
        /\ mode[d] = "parallel" => Cardinality(Workers(Plan[d].pool)) > 1
    BY DEF ParallelInv
  <2>2. Plan[d].inReport # NoCall /\ phase'[Plan[d].inReport] # "idle" => phase[Plan[d].inReport] # "idle"
    BY <1>2, PlanAssumption
  <2>3. QED
    BY <1>2, <2>1, <2>2
<1>4. QED
  BY <1>3 DEF ParallelInv, Workers

(* A call that moves on keeps what waiting depends on. *)
LEMMA CallerWait ==
  ASSUME IInv, TypeOK', NestingInv, NEW t \in Thread, NEW c \in Call,
         \/ CallWithCount(t, c) \/ ExecuteWithCount(t, c) \/ Spawn(t, c)
         \/ SourceGives(t, c) \/ SourceEnds(t, c) \/ Send(t, c) \/ SequentialTaskEnds(t, c)
  PROVE  NestingInv'
<1> DEFINE f == CallFrame(c)
<1>0. TypeOK /\ FrameInv /\ PresentInv /\ StackInv /\ ChanOrder /\ WorkPlaces /\ ParallelInv /\ DescentInv
  BY PlaceInvOf DEF IInv, NestingInv
<1>1. f \in Frame /\ f.kind = "call" /\ f.call = c /\ ~AtWork(f)
  BY CallFrameType DEF AtWork
<1>2. 1 \in 1 .. Len(stack[t]) /\ stack[t][1] = f /\ UNCHANGED <<stack, roots>>
  BY CallerStays DEF Stays
<1>3. PICK ph : ph \notin {"idle"} \cup Over /\ phase' = [phase EXCEPT ![c] = ph]
  BY CallerStays DEF Stays
<1>4. \A d \in Call : phase'[d] = IF d = c THEN ph ELSE phase[d]
  BY <1>0, <1>3 DEF TypeOK
<1>5. \A d \in Call : d # c => next'[d] = next[d]
  <2>1. UNCHANGED next \/ next' = [next EXCEPT ![c] = @ + 1]
    BY DEF CallWithCount, ExecuteWithCount, Decide, Spawn, SourceGives, SourceEnds, Send, SequentialTaskEnds
  <2>2. QED
    BY <1>0, <2>1 DEF TypeOK
<1> HIDE DEF f
<1>6. PICK m \in Nat : /\ Moves(t, m, f) /\ Len(stack[t]) = m + 1 /\ Len(stack'[t]) = m + 1
                       /\ At(t, m + 1) = f
  BY <1>0, <1>2, ReplaceMoves
<1>7. m + 1 \in 1 .. Len(stack[t]) /\ (m > 0 => m \in 1 .. Len(stack[t]) /\ m < Len(stack[t])) /\ ~(m + 1 \in 1 .. m)
  BY <1>6
<1>8. Still(t, m)
  <2> SUFFICES ASSUME NEW u \in Thread, NEW h \in Nat, Unmoved(t, m, u, h), At(u, h).kind = "call"
               PROVE  /\ phase'[At(u, h).call] = phase[At(u, h).call]
                      /\ next'[At(u, h).call] = next[At(u, h).call]
    BY DEF Still
  <2>1. h \in 1 .. Len(stack[u])
    BY <1>0, <1>6, MovesAt
  <2>2. At(u, h).call \in Call
    BY <2>1, MadeCalls
  <2>3. ASSUME At(u, h).call = c PROVE FALSE
    <3>1. u = t /\ h = m + 1
      BY <1>0, <1>1, <1>6, <1>7, <2>1, <2>3, OneFrame
    <3>2. QED
      BY <1>7, <3>1 DEF Unmoved
  <2>4. QED
    BY <1>4, <1>5, <2>2, <2>3
<1>9. StackInv'
  <2>1. \A u \in Thread : roots[u] = <<>> => roots'[u] = <<>>
    BY <1>2
  <2>2. m = 0 => Bottom(t, f)
    BY <1>0, <1>6, <1>7 DEF StackInv
  <2>3. m > 0 => On(f, At(t, m))
    BY <1>0, <1>6, <1>7 DEF StackInv
  <2>4. QED
    BY <1>0, <1>1, <1>6, <1>8, <2>1, <2>2, <2>3, StackKept
<1>10. \A d \in Call : phase[d] # "idle" => phase'[d] # "idle"
  BY <1>3, <1>4
<1>11. DescentInv'
  <2>1. ASSUME NEW rank \in [Pool -> 1 .. Cardinality(Pool)], GoesDown(rank)'
        PROVE  Low(rank, f, At(t, 1))
    BY <1>0, <1>6, <1>7, <1>10, <2>1, LowBefore
  <2>2. QED
    BY <1>0, <1>6, <1>10, <2>1, DescentKept
<1>12. PresentInv'
  <2>1. \A d \in Call : d # c => CallFrame(d) # f
    BY <1>1, CallFrameType
  <2>2. \A d \in Call : phase'[d] \notin {"idle"} \cup Over =>
            \/ Len(stack'[t]) = m + 1 /\ f = CallFrame(d)
            \/ /\ phase[d] \notin {"idle"} \cup Over
               /\ Len(stack[t]) = m + 1 => At(t, m + 1) # CallFrame(d)
    BY <1>4, <1>6, <2>1 DEF f
  <2>3. QED
    BY <1>0, <1>6, <2>2, PresentKept
<1>13. PlaceInv'
  <2>1. CASE Send(t, c)
    <3>1. /\ ChanOrder'
          /\ \A u \in Thread : \A h \in 1 .. Len(stack[u]) :
                AtWork(At(u, h)) => ~InChannel(chan', At(u, h))
      BY <1>0, <2>1, SendPlaces
    <3>2. \A u \in Thread, h \in Nat : Unmoved(t, m, u, h) /\ AtWork(At(u, h)) => ~InChannel(chan', At(u, h))
      BY <1>0, <1>6, <3>1, MovesAt
    <3>3. WorkPlaces'
      BY <1>0, <1>1, <1>6, <3>2, WorkKept
    <3>4. QED
      BY <3>1, <3>3, PlaceInvOf
  <2>2. CASE ~Send(t, c)
    <3>1. UNCHANGED chan
      BY <2>2 DEF CallWithCount, ExecuteWithCount, Decide, Spawn, SourceGives, SourceEnds, Send,
                  SequentialTaskEnds, workVars
    <3>2. QED
      BY <1>0, <1>1, <1>6, <3>1, WorkSame, OrderSame, PlaceInvOf
  <2>3. QED
    BY <2>1, <2>2
<1>14. ParallelInv'
  BY <1>0, CallerParallel
<1>15. QED
  BY <1>9, <1>11, <1>12, <1>13, <1>14 DEF NestingInv


(* A call that ends keeps it. *)
LEMMA LeaveWait ==
  ASSUME IInv, TypeOK', NestingInv, NEW t \in Thread, NEW c \in Call, Leave(t, c)
  PROVE  NestingInv'
<1> DEFINE f == CallFrame(c)
<1>0. TypeOK /\ FrameInv /\ PresentInv /\ StackInv /\ ChanOrder /\ WorkPlaces /\ ParallelInv /\ DescentInv
  BY PlaceInvOf DEF IInv, NestingInv
<1>1. f \in Frame /\ f.kind = "call" /\ f.call = c
  BY CallFrameType
<1>2. /\ Leaves(t, c) /\ stack[t] # <<>> /\ stack[t][1] = f
      /\ UNCHANGED <<mode, next, chan, roots>>
  BY LeaveStep DEF Leaves
<1>3. PICK ph \in Over : phase' = [phase EXCEPT ![c] = ph]
  BY <1>2 DEF Leaves
<1>4. \A d \in Call : phase'[d] = IF d = c THEN ph ELSE phase[d]
  BY <1>0, <1>3 DEF TypeOK
<1>5. Popped(t) /\ ElsewhereSame(t)
  BY <1>0, <1>2, PopStep DEF Leaves
<1> HIDE DEF f
<1>6. PICK m \in Nat : /\ Moves(t, m, f) /\ Len(stack[t]) = m + 1 /\ Len(stack'[t]) = m
                       /\ At(t, m + 1) = f
  BY <1>0, <1>2, <1>5, PopMoves
<1>7. m + 1 \in 1 .. Len(stack[t]) /\ Len(stack'[t]) # m + 1 /\ ~(m + 1 \in 1 .. m)
  BY <1>6
<1>8. Still(t, m)
  <2> SUFFICES ASSUME NEW u \in Thread, NEW h \in Nat, Unmoved(t, m, u, h), At(u, h).kind = "call"
               PROVE  phase'[At(u, h).call] = phase[At(u, h).call]
    BY <1>2 DEF Still
  <2>1. h \in 1 .. Len(stack[u])
    BY <1>0, <1>6, MovesAt
  <2>2. At(u, h).call \in Call
    BY <2>1, MadeCalls
  <2>3. ASSUME At(u, h).call = c PROVE FALSE
    <3>1. u = t /\ h = m + 1
      BY <1>0, <1>1, <1>6, <1>7, <2>1, <2>3, OneFrame
    <3>2. QED
      BY <1>7, <3>1 DEF Unmoved
  <2>4. QED
    BY <1>4, <2>2, <2>3
<1>9. StackInv'
  BY <1>0, <1>2, <1>6, <1>7, <1>8, StackKept
<1>10. DescentInv'
  <2>1. \A d \in Call : phase[d] # "idle" => phase'[d] # "idle"
    BY <1>3, <1>4 DEF Over
  <2>2. QED
    BY <1>0, <1>6, <1>7, <2>1, DescentKept
<1>11. PresentInv'
  <2>1. \A d \in Call : d # c => CallFrame(d) # f
    BY <1>1, CallFrameType
  <2>2. \A d \in Call : phase'[d] \notin {"idle"} \cup Over =>
            /\ phase[d] \notin {"idle"} \cup Over
            /\ Len(stack[t]) = m + 1 => At(t, m + 1) # CallFrame(d)
    BY <1>3, <1>4, <1>6, <2>1
  <2>3. QED
    BY <1>0, <1>6, <2>2, PresentKept
<1>12. PlaceInv'
  BY <1>0, <1>2, <1>6, <1>7, WorkSame, OrderSame, PlaceInvOf
<1>13. ParallelInv'
  BY <1>0, <1>2, CallerParallel
<1>14. QED
  BY <1>9, <1>10, <1>11, <1>12, <1>13 DEF NestingInv

(* What a worker does to its stack keeps it, the places of items aside. *)
LEMMA JobFrameWait ==
  ASSUME IInv, TypeOK', NestingInv, UNCHANGED <<phase, next, mode, roots>>,
         NEW t \in Thread, NEW m, NEW f, Moves(t, m, f),
         Len(stack[t]) = m + 1 => At(t, m + 1).kind = "job",
         Len(stack'[t]) = m + 1 =>
            /\ f.kind = "job" /\ f.call \in Call /\ Plan[f.call].pool = Home[t]
            /\ m > 0 => On(f, At(t, m))
  PROVE  PresentInv' /\ StackInv' /\ ParallelInv' /\ DescentInv'
<1>0. TypeOK /\ FrameInv /\ PresentInv /\ StackInv /\ ParallelInv /\ DescentInv
  BY DEF IInv, NestingInv
<1>1. Len(stack'[t]) = m + 1 => Home[t] # NoPool
  BY PlanAssumption, ThreadsAssumption
<1>2. PresentInv'
  <2>1. \A d \in Call : CallFrame(d).kind = "call"
    BY CallFrameType
  <2>2. \A d \in Call : phase'[d] \notin {"idle"} \cup Over =>
            /\ phase[d] \notin {"idle"} \cup Over
            /\ Len(stack[t]) = m + 1 => At(t, m + 1) # CallFrame(d)
    BY <2>1
  <2>3. QED
    BY <1>0, <2>2, PresentKept
<1>3. StackInv'
  <2>1. Still(t, m)
    BY DEF Still
  <2>2. Len(stack'[t]) = m + 1 => Bottom(t, f)
    BY <1>1 DEF Bottom
  <2>3. QED
    BY <1>0, <2>1, <2>2, StackKept
<1>4. ParallelInv'
  BY <1>0 DEF ParallelInv, Workers
<1>5. DescentInv'
  <2>1. ASSUME Len(stack'[t]) = m + 1, m > 0, NEW rank \in [Pool -> 1 .. Cardinality(Pool)]
        PROVE  Low(rank, f, At(t, 1))
    <3>1. 1 \in 1 .. Len(stack[t])
      <4>1. m \in Nat /\ Len(stack[t]) \in {m, m + 1}
        BY DEF Moves
      <4>2. QED
        BY <2>1, <4>1
    <3>2. Bottom(t, At(t, 1)) /\ (At(t, 1).kind = "job" => Plan[At(t, 1).call].pool = Home[t])
      BY <1>0, <3>1 DEF StackInv
    <3>3. At(t, 1).kind = "job"
      BY <1>1, <2>1, <3>2 DEF Bottom
    <3>4. QED
      BY <2>1, <3>2, <3>3 DEF Low
  <2>2. QED
    BY <1>0, <2>1, DescentKept
<1>6. QED
  BY <1>2, <1>3, <1>4, <1>5

(* Taking a job keeps it. *)
LEMMA TakeWait ==
  ASSUME IInv, TypeOK', NestingInv, NEW t \in Thread, TakeJob(t)
  PROVE  NestingInv'
<1> DEFINE c == Head(queue[Home[t]])
           f == JobFrame(c, 0)
<1>0. TypeOK /\ ChanOrder /\ WorkPlaces
  BY PlaceInvOf DEF IInv, NestingInv
<1>1. c \in Call /\ Plan[c].pool = Home[t]
  BY <1>0, QueueHead DEF IInv
<1>2. f \in Frame /\ f.kind = "job" /\ f.call = c /\ ~AtWork(f)
  BY <1>1, PlanAssumption, JobFrameType DEF AtWork
<1>3. Pushed(t, f) /\ ElsewhereSame(t)
  BY <1>0, <1>2, PushStep DEF TakeJob
<1>4. UNCHANGED <<phase, next, mode, roots, chan>>
  BY DEF TakeJob, callVars
<1> HIDE DEF f, c
<1>5. PICK m \in Nat : /\ Moves(t, m, f) /\ Len(stack[t]) = m /\ Len(stack'[t]) = m + 1
                       /\ m > 0 => 1 \in 1 .. Len(stack[t]) /\ stack[t] # <<>> /\ At(t, m) = stack[t][1]
  BY <1>0, <1>3, PushMoves
<1>6. Len(stack[t]) # m + 1
  BY <1>5
<1>7. m > 0 => On(f, At(t, m))
  <2>1. ASSUME m > 0 PROVE /\ Head(stack[t]) = stack[t][1] /\ stack[t][1] \in Frame
                           /\ stack[t][1] = CallFrame(stack[t][1].call) /\ phase[stack[t][1].call] = "join"
    BY <1>0, <1>5, <2>1, StackFrames DEF TakeJob, InCall
  <2>2. ASSUME m > 0 PROVE stack[t][1].kind = "call"
    BY <2>1, <2>2, FrameCases, CallFrameType
  <2>3. QED
    BY <1>2, <1>5, <2>1, <2>2 DEF On
<1>8. PresentInv' /\ StackInv' /\ ParallelInv' /\ DescentInv'
  BY <1>1, <1>2, <1>4, <1>5, <1>6, <1>7, JobFrameWait
<1>9. PlaceInv'
  BY <1>0, <1>2, <1>4, <1>5, WorkSame, OrderSame, PlaceInvOf
<1>10. QED
  BY <1>8, <1>9 DEF NestingInv

(* A worker that changes the item of its job stays in place. *)
LEMMA ItemMoves ==
  ASSUME IInv, TypeOK', NestingInv, NEW t \in Thread, NEW c \in Call, NEW i, NEW j \in 0 .. Plan[c].items,
         InJob(t, c, i), Replace(t, JobFrame(c, j)), UNCHANGED <<phase, next, mode, roots>>
  PROVE  /\ PresentInv' /\ StackInv' /\ ParallelInv' /\ DescentInv'
         /\ \E m \in Nat : /\ Moves(t, m, JobFrame(c, j)) /\ Len(stack[t]) = m + 1 /\ Len(stack'[t]) = m + 1
                           /\ At(t, m + 1) = JobFrame(c, i)
<1> DEFINE f == JobFrame(c, j)
           g == JobFrame(c, i)
<1>0. TypeOK /\ StackInv
  BY DEF IInv, NestingInv
<1>1. f \in Frame /\ f.kind = "job" /\ f.call = c /\ g.kind = "job" /\ g.call = c
  BY JobFrameType DEF JobFrame
<1>2. stack[t] # <<>> /\ 1 \in 1 .. Len(stack[t]) /\ stack[t][1] = g
  BY <1>0, Innermost
<1>3. Replaced(t, f) /\ ElsewhereSame(t)
  BY <1>0, <1>1, <1>2, ReplaceStep
<1>4. \A d : CallFrame(d).kind = "call"
  BY DEF CallFrame
<1> HIDE DEF f, g
<1>5. PICK m \in Nat : /\ Moves(t, m, f) /\ Len(stack[t]) = m + 1 /\ Len(stack'[t]) = m + 1
                       /\ At(t, m + 1) = g
  BY <1>0, <1>2, <1>3, ReplaceMoves
<1>6. m + 1 \in 1 .. Len(stack[t]) /\ (m > 0 => m \in 1 .. Len(stack[t]) /\ m < Len(stack[t]))
  BY <1>5
<1>7. Plan[c].pool = Home[t]
  BY <1>0, <1>1, <1>5, <1>6 DEF StackInv
<1>8. m > 0 => On(f, At(t, m))
  <2>1. m > 0 => On(g, At(t, m))
    BY <1>0, <1>5, <1>6 DEF StackInv
  <2>2. QED
    BY <1>1, <1>4, <2>1 DEF On
<1>9. PresentInv' /\ StackInv' /\ ParallelInv' /\ DescentInv'
  BY <1>1, <1>5, <1>7, <1>8, JobFrameWait
<1>10. QED
  BY <1>5, <1>9 DEF f, g

(* Receiving an item keeps it: the item leaves the channel, and no other    *)
(* worker has it.                                                           *)
LEMMA RecvWait ==
  ASSUME IInv, TypeOK', NestingInv, NEW t \in Thread, NEW c \in Call, Recv(t, c)
  PROVE  NestingInv'
<1> DEFINE i == Head(chan[c])
           f == JobFrame(c, i)
<1>0. TypeOK /\ ChanOrder /\ WorkPlaces
  BY PlaceInvOf DEF IInv, NestingInv
<1>1. chan[c] # <<>> /\ InJob(t, c, 0) /\ Replace(t, f) /\ chan' = [chan EXCEPT ![c] = Tail(@)]
  BY DEF Recv
<1>2. i \in 0 .. Plan[c].items
  BY <1>1, ReceivedItem
<1>3. UNCHANGED <<phase, next, mode, roots>>
  BY DEF Recv, callVars
<1>4. f.kind = "job" /\ f.call = c /\ f.item = i
  BY DEF JobFrame
<1>5. /\ PresentInv' /\ StackInv' /\ ParallelInv' /\ DescentInv'
      /\ \E m \in Nat : Moves(t, m, f)
  BY <1>1, <1>2, <1>3, ItemMoves
<1>6. PICK m \in Nat : Moves(t, m, f)
  BY <1>5
<1>7. chan[c] \in Seq(Nat) /\ chan'[c] = Tail(chan[c]) /\ \A d \in Call : d # c => chan'[d] = chan[d]
  BY <1>0, <1>1 DEF TypeOK
<1>8. /\ Len(chan[c]) \in Nat \ {0} /\ i = chan[c][1] /\ Len(chan'[c]) = Len(chan[c]) - 1
      /\ \A k \in 1 .. Len(chan[c]) - 1 : chan'[c][k] = chan[c][k + 1]
  <2>1. Len(chan[c]) \in Nat \ {0} /\ i = chan[c][1]
    BY <1>1, <1>7, EmptySeq
  <2>2. /\ Len(chan'[c]) = Len(chan[c]) - 1
        /\ \A k \in 1 .. Len(chan'[c]) : chan'[c][k] = chan[c][k + 1]
    <3>1. /\ Tail(chan[c]) \in Seq(Nat) /\ Len(Tail(chan[c])) = Len(chan[c]) - 1
          /\ \A k \in 1 .. Len(Tail(chan[c])) : Tail(chan[c])[k] = chan[c][k + 1]
      BY <1>1, <1>7, HeadTailProperties
    <3>2. QED
      BY <1>7, <3>1
  <2>3. QED
    BY <2>1, <2>2
<1> HIDE DEF f, i
<1>9. PICK n \in Nat : Len(chan[c]) = n + 1 /\ Len(chan'[c]) = n /\ \A k \in 1 .. n : chan'[c][k] = chan[c][k + 1]
  <2>1. PICK n \in Nat : Len(chan[c]) = n + 1
    <3>1. Len(chan[c]) - 1 \in Nat /\ Len(chan[c]) = (Len(chan[c]) - 1) + 1
      BY <1>8
    <3>2. QED
      BY <3>1
  <2>2. (n + 1) - 1 = n
    OBVIOUS
  <2>3. QED
    BY <1>8, <2>1, <2>2
<1>10. \A k \in 1 .. n : k + 1 \in 1 .. n + 1 /\ 1 \in 1 .. n + 1 /\ 1 < k + 1
  OBVIOUS
<1>11. ChanOrder'
  <2> SUFFICES ASSUME NEW d \in Call, NEW k \in 1 .. Len(chan'[d]), NEW l \in 1 .. Len(chan'[d]), k < l
               PROVE  chan'[d][k] < chan'[d][l]
    BY DEF ChanOrder
  <2>1. CASE d # c
    BY <1>0, <1>7, <2>1 DEF ChanOrder
  <2>2. CASE d = c
    <3>1. k \in 1 .. n /\ l \in 1 .. n /\ k + 1 < l + 1
      BY <1>9, <2>2
    <3>2. chan[c][k + 1] < chan[c][l + 1]
      BY <1>0, <1>9, <1>10, <3>1 DEF ChanOrder
    <3>3. QED
      BY <1>9, <2>2, <3>1, <3>2
  <2>3. QED
    BY <2>1, <2>2
<1>12. \A g : InChannel(chan', g) /\ g.call \in Call => InChannel(chan, g)
  <2> SUFFICES ASSUME NEW g, g.call \in Call, NEW k \in 1 .. Len(chan'[g.call]), chan'[g.call][k] = g.item
               PROVE  InChannel(chan, g)
    BY DEF InChannel
  <2>1. CASE g.call = c
    BY <1>9, <1>10, <2>1 DEF InChannel
  <2>2. CASE g.call # c
    BY <1>7, <2>2 DEF InChannel
  <2>3. QED
    BY <2>1, <2>2
<1>13. ASSUME NEW u \in Thread, NEW h \in Nat, Unmoved(t, m, u, h), AtWork(At(u, h))
       PROVE  ~InChannel(chan', At(u, h)) /\ At(u, h) # f
  <2>1. h \in 1 .. Len(stack[u]) /\ At(u, h).call \in Call
    BY <1>0, <1>6, <1>13, MovesAt, MadeCalls
  <2>2. ~InChannel(chan, At(u, h))
    BY <1>0, <1>13, <2>1 DEF WorkPlaces
  <2>3. InChannel(chan, f)
    BY <1>4, <1>8, <1>9, <1>10 DEF InChannel
  <2>4. QED
    BY <1>12, <2>1, <2>2, <2>3
<1>14. ~InChannel(chan', f)
  <2> SUFFICES ASSUME NEW k \in 1 .. Len(chan'[c]), chan'[c][k] = i PROVE FALSE
    BY <1>4 DEF InChannel
  <2>1. k \in 1 .. n /\ chan[c][k + 1] = i
    BY <1>9
  <2>2. chan[c][1] < chan[c][k + 1]
    BY <1>0, <1>9, <1>10, <2>1 DEF ChanOrder
  <2>3. i \in Nat
    BY <1>2, PlanAssumption
  <2>4. QED
    BY <1>8, <2>1, <2>2, <2>3
<1>15. WorkPlaces'
  BY <1>0, <1>6, <1>13, <1>14, WorkKept
<1>16. QED
  BY <1>5, <1>11, <1>15, PlaceInvOf DEF NestingInv

(* So does completing a task. *)
LEMMA TaskEndsWait ==
  ASSUME IInv, TypeOK', NestingInv, NEW t \in Thread, NEW c \in Call, WorkerTaskEnds(t, c)
  PROVE  NestingInv'
<1>0. TypeOK /\ ChanOrder /\ WorkPlaces
  BY PlaceInvOf DEF IInv, NestingInv
<1>1. PICK i : InJob(t, c, i) /\ Replace(t, JobFrame(c, 0))
  BY DEF WorkerTaskEnds
<1>2. UNCHANGED <<phase, next, mode, roots, chan>>
  BY DEF WorkerTaskEnds, callVars
<1>3. 0 \in 0 .. Plan[c].items
  BY PlanAssumption
<1>4. PresentInv' /\ StackInv' /\ ParallelInv' /\ DescentInv' /\ \E m \in Nat : Moves(t, m, JobFrame(c, 0))
  BY <1>1, <1>2, <1>3, ItemMoves
<1>5. ~AtWork(JobFrame(c, 0))
  BY DEF AtWork, JobFrame
<1>6. PlaceInv'
  BY <1>0, <1>2, <1>4, <1>5, WorkSame, OrderSame, PlaceInvOf
<1>7. QED
  BY <1>4, <1>6 DEF NestingInv

(* And so does ending a job. *)
LEMMA JobEndsWait ==
  ASSUME IInv, TypeOK', NestingInv, NEW t \in Thread, NEW c \in Call, JobEnds(t, c)
  PROVE  NestingInv'
<1> DEFINE f == JobFrame(c, 0)
<1>0. TypeOK /\ ChanOrder /\ WorkPlaces
  BY PlaceInvOf DEF IInv, NestingInv
<1>1. stack[t] # <<>> /\ stack[t][1] = f /\ UNCHANGED <<phase, next, mode, roots, chan>>
  BY <1>0, Innermost DEF JobEnds, callVars
<1>2. f.kind = "job"
  BY DEF JobFrame
<1>3. Popped(t) /\ ElsewhereSame(t)
  BY <1>0, <1>1, PopStep DEF JobEnds
<1> HIDE DEF f
<1>4. PICK m \in Nat : /\ Moves(t, m, f) /\ Len(stack[t]) = m + 1 /\ Len(stack'[t]) = m
                       /\ At(t, m + 1) = f
  BY <1>0, <1>1, <1>3, PopMoves
<1>5. Len(stack'[t]) # m + 1
  BY <1>4
<1>6. PresentInv' /\ StackInv' /\ ParallelInv' /\ DescentInv'
  BY <1>1, <1>2, <1>4, <1>5, JobFrameWait
<1>7. PlaceInv'
  BY <1>0, <1>1, <1>4, <1>5, WorkSame, OrderSame, PlaceInvOf
<1>8. QED
  BY <1>6, <1>7 DEF NestingInv


-----------------------------------------------------------------------------
(* Initially, and always.                                                   *)

LEMMA InitWait ==
  ASSUME Init
  PROVE  NestingInv
<1>1. /\ \A t \in Thread : stack[t] = <<>> /\ Len(stack[t]) = 0
      /\ \A c \in Call : /\ phase[c] = "idle" /\ mode[c] = "none"
                         /\ chan[c] = <<>> /\ Len(chan[c]) = 0
  BY DEF Init
<1>2. 1 .. 0 = {}
  OBVIOUS
<1>3. PresentInv
  BY <1>1 DEF PresentInv
<1>4. StackInv
  BY <1>1, <1>2, ProgramsAssumption DEF StackInv, Init
<1>5. ChanOrder /\ WorkPlaces
  BY <1>1, <1>2 DEF ChanOrder, WorkPlaces
<1>6. ParallelInv
  BY <1>1, PlanAssumption DEF ParallelInv
<1>7. DescentInv
  BY <1>1, <1>2 DEF DescentInv
<1>8. QED
  BY <1>3, <1>4, <1>5, <1>6, <1>7, PlaceInvOf DEF NestingInv

LEMMA NextWait ==
  ASSUME IInv, NestingInv, [Next]_vars
  PROVE  NestingInv'
<1>1. TypeOK /\ TypeOK'
  BY NextInv DEF IInv
<1>2. CASE UNCHANGED vars
  <2>1. UNCHANGED <<stack, mode, phase, next, chan, roots>>
    BY <1>2 DEF vars, callVars, workVars
  <2>2. ASSUME NEW t \in Thread, NEW h \in 1 .. Len(stack[t])
        PROVE  /\ On(At(t, h + 1), At(t, h))' <=> On(At(t, h + 1), At(t, h))
               /\ At(t, h)' = At(t, h) /\ At(t, 1)' = At(t, 1)
               /\ InChannel(chan, At(t, h))' <=> InChannel(chan, At(t, h))
    BY <2>1 DEF On, At, InChannel
  <2>3. PresentInv'
    BY <2>1 DEF NestingInv, PresentInv, Frames
  <2>4. StackInv'
    <3>1. StackInv
      BY DEF NestingInv
    <3>2. ASSUME NEW t \in Thread, NEW h \in 1 .. Len(stack[t])
          PROVE  /\ h = 1 => Bottom(t, At(t, h)')
                 /\ h < Len(stack[t]) => On(At(t, h + 1), At(t, h))'
                 /\ At(t, h)'.kind = "job" => Plan[At(t, h)'.call].pool = Home[t]
      BY <2>2, <3>1 DEF StackInv
    <3>3. \A t \in Thread : Home[t] # NoPool => roots'[t] = <<>>
      BY <2>1, <3>1 DEF StackInv
    <3>4. QED
      BY <2>1, <3>2, <3>3 DEF StackInv, Bottom, At
  <2>5. PlaceInv'
    <3>1. ChanOrder' /\ WorkPlaces
      BY <2>1, PlaceInvOf, OrderSame DEF NestingInv
    <3>2. WorkPlaces'
      <4>1. ASSUME NEW t \in Thread PROVE WorkPlaces'
        <5>1. PICK m \in Nat : m = Len(stack[t])
          BY <1>1, AtFrames
        <5>2. Moves(t, m, t) /\ Len(stack'[t]) # m + 1
          BY <2>1, <5>1 DEF Moves, At, ElsewhereSame
        <5>3. QED
          BY <1>1, <2>1, <3>1, <5>2, WorkSame
      <4>2. QED
        BY <4>1 DEF WorkPlaces
    <3>3. QED
      BY <3>1, <3>2, PlaceInvOf
  <2>6. ParallelInv'
    BY <2>1 DEF NestingInv, ParallelInv, Workers
  <2>7. DescentInv'
    BY <2>1 DEF NestingInv, DescentInv, At, GoesDown
  <2>8. QED
    BY <2>3, <2>4, <2>5, <2>6, <2>7 DEF NestingInv
<1>3. ASSUME NEW t \in Thread, Step(t) PROVE NestingInv'
  <2>1. \/ StartRoot(t) \/ TakeJob(t)
        \/ \E c \in Call :
              \/ ReporterCalls(t, c)
              \/ CallWithCount(t, c) \/ ExecuteWithCount(t, c) \/ Spawn(t, c)
              \/ SourceCalls(t, c) \/ SourceGives(t, c) \/ SourceEnds(t, c)
              \/ Send(t, c) \/ Leave(t, c)
              \/ TaskCalls(t, c) \/ SequentialTaskEnds(t, c) \/ WorkerTaskEnds(t, c)
              \/ Recv(t, c) \/ JobEnds(t, c)
    BY <1>1, <1>3, StepCases
  <2>2. CASE StartRoot(t) \/ \E c \in Call : ReporterCalls(t, c) \/ SourceCalls(t, c) \/ TaskCalls(t, c)
    BY <1>1, <2>2, MakesCall, CallsWait
  <2>3. CASE \E c \in Call : \/ CallWithCount(t, c) \/ ExecuteWithCount(t, c)
                             \/ Spawn(t, c) \/ SourceGives(t, c) \/ SourceEnds(t, c) \/ Send(t, c)
                             \/ SequentialTaskEnds(t, c)
    BY <1>1, <2>3, CallerWait
  <2>4. CASE \E c \in Call : Leave(t, c)
    BY <1>1, <2>4, LeaveWait
  <2>5. CASE TakeJob(t) \/ \E c \in Call : WorkerTaskEnds(t, c) \/ Recv(t, c) \/ JobEnds(t, c)
    BY <1>1, <2>5, TakeWait, TaskEndsWait, RecvWait, JobEndsWait
  <2>6. QED
    BY <2>1, <2>2, <2>3, <2>4, <2>5
<1>4. QED
  BY <1>2, <1>3 DEF Next, Terminated

(* At every point of every program each call under way is on a stack; on    *)
(* top of a frame is what it has called, or a job taken while it waits for  *)
(* a scope; an item is in the channel or on one worker; a call with a       *)
(* reporter's call is parallel; and calls that go down the pools pile up so.*)
THEOREM Nesting == Spec => []NestingInv
<1>1. Init => IInv /\ NestingInv
  BY InitInv, InitWait
<1>2. IInv /\ NestingInv /\ [Next]_vars => (IInv /\ NestingInv)'
  BY NextInv, NextWait
<1>3. QED
  BY <1>1, <1>2, PTL DEF Spec


-----------------------------------------------------------------------------
(* Stalls.                                                                  *)

\* The exception a source makes: it waits for a call while it keeps a worker in
\* recv, or at its very end.
KeptBySource(c) ==
    SourceWaits(c) /\ (next[c] <= Plan[c].items => \E t \in Thread : InJob(t, c, 0))

\* Thread t waits for room in the channel of call c, or for its scope to end.
WaitsIn(t, c) ==
    /\ stack[t] # <<>> /\ stack[t][1] = CallFrame(c)
    /\ \/ phase[c] = "send"
       \/ phase[c] = "join" /\ (jobs[c] > 0 \/ ~ReporterJoined(c))

(* A call that sources and tasks make is on top of what made it. *)
LEMMA CalledFrom ==
  ASSUME IInv, NestingInv, NEW c \in Call, NEW d \in Inside(c), phase[d] \notin {"idle"} \cup Over
  PROVE  \E u \in Thread : \E h \in 1 .. Len(stack[u]) : h < Len(stack[u]) /\ On(CallFrame(d), At(u, h))
<1>1. TypeOK /\ PresentInv /\ StackInv /\ d \in Call
  BY InsideSites DEF IInv, NestingInv
<1>2. PICK u \in Thread : CallFrame(d) \in Frames(u)
  BY <1>1 DEF PresentInv
<1>3. PICK l \in 1 .. Len(stack[u]) : CallFrame(d) = At(u, l)
  BY <1>1, <1>2, AtFrames
<1>4. l # 1
  <2>1. Bottom(u, CallFrame(d)) => d \notin Inside(c)
    BY <1>1, CallFrameType DEF Bottom
  <2>2. QED
    BY <1>1, <1>3, <2>1 DEF StackInv
<1>5. PICK h \in 1 .. Len(stack[u]) : l = h + 1 /\ h < Len(stack[u])
  <2>1. l - 1 \in 1 .. Len(stack[u]) /\ l = (l - 1) + 1 /\ l - 1 < Len(stack[u])
    BY <1>1, <1>4, AtFrames
  <2>2. QED
    BY <2>1
<1>6. On(At(u, h + 1), At(u, h))
  BY <1>1, <1>5 DEF StackInv
<1>7. QED
  BY <1>3, <1>5, <1>6

(* There is one place a call can be on top of. *)
LEMMA CallerOf ==
  ASSUME IInv, NestingInv, NEW c \in Call, NEW i \in 1 .. Plan[c].items, NEW d \in Call,
         NEW u \in Thread, NEW h \in 1 .. Len(stack[u]), On(CallFrame(d), At(u, h))
  PROVE  /\ d = Plan[c].inSource[i] => At(u, h) = CallFrame(c)
         /\ d = Plan[c].inTask[i] => \/ At(u, h) = JobFrame(c, i)
                                     \/ At(u, h) = CallFrame(c) /\ phase[c] = "run" /\ i = next[c]
<1> DEFINE f == At(u, h)
           e == f.call
<1>1. TypeOK /\ SourceInv /\ d # NoCall
  BY PlanAssumption DEF IInv
<1>2. f \in Frame /\ e \in Call
  BY <1>1, AtFrames, FrameCases
<1>3. next[e] \in 1 .. Plan[e].items + 1 /\ (phase[e] = "run" => next[e] <= Plan[e].items) /\ Plan[e].items \in Nat
  BY <1>1, <1>2, PlanAssumption DEF SourceInv
<1>4. \A k : CallFrame(k).kind = "call" /\ CallFrame(k).call = k
  BY DEF CallFrame
<1> HIDE DEF f, e
<1>5. CASE f.kind = "job"
  <2>1. f.item \in 1 .. Plan[e].items /\ f = JobFrame(e, f.item)
    <3>1. f.item \in 0 .. Plan[e].items /\ f = JobFrame(e, f.item)
      BY <1>2, <1>5, FrameCases DEF e
    <3>2. f.item > 0
      BY <1>5 DEF On, f
    <3>3. QED
      BY <1>3, <3>1, <3>2
  <2>2. d = Plan[e].inTask[f.item]
    <3>1. CallFrame(d) = CallFrame(Plan[e].inTask[f.item])
      BY <1>5 DEF On, f, e
    <3>2. QED
      BY <1>4, <3>1
  <2>3. /\ d # Plan[c].inSource[i]
        /\ d = Plan[c].inTask[i] => e = c /\ f.item = i
    BY <1>1, <1>2, <2>1, <2>2, SitesAssumption
  <2>4. QED
    BY <2>1, <2>3 DEF f
<1>6. CASE f.kind = "call"
  <2>1. f = CallFrame(e)
    BY <1>2, <1>6, FrameCases, <1>4 DEF e
  <2>2. \/ phase[e] = "pull" /\ next[e] <= Plan[e].items /\ d = Plan[e].inSource[next[e]]
        \/ phase[e] = "run" /\ d = Plan[e].inTask[next[e]]
    <3>1. \/ phase[e] = "pull" /\ next[e] <= Plan[e].items /\ CallFrame(d) = CallFrame(Plan[e].inSource[next[e]])
          \/ phase[e] = "run" /\ CallFrame(d) = CallFrame(Plan[e].inTask[next[e]])
      BY <1>4, <1>6 DEF On, f, e
    <3>2. QED
      BY <1>4, <3>1
  <2>3. next[e] \in 1 .. Plan[e].items
    BY <1>3, <2>2
  <2>4. CASE phase[e] = "pull" /\ d = Plan[e].inSource[next[e]]
    <3>1. /\ d # Plan[c].inTask[i]
          /\ d = Plan[c].inSource[i] => e = c
      BY <1>1, <1>2, <2>3, <2>4, SitesAssumption
    <3>2. QED
      BY <2>1, <3>1 DEF f
  <2>5. CASE phase[e] = "run" /\ d = Plan[e].inTask[next[e]]
    <3>1. /\ d # Plan[c].inSource[i]
          /\ d = Plan[c].inTask[i] => e = c /\ next[e] = i
      BY <1>1, <1>2, <2>3, <2>5, SitesAssumption
    <3>2. QED
      BY <2>1, <2>5, <3>1 DEF f
  <2>6. QED
    BY <2>2, <2>4, <2>5
<1>7. QED
  BY <1>2, <1>5, <1>6, FrameCases


(* In a stalled program without such a source, every thread that is in      *)
(* something waits in a call, for room in the channel or for the scope.     *)
LEMMA TopsWait ==
  ASSUME IInv, NestingInv, \A t \in Thread : Blocked(t), \A c \in Call : ~KeptBySource(c),
         NEW t \in Thread, stack[t] # <<>>
  PROVE  \E c \in Call : WaitsIn(t, c)
<1>1. TypeOK /\ FrameInv /\ SourceInv /\ CallInv /\ PresentInv /\ StackInv /\ WorkPlaces
  BY PlaceInvOf DEF IInv, NestingInv
\* Waiting for a call made from a source or a task: that call's frame would have
\* to be on top of this one.
<1>2. ASSUME NEW c \in Call, InCall(t, c, "pull"), SourceWaits(c) PROVE FALSE
  <2> DEFINE d == Plan[c].inSource[next[c]]
  <2>1. next[c] <= Plan[c].items /\ InProgress(d)
    BY <1>2 DEF KeptBySource, SourceWaits
  <2>2. next[c] \in 1 .. Plan[c].items
    BY <1>1, <2>1, PlanAssumption DEF SourceInv
  <2>3. d \in Call /\ d \in Inside(c) /\ phase[d] \notin {"idle"} \cup Over
    BY <2>1, <2>2, PlanAssumption, InsideSites DEF InProgress
  <2>4. PICK u \in Thread : \E h \in 1 .. Len(stack[u]) : h < Len(stack[u]) /\ On(CallFrame(d), At(u, h))
    BY <2>3, CalledFrom
  <2>5. PICK h \in 1 .. Len(stack[u]) : h < Len(stack[u]) /\ On(CallFrame(d), At(u, h))
    BY <2>4
  <2>6. At(u, h) = CallFrame(c)
    BY <2>2, <2>3, <2>5, CallerOf
  <2>7. At(t, Len(stack[t])) = CallFrame(c) /\ Len(stack[t]) \in 1 .. Len(stack[t])
    BY <1>1, <1>2, Innermost, AtFrames
  <2>8. u = t /\ h = Len(stack[t])
    BY <1>1, <2>6, <2>7, OneFrame, CallFrameType
  <2>9. QED
    BY <1>1, <2>5, <2>8, AtFrames
<1>3. ASSUME NEW c \in Call, NEW i \in 1 .. Plan[c].items, Running(t, c, i), InProgress(Plan[c].inTask[i])
      PROVE  FALSE
  <2> DEFINE d == Plan[c].inTask[i]
  <2>1. d \in Call /\ d \in Inside(c) /\ phase[d] \notin {"idle"} \cup Over
    BY <1>3, PlanAssumption, InsideSites DEF InProgress
  <2>2. PICK u \in Thread : \E h \in 1 .. Len(stack[u]) : h < Len(stack[u]) /\ On(CallFrame(d), At(u, h))
    BY <2>1, CalledFrom
  <2>3. PICK h \in 1 .. Len(stack[u]) : h < Len(stack[u]) /\ On(CallFrame(d), At(u, h))
    BY <2>2
  <2>4. At(u, h) = JobFrame(c, i) \/ (At(u, h) = CallFrame(c) /\ phase[c] = "run")
    BY <2>1, <2>3, CallerOf
  <2>5. /\ Len(stack[t]) \in 1 .. Len(stack[t]) /\ Len(stack[t]) \in Nat
        /\ \/ At(t, Len(stack[t])) = JobFrame(c, i)
           \/ At(t, Len(stack[t])) = CallFrame(c) /\ phase[c] = "run"
    BY <1>1, <1>3, Innermost, AtFrames DEF Running
  <2>6. ASSUME NEW v \in Thread, NEW l \in 1 .. Len(stack[v]), At(v, l) = JobFrame(c, i) PROVE phase[c] # "run"
    <3>1. PICK k \in 1 .. Len(stack[v]) : stack[v][k] = JobFrame(c, i)
      <4>1. JobFrame(c, i) \in Frames(v)
        BY <1>1, <2>6, AtFrames
      <4>2. QED
        BY <4>1 DEF Frames
    <3>2. IsJobOf(stack[v][k], c)
      BY <3>1 DEF IsJobOf, JobFrame
    <3>3. jobs[c] \in Nat \ {0}
      BY <3>2, JobsOnStack
    <3>4. QED
      BY <3>3 DEF IInv, JobInv
  <2>7. CASE At(u, h) = JobFrame(c, i) /\ At(t, Len(stack[t])) = JobFrame(c, i)
    <3>1. AtWork(JobFrame(c, i))
      BY DEF AtWork, JobFrame
    <3>2. u = t /\ h = Len(stack[t])
      BY <1>1, <2>5, <2>7, <3>1 DEF WorkPlaces
    <3>3. QED
      BY <2>3, <2>5, <3>2
  <2>8. CASE At(u, h) = CallFrame(c) /\ At(t, Len(stack[t])) = CallFrame(c)
    <3>1. u = t /\ h = Len(stack[t])
      BY <1>1, <2>5, <2>8, OneFrame, CallFrameType
    <3>2. QED
      BY <2>3, <2>5, <3>1
  <2>9. QED
    BY <2>3, <2>4, <2>5, <2>6, <2>7, <2>8
\* Waiting for an item: the call that should send it does not wait for anything.
<1>4. ASSUME NEW c \in Call, InJob(t, c, 0), chan[c] = <<>>, open[c] PROVE FALSE
  <2>1. stack[t][1] = JobFrame(c, 0) /\ 1 \in 1 .. Len(stack[t])
    BY <1>1, <1>4, Innermost
  <2>2. IsJobOf(stack[t][1], c)
    BY <2>1 DEF IsJobOf, JobFrame
  <2>3. jobs[c] \in Nat \ {0}
    BY <2>1, <2>2, JobsOnStack
  <2>4. mode[c] = "parallel" /\ phase[c] \in {"spawn", "pull", "send"}
    BY <1>1, <1>4, <2>3 DEF IInv, JobInv, CallInv
  <2>5. PICK u \in Thread : CallFrame(c) \in Frames(u)
    BY <1>1, <2>4 DEF PresentInv, Over
  <2>6. PICK h \in 1 .. Len(stack[u]) : At(u, h) = CallFrame(c)
    BY <1>1, <2>5, AtFrames
  <2>7. CASE h = Len(stack[u])
    <3>1. stack[u] # <<>> /\ Head(stack[u]) = CallFrame(c)
      BY <1>1, <2>6, <2>7, AtFrames, EmptySeq
    <3>2. /\ \A d : CallFrame(d) = CallFrame(c) => d = c
          /\ \A d, i : JobFrame(d, i) # CallFrame(c)
      BY DEF CallFrame, JobFrame
    <3>3. \/ InCall(u, c, "send") /\ Len(chan[c]) >= WorkerCount(c)
          \/ InCall(u, c, "pull") /\ SourceWaits(c)
      BY <2>4, <3>1, <3>2 DEF Blocked, InCall, InJob, Running
    <3>4. ~SourceWaits(c)
      BY <1>4 DEF KeptBySource
    <3>5. phase[c] = "send" /\ Len(chan[c]) >= WorkerCount(c)
      BY <3>3, <3>4 DEF InCall
    <3>6. WorkerCount(c) > 0 /\ WorkerCount(c) \in Nat
      <4>1. Cardinality(Workers(Plan[c].pool)) \in Nat
        BY ThreadsAssumption, FS_Subset, FS_CardinalityType DEF Workers
      <4>2. Cardinality(Workers(Plan[c].pool)) > 1
        BY <2>4 DEF NestingInv, ParallelInv
      <4>3. Plan[c].items \in Nat /\ Plan[c].items > 0
        BY <1>1, <3>5, PlanAssumption DEF SourceInv
      <4>4. QED
        BY <4>1, <4>2, <4>3 DEF WorkerCount
    <3>7. Len(chan[c]) = 0
      BY <1>4
    <3>8. QED
      BY <3>5, <3>6, <3>7
  <2>8. CASE h # Len(stack[u])
    <3>1. h < Len(stack[u]) /\ h + 1 \in 1 .. Len(stack[u])
      BY <1>1, <2>8, AtFrames
    <3>2. CallFrame(c).kind = "call" /\ CallFrame(c).call = c
      BY CallFrameType
    <3>3. phase[c] = "pull"
      BY <1>1, <2>4, <2>6, <3>1, <3>2, OneFrame
    <3>4. On(At(u, h + 1), CallFrame(c))
      BY <1>1, <2>6, <3>1 DEF StackInv
    <3>5. next[c] <= Plan[c].items /\ At(u, h + 1) = CallFrame(Plan[c].inSource[next[c]])
      BY <3>2, <3>3, <3>4 DEF On
    <3>6. At(u, h + 1).kind = "call" /\ At(u, h + 1).call = Plan[c].inSource[next[c]]
      BY <3>5 DEF CallFrame
    <3>7. Plan[c].inSource[next[c]] \in Call /\ phase[Plan[c].inSource[next[c]]] \notin {"idle"} \cup Over
      BY <1>1, <3>1, <3>6, OneFrame
    <3>8. InProgress(Plan[c].inSource[next[c]])
      BY <3>7, PlanAssumption DEF InProgress
    <3>9. SourceWaits(c)
      BY <3>3, <3>5, <3>8 DEF SourceWaits
    <3>10. QED
      BY <1>4, <3>9 DEF KeptBySource
  <2>9. QED
    BY <2>7, <2>8
<1>5. PICK c \in Call :
         \/ InJob(t, c, 0) /\ chan[c] = <<>> /\ open[c]
         \/ InCall(t, c, "send") /\ Len(chan[c]) >= WorkerCount(c)
         \/ InCall(t, c, "join") /\ IF jobs[c] > 0 THEN ~JobQueued(t) ELSE ~ReporterJoined(c)
         \/ InCall(t, c, "pull") /\ SourceWaits(c)
         \/ \E i \in 1 .. Plan[c].items : Running(t, c, i) /\ InProgress(Plan[c].inTask[i])
  BY DEF Blocked
<1>6. \/ InCall(t, c, "send")
      \/ InCall(t, c, "join") /\ (jobs[c] > 0 \/ ~ReporterJoined(c))
  BY <1>2, <1>3, <1>4, <1>5
<1>7. QED
  BY <1>1, <1>6, Innermost DEF WaitsIn


(* A set of numbers has a least one. *)
LEMMA LeastNumber ==
  ASSUME NEW S, S \subseteq Nat, S # {}
  PROVE  \E n \in S : \A k \in S : n <= k
<1> DEFINE R == {ss \in Nat \X Nat : ss[1] < ss[2]}
<1>1. IsWellFoundedOn(R, Nat)
  BY NatLessThanWellFounded, Zenon DEF OpToRel
<1>2. \A k, n \in Nat : k < n => <<k, n>> \in R
  OBVIOUS
<1> HIDE DEF R
<1>3. PICK n \in S : \A k \in S : <<k, n>> \notin R
  BY <1>1, WFMin
<1>4. ASSUME NEW k \in S PROVE n <= k
  <2>1. k \in Nat /\ n \in Nat
    OBVIOUS
  <2>2. ~(k < n)
    BY <1>2, <1>3, <2>1
  <2>3. QED
    BY <2>1, <2>2
<1>5. QED
  BY <1>4

(* A parallel call with jobs has a worker that is in something. *)
LEMMA BusyWorker ==
  ASSUME IInv, NestingInv, \A t \in Thread : Blocked(t), NEW c \in Call, mode[c] = "parallel", jobs[c] > 0
  PROVE  \E w \in Workers(Plan[c].pool) : stack[w] # <<>>
<1> DEFINE p == Plan[c].pool
<1>1. TypeOK /\ StackInv /\ p \in Pool /\ p # NoPool
  BY PlanAssumption, ThreadsAssumption DEF IInv, NestingInv
<1>2. CASE StackJobs(c) # {}
  <2>1. PICK w \in Thread : JobHeights(w, c) # {}
    BY <1>2 DEF StackJobs
  <2>2. PICK h \in 1 .. Len(stack[w]) : At(w, h).kind = "job" /\ At(w, h).call = c
    BY <2>1 DEF JobHeights, IsJobOf
  <2>3. Home[w] = p
    BY <1>1, <2>2 DEF StackInv
  <2>4. stack[w] # <<>>
    <3>1. stack[w] = <<>> => Len(stack[w]) = 0
      BY <1>1, AtFrames
    <3>2. QED
      BY <2>2, <3>1
  <2>5. QED
    BY <2>3, <2>4 DEF Workers
<1>3. CASE StackJobs(c) = {}
  <2>1. QueuedJobs(c) # {}
    <3>1. jobs[c] = Cardinality(StackJobs(c)) + Cardinality(QueuedJobs(c))
      BY DEF IInv, JobInv
    <3>2. QueuedJobs(c) = {} => jobs[c] = 0
      BY <1>3, <3>1, FS_EmptySet
    <3>3. QED
      BY <3>2
  <2>2. queue[p] # <<>>
    <3>1. PICK k \in 1 .. Len(queue[p]) : queue[p][k] = c
      BY <2>1 DEF QueuedJobs
    <3>2. queue[p] = <<>> => Len(queue[p]) = 0
      OBVIOUS
    <3>3. QED
      BY <3>1, <3>2
  <2>3. PICK w \in Workers(p) : TRUE
    <3>1. Cardinality(Workers(p)) > 1
      BY DEF NestingInv, ParallelInv
    <3>2. Workers(p) = {} => Cardinality(Workers(p)) = 0
      BY FS_EmptySet
    <3>3. QED
      BY <3>1, <3>2
  <2>4. w \in Thread /\ JobQueued(w)
    BY <1>1, <2>2 DEF Workers, JobQueued
  <2>5. stack[w] # <<>>
    BY <2>4 DEF Blocked, InJob, InCall, Running
  <2>6. QED
    BY <2>5
<1>4. QED
  BY <1>2, <1>3

(* What is on top of a frame is a job, or a call made within the frame's call. *)
LEMMA OnInside ==
  ASSUME IInv, NEW u \in Thread, NEW h \in 1 .. Len(stack[u]), NEW d \in Call, On(CallFrame(d), At(u, h))
  PROVE  \E c \in Call : d \in Inside(c)
<1> DEFINE f == At(u, h)
           e == f.call
<1>1. TypeOK /\ SourceInv /\ f \in Frame /\ e \in Call
  BY AtFrames, FrameCases DEF IInv
<1>2. next[e] \in 1 .. Plan[e].items + 1 /\ (phase[e] = "run" => next[e] <= Plan[e].items) /\ Plan[e].items \in Nat
  BY <1>1, PlanAssumption DEF SourceInv
<1>3. f.kind = "job" => f.item \in 0 .. Plan[e].items
  BY <1>1, FrameCases
<1>4. \A k : CallFrame(k).kind = "call" /\ CallFrame(k).call = k
  BY DEF CallFrame
<1>5. \/ f.kind = "job" /\ f.item > 0 /\ CallFrame(d) = CallFrame(Plan[e].inTask[f.item])
      \/ /\ phase[e] = "pull" /\ next[e] <= Plan[e].items
         /\ CallFrame(d) = CallFrame(Plan[e].inSource[next[e]])
      \/ phase[e] = "run" /\ CallFrame(d) = CallFrame(Plan[e].inTask[next[e]])
  BY <1>4 DEF On
<1> HIDE DEF f, e
<1>6. \E i \in 1 .. Plan[e].items : d = Plan[e].inSource[i] \/ d = Plan[e].inTask[i]
  <2>1. CASE f.kind = "job" /\ f.item > 0 /\ CallFrame(d) = CallFrame(Plan[e].inTask[f.item])
    <3>1. f.item \in 1 .. Plan[e].items
      BY <1>2, <1>3, <2>1
    <3>2. d = Plan[e].inTask[f.item]
      BY <1>4, <2>1
    <3>3. QED
      BY <3>1, <3>2
  <2>2. CASE /\ phase[e] = "pull" /\ next[e] <= Plan[e].items
             /\ CallFrame(d) = CallFrame(Plan[e].inSource[next[e]])
    <3>1. next[e] \in 1 .. Plan[e].items
      BY <1>2, <2>2
    <3>2. d = Plan[e].inSource[next[e]]
      BY <1>4, <2>2
    <3>3. QED
      BY <3>1, <3>2
  <2>3. CASE phase[e] = "run" /\ CallFrame(d) = CallFrame(Plan[e].inTask[next[e]])
    <3>1. next[e] \in 1 .. Plan[e].items
      BY <1>2, <2>3
    <3>2. d = Plan[e].inTask[next[e]]
      BY <1>4, <2>3
    <3>3. QED
      BY <3>1, <3>2
  <2>4. QED
    BY <1>5, <2>1, <2>2, <2>3
<1>7. QED
  BY <1>1, <1>6, PlanAssumption, InsideSites

(* If calls go down the pools, a call that is waited in has one that waits  *)
(* further down.                                                            *)
LEMMA LowerWaiter ==
  ASSUME IInv, NestingInv, \A t \in Thread : Blocked(t), \A c \in Call : ~KeptBySource(c),
         NEW rank \in [Pool -> 1 .. Cardinality(Pool)], GoesDown(rank),
         NEW t \in Thread, NEW c \in Call, WaitsIn(t, c)
  PROVE  \E u \in Thread, d \in Call : WaitsIn(u, d) /\ rank[Plan[d].pool] < rank[Plan[c].pool]
<1>1. TypeOK /\ CallInv /\ JobInv /\ PresentInv /\ StackInv /\ DescentInv /\ NoSelfWait
  BY DEF IInv, NestingInv
<1>2. \A p \in Pool : rank[p] \in Nat
  BY ThreadsAssumption, FS_CardinalityType
<1>3. \A d \in Call : Plan[d].pool \in Pool
  BY PlanAssumption
\* The innermost frame of a thread is on the pool of its bottom frame, or lower.
<1>4. ASSUME NEW u \in Thread, stack[u] # <<>>
      PROVE  \E d \in Call : /\ WaitsIn(u, d) /\ 1 \in 1 .. Len(stack[u])
                             /\ \/ Plan[d].pool = Plan[At(u, 1).call].pool
                                \/ rank[Plan[d].pool] < rank[Plan[At(u, 1).call].pool]
  <2>1. PICK d \in Call : WaitsIn(u, d)
    BY <1>4, TopsWait
  <2>2. 1 \in 1 .. Len(stack[u]) /\ Len(stack[u]) \in 1 .. Len(stack[u]) /\ At(u, Len(stack[u])) = CallFrame(d)
    BY <1>1, <1>4, <2>1, AtFrames DEF WaitsIn
  <2>3. \/ Plan[CallFrame(d).call].pool = Plan[At(u, 1).call].pool
        \/ rank[Plan[CallFrame(d).call].pool] < rank[Plan[At(u, 1).call].pool]
    BY <1>1, <2>2 DEF DescentInv
  <2>4. QED
    BY <2>1, <2>2, <2>3, CallFrameType
<1>5. CASE jobs[c] > 0
  <2>1. mode[c] = "parallel"
    BY <1>1, <1>5 DEF JobInv
  <2>2. PICK w \in Workers(Plan[c].pool) : stack[w] # <<>>
    BY <1>5, <2>1, BusyWorker
  <2>3. w \in Thread /\ Home[w] = Plan[c].pool /\ Home[w] # NoPool
    BY <1>3, ThreadsAssumption DEF Workers
  <2>4. PICK d \in Call : /\ WaitsIn(w, d) /\ 1 \in 1 .. Len(stack[w])
                          /\ \/ Plan[d].pool = Plan[At(w, 1).call].pool
                             \/ rank[Plan[d].pool] < rank[Plan[At(w, 1).call].pool]
    BY <1>4, <2>2, <2>3
  <2>5. Plan[At(w, 1).call].pool = Plan[c].pool
    <3>1. Bottom(w, At(w, 1)) /\ (At(w, 1).kind = "job" => Plan[At(w, 1).call].pool = Home[w])
      BY <1>1, <2>3, <2>4 DEF StackInv
    <3>2. QED
      BY <2>3, <3>1 DEF Bottom
  \* A worker of the pool would wait in a call for its own pool.
  <2>6. ASSUME Plan[d].pool = Plan[c].pool PROVE FALSE
    <3>1. CallFrame(d) \in Frames(w) /\ phase[d] \in {"send", "join"}
      BY <2>4 DEF WaitsIn, Frames
    <3>2. mode[d] # "parallel"
      BY <1>1, <2>3, <2>6, <3>1 DEF NoSelfWait
    <3>3. mode[d] = "sequential" /\ phase[d] = "join"
      BY <1>1, <3>1, <3>2 DEF CallInv, TypeOK, Over
    <3>4. ~(jobs[d] > 0)
      BY <1>1, <3>2 DEF JobInv
    <3>5. ~ReporterJoined(d)
      BY <2>4, <3>3, <3>4 DEF WaitsIn
    <3>6. Plan[d].inReport # NoCall /\ phase[Plan[d].inReport] # "idle"
      BY <3>5 DEF ReporterJoined
    <3>7. QED
      BY <3>2, <3>6 DEF NestingInv, ParallelInv
  <2>7. QED
    BY <2>3, <2>4, <2>5, <2>6
<1>6. CASE ~(jobs[c] > 0)
  <2>1. phase[c] = "join" /\ ~ReporterJoined(c)
    <3>1. phase[c] = "send" => mode[c] = "parallel"
      BY <1>1 DEF CallInv, TypeOK, Over
    <3>2. phase[c] # "send"
      BY <1>1, <1>6, <3>1 DEF JobInv
    <3>3. QED
      BY <1>6, <3>2 DEF WaitsIn
  <2> DEFINE d == Plan[c].inReport
  <2>2. d \in Call /\ phase[d] \notin {"idle"} \cup Over
    BY <2>1, PlanAssumption DEF ReporterJoined
  <2>3. \A e \in Call : d \notin Inside(e)
    BY <2>2, SitesAssumption
  <2>4. PICK u \in Thread : CallFrame(d) \in Frames(u)
    BY <1>1, <2>2 DEF PresentInv
  <2>5. PICK h \in 1 .. Len(stack[u]) : CallFrame(d) = At(u, h)
    BY <1>1, <2>4, AtFrames
  <2>6. h = 1
    <3> SUFFICES ASSUME h # 1 PROVE FALSE
      OBVIOUS
    <3>1. PICK l \in 1 .. Len(stack[u]) : h = l + 1 /\ l < Len(stack[u])
      <4>1. h - 1 \in 1 .. Len(stack[u]) /\ h = (h - 1) + 1 /\ h - 1 < Len(stack[u])
        BY <1>1, AtFrames
      <4>2. QED
        BY <4>1
    <3>2. On(CallFrame(d), At(u, l))
      BY <1>1, <2>5, <3>1 DEF StackInv
    <3>3. QED
      BY <2>2, <2>3, <3>2, OnInside
  <2>7. stack[u] # <<>>
    BY <1>1, <2>5, AtFrames
  <2>8. PICK e \in Call : /\ WaitsIn(u, e)
                          /\ \/ Plan[e].pool = Plan[At(u, 1).call].pool
                             \/ rank[Plan[e].pool] < rank[Plan[At(u, 1).call].pool]
    BY <1>4, <2>7
  <2>9. At(u, 1).call = d
    BY <2>2, <2>5, <2>6, CallFrameType
  <2>10. rank[Plan[d].pool] < rank[Plan[c].pool]
    BY <2>1, <2>2 DEF GoesDown
  <2>11. rank[Plan[e].pool] < rank[Plan[c].pool]
    BY <1>2, <1>3, <2>2, <2>8, <2>9, <2>10
  <2>12. QED
    BY <2>8, <2>11
<1>7. QED
  BY <1>5, <1>6

(* No program comes to a standstill for any other reason: whatever is       *)
(* nested in what, however many threads and executors there are, however    *)
(* small the channels, and whichever jobs waiting workers have taken, if    *)
(* every thread is blocked then the calls made go round in a circle of      *)
(* pools, or a source waits for a call while it keeps a worker in recv or   *)
(* at its very end.                                                         *)
THEOREM NoOtherStall == Spec => []StallsOnlyAsDocumented
<1>1. IInv /\ NestingInv => StallsOnlyAsDocumented
  <2> SUFFICES ASSUME IInv, NestingInv, Stalled, ~CyclicPools, \A c \in Call : ~KeptBySource(c)
               PROVE  FALSE
    BY DEF StallsOnlyAsDocumented, KeptBySource
  <2>1. PICK rank \in [Pool -> 1 .. Cardinality(Pool)] : GoesDown(rank)
    BY DEF CyclicPools
  <2>2. /\ \A t \in Thread : Blocked(t)
        /\ \E t \in Thread : roots[t] # <<>> \/ stack[t] # <<>>
    BY DEF Stalled, Finished
  <2>3. PICK t \in Thread : stack[t] # <<>>
    <3>1. \A t \in Thread : stack[t] = <<>> => roots[t] = <<>>
      BY <2>2 DEF Blocked, InJob, InCall, Running
    <3>2. QED
      BY <2>2, <3>1
  <2> DEFINE Waited == {c \in Call : \E u \in Thread : WaitsIn(u, c)}
             Ranks == {rank[Plan[c].pool] : c \in Waited}
  <2>4. Ranks \subseteq Nat /\ Ranks # {}
    <3>1. Waited # {}
      BY <2>2, <2>3, TopsWait
    <3>2. \A c \in Call : rank[Plan[c].pool] \in Nat
      BY PlanAssumption, ThreadsAssumption, FS_CardinalityType
    <3>3. QED
      BY <3>1, <3>2
  <2>5. PICK n \in Ranks : \A k \in Ranks : n <= k
    BY <2>4, LeastNumber
  <2>6. PICK c \in Waited : n = rank[Plan[c].pool]
    BY <2>5
  <2>7. PICK d \in Waited : rank[Plan[d].pool] < rank[Plan[c].pool]
    BY <2>1, <2>2, <2>6, LowerWaiter
  <2>8. rank[Plan[d].pool] \in Ranks
    OBVIOUS
  <2>9. rank[Plan[d].pool] \in Nat /\ n \in Nat /\ n <= rank[Plan[d].pool]
    BY <2>4, <2>5, <2>8
  <2>10. QED
    BY <2>6, <2>7, <2>9
<1>2. QED
  BY <1>1, Invariance, Nesting, PTL

-----------------------------------------------------------------------------
(* Nothing that is left to do is done.                                      *)

\* The parts of CountInv, and the frames it is about.
CountSets == \A c \in Call : Buffered(c) \cap done[c] = {}
CountSpawn == \A c \in Call : phase[c] = "spawn" => jobs[c] < WorkerCount(c)
CountFrames == \A t \in Thread : \A f \in Frames(t) : f.kind = "job" => f.item \notin done[f.call]

LEMMA CountInvOf ==
  /\ CountInv <=> CountSets /\ CountSpawn /\ CountFrames
  /\ CountInv' <=> CountSets' /\ CountSpawn' /\ CountFrames'
<1>1. CountFrames <=> \A t \in Thread : \A k \in 1 .. Len(stack[t]) :
          stack[t][k].kind = "job" => stack[t][k].item \notin done[stack[t][k].call]
  BY DEF CountFrames, Frames
<1>2. CountFrames' <=> \A t \in Thread : \A k \in 1 .. Len(stack'[t]) :
          stack'[t][k].kind = "job" => stack'[t][k].item \notin done'[stack'[t][k].call]
  BY DEF CountFrames, Frames
<1>3. QED
  BY <1>1, <1>2 DEF CountInv, CountSets, CountSpawn

(* There are as many workers as a number says. *)
LEMMA WorkerCountType ==
  ASSUME NEW c \in Call
  PROVE  /\ WorkerCount(c) \in Nat
         /\ Cardinality(Workers(Plan[c].pool)) > 1 /\ Plan[c].items > 0 => WorkerCount(c) > 0
<1>1. Cardinality(Workers(Plan[c].pool)) \in Nat
  BY ThreadsAssumption, FS_Subset, FS_CardinalityType DEF Workers
<1>2. Plan[c].items \in Nat
  BY PlanAssumption
<1>3. QED
  BY <1>1, <1>2 DEF WorkerCount

(* A call begins to spawn without jobs, and stops with its last one. *)
LEMMA CallerSpawns ==
  ASSUME IInv, CountSpawn, NEW t \in Thread, NEW c \in Call,
         \/ Calls(t, c) \/ CallWithCount(t, c) \/ ExecuteWithCount(t, c) \/ Spawn(t, c)
         \/ SourceGives(t, c) \/ SourceEnds(t, c) \/ Send(t, c) \/ Leaves(t, c)
         \/ SequentialTaskEnds(t, c)
  PROVE  CountSpawn'
<1> USE DEF Over
<1>1. TypeOK /\ JobInv
  BY DEF IInv
<1>2. \A d \in Call : jobs[d] \in Nat
  BY <1>1 DEF TypeOK
<1>3. CASE CallWithCount(t, c) \/ ExecuteWithCount(t, c)
  <2>1. /\ phase[c] \in {"call", "enter"} /\ UNCHANGED jobs
        /\ \E sequential \in BOOLEAN :
              /\ sequential = RunsSequentially(t, c)
              /\ phase' = [phase EXCEPT ![c] = IF sequential THEN "pull"
                                               ELSE IF @ = "call" THEN "enter" ELSE "spawn"]
    BY <1>3, Decision
  <2>2. /\ \A d \in Call : d # c => phase'[d] = phase[d]
        /\ phase'[c] = "spawn" => ~RunsSequentially(t, c)
    BY <1>1, <2>1 DEF TypeOK
  <2>3. jobs[c] = 0
    BY <1>1, <1>2, <2>1 DEF JobInv
  <2>4. ~RunsSequentially(t, c) => WorkerCount(c) > 0
    <3>1. Cardinality(Workers(Plan[c].pool)) \in Nat
      BY ThreadsAssumption, FS_Subset, FS_CardinalityType DEF Workers
    <3>2. Plan[c].items \in Nat /\ Threshold[Plan[c].pool] \in Nat
      BY PlanAssumption, ThresholdAssumption
    <3>3. QED
      BY <3>1, <3>2, WorkerCountType DEF RunsSequentially
  <2>5. QED
    BY <2>1, <2>2, <2>3, <2>4 DEF CountSpawn, WorkerCount, Workers
<1>4. CASE Spawn(t, c)
  <2>1. jobs[c] < WorkerCount(c) /\ WorkerCount(c) \in Nat
    BY <1>4, WorkerCountType DEF CountSpawn, Spawn, InCall
  <2>2. /\ \A d \in Call : jobs'[d] = IF d = c THEN jobs[c] + 1 ELSE jobs[d]
        /\ \A d \in Call : d # c => phase'[d] = phase[d]
        /\ phase'[c] = "spawn" => jobs'[c] # WorkerCount(c)
    BY <1>1, <1>4 DEF TypeOK, Spawn
  <2>3. phase'[c] = "spawn" => jobs'[c] < WorkerCount(c)
    BY <1>2, <2>1, <2>2
  <2>4. QED
    BY <2>2, <2>3 DEF CountSpawn, WorkerCount, Workers
<1>5. CASE \/ Calls(t, c) \/ SourceGives(t, c) \/ SourceEnds(t, c) \/ Send(t, c) \/ Leaves(t, c)
           \/ SequentialTaskEnds(t, c)
  <2>1. /\ UNCHANGED jobs
        /\ \E ph : ph # "spawn" /\ phase' = [phase EXCEPT ![c] = ph]
    <3>1. CASE Calls(t, c)
      <4>1. PICK ph \in {"call", "enter"} : phase' = [phase EXCEPT ![c] = ph]
        BY <3>1 DEF Calls
      <4>2. UNCHANGED jobs
        BY <3>1 DEF Calls
      <4>3. QED
        BY <4>1, <4>2
    <3>2. CASE SourceGives(t, c)
      <4>1. PICK ph \in {"send", "run"} : ph = IF mode[c] = "parallel" THEN "send" ELSE "run"
        OBVIOUS
      <4>2. phase' = [phase EXCEPT ![c] = ph] /\ UNCHANGED jobs
        BY <3>2, <4>1 DEF SourceGives, workVars
      <4>3. QED
        BY <4>1, <4>2
    <3>3. CASE Leaves(t, c)
      BY <3>3 DEF Leaves
    <3>4. CASE SourceEnds(t, c) \/ Send(t, c) \/ SequentialTaskEnds(t, c)
      BY <3>4 DEF SourceEnds, Send, SequentialTaskEnds, workVars
    <3>5. QED
      BY <1>5, <3>1, <3>2, <3>3, <3>4
  <2>2. \A d \in Call : phase'[d] = "spawn" => phase[d] = "spawn"
    BY <1>1, <2>1 DEF TypeOK
  <2>3. QED
    BY <2>1, <2>2 DEF CountSpawn, WorkerCount, Workers
<1>6. QED
  BY <1>3, <1>4, <1>5

LEMMA WorkerSpawns ==
  ASSUME IInv, CountSpawn, NEW t \in Thread,
         \/ TakeJob(t)
         \/ \E c \in Call : WorkerTaskEnds(t, c) \/ Recv(t, c) \/ JobEnds(t, c)
  PROVE  CountSpawn'
<1>1. TypeOK /\ UNCHANGED phase
  BY WorkersLeaveCalls DEF IInv
<1>2. \A d \in Call : jobs[d] \in Nat /\ (jobs'[d] = jobs[d] \/ jobs'[d] = jobs[d] - 1)
  BY <1>1 DEF TypeOK, TakeJob, WorkerTaskEnds, Recv, JobEnds
<1>3. ASSUME NEW d \in Call, phase'[d] = "spawn" PROVE jobs'[d] < WorkerCount(d)
  BY <1>1, <1>2, <1>3, WorkerCountType DEF CountSpawn
<1>4. QED
  BY <1>3 DEF CountSpawn, WorkerCount, Workers

(* Frames that come are of items not done, as the others are while nothing *)
(* is completed.                                                           *)
LEMMA FramesCount ==
  ASSUME CountFrames, UNCHANGED done, NEW gone, NEW come, Changes(gone, come),
         \A f \in come : f.kind = "job" => f.item \notin done[f.call]
  PROVE  CountFrames'
<1>1. ASSUME NEW t \in Thread, NEW f \in Frames(t)', f.kind = "job" PROVE f.item \notin done[f.call]
  <2>1. f \in Frames(t) \/ f \in come
    BY DEF Changes
  <2>2. QED
    BY <1>1, <2>1 DEF CountFrames
<1>2. QED
  BY <1>1 DEF CountFrames

(* What is neither sent nor completed is where it was. *)
LEMMA SetsCount ==
  ASSUME CountSets, UNCHANGED <<chan, done>>
  PROVE  CountSets'
BY DEF CountSets, Buffered

(* Items are numbered from 1, so that no idle job is done. *)
LEMMA ZeroNotDone ==
  ASSUME IInv, NEW c \in Call
  PROVE  0 \notin done[c] /\ next[c] \notin done[c] /\ next[c] \notin Buffered(c) /\ next[c] \in Nat
<1>1. done[c] \cup Buffered(c) \subseteq 1 .. next[c] - 1
  BY DEF IInv, ItemInv
<1>2. next[c] \in Nat
  BY DEF IInv, TypeOK
<1>3. \A n \in Nat : 0 \notin 1 .. n - 1 /\ n \notin 1 .. n - 1
  OBVIOUS
<1>4. QED
  BY <1>1, <1>2, <1>3

(* Making, taking or leaving. *)
LEMMA MovesCounted ==
  ASSUME IInv, CountInv, TypeOK', NEW t \in Thread,
         \/ TakeJob(t)
         \/ \E c \in Call : Calls(t, c) \/ Leaves(t, c) \/ JobEnds(t, c)
  PROVE  CountSets' /\ CountFrames'
<1>1. TypeOK /\ CountSets /\ CountFrames
  BY CountInvOf DEF IInv
<1>2. UNCHANGED <<chan, done>>
  BY DEF TakeJob, Calls, Leaves, JobEnds
<1>3. CountSets'
  BY <1>1, <1>2, SetsCount
<1>4. \A f \in {} : f.kind = "job" => f.item \notin done[f.call]
  OBVIOUS
<1>5. ASSUME NEW c \in Call, Calls(t, c) PROVE CountFrames'
  <2>1. Pushed(t, CallFrame(c)) /\ ElsewhereSame(t)
    BY <1>1, <1>5, CallFrameType, PushStep DEF Calls
  <2>2. Changes({}, {CallFrame(c)})
    BY <1>1, <2>1, StackFrames, PushChanges
  <2>3. CallFrame(c).kind # "job"
    BY CallFrameType
  <2>4. QED
    BY <1>1, <1>2, <2>2, <2>3, FramesCount
<1>6. CASE TakeJob(t)
  <2> DEFINE c == Head(queue[Home[t]])
             f == JobFrame(c, 0)
  <2>1. c \in Call
    BY <1>1, <1>6, QueueHead DEF IInv
  <2>2. f \in Frame /\ f.item = 0 /\ f.call = c
    BY <2>1, PlanAssumption, JobFrameType
  <2>3. Pushed(t, f) /\ ElsewhereSame(t)
    BY <1>1, <1>6, <2>2, PushStep DEF TakeJob
  <2>4. Changes({}, {f})
    BY <1>1, <2>3, StackFrames, PushChanges
  <2>5. f.item \notin done[f.call]
    BY <2>1, <2>2, ZeroNotDone
  <2> HIDE DEF c, f
  <2>6. QED
    BY <1>1, <1>2, <1>3, <2>4, <2>5, FramesCount
<1>7. ASSUME NEW c \in Call, Leaves(t, c) \/ JobEnds(t, c) PROVE CountFrames'
  <2>1. stack[t] # <<>> /\ stack' = [stack EXCEPT ![t] = Tail(@)]
    BY <1>7 DEF Leaves, JobEnds, InJob
  <2>2. Popped(t) /\ ElsewhereSame(t)
    BY <1>1, <2>1, PopStep
  <2>3. Len(stack'[t]) \in Nat
    BY DEF TypeOK
  <2>4. Changes({stack[t][1]}, {})
    BY <2>2, <2>3, PopChanges
  <2>5. QED
    BY <1>1, <1>2, <1>4, <2>4, FramesCount
<1>8. QED
  BY <1>3, <1>5, <1>6, <1>7

(* Deciding, spawning and pulling concern no item that a source gave. *)
LEMMA QuietCounted ==
  ASSUME IInv, CountInv, UNCHANGED <<stack, chan, done>>
  PROVE  CountSets' /\ CountFrames'
<1>1. CountSets /\ CountFrames
  BY CountInvOf
<1>2. CountFrames'
  BY <1>1 DEF CountFrames, Frames
<1>3. QED
  BY <1>1, <1>2, SetsCount

(* What is sent has not been given before. *)
LEMMA SendCounted ==
  ASSUME IInv, CountInv, NEW t \in Thread, NEW c \in Call, Send(t, c)
  PROVE  CountSets' /\ CountFrames'
<1>1. TypeOK /\ CountSets /\ CountFrames
  BY CountInvOf DEF IInv
<1>2. /\ UNCHANGED <<stack, done>>
      /\ chan' = [chan EXCEPT ![c] = Append(@, next[c])]
  BY DEF Send
<1>3. CountFrames'
  BY <1>1, <1>2 DEF CountFrames, Frames
<1>4. chan[c] \in Seq(Nat) /\ next[c] \in Nat
  BY <1>1 DEF TypeOK
<1>5. Buffered(c)' = Buffered(c) \cup {next[c]}
  <2>1. chan'[c] = Append(chan[c], next[c])
    BY <1>1, <1>2 DEF TypeOK
  <2>2. QED
    BY <1>4, <2>1, AppendElements DEF Buffered
<1>6. \A d \in Call : d # c => Buffered(d)' = Buffered(d)
  BY <1>1, <1>2 DEF TypeOK, Buffered
<1>7. next[c] \notin done[c]
  BY ZeroNotDone
<1>8. CountSets'
  BY <1>1, <1>2, <1>5, <1>6, <1>7 DEF CountSets
<1>9. QED
  BY <1>3, <1>8

(* An item that is run by the caller was in no channel and on no worker. *)
LEMMA SequentialCounted ==
  ASSUME IInv, CountInv, NEW t \in Thread, NEW c \in Call, SequentialTaskEnds(t, c)
  PROVE  CountSets' /\ CountFrames'
<1>1. TypeOK /\ CountSets /\ CountFrames /\ ItemFrames
  BY CountInvOf, ItemInvOf DEF IInv
<1>2. UNCHANGED <<stack, chan>> /\ done' = [done EXCEPT ![c] = @ \cup {next[c]}]
  BY DEF SequentialTaskEnds
<1>3. \A d \in Call : done'[d] = IF d = c THEN done[c] \cup {next[c]} ELSE done[d]
  BY <1>1, <1>2 DEF TypeOK
<1>4. \A d \in Call : Buffered(d)' = Buffered(d)
  BY <1>2 DEF Buffered
<1>5. next[c] \notin Buffered(c) /\ next[c] \in Nat
  BY ZeroNotDone
<1>6. CountSets'
  BY <1>1, <1>3, <1>4, <1>5 DEF CountSets
<1>7. ASSUME NEW u \in Thread, NEW f \in Frames(u), f.kind = "job" PROVE f.item \notin done'[f.call]
  <2>1. f \in Frame
    BY <1>1, StackFrames DEF Frames
  <2>2. f.call \in Call /\ f.item \notin done[f.call] /\ f.item < next[f.call]
    BY <1>1, <1>7, <2>1, FrameCases DEF CountFrames, ItemFrames
  <2>3. f.call = c => f.item # next[c]
    BY <1>5, <2>2
  <2>4. QED
    BY <1>3, <2>2, <2>3
<1>8. CountFrames'
  BY <1>2, <1>7 DEF CountFrames, Frames
<1>9. QED
  BY <1>6, <1>8

(* What a worker receives has not been done. *)
LEMMA RecvCounted ==
  ASSUME IInv, CountInv, NEW t \in Thread, NEW c \in Call, Recv(t, c)
  PROVE  CountSets' /\ CountFrames'
<1> DEFINE f == JobFrame(c, Head(chan[c]))
<1>1. TypeOK /\ CountSets /\ CountFrames
  BY CountInvOf DEF IInv
<1>2. InJob(t, c, 0) /\ chan[c] # <<>> /\ Replace(t, f) /\ UNCHANGED done
      /\ chan' = [chan EXCEPT ![c] = Tail(@)]
  BY DEF Recv
<1>3. Head(chan[c]) \in Buffered(c) /\ Head(chan[c]) \in 0 .. Plan[c].items
  BY <1>2, ReceivedItem
<1>4. f \in Frame /\ f.item = Head(chan[c]) /\ f.call = c
  BY <1>3, JobFrameType
<1>5. f.item \notin done[f.call]
  BY <1>1, <1>3, <1>4 DEF CountSets
<1>6. stack[t] # <<>> /\ 1 \in 1 .. Len(stack[t])
  BY <1>1, <1>2, Innermost
<1>7. Replaced(t, f) /\ ElsewhereSame(t)
  BY <1>1, <1>2, <1>4, <1>6, ReplaceStep
<1>8. Changes({stack[t][1]}, {f})
  BY <1>1, <1>6, <1>7, StackFrames, ReplaceChanges
<1>9. CountFrames'
  BY <1>1, <1>2, <1>5, <1>8, FramesCount
<1>10. \A d \in Call : Buffered(d)' \subseteq Buffered(d)
  <2>1. chan[c] \in Seq(Nat) /\ chan'[c] = Tail(chan[c]) /\ \A d \in Call : d # c => chan'[d] = chan[d]
    BY <1>1, <1>2 DEF TypeOK
  <2>2. /\ Len(chan'[c]) = Len(chan[c]) - 1 /\ Len(chan[c]) \in Nat
        /\ \A k \in 1 .. Len(chan'[c]) : chan'[c][k] = chan[c][k + 1]
    <3>1. /\ Len(Tail(chan[c])) = Len(chan[c]) - 1
          /\ \A k \in 1 .. Len(Tail(chan[c])) : Tail(chan[c])[k] = chan[c][k + 1]
      BY <1>2, <2>1, HeadTailProperties
    <3>2. QED
      BY <2>1, <3>1
  <2>3. \A k \in 1 .. Len(chan'[c]) : k + 1 \in 1 .. Len(chan[c])
    BY <2>2
  <2>4. Buffered(c)' \subseteq Buffered(c)
    BY <2>2, <2>3 DEF Buffered
  <2>5. \A d \in Call : d # c => Buffered(d)' = Buffered(d)
    BY <2>1 DEF Buffered
  <2>6. QED
    BY <2>4, <2>5
<1>11. CountSets'
  BY <1>1, <1>2, <1>10 DEF CountSets
<1>12. QED
  BY <1>9, <1>11

(* What a worker has completed is in no channel and on no other worker. *)
LEMMA TaskCounted ==
  ASSUME IInv, CountInv, PlaceInv, NEW t \in Thread, NEW c \in Call, WorkerTaskEnds(t, c)
  PROVE  CountSets' /\ CountFrames'
<1> DEFINE n == Len(stack[t])
<1>1. TypeOK /\ CountSets /\ CountFrames /\ WorkPlaces
  BY CountInvOf, PlaceInvOf DEF IInv
<1>2. PICK i \in 1 .. Plan[c].items :
         InJob(t, c, i) /\ done' = [done EXCEPT ![c] = @ \cup {i}] /\ Replace(t, JobFrame(c, 0))
  BY DEF WorkerTaskEnds
<1>3. UNCHANGED chan
  BY DEF WorkerTaskEnds
<1> DEFINE f == JobFrame(c, i)
           g == JobFrame(c, 0)
<1>4. stack[t] # <<>> /\ 1 \in 1 .. n /\ stack[t][1] = f /\ n \in 1 .. n /\ At(t, n) = f
  BY <1>1, <1>2, Innermost, AtFrames
<1>5. f.kind = "job" /\ f.item = i /\ f.call = c /\ i > 0 /\ g \in Frame /\ g.item = 0 /\ g.call = c
  BY PlanAssumption DEF JobFrame, Frame
<1>6. /\ i \notin Buffered(c)
      /\ \A u \in Thread : \A h \in 1 .. Len(stack[u]) : At(u, h) = f => u = t /\ h = n
  <2>1. AtWork(At(t, n))
    BY <1>4, <1>5 DEF AtWork
  <2>2. ~InChannel(chan, f)
    BY <1>1, <1>4, <2>1 DEF WorkPlaces
  <2>3. i \notin Buffered(c)
    BY <1>5, <2>2 DEF InChannel, Buffered
  <2>4. QED
    BY <1>1, <1>4, <2>1, <2>3 DEF WorkPlaces
<1>7. \A d \in Call : done'[d] = IF d = c THEN done[c] \cup {i} ELSE done[d]
  BY <1>1, <1>2 DEF TypeOK
<1>8. CountSets'
  <2>1. \A d \in Call : Buffered(d)' = Buffered(d)
    BY <1>3 DEF Buffered
  <2>2. QED
    BY <1>1, <1>6, <1>7, <2>1 DEF CountSets
<1>9. Replaced(t, g) /\ ElsewhereSame(t)
  BY <1>1, <1>2, <1>4, <1>5, ReplaceStep
<1>10. Changes({stack[t][1]}, {g})
  BY <1>1, <1>4, <1>9, StackFrames, ReplaceChanges
\* The frame of the item is gone from every stack.
<1>11. ASSUME NEW u \in Thread, f \in Frames(u)' PROVE FALSE
  <2>1. PICK k \in 1 .. Len(stack'[u]) : stack'[u][k] = f
    BY <1>11 DEF Frames
  <2>2. f # g
    BY <1>5
  <2>3. k \in 1 .. Len(stack[u]) /\ stack[u][k] = f /\ (u = t => k # 1)
    BY <1>4, <1>9, <2>1, <2>2 DEF Replaced, ElsewhereSame
  <2> DEFINE h == Len(stack[u]) + 1 - k
  <2>4. Len(stack[u]) \in Nat
    BY <1>1, StackFrames
  <2>5. h \in 1 .. Len(stack[u]) /\ At(u, h) = f /\ (u = t => h # n)
    <3>1. h \in 1 .. Len(stack[u]) /\ Len(stack[u]) + 1 - h = k /\ (u = t => h # n)
      BY <2>3, <2>4
    <3>2. QED
      BY <2>3, <3>1 DEF At
  <2>6. QED
    BY <1>6, <2>5
<1>12. ASSUME NEW u \in Thread, NEW e \in Frames(u)', e.kind = "job" PROVE e.item \notin done'[e.call]
  <2>1. CASE e = g
    <3>1. 0 \notin done[c]
      BY ZeroNotDone
    <3>2. QED
      BY <1>5, <1>7, <2>1, <3>1
  <2>2. CASE e # g
    <3>1. e \in Frames(u)
      BY <1>10, <2>2 DEF Changes
    <3>2. e \in Frame
      BY <1>1, <3>1, StackFrames DEF Frames
    <3>3. e.call \in Call /\ e.item \notin done[e.call] /\ e = JobFrame(e.call, e.item)
      BY <1>1, <1>12, <3>1, <3>2, FrameCases DEF CountFrames
    <3>4. e # f
      BY <1>11
    <3>5. ~(e.call = c /\ e.item = i)
      BY <3>3, <3>4
    <3>6. QED
      BY <1>7, <3>3, <3>5
  <2>3. QED
    BY <2>1, <2>2
<1>13. CountFrames'
  BY <1>12 DEF CountFrames
<1>14. QED
  BY <1>8, <1>13

(* Every step keeps what is left to do apart from what is done. *)
LEMMA NextCounted ==
  ASSUME IInv, TypeOK', NestingInv, CountInv, [Next]_vars
  PROVE  CountInv'
<1>1. TypeOK /\ CountSets /\ CountSpawn /\ CountFrames
  BY CountInvOf DEF IInv
<1>2. CASE UNCHANGED vars
  <2>1. CountSpawn'
    BY <1>1, <1>2 DEF vars, callVars, workVars, CountSpawn, WorkerCount, Workers
  <2>2. CountSets' /\ CountFrames'
    BY <1>2, QuietCounted DEF vars, workVars
  <2>3. QED
    BY <2>1, <2>2, CountInvOf
<1>3. ASSUME NEW t \in Thread, Step(t) PROVE CountInv'
  <2>1. \/ StartRoot(t) \/ TakeJob(t)
        \/ \E c \in Call :
              \/ ReporterCalls(t, c)
              \/ CallWithCount(t, c) \/ ExecuteWithCount(t, c) \/ Spawn(t, c)
              \/ SourceCalls(t, c) \/ SourceGives(t, c) \/ SourceEnds(t, c)
              \/ Send(t, c) \/ Leave(t, c)
              \/ TaskCalls(t, c) \/ SequentialTaskEnds(t, c) \/ WorkerTaskEnds(t, c)
              \/ Recv(t, c) \/ JobEnds(t, c)
    BY <1>1, <1>3, StepCases
  <2>2. CASE StartRoot(t) \/ \E c \in Call : ReporterCalls(t, c) \/ SourceCalls(t, c) \/ TaskCalls(t, c)
    BY <1>1, <2>2, MakesCall, CallerSpawns, MovesCounted, CountInvOf
  <2>3. CASE \E c \in Call : \/ CallWithCount(t, c) \/ ExecuteWithCount(t, c)
                             \/ Spawn(t, c) \/ SourceGives(t, c) \/ SourceEnds(t, c)
    <3>1. UNCHANGED <<stack, chan, done>>
      BY <2>3, Decision DEF Spawn, SourceGives, SourceEnds, workVars
    <3>2. QED
      BY <1>1, <2>3, <3>1, CallerSpawns, QuietCounted, CountInvOf
  <2>4. CASE \E c \in Call : Send(t, c) \/ SequentialTaskEnds(t, c)
    BY <1>1, <2>4, CallerSpawns, SendCounted, SequentialCounted, CountInvOf
  <2>5. CASE \E c \in Call : Leave(t, c)
    BY <1>1, <2>5, LeaveStep, CallerSpawns, MovesCounted, CountInvOf
  <2>6. CASE TakeJob(t) \/ \E c \in Call : JobEnds(t, c)
    BY <1>1, <2>6, WorkerSpawns, MovesCounted, CountInvOf
  <2>7. CASE \E c \in Call : WorkerTaskEnds(t, c) \/ Recv(t, c)
    BY <1>1, <2>7, WorkerSpawns, TaskCounted, RecvCounted, CountInvOf DEF NestingInv
  <2>8. QED
    BY <2>1, <2>2, <2>3, <2>4, <2>5, <2>6, <2>7
<1>4. QED
  BY <1>2, <1>3 DEF Next, Terminated

(* At every point of every program NestingInv holds, and no item that is in *)
(* a channel or on a worker has been completed: what is left to do can be   *)
(* counted.                                                                 *)
THEOREM Waiting == Spec => []WaitInv
<1>1. Init => CountInv
  BY DEF Init, CountInv, Buffered
<1>2. IInv /\ IInv' /\ NestingInv /\ CountInv /\ [Next]_vars => CountInv'
  BY NextCounted DEF IInv
<1>3. NestingInv /\ CountInv => WaitInv
  BY DEF WaitInv
<1>4. QED
  BY <1>1, <1>2, <1>3, Invariance, Nesting, PTL DEF Spec

-----------------------------------------------------------------------------
(* The steps that are left.                                                 *)

\* The terms of StepsLeft.
ToGive(c) == Plan[c].items + 1 - next[c]
Undone(c) == Cardinality((1 .. Plan[c].items) \ done[c])
Unspawned(c) == IF phase[c] \in {"idle", "call", "enter", "spawn"} THEN WorkerCount(c) - jobs[c] ELSE 0
Sent(c) == Len(chan[c])
Queued(c) == Cardinality(QueuedJobs(c))

LEMMA StepsTerms ==
  ASSUME NEW c \in Call
  PROVE  /\ StepsLeft(c) = PhaseSteps(c) + 3 * ToGive(c) + Sent(c) + Undone(c)
                           + 3 * Unspawned(c) + Queued(c) + jobs[c]
         /\ StepsLeft(c)' = PhaseSteps(c)' + 3 * ToGive(c)' + Sent(c)' + Undone(c)'
                            + 3 * Unspawned(c)' + Queued(c)' + jobs'[c]
         /\ WorkerCount(c)' = WorkerCount(c)
<1>1. WorkerCount(c)' = WorkerCount(c)
  BY DEF WorkerCount, Workers
<1>2. StepsLeft(c) = PhaseSteps(c) + 3 * ToGive(c) + Sent(c) + Undone(c)
                     + 3 * Unspawned(c) + Queued(c) + jobs[c]
  BY Zenon DEF StepsLeft, ToGive, Undone, Unspawned, Sent, Queued, QueuedJobs
<1>3. StepsLeft(c)' = PhaseSteps(c)' + 3 * ToGive(c)' + Sent(c)' + Undone(c)'
                      + 3 * Unspawned(c)' + Queued(c)' + jobs'[c]
  BY Zenon DEF StepsLeft, ToGive, Undone, Unspawned, Sent, Queued, QueuedJobs
<1>4. QED
  BY <1>1, <1>2, <1>3

(* Each is a number: a call gives no more items than it declares, and       *)
(* spawns no more jobs than it has workers.                                 *)
LEMMA TermTypes ==
  ASSUME IInv, CountInv, NEW c \in Call
  PROVE  /\ PhaseSteps(c) \in 0 .. 6 /\ ToGive(c) \in Nat /\ Sent(c) \in Nat /\ Undone(c) \in Nat
         /\ Unspawned(c) \in Nat /\ Queued(c) \in Nat /\ jobs[c] \in Nat
<1>1. TypeOK /\ SourceInv /\ JobInv /\ CountSpawn
  BY CountInvOf DEF IInv
<1>2. PhaseSteps(c) \in 0 .. 6
  BY <1>1 DEF PhaseSteps, TypeOK
<1>3. next[c] \in 1 .. Plan[c].items + 1 /\ Plan[c].items \in Nat
  BY <1>1, PlanAssumption DEF SourceInv
<1>4. ToGive(c) \in Nat
  BY <1>3 DEF ToGive
<1>5. Sent(c) \in Nat /\ jobs[c] \in Nat
  BY <1>1 DEF TypeOK, Sent
<1>6. Undone(c) \in Nat
  <2>1. \A n \in Nat : IsFiniteSet(1 .. n)
    BY FS_Interval
  <2>2. QED
    BY <1>3, <2>1, FS_Subset, FS_CardinalityType DEF Undone
<1>7. Unspawned(c) \in Nat
  <2>1. WorkerCount(c) \in Nat
    BY WorkerCountType
  <2>2. phase[c] \in {"idle", "call", "enter"} => jobs[c] = 0
    BY <1>1, <1>5 DEF JobInv
  <2>3. phase[c] = "spawn" => jobs[c] < WorkerCount(c)
    BY <1>1 DEF CountSpawn
  <2>4. QED
    BY <1>5, <2>1, <2>2, <2>3 DEF Unspawned
<1>8. Queued(c) \in Nat
  BY <1>1, QueuedFinite DEF Queued
<1>9. QED
  BY <1>2, <1>4, <1>5, <1>6, <1>7, <1>8

(* A call of which nothing changes has as many steps left. *)
LEMMA StepsSame ==
  ASSUME NEW d \in Call, phase'[d] = phase[d], next'[d] = next[d], chan'[d] = chan[d], done'[d] = done[d],
         jobs'[d] = jobs[d], Queued(d)' = Queued(d)
  PROVE  StepsLeft(d)' = StepsLeft(d)
<1>1. PhaseSteps(d)' = PhaseSteps(d)
  BY DEF PhaseSteps
<1>2. ToGive(d)' = ToGive(d) /\ Sent(d)' = Sent(d) /\ Undone(d)' = Undone(d)
  BY DEF ToGive, Sent, Undone
<1>3. Unspawned(d)' = Unspawned(d)
  BY StepsTerms DEF Unspawned
<1>4. QED
  BY <1>1, <1>2, <1>3, StepsTerms

(* A caller uses up its call's steps: each of its points comes once, but    *)
(* for those of the loop, where an item is given, and of the spawn loop,    *)
(* where a job is.                                                          *)
LEMMA CallerUses ==
  ASSUME IInv, CountInv, IInv', CountInv', NEW t \in Thread, NEW c \in Call,
         \/ Calls(t, c) \/ CallWithCount(t, c) \/ ExecuteWithCount(t, c)
         \/ SourceGives(t, c) \/ SourceEnds(t, c) \/ Leaves(t, c)
  PROVE  Uses(c)
<1>1. TypeOK
  BY DEF IInv
<1>2. /\ UNCHANGED <<next, chan, done, jobs, queue>>
      /\ phase'[c] # phase[c] /\ PhaseSteps(c)' < PhaseSteps(c)
      /\ phase'[c] \in {"call", "enter", "spawn"} => phase[c] \in {"idle", "call", "enter"}
      /\ \A d \in Call : d # c => phase'[d] = phase[d]
  <2>1. CASE Calls(t, c)
    <3>1. PICK ph \in {"call", "enter"} : phase' = [phase EXCEPT ![c] = ph]
      BY <2>1 DEF Calls
    <3>2. phase[c] = "idle" /\ UNCHANGED <<next, chan, done, jobs, queue>>
      BY <2>1 DEF Calls
    <3>3. QED
      BY <1>1, <3>1, <3>2 DEF TypeOK, PhaseSteps
  <2>2. CASE CallWithCount(t, c) \/ ExecuteWithCount(t, c)
    <3>1. /\ phase[c] \in {"call", "enter"} /\ UNCHANGED <<next, chan, done, jobs, queue>>
          /\ \E sequential \in BOOLEAN :
                phase' = [phase EXCEPT ![c] = IF sequential THEN "pull"
                                              ELSE IF @ = "call" THEN "enter" ELSE "spawn"]
      BY <2>2, Decision
    <3>2. PICK ph \in {"pull", "enter", "spawn"} :
             phase' = [phase EXCEPT ![c] = ph] /\ (ph = "enter" => phase[c] = "call")
      BY <3>1
    <3>3. QED
      BY <1>1, <3>1, <3>2 DEF TypeOK, PhaseSteps
  <2>3. CASE SourceGives(t, c)
    <3>1. PICK ph \in {"send", "run"} : ph = IF mode[c] = "parallel" THEN "send" ELSE "run"
      OBVIOUS
    <3>2. phase' = [phase EXCEPT ![c] = ph] /\ phase[c] = "pull" /\ UNCHANGED <<next, chan, done, jobs, queue>>
      BY <2>3, <3>1 DEF SourceGives, InCall, workVars
    <3>3. QED
      BY <1>1, <3>1, <3>2 DEF TypeOK, PhaseSteps
  <2>4. CASE SourceEnds(t, c)
    <3>1. phase' = [phase EXCEPT ![c] = "join"] /\ phase[c] = "pull" /\ UNCHANGED <<next, chan, done, jobs, queue>>
      BY <2>4 DEF SourceEnds, InCall, workVars
    <3>2. QED
      BY <1>1, <3>1 DEF TypeOK, PhaseSteps
  <2>5. CASE Leaves(t, c)
    <3>1. PICK ph \in Over : phase' = [phase EXCEPT ![c] = ph]
      BY <2>5 DEF Leaves
    <3>2. phase[c] = "join" /\ UNCHANGED <<next, chan, done, jobs, queue>>
      BY <2>5 DEF Leaves
    <3>3. QED
      BY <1>1, <3>1, <3>2 DEF TypeOK, PhaseSteps, Over
  <2>6. QED
    BY <2>1, <2>2, <2>3, <2>4, <2>5
<1>3. \A d \in Call : Queued(d)' = Queued(d)
  BY <1>2 DEF Queued, QueuedJobs
<1>4. \A d \in Call \ {c} : StepsLeft(d)' = StepsLeft(d)
  BY <1>2, <1>3, StepsSame
<1>5. ToGive(c)' = ToGive(c) /\ Undone(c)' = Undone(c) /\ Sent(c)' = Sent(c) /\ jobs'[c] = jobs[c]
  BY <1>2 DEF ToGive, Undone, Sent
<1>6. Unspawned(c)' = Unspawned(c) \/ Unspawned(c)' = 0
  <2>1. phase'[c] # "idle"
    BY <1>1, <1>2 DEF PhaseSteps, TypeOK
  <2>2. QED
    BY <1>2, <2>1, StepsTerms DEF Unspawned
<1>7. /\ PhaseSteps(c) \in Nat /\ ToGive(c) \in Nat /\ Sent(c) \in Nat /\ Undone(c) \in Nat
      /\ Unspawned(c) \in Nat /\ Queued(c) \in Nat /\ jobs[c] \in Nat
  BY TermTypes
<1>8. PhaseSteps(c)' \in Nat
  BY <1>2, TermTypes DEF PhaseSteps
<1>9. StepsLeft(c)' < StepsLeft(c)
  <2>1. StepsLeft(c) = PhaseSteps(c) + 3 * ToGive(c) + Sent(c) + Undone(c)
                       + 3 * Unspawned(c) + Queued(c) + jobs[c]
    BY StepsTerms
  <2>2. StepsLeft(c)' = PhaseSteps(c)' + 3 * ToGive(c) + Sent(c) + Undone(c)
                        + 3 * Unspawned(c)' + Queued(c) + jobs[c]
    BY <1>3, <1>5, StepsTerms
  <2>3. PhaseSteps(c)' < PhaseSteps(c)
    BY <1>2
  <2>4. QED
    BY <1>6, <1>7, <1>8, <2>1, <2>2, <2>3
<1>10. QED
  BY <1>4, <1>9 DEF Uses

(* Sums with one term less, or with one that pays for the others. *)
LEMMA UsesOf ==
  ASSUME IInv, CountInv, NEW c \in Call,
         \A d \in Call \ {c} : /\ phase'[d] = phase[d] /\ next'[d] = next[d] /\ chan'[d] = chan[d]
                               /\ done'[d] = done[d] /\ jobs'[d] = jobs[d] /\ Queued(d)' = Queued(d),
         PhaseSteps(c)' \in Nat, ToGive(c)' \in Int, Sent(c)' \in Nat, Undone(c)' \in Nat,
         Unspawned(c)' \in Int, Queued(c)' \in Int, jobs'[c] \in Int,
         \/ /\ PhaseSteps(c)' <= PhaseSteps(c) + 1 /\ ToGive(c)' = ToGive(c) - 1
            /\ Sent(c)' + Undone(c)' <= Sent(c) + Undone(c) + 1
            /\ Unspawned(c)' = Unspawned(c) /\ Queued(c)' = Queued(c) /\ jobs'[c] = jobs[c]
         \/ /\ PhaseSteps(c)' <= PhaseSteps(c) /\ Unspawned(c)' = Unspawned(c) - 1
            /\ Queued(c)' = Queued(c) + 1 /\ jobs'[c] = jobs[c] + 1
            /\ ToGive(c)' = ToGive(c) /\ Sent(c)' = Sent(c) /\ Undone(c)' = Undone(c)
         \/ /\ PhaseSteps(c)' = PhaseSteps(c) /\ ToGive(c)' = ToGive(c) /\ Unspawned(c)' = Unspawned(c)
            /\ Sent(c)' + Undone(c)' + Queued(c)' + jobs'[c] < Sent(c) + Undone(c) + Queued(c) + jobs[c]
  PROVE  Uses(c)
<1>1. \A d \in Call \ {c} : StepsLeft(d)' = StepsLeft(d)
  BY StepsSame
<1>2. /\ PhaseSteps(c) \in Nat /\ ToGive(c) \in Nat /\ Sent(c) \in Nat /\ Undone(c) \in Nat
      /\ Unspawned(c) \in Nat /\ Queued(c) \in Nat /\ jobs[c] \in Nat
  BY TermTypes
<1>3. /\ StepsLeft(c) = PhaseSteps(c) + 3 * ToGive(c) + Sent(c) + Undone(c)
                        + 3 * Unspawned(c) + Queued(c) + jobs[c]
      /\ StepsLeft(c)' = PhaseSteps(c)' + 3 * ToGive(c)' + Sent(c)' + Undone(c)'
                         + 3 * Unspawned(c)' + Queued(c)' + jobs'[c]
  BY StepsTerms
<1>4. StepsLeft(c)' < StepsLeft(c)
  BY <1>2, <1>3
<1>5. QED
  BY <1>1, <1>4 DEF Uses

(* The same for a step of a worker, which leaves the caller where it is. *)
LEMMA UsesWork ==
  ASSUME IInv, CountInv, NEW c \in Call, UNCHANGED <<phase, next>>, Unspawned(c)' = Unspawned(c),
         \A d \in Call \ {c} : /\ chan'[d] = chan[d] /\ done'[d] = done[d]
                               /\ jobs'[d] = jobs[d] /\ Queued(d)' = Queued(d),
         Sent(c)' \in Nat, Undone(c)' \in Nat, Queued(c)' \in Int, jobs'[c] \in Int,
         Sent(c)' + Undone(c)' + Queued(c)' + jobs'[c] < Sent(c) + Undone(c) + Queued(c) + jobs[c]
  PROVE  Uses(c)
<1>1. PhaseSteps(c)' = PhaseSteps(c) /\ ToGive(c)' = ToGive(c)
  BY DEF PhaseSteps, ToGive
<1>2. PhaseSteps(c) \in Nat /\ ToGive(c) \in Nat /\ Unspawned(c) \in Nat
  BY TermTypes
<1>3. PhaseSteps(c)' \in Nat /\ ToGive(c)' \in Int /\ Unspawned(c)' \in Int
  BY <1>1, <1>2
<1>4. \A d \in Call \ {c} : /\ phase'[d] = phase[d] /\ next'[d] = next[d] /\ chan'[d] = chan[d]
                            /\ done'[d] = done[d] /\ jobs'[d] = jobs[d] /\ Queued(d)' = Queued(d)
  OBVIOUS
<1>5. QED
  BY <1>1, <1>3, <1>4, UsesOf

(* An item that is completed is one less to do. *)
LEMMA DoneUses ==
  ASSUME IInv, NEW c \in Call, NEW i \in 1 .. Plan[c].items, i \notin done[c],
         done' = [done EXCEPT ![c] = @ \cup {i}]
  PROVE  Undone(c)' = Undone(c) - 1 /\ \A d \in Call : d # c => done'[d] = done[d]
<1> DEFINE left == (1 .. Plan[c].items) \ done[c]
<1>1. done'[c] = done[c] \cup {i} /\ \A d \in Call : d # c => done'[d] = done[d]
  BY DEF IInv, TypeOK
<1>2. IsFiniteSet(left)
  <2>1. \A n \in Nat : IsFiniteSet(1 .. n)
    BY FS_Interval
  <2>2. QED
    BY <2>1, PlanAssumption, FS_Subset
<1>3. i \in left /\ (1 .. Plan[c].items) \ done'[c] = left \ {i}
  BY <1>1
<1>4. Cardinality(left \ {i}) = Cardinality(left) - 1
  BY <1>2, <1>3, FS_RemoveElement
<1>5. Undone(c) = Cardinality(left) /\ Undone(c)' = Cardinality(left \ {i})
  BY <1>3 DEF Undone
<1>6. QED
  BY <1>1, <1>4, <1>5

LEMMA LoopUses ==
  ASSUME IInv, CountInv, IInv', CountInv', NEW t \in Thread, NEW c \in Call,
         Spawn(t, c) \/ Send(t, c) \/ SequentialTaskEnds(t, c)
  PROVE  Uses(c)
<1>1. TypeOK /\ SourceInv /\ QueuesInv
  BY JobInvOf DEF IInv
<1>2. /\ PhaseSteps(c) \in Nat /\ ToGive(c) \in Nat /\ Sent(c) \in Nat /\ Undone(c) \in Nat
      /\ Unspawned(c) \in Nat /\ Queued(c) \in Nat /\ jobs[c] \in Nat
  BY TermTypes
<1>3. next[c] \in Nat /\ Plan[c].items \in Nat
  BY <1>1, PlanAssumption DEF TypeOK
<1>4. CASE Spawn(t, c)
  <2>1. /\ phase[c] = "spawn" /\ UNCHANGED <<next, chan, done>>
        /\ jobs' = [jobs EXCEPT ![c] = @ + 1]
        /\ queue' = [queue EXCEPT ![Plan[c].pool] = Append(@, c)]
        /\ phase' = [phase EXCEPT ![c] = IF jobs'[c] = WorkerCount(c) THEN "pull" ELSE @]
    BY <1>4 DEF Spawn, InCall
  <2>2. /\ phase'[c] \in {"spawn", "pull"} /\ (phase'[c] = "pull" => jobs'[c] = WorkerCount(c))
        /\ jobs'[c] = jobs[c] + 1
        /\ \A d \in Call : d # c => phase'[d] = phase[d] /\ jobs'[d] = jobs[d]
    BY <1>1, <2>1 DEF TypeOK
  <2>3. \A d \in Call : Queued(d)' = IF d = c THEN Queued(d) + 1 ELSE Queued(d)
    BY <1>1, <2>1, AppendJobs DEF Queued
  <2>4. PhaseSteps(c) = 3 /\ PhaseSteps(c)' \in {2, 3}
    BY <2>1, <2>2 DEF PhaseSteps
  <2>5. ToGive(c)' = ToGive(c) /\ Sent(c)' = Sent(c) /\ Undone(c)' = Undone(c)
    BY <2>1 DEF ToGive, Sent, Undone
  <2>6. Unspawned(c)' = Unspawned(c) - 1
    <3>1. WorkerCount(c) \in Nat
      BY WorkerCountType
    <3>2. Unspawned(c) = WorkerCount(c) - jobs[c]
      BY <2>1 DEF Unspawned
    <3>3. Unspawned(c)' = WorkerCount(c) - jobs'[c]
      BY <1>2, <2>2, <3>1, StepsTerms DEF Unspawned
    <3>4. QED
      BY <1>2, <2>2, <3>1, <3>2, <3>3
  <2>7. PhaseSteps(c)' \in Nat /\ PhaseSteps(c)' <= PhaseSteps(c)
    BY <2>4
  <2>8. \A d \in Call \ {c} : /\ phase'[d] = phase[d] /\ next'[d] = next[d] /\ chan'[d] = chan[d]
                              /\ done'[d] = done[d] /\ jobs'[d] = jobs[d] /\ Queued(d)' = Queued(d)
    BY <2>1, <2>2, <2>3
  <2>9. Queued(c)' = Queued(c) + 1
    BY <2>3
  <2>10. /\ ToGive(c)' \in Int /\ Sent(c)' \in Nat /\ Undone(c)' \in Nat
         /\ Unspawned(c)' \in Int /\ Queued(c)' \in Int /\ jobs'[c] \in Int
    BY <1>2, <2>2, <2>5, <2>6, <2>9
  <2>11. PhaseSteps(c)' \in Nat /\ PhaseSteps(c)' <= PhaseSteps(c) /\ jobs'[c] = jobs[c] + 1
    BY <2>2, <2>7
  <2>12. QED
    BY <2>5, <2>6, <2>8, <2>9, <2>10, <2>11, UsesOf
<1>5. CASE Send(t, c) \/ SequentialTaskEnds(t, c)
  <2>1. /\ phase[c] \in {"send", "run"} /\ UNCHANGED <<jobs, queue>>
        /\ next' = [next EXCEPT ![c] = @ + 1] /\ phase' = [phase EXCEPT ![c] = "pull"]
    BY <1>5 DEF Send, SequentialTaskEnds, InCall
  <2>2. /\ phase'[c] = "pull" /\ next'[c] = next[c] + 1
        /\ \A d \in Call : d # c => phase'[d] = phase[d] /\ next'[d] = next[d]
    BY <1>1, <2>1 DEF TypeOK
  <2>3. \A d \in Call : Queued(d)' = Queued(d)
    BY <2>1 DEF Queued, QueuedJobs
  <2>4. PhaseSteps(c) = 1 /\ PhaseSteps(c)' = 2
    BY <2>1, <2>2 DEF PhaseSteps
  <2>5. ToGive(c)' = ToGive(c) - 1
    BY <1>3, <2>2 DEF ToGive
  <2>6. Unspawned(c) = 0 /\ Unspawned(c)' = 0
    BY <2>1, <2>2 DEF Unspawned
  <2>7. /\ Sent(c)' \in Nat /\ Undone(c)' \in Nat /\ Sent(c)' + Undone(c)' <= Sent(c) + Undone(c) + 1
        /\ \A d \in Call : d # c => chan'[d] = chan[d] /\ done'[d] = done[d]
    <3>1. CASE Send(t, c)
      <4>1. UNCHANGED done /\ chan' = [chan EXCEPT ![c] = Append(@, next[c])]
        BY <3>1 DEF Send
      <4>2. chan[c] \in Seq(Nat) /\ chan'[c] = Append(chan[c], next[c])
            /\ \A d \in Call : d # c => chan'[d] = chan[d]
        BY <1>1, <4>1 DEF TypeOK
      <4>3. Len(Append(chan[c], next[c])) = Len(chan[c]) + 1
        BY <1>3, <4>2, AppendProperties
      <4>4. Sent(c)' = Sent(c) + 1
        BY <4>2, <4>3 DEF Sent
      <4>5. Undone(c)' = Undone(c)
        BY <4>1 DEF Undone
      <4>6. QED
        BY <1>2, <4>1, <4>2, <4>4, <4>5
    <3>2. CASE SequentialTaskEnds(t, c)
      <4>1. UNCHANGED chan /\ phase[c] = "run" /\ done' = [done EXCEPT ![c] = @ \cup {next[c]}]
        BY <3>2 DEF SequentialTaskEnds, InCall
      <4>2. next[c] \in 1 .. Plan[c].items
        BY <1>1, <1>3, <4>1 DEF SourceInv
      <4>3. Undone(c)' = Undone(c) - 1 /\ \A d \in Call : d # c => done'[d] = done[d]
        BY <4>1, <4>2, DoneUses, ZeroNotDone
      <4>4. Undone(c)' \in Nat
        <5>1. \A n \in Nat : IsFiniteSet(1 .. n)
          BY FS_Interval
        <5>2. QED
          BY <1>3, <5>1, FS_Subset, FS_CardinalityType DEF Undone
      <4>5. Sent(c)' = Sent(c)
        BY <4>1 DEF Sent
      <4>6. QED
        BY <1>2, <4>1, <4>3, <4>4, <4>5
    <3>3. QED
      BY <1>5, <3>1, <3>2
  <2>8. \A d \in Call \ {c} : /\ phase'[d] = phase[d] /\ next'[d] = next[d] /\ chan'[d] = chan[d]
                              /\ done'[d] = done[d] /\ jobs'[d] = jobs[d] /\ Queued(d)' = Queued(d)
    BY <2>1, <2>2, <2>3, <2>7
  <2>9. /\ Queued(c)' = Queued(c) /\ jobs'[c] = jobs[c] /\ Unspawned(c)' = Unspawned(c)
        /\ PhaseSteps(c)' \in Nat /\ PhaseSteps(c)' <= PhaseSteps(c) + 1
    BY <2>1, <2>3, <2>4, <2>6
  <2>10. ToGive(c)' \in Int /\ Unspawned(c)' \in Int /\ Queued(c)' \in Int /\ jobs'[c] \in Int
    BY <1>2, <2>5, <2>9
  <2>11. QED
    BY <2>5, <2>7, <2>8, <2>9, <2>10, UsesOf
<1>6. QED
  BY <1>4, <1>5

(* A worker uses up the jobs and the items. *)
LEMMA WorkerUses ==
  ASSUME IInv, CountInv, IInv', CountInv', NEW t \in Thread,
         \/ TakeJob(t)
         \/ \E c \in Call : WorkerTaskEnds(t, c) \/ Recv(t, c) \/ JobEnds(t, c)
  PROVE  \E c \in Call : Uses(c)
<1>1. TypeOK /\ CallInv /\ JobInv /\ QueuesInv
  BY JobInvOf DEF IInv
<1>2. UNCHANGED <<phase, next>>
  BY WorkersLeaveCalls
<1>3. \A c \in Call : /\ PhaseSteps(c)' = PhaseSteps(c) /\ ToGive(c)' = ToGive(c)
                      /\ WorkerCount(c)' = WorkerCount(c)
  BY <1>2, StepsTerms DEF PhaseSteps, ToGive
<1>4. \A c \in Call : jobs'[c] = jobs[c] => Unspawned(c)' = Unspawned(c)
  BY <1>2, <1>3 DEF Unspawned
<1>5. \A c \in Call : /\ chan'[c] = chan[c] => Sent(c)' = Sent(c)
                      /\ done'[c] = done[c] => Undone(c)' = Undone(c)
  BY DEF Sent, Undone
<1>6. UNCHANGED queue => \A c \in Call : Queued(c)' = Queued(c)
  BY DEF Queued, QueuedJobs
<1>7. \A c \in Call : /\ PhaseSteps(c) \in Nat /\ ToGive(c) \in Nat /\ Sent(c) \in Nat /\ Undone(c) \in Nat
                      /\ Unspawned(c) \in Nat /\ Queued(c) \in Nat /\ jobs[c] \in Nat
  BY TermTypes
<1>8. CASE TakeJob(t)
  <2> DEFINE p == Home[t]
  <2>1. PICK c \in Call : c = Head(queue[p])
    BY <1>1, <1>8, QueueHead
  <2>2. /\ p \in Pool /\ queue[p] # <<>> /\ queue' = [queue EXCEPT ![p] = Tail(@)]
        /\ UNCHANGED <<chan, jobs, done>>
    BY <1>1, <1>8, QueueHead DEF TakeJob
  <2>3. \A d \in Call : Queued(d)' = IF d = c THEN Queued(d) - 1 ELSE Queued(d)
    BY <1>1, <2>1, <2>2, TailJobs DEF Queued
  <2> HIDE DEF p
  <2>4. Uses(c)
    <3>1. Queued(c)' = Queued(c) - 1
      BY <2>1, <2>3
    <3>2. Sent(c)' = Sent(c) /\ Undone(c)' = Undone(c) /\ Unspawned(c)' = Unspawned(c) /\ jobs'[c] = jobs[c]
      BY <1>4, <1>5, <2>1, <2>2
    <3>3. \A d \in Call \ {c} : /\ chan'[d] = chan[d] /\ done'[d] = done[d]
                                /\ jobs'[d] = jobs[d] /\ Queued(d)' = Queued(d)
      BY <2>2, <2>3
    <3>4. /\ Sent(c)' \in Nat /\ Undone(c)' \in Nat /\ Queued(c)' \in Int /\ jobs'[c] \in Int
          /\ Sent(c)' + Undone(c)' + Queued(c)' + jobs'[c] < Sent(c) + Undone(c) + Queued(c) + jobs[c]
      BY <1>7, <2>1, <3>1, <3>2
    <3>5. QED
      BY <1>2, <2>1, <3>2, <3>3, <3>4, UsesWork
  <2>5. QED
    BY <2>1, <2>4
<1>9. ASSUME NEW c \in Call, WorkerTaskEnds(t, c) PROVE Uses(c)
  <2>1. PICK i \in 1 .. Plan[c].items : InJob(t, c, i) /\ done' = [done EXCEPT ![c] = @ \cup {i}]
    BY <1>9 DEF WorkerTaskEnds
  <2>2. UNCHANGED <<chan, jobs, queue>>
    BY <1>9 DEF WorkerTaskEnds
  <2>3. i \notin done[c]
    <3>1. stack[t][1] = JobFrame(c, i) /\ 1 \in 1 .. Len(stack[t])
      BY <1>1, <2>1, Innermost
    <3>2. JobFrame(c, i) \in Frames(t) /\ JobFrame(c, i).kind = "job"
          /\ JobFrame(c, i).item = i /\ JobFrame(c, i).call = c
      BY <3>1 DEF Frames, JobFrame
    <3>3. QED
      BY <3>2, CountInvOf DEF CountFrames
  <2>4. Undone(c)' = Undone(c) - 1 /\ \A d \in Call : d # c => done'[d] = done[d]
    BY <2>1, <2>3, DoneUses
  <2>5. Undone(c)' \in Nat
    <3>1. \A n \in Nat : IsFiniteSet(1 .. n)
      BY FS_Interval
    <3>2. QED
      BY <3>1, PlanAssumption, FS_Subset, FS_CardinalityType DEF Undone
  <2>6. /\ \A d \in Call : Queued(d)' = Queued(d) /\ jobs'[d] = jobs[d] /\ chan'[d] = chan[d]
        /\ Sent(c)' = Sent(c) /\ Unspawned(c)' = Unspawned(c)
    BY <1>4, <1>5, <1>6, <2>2
  <2>7. \A d \in Call \ {c} : /\ chan'[d] = chan[d] /\ done'[d] = done[d]
                              /\ jobs'[d] = jobs[d] /\ Queued(d)' = Queued(d)
    BY <2>4, <2>6
  <2>8. /\ Sent(c)' \in Nat /\ Queued(c)' \in Int /\ jobs'[c] \in Int
        /\ Sent(c)' + Undone(c)' + Queued(c)' + jobs'[c] < Sent(c) + Undone(c) + Queued(c) + jobs[c]
    BY <1>7, <2>4, <2>6
  <2>9. QED
    BY <1>2, <2>5, <2>6, <2>7, <2>8, UsesWork
<1>10. ASSUME NEW c \in Call, Recv(t, c) PROVE Uses(c)
  <2>1. /\ chan' = [chan EXCEPT ![c] = Tail(@)] /\ chan[c] # <<>> /\ chan[c] \in Seq(Nat)
        /\ UNCHANGED <<jobs, queue, done>>
    BY <1>1, <1>10 DEF Recv, TypeOK
  <2>2. chan'[c] = Tail(chan[c]) /\ \A d \in Call : d # c => chan'[d] = chan[d]
    BY <1>1, <2>1 DEF TypeOK
  <2>3. Len(Tail(chan[c])) = Len(chan[c]) - 1 /\ Tail(chan[c]) \in Seq(Nat)
    BY <2>1, HeadTailProperties
  <2>4. Sent(c)' = Sent(c) - 1 /\ Sent(c)' \in Nat
    BY <2>2, <2>3 DEF Sent
  <2>5. /\ \A d \in Call : Queued(d)' = Queued(d) /\ jobs'[d] = jobs[d] /\ done'[d] = done[d]
        /\ Undone(c)' = Undone(c) /\ Unspawned(c)' = Unspawned(c)
    BY <1>4, <1>5, <1>6, <2>1
  <2>6. \A d \in Call \ {c} : /\ chan'[d] = chan[d] /\ done'[d] = done[d]
                              /\ jobs'[d] = jobs[d] /\ Queued(d)' = Queued(d)
    BY <2>2, <2>5
  <2>7. /\ Undone(c)' \in Nat /\ Queued(c)' \in Int /\ jobs'[c] \in Int
        /\ Sent(c)' + Undone(c)' + Queued(c)' + jobs'[c] < Sent(c) + Undone(c) + Queued(c) + jobs[c]
    BY <1>7, <2>4, <2>5
  <2>8. QED
    BY <1>2, <2>4, <2>5, <2>6, <2>7, UsesWork
<1>11. ASSUME NEW c \in Call, JobEnds(t, c) PROVE Uses(c)
  <2>1. jobs' = [jobs EXCEPT ![c] = @ - 1] /\ ~open[c] /\ UNCHANGED <<chan, queue, done>>
    BY <1>11 DEF JobEnds
  <2>2. jobs'[c] = jobs[c] - 1 /\ \A d \in Call : d # c => jobs'[d] = jobs[d]
    BY <1>1, <2>1 DEF TypeOK
  <2>3. phase[c] \notin {"idle", "call", "enter", "spawn"}
    BY <1>1, <2>1 DEF CallInv, Over
  <2>4. Unspawned(c) = 0 /\ Unspawned(c)' = 0
    BY <1>2, <2>3 DEF Unspawned
  <2>5. /\ \A d \in Call : Queued(d)' = Queued(d) /\ chan'[d] = chan[d] /\ done'[d] = done[d]
        /\ Sent(c)' = Sent(c) /\ Undone(c)' = Undone(c)
    BY <1>5, <1>6, <2>1
  <2>6. \A d \in Call \ {c} : /\ chan'[d] = chan[d] /\ done'[d] = done[d]
                              /\ jobs'[d] = jobs[d] /\ Queued(d)' = Queued(d)
    BY <2>2, <2>5
  <2>7. /\ Sent(c)' \in Nat /\ Undone(c)' \in Nat /\ Queued(c)' \in Int /\ jobs'[c] \in Int
        /\ Sent(c)' + Undone(c)' + Queued(c)' + jobs'[c] < Sent(c) + Undone(c) + Queued(c) + jobs[c]
    BY <1>7, <2>2, <2>5
  <2>8. QED
    BY <1>2, <2>4, <2>6, <2>7, UsesWork
<1>12. QED
  BY <1>8, <1>9, <1>10, <1>11

(* Every step of every thread, in every program, is a step of one call and  *)
(* uses up one of those that this call has left at most.                    *)
LEMMA StepUses ==
  ASSUME IInv, CountInv, IInv', CountInv', NEW t \in Thread, Step(t)
  PROVE  \E c \in Call : Uses(c)
<1>1. \/ StartRoot(t) \/ TakeJob(t)
      \/ \E c \in Call :
            \/ ReporterCalls(t, c)
            \/ CallWithCount(t, c) \/ ExecuteWithCount(t, c) \/ Spawn(t, c)
            \/ SourceCalls(t, c) \/ SourceGives(t, c) \/ SourceEnds(t, c)
            \/ Send(t, c) \/ Leave(t, c)
            \/ TaskCalls(t, c) \/ SequentialTaskEnds(t, c) \/ WorkerTaskEnds(t, c)
            \/ Recv(t, c) \/ JobEnds(t, c)
  BY StepCases DEF IInv
<1>2. CASE StartRoot(t) \/ \E c \in Call : ReporterCalls(t, c) \/ SourceCalls(t, c) \/ TaskCalls(t, c)
  BY <1>2, MakesCall, CallerUses
<1>3. CASE \E c \in Call : CallWithCount(t, c) \/ ExecuteWithCount(t, c) \/ SourceGives(t, c) \/ SourceEnds(t, c)
  BY <1>3, CallerUses
<1>4. CASE \E c \in Call : Leave(t, c)
  BY <1>4, LeaveStep, CallerUses
<1>5. CASE \E c \in Call : Spawn(t, c) \/ Send(t, c) \/ SequentialTaskEnds(t, c)
  BY <1>5, LoopUses
<1>6. CASE TakeJob(t) \/ \E c \in Call : WorkerTaskEnds(t, c) \/ Recv(t, c) \/ JobEnds(t, c)
  BY <1>6, WorkerUses
<1>7. QED
  BY <1>1, <1>2, <1>3, <1>4, <1>5, <1>6

(* No call goes round in circles, alone or with others: whatever is nested  *)
(* in what, each step of a thread is one of finitely many that one call has *)
(* left, and takes nothing back that another call has done.                 *)
THEOREM NoEndlessProgram == Spec => EveryStepCounts
<1>1. IInv /\ IInv' /\ WaitInv /\ WaitInv' /\ [Next]_vars => [\E c \in Call : Uses(c)]_vars
  <2> SUFFICES ASSUME IInv, IInv', WaitInv, WaitInv', Next
               PROVE  (\E c \in Call : Uses(c)) \/ UNCHANGED vars
    OBVIOUS
  <2>1. CountInv /\ CountInv'
    BY DEF WaitInv
  <2>2. ASSUME NEW t \in Thread, Step(t) PROVE \E c \in Call : Uses(c)
    BY <2>1, <2>2, StepUses
  <2>3. QED
    BY <2>2 DEF Next, Terminated
<1>2. QED
  BY <1>1, Invariance, Waiting, PTL DEF Spec, EveryStepCounts

(* And these are at most six of its caller, four for each item and three    *)
(* for each worker job.                                                     *)
CallsBounded == \A c \in Call : StepsLeft(c) \in 0 .. 4 * Plan[c].items + 3 * WorkerCount(c) + 6

THEOREM ProgramBounded == Spec => []CallsBounded
<1> DEFINE Bound(c) == 4 * Plan[c].items + 3 * WorkerCount(c) + 6
<1>1. Init => CallsBounded
  <2> SUFFICES ASSUME Init, NEW c \in Call PROVE StepsLeft(c) \in 0 .. Bound(c)
    BY DEF CallsBounded
  <2>1. IInv /\ CountInv
    BY InitInv DEF Init, CountInv, Buffered
  <2>2. phase[c] = "idle" /\ next[c] = 1 /\ chan[c] = <<>> /\ done[c] = {} /\ jobs[c] = 0 /\ queue[Plan[c].pool] = <<>>
    BY PlanAssumption DEF Init
  <2>3. PhaseSteps(c) = 6 /\ Sent(c) = 0 /\ Unspawned(c) = WorkerCount(c)
    BY <2>2, WorkerCountType DEF PhaseSteps, Sent, Unspawned
  <2>4. Plan[c].items \in Nat /\ ToGive(c) = Plan[c].items
    BY <2>2, PlanAssumption DEF ToGive
  <2>5. Undone(c) = Plan[c].items
    <3>1. (1 .. Plan[c].items) \ done[c] = 1 .. Plan[c].items
      BY <2>2
    <3>2. \A n \in Nat : Cardinality(1 .. n) = n
      BY FS_Interval
    <3>3. QED
      BY <2>4, <3>1, <3>2 DEF Undone
  <2>6. Queued(c) = 0
    <3>1. QueuedJobs(c) = {}
      BY <2>2 DEF QueuedJobs
    <3>2. QED
      BY <3>1, FS_EmptySet DEF Queued
  <2>7. WorkerCount(c) \in Nat
    BY WorkerCountType
  <2>8. StepsLeft(c) = 6 + 3 * Plan[c].items + 0 + Plan[c].items + 3 * WorkerCount(c) + 0 + 0
    BY <2>2, <2>3, <2>4, <2>5, <2>6, StepsTerms
  <2>9. QED
    BY <2>4, <2>7, <2>8
<1>2. /\ IInv /\ CountInv => \A c \in Call : StepsLeft(c) \in Nat
      /\ \A c \in Call : Bound(c)' = Bound(c) /\ Bound(c) \in Nat
  <2>1. ASSUME IInv, CountInv, NEW c \in Call PROVE StepsLeft(c) \in Nat
    BY <2>1, TermTypes, StepsTerms
  <2>2. ASSUME NEW c \in Call PROVE Bound(c)' = Bound(c) /\ Bound(c) \in Nat
    BY StepsTerms, WorkerCountType, PlanAssumption
  <2>3. QED
    BY <2>1, <2>2
<1>3. (IInv /\ CountInv => \A c \in Call : StepsLeft(c) \in Nat)'
  BY <1>2, PTL
<1>4. IInv' /\ WaitInv' /\ CallsBounded /\ [\E c \in Call : Uses(c)]_vars => CallsBounded'
  <2> SUFFICES ASSUME IInv', WaitInv', CallsBounded, [\E c \in Call : Uses(c)]_vars
               PROVE  CallsBounded'
    OBVIOUS
  <2>1. \A c \in Call : StepsLeft(c)' \in Nat
    BY <1>3 DEF WaitInv
  <2>2. \A c \in Call : StepsLeft(c) \in Nat /\ StepsLeft(c) <= Bound(c)
    BY <1>2 DEF CallsBounded
  <2>3. \A c \in Call : StepsLeft(c)' <= StepsLeft(c)
    <3>1. CASE UNCHANGED vars
      <4>1. UNCHANGED <<phase, next, chan, done, jobs, queue>>
        BY <3>1 DEF vars, callVars, workVars
      <4>2. \A c \in Call : Queued(c)' = Queued(c)
        BY <4>1 DEF Queued, QueuedJobs
      <4>3. \A c \in Call : StepsLeft(c)' = StepsLeft(c)
        BY <4>1, <4>2, StepsSame
      <4>4. QED
        BY <2>2, <4>3
    <3>2. ASSUME NEW c \in Call, Uses(c) PROVE \A d \in Call : StepsLeft(d)' <= StepsLeft(d)
      BY <2>1, <2>2, <3>2 DEF Uses
    <3>3. QED
      BY <3>1, <3>2
  <2>4. ASSUME NEW c \in Call PROVE StepsLeft(c)' \in 0 .. Bound(c)'
    BY <1>2, <2>1, <2>2, <2>3
  <2>5. QED
    BY <2>4 DEF CallsBounded
<1>5. QED
  BY <1>1, <1>4, Invariance, Waiting, NoEndlessProgram, PTL DEF Spec, EveryStepCounts

-----------------------------------------------------------------------------
(* What a standstill leaves alone: pools whose calls call nothing.          *)

(* Nothing is on top of a frame of such a call, but jobs at its join. *)
LEMMA LeafInnermost ==
  ASSUME IInv, NestingInv, NEW c \in Call, CallsNothing(c),
         NEW t \in Thread, NEW h \in 1 .. Len(stack[t]), At(t, h).call = c,
         At(t, h).kind = "job" \/ phase[c] # "join"
  PROVE  h = Len(stack[t])
<1> SUFFICES ASSUME h # Len(stack[t]) PROVE FALSE
  OBVIOUS
<1>1. TypeOK /\ SourceInv /\ StackInv
  BY DEF IInv, NestingInv
<1>2. h < Len(stack[t]) /\ h + 1 \in 1 .. Len(stack[t])
  BY <1>1, AtFrames
<1>3. On(At(t, h + 1), At(t, h)) /\ At(t, h + 1) \in Frame /\ At(t, h) \in Frame
  BY <1>1, <1>2, AtFrames DEF StackInv
<1>4. \A d : At(t, h + 1) = CallFrame(d) => d \in Call
  <2>1. \A d : CallFrame(d).call = d
    BY DEF CallFrame
  <2>2. QED
    BY <1>3, <2>1, FrameCases
<1>5. ASSUME NEW i \in 1 .. Plan[c].items
      PROVE  Plan[c].inSource[i] \notin Call /\ Plan[c].inTask[i] \notin Call
  BY InsideSites DEF CallsNothing
<1>6. CASE At(t, h).kind = "job"
  <2>1. At(t, h).item > 0 /\ At(t, h).item \in 0 .. Plan[c].items
    BY <1>3, <1>6, FrameCases DEF On
  <2>2. At(t, h).item \in 1 .. Plan[c].items
    BY <2>1, PlanAssumption
  <2>3. At(t, h + 1) = CallFrame(Plan[c].inTask[At(t, h).item])
    BY <1>3, <1>6 DEF On
  <2>4. QED
    BY <1>4, <1>5, <2>2, <2>3
<1>7. CASE At(t, h).kind # "job" /\ phase[c] # "join"
  <2>1. \/ /\ phase[c] = "pull" /\ next[c] <= Plan[c].items
           /\ At(t, h + 1) = CallFrame(Plan[c].inSource[next[c]])
        \/ phase[c] = "run" /\ At(t, h + 1) = CallFrame(Plan[c].inTask[next[c]])
    BY <1>3, <1>7 DEF On
  <2>2. next[c] \in 1 .. Plan[c].items
    BY <1>1, <2>1, PlanAssumption DEF SourceInv
  <2>3. QED
    BY <1>4, <1>5, <2>1, <2>2
<1>8. QED
  BY <1>6, <1>7

(* Its caller waits for room in the channel, or for the scope. *)
LEMMA LeafWaits ==
  ASSUME IInv, NestingInv, \A t \in Thread : Blocked(t), NEW c \in Call, CallsNothing(c),
         phase[c] \notin {"idle", "join"} \cup Over
  PROVE  phase[c] = "send" /\ Len(chan[c]) >= WorkerCount(c)
<1>1. TypeOK /\ PresentInv
  BY DEF IInv, NestingInv
<1>2. PICK t \in Thread : CallFrame(c) \in Frames(t)
  BY <1>1 DEF PresentInv
<1>3. PICK h \in 1 .. Len(stack[t]) : CallFrame(c) = At(t, h)
  BY <1>1, <1>2, AtFrames
<1>4. h = Len(stack[t])
  BY <1>3, CallFrameType, LeafInnermost
<1>5. stack[t] # <<>> /\ Head(stack[t]) = CallFrame(c)
  BY <1>1, <1>3, <1>4, AtFrames
<1>6. /\ \A d : CallFrame(d) = CallFrame(c) => d = c
      /\ \A d, i : JobFrame(d, i) # CallFrame(c)
  BY DEF CallFrame, JobFrame
<1>7. ASSUME NEW i \in 1 .. Plan[c].items
      PROVE  ~InProgress(Plan[c].inSource[i]) /\ ~InProgress(Plan[c].inTask[i])
  <2>1. Plan[c].inSource[i] \notin Call /\ Plan[c].inTask[i] \notin Call
    BY InsideSites DEF CallsNothing
  <2>2. Plan[c].inSource[i] \in Call \cup {NoCall} /\ Plan[c].inTask[i] \in Call \cup {NoCall}
    BY PlanAssumption
  <2>3. QED
    BY <2>1, <2>2 DEF InProgress
<1>8. ~SourceWaits(c)
  <2>1. next[c] <= Plan[c].items => next[c] \in 1 .. Plan[c].items
    BY PlanAssumption DEF IInv, SourceInv
  <2>2. Back(Plan[c].awaits)
    BY DEF CallsNothing, Back
  <2>3. QED
    BY <1>7, <2>1, <2>2 DEF SourceWaits
<1>9. \A d, i : ~InJob(t, d, i)
  BY <1>5, <1>6 DEF InJob
<1>10. \A d, ph : InCall(t, d, ph) => d = c /\ ph = phase[c]
  BY <1>5, <1>6 DEF InCall
<1>11. QED
  BY <1>5, <1>7, <1>8, <1>9, <1>10 DEF Blocked, Running

(* And the scope is empty: a worker of the pool that cannot go on would be  *)
(* in recv, of a call that has room in its channel.                         *)
LEMMA LeafScopes ==
  ASSUME IInv, NestingInv, \A t \in Thread : Blocked(t), NEW c \in Call, LeafPool(Plan[c].pool)
  PROVE  jobs[c] = 0
<1> DEFINE p == Plan[c].pool
<1>1. TypeOK /\ CallInv /\ SourceInv /\ JobInv /\ StackInv /\ p \in Pool /\ p # NoPool
  BY PlanAssumption, ThreadsAssumption DEF IInv, NestingInv
<1>2. \A d \in Call : jobs[d] > 0 => mode[d] = "parallel" /\ phase[d] \in {"spawn", "pull", "send", "join"}
  BY <1>1 DEF JobInv
<1> SUFFICES ASSUME jobs[c] > 0 PROVE FALSE
  BY <1>1 DEF TypeOK
<1>3. PICK w \in Workers(p) : stack[w] # <<>>
  BY <1>2, BusyWorker
<1>4. w \in Thread /\ Home[w] = p
  BY DEF Workers
<1>5. 1 \in 1 .. Len(stack[w]) /\ At(w, 1) \in Frame
  BY <1>1, <1>3, <1>4, AtFrames
<1> DEFINE d == At(w, 1).call
<1>6. At(w, 1).kind = "job" /\ Plan[d].pool = p
  BY <1>1, <1>4, <1>5 DEF StackInv, Bottom
<1>7. d \in Call /\ At(w, 1).item \in 0 .. Plan[d].items /\ At(w, 1) = JobFrame(d, At(w, 1).item)
  BY <1>5, <1>6, FrameCases
<1>8. jobs[d] > 0
  <2>1. stack[w][Len(stack[w])] = At(w, 1) /\ Len(stack[w]) \in 1 .. Len(stack[w])
    BY <1>1, <1>3, <1>4, AtFrames DEF At
  <2>2. IsJobOf(stack[w][Len(stack[w])], d)
    BY <1>6, <2>1 DEF IsJobOf
  <2>3. jobs[d] \in Nat \ {0}
    BY <1>4, <1>7, <2>1, <2>2, JobsOnStack
  <2>4. QED
    BY <2>3
<1>9. CallsNothing(d) /\ mode[d] = "parallel" /\ phase[d] \in {"spawn", "pull", "send", "join"}
  BY <1>2, <1>6, <1>7, <1>8 DEF LeafPool, MadeOn
<1>10. Len(stack[w]) = 1
  BY <1>4, <1>5, <1>6, <1>7, <1>9, LeafInnermost
<1>11. Head(stack[w]) = At(w, 1)
  BY <1>1, <1>3, <1>4, <1>10, AtFrames
<1> HIDE DEF d
<1>12. chan[d] = <<>> /\ open[d]
  <2>1. /\ \A e, i : InJob(w, e, i) => e = d /\ i = At(w, 1).item
        /\ \A e, ph : ~InCall(w, e, ph)
    BY <1>7, <1>11 DEF InJob, InCall, CallFrame, JobFrame
  <2>2. ASSUME NEW i \in 1 .. Plan[d].items PROVE ~InProgress(Plan[d].inTask[i])
    <3>1. Plan[d].inTask[i] \notin Call
      BY <1>7, <1>9, InsideSites DEF CallsNothing
    <3>2. QED
      BY <1>7, <3>1, PlanAssumption DEF InProgress
  <2>3. QED
    BY <1>3, <1>4, <2>1, <2>2 DEF Blocked, Running
<1>13. phase[d] \notin {"idle", "join"} \cup Over
  BY <1>1, <1>7, <1>9, <1>12 DEF CallInv, Over
<1>14. phase[d] = "send" /\ Len(chan[d]) >= WorkerCount(d)
  BY <1>7, <1>9, <1>13, LeafWaits
<1>15. WorkerCount(d) > 0 /\ WorkerCount(d) \in Nat
  <2>1. Cardinality(Workers(Plan[d].pool)) > 1
    BY <1>7, <1>9 DEF NestingInv, ParallelInv
  <2>2. Plan[d].items > 0
    BY <1>1, <1>7, <1>14, PlanAssumption DEF SourceInv
  <2>3. QED
    BY <1>7, <2>1, <2>2, WorkerCountType
<1>16. Len(chan[d]) = 0
  BY <1>12
<1>17. QED
  BY <1>14, <1>15, <1>16

(* Of every program that comes to a standstill: on a pool whose calls call  *)
(* nothing each call made is past its source, with an empty scope and every *)
(* item run, wherever its caller is stuck.                                  *)
THEOREM LeafPoolsAreServed == Spec => []LeafPoolsDrain
<1>1. IInv /\ NestingInv => LeafPoolsDrain
  <2> SUFFICES ASSUME IInv, NestingInv, \A t \in Thread : Blocked(t),
                      NEW p \in Pool, LeafPool(p), NEW c \in MadeOn(p)
               PROVE  phase[c] \in {"join"} \cup Over /\ jobs[c] = 0 /\ done[c] = 1 .. next[c] - 1
    BY DEF LeafPoolsDrain, Stalled
  <2>1. TypeOK /\ CallInv /\ JobInv /\ JobPhase /\ ItemSets /\ ChanPhase
    BY JobInvOf, ItemInvOf DEF IInv
  <2>2. c \in Call /\ Plan[c].pool = p /\ phase[c] # "idle" /\ CallsNothing(c)
    BY DEF MadeOn, LeafPool
  <2>3. jobs[c] = 0
    BY <2>2, LeafScopes
  <2>4. phase[c] \in {"join"} \cup Over
    <3> SUFFICES ASSUME phase[c] \notin {"join"} \cup Over PROVE FALSE
      OBVIOUS
    <3>1. phase[c] = "send"
      BY <2>2, LeafWaits
    <3>2. mode[c] = "parallel"
      BY <2>1, <2>2, <3>1 DEF TypeOK, CallInv, Over
    <3>3. jobs[c] > 0
      BY <2>1, <2>2, <3>1, <3>2 DEF JobInv
    <3>4. QED
      BY <2>3, <3>3
  <2>5. Buffered(c) = {}
    <3>1. chan[c] = <<>>
      BY <2>1, <2>2, <2>3, <2>4 DEF ChanPhase, Over
    <3>2. QED
      BY <3>1 DEF Buffered
  <2>6. Held(c) = {}
    <3> SUFFICES ASSUME NEW i \in Held(c) PROVE FALSE
      OBVIOUS
    <3>1. PICK t \in Thread : JobFrame(c, i) \in Frames(t)
      BY DEF Held
    <3>2. PICK k \in 1 .. Len(stack[t]) : stack[t][k] = JobFrame(c, i)
      BY <3>1 DEF Frames
    <3>3. IsJobOf(stack[t][k], c)
      BY <3>2 DEF IsJobOf, JobFrame
    <3>4. QED
      BY <2>2, <2>3, <3>3, JobsOnStack
  <2>7. done[c] = 1 .. next[c] - 1
    BY <2>1, <2>2, <2>5, <2>6 DEF ItemSets
  <2>8. QED
    BY <2>3, <2>4, <2>7
<1>2. QED
  BY <1>1, Invariance, Nesting, PTL

-----------------------------------------------------------------------------
(* What the waits are.  BlockedOnlySo relates Blocked to ENABLED; CanGo puts *)
(* the guards of the actions in the place of ENABLED.                        *)

(* What thread t would wait for is there: the guards of the actions of Step. *)
CanGo(t) ==
    \/ stack[t] = <<>> /\ roots[t] # <<>>
    \/ /\ JobQueued(t)
       /\ stack[t] # <<>> => LET c == Head(stack[t]).call IN InCall(t, c, "join") /\ jobs[c] > 0
    \/ stack[t] = <<>> /\ t \in ReporterThread /\ \E c \in Reporting : ReportDue(c)
    \/ \E c \in Call :
          \/ InCall(t, c, "call") \/ InCall(t, c, "enter") \/ InCall(t, c, "spawn")
          \/ /\ InCall(t, c, "pull") /\ next[c] <= Plan[c].items
             /\ Due(Plan[c].inSource[next[c]]) \/ Back(Plan[c].inSource[next[c]])
          \/ InCall(t, c, "pull") /\ next[c] > Plan[c].items /\ Back(Plan[c].awaits)
          \/ InCall(t, c, "send") /\ Len(chan[c]) < WorkerCount(c)
          \/ InCall(t, c, "join") /\ jobs[c] = 0 /\ ReporterJoined(c)
          \/ InJob(t, c, 0) /\ (chan[c] # <<>> \/ ~open[c])
          \/ \E i \in 1 .. Plan[c].items :
                Running(t, c, i) /\ (Due(Plan[c].inTask[i]) \/ Back(Plan[c].inTask[i]))

(* A step needs what it waits for. *)
LEMMA StepsGo ==
  ASSUME IInv, NEW t \in Thread, Step(t)
  PROVE  CanGo(t)
<1>1. TypeOK /\ SourceInv
  BY DEF IInv
<1>2. CASE StartRoot(t) \/ TakeJob(t)
  BY <1>2 DEF StartRoot, TakeJob, JobQueued, CanGo
<1>3. CASE \E c \in Reporting : ReporterCalls(t, c)
  BY <1>3 DEF ReporterCalls, CanGo
<1>4. ASSUME NEW c \in Call,
             \/ CallWithCount(t, c) \/ ExecuteWithCount(t, c) \/ Spawn(t, c)
             \/ Send(t, c) \/ Leave(t, c) \/ Recv(t, c) \/ JobEnds(t, c)
      PROVE  CanGo(t)
  BY <1>4 DEF CallWithCount, ExecuteWithCount, Spawn, Send, Leave, Recv, JobEnds, CanGo
<1>5. ASSUME NEW c \in Call, SourceCalls(t, c) \/ SourceGives(t, c) \/ SourceEnds(t, c) PROVE CanGo(t)
  <2>1. InCall(t, c, "pull")
    BY <1>5 DEF SourceCalls, SourceGives, SourceEnds
  <2>2. next[c] \in Nat /\ Plan[c].items \in Nat
    BY <1>1, PlanAssumption DEF TypeOK
  <2>3. \/ /\ next[c] <= Plan[c].items
           /\ Due(Plan[c].inSource[next[c]]) \/ Back(Plan[c].inSource[next[c]])
        \/ next[c] > Plan[c].items /\ Back(Plan[c].awaits)
    <3>1. CASE SourceCalls(t, c) \/ SourceGives(t, c)
      BY <3>1 DEF SourceCalls, SourceGives
    <3>2. CASE SourceEnds(t, c) /\ next[c] > Plan[c].items
      BY <3>2 DEF SourceEnds
    <3>3. CASE SourceEnds(t, c) /\ ~(next[c] > Plan[c].items)
      <4>1. phase[Plan[c].inSource[next[c]]] = "panicked"
        BY <3>3 DEF SourceEnds
      <4>2. QED
        BY <2>2, <3>3, <4>1 DEF Back, Over
    <3>4. QED
      BY <1>5, <3>1, <3>2, <3>3
  <2>4. QED
    BY <2>1, <2>3 DEF CanGo
<1>6. ASSUME NEW c \in Call, TaskCalls(t, c) \/ WorkerTaskEnds(t, c) \/ SequentialTaskEnds(t, c) PROVE CanGo(t)
  <2>1. PICK i \in 1 .. Plan[c].items :
           Running(t, c, i) /\ (Due(Plan[c].inTask[i]) \/ Back(Plan[c].inTask[i]))
    <3>1. CASE TaskCalls(t, c)
      BY <3>1 DEF TaskCalls
    <3>2. CASE WorkerTaskEnds(t, c)
      BY <3>2 DEF WorkerTaskEnds, Running
    <3>3. CASE SequentialTaskEnds(t, c)
      <4>1. InCall(t, c, "run") /\ Back(Plan[c].inTask[next[c]])
        BY <3>3 DEF SequentialTaskEnds
      <4>2. next[c] \in 1 .. Plan[c].items
        BY <1>1, <4>1, PlanAssumption DEF SourceInv, InCall
      <4>3. QED
        BY <4>1, <4>2 DEF Running
    <3>4. QED
      BY <1>6, <3>1, <3>2, <3>3
  <2>2. QED
    BY <2>1 DEF CanGo
<1>7. QED
  <2>1. {stack[t][k].call : k \in 1 .. Len(stack[t])} \subseteq Call
    BY <1>1, StackFrames, FrameCases
  <2>2. QED
    BY <1>2, <1>3, <1>4, <1>5, <1>6, <2>1 DEF Step

(* A thread that is not blocked can go on. *)
LEMMA UnblockedGo ==
  ASSUME IInv, NEW t \in Thread, ~Blocked(t)
  PROVE  CanGo(t)
<1>1. TypeOK /\ SourceInv /\ FrameInv
  BY DEF IInv
<1>2. CASE stack[t] = <<>>
  BY <1>2 DEF Blocked, CanGo
<1>3. CASE stack[t] # <<>>
  <2> DEFINE f == Head(stack[t])
             c == f.call
  <2>1. f = stack[t][1] /\ 1 \in 1 .. Len(stack[t]) /\ f \in Frame
    BY <1>1, <1>3, StackFrames
  <2>2. c \in Call /\ Plan[c].items \in Nat
    BY <2>1, FrameCases, PlanAssumption
  <2>3. \A d : ~InProgress(d) => Due(d) \/ Back(d)
    BY DEF InProgress, Due, Back
  <2>4. \A d : ~Due(d) /\ ~InProgress(d) => Back(d)
    BY <2>3
  <2>5. CASE f.kind = "job"
    <3>1. f.item \in 0 .. Plan[c].items /\ InJob(t, c, f.item)
      BY <1>3, <2>1, <2>5, FrameCases DEF InJob
    <3>2. CASE f.item = 0
      <4>1. InJob(t, c, 0) /\ (chan[c] # <<>> \/ ~open[c])
        BY <2>2, <3>1, <3>2 DEF Blocked
      <4>2. QED
        BY <2>2, <4>1 DEF CanGo
    <3>3. CASE f.item # 0
      <4>1. f.item \in 1 .. Plan[c].items /\ Running(t, c, f.item)
        BY <2>2, <3>1, <3>3 DEF Running
      <4>2. ~InProgress(Plan[c].inTask[f.item])
        BY <2>2, <4>1 DEF Blocked
      <4>3. QED
        BY <2>2, <2>3, <4>1, <4>2 DEF CanGo
    <3>4. QED
      BY <3>2, <3>3
  <2>6. CASE f.kind = "call"
    <3>1. f = CallFrame(c)
      BY <2>1, <2>6, FrameCases
    <3>2. \A ph : phase[c] = ph => InCall(t, c, ph)
      BY <1>3, <3>1 DEF InCall
    <3>3. phase[c] \in {"call", "enter", "spawn", "pull", "send", "run", "join"}
      BY <1>1, <2>1, <2>2, <2>6 DEF FrameInv, TypeOK, Over
    <3>4. CASE phase[c] \in {"call", "enter", "spawn"}
      BY <2>2, <3>2, <3>4 DEF CanGo
    <3>5. CASE phase[c] = "pull"
      <4>1. InCall(t, c, "pull") /\ ~SourceWaits(c)
        BY <2>2, <3>2, <3>5 DEF Blocked
      <4>2. next[c] \in Nat /\ (next[c] <= Plan[c].items \/ next[c] > Plan[c].items)
        BY <1>1, <2>2 DEF TypeOK
      <4>3. \/ /\ next[c] <= Plan[c].items
               /\ Due(Plan[c].inSource[next[c]]) \/ Back(Plan[c].inSource[next[c]])
            \/ next[c] > Plan[c].items /\ Back(Plan[c].awaits)
        BY <2>2, <2>3, <3>5, <4>1, <4>2 DEF SourceWaits
      <4>4. QED
        BY <2>2, <4>1, <4>3 DEF CanGo
    <3>6. CASE phase[c] = "send"
      <4>1. ~(Len(chan[c]) >= WorkerCount(c)) /\ InCall(t, c, "send")
        BY <2>2, <3>2, <3>6 DEF Blocked
      <4>2. Len(chan[c]) \in Nat /\ WorkerCount(c) \in Nat
        BY <1>1, <2>2, WorkerCountType DEF TypeOK
      <4>3. QED
        BY <2>2, <4>1, <4>2 DEF CanGo
    <3>7. CASE phase[c] = "run"
      <4>1. next[c] \in 1 .. Plan[c].items /\ Running(t, c, next[c])
        BY <1>1, <2>2, <3>2, <3>7 DEF SourceInv, Running
      <4>2. ~InProgress(Plan[c].inTask[next[c]])
        BY <2>2, <4>1 DEF Blocked
      <4>3. QED
        BY <2>2, <2>3, <4>1, <4>2 DEF CanGo
    <3>8. CASE phase[c] = "join"
      <4>1. InCall(t, c, "join") /\ (IF jobs[c] > 0 THEN JobQueued(t) ELSE ReporterJoined(c))
        BY <2>2, <3>2, <3>8 DEF Blocked
      <4>2. jobs[c] \in Nat
        BY <1>1, <2>2 DEF TypeOK
      <4>3. CASE jobs[c] > 0
        BY <4>1, <4>3 DEF CanGo
      <4>4. CASE jobs[c] = 0
        BY <2>2, <4>1, <4>4 DEF CanGo
      <4>5. QED
        BY <4>2, <4>3, <4>4
    <3>9. QED
      BY <3>3, <3>4, <3>5, <3>6, <3>7, <3>8
  <2>7. QED
    BY <2>1, <2>5, <2>6, FrameCases
<1>4. QED
  BY <1>2, <1>3

(* And one that is blocked cannot. *)
LEMMA BlockedWait ==
  ASSUME IInv, NEW t \in Thread, Blocked(t), CanGo(t)
  PROVE  FALSE
<1>1. TypeOK
  BY DEF IInv
<1>2. /\ \A c, d : CallFrame(c) = CallFrame(d) => c = d
      /\ \A c, d, i, j : JobFrame(c, i) = JobFrame(d, j) => c = d /\ i = j
      /\ \A c, d, i : CallFrame(c) # JobFrame(d, i)
      /\ \A c : CallFrame(c).call = c /\ \A i : JobFrame(c, i).call = c
  BY DEF CallFrame, JobFrame
\* The innermost frame is one of a call, at one point, or of a job, with one item.
<1>3. /\ \A c, d, p, q : InCall(t, c, p) /\ InCall(t, d, q) => c = d /\ p = q
      /\ \A c, d, p, i : InCall(t, c, p) => ~InJob(t, d, i)
      /\ \A c, d, i, j : InJob(t, c, i) /\ InJob(t, d, j) => c = d /\ i = j
      /\ \A c, p : InCall(t, c, p) => stack[t] # <<>> /\ Head(stack[t]).call = c
      /\ \A c, i : InJob(t, c, i) => stack[t] # <<>> /\ Head(stack[t]).call = c
  BY <1>2 DEF InCall, InJob
<1>4. \A d : InProgress(d) => ~Due(d) /\ ~Back(d)
  BY DEF InProgress, Due, Back
<1>5. CASE /\ stack[t] = <<>> /\ roots[t] = <<>> /\ ~JobQueued(t)
           /\ t \in ReporterThread => \A c \in Reporting : ~ReportDue(c)
  <2>1. \A c, i, p : ~InCall(t, c, p) /\ ~InJob(t, c, i)
    BY <1>5 DEF InCall, InJob
  <2>2. QED
    BY <1>5, <2>1 DEF CanGo, Running
<1>6. ASSUME NEW c \in Call, InJob(t, c, 0), chan[c] = <<>>, open[c] PROVE FALSE
  BY <1>3, <1>6 DEF CanGo, Running
<1>7. ASSUME NEW c \in Call, InCall(t, c, "send"), Len(chan[c]) >= WorkerCount(c) PROVE FALSE
  <2>1. Len(chan[c]) \in Nat /\ WorkerCount(c) \in Nat
    BY <1>1, WorkerCountType DEF TypeOK
  <2>2. ~(Len(chan[c]) < WorkerCount(c))
    BY <1>7, <2>1
  <2>3. QED
    BY <1>3, <1>7, <2>2 DEF CanGo, Running
<1>8. ASSUME NEW c \in Call, InCall(t, c, "join"), IF jobs[c] > 0 THEN ~JobQueued(t) ELSE ~ReporterJoined(c)
      PROVE  FALSE
  <2>1. jobs[c] \in Nat
    BY <1>1 DEF TypeOK
  <2>2. jobs[c] = 0 => ~(jobs[c] > 0)
    BY <2>1
  <2>3. QED
    BY <1>3, <1>8, <2>2 DEF CanGo, Running
<1>9. ASSUME NEW c \in Call, InCall(t, c, "pull"), SourceWaits(c) PROVE FALSE
  <2>1. next[c] \in Nat /\ Plan[c].items \in Nat
    BY <1>1, PlanAssumption DEF TypeOK
  <2>2. next[c] > Plan[c].items <=> ~(next[c] <= Plan[c].items)
    BY <2>1
  <2>3. QED
    BY <1>3, <1>4, <1>9, <2>2 DEF CanGo, Running, SourceWaits
<1>10. ASSUME NEW c \in Call, NEW i \in 1 .. Plan[c].items, Running(t, c, i), InProgress(Plan[c].inTask[i])
       PROVE  FALSE
  <2>1. i # 0
    BY <1>10, PlanAssumption
  <2>2. QED
    BY <1>3, <1>4, <1>10, <2>1 DEF CanGo, Running
<1>11. QED
  BY <1>5, <1>6, <1>7, <1>8, <1>9, <1>10 DEF Blocked

(* A thread is in one of the waits of Blocked if and only if no guard of an *)
(* action holds for it: the waits are all there are, and whoever is in one  *)
(* takes no step until another thread ends it.                              *)
BlockedOrGo == \A t \in Thread : Blocked(t) <=> ~CanGo(t)

THEOREM WaitsAreAll == Spec => /\ []BlockedOrGo
                               /\ [][\A t \in Thread : Step(t) => CanGo(t) /\ ~Blocked(t)]_vars
<1>1. IInv => BlockedOrGo
  BY UnblockedGo, BlockedWait DEF BlockedOrGo
<1>2. IInv => [\A t \in Thread : Step(t) => CanGo(t) /\ ~Blocked(t)]_vars
  BY StepsGo, BlockedWait
<1>3. QED
  BY <1>1, <1>2, Invariance, PTL
=============================================================================
