--------------------------- MODULE MCNestedPools ----------------------------
(***************************************************************************)
(* Programs for NestedPools: who calls whom, on pools of two workers.      *)
(***************************************************************************)
EXTENDS NestedPoolsInv, TLC

CONSTANTS x, y, r, a1, a2, b1, b2, c1, c2   \* external threads, two workers per pool

TwoPools == {"A", "B"}
TwoPoolsThreads == {x, y, r, a1, a2, b1, b2}
ThreePools == TwoPools \cup {"C"}
ThreePoolsThreads == TwoPoolsThreads \cup {c1, c2}
HomeTable(threads) ==
    [t \in threads |-> CASE t \in {a1, a2} -> "A" [] t \in {b1, b2} -> "B" [] t \in {c1, c2} -> "C"
                         [] OTHER -> "none"]
\* The workers of a pool are interchangeable (used by safety runs only, and not
\* for C, which most programs do not use).
WorkerSymmetry(threads) ==
    LET home == HomeTable(threads)
    IN  {f \in Permutations(threads) :
            \A t \in threads : home[f[t]] = home[t] /\ (home[t] \in {"none", "C"} => f[t] = t)}

Leaf(p, n) == [pool |-> p, items |-> n, viaCall |-> FALSE, panics |-> FALSE,
               awaits |-> "none", inReport |-> "none",
               inSource |-> [i \in 1 .. n |-> "none"], inTask |-> [i \in 1 .. n |-> "none"]]

\* The program in which x and y make these calls.
By(threads, xs, ys) == [t \in threads |-> CASE t = x -> xs [] t = y -> ys [] OTHER -> <<>>]

-----------------------------------------------------------------------------
(* Acyclic: x and y use clones of A's executor; tasks of x call B, a task   *)
(* of y calls A again, and x's source reenters A.                           *)
AcyclicCalls == {"x1", "xsa", "xsb", "xb1", "xb2", "y1", "ya"}
AcyclicTable == [c \in AcyclicCalls |->
    CASE c = "x1" -> [Leaf("A", 2) EXCEPT !.viaCall = TRUE,
                                          !.inSource = <<"xsa", "xsb">>,
                                          !.inTask = <<"xb1", "xb2">>]
      [] c = "xsa" -> Leaf("A", 1)
      [] c = "xsb" -> Leaf("B", 1)
      [] c = "xb1" -> Leaf("B", 1)
      [] c = "xb2" -> [Leaf("B", 1) EXCEPT !.panics = TRUE]
      [] c = "y1" -> [Leaf("A", 2) EXCEPT !.inTask = <<"ya", "none">>]
      [] c = "ya" -> Leaf("A", 1)]
AcyclicProgram == {By(TwoPoolsThreads, <<"x1">>, <<"y1">>)}

-----------------------------------------------------------------------------
(* Cyclic: tasks of a call on A call B, whose tasks call A.                 *)
CycleCalls == {"a", "ab1", "ab2", "ab1a1", "ab1a2"}
CycleTable == [c \in CycleCalls |->
    CASE c = "a" -> [Leaf("A", 2) EXCEPT !.inTask = <<"ab1", "ab2">>]
      [] c = "ab1" -> [Leaf("B", 5) EXCEPT !.inTask = <<"ab1a1", "ab1a2", "none", "none", "none">>]
      [] c = "ab2" -> Leaf("B", 3)
      [] OTHER -> Leaf("A", 3)]

(* The same cycle with one item per nested call, both tasks alike: no send  *)
(* can block, and only workers that wait in one pool for the other are left *)
(* to serve the innermost calls.                                            *)
ControlCalls == {"a", "ab1", "ab2", "ab1a", "ab2a"}
ControlTable == [c \in ControlCalls |->
    CASE c = "a" -> [Leaf("A", 2) EXCEPT !.inTask = <<"ab1", "ab2">>]
      [] c = "ab1" -> [Leaf("B", 1) EXCEPT !.inTask = <<"ab1a">>]
      [] c = "ab2" -> [Leaf("B", 1) EXCEPT !.inTask = <<"ab2a">>]
      [] OTHER -> Leaf("A", 1)]

-----------------------------------------------------------------------------
(* Shared: the source of x's batch waits for a batch that y runs on a clone,  *)
(* and x's reporter, on the thread r, runs one more.  With one item x's batch *)
(* takes one of the two workers of A, with two it can take both; y's has as   *)
(* many items.                                                                *)
SharedCalls == {"p", "q", "qa", "r"}
SharedTable(n, p) == [c \in SharedCalls |->
    CASE c = "p" -> [Leaf("A", n) EXCEPT !.awaits = "q", !.inReport = "r"]
      [] c = "q" -> [Leaf("A", n) EXCEPT !.viaCall = TRUE, !.inTask[1] = "qa"]
      [] c = "qa" -> Leaf("A", 1)
      [] c = "r" -> Leaf(p, 1)]

-----------------------------------------------------------------------------
(* In a line: calls only go from A to B to C, but the sources of x's batch  *)
(* on B and of y's on A wait for calls of their own.                        *)
LineCalls == {"xa", "xb", "xc", "ya", "yb"}
LineTable == [c \in LineCalls |->
    CASE c = "xa" -> [Leaf("A", 1) EXCEPT !.inTask = <<"xb">>]
      [] c = "xb" -> [Leaf("B", 2) EXCEPT !.inSource = <<"none", "xc">>]
      [] c = "xc" -> Leaf("C", 2)
      [] c = "ya" -> [Leaf("A", 1) EXCEPT !.inSource = <<"yb">>]
      [] c = "yb" -> Leaf("B", 1)]

-----------------------------------------------------------------------------
(* Programs that end: x of the acyclic one with a call that can fill its    *)
(* channel, the small cycle, and the shared one with a worker left.         *)
EndingCalls == AcyclicCalls \cup ControlCalls \cup SharedCalls
EndingTable == [AcyclicTable EXCEPT !["xsb"] = Leaf("B", 3)] @@ ControlTable @@ SharedTable(1, "A")
EndingProgram == {By(TwoPoolsThreads, <<"x1">>, <<>>), By(TwoPoolsThreads, <<"a">>, <<>>),
                  By(TwoPoolsThreads, <<"p">>, <<"q">>)}

(* Programs that may stall: the large cycle, the shared one with a reporter *)
(* that calls the other pool, and the line.                                 *)
StallingCalls == CycleCalls \cup SharedCalls \cup LineCalls
StallingTable == CycleTable @@ SharedTable(2, "B") @@ LineTable
StallingProgram == {By(ThreePoolsThreads, <<"a">>, <<>>), By(ThreePoolsThreads, <<"p">>, <<"q">>),
                    By(ThreePoolsThreads, <<"xa">>, <<"ya">>)}

-----------------------------------------------------------------------------
(* The values of the constants.  TLC computes a table once, but what stands *)
(* for a constant each time it is used.                                     *)
TwoPoolsHomes == HomeTable(TwoPoolsThreads)
TwoPoolsSymmetry == WorkerSymmetry(TwoPoolsThreads)
TwoPoolsThreshold == [p \in TwoPools |-> 0]
ThreePoolsHomes == HomeTable(ThreePoolsThreads)
ThreePoolsSymmetry == WorkerSymmetry(ThreePoolsThreads)
ThreePoolsThreshold == [p \in ThreePools |-> 0]
TwoPoolsHome == TwoPoolsHomes
ThreePoolsHome == ThreePoolsHomes
AcyclicPlan == AcyclicTable
AcyclicPrograms == AcyclicProgram
EndingPlan == EndingTable
EndingPrograms == EndingProgram
StallingPlan == StallingTable
StallingPrograms == StallingProgram
=============================================================================
