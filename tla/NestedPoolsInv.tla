--------------------------- MODULE NestedPoolsInv ---------------------------
(***************************************************************************)
(* The inductive invariant of NestedPools, for every program.  What the    *)
(* registry says of a thread depends on where each call on the thread's    *)
(* stack is; what a call's scope still holds depends on the job frames on  *)
(* all stacks and on the queue of its pool.                                *)
(***************************************************************************)
EXTENDS NestedPools

\* Where a caller can be, by what was decided, and what it owns there.
CallInv ==
    \A c \in Call :
        /\ mode[c] = "none" => phase[c] \in {"idle", "call", "enter"}
        /\ mode[c] = "parallel" => phase[c] \in {"enter", "spawn", "pull", "send", "join"} \cup Over
        /\ mode[c] = "sequential" => phase[c] \in {"pull", "run", "join"} \cup Over
        /\ guard[c] => phase[c] \in {"spawn", "pull", "send", "run", "join"}
        /\ mode[c] = "parallel" => guard[c] \/ phase[c] \in {"enter"} \cup Over
        /\ open[c] <=> phase[c] \notin {"join"} \cup Over

\* How far the source has come.
SourceInv ==
    \A c \in Call :
        /\ next[c] \in 1 .. Plan[c].items + 1
        /\ phase[c] \in {"send", "run"} => next[c] <= Plan[c].items
        /\ phase[c] \in {"join", "returned"} /\ ~broken[c] => next[c] = Plan[c].items + 1
        /\ phase[c] = "returned" => ~broken[c]

\* A call has one frame at most, on one stack; below the innermost frame calls
\* are where they can be interrupted.
FrameInv ==
    \A t \in Thread : \A k \in 1 .. Len(stack[t]) :
        stack[t][k].kind = "call" =>
            /\ phase[stack[t][k].call] \notin {"idle"} \cup Over
            /\ k > 1 => phase[stack[t][k].call] \in {"pull", "run", "join"}
            /\ \A u \in Thread : \A l \in 1 .. Len(stack[u]) :
                  stack[u][l] = stack[t][k] => u = t /\ l = k

\* The calls an external thread has yet to make have not been made.
RootsInv ==
    \A t \in Thread : \A i \in 1 .. Len(roots[t]) :
        /\ roots[t][i] \notin Nested
        /\ phase[roots[t][i]] = "idle"
        /\ \A u \in Thread : \A j \in 1 .. Len(roots[u]) : roots[t][i] = roots[u][j] => t = u /\ i = j

Owners(t) == {c \in Call : guard[c] /\ CallFrame(c) \in Frames(t)}
Registered(t) == {active[t][k] : k \in 1 .. Len(active[t])}

\* Registrations are those of the owners, and no two are of one pool.
RegistryInv ==
    \A t \in Thread :
        /\ Registered(t) = {Plan[c].pool : c \in Owners(t)}
        /\ \A k, l \in 1 .. Len(active[t]) : active[t][k] = active[t][l] => k = l
        /\ \A c, d \in Owners(t) : Plan[c].pool = Plan[d].pool => c = d

\* Frame number h of thread t's stack, counted from the bottom.
At(t, h) == stack[t][Len(stack[t]) + 1 - h]

\* The job frames of call c, by thread and height in its stack, and its jobs in
\* the queue.
IsJobOf(frame, c) == frame.kind = "job" /\ frame.call = c
JobHeights(t, c) == {h \in 1 .. Len(stack[t]) : IsJobOf(At(t, h), c)}
StackJobs(c) == UNION {{t} \X JobHeights(t, c) : t \in Thread}
QueuedJobs(c) == {k \in 1 .. Len(queue[Plan[c].pool]) : queue[Plan[c].pool][k] = c}

\* jobs[c] counts them, and while there are any the call is at its scope.
JobInv ==
    /\ \A p \in Pool : \A k \in 1 .. Len(queue[p]) : Plan[queue[p][k]].pool = p
    /\ \A c \in Call :
          /\ IsFiniteSet(StackJobs(c))
          /\ jobs[c] = Cardinality(StackJobs(c)) + Cardinality(QueuedJobs(c))
          /\ jobs[c] > 0 => mode[c] = "parallel" /\ phase[c] \in {"spawn", "pull", "send", "join"}
          /\ mode[c] = "parallel" /\ phase[c] \in {"pull", "send"} => jobs[c] > 0

Buffered(c) == {chan[c][k] : k \in 1 .. Len(chan[c])}
Held(c) == {i \in 1 .. Plan[c].items : \E t \in Thread : JobFrame(c, i) \in Frames(t)}

\* Where the items a source has given are.
ItemInv ==
    /\ \A t \in Thread : \A k \in 1 .. Len(stack[t]) :
          stack[t][k].kind = "job" => stack[t][k].item < next[stack[t][k].call]
    /\ \A c \in Call :
          /\ done[c] \cup Buffered(c) \subseteq 1 .. next[c] - 1
          /\ 1 .. next[c] - 1 \subseteq done[c] \cup Buffered(c) \cup Held(c)
          /\ chan[c] # <<>> => mode[c] = "parallel" /\ phase[c] \in {"pull", "send", "join"}
          /\ phase[c] = "join" /\ chan[c] # <<>> => jobs[c] > 0

IInv ==
    /\ TypeOK /\ CallInv /\ SourceInv /\ FrameInv /\ RootsInv
    /\ RegistryInv /\ NoSelfWait /\ LosesParallelismOnlyByReentry
    /\ JobInv /\ ItemInv

-----------------------------------------------------------------------------
(* What is on top of what, and what waits for what, for the stalls; and    *)
(* what is left to do, for the end of a program.                           *)

\* A call that has begun and is not over is on a stack.
PresentInv ==
    \A c \in Call : phase[c] \notin {"idle"} \cup Over => \E t \in Thread : CallFrame(c) \in Frames(t)

\* Frame g is on top of frame f: the call that f's source or task has made, or a
\* job taken while the thread waits for a scope.
On(g, f) ==
    LET c == f.call
    IN  IF f.kind = "job" THEN f.item > 0 /\ g = CallFrame(Plan[c].inTask[f.item])
        ELSE \/ /\ phase[c] = "pull" /\ next[c] <= Plan[c].items
                /\ g = CallFrame(Plan[c].inSource[next[c]])
             \/ /\ phase[c] = "run" /\ g = CallFrame(Plan[c].inTask[next[c]])
             \/ phase[c] = "join" /\ g.kind = "job"

\* At the bottom of a worker's stack is a job, of an external thread's a call
\* that no source and no task made.
Bottom(t, f) ==
    \/ f.kind = "job" /\ Home[t] # NoPool
    \/ f.kind = "call" /\ Home[t] = NoPool /\ \A c \in Call : f.call \notin Inside(c)

StackInv ==
    \A t \in Thread :
        /\ Home[t] # NoPool => roots[t] = <<>>
        /\ \A h \in 1 .. Len(stack[t]) :
              /\ h = 1 => Bottom(t, At(t, h))
              /\ h < Len(stack[t]) => On(At(t, h + 1), At(t, h))
              /\ At(t, h).kind = "job" => Plan[At(t, h).call].pool = Home[t]

\* An item is in one place only.
PlaceInv ==
    /\ \A c \in Call : \A k, l \in 1 .. Len(chan[c]) : k < l => chan[c][k] < chan[c][l]
    /\ \A t \in Thread : \A h \in 1 .. Len(stack[t]) :
          At(t, h).kind = "job" /\ At(t, h).item > 0 =>
              /\ At(t, h).item \notin Buffered(At(t, h).call)
              /\ \A u \in Thread : \A l \in 1 .. Len(stack[u]) : At(u, l) = At(t, h) => u = t /\ l = h

\* Reporters call from parallel calls under way, and a parallel call has workers.
ParallelInv ==
    \A c \in Call :
        /\ Plan[c].inReport # NoCall /\ phase[Plan[c].inReport] # "idle" =>
              mode[c] = "parallel" /\ phase[c] \notin {"idle", "call", "enter"}
        /\ mode[c] = "parallel" => Cardinality(Workers(Plan[c].pool)) > 1

\* What is on a stack is on the pool at its bottom or below it, if calls go down.
DescentInv ==
    \A rank \in [Pool -> 1 .. Cardinality(Pool)] : GoesDown(rank) =>
        \A t \in Thread : \A h \in 1 .. Len(stack[t]) :
            LET p == Plan[At(t, h).call].pool
                q == Plan[At(t, 1).call].pool
            IN  p = q \/ rank[p] < rank[q]

NestingInv == PresentInv /\ StackInv /\ PlaceInv /\ ParallelInv /\ DescentInv

\* What is left to do is not done: an item in a channel or at work has not been
\* completed, and a spawn loop has a job to spawn.
CountInv ==
    /\ \A c \in Call :
          /\ Buffered(c) \cap done[c] = {}
          /\ phase[c] = "spawn" => jobs[c] < WorkerCount(c)
    /\ \A t \in Thread : \A k \in 1 .. Len(stack[t]) :
          stack[t][k].kind = "job" => stack[t][k].item \notin done[stack[t][k].call]

WaitInv == NestingInv /\ CountInv
=============================================================================
