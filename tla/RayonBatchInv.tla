--------------------------- MODULE RayonBatchInv ----------------------------
(***************************************************************************)
(* The inductive invariant of RayonBatch.  TaskAccounting is not inductive *)
(* by itself: that a task is not lost when the last receiver goes depends  *)
(* on who still owns a receiver, and that depends on where the caller is   *)
(* in its spawn loop and on how far each job has gone.                     *)
(***************************************************************************)
EXTENDS RayonBatch

\* Where the caller is decides which ends of the channel it owns.
CallerInv ==
    /\ original <=> pc \in {"start", "spawn"} \/ (pc = "done" /\ closure = "running")
    /\ sender <=> closure = "running"
    /\ closure = "running" => pc \in {"start", "spawn", "ask", "pull", "send", "close", "done"}
    /\ closure # "running" => pc \in {"join", "report", "done"}
    /\ hand # NoTask <=> pc = "send"
    /\ original => accepted = 0
    /\ result = "none" <=> pc # "done"

\* A job's state decides what it owns and what it has seen of the channel.
JobInv ==
    \A w \in Worker :
        /\ job[w] = "unspawned" => original
        /\ original /\ pc # "spawn" => job[w] = "unspawned"
        /\ job[w] = "run" => holds[w] \in Task
        /\ job[w] = "drop" => holds[w] \in Completed
        /\ job[w] \notin {"run", "drop"} => holds[w] = NoTask
        /\ job[w] = "exited" => ~sender /\ chan = <<>>

\* The channel is bounded, and is emptied when its last receiver goes; only
\* then, and only by unwinding, is a task destroyed unrun.
ChannelInv ==
    /\ Len(chan) <= WorkerCount
    /\ ReceiversGone => chan = <<>>
    /\ discarded # {} \/ closure = "disconnected" =>
          ReceiversGone /\ \E w \in Worker : job[w] = "unwound"
    /\ Cardinality(discarded) <= WorkerCount + (IF closure = "disconnected" THEN 1 ELSE 0)

\* The loop over the source ends for a reason, and the reason persists.
SourceInv ==
    /\ exhausted \/ exceeded => pc \in {"close", "join", "report", "done"}
    /\ exceeded => accepted = Count
    /\ pc = "close" \/ closure = "ok" => exhausted \/ exceeded \/ Stopped

\* The scope has been waited for when the caller leaves it.
ScopeInv ==
    /\ pc = "report" => Joined /\ ~Unwinds
    /\ pc = "done" /\ ~original => Joined
    /\ pc = "done" /\ ~original /\ result # "Panic" => ~Unwinds

(* Everything above holds in every reachable state, and no step of a caller *)
(* or of a worker of run_rayon_worker can leave it.                         *)
IInv ==
    /\ TypeOK /\ CallerInv /\ JobInv /\ ChannelInv
    /\ SourceInv /\ ScopeInv /\ TaskAccounting
=============================================================================
