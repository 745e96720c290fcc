--------------------------- MODULE ProgressExample ---------------------------
(***************************************************************************)
(* The program of examples/progress_and_failure_policy.rs: three executors *)
(* in turn, one per failure policy, share one reporter that counts events, *)
(* and each makes one call over an exact source in which every fourth task *)
(* fails.  What the calls may do is their contract, BatchContract; what    *)
(* the program asserts of them must follow.                                *)
(***************************************************************************)
EXTENDS Integers, Sequences, FiniteSets, Functions

CONSTANTS
    Items,          \* tasks of each call
    Window,         \* items a call may take ahead of completion
    MaxRunning      \* bound on the Running events of the model

\* The source gives 64; the policy with the highest limit takes two failures.
ASSUME ItemsAssumption == Items \in Nat /\ Items % 4 = 0 /\ Items >= 8
ASSUME ExampleWindowAssumption == Window \in Nat \ {0}
ASSUME ExampleRunningAssumption == MaxRunning \in Nat

VARIABLES
    main,           \* where the program is
    round,          \* the policy it is trying
    started, running, terminal,     \* the reporter's counters
    pulling, accepted, exhausted, exceeded, outcome, result     \* of the call

counters == <<started, running, terminal>>
call == <<pulling, accepted, exhausted, exceeded, outcome, result>>
vars == <<main, round, counters, call>>

\* Continue, StopOnFirstFailure, StopAfterFailures(2), as failure limits.
Policies == <<0, 1, 2>>
Limit == Policies[round]

\* The call, if the executor's policy is limit.
Batch(limit) == INSTANCE BatchContract WITH Count <- Items, FailureLimit <- limit

Init ==
    /\ main = "build"
    /\ round = 1
    /\ started = 0 /\ running = 0 /\ terminal = 0
    /\ Batch(0)!Init

-----------------------------------------------------------------------------

Failed == {i \in 0 .. Items - 1 : outcome[i] = "failed"}
Completed == {i \in 0 .. Items - 1 : outcome[i] # "none"}

\* builder() ... build(), then executor.call(calls): Started is reported.
Call ==
    /\ main = "build"
    /\ main' = "call"
    /\ started' = started + 1
    /\ pulling' = FALSE
    /\ accepted' = 0
    /\ exhausted' = FALSE
    /\ exceeded' = FALSE
    /\ outcome' = [i \in 0 .. Items - 1 |-> "none"]
    /\ result' = "none"
    /\ UNCHANGED <<round, running, terminal>>

StopReached == Limit > 0 /\ Cardinality(Failed) >= Limit

\* The source gives Items tasks and no more, and does not panic; the reporter
\* never fails, and task i fails exactly if it is a fourth one.
AsProgrammed ==
    /\ exhausted' => accepted = Items
    /\ ~exceeded'
    /\ pulling /\ ~pulling' => exhausted' \/ accepted' > accepted \/ StopReached
    /\ \A i \in 0 .. Items - 1 :
          outcome'[i] # "none" => (outcome'[i] = "failed" <=> i % 4 = 0)
    /\ result' \notin {"Panic", "ProgressReport"}

BatchStep ==
    /\ main = "call"
    /\ \E limit \in Range(Policies) : limit = Limit /\ Batch(limit)!Next
    /\ AsProgrammed
    /\ UNCHANGED <<main, round, counters>>

ReportRunning ==
    /\ main = "call" /\ result = "none" /\ running < MaxRunning
    /\ running' = running + 1
    /\ UNCHANGED <<main, round, started, terminal, call>>

\* The terminal report, then the call's answer.
Answer ==
    /\ main = "call" /\ result # "none"
    /\ main' = "check"
    /\ terminal' = terminal + 1
    /\ UNCHANGED <<round, started, running, call>>

\* expect("count and reporting should succeed") and the assertions on outcome.
\* Those on the outputs follow from OutputsMatchOutcome of CallBatch.
Holds ==
    /\ result \in {"Finished", "StoppedByTaskFailurePolicy"}
    /\ Failed # {}
    /\ Limit = 0 => /\ result = "Finished"
                    /\ Cardinality(Completed) = Items
                    /\ Cardinality(Failed) = Items \div 4
    /\ Cardinality(Failed) >= Limit

\* The next policy, or the assertions on the counters.
Check ==
    /\ main = "check"
    /\ main' = IF ~Holds THEN "panicked"
               ELSE IF round < Len(Policies) THEN "build"
               ELSE IF started = 3 /\ terminal = 3 THEN "ended" ELSE "panicked"
    /\ round' = IF main' = "build" THEN round + 1 ELSE round
    /\ UNCHANGED <<counters, call>>

Exited == main \in {"ended", "panicked"} /\ UNCHANGED vars

Step == Call \/ BatchStep \/ Answer \/ Check
Next == Step \/ ReportRunning \/ Exited

\* The program is scheduled and its calls, as their contract allows, go on.
Spec == Init /\ [][Next]_vars /\ WF_vars(Step)

-----------------------------------------------------------------------------
(* No assertion of the example fails, whatever the schedule: in particular  *)
(* a policy that stops the call never reports fewer failures than its limit *)
(* and Continue never skips a task.                                         *)
ExamplePasses == main # "panicked"

(* The example ends: a call whose policy is reached or whose source has     *)
(* ended has nothing left to ask for.                                       *)
ExampleEnds == <>(main = "ended")
=============================================================================
