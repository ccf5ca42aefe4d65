--------------------------- MODULE BenchmarkRuns ---------------------------
(***************************************************************************)
(* What the operator promises of the jobs of its benchmarks, with no       *)
(* reconciler, tracker or informer: every job runs once; the jobs of a     *)
(* sequential benchmark run one at a time; jobs that take turns start in   *)
(* the order of their combinations.                                        *)
(***************************************************************************)
EXTENDS Naturals, Sequences, Functions

CONSTANTS Benchmarks, Jobs, JobsOf, Eager

VARIABLE phase   \* [Jobs -> {"pending", "running", "finished"}]

TypeInvariant == phase \in [Jobs -> {"pending", "running", "finished"}]

Init == phase = [j \in Jobs |-> "pending"]

\* No job of a benchmark without eager jobs is running.
Free(b) == \/ Range(JobsOf[b]) \cap Eager # {}
           \/ \A j \in Range(JobsOf[b]) : phase[j] # "running"

Start(b, i) ==
    LET j == JobsOf[b][i] IN
    /\ phase[j] = "pending"
    /\ j \notin Eager =>
         \A k \in 1..(i - 1) :
            phase[JobsOf[b][k]] = "pending" => JobsOf[b][k] \in Eager
    /\ Free(b)
    /\ phase' = [phase EXCEPT ![j] = "running"]

Finish(j) ==
    /\ phase[j] = "running"
    /\ phase' = [phase EXCEPT ![j] = "finished"]

Next == \/ \E b \in Benchmarks : \E i \in 1..Len(JobsOf[b]) : Start(b, i)
        \/ \E j \in Jobs : Finish(j)

Spec == Init /\ [][Next]_phase

\* A benchmark is never given up.
FairSpec == Spec /\ WF_phase(Next)
=============================================================================
