---------------------------- MODULE JobPipeline ----------------------------
(***************************************************************************)
(* The job pipeline of one benchmark kind (one GroupVersionKind): the      *)
(* benchmark reconciler that creates the jobs of a benchmark or leaves     *)
(* them waiting (CreateFromOperator), the job tracker that subscribes the  *)
(* benchmark, the informer that reports completed jobs, and the tracker's  *)
(* worker that collects a result and deploys the next waiting job.         *)
(* Jobs run in the cluster and survive a restart of the operator, whose    *)
(* own state is all in memory.  Benchmarks are neither deleted nor         *)
(* auto-tuned here.                                                        *)
(***************************************************************************)
EXTENDS Naturals, Sequences, Functions

CONSTANTS
    Benchmarks,   \* benchmarks whose operator has this GVK
    Jobs,         \* job names; one per combination, build and repetition
    JobsOf,       \* the jobs of a benchmark, in the order they are scanned
    Eager,        \* jobs created at once: see JobsAssumption
    QSize,        \* JOB_MAX_QSIZE
    MaxCrashes,   \* bound on restarts of the operator
    Faults,       \* what may go wrong in a behaviour
    None          \* no benchmark, no job

FaultKinds ==
    { "fast",      \* a job may complete before its benchmark is tracked
      "create",    \* the API server refuses to create a job
      "get",       \* a lookup fails and is taken for "not found"
      "nopods",    \* a completed job has no succeeded pod left
      "noresult",  \* the result cannot be parsed, or its update conflicts
      "jobfail",   \* a job fails, which no adaptor counts as complete
      "cleanup",   \* a completed job is removed by its TTL or a user
      "expire",    \* the same, but not before its result is recorded
      "crash" }    \* the operator restarts

(***************************************************************************)
(* Names identify jobs: a job belongs to one benchmark, at one place of    *)
(* its scan.  Eager is the set of jobs that are created whatever else      *)
(* runs: those a benchmark that is neither sequential nor node-selected    *)
(* has beyond the first label of each build and repetition.                *)
(***************************************************************************)
ASSUME JobsAssumption ==
    /\ JobsOf \in [Benchmarks -> Seq(Jobs)]
    /\ \A b \in Benchmarks, c \in Benchmarks :
         \A i \in 1..Len(JobsOf[b]), k \in 1..Len(JobsOf[c]) :
            JobsOf[b][i] = JobsOf[c][k] => b = c /\ i = k
    /\ \A j \in Jobs : \E b \in Benchmarks : j \in Range(JobsOf[b])
    /\ Eager \subseteq Jobs
    /\ None \notin Benchmarks \cup Jobs
ASSUME BoundsAssumption ==
    /\ QSize \in Nat \ {0}
    /\ MaxCrashes \in Nat
    /\ Faults \subseteq FaultKinds

\* The benchmark a job is labelled with (BENCHMARK_LABEL).
BenchmarkOf(j) == CHOOSE b \in Benchmarks : j \in Range(JobsOf[b])

\* Every job of b waits for its turn: the benchmark is sequential, or it
\* selects nodes.
Sequential(b) == Range(JobsOf[b]) \cap Eager = {}

VARIABLES
    jobs,           \* the cluster's jobs: [Jobs -> "absent", "active", ...]
    results,        \* jobs with an item in their benchmark's Status.Results
    scan,           \* the reconciler's run of CreateFromOperator
    tracker,        \* the GVK's tracker: "none", "starting" or "synced"
    subscribers,    \* r.Subscribers
    waitingJobMap,  \* r.WaitingJobMap, <<>> where there is no key
    waitingKeys,    \* the keys of r.WaitingJobMap
    drMap,          \* the keys of r.DRMap
    jobOptMap,      \* the keys of r.JobOptMap
    pending,        \* completions the informer has yet to hand over
    early,          \* history: benchmarks with a completion that the informer
                    \* saw before their subscription was complete
    jobQueue,       \* the channel r.JobQueue
    worker,         \* the goroutine of Run: pc, job, its dr, the next job
    panicked,       \* a goroutine has panicked; the process is gone
    crashes         \* number of restarts so far

cluster == <<jobs, results>>
maps    == <<subscribers, waitingJobMap, waitingKeys, drMap, jobOptMap>>
queues  == <<pending, jobQueue, early>>
vars    == <<cluster, scan, tracker, maps, queues, worker, panicked, crashes>>

JobStates == {"absent", "active", "complete", "failed"}

ClusterOK ==
    /\ jobs \in [Jobs -> JobStates]
    /\ results \subseteq Jobs

ScanOK ==
    /\ scan \in [pc : {"idle", "first", "rest", "waiting", "dr", "opt"},
                 b : Benchmarks \cup {None}, i : Nat \ {0},
                 waitingJob : Seq(Jobs), done : SUBSET Jobs,
                 opts : SUBSET Jobs]
    /\ scan.pc # "idle" => scan.b \in Benchmarks

MapsOK ==
    /\ subscribers \subseteq Benchmarks
    /\ waitingJobMap \in [Benchmarks -> Seq(Jobs)]
    /\ waitingKeys \subseteq Benchmarks
    /\ drMap \subseteq Benchmarks
    /\ jobOptMap \subseteq Jobs

QueuesOK ==
    /\ pending \in Seq(Jobs)
    /\ early \subseteq Benchmarks
    /\ jobQueue \in Seq(Jobs) /\ Len(jobQueue) <= QSize

WorkerOK ==
    /\ worker \in [pc : {"idle", "process", "deploy", "pop", "create"},
                   job : Jobs \cup {None}, dr : {"nil", "ok"},
                   next : Jobs \cup {None}]
    /\ worker.pc # "idle" => worker.job \in Jobs
    /\ worker.pc = "create" => worker.next \in Jobs

TypeOK ==
    /\ ClusterOK /\ ScanOK /\ MapsOK /\ QueuesOK /\ WorkerOK
    /\ tracker \in {"none", "starting", "synced"}
    /\ panicked \in BOOLEAN
    /\ crashes \in 0..MaxCrashes

-----------------------------------------------------------------------------
(***************************************************************************)
(* Memory of a process that has just started.                              *)
(***************************************************************************)
IdleScan == [pc |-> "idle", b |-> None, i |-> 1, waitingJob |-> <<>>,
             done |-> {}, opts |-> {}]
IdleWorker == [pc |-> "idle", job |-> None, dr |-> "nil", next |-> None]

Init ==
    /\ jobs = [j \in Jobs |-> "absent"]
    /\ results = {}
    /\ scan = IdleScan
    /\ tracker = "none"
    /\ subscribers = {}
    /\ waitingJobMap = [b \in Benchmarks |-> <<>>]
    /\ waitingKeys = {}
    /\ drMap = {}
    /\ jobOptMap = {}
    /\ pending = <<>>
    /\ early = {}
    /\ jobQueue = <<>>
    /\ worker = IdleWorker
    /\ panicked = FALSE
    /\ crashes = 0

(***************************************************************************)
(* What a lookup of job j may answer: a failed Get is taken for an absent  *)
(* job by every caller.                                                    *)
(***************************************************************************)
Lookup(j) == {jobs[j]} \cup IF "get" \in Faults THEN {"absent"} ELSE {}

\* Whether dr.Create may succeed; an existing job makes it fail.
CreateOutcomes(j) ==
    IF jobs[j] # "absent" THEN {FALSE}
    ELSE {TRUE} \cup IF "create" \in Faults THEN {FALSE} ELSE {}

\* Seeded fault: the results already recorded are not consulted.
CreateIgnoringResults(j, done, isNew) ==
    \/ /\ \E found \in Lookup(j) \ {"absent"} : isNew = (found # "complete")
       /\ UNCHANGED jobs
    \/ /\ "absent" \in Lookup(j)
       /\ isNew = TRUE
       /\ \E created \in CreateOutcomes(j) :
            jobs' = IF created THEN [jobs EXCEPT ![j] = "active"] ELSE jobs

\* Seeded fault: a job that still runs is reported as not new.
CreateOnlyCreatedIsNew(j, done, isNew) ==
    \/ /\ \/ j \in done
          \/ Lookup(j) # {"absent"}
       /\ isNew = FALSE
       /\ UNCHANGED jobs
    \/ /\ j \notin done
       /\ "absent" \in Lookup(j)
       /\ isNew = TRUE
       /\ \E created \in CreateOutcomes(j) :
            jobs' = IF created THEN [jobs EXCEPT ![j] = "active"] ELSE jobs

(***************************************************************************)
(* CreateIfNotExists for a job that is not auto-tuned, given the results   *)
(* the caller read.  It returns isNew: TRUE whenever a creation was tried, *)
(* even one that failed, or when the job exists and is not complete.       *)
(***************************************************************************)
CreateIfNotExists(j, done, isNew) ==
    \/ /\ j \in done
       /\ isNew = FALSE
       /\ UNCHANGED jobs
    \/ /\ j \notin done
       /\ \E found \in Lookup(j) \ {"absent"} : isNew = (found # "complete")
       /\ UNCHANGED jobs
    \/ /\ j \notin done
       /\ "absent" \in Lookup(j)
       /\ isNew = TRUE
       /\ \E created \in CreateOutcomes(j) :
            jobs' = IF created THEN [jobs EXCEPT ![j] = "active"] ELSE jobs

-----------------------------------------------------------------------------
(***************************************************************************)
(* The reconciler: CreateFromOperator, run by its only worker.  A          *)
(* benchmark that is already subscribed is left alone.                     *)
(***************************************************************************)
CreateFromOperator(b) ==
    /\ scan.pc = "idle"
    /\ b \notin subscribers
    /\ scan' = [IdleScan EXCEPT !.pc = "first", !.b = b, !.done = results,
                                !.opts = Range(JobsOf[b])]
    /\ UNCHANGED <<cluster, tracker, maps, queues, worker, panicked, crashes>>

ScanNext == JobsOf[scan.b][scan.i]

\* pc is "first" while isNew is FALSE, "rest" once it is TRUE.
Scanning(pcs) == scan.pc \in pcs /\ scan.i <= Len(JobsOf[scan.b])

\* A job of a later label, when the benchmark runs its labels in parallel.
CreateEager ==
    /\ Scanning({"first", "rest"}) /\ ScanNext \in Eager
    /\ \E isNew \in BOOLEAN : CreateIfNotExists(ScanNext, scan.done, isNew)
    /\ scan' = [scan EXCEPT !.i = @ + 1]
    /\ UNCHANGED <<results, tracker, maps, queues, worker, panicked, crashes>>

\* A job that takes its turn, while no job has counted as new.
CreateFirst ==
    /\ Scanning({"first"}) /\ ScanNext \notin Eager
    /\ \E isNew \in BOOLEAN :
         /\ CreateIfNotExists(ScanNext, scan.done, isNew)
         /\ scan' = [scan EXCEPT !.i = @ + 1,
                                 !.pc = IF isNew THEN "rest" ELSE "first"]
    /\ UNCHANGED <<results, tracker, maps, queues, worker, panicked, crashes>>

\* Seeded fault: only the last waiting job is kept.
LeaveLastWaiting ==
    /\ Scanning({"rest"}) /\ ScanNext \notin Eager
    /\ scan' = [scan EXCEPT !.i = @ + 1, !.waitingJob = <<ScanNext>>]
    /\ UNCHANGED <<cluster, tracker, maps, queues, worker, panicked, crashes>>

\* A job that takes its turn, once some job has: it waits if it is not found.
LeaveWaiting ==
    /\ Scanning({"rest"}) /\ ScanNext \notin Eager
    /\ \E found \in Lookup(ScanNext) :
         scan' = [scan EXCEPT
                    !.i = @ + 1,
                    !.waitingJob = IF found = "absent"
                                   THEN Append(@, ScanNext) ELSE @]
    /\ UNCHANGED <<cluster, tracker, maps, queues, worker, panicked, crashes>>

\* NewTracker: the first subscriber makes the tracker, starts its informer
\* and its worker.
NewTracker ==
    /\ scan.pc \in {"first", "rest"} /\ scan.i > Len(JobsOf[scan.b])
    /\ tracker' = IF tracker = "none" THEN "starting" ELSE tracker
    /\ scan' = [scan EXCEPT !.pc = "waiting"]
    /\ UNCHANGED <<cluster, maps, queues, worker, panicked, crashes>>

(***************************************************************************)
(* Subscribe fills the maps one after the other, and JobOptMap entry by    *)
(* entry in the random order of a Go map, with no lock against the worker. *)
(* Nothing is stored for a benchmark that has no waiting job.              *)
(***************************************************************************)
SubscribeWaiting ==
    /\ scan.pc = "waiting"
    /\ subscribers' = subscribers \cup {scan.b}
    /\ IF scan.waitingJob = <<>>
         THEN /\ scan' = IdleScan
              /\ UNCHANGED <<waitingJobMap, waitingKeys>>
         ELSE /\ waitingJobMap' = [waitingJobMap EXCEPT
                                     ![scan.b] = scan.waitingJob]
              /\ waitingKeys' = waitingKeys \cup {scan.b}
              /\ scan' = [scan EXCEPT !.pc = "dr"]
    /\ UNCHANGED <<cluster, tracker, drMap, jobOptMap, queues, worker,
                   panicked, crashes>>

\* Seeded fault: the dynamic interface is not stored.
SubscribeNoDR ==
    /\ scan.pc = "dr"
    /\ scan' = [scan EXCEPT !.pc = "opt"]
    /\ UNCHANGED <<cluster, tracker, maps, queues, worker, panicked, crashes>>

SubscribeDR ==
    /\ scan.pc = "dr"
    /\ drMap' = drMap \cup {scan.b}
    /\ scan' = [scan EXCEPT !.pc = "opt"]
    /\ UNCHANGED <<cluster, tracker, subscribers, waitingJobMap, waitingKeys,
                   jobOptMap, queues, worker, panicked, crashes>>

SubscribeOpt ==
    /\ scan.pc = "opt"
    /\ \E j \in scan.opts :
         /\ jobOptMap' = jobOptMap \cup {j}
         /\ scan' = IF scan.opts = {j} THEN IdleScan
                    ELSE [scan EXCEPT !.opts = @ \ {j}]
    /\ UNCHANGED <<cluster, tracker, subscribers, waitingJobMap, waitingKeys,
                   drMap, queues, worker, panicked, crashes>>

-----------------------------------------------------------------------------
(***************************************************************************)
(* The cluster and the informer.                                           *)
(***************************************************************************)

\* The benchmark's subscription is complete and the informer watches.
Tracked(b) == tracker = "synced" /\ b \in subscribers /\ scan.b # b

\* A job completes.  The informer calls UpdateFunc for a job it saw before
\* that was not complete; what completed before its first list is never
\* reported, since there is no AddFunc.
JobCompletes(j) ==
    /\ jobs[j] = "active"
    /\ "fast" \in Faults \/ Tracked(BenchmarkOf(j))
    /\ jobs' = [jobs EXCEPT ![j] = "complete"]
    /\ pending' = IF tracker = "synced" THEN Append(pending, j) ELSE pending
    /\ early' = IF tracker = "synced" /\ ~Tracked(BenchmarkOf(j))
                THEN early \cup {BenchmarkOf(j)} ELSE early
    /\ UNCHANGED <<results, scan, tracker, maps, jobQueue, worker, panicked,
                   crashes>>

\* A job fails for good: CheckComplete never turns true.
JobFails(j) ==
    /\ "jobfail" \in Faults
    /\ jobs[j] = "active"
    /\ jobs' = [jobs EXCEPT ![j] = "failed"]
    /\ UNCHANGED <<results, scan, tracker, maps, queues, worker, panicked,
                   crashes>>

\* A completed job whose completion is not on its way to the worker goes.
JobCleanedUp(j) ==
    /\ "cleanup" \in Faults \/ ("expire" \in Faults /\ j \in results)
    /\ jobs[j] = "complete"
    /\ j \notin Range(pending) \cup Range(jobQueue) \cup {worker.job}
    /\ jobs' = [jobs EXCEPT ![j] = "absent"]
    /\ UNCHANGED <<results, scan, tracker, maps, queues, worker, panicked,
                   crashes>>

InformerSync ==
    /\ tracker = "starting"
    /\ tracker' = "synced"
    /\ UNCHANGED <<cluster, scan, maps, queues, worker, panicked, crashes>>

\* Seeded fault: the queue is not bounded.
UpdateFuncUnbounded ==
    /\ pending # <<>>
    /\ jobQueue' = Append(jobQueue, Head(pending))
    /\ pending' = Tail(pending)
    /\ UNCHANGED <<cluster, scan, tracker, maps, early, worker, panicked,
                   crashes>>

\* Seeded fault: a completion is dropped while the queue is full.
UpdateFuncDropping ==
    /\ pending # <<>>
    /\ jobQueue' = IF Len(jobQueue) < QSize
                   THEN Append(jobQueue, Head(pending)) ELSE jobQueue
    /\ pending' = Tail(pending)
    /\ UNCHANGED <<cluster, scan, tracker, maps, early, worker, panicked,
                   crashes>>

\* UpdateFunc: the send blocks while JobQueue is full.
UpdateFunc ==
    /\ pending # <<>>
    /\ Len(jobQueue) < QSize
    /\ jobQueue' = Append(jobQueue, Head(pending))
    /\ pending' = Tail(pending)
    /\ UNCHANGED <<cluster, scan, tracker, maps, early, worker, panicked,
                   crashes>>

-----------------------------------------------------------------------------
(***************************************************************************)
(* The tracker's worker: ProcessJobQueue, over and over.                   *)
(***************************************************************************)
WorkerTake ==
    /\ worker.pc = "idle"
    /\ jobQueue # <<>>
    /\ worker' = [IdleWorker EXCEPT !.pc = "process", !.job = Head(jobQueue)]
    /\ jobQueue' = Tail(jobQueue)
    /\ UNCHANGED <<cluster, scan, tracker, maps, pending, early, panicked,
                   crashes>>

\* Seeded fault: the worker returns once the result is recorded.
WorkerCollectOnly ==
    /\ worker.pc = "process"
    /\ results' = results \cup {worker.job}
    /\ worker' = IdleWorker
    /\ UNCHANGED <<jobs, scan, tracker, maps, queues, panicked, crashes>>

\* The log of a succeeded pod is stored and parsed and its result recorded,
\* unless parsing fails or the status update conflicts.
WorkerCollect ==
    /\ worker.pc = "process"
    /\ \/ results' = results \cup {worker.job}
       \/ "noresult" \in Faults /\ UNCHANGED results
    /\ worker' = [worker EXCEPT !.pc = "deploy"]
    /\ UNCHANGED <<jobs, scan, tracker, maps, queues, panicked, crashes>>

\* No pod has succeeded: not valid, nothing is recorded or deployed.
WorkerSkip ==
    /\ "nopods" \in Faults
    /\ worker.pc = "process"
    /\ worker' = IdleWorker
    /\ UNCHANGED <<cluster, scan, tracker, maps, queues, panicked, crashes>>

\* deployWaitingResource reads DRMap before everything else.
WorkerReadDR ==
    /\ worker.pc = "deploy"
    /\ worker' = [worker EXCEPT !.pc = "pop",
                       !.dr = IF BenchmarkOf(worker.job) \in drMap
                              THEN "ok" ELSE "nil"]
    /\ UNCHANGED <<cluster, scan, tracker, maps, queues, panicked, crashes>>

\* Seeded fault: the last job of the list is taken.
WorkerPopLast ==
    LET b    == BenchmarkOf(worker.job)
        list == waitingJobMap[b]
    IN
    /\ worker.pc = "pop"
    /\ IF list = <<>> THEN worker' = IdleWorker /\ UNCHANGED waitingJobMap
       ELSE /\ worker' = [worker EXCEPT !.pc = "create",
                                        !.next = list[Len(list)]]
            /\ waitingJobMap' = [waitingJobMap EXCEPT
                                   ![b] = SubSeq(@, 1, Len(@) - 1)]
    /\ UNCHANGED <<cluster, scan, tracker, subscribers, waitingKeys, drMap,
                   jobOptMap, queues, panicked, crashes>>

\* The finished job is dropped from JobOptMap and the next waiting job is
\* taken off its list, if the maps know them.
WorkerPop ==
    LET b    == BenchmarkOf(worker.job)
        opts == jobOptMap \ {worker.job}
    IN
    /\ worker.pc = "pop"
    /\ jobOptMap' = opts
    /\ \/ /\ worker.job \notin jobOptMap
          /\ worker' = IdleWorker
          /\ UNCHANGED <<waitingJobMap, drMap, panicked>>
       \/ /\ worker.job \in jobOptMap /\ b \notin waitingKeys
          /\ drMap' = drMap \ {b}
          /\ worker' = IdleWorker
          /\ UNCHANGED <<waitingJobMap, panicked>>
       \/ /\ worker.job \in jobOptMap /\ b \in waitingKeys
          /\ waitingJobMap[b] # <<>>
          /\ waitingJobMap' = [waitingJobMap EXCEPT ![b] = Tail(@)]
          /\ worker' = IF Head(waitingJobMap[b]) \in opts
                       THEN [worker EXCEPT !.pc = "create",
                                           !.next = Head(waitingJobMap[b])]
                       ELSE IdleWorker
          /\ UNCHANGED <<drMap, panicked>>
       \/ /\ worker.job \in jobOptMap /\ b \in waitingKeys
          /\ waitingJobMap[b] = <<>>       \* index out of range
          /\ panicked' = TRUE
          /\ UNCHANGED <<waitingJobMap, drMap, worker>>
    /\ UNCHANGED <<cluster, scan, tracker, subscribers, waitingKeys, queues,
                   crashes>>

\* The popped job is created; its failure is only logged.  An empty list is
\* deleted, with the benchmark's DRMap entry.
WorkerCreate ==
    LET b     == BenchmarkOf(worker.job)
        empty == IF waitingJobMap[b] = <<>> THEN {b} ELSE {}
    IN
    /\ worker.pc = "create"
    /\ worker.dr = "ok" \/ worker.next \in results
    /\ \E isNew \in BOOLEAN : CreateIfNotExists(worker.next, results, isNew)
    /\ waitingKeys' = waitingKeys \ empty
    /\ drMap' = drMap \ empty
    /\ worker' = IdleWorker
    /\ UNCHANGED <<results, scan, tracker, subscribers, waitingJobMap,
                   jobOptMap, queues, panicked, crashes>>

\* The dynamic interface read before Subscribe stored one is nil.
WorkerCreateNil ==
    /\ worker.pc = "create"
    /\ worker.dr = "nil" /\ worker.next \notin results
    /\ panicked' = TRUE
    /\ UNCHANGED <<cluster, scan, tracker, maps, queues, worker, crashes>>

-----------------------------------------------------------------------------
\* The operator restarts and loses everything it holds in memory.
Crash ==
    /\ "crash" \in Faults
    /\ crashes < MaxCrashes
    /\ crashes' = crashes + 1
    /\ scan' = IdleScan
    /\ tracker' = "none"
    /\ subscribers' = {}
    /\ waitingJobMap' = [b \in Benchmarks |-> <<>>]
    /\ waitingKeys' = {}
    /\ drMap' = {}
    /\ jobOptMap' = {}
    /\ pending' = <<>>
    /\ jobQueue' = <<>>
    /\ worker' = IdleWorker
    /\ UNCHANGED <<cluster, early, panicked>>

Reconciler ==
    \/ \E b \in Benchmarks : CreateFromOperator(b)
    \/ CreateEager \/ CreateFirst \/ LeaveWaiting
    \/ NewTracker \/ SubscribeWaiting \/ SubscribeDR \/ SubscribeOpt

Cluster == \E j \in Jobs : JobCompletes(j) \/ JobFails(j) \/ JobCleanedUp(j)

Informer == InformerSync \/ UpdateFunc

Worker == \/ WorkerTake \/ WorkerCollect \/ WorkerSkip \/ WorkerReadDR
          \/ WorkerPop \/ WorkerCreate \/ WorkerCreateNil

Next == ~panicked /\ (Reconciler \/ Cluster \/ Informer \/ Worker \/ Crash)

Spec == Init /\ [][Next]_vars

(***************************************************************************)
(* The reconciler, the informer and the worker are goroutines that the Go  *)
(* runtime schedules; a job that runs ends some time.                      *)
(***************************************************************************)
Fairness ==
    /\ WF_vars(~panicked /\ Reconciler)
    /\ WF_vars(~panicked /\ Informer)
    /\ WF_vars(~panicked /\ Worker)
    /\ \A j \in Jobs : WF_vars(~panicked /\ JobCompletes(j))

FairSpec == Spec /\ Fairness
-----------------------------------------------------------------------------
(***************************************************************************)
(* Properties.                                                             *)
(***************************************************************************)

\* A completion of b came early in an operator that has restarted: the scan
\* may have passed the job as complete, or read the results before it, and the
\* worker of another benchmark's tracker handles it as well.
Overtaken(b) == b \in early /\ crashes > 0

\* A sequential benchmark has at most one running job, although its jobs are
\* created from two goroutines, by the scan and by the worker, and whatever
\* completions of other benchmarks come early; without a restart, its own too.
SequentialExclusion ==
    \A b \in Benchmarks : Sequential(b) /\ ~Overtaken(b) =>
        \A j, k \in Range(JobsOf[b]) :
            jobs[j] = "active" /\ jobs[k] = "active" => j = k

\* A job that waits, or that the worker has just taken off its list, does
\* not exist: deploying it creates it, so no turn of the chain is spent on a
\* job that exists and will hand its turn on a second time.
WaitingJobsAbsent ==
    /\ \A b \in Benchmarks : \A j \in Range(waitingJobMap[b]) :
         jobs[j] = "absent"
    /\ worker.pc = "create" => jobs[worker.next] = "absent"

\* Jobs of b whose completion is on its way to deployWaitingResource.
Completing(b) ==
    {j \in Range(JobsOf[b]) :
        \/ j \in Range(pending) \cup Range(jobQueue)
        \/ worker.pc # "idle" /\ j = worker.job}

Running(b) == {j \in Range(JobsOf[b]) : jobs[j] = "active"}

\* As long as jobs of a tracked benchmark wait, some job of it is running or
\* has its completion on the way: only a completion deploys a waiting job, so
\* otherwise the rest of the benchmark would never run.
ChainAlive ==
    \A b \in Benchmarks :
        Tracked(b) /\ waitingJobMap[b] # <<>> =>
            Running(b) \cup Completing(b) # {}

\* The scan, Subscribe and the worker lose no job between them: a job of a
\* tracked benchmark that has never run waits or is about to be created, once.
NoJobForgotten ==
    \A b \in Benchmarks : Tracked(b) =>
        \A j \in Range(JobsOf[b]) : jobs[j] = "absent" /\ j \notin results =>
            \/ \E i \in 1..Len(waitingJobMap[b]) : waitingJobMap[b][i] = j
            \/ worker.pc = "create" /\ worker.next = j

\* Whatever waits does not exist, and whatever does not exist waits, once.
WaitingIsAbsent == WaitingJobsAbsent /\ NoJobForgotten

\* The unlocked maps shared by reconciler and worker lead the worker to an
\* empty list under a live key, or to a nil dynamic interface, only for a
\* benchmark of which a completion came early, before or between the stores of
\* Subscribe; what other benchmarks of the kind did does not matter.
NoPanic == panicked => BenchmarkOf(worker.job) \in early

\* A job whose result is recorded is not created again, whatever restarts and
\* clean-ups happen: its second run would be pushed as another measurement.
RecordedJobsStay ==
    [][\A j \in results : jobs[j] = "absent" /\ ~Overtaken(BenchmarkOf(j))
                              => jobs'[j] = "absent"]_vars

\* Every job of every benchmark runs and its result is recorded.
AllResultsRecorded == \A j \in Jobs : <>(j \in results)

\* Every combination gets a job.
EveryJobCreated == \A j \in Jobs : <>(jobs[j] # "absent")

\* The pipeline seen as runs of jobs.  A job that was cleaned up after its
\* result was recorded has finished.
RunOf(j) == CASE jobs[j] = "active" -> "running"
              [] jobs[j] \in {"complete", "failed"} \/ j \in results ->
                   "finished"
              [] OTHER -> "pending"

Runs == INSTANCE BenchmarkRuns WITH phase <- [j \in Jobs |-> RunOf(j)]

\* The detailed pipeline does what BenchmarkRuns promises.
ImplementsRuns == Runs!FairSpec
=============================================================================
