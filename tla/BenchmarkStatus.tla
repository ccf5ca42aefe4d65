--------------------------- MODULE BenchmarkStatus ---------------------------
(***************************************************************************)
(* The status of one benchmark and its three writers: the reconciler's     *)
(* scan lists the hash of every job it creates (patchBenchmarkStatus), the *)
(* tracker's worker records results (updateBenchmarkStatus), the build     *)
(* watcher records builds (ProcessBuildQueue).  Each reads the status from *)
(* the manager's cache, works on its copy, and replaces the whole status.  *)
(* The API server refuses a copy that is not of the current resource       *)
(* version; no writer tries again.  The jobs run in parallel, and their     *)
(* creation succeeds: JobPipeline has the other cases.                      *)
(***************************************************************************)
EXTENDS Integers, SequencesExt

CONSTANTS
    Labels,       \* the benchmark's combinations, in the order of the scan
    Builds,       \* builds of its build configurations that complete
    InitBuild,    \* INIT_BUILD_NAME
    Shared,       \* whether another benchmark keeps the tracker's informer
    MaxRestarts,  \* bound on the operator's restarts
    None

\* A job is one combination of one build; it runs once.
Jobs == Range(Labels) \X (Builds \cup {InitBuild})

ASSUME StatusAssumption ==
    /\ Labels \in Seq(Range(Labels)) /\ Labels # <<>> /\ IsInjective(Labels)
    /\ IsFiniteSet(Builds)
    /\ None \notin Builds /\ None \notin Jobs
    /\ InitBuild \notin Builds
    /\ Shared \in BOOLEAN
    /\ MaxRestarts \in Nat

VARIABLES
    api,         \* the benchmark in the API server: see Statuses
    cache,       \* the copy of it in the manager's cache
    jobs,        \* [Jobs -> "absent", "active", "complete" or "collected"]
    builds,      \* builds whose completion has not been handled
    tracked,     \* IsExist: the benchmark has subscribed
    scan,        \* the reconciler's scan: its copy, its builds, where it is
    jobQueue,    \* completed jobs to be collected
    worker,      \* the tracker's worker: its copy, and its job or None
    watcher,     \* the build watcher: its copy, and its build or None
    restarts

processes == <<tracked, scan, jobQueue, worker, watcher>>
vars == <<api, cache, jobs, builds, processes, restarts>>

\* A result is filed under its job's own scenario, configuration and build, or
\* under the empty ones of a job that the hash list does not have.
Statuses ==
    [version : Nat, hash : Seq(Jobs), results : [Jobs -> {"none", "own", "empty"}],
     trackedBuilds : Seq(Builds), jobCompleted : Nat \X Nat]

Scans    == [pc : {"idle", "busy"}, copy : Statuses,
             builds : Seq(Builds \cup {InitBuild}), b : Nat \ {0},
             l : DOMAIN Labels]
Workers  == [job : Jobs \cup {None}, copy : Statuses]
Watchers == [build : Builds \cup {None}, copy : Statuses]

TypeOK ==
    /\ api \in Statuses /\ cache \in Statuses
    /\ jobs \in [Jobs -> {"absent", "active", "complete", "collected"}]
    /\ builds \subseteq Builds
    /\ tracked \in BOOLEAN
    /\ scan \in Scans /\ scan.b <= Len(scan.builds) + 1
    /\ worker \in Workers /\ watcher \in Watchers
    /\ jobQueue \in Seq(Jobs) /\ IsInjective(jobQueue)
    /\ restarts \in 0..MaxRestarts

Empty == [version |-> 0, hash |-> <<>>, results |-> [j \in Jobs |-> "none"],
          trackedBuilds |-> <<>>, jobCompleted |-> <<0, 0>>]

IdleScan    == [pc |-> "idle", copy |-> Empty, builds |-> <<>>, b |-> 1, l |-> 1]
IdleWorker  == [job |-> None, copy |-> Empty]
IdleWatcher == [build |-> None, copy |-> Empty]

Init ==
    /\ api = Empty /\ cache = Empty
    /\ jobs = [j \in Jobs |-> "absent"]
    /\ builds = Builds
    /\ tracked = FALSE /\ scan = IdleScan
    /\ jobQueue = <<>> /\ worker = IdleWorker /\ watcher = IdleWatcher
    /\ restarts = 0

-----------------------------------------------------------------------------
\* The number of results over the number of hashes.
GetJobCompletedStatus(status) ==
    <<Cardinality({j \in Jobs : status.results[j] # "none"}),
      Len(status.hash)>>

\* Seeded fault: the resource version is not sent, so every copy is accepted.
AcceptsAny(copy) == copy.version <= api.version

\* The API server's optimistic concurrency.
Accepts(copy) == copy.version = api.version

\* What is stored, and what the writer's copy becomes, when it is submitted:
\* the server's answer if it is accepted, unchanged if it is refused.
Submitted(copy) ==
    IF Accepts(copy) THEN [copy EXCEPT !.version = api.version + 1] ELSE copy
Update(copy) == api' = IF Accepts(copy) THEN Submitted(copy) ELSE api

-----------------------------------------------------------------------------
(***************************************************************************)
(* The reconciler.                                                         *)
(***************************************************************************)

\* The builds of GetIteratedValues.
BuildsOf(status) ==
    IF status.trackedBuilds = <<>> THEN <<InitBuild>> ELSE status.trackedBuilds

\* A benchmark that is tracked is left alone, whatever has changed in it.
ScanStart ==
    /\ scan.pc = "idle" /\ ~tracked
    /\ scan' = [pc |-> "busy", copy |-> cache, builds |-> BuildsOf(cache),
                b |-> 1, l |-> 1]
    /\ UNCHANGED <<api, cache, jobs, builds, tracked, jobQueue, worker,
                   watcher, restarts>>

\* Seeded fault: the number of jobs is that of before the new one.
patchCountsFirst(copy, j) ==
    IF j \in Range(copy.hash) THEN copy
    ELSE [copy EXCEPT !.hash = Append(@, j),
                      !.jobCompleted = GetJobCompletedStatus(copy)]

\* The scan's copy once the hash of j is on it.
patchBenchmarkStatus(copy, j) ==
    IF j \in Range(copy.hash) THEN copy
    ELSE LET new == [copy EXCEPT !.hash = Append(@, j)]
         IN  [new EXCEPT !.jobCompleted = GetJobCompletedStatus(new)]

\* The next job's hash is listed, and the job created unless its result is
\* recorded or it exists.
ScanJob ==
    LET j    == <<Labels[scan.l], scan.builds[scan.b]>>
        new  == patchBenchmarkStatus(scan.copy, j)
        last == scan.l = Len(Labels)
        listed == j \in Range(scan.copy.hash)
    IN
    /\ scan.pc = "busy" /\ scan.b <= Len(scan.builds)
    /\ scan' = [scan EXCEPT !.copy = IF listed THEN @ ELSE Submitted(new),
                            !.b = IF last THEN @ + 1 ELSE @,
                            !.l = IF last THEN 1 ELSE @ + 1]
    /\ IF listed THEN UNCHANGED api ELSE Update(new)
    /\ jobs' = IF scan.copy.results[j] = "none" /\ jobs[j] = "absent"
               THEN [jobs EXCEPT ![j] = "active"] ELSE jobs
    /\ UNCHANGED <<cache, builds, tracked, jobQueue, worker, watcher, restarts>>

NewTracker ==
    /\ scan.pc = "busy" /\ scan.b > Len(scan.builds)
    /\ tracked' = TRUE
    /\ scan' = [scan EXCEPT !.pc = "idle"]
    /\ UNCHANGED <<api, cache, jobs, builds, jobQueue, worker, watcher,
                   restarts>>

-----------------------------------------------------------------------------
(***************************************************************************)
(* The cluster, the informer and the worker.                               *)
(***************************************************************************)

\* Seeded fault: an update of a job that was complete before is queued again.
QueueEveryUpdate(j) ==
    /\ jobs[j] \in {"active", "complete"} /\ tracked
    /\ jobs' = [jobs EXCEPT ![j] = "complete"]
    /\ jobQueue' = Append(jobQueue, j)
    /\ UNCHANGED <<api, cache, builds, tracked, scan, worker, watcher,
                   restarts>>

\* A job completes, and UpdateFunc queues it if the tracker's informer runs:
\* once the benchmark has subscribed, before that if another one had.
JobCompletes(j) ==
    /\ jobs[j] = "active"
    /\ jobs' = [jobs EXCEPT ![j] = "complete"]
    /\ \/ (tracked \/ Shared) /\ jobQueue' = Append(jobQueue, j)
       \/ ~tracked /\ UNCHANGED jobQueue
    /\ UNCHANGED <<api, cache, builds, tracked, scan, worker, watcher,
                   restarts>>

WorkerTake ==
    /\ worker.job = None /\ jobQueue # <<>>
    /\ worker' = [job |-> Head(jobQueue), copy |-> cache]
    /\ jobQueue' = Tail(jobQueue)
    /\ UNCHANGED <<api, cache, jobs, builds, tracked, scan, watcher, restarts>>

\* Seeded fault: the scenario is read from the job's labels.
FileByLabels(copy, j) == "own"

\* GetDetailFromJobName finds scenario, configuration and build of a job by
\* its hash.
GetDetailFromJobName(copy, j) ==
    IF j \in Range(copy.hash) THEN "own" ELSE "empty"

\* The logs are parsed, the result is recorded, the pods are deleted.
updateBenchmarkStatus ==
    LET j   == worker.job
        new == [worker.copy EXCEPT
                  !.results[j] = GetDetailFromJobName(worker.copy, j)]
    IN
    /\ worker.job # None
    /\ Update([new EXCEPT !.jobCompleted = GetJobCompletedStatus(new)])
    /\ worker' = IdleWorker
    /\ jobs' = [jobs EXCEPT ![j] = "collected"]
    /\ UNCHANGED <<cache, builds, tracked, scan, jobQueue, watcher, restarts>>

-----------------------------------------------------------------------------
(***************************************************************************)
(* The build watcher.                                                      *)
(***************************************************************************)
BuildTake(b) ==
    /\ watcher.build = None /\ b \in builds
    /\ watcher' = [build |-> b, copy |-> cache]
    /\ builds' = builds \ {b}
    /\ UNCHANGED <<api, cache, jobs, tracked, scan, jobQueue, worker, restarts>>

ProcessBuildQueue ==
    /\ watcher.build # None
    /\ Update([watcher.copy EXCEPT
                 !.trackedBuilds = Append(@, watcher.build)])
    /\ watcher' = IdleWatcher
    /\ UNCHANGED <<cache, jobs, builds, tracked, scan, jobQueue, worker,
                   restarts>>

-----------------------------------------------------------------------------
\* The watch behind the cache brings it up to date.
CacheSync ==
    /\ cache # api
    /\ cache' = api
    /\ UNCHANGED <<api, jobs, builds, processes, restarts>>

\* A new process lists the benchmarks before it does anything.
Restart ==
    /\ restarts < MaxRestarts
    /\ restarts' = restarts + 1
    /\ cache' = api
    /\ tracked' = FALSE /\ scan' = IdleScan
    /\ jobQueue' = <<>> /\ worker' = IdleWorker /\ watcher' = IdleWatcher
    /\ UNCHANGED <<api, jobs, builds>>

Next == \/ ScanStart \/ ScanJob \/ NewTracker
        \/ \E j \in Jobs : JobCompletes(j)
        \/ WorkerTake \/ updateBenchmarkStatus
        \/ \E b \in Builds : BuildTake(b)
        \/ ProcessBuildQueue
        \/ CacheSync \/ Restart

Spec == Init /\ [][Next]_vars

-----------------------------------------------------------------------------
(***************************************************************************)
(* Properties.                                                             *)
(***************************************************************************)

\* What the status has listed stays in it: no writer replaces a status that
\* has a hash, a result or a build its own copy does not have.
NothingForgotten ==
    [][/\ IsPrefix(api.hash, api'.hash)
       /\ IsPrefix(api.trackedBuilds, api'.trackedBuilds)
       /\ \A j \in Jobs : api.results[j] # "none" =>
                              api'.results[j] = api.results[j]]_vars

\* A result shown under a scenario belongs to a job whose hash is listed.
FiledIsListed ==
    \A j \in Jobs : api.results[j] = "own" => j \in Range(api.hash)

\* The count shown agrees with the results and the hashes shown next to it.
CompletedAgrees == api.jobCompleted = GetJobCompletedStatus(api)

\* The result of every job that was collected, and whose pods are gone, is in
\* the status.
CollectedIsRecorded ==
    \A j \in Jobs : jobs[j] = "collected" => api.results[j] # "none"
=============================================================================
