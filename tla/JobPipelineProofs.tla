------------------------- MODULE JobPipelineProofs -------------------------
(***************************************************************************)
(* Theorems about JobPipeline, for any number of benchmarks and jobs, any  *)
(* queue size and any number of restarts.                                  *)
(***************************************************************************)
EXTENDS JobPipeline, TLAPS

-----------------------------------------------------------------------------
(***************************************************************************)
(* Facts about sequences and about the owner of a job.                     *)
(***************************************************************************)

\* What is left of a queue once its head is taken.
LEMMA TailFacts ==
    ASSUME NEW S, NEW s \in Seq(S), s # <<>>
    PROVE  /\ Head(s) \in S /\ Head(s) = s[1]
           /\ Tail(s) \in Seq(S) /\ Len(Tail(s)) = Len(s) - 1
           /\ Len(s) \in Nat \ {0}
           /\ \A i \in 1..Len(Tail(s)) : i + 1 \in 1..Len(s)
                                         /\ Tail(s)[i] = s[i + 1]
  OBVIOUS

\* What a queue becomes once an element is sent to it.
LEMMA AppendFacts ==
    ASSUME NEW S, NEW s \in Seq(S), NEW e \in S
    PROVE  /\ Append(s, e) \in Seq(S)
           /\ Len(s) \in Nat /\ Len(Append(s, e)) = Len(s) + 1
           /\ Append(s, e)[Len(s) + 1] = e
           /\ \A i \in 1..Len(s) : Append(s, e)[i] = s[i]
  OBVIOUS

\* The jobs of a benchmark are jobs.
LEMMA JobsOfType ==
    ASSUME NEW b \in Benchmarks
    PROVE  /\ JobsOf[b] \in Seq(Jobs) /\ Len(JobsOf[b]) \in Nat
           /\ Range(JobsOf[b]) \subseteq Jobs
           /\ \A i \in 1..Len(JobsOf[b]) :
                JobsOf[b][i] \in Jobs /\ JobsOf[b][i] \in Range(JobsOf[b])
  BY JobsAssumption DEF Range

\* Every job has an owner.
LEMMA BenchmarkOfType ==
    ASSUME NEW j \in Jobs
    PROVE  BenchmarkOf(j) \in Benchmarks /\ j \in Range(JobsOf[BenchmarkOf(j)])
  BY JobsAssumption DEF BenchmarkOf

\* A job of b is owned by b and by no other benchmark.
LEMMA BenchmarkOfUnique ==
    ASSUME NEW b \in Benchmarks, NEW j \in Range(JobsOf[b])
    PROVE  j \in Jobs /\ BenchmarkOf(j) = b
<1>1. j \in Jobs
  BY JobsOfType
<1>2. BenchmarkOf(j) \in Benchmarks /\ j \in Range(JobsOf[BenchmarkOf(j)])
  BY <1>1, BenchmarkOfType
<1>3. PICK i \in 1..Len(JobsOf[b]) : j = JobsOf[b][i]
  BY JobsOfType DEF Range
<1>4. PICK k \in 1..Len(JobsOf[BenchmarkOf(j)]) :
        j = JobsOf[BenchmarkOf(j)][k]
  BY <1>2, JobsOfType DEF Range
<1> QED
  BY <1>1, <1>2, <1>3, <1>4, JobsAssumption

-----------------------------------------------------------------------------
(***************************************************************************)
(* Type correctness.                                                       *)
(***************************************************************************)
LEMMA InitTypeOK == Init => TypeOK
<1> SUFFICES ASSUME Init PROVE TypeOK
  OBVIOUS
<1>1. ClusterOK /\ MapsOK /\ QueuesOK
  BY BoundsAssumption DEF Init, ClusterOK, MapsOK, QueuesOK, JobStates
<1>2. ScanOK /\ WorkerOK
  BY DEF Init, ScanOK, WorkerOK, IdleScan, IdleWorker
<1>3. tracker \in {"none", "starting", "synced"} /\ panicked \in BOOLEAN
  BY DEF Init
<1>4. crashes \in 0..MaxCrashes
  BY BoundsAssumption DEF Init
<1> QED
  BY <1>1, <1>2, <1>3, <1>4 DEF TypeOK

\* CreateIfNotExists only ever turns an absent job into an active one.
LEMMA CreateFacts ==
    ASSUME NEW j \in Jobs, NEW done, NEW isNew,
           CreateIfNotExists(j, done, isNew)
    PROVE  \/ jobs' = jobs
           \/ /\ jobs[j] = "absent" /\ j \notin done /\ isNew = TRUE
              /\ jobs' = [jobs EXCEPT ![j] = "active"]
  BY DEF CreateIfNotExists, CreateOutcomes

\* The job a scan looks at is one of the benchmark's.
LEMMA ScanNextFacts ==
    ASSUME ScanOK, NEW pcs, Scanning(pcs), "idle" \notin pcs
    PROVE  /\ scan.b \in Benchmarks
           /\ scan.i \in 1..Len(JobsOf[scan.b])
           /\ ScanNext = JobsOf[scan.b][scan.i]
           /\ ScanNext \in Range(JobsOf[scan.b]) /\ ScanNext \in Jobs
<1>1. scan.b \in Benchmarks /\ scan.i \in Nat
  BY DEF ScanOK, Scanning
<1>2. scan.i >= 1
  BY DEF ScanOK
<1> QED
  BY <1>1, <1>2, JobsOfType DEF Scanning, ScanNext

\* A group of variables that a step leaves alone keeps its type.
LEMMA Frames ==
    /\ ClusterOK /\ UNCHANGED <<jobs, results>> => ClusterOK'
    /\ ScanOK /\ UNCHANGED scan => ScanOK'
    /\ MapsOK /\ UNCHANGED <<subscribers, waitingJobMap, waitingKeys, drMap,
                             jobOptMap>> => MapsOK'
    /\ QueuesOK /\ UNCHANGED <<pending, jobQueue, early>> => QueuesOK'
    /\ WorkerOK /\ UNCHANGED worker => WorkerOK'
  BY DEF ClusterOK, ScanOK, MapsOK, QueuesOK, WorkerOK

\* A creation keeps the type of the cluster's jobs.
LEMMA CreateTypeOK ==
    ASSUME ClusterOK, NEW j \in Jobs, NEW done, NEW isNew,
           CreateIfNotExists(j, done, isNew)
    PROVE  jobs' \in [Jobs -> JobStates]
  BY CreateFacts DEF ClusterOK, JobStates

\* What the scan becomes, field by field.
LEMMA ScanRecord ==
    ASSUME NEW pc \in {"first", "rest", "waiting", "dr", "opt"},
           NEW b \in Benchmarks, NEW i \in Nat \ {0}, NEW w \in Seq(Jobs),
           NEW d, d \subseteq Jobs, NEW o, o \subseteq Jobs,
           scan' = [pc |-> pc, b |-> b, i |-> i, waitingJob |-> w,
                    done |-> d, opts |-> o]
    PROVE  ScanOK'
  BY DEF ScanOK

LEMMA ReconcilerTypeOK ==
    ASSUME TypeOK, Reconciler
    PROVE  TypeOK'
<1> USE DEF cluster, maps, queues
<1>1. ASSUME NEW b \in Benchmarks, CreateFromOperator(b) PROVE TypeOK'
  <2>1. ScanOK'
    <3>1. Range(JobsOf[b]) \subseteq Jobs /\ results \subseteq Jobs
      BY JobsOfType DEF TypeOK, ClusterOK
    <3>2. scan' = [pc |-> "first", b |-> b, i |-> 1, waitingJob |-> <<>>,
                   done |-> results, opts |-> Range(JobsOf[b])]
      BY <1>1 DEF CreateFromOperator, IdleScan
    <3>3. <<>> \in Seq(Jobs)
      OBVIOUS
    <3> QED
      BY <3>1, <3>2, <3>3 DEF ScanOK
  <2> QED
    BY <1>1, <2>1, Frames DEF CreateFromOperator, TypeOK
<1>2. ASSUME CreateEager PROVE TypeOK'
  <2>1. ScanNext \in Jobs
    BY <1>2, ScanNextFacts DEF CreateEager, TypeOK
  <2>2. PICK isNew \in BOOLEAN :
          CreateIfNotExists(ScanNext, scan.done, isNew)
    BY <1>2 DEF CreateEager
  <2>3. ClusterOK'
    BY <1>2, <2>1, <2>2, CreateTypeOK DEF CreateEager, TypeOK, ClusterOK
  <2>4. ScanOK'
    BY <1>2 DEF CreateEager, TypeOK, ScanOK
  <2> QED
    BY <1>2, <2>3, <2>4, Frames DEF CreateEager, TypeOK
<1>3. ASSUME CreateFirst PROVE TypeOK'
  <2>1. ScanNext \in Jobs /\ scan.b \in Benchmarks
    BY <1>3, ScanNextFacts DEF CreateFirst, TypeOK
  <2>2. PICK isNew \in BOOLEAN :
          /\ CreateIfNotExists(ScanNext, scan.done, isNew)
          /\ scan' = [scan EXCEPT !.i = @ + 1,
                                  !.pc = IF isNew THEN "rest" ELSE "first"]
    BY <1>3 DEF CreateFirst
  <2>3. ClusterOK'
    BY <1>3, <2>1, <2>2, CreateTypeOK DEF CreateFirst, TypeOK, ClusterOK
  <2>4. ScanOK'
    <3>1. \E pc \in {"rest", "first"} :
            scan' = [pc |-> pc, b |-> scan.b, i |-> scan.i + 1,
                     waitingJob |-> scan.waitingJob, done |-> scan.done,
                     opts |-> scan.opts]
      BY <2>2 DEF TypeOK, ScanOK
    <3>2. /\ scan.i + 1 \in Nat \ {0} /\ scan.waitingJob \in Seq(Jobs)
          /\ scan.done \subseteq Jobs /\ scan.opts \subseteq Jobs
      BY DEF TypeOK, ScanOK
    <3> QED
      BY <2>1, <3>1, <3>2, ScanRecord
  <2> QED
    BY <1>3, <2>3, <2>4, Frames DEF CreateFirst, TypeOK
<1>4. ASSUME LeaveWaiting PROVE TypeOK'
  <2>1. ScanNext \in Jobs /\ scan.b \in Benchmarks
    BY <1>4, ScanNextFacts DEF LeaveWaiting, TypeOK
  <2>2. /\ scan.waitingJob \in Seq(Jobs)
        /\ Append(scan.waitingJob, ScanNext) \in Seq(Jobs)
    BY <2>1, AppendFacts DEF TypeOK, ScanOK
  <2>3. \E w \in Seq(Jobs) :
          scan' = [scan EXCEPT !.i = @ + 1, !.waitingJob = w]
    BY <1>4, <2>2 DEF LeaveWaiting
  <2>4. \E w \in Seq(Jobs) :
          scan' = [pc |-> "rest", b |-> scan.b, i |-> scan.i + 1,
                   waitingJob |-> w, done |-> scan.done, opts |-> scan.opts]
    BY <1>4, <2>3 DEF LeaveWaiting, Scanning, TypeOK, ScanOK
  <2>5. /\ scan.i + 1 \in Nat \ {0}
        /\ scan.done \subseteq Jobs /\ scan.opts \subseteq Jobs
    BY DEF TypeOK, ScanOK
  <2>6. ScanOK'
    BY <2>1, <2>4, <2>5, ScanRecord
  <2> QED
    BY <1>4, <2>6, Frames DEF LeaveWaiting, TypeOK
<1>5. ASSUME NewTracker PROVE TypeOK'
  <2>1. ScanOK'
    BY <1>5 DEF NewTracker, TypeOK, ScanOK
  <2>2. tracker' \in {"none", "starting", "synced"}
    BY <1>5 DEF NewTracker, TypeOK
  <2> QED
    BY <1>5, <2>1, <2>2, Frames DEF NewTracker, TypeOK
<1>6. ASSUME SubscribeWaiting PROVE TypeOK'
  <2>1. scan.b \in Benchmarks /\ scan.waitingJob \in Seq(Jobs)
    BY <1>6 DEF SubscribeWaiting, TypeOK, ScanOK
  <2>2. MapsOK'
    BY <1>6, <2>1 DEF SubscribeWaiting, TypeOK, MapsOK
  <2>3. scan' \in {IdleScan, [scan EXCEPT !.pc = "dr"]}
    BY <1>6 DEF SubscribeWaiting
  <2>4. ScanOK'
    <3>1. CASE scan' = IdleScan
      BY <3>1 DEF ScanOK, IdleScan
    <3>2. CASE scan' = [scan EXCEPT !.pc = "dr"]
      BY <2>1, <3>2 DEF TypeOK, ScanOK
    <3> QED
      BY <2>3, <3>1, <3>2
  <2> QED
    BY <1>6, <2>2, <2>4, Frames DEF SubscribeWaiting, TypeOK
<1>7. ASSUME SubscribeDR PROVE TypeOK'
  <2>1. scan.b \in Benchmarks
    BY <1>7 DEF SubscribeDR, TypeOK, ScanOK
  <2>2. ScanOK'
    BY <1>7, <2>1 DEF SubscribeDR, TypeOK, ScanOK
  <2>3. MapsOK'
    BY <1>7, <2>1 DEF SubscribeDR, TypeOK, MapsOK
  <2> QED
    BY <1>7, <2>2, <2>3, Frames DEF SubscribeDR, TypeOK
<1>8. ASSUME SubscribeOpt PROVE TypeOK'
  <2>1. PICK j \in scan.opts :
          /\ jobOptMap' = jobOptMap \cup {j}
          /\ scan' \in {IdleScan, [scan EXCEPT !.opts = @ \ {j}]}
    BY <1>8 DEF SubscribeOpt
  <2>2. scan.opts \subseteq Jobs
    BY DEF TypeOK, ScanOK
  <2>3. ScanOK'
    <3>1. CASE scan' = IdleScan
      BY <3>1 DEF ScanOK, IdleScan
    <3>2. CASE scan' = [scan EXCEPT !.opts = @ \ {j}]
      BY <2>2, <3>2 DEF TypeOK, ScanOK
    <3> QED
      BY <2>1, <3>1, <3>2
  <2>4. MapsOK'
    BY <1>8, <2>1, <2>2 DEF SubscribeOpt, TypeOK, MapsOK
  <2> QED
    BY <1>8, <2>3, <2>4, Frames DEF SubscribeOpt, TypeOK
<1> QED
  BY <1>1, <1>2, <1>3, <1>4, <1>5, <1>6, <1>7, <1>8 DEF Reconciler

LEMMA ClusterTypeOK ==
    ASSUME TypeOK, Cluster \/ Informer \/ Crash
    PROVE  TypeOK'
<1> USE DEF cluster, maps, queues
<1>1. ASSUME NEW j \in Jobs, JobCompletes(j) PROVE TypeOK'
  <2>1. ClusterOK'
    BY <1>1 DEF JobCompletes, TypeOK, ClusterOK, JobStates
  <2>2. Append(pending, j) \in Seq(Jobs) /\ BenchmarkOf(j) \in Benchmarks
    BY AppendFacts, BenchmarkOfType DEF TypeOK, QueuesOK
  <2>3. QueuesOK'
    BY <1>1, <2>2 DEF JobCompletes, TypeOK, QueuesOK
  <2> QED
    BY <1>1, <2>1, <2>3, Frames DEF JobCompletes, TypeOK
<1>2. ASSUME NEW j \in Jobs, JobFails(j) \/ JobCleanedUp(j) PROVE TypeOK'
  <2>1. ClusterOK'
    BY <1>2 DEF JobFails, JobCleanedUp, TypeOK, ClusterOK, JobStates
  <2> QED
    BY <1>2, <2>1, Frames DEF JobFails, JobCleanedUp, TypeOK
<1>3. ASSUME InformerSync PROVE TypeOK'
  BY <1>3, Frames DEF InformerSync, TypeOK
<1>4. ASSUME UpdateFunc PROVE TypeOK'
  <2>1. /\ Head(pending) \in Jobs /\ Tail(pending) \in Seq(Jobs)
    BY <1>4, TailFacts DEF UpdateFunc, TypeOK, QueuesOK
  <2>2. /\ Append(jobQueue, Head(pending)) \in Seq(Jobs)
        /\ Len(Append(jobQueue, Head(pending))) = Len(jobQueue) + 1
        /\ Len(jobQueue) \in Nat
    BY <2>1, AppendFacts DEF TypeOK, QueuesOK
  <2>3. QueuesOK'
    BY <1>4, <2>1, <2>2, BoundsAssumption DEF UpdateFunc, TypeOK, QueuesOK
  <2> QED
    BY <1>4, <2>3, Frames DEF UpdateFunc, TypeOK
<1>5. ASSUME Crash PROVE TypeOK'
  <2>1. ScanOK' /\ WorkerOK'
    BY <1>5 DEF Crash, ScanOK, WorkerOK, IdleScan, IdleWorker
  <2>2. MapsOK' /\ QueuesOK'
    BY <1>5, BoundsAssumption DEF Crash, TypeOK, MapsOK, QueuesOK
  <2>3. crashes' \in 0..MaxCrashes
    BY <1>5, BoundsAssumption DEF Crash, TypeOK
  <2> QED
    BY <1>5, <2>1, <2>2, <2>3, Frames DEF Crash, TypeOK
<1> QED
  BY <1>1, <1>2, <1>3, <1>4, <1>5 DEF Cluster, Informer

LEMMA WorkerTypeOK ==
    ASSUME TypeOK, Worker
    PROVE  TypeOK'
<1> USE DEF cluster, maps, queues
<1>1. ASSUME WorkerTake PROVE TypeOK'
  <2>1. /\ Head(jobQueue) \in Jobs /\ Tail(jobQueue) \in Seq(Jobs)
        /\ Len(Tail(jobQueue)) = Len(jobQueue) - 1 /\ Len(jobQueue) \in Nat
    BY <1>1, TailFacts DEF WorkerTake, TypeOK, QueuesOK
  <2>2. QueuesOK'
    BY <1>1, <2>1, BoundsAssumption DEF WorkerTake, TypeOK, QueuesOK
  <2>3. WorkerOK'
    BY <1>1, <2>1 DEF WorkerTake, WorkerOK, IdleWorker
  <2> QED
    BY <1>1, <2>2, <2>3, Frames DEF WorkerTake, TypeOK
<1>2. ASSUME WorkerCollect PROVE TypeOK'
  <2>1. worker.job \in Jobs
    BY <1>2 DEF WorkerCollect, TypeOK, WorkerOK
  <2>2. ClusterOK'
    BY <1>2, <2>1 DEF WorkerCollect, TypeOK, ClusterOK
  <2>3. WorkerOK'
    BY <1>2, <2>1 DEF WorkerCollect, TypeOK, WorkerOK
  <2> QED
    BY <1>2, <2>2, <2>3, Frames DEF WorkerCollect, TypeOK
<1>3. ASSUME WorkerSkip PROVE TypeOK'
  <2>1. WorkerOK'
    BY <1>3 DEF WorkerSkip, WorkerOK, IdleWorker
  <2> QED
    BY <1>3, <2>1, Frames DEF WorkerSkip, TypeOK
<1>4. ASSUME WorkerReadDR PROVE TypeOK'
  <2>1. \E d \in {"nil", "ok"} :
          worker' = [worker EXCEPT !.pc = "pop", !.dr = d]
    BY <1>4 DEF WorkerReadDR
  <2>2. worker.job \in Jobs
    BY <1>4 DEF WorkerReadDR, TypeOK, WorkerOK
  <2>3. WorkerOK'
    BY <2>1, <2>2 DEF TypeOK, WorkerOK
  <2> QED
    BY <1>4, <2>3, Frames DEF WorkerReadDR, TypeOK
<1>5. ASSUME WorkerPop PROVE TypeOK'
  <2> DEFINE b == BenchmarkOf(worker.job)
  <2>1. b \in Benchmarks /\ worker.job \in Jobs
    BY <1>5, BenchmarkOfType DEF WorkerPop, TypeOK, WorkerOK
  <2>2. CASE /\ waitingJobMap' = waitingJobMap
             /\ worker' \in {worker, IdleWorker}
    <3>1. MapsOK' /\ panicked' \in BOOLEAN
      BY <1>5, <2>2 DEF WorkerPop, TypeOK, MapsOK
    <3>2. WorkerOK'
      BY <2>2 DEF TypeOK, WorkerOK, IdleWorker
    <3> QED
      BY <1>5, <3>1, <3>2, Frames DEF WorkerPop, TypeOK
  <2>3. CASE /\ waitingJobMap[b] # <<>>
             /\ waitingJobMap' = [waitingJobMap EXCEPT ![b] = Tail(@)]
             /\ worker' \in {IdleWorker,
                             [worker EXCEPT !.pc = "create",
                                            !.next = Head(waitingJobMap[b])]}
             /\ UNCHANGED <<drMap, panicked>>
    <3>1. /\ Head(waitingJobMap[b]) \in Jobs
          /\ Tail(waitingJobMap[b]) \in Seq(Jobs)
      BY <2>1, <2>3, TailFacts DEF TypeOK, MapsOK
    <3>2. MapsOK'
      BY <1>5, <2>1, <2>3, <3>1 DEF WorkerPop, TypeOK, MapsOK
    <3>3. WorkerOK'
      <4>1. CASE worker' = IdleWorker
        BY <4>1 DEF WorkerOK, IdleWorker
      <4>2. CASE worker' = [worker EXCEPT !.pc = "create",
                                          !.next = Head(waitingJobMap[b])]
        <5>1. worker' = [pc |-> "create", job |-> worker.job,
                         dr |-> worker.dr, next |-> Head(waitingJobMap[b])]
          BY <4>2 DEF TypeOK, WorkerOK
        <5>2. worker.dr \in {"nil", "ok"}
          BY DEF TypeOK, WorkerOK
        <5> QED
          BY <2>1, <3>1, <5>1, <5>2 DEF WorkerOK
      <4> QED
        BY <2>3, <4>1, <4>2
    <3> QED
      BY <1>5, <2>3, <3>2, <3>3, Frames DEF WorkerPop, TypeOK
  <2> QED
    BY <1>5, <2>2, <2>3 DEF WorkerPop
<1>6. ASSUME WorkerCreate PROVE TypeOK'
  <2>1. worker.next \in Jobs
    BY <1>6 DEF WorkerCreate, TypeOK, WorkerOK
  <2>2. PICK isNew \in BOOLEAN :
          CreateIfNotExists(worker.next, results, isNew)
    BY <1>6 DEF WorkerCreate
  <2>3. ClusterOK'
    BY <1>6, <2>1, <2>2, CreateTypeOK DEF WorkerCreate, TypeOK, ClusterOK
  <2>4. MapsOK'
    BY <1>6 DEF WorkerCreate, TypeOK, MapsOK
  <2>5. WorkerOK'
    BY <1>6 DEF WorkerCreate, WorkerOK, IdleWorker
  <2> QED
    BY <1>6, <2>3, <2>4, <2>5, Frames DEF WorkerCreate, TypeOK
<1>7. ASSUME WorkerCreateNil PROVE TypeOK'
  BY <1>7, Frames DEF WorkerCreateNil, TypeOK
<1> QED
  BY <1>1, <1>2, <1>3, <1>4, <1>5, <1>6, <1>7 DEF Worker

LEMMA NextTypeOK == TypeOK /\ [Next]_vars => TypeOK'
<1>1. ASSUME TypeOK, UNCHANGED vars PROVE TypeOK'
  BY <1>1, Frames DEF vars, cluster, maps, queues, TypeOK
<1> QED
  BY <1>1, ReconcilerTypeOK, ClusterTypeOK, WorkerTypeOK DEF Next

\* Every variable keeps its type and JobQueue its capacity, whatever fails.
THEOREM TypeCorrect == Spec => []TypeOK
  BY InitTypeOK, NextTypeOK, PTL DEF Spec

-----------------------------------------------------------------------------
(***************************************************************************)
(* Where the jobs are: the sets that the invariants are about.             *)
(***************************************************************************)

\* The place of a job in the scan of its benchmark.
Place(j) == CHOOSE k \in 1..Len(JobsOf[BenchmarkOf(j)]) :
              JobsOf[BenchmarkOf(j)][k] = j

\* Jobs that this process has scanned, so that it does not scan them again.
Scanned == {j \in Jobs : \/ BenchmarkOf(j) \in subscribers
                         \/ BenchmarkOf(j) = scan.b /\ Place(j) < scan.i}

\* Jobs in a list of waiting jobs, the scan's or the tracker's.
InList == {j \in Jobs : \/ j \in Range(waitingJobMap[BenchmarkOf(j)])
                        \/ /\ scan.pc \in {"rest", "waiting"}
                           /\ j \in Range(scan.waitingJob)}

\* Jobs that wait, and the one that the worker has taken off its list.
Listed == InList \cup (IF worker.pc = "create" THEN {worker.next} ELSE {})

\* Jobs whose completion is on its way to deployWaitingResource, or there.
Coming   == {j \in Jobs : \/ j \in Range(pending) \cup Range(jobQueue)
                          \/ /\ worker.pc \in {"process", "deploy", "pop"}
                             /\ worker.job = j}
InFlight == {j \in Jobs : \/ j \in Range(pending) \cup Range(jobQueue)
                          \/ worker.pc # "idle" /\ worker.job = j}

Active == {j \in Jobs : jobs[j] = "active"}

\* A turn of a benchmark is held by a job that runs, and passes with its
\* completion to the worker, who gives it to the next job.
Turns == Active \cup InFlight

Started  == {j \in Jobs : jobs[j] # "absent" \/ j \in results}
Finished == {j \in Jobs : jobs[j] = "complete" \/ j \in results}

\* Entries of JobOptMap that Subscribe has still to store.
OptsLeft == IF scan.pc \in {"dr", "opt"} THEN scan.opts ELSE {}

-----------------------------------------------------------------------------
(***************************************************************************)
(* What holds whatever goes wrong.                                         *)
(***************************************************************************)
Once(s) == \A m, n \in 1..Len(s) : s[m] = s[n] => m = n

\* A list of waiting jobs of b, in the order of the scan.
Ordered(s, b) ==
    \A m \in 1..Len(s) :
        /\ BenchmarkOf(s[m]) = b /\ s[m] \notin Eager
        /\ \A n \in 1..Len(s) : m < n => Place(s[m]) < Place(s[n])

\* What is on its way has completed, and is on its way once.
FlightOK ==
    /\ \A j \in InFlight : jobs[j] = "complete"
    /\ Once(pending) /\ Once(jobQueue)
    /\ Range(pending) \cap Range(jobQueue) = {}
    /\ worker.pc # "idle" =>
         worker.job \notin Range(pending) \cup Range(jobQueue)

\* The scan subscribes its benchmark once it has seen all of its jobs.
PhaseOK ==
    /\ scan.pc = "idle" => scan.b = None
    /\ scan.pc \in {"first", "rest", "waiting"} => scan.b \notin subscribers
    /\ scan.pc \in {"dr", "opt"} => scan.b \in subscribers
    /\ scan.pc = "first" => scan.waitingJob = <<>>
    /\ scan.pc \in {"waiting", "dr", "opt"} => scan.i > Len(JobsOf[scan.b])
    /\ scan.pc \in {"first", "rest", "waiting", "dr"} =>
         scan.opts = Range(JobsOf[scan.b])

\* The lists of waiting jobs stay in the family and in order.
ScanListOK ==
    scan.pc # "idle" =>
        /\ Ordered(scan.waitingJob, scan.b)
        /\ \A m \in 1..Len(scan.waitingJob) : Place(scan.waitingJob[m]) < scan.i

MapListsOK ==
    /\ waitingKeys \subseteq subscribers
    /\ \A b \in Benchmarks : /\ Ordered(waitingJobMap[b], b)
                             /\ waitingJobMap[b] # <<>> => b \in waitingKeys

NextJobOK ==
    worker.pc = "create" =>
        /\ BenchmarkOf(worker.next) = BenchmarkOf(worker.job)
        /\ worker.next \notin Eager
        /\ worker.next \in jobOptMap
        /\ BenchmarkOf(worker.job) \in waitingKeys
        /\ \A m \in 1..Len(waitingJobMap[BenchmarkOf(worker.job)]) :
             Place(worker.next)
               < Place(waitingJobMap[BenchmarkOf(worker.job)][m])

BaseInv == TypeOK /\ FlightOK /\ PhaseOK /\ ScanListOK /\ MapListsOK /\ NextJobOK

-----------------------------------------------------------------------------
(***************************************************************************)
(* Facts about places and lists.                                           *)
(***************************************************************************)

\* A job is found at its place.
LEMMA PlaceType ==
    ASSUME NEW j \in Jobs
    PROVE  /\ BenchmarkOf(j) \in Benchmarks /\ Place(j) \in Nat
           /\ Place(j) \in 1..Len(JobsOf[BenchmarkOf(j)])
           /\ JobsOf[BenchmarkOf(j)][Place(j)] = j
           /\ j \in Range(JobsOf[BenchmarkOf(j)])
<1>1. BenchmarkOf(j) \in Benchmarks /\ j \in Range(JobsOf[BenchmarkOf(j)])
  BY BenchmarkOfType
<1>2. PICK b \in Benchmarks : b = BenchmarkOf(j)
  BY <1>1
<1>3. \E k \in 1..Len(JobsOf[b]) : JobsOf[b][k] = j
  BY <1>1, <1>2, JobsOfType DEF Range
<1>4. Place(j) \in 1..Len(JobsOf[b]) /\ JobsOf[b][Place(j)] = j
  BY <1>2, <1>3 DEF Place
<1> QED
  BY <1>1, <1>2, <1>4, JobsOfType

\* The job at a place of b belongs to b and has that place.
LEMMA PlaceOf ==
    ASSUME NEW b \in Benchmarks, NEW k \in 1..Len(JobsOf[b])
    PROVE  /\ JobsOf[b][k] \in Jobs
           /\ BenchmarkOf(JobsOf[b][k]) = b /\ Place(JobsOf[b][k]) = k
<1>1. PICK j \in Jobs : j = JobsOf[b][k] /\ j \in Range(JobsOf[b])
  BY JobsOfType
<1>2. BenchmarkOf(j) = b
  BY <1>1, BenchmarkOfUnique
<1>3. Place(j) \in 1..Len(JobsOf[b]) /\ JobsOf[b][Place(j)] = j
  BY <1>2, PlaceType
<1>4. Place(j) = k
  BY <1>1, <1>3, JobsAssumption
<1> QED
  BY <1>1, <1>2, <1>4

\* Jobs of one benchmark are told apart by their places.
LEMMA PlaceUnique ==
    ASSUME NEW i \in Jobs, NEW j \in Jobs,
           BenchmarkOf(i) = BenchmarkOf(j), Place(i) = Place(j)
    PROVE  i = j
  BY PlaceType

\* Membership of a family.
LEMMA FamilyOf ==
    ASSUME NEW b \in Benchmarks, NEW j
    PROVE  j \in Range(JobsOf[b]) <=> j \in Jobs /\ BenchmarkOf(j) = b
  BY BenchmarkOfUnique, PlaceType

\* What is in a channel once an element is sent or its head is taken.
LEMMA RangeAppend ==
    ASSUME NEW S, NEW s \in Seq(S), NEW e \in S
    PROVE  Range(Append(s, e)) = Range(s) \cup {e}
<1>1. /\ Len(Append(s, e)) = Len(s) + 1 /\ Len(s) \in Nat
      /\ Append(s, e)[Len(s) + 1] = e
      /\ \A i \in 1..Len(s) : Append(s, e)[i] = s[i]
  BY AppendFacts
<1>2. DOMAIN s = 1..Len(s) /\ DOMAIN Append(s, e) = 1..(Len(s) + 1)
  OBVIOUS
<1> QED
  BY <1>1, <1>2 DEF Range

LEMMA OnceAppend ==
    ASSUME NEW S, NEW s \in Seq(S), NEW e \in S, Once(s), e \notin Range(s)
    PROVE  Once(Append(s, e))
<1>1. /\ Len(Append(s, e)) = Len(s) + 1 /\ Len(s) \in Nat
      /\ Append(s, e)[Len(s) + 1] = e
      /\ \A i \in 1..Len(s) : Append(s, e)[i] = s[i]
  BY AppendFacts
<1>2. \A i \in 1..Len(s) : s[i] # e
  BY DEF Range
<1> QED
  BY <1>1, <1>2 DEF Once

LEMMA OnceTail ==
    ASSUME NEW S, NEW s \in Seq(S), Once(s), s # <<>>
    PROVE  /\ Once(Tail(s)) /\ Head(s) \in Range(s)
           /\ Range(Tail(s)) = Range(s) \ {Head(s)}
<1>1. /\ Head(s) = s[1] /\ Tail(s) \in Seq(S) /\ Len(Tail(s)) = Len(s) - 1
      /\ Len(s) \in Nat \ {0}
      /\ \A i \in 1..Len(Tail(s)) : i + 1 \in 1..Len(s)
                                    /\ Tail(s)[i] = s[i + 1]
  BY TailFacts
<1>2. DOMAIN s = 1..Len(s) /\ DOMAIN Tail(s) = 1..Len(Tail(s))
  BY <1>1
<1>3. Once(Tail(s))
  BY <1>1 DEF Once
<1>4. Head(s) \in Range(s)
  BY <1>1, <1>2 DEF Range
<1>5. Range(Tail(s)) \subseteq Range(s) \ {Head(s)}
  <2> SUFFICES ASSUME NEW i \in 1..Len(Tail(s))
               PROVE  Tail(s)[i] \in Range(s) \ {Head(s)}
    BY <1>2 DEF Range
  <2> QED
    BY <1>1, <1>2 DEF Range, Once
<1>6. Range(s) \ {Head(s)} \subseteq Range(Tail(s))
  <2> SUFFICES ASSUME NEW i \in 1..Len(s), s[i] # Head(s)
               PROVE  s[i] \in Range(Tail(s))
    BY <1>2 DEF Range
  <2>1. i - 1 \in 1..Len(Tail(s)) /\ (i - 1) + 1 = i
    BY <1>1
  <2>2. Tail(s)[i - 1] = s[i]
    BY <1>1, <2>1
  <2> QED
    BY <1>2, <2>1, <2>2 DEF Range
<1> QED
  BY <1>3, <1>4, <1>5, <1>6

\* An ordered list holds no job twice.
LEMMA OrderedOnce ==
    ASSUME NEW b, NEW s \in Seq(Jobs), Ordered(s, b)
    PROVE  Once(s)
<1> SUFFICES ASSUME NEW m \in 1..Len(s), NEW n \in 1..Len(s), s[m] = s[n], m < n
             PROVE  FALSE
  BY DEF Once
<1>1. Place(s[m]) < Place(s[n]) /\ Place(s[m]) \in Nat
  BY PlaceType DEF Ordered
<1> QED
  BY <1>1

LEMMA OrderedAppend ==
    ASSUME NEW b, NEW s \in Seq(Jobs), Ordered(s, b), NEW e \in Jobs,
           BenchmarkOf(e) = b, e \notin Eager,
           \A m \in 1..Len(s) : Place(s[m]) < Place(e)
    PROVE  Ordered(Append(s, e), b)
<1>1. /\ Len(Append(s, e)) = Len(s) + 1 /\ Len(s) \in Nat
      /\ Append(s, e)[Len(s) + 1] = e
      /\ \A i \in 1..Len(s) : Append(s, e)[i] = s[i]
  BY AppendFacts
<1> QED
  BY <1>1 DEF Ordered

LEMMA OrderedTail ==
    ASSUME NEW b, NEW s \in Seq(Jobs), Ordered(s, b), s # <<>>
    PROVE  /\ Ordered(Tail(s), b) /\ Head(s) \in Jobs
           /\ BenchmarkOf(Head(s)) = b /\ Head(s) \notin Eager
           /\ Head(s) \in Range(s)
           /\ Range(Tail(s)) = Range(s) \ {Head(s)}
           /\ \A m \in 1..Len(Tail(s)) : Place(Head(s)) < Place(Tail(s)[m])
<1>1. /\ Head(s) = s[1] /\ Tail(s) \in Seq(Jobs) /\ Len(Tail(s)) = Len(s) - 1
      /\ Len(s) \in Nat \ {0} /\ Head(s) \in Jobs
      /\ \A i \in 1..Len(Tail(s)) : i + 1 \in 1..Len(s)
                                    /\ Tail(s)[i] = s[i + 1]
  BY TailFacts
<1>2. Ordered(Tail(s), b)
  <2> SUFFICES ASSUME NEW m \in 1..Len(Tail(s))
               PROVE  /\ BenchmarkOf(Tail(s)[m]) = b /\ Tail(s)[m] \notin Eager
                      /\ \A n \in 1..Len(Tail(s)) :
                           m < n => Place(Tail(s)[m]) < Place(Tail(s)[n])
    BY DEF Ordered
  <2> QED
    BY <1>1 DEF Ordered
<1>3. /\ BenchmarkOf(Head(s)) = b /\ Head(s) \notin Eager
      /\ \A m \in 1..Len(Tail(s)) : Place(Head(s)) < Place(Tail(s)[m])
  BY <1>1 DEF Ordered
<1> QED
  BY <1>1, <1>2, <1>3, OrderedOnce, OnceTail

-----------------------------------------------------------------------------
(***************************************************************************)
(* What each step does to the sets.                                        *)
(***************************************************************************)
LEMMA SameSets ==
    /\ UNCHANGED <<pending, jobQueue, worker>> =>
         InFlight' = InFlight /\ Coming' = Coming
    /\ UNCHANGED jobs => Active' = Active
    /\ UNCHANGED <<jobs, results>> => Started' = Started /\ Finished' = Finished
    /\ UNCHANGED <<subscribers, scan>> => Scanned' = Scanned
    /\ UNCHANGED <<waitingJobMap, scan>> => InList' = InList
    /\ UNCHANGED <<waitingJobMap, scan, worker>> => Listed' = Listed
    /\ UNCHANGED scan => OptsLeft' = OptsLeft
  BY DEF InFlight, Coming, Active, Started, Finished, Scanned, InList, Listed,
         OptsLeft

\* A job in a list has its place there.
LEMMA InRange ==
    ASSUME NEW s \in Seq(Jobs), NEW j
    PROVE  j \in Range(s) <=> \E m \in 1..Len(s) : s[m] = j
  BY DEF Range

\* A job that waits has been scanned and takes turns.
LEMMA ListedScanned ==
    ASSUME BaseInv
    PROVE  Listed \subseteq Scanned \ Eager
<1> SUFFICES ASSUME NEW j \in Listed PROVE j \in Scanned /\ j \notin Eager
  OBVIOUS
<1>1. /\ waitingJobMap \in [Benchmarks -> Seq(Jobs)]
      /\ scan.waitingJob \in Seq(Jobs)
      /\ worker.pc = "create" => worker.next \in Jobs /\ worker.job \in Jobs
  BY DEF BaseInv, TypeOK, MapsOK, ScanOK, WorkerOK
<1>2. CASE worker.pc = "create" /\ j = worker.next
  BY <1>1, <1>2 DEF BaseInv, NextJobOK, MapListsOK, Scanned
<1>3. ASSUME j \in InList PROVE j \in Scanned /\ j \notin Eager
  <2>1. j \in Jobs
    BY <1>3 DEF InList
  <2>2. PICK b \in Benchmarks : b = BenchmarkOf(j)
    BY <2>1, BenchmarkOfType
  <2>3. CASE j \in Range(waitingJobMap[b])
    <3>1. PICK m \in 1..Len(waitingJobMap[b]) : waitingJobMap[b][m] = j
      BY <1>1, <2>2, <2>3, InRange
    <3>2. waitingJobMap[b] # <<>> /\ j \notin Eager
      BY <1>1, <3>1 DEF BaseInv, MapListsOK, Ordered
    <3>3. b \in subscribers
      BY <3>2 DEF BaseInv, MapListsOK
    <3> QED
      BY <2>1, <2>2, <3>2, <3>3 DEF Scanned
  <2>4. CASE scan.pc \in {"rest", "waiting"} /\ j \in Range(scan.waitingJob)
    <3>1. PICK m \in 1..Len(scan.waitingJob) : scan.waitingJob[m] = j
      BY <1>1, <2>4, InRange
    <3>2. /\ BenchmarkOf(j) = scan.b /\ j \notin Eager /\ Place(j) < scan.i
      BY <2>4, <3>1 DEF BaseInv, ScanListOK, Ordered
    <3> QED
      BY <2>1, <3>2 DEF Scanned
  <2> QED
    BY <1>3, <2>2, <2>3, <2>4 DEF InList
<1> QED
  BY <1>2, <1>3 DEF Listed

\* The job a scan looks at, its place, and that it is new to the scan.
LEMMA ScanNextPlace ==
    ASSUME BaseInv, NEW pcs, Scanning(pcs), pcs \subseteq {"first", "rest"}
    PROVE  /\ scan.b \in Benchmarks /\ scan.b \notin subscribers
           /\ ScanNext \in Jobs /\ BenchmarkOf(ScanNext) = scan.b
           /\ Place(ScanNext) = scan.i /\ scan.i \in Nat
           /\ ScanNext \notin Scanned /\ ScanNext \notin Listed
<1>1. /\ scan.b \in Benchmarks /\ scan.i \in 1..Len(JobsOf[scan.b])
      /\ ScanNext = JobsOf[scan.b][scan.i]
  BY ScanNextFacts DEF BaseInv, TypeOK
<1>2. /\ ScanNext \in Jobs /\ BenchmarkOf(ScanNext) = scan.b
      /\ Place(ScanNext) = scan.i /\ scan.i \in Nat
  BY <1>1, PlaceOf, JobsOfType
<1>3. scan.b \notin subscribers
  BY DEF BaseInv, PhaseOK, Scanning
<1>4. ScanNext \notin Scanned
  BY <1>2, <1>3 DEF Scanned
<1> QED
  BY <1>1, <1>2, <1>3, <1>4, ListedScanned

\* A scan that looks at its next job has scanned one more.
LEMMA ScannedNext ==
    ASSUME BaseInv, NEW pcs, Scanning(pcs), pcs \subseteq {"first", "rest"},
           UNCHANGED subscribers, scan'.b = scan.b, scan'.i = scan.i + 1
    PROVE  Scanned' = Scanned \cup {ScanNext}
<1>1. /\ ScanNext \in Jobs /\ BenchmarkOf(ScanNext) = scan.b
      /\ Place(ScanNext) = scan.i /\ scan.i \in Nat
  BY ScanNextPlace
<1>2. ASSUME NEW j \in Jobs, BenchmarkOf(j) = scan.b
      PROVE  Place(j) < scan.i + 1 <=> Place(j) < scan.i \/ j = ScanNext
  BY <1>1, <1>2, PlaceType, PlaceUnique
<1> QED
  BY <1>1, <1>2 DEF Scanned

\* CreateFromOperator.
LEMMA ScanBegins ==
    ASSUME BaseInv, NEW b \in Benchmarks, CreateFromOperator(b)
    PROVE  /\ UNCHANGED <<jobs, results, tracker, maps, queues, worker,
                          panicked, crashes>>
           /\ scan.pc = "idle" /\ b \notin subscribers
           /\ scan' = [pc |-> "first", b |-> b, i |-> 1, waitingJob |-> <<>>,
                       done |-> results, opts |-> Range(JobsOf[b])]
           /\ Scanned' = Scanned /\ Listed' = Listed
<1>1. /\ UNCHANGED <<jobs, results, tracker, maps, queues, worker,
                     panicked, crashes>>
      /\ scan.pc = "idle" /\ b \notin subscribers
      /\ scan' = [pc |-> "first", b |-> b, i |-> 1, waitingJob |-> <<>>,
                  done |-> results, opts |-> Range(JobsOf[b])]
  BY DEF CreateFromOperator, IdleScan, cluster
<1>2. scan.b = None /\ None \notin Benchmarks
  BY <1>1, JobsAssumption DEF BaseInv, PhaseOK
<1>3. \A j \in Jobs : /\ BenchmarkOf(j) # scan.b
                      /\ ~(Place(j) < scan'.i)
  BY <1>1, <1>2, PlaceType
<1>4. Scanned' = Scanned
  BY <1>1, <1>3 DEF Scanned, maps
<1>5. Listed' = Listed
  BY <1>1 DEF InList, Listed, maps
<1> QED
  BY <1>1, <1>4, <1>5

\* CreateEager and CreateFirst: the job they look at is new to the scan, and
\* runs if it did not exist.
LEMMA ScanCreates ==
    ASSUME BaseInv, CreateEager \/ CreateFirst
    PROVE  /\ UNCHANGED <<results, tracker, maps, queues, worker, panicked,
                          crashes>>
           /\ scan.b \in Benchmarks /\ scan.b \notin subscribers
           /\ ScanNext \in Jobs /\ BenchmarkOf(ScanNext) = scan.b
           /\ ScanNext \notin Scanned /\ ScanNext \notin Listed
           /\ scan.pc \in {"first", "rest"} /\ scan'.pc \in {"first", "rest"}
           /\ scan.pc = "rest" => scan'.pc = "rest"
           /\ scan'.b = scan.b /\ scan'.i = scan.i + 1
           /\ scan'.waitingJob = scan.waitingJob /\ scan'.done = scan.done
           /\ scan'.opts = scan.opts
           /\ Scanned' = Scanned \cup {ScanNext} /\ Listed' = Listed
           /\ \/ jobs' = jobs
              \/ /\ jobs[ScanNext] = "absent" /\ ScanNext \notin scan.done
                 /\ jobs' = [jobs EXCEPT ![ScanNext] = "active"]
<1>1. /\ Scanning({"first", "rest"}) /\ scan.pc \in {"first", "rest"}
      /\ UNCHANGED <<results, tracker, maps, queues, worker, panicked,
                     crashes>>
  <2>1. CASE CreateEager
    BY <2>1 DEF CreateEager, Scanning
  <2>2. CASE CreateFirst
    <3>1. /\ Scanning({"first"})
          /\ UNCHANGED <<results, tracker, maps, queues, worker, panicked,
                         crashes>>
      BY <2>2, Zenon DEF CreateFirst
    <3> QED
      BY <3>1 DEF Scanning
  <2> QED
    BY <2>1, <2>2
<1>2. \E isNew \in BOOLEAN, pc \in {"first", "rest"} :
        /\ CreateIfNotExists(ScanNext, scan.done, isNew)
        /\ scan' = [scan EXCEPT !.i = @ + 1, !.pc = pc]
        /\ scan.pc = "rest" => pc = "rest"
  <2>1. CASE CreateEager
    <3>1. \E isNew \in BOOLEAN : CreateIfNotExists(ScanNext, scan.done, isNew)
      BY <2>1 DEF CreateEager
    <3>2. scan' = [scan EXCEPT !.i = @ + 1, !.pc = scan.pc]
      BY <2>1 DEF CreateEager, BaseInv, TypeOK, ScanOK
    <3> QED
      BY <1>1, <3>1, <3>2
  <2>2. CASE CreateFirst
    <3>1. PICK isNew \in BOOLEAN :
            /\ CreateIfNotExists(ScanNext, scan.done, isNew)
            /\ scan' = [scan EXCEPT !.i = @ + 1,
                                    !.pc = IF isNew THEN "rest" ELSE "first"]
      BY <2>2, Zenon DEF CreateFirst
    <3>2. scan.pc = "first"
      <4>1. Scanning({"first"})
        BY <2>2, Zenon DEF CreateFirst
      <4> QED
        BY <4>1 DEF Scanning
    <3>3. CASE isNew
      <4>1. scan' = [scan EXCEPT !.i = @ + 1, !.pc = "rest"]
        BY <3>1, <3>3
      <4> QED
        BY <3>1, <4>1
    <3>4. CASE ~isNew
      <4>1. scan' = [scan EXCEPT !.i = @ + 1, !.pc = "first"]
        BY <3>1, <3>4
      <4> QED
        BY <3>1, <3>2, <4>1
    <3> QED
      BY <3>3, <3>4
  <2> QED
    BY <2>1, <2>2
<1>3. PICK isNew \in BOOLEAN, pc \in {"first", "rest"} :
        /\ CreateIfNotExists(ScanNext, scan.done, isNew)
        /\ scan' = [scan EXCEPT !.i = @ + 1, !.pc = pc]
        /\ scan.pc = "rest" => pc = "rest"
  BY <1>2
<1>4. /\ scan'.pc = pc /\ scan'.b = scan.b /\ scan'.i = scan.i + 1
      /\ scan'.waitingJob = scan.waitingJob /\ scan'.done = scan.done
      /\ scan'.opts = scan.opts
  BY <1>3 DEF BaseInv, TypeOK, ScanOK
<1>5. /\ scan.b \in Benchmarks /\ scan.b \notin subscribers
      /\ ScanNext \in Jobs /\ BenchmarkOf(ScanNext) = scan.b
      /\ ScanNext \notin Scanned /\ ScanNext \notin Listed
  BY <1>1, ScanNextPlace
<1>6. Scanned' = Scanned \cup {ScanNext}
  BY <1>1, <1>4, ScannedNext DEF maps
<1>7. Listed' = Listed
  <2>1. scan.pc = "first" => Range(scan.waitingJob) = {}
    BY DEF BaseInv, PhaseOK, Range
  <2>2. InList' = InList
    BY <1>1, <1>3, <1>4, <2>1 DEF InList, maps
  <2> QED
    BY <1>1, <2>2 DEF Listed
<1>8. \/ jobs' = jobs
      \/ /\ jobs[ScanNext] = "absent" /\ ScanNext \notin scan.done
         /\ jobs' = [jobs EXCEPT ![ScanNext] = "active"]
  BY <1>3, <1>5, CreateFacts
<1> QED
  BY <1>1, <1>3, <1>4, <1>5, <1>6, <1>7, <1>8

\* LeaveWaiting.
LEMMA ScanLeaves ==
    ASSUME BaseInv, LeaveWaiting
    PROVE  /\ UNCHANGED <<jobs, results, tracker, maps, queues, worker,
                          panicked, crashes>>
           /\ scan.b \in Benchmarks /\ scan.b \notin subscribers
           /\ ScanNext \in Jobs /\ BenchmarkOf(ScanNext) = scan.b
           /\ Place(ScanNext) = scan.i /\ ScanNext \notin Eager
           /\ ScanNext \notin Scanned /\ ScanNext \notin Listed
           /\ scan.pc = "rest" /\ scan'.pc = "rest"
           /\ scan'.b = scan.b /\ scan'.i = scan.i + 1
           /\ scan'.done = scan.done /\ scan'.opts = scan.opts
           /\ Scanned' = Scanned \cup {ScanNext}
           /\ \/ /\ jobs[ScanNext] # "absent"
                 /\ scan'.waitingJob = scan.waitingJob
                 /\ Listed' = Listed
              \/ /\ jobs[ScanNext] = "absent" \/ "get" \in Faults
                 /\ scan'.waitingJob = Append(scan.waitingJob, ScanNext)
                 /\ Listed' = Listed \cup {ScanNext}
<1>1. Scanning({"rest"}) /\ ScanNext \notin Eager
  BY DEF LeaveWaiting
<1>2. /\ UNCHANGED <<jobs, results, tracker, maps, queues, worker,
                     panicked, crashes>>
      /\ scan.pc = "rest"
  BY <1>1 DEF LeaveWaiting, Scanning, cluster
<1>3. PICK found \in Lookup(ScanNext) :
        scan' = [scan EXCEPT
                   !.i = @ + 1,
                   !.waitingJob = IF found = "absent"
                                  THEN Append(@, ScanNext) ELSE @]
  BY Zenon DEF LeaveWaiting
<1>4. /\ scan'.pc = "rest" /\ scan'.b = scan.b /\ scan'.i = scan.i + 1
      /\ scan'.waitingJob = IF found = "absent"
                            THEN Append(scan.waitingJob, ScanNext)
                            ELSE scan.waitingJob
      /\ scan'.done = scan.done /\ scan'.opts = scan.opts
  BY <1>2, <1>3 DEF BaseInv, TypeOK, ScanOK
<1>5. /\ scan.b \in Benchmarks /\ scan.b \notin subscribers
      /\ ScanNext \in Jobs /\ BenchmarkOf(ScanNext) = scan.b
      /\ Place(ScanNext) = scan.i
      /\ ScanNext \notin Scanned /\ ScanNext \notin Listed
  BY <1>1, ScanNextPlace
<1>6. Scanned' = Scanned \cup {ScanNext}
  BY <1>1, <1>2, <1>4, ScannedNext DEF maps
<1>7. CASE found = "absent"
  <2>1. jobs[ScanNext] = "absent" \/ "get" \in Faults
    BY <1>3, <1>7 DEF Lookup
  <2>2. Range(scan'.waitingJob) = Range(scan.waitingJob) \cup {ScanNext}
    BY <1>4, <1>5, <1>7, RangeAppend DEF BaseInv, TypeOK, ScanOK
  <2>3. InList' = InList \cup {ScanNext}
    BY <1>2, <1>4, <1>5, <2>2 DEF InList, maps
  <2>4. Listed' = Listed \cup {ScanNext}
    BY <1>2, <2>3 DEF Listed
  <2> QED
    BY <1>1, <1>2, <1>4, <1>5, <1>6, <1>7, <2>1, <2>4
<1>8. CASE found # "absent"
  <2>1. jobs[ScanNext] # "absent"
    BY <1>3, <1>8 DEF Lookup
  <2>2. InList' = InList
    BY <1>2, <1>4, <1>8 DEF InList, maps
  <2>3. Listed' = Listed
    BY <1>2, <2>2 DEF Listed
  <2> QED
    BY <1>1, <1>2, <1>4, <1>5, <1>6, <1>8, <2>1, <2>3
<1> QED
  BY <1>7, <1>8

\* NewTracker.
LEMMA ScanEnds ==
    ASSUME BaseInv, NewTracker
    PROVE  /\ UNCHANGED <<jobs, results, maps, queues, worker, panicked,
                          crashes>>
           /\ scan.pc \in {"first", "rest"} /\ scan'.pc = "waiting"
           /\ scan.b \in Benchmarks /\ scan.i > Len(JobsOf[scan.b])
           /\ scan'.b = scan.b /\ scan'.i = scan.i /\ scan'.done = scan.done
           /\ scan'.waitingJob = scan.waitingJob /\ scan'.opts = scan.opts
           /\ Scanned' = Scanned /\ Listed' = Listed
<1>1. /\ UNCHANGED <<jobs, results, maps, queues, worker, panicked, crashes>>
      /\ scan.pc \in {"first", "rest"} /\ scan.i > Len(JobsOf[scan.b])
  BY DEF NewTracker, cluster
<1>2. /\ scan'.pc = "waiting"
      /\ scan'.b = scan.b /\ scan'.i = scan.i /\ scan'.done = scan.done
      /\ scan'.waitingJob = scan.waitingJob /\ scan'.opts = scan.opts
      /\ scan.b \in Benchmarks
  BY DEF NewTracker, BaseInv, TypeOK, ScanOK
<1>3. scan.pc = "first" => Range(scan.waitingJob) = {}
  BY DEF BaseInv, PhaseOK, Range
<1>4. InList' = InList
  BY <1>1, <1>2, <1>3 DEF InList, maps
<1>5. Listed' = Listed /\ Scanned' = Scanned
  BY <1>1, <1>2, <1>4 DEF Listed, Scanned, maps
<1> QED
  BY <1>1, <1>2, <1>5

\* SubscribeWaiting.
LEMMA Subscribes ==
    ASSUME BaseInv, SubscribeWaiting
    PROVE  /\ UNCHANGED <<jobs, results, tracker, drMap, jobOptMap, queues,
                          worker, panicked, crashes>>
           /\ scan.pc = "waiting" /\ scan.b \in Benchmarks
           /\ scan.b \notin subscribers
           /\ subscribers' = subscribers \cup {scan.b}
           /\ \/ /\ scan.waitingJob = <<>> /\ scan' = IdleScan
                 /\ UNCHANGED <<waitingJobMap, waitingKeys>>
              \/ /\ scan.waitingJob # <<>>
                 /\ waitingJobMap' = [waitingJobMap EXCEPT
                                        ![scan.b] = scan.waitingJob]
                 /\ waitingKeys' = waitingKeys \cup {scan.b}
                 /\ scan'.pc = "dr" /\ scan'.b = scan.b /\ scan'.i = scan.i
                 /\ scan'.done = scan.done /\ scan'.opts = scan.opts
                 /\ scan'.waitingJob = scan.waitingJob
           /\ Scanned' = Scanned /\ Listed' = Listed
<1>1. /\ UNCHANGED <<jobs, results, tracker, drMap, jobOptMap, queues,
                     worker, panicked, crashes>>
      /\ scan.pc = "waiting" /\ subscribers' = subscribers \cup {scan.b}
  BY DEF SubscribeWaiting, cluster
<1>2. /\ scan.b \in Benchmarks /\ scan.b \notin subscribers
      /\ scan.i > Len(JobsOf[scan.b]) /\ scan.i \in Nat
  BY <1>1 DEF BaseInv, TypeOK, ScanOK, PhaseOK
<1>3. \/ /\ scan.waitingJob = <<>> /\ scan' = IdleScan
         /\ UNCHANGED <<waitingJobMap, waitingKeys>>
      \/ /\ scan.waitingJob # <<>>
         /\ waitingJobMap' = [waitingJobMap EXCEPT ![scan.b] = scan.waitingJob]
         /\ waitingKeys' = waitingKeys \cup {scan.b}
         /\ scan'.pc = "dr" /\ scan'.b = scan.b /\ scan'.i = scan.i
         /\ scan'.done = scan.done /\ scan'.opts = scan.opts
         /\ scan'.waitingJob = scan.waitingJob
  BY DEF SubscribeWaiting, BaseInv, TypeOK, ScanOK
<1>4. Scanned' = Scanned
  <2>1. \A j \in Jobs : BenchmarkOf(j) = scan.b => Place(j) < scan.i
    BY <1>2, PlaceType, JobsOfType
  <2>2. scan'.b = scan.b \/ scan'.b = None
    BY <1>3 DEF IdleScan
  <2>3. scan'.b = scan.b => scan'.i = scan.i
    BY <1>2, <1>3, JobsAssumption DEF IdleScan
  <2>4. \A j \in Jobs : BenchmarkOf(j) # None
    BY BenchmarkOfType, JobsAssumption
  <2> QED
    BY <1>1, <2>1, <2>2, <2>3, <2>4 DEF Scanned
<1>5. Listed' = Listed
  <2>1. waitingJobMap[scan.b] = <<>>
    BY <1>2 DEF BaseInv, MapListsOK
  <2>2. waitingJobMap \in [Benchmarks -> Seq(Jobs)]
        /\ scan.waitingJob \in Seq(Jobs)
    BY DEF BaseInv, TypeOK, MapsOK, ScanOK
  <2>3. Range(<<>>) = {}
    BY DEF Range
  <2>4. CASE scan.waitingJob = <<>>
    <3>1. InList' = InList
      BY <1>1, <1>3, <2>3, <2>4 DEF InList, IdleScan
    <3> QED
      BY <1>1, <3>1 DEF Listed
  <2>5. CASE scan.waitingJob # <<>>
    <3>1. \A j \in Jobs :
            j \in Range(scan.waitingJob) => BenchmarkOf(j) = scan.b
      BY <1>1, <2>2, InRange DEF BaseInv, ScanListOK, Ordered
    <3>2. \A j \in Jobs :
            Range(waitingJobMap'[BenchmarkOf(j)]) =
              IF BenchmarkOf(j) = scan.b THEN Range(scan.waitingJob)
              ELSE Range(waitingJobMap[BenchmarkOf(j)])
      BY <1>3, <2>2, <2>5, BenchmarkOfType
    <3>3. ~(scan'.pc \in {"rest", "waiting"})
      BY <1>3, <2>5
    <3>4. InList' = InList
      BY <1>1, <2>1, <2>3, <3>1, <3>2, <3>3 DEF InList
    <3> QED
      BY <1>1, <3>4 DEF Listed
  <2> QED
    BY <2>4, <2>5
<1> QED
  BY <1>1, <1>2, <1>3, <1>4, <1>5

\* SubscribeDR and SubscribeOpt.
LEMMA StoresMaps ==
    ASSUME BaseInv, SubscribeDR \/ SubscribeOpt
    PROVE  /\ UNCHANGED <<jobs, results, tracker, subscribers, waitingJobMap,
                          waitingKeys, queues, worker, panicked, crashes>>
           /\ scan.b \in Benchmarks /\ scan.b \in subscribers
           /\ Scanned' = Scanned /\ Listed' = Listed
           /\ jobOptMap \cup OptsLeft = jobOptMap' \cup OptsLeft'
           /\ \/ /\ scan.pc = "dr" /\ scan'.pc = "opt"
                 /\ drMap' = drMap \cup {scan.b} /\ UNCHANGED jobOptMap
                 /\ scan'.b = scan.b /\ scan'.i = scan.i
                 /\ scan'.done = scan.done /\ scan'.opts = scan.opts
                 /\ scan'.waitingJob = scan.waitingJob
              \/ /\ scan.pc = "opt" /\ UNCHANGED drMap
                 /\ jobOptMap \subseteq jobOptMap'
                 /\ \/ scan' = IdleScan
                    \/ /\ scan'.pc = "opt" /\ scan'.b = scan.b
                       /\ scan'.i = scan.i /\ scan'.done = scan.done
                       /\ scan'.waitingJob = scan.waitingJob
<1>1. /\ UNCHANGED <<jobs, results, tracker, subscribers, waitingJobMap,
                     waitingKeys, queues, worker, panicked, crashes>>
      /\ scan.pc \in {"dr", "opt"}
  BY DEF SubscribeDR, SubscribeOpt, cluster
<1>2. scan.b \in Benchmarks /\ scan.b \in subscribers
  BY <1>1 DEF BaseInv, TypeOK, ScanOK, PhaseOK
<1>3. CASE SubscribeDR
  <2>1. /\ scan.pc = "dr" /\ scan'.pc = "opt"
        /\ drMap' = drMap \cup {scan.b} /\ UNCHANGED jobOptMap
        /\ scan'.b = scan.b /\ scan'.i = scan.i
        /\ scan'.done = scan.done /\ scan'.opts = scan.opts
        /\ scan'.waitingJob = scan.waitingJob
    BY <1>3 DEF SubscribeDR, BaseInv, TypeOK, ScanOK
  <2>2. Scanned' = Scanned /\ Listed' = Listed /\ OptsLeft' = OptsLeft
    BY <1>1, <2>1 DEF Scanned, InList, Listed, OptsLeft
  <2> QED
    BY <1>1, <1>2, <2>1, <2>2
<1>4. CASE SubscribeOpt
  <2>1. PICK j \in scan.opts :
          /\ jobOptMap' = jobOptMap \cup {j}
          /\ scan' = IF scan.opts = {j} THEN IdleScan
                     ELSE [scan EXCEPT !.opts = @ \ {j}]
    BY <1>4 DEF SubscribeOpt
  <2>2. scan.pc = "opt" /\ UNCHANGED drMap
    BY <1>4 DEF SubscribeOpt
  <2>3. CASE scan.opts = {j}
    <3>1. scan' = IdleScan
      BY <2>1, <2>3
    <3>2. scan'.pc = "idle" /\ scan'.b = None
      BY <3>1 DEF IdleScan
    <3>3. OptsLeft' = {} /\ OptsLeft = {j}
      BY <2>2, <2>3, <3>2 DEF OptsLeft
    <3>4. \A k \in Jobs : BenchmarkOf(k) # None
      BY BenchmarkOfType, JobsAssumption
    <3>5. Scanned' = Scanned
      BY <1>1, <1>2, <3>2, <3>4 DEF Scanned
    <3>6. Listed' = Listed
      BY <1>1, <2>2, <3>2 DEF InList, Listed
    <3> QED
      BY <1>1, <1>2, <2>1, <2>2, <3>1, <3>3, <3>5, <3>6
  <2>4. CASE scan.opts # {j}
    <3>1. /\ scan'.pc = "opt" /\ scan'.b = scan.b
          /\ scan'.i = scan.i /\ scan'.done = scan.done
          /\ scan'.waitingJob = scan.waitingJob
          /\ scan'.opts = scan.opts \ {j}
      BY <2>1, <2>2, <2>4 DEF BaseInv, TypeOK, ScanOK
    <3>2. OptsLeft' = scan.opts \ {j} /\ OptsLeft = scan.opts
      BY <2>2, <3>1 DEF OptsLeft
    <3>3. Scanned' = Scanned /\ Listed' = Listed
      BY <1>1, <2>2, <3>1 DEF Scanned, InList, Listed
    <3> QED
      BY <1>1, <1>2, <2>1, <2>2, <3>1, <3>2, <3>3
  <2> QED
    BY <2>3, <2>4
<1> QED
  BY <1>3, <1>4

\* Creating a job leaves one, unless its result is known or the API server
\* refuses it.
LEMMA CreateStarts ==
    ASSUME TypeOK, NEW j \in Jobs, NEW done, NEW isNew \in BOOLEAN,
           CreateIfNotExists(j, done, isNew), "create" \notin Faults
    PROVE  jobs'[j] # "absent" \/ j \in done
<1>1. jobs \in [Jobs -> JobStates]
  BY DEF TypeOK, ClusterOK
<1>2. CASE jobs[j] = "absent" /\ j \notin done
  <2>1. Lookup(j) = {"absent"} /\ CreateOutcomes(j) = {TRUE}
    BY <1>2 DEF Lookup, CreateOutcomes
  <2>2. jobs' = [jobs EXCEPT ![j] = "active"]
    BY <1>2, <2>1 DEF CreateIfNotExists
  <2> QED
    BY <1>1, <2>2
<1>3. CASE jobs[j] # "absent"
  BY <1>1, <1>3, CreateFacts
<1> QED
  BY <1>2, <1>3

\* What CreateFirst tells of the job it looked at.
LEMMA FirstOutcome ==
    ASSUME BaseInv, CreateFirst
    PROVE  /\ scan.pc = "first" /\ ScanNext \notin Eager
           /\ \/ /\ scan'.pc = "first" /\ jobs' = jobs
                 /\ ScanNext \in scan.done \/ jobs[ScanNext] = "complete"
              \/ /\ scan'.pc = "rest" /\ ScanNext \notin scan.done
                 /\ \/ jobs' = [jobs EXCEPT ![ScanNext] = "active"]
                    \/ /\ jobs' = jobs
                       /\ \/ jobs[ScanNext] \in {"active", "failed"}
                          \/ "get" \in Faults /\ jobs[ScanNext] = "complete"
                          \/ "create" \in Faults /\ jobs[ScanNext] = "absent"
<1>1. Scanning({"first"}) /\ ScanNext \notin Eager
  BY Zenon DEF CreateFirst
<1>2. scan.pc = "first"
  BY <1>1 DEF Scanning
<1>3. ScanNext \in Jobs
  BY <1>1, ScanNextPlace
<1>4. PICK isNew \in BOOLEAN :
        /\ CreateIfNotExists(ScanNext, scan.done, isNew)
        /\ scan' = [scan EXCEPT !.i = @ + 1,
                                !.pc = IF isNew THEN "rest" ELSE "first"]
  BY Zenon DEF CreateFirst
<1>5. scan'.pc = IF isNew THEN "rest" ELSE "first"
  BY <1>4 DEF BaseInv, TypeOK, ScanOK
<1>6. jobs \in [Jobs -> JobStates]
  BY DEF BaseInv, TypeOK, ClusterOK
<1>7. CASE ScanNext \in scan.done
  <2>1. isNew = FALSE /\ jobs' = jobs
    BY <1>4, <1>7 DEF CreateIfNotExists
  <2> QED
    BY <1>1, <1>2, <1>5, <1>7, <2>1
<1>8. ASSUME ScanNext \notin scan.done,
             NEW found \in Lookup(ScanNext) \ {"absent"},
             isNew = (found # "complete"), UNCHANGED jobs
      PROVE  \/ /\ scan'.pc = "first" /\ jobs' = jobs
                /\ jobs[ScanNext] = "complete"
             \/ /\ scan'.pc = "rest" /\ jobs' = jobs
                /\ jobs[ScanNext] \in {"active", "failed"}
  <2>1. found = jobs[ScanNext] /\ found \in {"active", "complete", "failed"}
    BY <1>3, <1>6, <1>8 DEF Lookup, JobStates
  <2> QED
    BY <1>5, <1>8, <2>1
<1>9. ASSUME ScanNext \notin scan.done, "absent" \in Lookup(ScanNext),
             isNew = TRUE, NEW created \in CreateOutcomes(ScanNext),
             jobs' = IF created THEN [jobs EXCEPT ![ScanNext] = "active"]
                     ELSE jobs
      PROVE  /\ scan'.pc = "rest"
             /\ \/ jobs' = [jobs EXCEPT ![ScanNext] = "active"]
                \/ /\ jobs' = jobs
                   /\ \/ jobs[ScanNext] \in {"active", "failed"}
                      \/ "get" \in Faults /\ jobs[ScanNext] = "complete"
                      \/ "create" \in Faults /\ jobs[ScanNext] = "absent"
  <2>1. scan'.pc = "rest"
    BY <1>5, <1>9
  <2>2. jobs[ScanNext] = "absent" \/ "get" \in Faults
    BY <1>9 DEF Lookup
  <2>3. created \in BOOLEAN
    BY <1>9 DEF CreateOutcomes
  <2>4. CASE created
    BY <1>9, <2>1, <2>4
  <2>5. CASE ~created
    <3>1. jobs[ScanNext] # "absent" \/ "create" \in Faults
      BY <1>9, <2>3, <2>5 DEF CreateOutcomes
    <3>2. jobs[ScanNext] \in {"absent", "active", "complete", "failed"}
      BY <1>3, <1>6 DEF JobStates
    <3> QED
      BY <1>9, <2>1, <2>2, <2>5, <3>1, <3>2
  <2> QED
    BY <2>4, <2>5
<1> QED
  BY <1>1, <1>2, <1>4, <1>7, <1>8, <1>9 DEF CreateIfNotExists

\* The job that a scan has looked at exists, unless its creation failed.
LEMMA ScanStarts ==
    ASSUME BaseInv, CreateEager \/ CreateFirst, "create" \notin Faults
    PROVE  jobs'[ScanNext] # "absent" \/ ScanNext \in scan.done
<1>1. ScanNext \in Jobs
  BY ScanCreates
<1>2. \E isNew \in BOOLEAN : CreateIfNotExists(ScanNext, scan.done, isNew)
  BY Zenon DEF CreateEager, CreateFirst
<1> QED
  BY <1>1, <1>2, CreateStarts DEF BaseInv

\* JobCompletes.
LEMMA Completes ==
    ASSUME BaseInv, NEW j \in Jobs, JobCompletes(j)
    PROVE  /\ UNCHANGED <<results, scan, tracker, maps, jobQueue, worker,
                          panicked, crashes>>
           /\ jobs[j] = "active" /\ jobs' = [jobs EXCEPT ![j] = "complete"]
           /\ "fast" \in Faults \/ Tracked(BenchmarkOf(j))
           /\ pending' = IF tracker = "synced" THEN Append(pending, j)
                         ELSE pending
           /\ early' = IF tracker = "synced" /\ ~Tracked(BenchmarkOf(j))
                       THEN early \cup {BenchmarkOf(j)} ELSE early
           /\ j \notin InFlight /\ Active' = Active \ {j}
           /\ \/ /\ tracker = "synced" /\ InFlight' = InFlight \cup {j}
                 /\ Coming' = Coming \cup {j}
              \/ /\ "fast" \in Faults
                 /\ InFlight' = InFlight /\ Coming' = Coming
<1>1. /\ UNCHANGED <<results, scan, tracker, maps, jobQueue, worker,
                     panicked, crashes>>
      /\ jobs[j] = "active" /\ jobs' = [jobs EXCEPT ![j] = "complete"]
      /\ "fast" \in Faults \/ Tracked(BenchmarkOf(j))
      /\ pending' = IF tracker = "synced" THEN Append(pending, j) ELSE pending
      /\ early' = IF tracker = "synced" /\ ~Tracked(BenchmarkOf(j))
                  THEN early \cup {BenchmarkOf(j)} ELSE early
  BY DEF JobCompletes
<1>2. jobs \in [Jobs -> JobStates] /\ pending \in Seq(Jobs)
  BY DEF BaseInv, TypeOK, ClusterOK, QueuesOK
<1>3. Active' = Active \ {j}
  BY <1>1, <1>2 DEF Active
<1>4. j \notin InFlight
  BY <1>1 DEF BaseInv, FlightOK
<1>5. CASE tracker = "synced"
  <2>1. Range(pending') = Range(pending) \cup {j}
    BY <1>1, <1>2, <1>5, RangeAppend
  <2>2. InFlight' = InFlight \cup {j} /\ Coming' = Coming \cup {j}
    BY <1>1, <2>1 DEF InFlight, Coming
  <2> QED
    BY <1>1, <1>3, <1>4, <1>5, <2>2
<1>6. CASE tracker # "synced"
  <2>1. "fast" \in Faults
    BY <1>1, <1>6 DEF Tracked
  <2>2. InFlight' = InFlight /\ Coming' = Coming
    BY <1>1, <1>6, SameSets
  <2> QED
    BY <1>1, <1>3, <1>4, <2>1, <2>2
<1> QED
  BY <1>5, <1>6

\* JobFails and JobCleanedUp: neither is on its way.
LEMMA Goes ==
    ASSUME BaseInv, NEW j \in Jobs, JobFails(j) \/ JobCleanedUp(j)
    PROVE  /\ UNCHANGED <<results, scan, tracker, maps, queues, worker,
                          panicked, crashes>>
           /\ j \notin InFlight /\ Active' \subseteq Active
           /\ \/ /\ "jobfail" \in Faults /\ jobs[j] = "active"
                 /\ jobs' = [jobs EXCEPT ![j] = "failed"]
                 /\ Active' = Active \ {j}
              \/ /\ "cleanup" \in Faults \/ ("expire" \in Faults /\ j \in results)
                 /\ jobs[j] = "complete"
                 /\ jobs' = [jobs EXCEPT ![j] = "absent"]
                 /\ Active' = Active
<1>1. jobs \in [Jobs -> JobStates]
  BY DEF BaseInv, TypeOK, ClusterOK
<1>2. CASE JobFails(j)
  <2>1. /\ UNCHANGED <<results, scan, tracker, maps, queues, worker,
                       panicked, crashes>>
        /\ "jobfail" \in Faults /\ jobs[j] = "active"
        /\ jobs' = [jobs EXCEPT ![j] = "failed"]
    BY <1>2 DEF JobFails
  <2>2. j \notin InFlight
    BY <2>1 DEF BaseInv, FlightOK
  <2>3. Active' = Active \ {j}
    BY <1>1, <2>1 DEF Active
  <2> QED
    BY <2>1, <2>2, <2>3
<1>3. CASE JobCleanedUp(j)
  <2>1. /\ UNCHANGED <<results, scan, tracker, maps, queues, worker,
                       panicked, crashes>>
        /\ "cleanup" \in Faults \/ ("expire" \in Faults /\ j \in results)
        /\ jobs[j] = "complete" /\ jobs' = [jobs EXCEPT ![j] = "absent"]
        /\ j \notin Range(pending) \cup Range(jobQueue) \cup {worker.job}
    BY <1>3 DEF JobCleanedUp
  <2>2. j \notin InFlight
    BY <2>1 DEF InFlight
  <2>3. Active' = Active
    BY <1>1, <2>1 DEF Active
  <2> QED
    BY <2>1, <2>2, <2>3
<1> QED
  BY <1>2, <1>3

\* UpdateFunc and WorkerTake move a completion along.
LEMMA MovesOn ==
    ASSUME BaseInv, UpdateFunc \/ WorkerTake
    PROVE  /\ UNCHANGED <<jobs, results, scan, tracker, maps, panicked, crashes>>
           /\ InFlight' = InFlight /\ Coming' = Coming
           /\ worker'.pc = "create" => worker.pc = "create"
           /\ UNCHANGED worker \/ (worker'.pc = "process" /\ worker.pc = "idle")
           /\ Listed' = Listed
<1>1. /\ pending \in Seq(Jobs) /\ jobQueue \in Seq(Jobs)
      /\ Once(pending) /\ Once(jobQueue)
  BY DEF BaseInv, TypeOK, QueuesOK, FlightOK
<1>2. CASE UpdateFunc
  <2>1. /\ UNCHANGED <<jobs, results, scan, tracker, maps, worker, panicked,
                       crashes>>
        /\ pending # <<>> /\ pending' = Tail(pending)
        /\ jobQueue' = Append(jobQueue, Head(pending))
    BY <1>2 DEF UpdateFunc, cluster
  <2>2. /\ Head(pending) \in Jobs /\ Head(pending) \in Range(pending)
        /\ Range(pending') = Range(pending) \ {Head(pending)}
    BY <1>1, <2>1, TailFacts, OnceTail
  <2>3. Range(jobQueue') = Range(jobQueue) \cup {Head(pending)}
    BY <1>1, <2>1, <2>2, RangeAppend
  <2>4. InFlight' = InFlight /\ Coming' = Coming
    BY <2>1, <2>2, <2>3 DEF InFlight, Coming
  <2>5. Listed' = Listed
    BY <2>1, SameSets DEF maps
  <2> QED
    BY <2>1, <2>4, <2>5
<1>3. CASE WorkerTake
  <2>1. /\ UNCHANGED <<jobs, results, scan, tracker, maps, pending, panicked,
                       crashes>>
        /\ worker.pc = "idle" /\ jobQueue # <<>> /\ jobQueue' = Tail(jobQueue)
        /\ worker'.pc = "process" /\ worker'.job = Head(jobQueue)
    BY <1>3 DEF WorkerTake, IdleWorker, cluster
  <2>2. /\ Head(jobQueue) \in Jobs /\ Head(jobQueue) \in Range(jobQueue)
        /\ Range(jobQueue') = Range(jobQueue) \ {Head(jobQueue)}
    BY <1>1, <2>1, TailFacts, OnceTail
  <2>3. InFlight' = InFlight /\ Coming' = Coming
    BY <2>1, <2>2 DEF InFlight, Coming
  <2>4. Listed' = Listed
    BY <2>1, SameSets DEF maps, Listed
  <2> QED
    BY <2>1, <2>3, <2>4
<1> QED
  BY <1>2, <1>3

\* WorkerCollect and WorkerReadDR: the worker goes on with its job.
LEMMA WorkerGoesOn ==
    ASSUME BaseInv, WorkerCollect \/ WorkerReadDR
    PROVE  /\ UNCHANGED <<jobs, scan, tracker, maps, queues, panicked, crashes>>
           /\ worker.job \in InFlight /\ worker'.job = worker.job
           /\ InFlight' = InFlight /\ Coming' = Coming /\ Listed' = Listed
           /\ \/ /\ worker.pc = "process" /\ worker'.pc = "deploy"
                 /\ \/ results' = results \cup {worker.job}
                    \/ results' = results
              \/ /\ worker.pc = "deploy" /\ worker'.pc = "pop"
                 /\ results' = results
                 /\ worker'.dr = IF BenchmarkOf(worker.job) \in drMap
                                 THEN "ok" ELSE "nil"
<1>1. /\ UNCHANGED <<jobs, scan, tracker, maps, queues, panicked, crashes>>
      /\ worker'.job = worker.job
      /\ \/ /\ worker.pc = "process" /\ worker'.pc = "deploy"
            /\ results' = results \cup {worker.job} \/ results' = results
         \/ /\ worker.pc = "deploy" /\ worker'.pc = "pop"
            /\ results' = results
            /\ worker'.dr = IF BenchmarkOf(worker.job) \in drMap
                            THEN "ok" ELSE "nil"
  <2>1. CASE WorkerCollect
    BY <2>1 DEF WorkerCollect, BaseInv, TypeOK, WorkerOK
  <2>2. CASE WorkerReadDR
    <3>0. PICK d : d = IF BenchmarkOf(worker.job) \in drMap
                       THEN "ok" ELSE "nil"
      OBVIOUS
    <3>1. worker' = [worker EXCEPT !.pc = "pop", !.dr = d]
      BY <2>2, <3>0, Zenon DEF WorkerReadDR
    <3>2. /\ worker'.pc = "pop" /\ worker'.job = worker.job
          /\ worker'.dr = d
      BY <3>1 DEF BaseInv, TypeOK, WorkerOK
    <3> QED
      BY <2>2, <3>0, <3>2, Zenon DEF WorkerReadDR, cluster
  <2> QED
    BY <2>1, <2>2
<1>2. worker.job \in Jobs /\ worker.job \in InFlight
  BY <1>1 DEF InFlight, BaseInv, TypeOK, WorkerOK
<1>3. InFlight' = InFlight /\ Coming' = Coming
  BY <1>1 DEF InFlight, Coming, queues
<1>4. Listed' = Listed
  BY <1>1, SameSets DEF Listed, maps
<1> QED
  BY <1>1, <1>2, <1>3, <1>4

\* WorkerSkip.
LEMMA WorkerGivesUp ==
    ASSUME BaseInv, WorkerSkip
    PROVE  /\ UNCHANGED <<jobs, results, scan, tracker, maps, queues, panicked,
                          crashes>>
           /\ "nopods" \in Faults /\ worker.pc = "process"
           /\ worker' = IdleWorker
           /\ InFlight' = InFlight \ {worker.job}
           /\ Coming' = Coming \ {worker.job} /\ Listed' = Listed
<1>1. /\ UNCHANGED <<jobs, results, scan, tracker, maps, queues, panicked,
                     crashes>>
      /\ "nopods" \in Faults /\ worker.pc = "process" /\ worker' = IdleWorker
  BY DEF WorkerSkip, cluster
<1>2. worker'.pc = "idle"
  BY <1>1 DEF IdleWorker
<1>3. worker.job \notin Range(pending) \cup Range(jobQueue)
  BY <1>1 DEF BaseInv, FlightOK
<1>4. InFlight' = InFlight \ {worker.job} /\ Coming' = Coming \ {worker.job}
  BY <1>1, <1>2, <1>3 DEF InFlight, Coming, queues
<1>5. Listed' = Listed
  BY <1>1, <1>2, SameSets DEF Listed, maps
<1> QED
  BY <1>1, <1>4, <1>5

\* The benchmark of the worker's job, and the first that waits of its jobs.
Its    == BenchmarkOf(worker.job)
NextUp == Head(waitingJobMap[Its])

\* WorkerPop: the worker has nothing to do, takes a job, or panics.
LEMMA Pops ==
    ASSUME BaseInv, WorkerPop
    PROVE  /\ UNCHANGED <<jobs, results, scan, tracker, subscribers,
                          waitingKeys, queues, crashes>>
           /\ worker.pc = "pop" /\ worker.job \in Jobs /\ Its \in Benchmarks
           /\ worker.job \in InFlight /\ worker.job \in Coming
           /\ jobOptMap' = jobOptMap \ {worker.job}
           /\ \/ /\ worker.job \notin jobOptMap \/ Its \notin waitingKeys
                 /\ worker' = IdleWorker
                 /\ UNCHANGED <<waitingJobMap, panicked>>
                 /\ \/ UNCHANGED drMap
                    \/ Its \notin waitingKeys /\ drMap' = drMap \ {Its}
                 /\ InFlight' = InFlight \ {worker.job}
                 /\ Coming' = Coming \ {worker.job} /\ Listed' = Listed
              \/ /\ worker.job \in jobOptMap /\ Its \in waitingKeys
                 /\ waitingJobMap[Its] # <<>>
                 /\ waitingJobMap' =
                      [waitingJobMap EXCEPT ![Its] = Tail(waitingJobMap[Its])]
                 /\ UNCHANGED <<drMap, panicked>>
                 /\ NextUp \in Jobs /\ BenchmarkOf(NextUp) = Its
                 /\ NextUp \in Range(waitingJobMap[Its]) /\ NextUp \in Listed
                 /\ Coming' = Coming \ {worker.job}
                 /\ \/ /\ worker'.pc = "create" /\ worker'.job = worker.job
                       /\ worker'.next = NextUp /\ worker'.dr = worker.dr
                       /\ NextUp \in jobOptMap'
                       /\ InFlight' = InFlight /\ Listed' = Listed
                    \/ /\ worker' = IdleWorker /\ NextUp \notin jobOptMap'
                       /\ InFlight' = InFlight \ {worker.job}
                       /\ Listed' = Listed \ {NextUp}
              \/ /\ worker.job \in jobOptMap /\ Its \in waitingKeys
                 /\ waitingJobMap[Its] = <<>> /\ panicked' = TRUE
                 /\ UNCHANGED <<waitingJobMap, drMap, worker>>
                 /\ InFlight' = InFlight /\ Coming' = Coming /\ Listed' = Listed
<1>1. /\ UNCHANGED <<jobs, results, scan, tracker, subscribers,
                     waitingKeys, queues, crashes>>
      /\ worker.pc = "pop"
      /\ jobOptMap' = jobOptMap \ {worker.job}
  BY Zenon DEF WorkerPop, cluster
<1>2. /\ worker.job \in Jobs /\ waitingJobMap \in [Benchmarks -> Seq(Jobs)]
      /\ Its \in Benchmarks
  BY <1>1, BenchmarkOfType DEF BaseInv, TypeOK, WorkerOK, MapsOK, Its
<1>3. worker.job \in InFlight /\ worker.job \in Coming
  BY <1>1, <1>2 DEF InFlight, Coming
<1>4. worker.job \notin Range(pending) \cup Range(jobQueue)
  BY <1>1 DEF BaseInv, FlightOK
<1>5. ASSUME worker' = IdleWorker
      PROVE  /\ InFlight' = InFlight \ {worker.job}
             /\ Coming' = Coming \ {worker.job}
  <2>1. worker'.pc = "idle"
    BY <1>5 DEF IdleWorker
  <2> QED
    BY <1>1, <1>4, <2>1 DEF InFlight, Coming, queues
<1>6. ASSUME worker.job \notin jobOptMap \/ Its \notin waitingKeys,
             worker' = IdleWorker, UNCHANGED <<waitingJobMap, panicked>>,
             UNCHANGED drMap \/ (Its \notin waitingKeys /\ drMap' = drMap \ {Its})
      PROVE  /\ InFlight' = InFlight \ {worker.job}
             /\ Coming' = Coming \ {worker.job} /\ Listed' = Listed
  <2>1. worker'.pc = "idle"
    BY <1>6 DEF IdleWorker
  <2>2. Listed' = Listed
    BY <1>1, <1>6, <2>1, SameSets DEF Listed
  <2> QED
    BY <1>5, <1>6, <2>2
<1>7. ASSUME worker.job \in jobOptMap, Its \in waitingKeys,
             waitingJobMap[Its] # <<>>,
             waitingJobMap' =
               [waitingJobMap EXCEPT ![Its] = Tail(waitingJobMap[Its])]
      PROVE  /\ NextUp \in Jobs /\ BenchmarkOf(NextUp) = Its
             /\ NextUp \in Range(waitingJobMap[Its]) /\ NextUp \in Listed
             /\ NextUp \in InList /\ InList' = InList \ {NextUp}
  <2>1. PICK b \in Benchmarks : b = Its
    BY <1>2
  <2>2. /\ waitingJobMap[b] \in Seq(Jobs) /\ Ordered(waitingJobMap[b], b)
        /\ b \in subscribers
    BY <1>2, <1>7, <2>1 DEF BaseInv, MapListsOK
  <2>3. /\ NextUp \in Jobs /\ BenchmarkOf(NextUp) = b
        /\ NextUp \in Range(waitingJobMap[b])
        /\ Range(Tail(waitingJobMap[b])) = Range(waitingJobMap[b]) \ {NextUp}
    BY <1>7, <2>1, <2>2, OrderedTail DEF NextUp
  <2>4. scan.pc \in {"rest", "waiting"} => NextUp \notin Range(scan.waitingJob)
    <3>1. scan.waitingJob \in Seq(Jobs)
      BY DEF BaseInv, TypeOK, ScanOK
    <3>2. SUFFICES ASSUME scan.pc \in {"rest", "waiting"},
                          NEW m \in 1..Len(scan.waitingJob),
                          scan.waitingJob[m] = NextUp
                   PROVE  FALSE
      BY <3>1, InRange
    <3>3. scan.b = b
      BY <2>3, <3>2 DEF BaseInv, ScanListOK, Ordered
    <3> QED
      BY <2>2, <3>2, <3>3 DEF BaseInv, PhaseOK
  <2>5. \A j \in Jobs :
          Range(waitingJobMap'[BenchmarkOf(j)]) =
            IF BenchmarkOf(j) = b THEN Range(waitingJobMap[b]) \ {NextUp}
            ELSE Range(waitingJobMap[BenchmarkOf(j)])
    BY <1>2, <1>7, <2>1, <2>3, BenchmarkOfType
  <2>6. InList' = InList \ {NextUp}
    BY <1>1, <2>3, <2>4, <2>5 DEF InList
  <2>7. NextUp \in InList
    BY <2>3 DEF InList
  <2> QED
    BY <2>1, <2>3, <2>6, <2>7 DEF Listed
<1>8. ASSUME worker.job \in jobOptMap, Its \in waitingKeys,
             waitingJobMap[Its] # <<>>,
             waitingJobMap' =
               [waitingJobMap EXCEPT ![Its] = Tail(waitingJobMap[Its])],
             worker' = [worker EXCEPT !.pc = "create", !.next = NextUp],
             NextUp \in jobOptMap \ {worker.job}
      PROVE  /\ worker'.pc = "create" /\ worker'.job = worker.job
             /\ worker'.next = NextUp /\ worker'.dr = worker.dr
             /\ NextUp \in jobOptMap' /\ Coming' = Coming \ {worker.job}
             /\ InFlight' = InFlight /\ Listed' = Listed
  <2>1. /\ worker'.pc = "create" /\ worker'.job = worker.job
        /\ worker'.next = NextUp /\ worker'.dr = worker.dr
    BY <1>8 DEF BaseInv, TypeOK, WorkerOK
  <2>2. InFlight' = InFlight /\ Coming' = Coming \ {worker.job}
    BY <1>1, <1>4, <2>1 DEF InFlight, Coming, queues
  <2>3. Listed' = Listed
    BY <1>1, <1>7, <1>8, <2>1 DEF Listed
  <2> QED
    BY <1>1, <1>8, <2>1, <2>2, <2>3
<1>9. ASSUME worker.job \in jobOptMap, Its \in waitingKeys,
             waitingJobMap[Its] # <<>>,
             waitingJobMap' =
               [waitingJobMap EXCEPT ![Its] = Tail(waitingJobMap[Its])],
             worker' = IdleWorker
      PROVE  /\ Coming' = Coming \ {worker.job}
             /\ InFlight' = InFlight \ {worker.job}
             /\ Listed' = Listed \ {NextUp}
  <2>1. worker'.pc = "idle"
    BY <1>9 DEF IdleWorker
  <2> QED
    BY <1>1, <1>5, <1>7, <1>9, <2>1 DEF Listed
<1>10. ASSUME UNCHANGED <<waitingJobMap, drMap, worker>>
       PROVE  InFlight' = InFlight /\ Coming' = Coming /\ Listed' = Listed
  BY <1>1, <1>10, SameSets DEF queues
<1>11. \/ /\ worker.job \notin jobOptMap \/ Its \notin waitingKeys
          /\ worker' = IdleWorker
          /\ UNCHANGED <<waitingJobMap, panicked>>
          /\ \/ UNCHANGED drMap
             \/ Its \notin waitingKeys /\ drMap' = drMap \ {Its}
       \/ /\ worker.job \in jobOptMap /\ Its \in waitingKeys
          /\ waitingJobMap[Its] # <<>>
          /\ waitingJobMap' =
               [waitingJobMap EXCEPT ![Its] = Tail(waitingJobMap[Its])]
          /\ UNCHANGED <<drMap, panicked>>
          /\ \/ /\ NextUp \in jobOptMap \ {worker.job}
                /\ worker' = [worker EXCEPT !.pc = "create", !.next = NextUp]
             \/ /\ NextUp \notin jobOptMap \ {worker.job}
                /\ worker' = IdleWorker
       \/ /\ worker.job \in jobOptMap /\ Its \in waitingKeys
          /\ waitingJobMap[Its] = <<>> /\ panicked' = TRUE
          /\ UNCHANGED <<waitingJobMap, drMap, worker>>
  BY Zenon DEF WorkerPop, Its, NextUp
<1>12. CASE /\ worker.job \notin jobOptMap \/ Its \notin waitingKeys
            /\ worker' = IdleWorker
            /\ UNCHANGED <<waitingJobMap, panicked>>
            /\ \/ UNCHANGED drMap
               \/ Its \notin waitingKeys /\ drMap' = drMap \ {Its}
  BY <1>1, <1>2, <1>3, <1>6, <1>12
<1>13. CASE /\ worker.job \in jobOptMap /\ Its \in waitingKeys
            /\ waitingJobMap[Its] # <<>>
            /\ waitingJobMap' =
                 [waitingJobMap EXCEPT ![Its] = Tail(waitingJobMap[Its])]
            /\ UNCHANGED <<drMap, panicked>>
            /\ \/ /\ NextUp \in jobOptMap \ {worker.job}
                  /\ worker' = [worker EXCEPT !.pc = "create", !.next = NextUp]
               \/ /\ NextUp \notin jobOptMap \ {worker.job}
                  /\ worker' = IdleWorker
  BY <1>1, <1>2, <1>3, <1>7, <1>8, <1>9, <1>13
<1>14. CASE /\ worker.job \in jobOptMap /\ Its \in waitingKeys
            /\ waitingJobMap[Its] = <<>> /\ panicked' = TRUE
            /\ UNCHANGED <<waitingJobMap, drMap, worker>>
  BY <1>1, <1>2, <1>3, <1>10, <1>14
<1> QED
  BY <1>11, <1>12, <1>13, <1>14

\* WorkerCreate: the job taken off the list runs if it did not exist and has
\* no result.
LEMMA Deploys ==
    ASSUME BaseInv, WorkerCreate
    PROVE  /\ UNCHANGED <<results, scan, tracker, subscribers, waitingJobMap,
                          jobOptMap, queues, panicked, crashes>>
           /\ worker.pc = "create" /\ worker' = IdleWorker
           /\ worker.job \in Jobs /\ worker.next \in Jobs
           /\ worker.job \in InFlight /\ Its \in Benchmarks
           /\ Its \in subscribers /\ BenchmarkOf(worker.next) = Its
           /\ worker.next \in Listed /\ worker.next \notin Eager
           /\ InFlight' = InFlight \ {worker.job} /\ Coming' = Coming
           /\ Listed' = Listed \ {worker.next}
           /\ \/ waitingJobMap[Its] # <<>> /\ UNCHANGED <<waitingKeys, drMap>>
              \/ /\ waitingJobMap[Its] = <<>>
                 /\ waitingKeys' = waitingKeys \ {Its}
                 /\ drMap' = drMap \ {Its}
           /\ \/ jobs' = jobs
              \/ /\ jobs[worker.next] = "absent" /\ worker.next \notin results
                 /\ jobs' = [jobs EXCEPT ![worker.next] = "active"]
           /\ "create" \notin Faults =>
                jobs'[worker.next] # "absent" \/ worker.next \in results
<1>1. /\ UNCHANGED <<results, scan, tracker, subscribers, waitingJobMap,
                     jobOptMap, queues, panicked, crashes>>
      /\ worker.pc = "create" /\ worker' = IdleWorker
  BY Zenon DEF WorkerCreate
<1>2. \/ waitingJobMap[Its] # <<>> /\ UNCHANGED <<waitingKeys, drMap>>
      \/ /\ waitingJobMap[Its] = <<>>
         /\ waitingKeys' = waitingKeys \ {Its}
         /\ drMap' = drMap \ {Its}
  BY DEF WorkerCreate, Its
<1>3. /\ worker.job \in Jobs /\ worker.next \in Jobs /\ Its \in Benchmarks
      /\ BenchmarkOf(worker.next) = Its /\ Its \in subscribers
      /\ worker.next \notin Eager /\ worker.next \in Listed
  BY <1>1, BenchmarkOfType
  DEF BaseInv, TypeOK, WorkerOK, NextJobOK, MapListsOK, Its, Listed
<1>4. PICK isNew \in BOOLEAN : CreateIfNotExists(worker.next, results, isNew)
  BY Zenon DEF WorkerCreate
<1>5. /\ \/ jobs' = jobs
         \/ /\ jobs[worker.next] = "absent" /\ worker.next \notin results
            /\ jobs' = [jobs EXCEPT ![worker.next] = "active"]
      /\ "create" \notin Faults =>
           jobs'[worker.next] # "absent" \/ worker.next \in results
  <2>1. PICK n \in Jobs : n = worker.next
    BY <1>3
  <2>2. CreateIfNotExists(n, results, isNew)
    BY <1>4, <2>1
  <2>3. \/ jobs' = jobs
        \/ /\ jobs[n] = "absent" /\ n \notin results
           /\ jobs' = [jobs EXCEPT ![n] = "active"]
    BY <2>2, CreateFacts
  <2>4. "create" \notin Faults => jobs'[n] # "absent" \/ n \in results
    BY <2>2, CreateStarts DEF BaseInv
  <2> QED
    BY <2>1, <2>3, <2>4
<1>6. worker'.pc = "idle"
  BY <1>1 DEF IdleWorker
<1>7. /\ worker.job \in InFlight /\ InFlight' = InFlight \ {worker.job}
      /\ Coming' = Coming
  BY <1>1, <1>3, <1>6 DEF InFlight, Coming, queues, BaseInv, FlightOK
<1>8. worker.next \notin InList
  <2>1. PICK b \in Benchmarks : b = Its
    BY <1>3
  <2>2. /\ waitingJobMap[b] \in Seq(Jobs) /\ scan.waitingJob \in Seq(Jobs)
    BY DEF BaseInv, TypeOK, MapsOK, ScanOK
  <2>3. \A m \in 1..Len(waitingJobMap[b]) :
          Place(worker.next) < Place(waitingJobMap[b][m])
    BY <1>1, <2>1 DEF BaseInv, NextJobOK, Its
  <2>4. worker.next \notin Range(waitingJobMap[b])
    <3>1. \A m \in 1..Len(waitingJobMap[b]) : waitingJobMap[b][m] # worker.next
      BY <1>3, <2>3, PlaceType
    <3> QED
      BY <2>2, <3>1, InRange
  <2>5. ASSUME scan.pc \in {"rest", "waiting"}
        PROVE  worker.next \notin Range(scan.waitingJob)
    <3>1. scan.b # b
      BY <1>3, <2>1, <2>5 DEF BaseInv, PhaseOK
    <3>2. \A m \in 1..Len(scan.waitingJob) :
            BenchmarkOf(scan.waitingJob[m]) = scan.b
      BY <2>5 DEF BaseInv, ScanListOK, Ordered
    <3> QED
      BY <1>3, <2>1, <2>2, <3>1, <3>2, InRange
  <2> QED
    BY <1>3, <2>1, <2>4, <2>5 DEF InList
<1>9. Listed' = Listed \ {worker.next}
  BY <1>1, <1>6, <1>8, SameSets DEF Listed
<1> QED
  BY <1>1, <1>2, <1>3, <1>5, <1>7, <1>9

\* WorkerCreateNil and InformerSync leave the sets as they are.
LEMMA NothingMoves ==
    ASSUME BaseInv, WorkerCreateNil \/ InformerSync
    PROVE  /\ UNCHANGED <<jobs, results, scan, maps, queues, worker, crashes>>
           /\ InFlight' = InFlight /\ Coming' = Coming /\ Listed' = Listed
           /\ Scanned' = Scanned
           /\ \/ /\ panicked' = TRUE /\ UNCHANGED tracker
                 /\ worker.pc = "create" /\ worker.dr = "nil"
              \/ UNCHANGED panicked
<1>1. /\ UNCHANGED <<jobs, results, scan, maps, queues, worker, crashes>>
      /\ \/ /\ panicked' = TRUE /\ UNCHANGED tracker
            /\ worker.pc = "create" /\ worker.dr = "nil"
         \/ UNCHANGED panicked
  BY DEF WorkerCreateNil, InformerSync, cluster
<1> QED
  BY <1>1, SameSets DEF maps, queues

\* Crash: only the cluster is left.
LEMMA Restarts ==
    ASSUME Crash
    PROVE  /\ UNCHANGED <<jobs, results, panicked>> /\ "crash" \in Faults
           /\ scan' = IdleScan /\ worker' = IdleWorker /\ subscribers' = {}
           /\ waitingJobMap' = [b \in Benchmarks |-> <<>>]
           /\ waitingKeys' = {} /\ drMap' = {} /\ jobOptMap' = {}
           /\ pending' = <<>> /\ jobQueue' = <<>>
           /\ Scanned' = {} /\ Listed' = {} /\ InFlight' = {} /\ Coming' = {}
<1>1. /\ UNCHANGED <<jobs, results, panicked>> /\ "crash" \in Faults
      /\ scan' = IdleScan /\ worker' = IdleWorker /\ subscribers' = {}
      /\ waitingJobMap' = [b \in Benchmarks |-> <<>>]
      /\ waitingKeys' = {} /\ drMap' = {} /\ jobOptMap' = {}
      /\ pending' = <<>> /\ jobQueue' = <<>>
  BY DEF Crash, cluster
<1>2. scan'.pc = "idle" /\ scan'.b = None /\ worker'.pc = "idle"
  BY <1>1 DEF IdleScan, IdleWorker
<1>3. Range(<<>>) = {}
  BY DEF Range
<1>4. InFlight' = {} /\ Coming' = {}
  BY <1>1, <1>2, <1>3 DEF InFlight, Coming
<1>5. \A j \in Jobs : BenchmarkOf(j) # None /\ BenchmarkOf(j) \in Benchmarks
  BY BenchmarkOfType, JobsAssumption
<1>6. Scanned' = {}
  BY <1>1, <1>2, <1>5 DEF Scanned
<1>7. InList' = {}
  BY <1>1, <1>2, <1>3, <1>5 DEF InList
<1>8. Listed' = {}
  BY <1>2, <1>7 DEF Listed
<1> QED
  BY <1>1, <1>4, <1>6, <1>8

\* The reconciler touches no completion; it creates at most the job that its
\* scan looks at.
LEMMA ReconcilerMoves ==
    ASSUME BaseInv, Reconciler
    PROVE  /\ UNCHANGED <<results, pending, jobQueue, worker, panicked, crashes>>
           /\ InFlight' = InFlight /\ Coming' = Coming
           /\ \/ jobs' = jobs /\ Active' = Active
              \/ /\ ScanNext \in Jobs /\ BenchmarkOf(ScanNext) = scan.b
                 /\ ScanNext \notin Scanned /\ ScanNext \notin InFlight
                 /\ jobs[ScanNext] = "absent" /\ ScanNext \notin scan.done
                 /\ jobs' = [jobs EXCEPT ![ScanNext] = "active"]
                 /\ Active' = Active \cup {ScanNext}
<1>1. ASSUME UNCHANGED <<results, queues, worker, panicked, crashes>>
      PROVE  /\ UNCHANGED <<results, pending, jobQueue, worker, panicked,
                            crashes>>
             /\ InFlight' = InFlight /\ Coming' = Coming
             /\ jobs' = jobs => Active' = Active
  BY <1>1, SameSets DEF queues
<1>2. ASSUME NEW b \in Benchmarks, CreateFromOperator(b)
      PROVE  UNCHANGED <<results, queues, worker, panicked, crashes, jobs>>
  BY <1>2, ScanBegins
<1>3. CASE LeaveWaiting
  BY <1>1, <1>3, ScanLeaves
<1>4. CASE NewTracker
  BY <1>1, <1>4, ScanEnds
<1>5. CASE SubscribeWaiting
  BY <1>1, <1>5, Subscribes
<1>6. CASE SubscribeDR \/ SubscribeOpt
  BY <1>1, <1>6, StoresMaps
<1>7. CASE CreateEager \/ CreateFirst
  <2>1. UNCHANGED <<results, queues, worker, panicked, crashes>>
    BY <1>7, ScanCreates
  <2>2. \/ jobs' = jobs
        \/ /\ ScanNext \in Jobs /\ BenchmarkOf(ScanNext) = scan.b
           /\ ScanNext \notin Scanned
           /\ jobs[ScanNext] = "absent" /\ ScanNext \notin scan.done
           /\ jobs' = [jobs EXCEPT ![ScanNext] = "active"]
    BY <1>7, ScanCreates
  <2>3. ASSUME ScanNext \in Jobs, jobs[ScanNext] = "absent",
               jobs' = [jobs EXCEPT ![ScanNext] = "active"]
        PROVE  /\ ScanNext \notin InFlight
               /\ Active' = Active \cup {ScanNext}
    BY <2>3 DEF Active, BaseInv, FlightOK, TypeOK, ClusterOK
  <2> QED
    BY <1>1, <2>1, <2>2, <2>3
<1> QED
  BY <1>1, <1>2, <1>3, <1>4, <1>5, <1>6, <1>7 DEF Reconciler

LEMMA StutterMoves ==
    ASSUME UNCHANGED vars
    PROVE  /\ UNCHANGED <<jobs, results, scan, tracker, subscribers,
                          waitingJobMap, waitingKeys, drMap, jobOptMap,
                          pending, jobQueue, worker, panicked, crashes>>
           /\ InFlight' = InFlight /\ Coming' = Coming /\ Active' = Active
           /\ Scanned' = Scanned /\ Listed' = Listed /\ OptsLeft' = OptsLeft
           /\ Started' = Started /\ Finished' = Finished
<1>1. UNCHANGED <<jobs, results, scan, tracker, subscribers,
                  waitingJobMap, waitingKeys, drMap, jobOptMap,
                  pending, jobQueue, worker, panicked, crashes>>
  BY DEF vars, cluster, maps, queues
<1> QED
  BY <1>1, SameSets

\* The channels hold what they held, and the worker its job or none.
LEMMA SameChannels ==
    ASSUME FlightOK, UNCHANGED <<pending, jobQueue>>,
           worker'.pc = "idle" \/ (worker.pc # "idle" /\ worker'.job = worker.job),
           \A j \in InFlight' : jobs'[j] = "complete"
    PROVE  FlightOK'
  BY DEF FlightOK

LEMMA FlightNext ==
    ASSUME BaseInv, TypeOK', [Next]_vars
    PROVE  FlightOK'
<1>0. /\ FlightOK /\ jobs \in [Jobs -> JobStates]
      /\ \A j \in InFlight : jobs[j] = "complete" /\ j \in Jobs
      /\ pending \in Seq(Jobs) /\ jobQueue \in Seq(Jobs)
  BY DEF BaseInv, FlightOK, TypeOK, ClusterOK, QueuesOK, InFlight
<1>1. CASE Reconciler
  <2>1. UNCHANGED <<pending, jobQueue, worker>> /\ InFlight' = InFlight
    BY <1>1, ReconcilerMoves
  <2>2. \A j \in InFlight' : jobs'[j] = "complete"
    BY <1>0, <1>1, ReconcilerMoves
  <2> QED
    BY <1>0, <2>1, <2>2 DEF FlightOK
<1>2. ASSUME NEW j \in Jobs, JobCompletes(j) PROVE FlightOK'
  <2>1. \A k \in InFlight' : jobs'[k] = "complete"
    BY <1>0, <1>2, Completes
  <2>2. UNCHANGED <<jobQueue, worker>> /\ j \notin InFlight
    BY <1>2, Completes
  <2>3. /\ j \notin Range(pending) \cup Range(jobQueue)
        /\ worker.pc # "idle" => worker.job # j
    BY <2>2 DEF InFlight
  <2>4. CASE pending' = pending
    BY <1>0, <2>1, <2>2, <2>4 DEF FlightOK
  <2>5. CASE pending' = Append(pending, j)
    <3>1. Once(pending') /\ Range(pending') = Range(pending) \cup {j}
      BY <1>0, <2>3, <2>5, OnceAppend, RangeAppend DEF FlightOK
    <3> QED
      BY <1>0, <2>1, <2>2, <2>3, <3>1 DEF FlightOK
  <2> QED
    BY <1>2, <2>4, <2>5, Completes
<1>3. ASSUME NEW j \in Jobs, JobFails(j) \/ JobCleanedUp(j) PROVE FlightOK'
  <2>1. UNCHANGED <<pending, jobQueue, worker>> /\ j \notin InFlight
    BY <1>3, Goes DEF queues
  <2>2. InFlight' = InFlight
    BY <2>1, SameSets
  <2>3. \A k \in InFlight' : jobs'[k] = "complete"
    BY <1>0, <1>3, <2>1, <2>2, Goes
  <2> QED
    BY <1>0, <2>1, <2>3 DEF FlightOK
<1>4. CASE UpdateFunc
  <2>1. \A j \in InFlight' : jobs'[j] = "complete"
    BY <1>0, <1>4, MovesOn
  <2>2. /\ pending # <<>> /\ pending' = Tail(pending) /\ UNCHANGED worker
        /\ jobQueue' = Append(jobQueue, Head(pending))
    BY <1>4 DEF UpdateFunc
  <2>3. /\ Head(pending) \in Jobs /\ Head(pending) \in Range(pending)
        /\ Once(pending') /\ Range(pending') = Range(pending) \ {Head(pending)}
    BY <1>0, <2>2, TailFacts, OnceTail DEF FlightOK
  <2>4. /\ Once(jobQueue')
        /\ Range(jobQueue') = Range(jobQueue) \cup {Head(pending)}
    BY <1>0, <2>2, <2>3, OnceAppend, RangeAppend DEF FlightOK
  <2> QED
    BY <1>0, <2>1, <2>2, <2>3, <2>4 DEF FlightOK
<1>5. CASE WorkerTake
  <2>1. \A j \in InFlight' : jobs'[j] = "complete"
    BY <1>0, <1>5, MovesOn
  <2>2. /\ jobQueue # <<>> /\ jobQueue' = Tail(jobQueue) /\ UNCHANGED pending
        /\ worker'.job = Head(jobQueue)
    BY <1>5 DEF WorkerTake, IdleWorker
  <2>3. /\ Head(jobQueue) \in Range(jobQueue) /\ Once(jobQueue')
        /\ Range(jobQueue') = Range(jobQueue) \ {Head(jobQueue)}
    BY <1>0, <2>2, OnceTail DEF FlightOK
  <2> QED
    BY <1>0, <2>1, <2>2, <2>3 DEF FlightOK
<1>6. CASE WorkerCollect \/ WorkerReadDR
  <2>1. /\ UNCHANGED <<pending, jobQueue, jobs>> /\ worker.pc # "idle"
        /\ worker'.job = worker.job /\ InFlight' = InFlight
    BY <1>6, WorkerGoesOn DEF queues
  <2> QED
    BY <1>0, <2>1, SameChannels
<1>7. CASE WorkerSkip
  <2>1. /\ UNCHANGED <<pending, jobQueue, jobs>> /\ worker'.pc = "idle"
        /\ InFlight' \subseteq InFlight
    BY <1>7, WorkerGivesUp DEF queues, IdleWorker
  <2> QED
    BY <1>0, <2>1, SameChannels
<1>8. CASE WorkerPop
  <2>1. /\ UNCHANGED <<pending, jobQueue, jobs>> /\ worker.pc # "idle"
        /\ worker'.pc = "idle" \/ worker'.job = worker.job
        /\ InFlight' \subseteq InFlight
    <3>1. UNCHANGED <<queues, jobs>> /\ worker.pc = "pop"
      BY <1>8, Pops
    <3>2. \/ worker' = IdleWorker /\ InFlight' = InFlight \ {worker.job}
          \/ worker'.job = worker.job /\ InFlight' = InFlight
          \/ worker' = worker /\ InFlight' = InFlight
      BY <1>8, Pops
    <3> QED
      BY <3>1, <3>2 DEF queues, IdleWorker
  <2> QED
    BY <1>0, <2>1, SameChannels
<1>9. CASE WorkerCreate
  <2>1. /\ UNCHANGED <<pending, jobQueue>> /\ worker'.pc = "idle"
        /\ InFlight' \subseteq InFlight /\ worker.next \in Jobs
        /\ \/ jobs' = jobs
           \/ /\ jobs[worker.next] = "absent"
              /\ jobs' = [jobs EXCEPT ![worker.next] = "active"]
    BY <1>9, Deploys DEF queues, IdleWorker
  <2>2. \A j \in InFlight' : jobs'[j] = "complete"
    BY <1>0, <2>1
  <2> QED
    BY <1>0, <2>1, <2>2, SameChannels
<1>10. CASE WorkerCreateNil \/ InformerSync
  <2>1. UNCHANGED <<pending, jobQueue, jobs, worker>> /\ InFlight' = InFlight
    BY <1>10, NothingMoves DEF queues
  <2> QED
    BY <1>0, <2>1 DEF FlightOK
<1>11. CASE Crash
  <2>1. /\ pending' = <<>> /\ jobQueue' = <<>> /\ worker'.pc = "idle"
        /\ InFlight' = {}
    BY <1>11, Restarts DEF IdleWorker
  <2>2. Once(<<>>) /\ Range(<<>>) = {}
    BY DEF Once, Range
  <2> QED
    BY <2>1, <2>2 DEF FlightOK
<1>12. CASE UNCHANGED vars
  BY <1>0, <1>12, StutterMoves DEF FlightOK
<1> QED
  BY <1>1, <1>2, <1>3, <1>4, <1>5, <1>6, <1>7, <1>8, <1>9, <1>10, <1>11, <1>12
  DEF Next, Cluster, Informer, Worker

\* Only the reconciler and a restart touch the scan and the subscribers.
LEMMA OthersKeepScan ==
    ASSUME BaseInv, Cluster \/ Informer \/ Worker \/ UNCHANGED vars
    PROVE  UNCHANGED <<scan, subscribers, Scanned>>
<1>1. UNCHANGED <<scan, subscribers>>
  <2>1. ASSUME NEW j \in Jobs, JobCompletes(j)
        PROVE  UNCHANGED <<scan, subscribers>>
    BY <2>1 DEF JobCompletes, maps
  <2>2. ASSUME NEW j \in Jobs, JobFails(j) \/ JobCleanedUp(j)
        PROVE  UNCHANGED <<scan, subscribers>>
    BY <2>2 DEF JobFails, JobCleanedUp, maps
  <2>3. CASE Informer
    BY <2>3 DEF Informer, InformerSync, UpdateFunc, maps
  <2>4. CASE WorkerTake \/ WorkerCollect \/ WorkerSkip \/ WorkerCreateNil
    BY Zenon, <2>4
    DEF WorkerTake, WorkerCollect, WorkerSkip, WorkerCreateNil, maps
  <2>5. CASE WorkerReadDR
    BY Zenon, <2>5 DEF WorkerReadDR, maps
  <2>6. CASE WorkerPop \/ WorkerCreate
    BY <2>6, Pops, Deploys
  <2>7. CASE UNCHANGED vars
    BY <2>7, StutterMoves
  <2> QED
    BY <2>1, <2>2, <2>3, <2>4, <2>5, <2>6, <2>7 DEF Cluster, Worker
<1> QED
  BY <1>1, SameSets

LEMMA PhaseNext ==
    ASSUME BaseInv, [Next]_vars
    PROVE  PhaseOK' /\ ScanListOK'
<1>0. PhaseOK /\ ScanListOK /\ scan.waitingJob \in Seq(Jobs)
  BY DEF BaseInv, TypeOK, ScanOK
<1>1. ASSUME NEW b \in Benchmarks, CreateFromOperator(b)
      PROVE  PhaseOK' /\ ScanListOK'
  <2>1. /\ scan'.pc = "first" /\ scan'.b = b /\ scan'.waitingJob = <<>>
        /\ scan'.opts = Range(JobsOf[b]) /\ b \notin subscribers'
    BY <1>1, ScanBegins DEF maps
  <2> QED
    BY <2>1 DEF PhaseOK, ScanListOK, Ordered
<1>2. CASE CreateEager \/ CreateFirst
  <2>1. /\ UNCHANGED subscribers
        /\ scan.pc \in {"first", "rest"} /\ scan'.pc \in {"first", "rest"}
        /\ scan.pc = "rest" => scan'.pc = "rest"
        /\ scan'.b = scan.b /\ scan'.i = scan.i + 1
        /\ scan'.waitingJob = scan.waitingJob /\ scan'.opts = scan.opts
    BY <1>2, ScanCreates DEF maps
  <2>2. PhaseOK'
    BY <1>0, <2>1 DEF PhaseOK
  <2>3. scan.i \in Nat /\ \A m \in 1..Len(scan.waitingJob) :
                             Place(scan.waitingJob[m]) \in Nat
    BY <1>0, PlaceType DEF BaseInv, TypeOK, ScanOK
  <2>4. ScanListOK'
    BY <1>0, <2>1, <2>3 DEF ScanListOK
  <2> QED
    BY <2>2, <2>4
<1>3. CASE LeaveWaiting
  <2>1. /\ UNCHANGED subscribers /\ scan.pc = "rest" /\ scan'.pc = "rest"
        /\ scan'.b = scan.b /\ scan'.i = scan.i + 1 /\ scan'.opts = scan.opts
        /\ ScanNext \in Jobs /\ BenchmarkOf(ScanNext) = scan.b
        /\ Place(ScanNext) = scan.i /\ ScanNext \notin Eager
        /\ \/ scan'.waitingJob = scan.waitingJob
           \/ scan'.waitingJob = Append(scan.waitingJob, ScanNext)
    BY <1>3, ScanLeaves DEF maps
  <2>2. PhaseOK'
    BY <1>0, <2>1 DEF PhaseOK
  <2>3. /\ scan.i \in Nat /\ Len(scan.waitingJob) \in Nat
        /\ Ordered(scan.waitingJob, scan.b)
        /\ \A m \in 1..Len(scan.waitingJob) :
             /\ Place(scan.waitingJob[m]) \in Nat
             /\ Place(scan.waitingJob[m]) < scan.i
    BY <1>0, <2>1, PlaceType DEF BaseInv, TypeOK, ScanOK, ScanListOK
  <2>4. CASE scan'.waitingJob = scan.waitingJob
    BY <1>0, <2>1, <2>2, <2>3, <2>4 DEF ScanListOK
  <2>5. CASE scan'.waitingJob = Append(scan.waitingJob, ScanNext)
    <3>1. PICK b \in Benchmarks, s \in Seq(Jobs), e \in Jobs :
            b = scan.b /\ s = scan.waitingJob /\ e = ScanNext
      BY <1>0, <2>1, BenchmarkOfType
    <3>2. Ordered(Append(s, e), b)
      BY <1>0, <2>1, <2>3, <3>1, OrderedAppend
    <3>3. /\ Len(Append(s, e)) = Len(s) + 1 /\ Append(s, e)[Len(s) + 1] = e
          /\ \A m \in 1..Len(s) : Append(s, e)[m] = s[m]
      BY <1>0, <3>1, AppendFacts
    <3>4. \A m \in 1..Len(Append(s, e)) : Place(Append(s, e)[m]) < scan.i + 1
      BY <2>1, <2>3, <3>1, <3>3
    <3> QED
      BY <2>1, <2>2, <2>5, <3>1, <3>2, <3>4 DEF ScanListOK
  <2> QED
    BY <2>1, <2>2, <2>4, <2>5
<1>4. CASE NewTracker
  <2>1. /\ UNCHANGED subscribers
        /\ scan.pc \in {"first", "rest"} /\ scan'.pc = "waiting"
        /\ scan.i > Len(JobsOf[scan.b]) /\ scan'.b = scan.b
        /\ scan'.i = scan.i /\ scan'.waitingJob = scan.waitingJob
        /\ scan'.opts = scan.opts
    BY <1>4, ScanEnds DEF maps
  <2> QED
    BY <1>0, <2>1 DEF PhaseOK, ScanListOK
<1>5. CASE SubscribeWaiting
  <2>1. /\ scan.pc = "waiting" /\ subscribers' = subscribers \cup {scan.b}
        /\ \/ scan' = IdleScan
           \/ /\ scan'.pc = "dr" /\ scan'.b = scan.b /\ scan'.i = scan.i
              /\ scan'.opts = scan.opts /\ scan'.waitingJob = scan.waitingJob
    BY <1>5, Subscribes
  <2>2. CASE scan' = IdleScan
    BY <2>2 DEF PhaseOK, ScanListOK, IdleScan
  <2>3. CASE /\ scan'.pc = "dr" /\ scan'.b = scan.b /\ scan'.i = scan.i
             /\ scan'.opts = scan.opts /\ scan'.waitingJob = scan.waitingJob
    BY <1>0, <2>1, <2>3 DEF PhaseOK, ScanListOK
  <2> QED
    BY <2>1, <2>2, <2>3
<1>6. CASE SubscribeDR \/ SubscribeOpt
  <2>1. /\ UNCHANGED subscribers /\ scan.pc \in {"dr", "opt"}
        /\ \/ scan' = IdleScan
           \/ /\ scan'.pc = "opt" /\ scan'.b = scan.b /\ scan'.i = scan.i
              /\ scan'.waitingJob = scan.waitingJob
    BY <1>6, StoresMaps
  <2>2. CASE scan' = IdleScan
    BY <2>2 DEF PhaseOK, ScanListOK, IdleScan
  <2>3. CASE /\ scan'.pc = "opt" /\ scan'.b = scan.b /\ scan'.i = scan.i
             /\ scan'.waitingJob = scan.waitingJob
    BY <1>0, <2>1, <2>3 DEF PhaseOK, ScanListOK
  <2> QED
    BY <2>1, <2>2, <2>3
<1>7. CASE Crash
  BY <1>7, Restarts DEF PhaseOK, ScanListOK, IdleScan
<1>8. CASE Cluster \/ Informer \/ Worker \/ UNCHANGED vars
  <2>1. UNCHANGED <<scan, subscribers>>
    BY <1>8, OthersKeepScan
  <2> QED
    BY <1>0, <2>1 DEF PhaseOK, ScanListOK
<1> QED
  BY <1>1, <1>2, <1>3, <1>4, <1>5, <1>6, <1>7, <1>8 DEF Next, Reconciler

\* The maps and the worker's step are as before, or hold at least as much.
LEMMA MapsKept ==
    ASSUME BaseInv, UNCHANGED <<waitingJobMap, waitingKeys>>,
           subscribers \subseteq subscribers', jobOptMap \subseteq jobOptMap',
           worker'.pc = "create" => worker' = worker
    PROVE  MapListsOK' /\ NextJobOK'
  BY DEF BaseInv, MapListsOK, NextJobOK

LEMMA ListsNext ==
    ASSUME BaseInv, [Next]_vars
    PROVE  MapListsOK' /\ NextJobOK'
<1>0. /\ MapListsOK /\ NextJobOK
      /\ waitingJobMap \in [Benchmarks -> Seq(Jobs)]
      /\ scan.waitingJob \in Seq(Jobs)
  BY DEF BaseInv, TypeOK, ScanOK, MapsOK
<1>1. CASE \E b \in Benchmarks : CreateFromOperator(b)
  BY <1>1, ScanBegins, MapsKept DEF maps
<1>2. CASE CreateEager \/ CreateFirst \/ LeaveWaiting \/ NewTracker
  BY <1>2, ScanCreates, ScanLeaves, ScanEnds, MapsKept DEF maps
<1>3. CASE SubscribeWaiting
  <2>1. PICK b \in Benchmarks : b = scan.b
    BY <1>3, Subscribes
  <2>2. /\ UNCHANGED <<jobOptMap, worker>> /\ scan.pc = "waiting"
        /\ b \notin subscribers /\ subscribers' = subscribers \cup {b}
    BY <1>3, <2>1, Subscribes
  <2>3. CASE UNCHANGED <<waitingJobMap, waitingKeys>>
    BY <2>2, <2>3, MapsKept
  <2>4. CASE /\ waitingJobMap' = [waitingJobMap EXCEPT ![b] = scan.waitingJob]
             /\ waitingKeys' = waitingKeys \cup {b}
    <3>1. Ordered(scan.waitingJob, b)
      BY <2>1, <2>2 DEF BaseInv, ScanListOK
    <3>2. MapListsOK'
      BY <1>0, <2>2, <2>4, <3>1 DEF MapListsOK
    <3>3. NextJobOK'
      <4>1. SUFFICES ASSUME worker.pc = "create" PROVE NextJobOK'
        BY <2>2 DEF NextJobOK
      <4>2. Its \in waitingKeys /\ Its \in Benchmarks /\ Its # b
        BY <1>0, <2>2, <4>1, BenchmarkOfType
        DEF NextJobOK, MapListsOK, Its, BaseInv, TypeOK, WorkerOK
      <4>3. waitingJobMap'[Its] = waitingJobMap[Its]
        BY <1>0, <2>4, <4>2
      <4> QED
        BY <1>0, <2>2, <2>4, <4>2, <4>3 DEF NextJobOK, Its
    <3> QED
      BY <3>2, <3>3
  <2> QED
    BY <1>3, <2>1, <2>3, <2>4, Subscribes
<1>4. CASE SubscribeDR \/ SubscribeOpt
  BY <1>4, StoresMaps, MapsKept
<1>5. CASE Cluster
  BY <1>5, Completes, Goes, MapsKept DEF Cluster, maps
<1>6. CASE Informer
  <2>1. UNCHANGED <<maps, worker>>
    BY <1>6 DEF Informer, InformerSync, UpdateFunc
  <2> QED
    BY <2>1, MapsKept DEF maps
<1>7. CASE WorkerTake \/ WorkerCollect \/ WorkerReadDR
  <2>1. UNCHANGED maps /\ worker'.pc # "create"
    <3>1. CASE WorkerTake
      BY <3>1 DEF WorkerTake, IdleWorker
    <3>2. CASE WorkerCollect \/ WorkerReadDR
      BY <3>2, WorkerGoesOn
    <3> QED
      BY <1>7, <3>1, <3>2
  <2> QED
    BY <2>1, MapsKept DEF maps
<1>8. CASE WorkerSkip \/ WorkerCreateNil
  <2>1. UNCHANGED maps /\ (worker' = IdleWorker \/ UNCHANGED worker)
    BY <1>8 DEF WorkerSkip, WorkerCreateNil
  <2>2. worker' = IdleWorker => worker'.pc = "idle"
    BY DEF IdleWorker
  <2> QED
    BY <2>1, <2>2, MapsKept DEF maps
<1>9. CASE WorkerPop
  <2>0. PICK b \in Benchmarks : b = Its
    BY <1>9, Pops
  <2>1. UNCHANGED <<subscribers, waitingKeys>> /\ worker.pc = "pop"
    BY <1>9, Pops
  <2>2. CASE UNCHANGED waitingJobMap /\ worker'.pc # "create"
    BY <1>0, <2>1, <2>2 DEF MapListsOK, NextJobOK
  <2>3. ASSUME b \in waitingKeys, waitingJobMap[b] # <<>>,
               waitingJobMap' =
                 [waitingJobMap EXCEPT ![b] = Tail(waitingJobMap[b])],
               \/ worker'.pc = "idle"
               \/ /\ worker'.pc = "create" /\ worker'.job = worker.job
                  /\ worker'.next = NextUp /\ NextUp \in jobOptMap'
        PROVE  MapListsOK' /\ NextJobOK'
    <3>1. /\ Ordered(Tail(waitingJobMap[b]), b)
          /\ BenchmarkOf(NextUp) = b /\ NextUp \notin Eager
          /\ \A m \in 1..Len(Tail(waitingJobMap[b])) :
               Place(NextUp) < Place(Tail(waitingJobMap[b])[m])
      BY <1>0, <2>0, <2>3, OrderedTail DEF MapListsOK, NextUp
    <3>2. waitingJobMap'[b] = Tail(waitingJobMap[b])
      BY <1>0, <2>3
    <3>3. MapListsOK'
      BY <1>0, <2>1, <2>3, <3>1 DEF MapListsOK
    <3>4. NextJobOK'
      BY <2>0, <2>1, <2>3, <3>1, <3>2 DEF NextJobOK, Its
    <3> QED
      BY <3>3, <3>4
  <2>4. \/ UNCHANGED waitingJobMap /\ worker'.pc # "create"
        \/ /\ b \in waitingKeys /\ waitingJobMap[b] # <<>>
           /\ waitingJobMap' =
                [waitingJobMap EXCEPT ![b] = Tail(waitingJobMap[b])]
           /\ \/ worker'.pc = "idle"
              \/ /\ worker'.pc = "create" /\ worker'.job = worker.job
                 /\ worker'.next = NextUp /\ NextUp \in jobOptMap'
    <3>1. IdleWorker.pc = "idle"
      BY DEF IdleWorker
    <3> QED
      BY <1>9, <2>0, <2>1, <3>1, Pops
  <2> QED
    BY <2>2, <2>3, <2>4
<1>10. CASE WorkerCreate
  <2>1. /\ UNCHANGED <<subscribers, waitingJobMap>> /\ worker'.pc = "idle"
        /\ \/ UNCHANGED waitingKeys
           \/ waitingJobMap[Its] = <<>> /\ waitingKeys' = waitingKeys \ {Its}
    BY <1>10, Deploys DEF IdleWorker
  <2> QED
    BY <1>0, <2>1 DEF MapListsOK, NextJobOK
<1>11. CASE Crash
  <2>1. /\ waitingJobMap' = [b \in Benchmarks |-> <<>>] /\ waitingKeys' = {}
        /\ worker'.pc = "idle"
    BY <1>11, Restarts DEF IdleWorker
  <2>2. \A b \in Benchmarks : Ordered(<<>>, b)
    BY DEF Ordered
  <2> QED
    BY <2>1, <2>2 DEF MapListsOK, NextJobOK
<1>12. CASE UNCHANGED vars
  BY <1>12, StutterMoves, MapsKept
<1> QED
  BY <1>1, <1>2, <1>3, <1>4, <1>5, <1>6, <1>7, <1>8, <1>9, <1>10, <1>11, <1>12
  DEF Next, Reconciler, Worker

LEMMA BaseInit == Init => BaseInv
<1> SUFFICES ASSUME Init PROVE BaseInv
  OBVIOUS
<1>1. /\ pending = <<>> /\ jobQueue = <<>> /\ worker.pc = "idle"
      /\ scan.pc = "idle" /\ scan.b = None /\ waitingKeys = {}
      /\ waitingJobMap = [b \in Benchmarks |-> <<>>] /\ subscribers = {}
  BY DEF Init, IdleScan, IdleWorker
<1>2. Range(<<>>) = {} /\ Once(<<>>) /\ \A b \in Benchmarks : Ordered(<<>>, b)
  BY DEF Range, Once, Ordered
<1>3. FlightOK
  BY <1>1, <1>2 DEF FlightOK, InFlight
<1>4. PhaseOK /\ ScanListOK /\ MapListsOK /\ NextJobOK
  BY <1>1, <1>2 DEF PhaseOK, ScanListOK, MapListsOK, NextJobOK
<1> QED
  BY <1>3, <1>4, InitTypeOK DEF BaseInv

LEMMA BaseNext ==
    ASSUME BaseInv, [Next]_vars
    PROVE  BaseInv'
<1>1. TypeOK'
  BY NextTypeOK DEF BaseInv
<1> QED
  BY <1>1, FlightNext, PhaseNext, ListsNext DEF BaseInv

-----------------------------------------------------------------------------
(***************************************************************************)
(* Recorded results.  A job that completes before its benchmark is tracked *)
(* is reported while the scan still goes on, and after a restart the scan  *)
(* meets jobs of the previous process: with both, a result may be recorded *)
(* that the scan has not read.                                             *)
(***************************************************************************)

\* A completion on its way belongs to a benchmark that is fully subscribed,
\* or of which a completion came early.
FlightTracked ==
    /\ "fast" \notin Faults => early = {}
    /\ \A j \in InFlight : BenchmarkOf(j) \notin early =>
         BenchmarkOf(j) \in subscribers /\ BenchmarkOf(j) # scan.b

\* Without a restart, what has not been scanned has never run.
NewIsAbsent ==
    /\ "crash" \notin Faults => crashes = 0
    /\ crashes = 0 =>
         \A j \in Jobs \ Scanned : jobs[j] = "absent" /\ j \notin results

\* A recorded job has completed, and the scan knows those it has yet to see.
RecordsKept ==
    /\ \A j \in results :
         ~Overtaken(BenchmarkOf(j)) => jobs[j] \in {"complete", "absent"}
    /\ scan.pc \in {"first", "rest"} =>
         \A j \in results \ Scanned :
            BenchmarkOf(j) = scan.b /\ ~Overtaken(scan.b) => j \in scan.done

DoneRecorded == scan.done \subseteq results

RecInv == BaseInv /\ FlightTracked /\ NewIsAbsent /\ RecordsKept /\ DoneRecorded

\* What the reconciler does to the scan's benchmark and the subscribers.
LEMMA ReconcilerScan ==
    ASSUME BaseInv, Reconciler
    PROVE  /\ subscribers \subseteq subscribers'
           /\ Scanned \subseteq Scanned' /\ results' = results
           /\ \/ /\ scan'.b = scan.b /\ scan'.done = scan.done
                 /\ scan'.pc \in {"first", "rest"} => scan.pc \in {"first", "rest"}
              \/ scan' = IdleScan
              \/ /\ scan'.b \notin subscribers /\ scan'.done = results
                 /\ scan'.b \in Benchmarks /\ scan.pc = "idle"
                 /\ Scanned' = Scanned
<1>1. ASSUME NEW b \in Benchmarks, CreateFromOperator(b)
      PROVE  /\ UNCHANGED <<subscribers, Scanned, results>>
             /\ b \notin subscribers /\ scan'.b = b /\ scan'.done = results
             /\ scan.pc = "idle"
  BY <1>1, ScanBegins DEF maps
<1>2. CASE CreateEager \/ CreateFirst
  BY <1>2, ScanCreates DEF maps
<1>3. CASE LeaveWaiting
  BY <1>3, ScanLeaves DEF maps
<1>4. CASE NewTracker
  BY <1>4, ScanEnds DEF maps
<1>5. CASE SubscribeWaiting
  BY <1>5, Subscribes
<1>6. CASE SubscribeDR \/ SubscribeOpt
  BY <1>6, StoresMaps
<1> QED
  BY <1>1, <1>2, <1>3, <1>4, <1>5, <1>6 DEF Reconciler

\* Nothing but a completion starts on its way to the worker.
LEMMA OthersKeepFlight ==
    ASSUME BaseInv,
           \/ Informer \/ Worker \/ UNCHANGED vars
           \/ \E j \in Jobs : JobFails(j) \/ JobCleanedUp(j)
    PROVE  InFlight' \subseteq InFlight
<1>1. ASSUME NEW j \in Jobs, JobFails(j) \/ JobCleanedUp(j)
      PROVE  InFlight' \subseteq InFlight
  <2>1. UNCHANGED <<pending, jobQueue, worker>>
    BY <1>1 DEF JobFails, JobCleanedUp, queues
  <2> QED
    BY <2>1, SameSets
<1>2. CASE UpdateFunc \/ WorkerTake
  BY <1>2, MovesOn
<1>3. CASE WorkerCollect \/ WorkerReadDR
  BY <1>3, WorkerGoesOn
<1>4. CASE WorkerSkip
  BY <1>4, WorkerGivesUp
<1>5. CASE WorkerPop
  BY <1>5, Pops
<1>6. CASE WorkerCreate
  BY <1>6, Deploys
<1>7. CASE WorkerCreateNil \/ InformerSync
  BY <1>7, NothingMoves
<1>8. CASE UNCHANGED vars
  BY <1>8, StutterMoves
<1> QED
  BY <1>1, <1>2, <1>3, <1>4, <1>5, <1>6, <1>7, <1>8 DEF Informer, Worker

\* Only a completion before its benchmark is tracked is early, and restarts
\* are not forgotten.
LEMMA EarlyChanges ==
    ASSUME BaseInv, [Next]_vars
    PROVE  /\ early \subseteq early'
           /\ \/ early' = early
              \/ "fast" \in Faults /\ \E j \in Jobs : JobCompletes(j)
           /\ crashes' = crashes \/ (Crash /\ crashes' = crashes + 1)
           /\ \A b \in Benchmarks : Overtaken(b) => Overtaken(b)'
<1>1. crashes \in Nat
  BY BoundsAssumption DEF BaseInv, TypeOK
<1>2. ASSUME NEW j \in Jobs, JobCompletes(j)
      PROVE  /\ early \subseteq early' /\ crashes' = crashes
             /\ early' = early \/ "fast" \in Faults
  BY <1>2, Completes
<1>3. CASE Reconciler
  <2>1. UNCHANGED <<queues, crashes>>
    BY <1>3, Zenon
    DEF Reconciler, CreateFromOperator, CreateEager, CreateFirst, LeaveWaiting,
        NewTracker, SubscribeWaiting, SubscribeDR, SubscribeOpt
  <2> QED
    BY <2>1 DEF Overtaken, queues
<1>4. CASE Informer \/ Worker
  <2>1. UNCHANGED <<early, crashes>>
    BY <1>4 DEF Informer, InformerSync, UpdateFunc, Worker, WorkerTake,
                WorkerCollect, WorkerSkip, WorkerReadDR, WorkerPop,
                WorkerCreate, WorkerCreateNil, queues
  <2> QED
    BY <2>1 DEF Overtaken
<1>5. ASSUME NEW j \in Jobs, JobFails(j) \/ JobCleanedUp(j)
      PROVE  UNCHANGED <<early, crashes>>
  BY <1>5 DEF JobFails, JobCleanedUp, queues
<1>6. CASE Crash
  <2>1. early' = early /\ crashes' = crashes + 1
    BY <1>6 DEF Crash
  <2> QED
    BY <1>1, <1>6, <2>1 DEF Overtaken
<1>7. CASE UNCHANGED vars
  BY <1>7 DEF vars, queues, Overtaken
<1> QED
  BY <1>1, <1>2, <1>3, <1>4, <1>5, <1>6, <1>7 DEF Next, Cluster, Overtaken

LEMMA FlightTrackedNext ==
    ASSUME RecInv, [Next]_vars
    PROVE  FlightTracked'
<1> SUFFICES ASSUME NEW j \in InFlight', BenchmarkOf(j) \notin early'
             PROVE  BenchmarkOf(j) \in subscribers' /\ BenchmarkOf(j) # scan'.b
  BY EarlyChanges DEF RecInv, FlightTracked
<1>0. /\ j \in Jobs /\ BenchmarkOf(j) \in Benchmarks /\ BaseInv
      /\ BenchmarkOf(j) \notin early
      /\ \A k \in InFlight : BenchmarkOf(k) \notin early =>
           BenchmarkOf(k) \in subscribers /\ BenchmarkOf(k) # scan.b
  BY BenchmarkOfType, EarlyChanges DEF InFlight, RecInv, FlightTracked
<1>1. CASE Reconciler
  <2>1. j \in InFlight
    BY <1>0, <1>1, ReconcilerMoves
  <2>2. IdleScan.b = None /\ None \notin Benchmarks
    BY JobsAssumption DEF IdleScan
  <2> QED
    BY <1>0, <1>1, <2>1, <2>2, ReconcilerScan
<1>2. ASSUME NEW k \in Jobs, JobCompletes(k)
      PROVE  BenchmarkOf(j) \in subscribers' /\ BenchmarkOf(j) # scan'.b
  <2>1. /\ UNCHANGED <<scan, subscribers>>
        /\ InFlight' \subseteq InFlight \cup {k}
        /\ j = k /\ j \notin InFlight => Tracked(BenchmarkOf(k))
    BY <1>0, <1>2, Completes DEF maps
  <2> QED
    BY <1>0, <2>1 DEF Tracked
<1>3. CASE \/ Informer \/ Worker \/ UNCHANGED vars
           \/ \E k \in Jobs : JobFails(k) \/ JobCleanedUp(k)
  <2>1. UNCHANGED <<scan, subscribers>>
    BY <1>0, <1>3, OthersKeepScan DEF Cluster
  <2> QED
    BY <1>0, <1>3, <2>1, OthersKeepFlight
<1>4. CASE Crash
  BY <1>4, Restarts
<1> QED
  BY <1>1, <1>2, <1>3, <1>4 DEF Next, Cluster

\* How a job changes: the scan or the worker creates it, it completes, it
\* fails, or it is cleaned up.
LEMMA JobChanges ==
    ASSUME BaseInv, [Next]_vars
    PROVE  \A j \in Jobs : jobs'[j] # jobs[j] =>
             \/ /\ CreateEager \/ CreateFirst
                /\ jobs[j] = "absent" /\ jobs'[j] = "active"
                /\ j = ScanNext /\ j \notin scan.done
             \/ /\ WorkerCreate /\ jobs[j] = "absent" /\ jobs'[j] = "active"
                /\ j = worker.next /\ j \notin results
             \/ /\ JobCompletes(j)
                /\ jobs[j] = "active" /\ jobs'[j] = "complete"
             \/ /\ "jobfail" \in Faults
                /\ jobs[j] = "active" /\ jobs'[j] = "failed"
             \/ /\ JobCleanedUp(j)
                /\ "cleanup" \in Faults \/ ("expire" \in Faults /\ j \in results)
                /\ jobs[j] = "complete" /\ jobs'[j] = "absent"
<1> SUFFICES ASSUME NEW j \in Jobs, jobs'[j] # jobs[j]
             PROVE
             \/ /\ CreateEager \/ CreateFirst
                /\ jobs[j] = "absent" /\ jobs'[j] = "active"
                /\ j = ScanNext /\ j \notin scan.done
             \/ /\ WorkerCreate /\ jobs[j] = "absent" /\ jobs'[j] = "active"
                /\ j = worker.next /\ j \notin results
             \/ /\ JobCompletes(j)
                /\ jobs[j] = "active" /\ jobs'[j] = "complete"
             \/ /\ "jobfail" \in Faults
                /\ jobs[j] = "active" /\ jobs'[j] = "failed"
             \/ /\ JobCleanedUp(j)
                /\ "cleanup" \in Faults \/ ("expire" \in Faults /\ j \in results)
                /\ jobs[j] = "complete" /\ jobs'[j] = "absent"
  OBVIOUS
<1>0. jobs \in [Jobs -> JobStates]
  BY DEF BaseInv, TypeOK, ClusterOK
<1>1. CASE CreateEager \/ CreateFirst
  BY <1>0, <1>1, ScanCreates
<1>2. CASE WorkerCreate
  BY <1>0, <1>2, Deploys
<1>3. ASSUME NEW k \in Jobs, JobCompletes(k)
      PROVE  JobCompletes(j) /\ jobs[j] = "active" /\ jobs'[j] = "complete"
  <2>1. jobs[k] = "active" /\ jobs' = [jobs EXCEPT ![k] = "complete"]
    BY <1>3, Completes
  <2>2. j = k
    BY <1>0, <2>1
  <2> QED
    BY <1>0, <1>3, <2>1, <2>2
<1>4. ASSUME NEW k \in Jobs, JobFails(k)
      PROVE  /\ "jobfail" \in Faults
             /\ jobs[j] = "active" /\ jobs'[j] = "failed"
  <2>1. /\ "jobfail" \in Faults /\ jobs[k] = "active"
        /\ jobs' = [jobs EXCEPT ![k] = "failed"]
    BY <1>4 DEF JobFails
  <2> QED
    BY <1>0, <2>1
<1>5. ASSUME NEW k \in Jobs, JobCleanedUp(k)
      PROVE  /\ JobCleanedUp(j)
             /\ "cleanup" \in Faults \/ ("expire" \in Faults /\ j \in results)
             /\ jobs[j] = "complete" /\ jobs'[j] = "absent"
  <2>1. /\ "cleanup" \in Faults \/ ("expire" \in Faults /\ k \in results)
        /\ jobs[k] = "complete" /\ jobs' = [jobs EXCEPT ![k] = "absent"]
    BY <1>5 DEF JobCleanedUp
  <2>2. j = k
    BY <1>0, <2>1
  <2> QED
    BY <1>0, <1>5, <2>1, <2>2
<1>6. CASE \E b \in Benchmarks : CreateFromOperator(b)
  BY <1>6 DEF CreateFromOperator, cluster
<1>7. CASE LeaveWaiting \/ NewTracker \/ SubscribeWaiting \/ SubscribeDR
             \/ SubscribeOpt
  BY <1>7, ScanLeaves, ScanEnds, Subscribes, StoresMaps
<1>8. CASE UpdateFunc \/ WorkerTake \/ WorkerCollect \/ WorkerReadDR
             \/ WorkerSkip \/ WorkerPop \/ WorkerCreateNil \/ InformerSync
  BY <1>8, MovesOn, WorkerGoesOn, WorkerGivesUp, Pops, NothingMoves
<1>9. CASE Crash \/ UNCHANGED vars
  BY <1>9, Restarts, StutterMoves
<1> QED
  BY <1>1, <1>2, <1>3, <1>4, <1>5, <1>6, <1>7, <1>8, <1>9
  DEF Next, Reconciler, Cluster, Informer, Worker

\* How the results change: the worker records its job.
LEMMA ResultChanges ==
    ASSUME BaseInv, [Next]_vars
    PROVE  \/ results' = results
           \/ /\ results' = results \cup {worker.job}
              /\ worker.job \in Jobs /\ worker.job \in InFlight
              /\ jobs[worker.job] = "complete"
              /\ UNCHANGED <<jobs, scan, subscribers, Scanned>>
<1>1. CASE WorkerCollect
  <2>1. /\ UNCHANGED <<jobs, scan, maps>> /\ worker.job \in InFlight
        /\ results' = results \/ results' = results \cup {worker.job}
    BY <1>1, WorkerGoesOn
  <2>2. jobs[worker.job] = "complete" /\ worker.job \in Jobs
    BY <2>1 DEF BaseInv, FlightOK, InFlight
  <2> QED
    BY <2>1, <2>2, SameSets DEF maps
<1>2. CASE Reconciler
  BY <1>2, ReconcilerMoves
<1>3. CASE Cluster
  BY <1>3 DEF Cluster, JobCompletes, JobFails, JobCleanedUp
<1>4. CASE UpdateFunc \/ WorkerTake \/ WorkerReadDR \/ InformerSync
  BY Zenon, <1>4
  DEF UpdateFunc, WorkerTake, WorkerReadDR, InformerSync, cluster
<1>5. CASE WorkerSkip \/ WorkerPop \/ WorkerCreate \/ WorkerCreateNil
  BY <1>5, WorkerGivesUp, Pops, Deploys, NothingMoves
<1>6. CASE Crash \/ UNCHANGED vars
  BY <1>6, Restarts, StutterMoves
<1> QED
  BY <1>1, <1>2, <1>3, <1>4, <1>5, <1>6 DEF Next, Informer, Worker

\* What has been scanned stays scanned until a restart.
LEMMA ScannedGrows ==
    ASSUME BaseInv, [Next]_vars
    PROVE  Scanned \subseteq Scanned' \/ Crash
  BY ReconcilerScan, OthersKeepScan DEF Next

\* The job a scan creates has been scanned then; the worker's job was.
LEMMA CreatedScanned ==
    ASSUME BaseInv
    PROVE  /\ CreateEager \/ CreateFirst =>
                ScanNext \notin Scanned /\ ScanNext \in Scanned'
           /\ WorkerCreate => worker.next \in Scanned
  BY ScanCreates, Deploys, ListedScanned

LEMMA NewIsAbsentNext ==
    ASSUME RecInv, [Next]_vars
    PROVE  NewIsAbsent'
<1>0. /\ BaseInv /\ FlightOK /\ crashes \in Nat
      /\ "crash" \notin Faults => crashes = 0
  BY BoundsAssumption DEF RecInv, BaseInv, TypeOK, NewIsAbsent
<1>1. "crash" \notin Faults => crashes' = 0
  BY <1>0, EarlyChanges DEF Crash
<1> SUFFICES ASSUME crashes' = 0, NEW j \in Jobs, j \notin Scanned'
             PROVE  jobs'[j] = "absent" /\ j \notin results'
  BY <1>1 DEF NewIsAbsent
<1>2. j \notin Scanned /\ crashes = 0
  <2>1. crashes = 0 /\ ~Crash
    BY <1>0, EarlyChanges DEF Crash
  <2> QED
    BY <1>0, <2>1, ScannedGrows
<1>3. jobs[j] = "absent" /\ j \notin results
  BY <1>2 DEF RecInv, NewIsAbsent
<1>4. jobs'[j] = "absent"
  BY <1>0, <1>2, <1>3, JobChanges, CreatedScanned
<1>5. j \notin results'
  BY <1>0, <1>3, ResultChanges
<1> QED
  BY <1>4, <1>5

LEMMA RecordsKeptNext ==
    ASSUME RecInv, [Next]_vars
    PROVE  RecordsKept' /\ DoneRecorded'
<1>0. /\ BaseInv /\ FlightTracked /\ NewIsAbsent /\ RecordsKept /\ DoneRecorded
      /\ results \subseteq Jobs
      /\ \A j \in Jobs : BenchmarkOf(j) \in Benchmarks
  BY BenchmarkOfType DEF RecInv, BaseInv, TypeOK, ClusterOK
<1>1. results \subseteq results' /\ results' \subseteq Jobs
  BY <1>0, ResultChanges
<1>2. DoneRecorded'
  <2>1. scan'.done = scan.done \/ scan'.done = results \/ scan' = IdleScan
    BY <1>0, ReconcilerScan, OthersKeepScan, Restarts DEF Next
  <2>2. IdleScan.done = {}
    BY DEF IdleScan
  <2> QED
    BY <1>0, <1>1, <2>1, <2>2 DEF DoneRecorded
<1>3. \A b \in Benchmarks : ~Overtaken(b)' => ~Overtaken(b)
  BY <1>0, EarlyChanges
<1>4. /\ \A j \in results :
           ~Overtaken(BenchmarkOf(j)) => jobs[j] \in {"complete", "absent"}
      /\ scan.pc \in {"first", "rest"} =>
           \A j \in results \ Scanned :
              BenchmarkOf(j) = scan.b /\ ~Overtaken(scan.b) => j \in scan.done
  BY <1>0 DEF RecordsKept
<1>5. ASSUME NEW j \in Jobs, j \in results', ~Overtaken(BenchmarkOf(j))'
      PROVE  jobs'[j] \in {"complete", "absent"}
  <2>0. ~Overtaken(BenchmarkOf(j))
    BY <1>0, <1>3, <1>5
  <2>1. CASE j \in results
    <3>1. /\ jobs[j] \in {"complete", "absent"} /\ j \in Jobs
      BY <1>0, <1>4, <2>0, <2>1
    <3>2. jobs'[j] = "active" /\ jobs[j] = "absent" =>
            CreateEager \/ CreateFirst
      BY <1>0, <2>1, <3>1, JobChanges
    <3>3. ASSUME CreateEager \/ CreateFirst, j = ScanNext
          PROVE  j \in scan.done
      BY <1>0, <1>4, <2>0, <2>1, <3>3, ScanCreates
    <3> QED
      BY <1>0, <2>1, <3>1, <3>3, JobChanges
  <2>2. CASE j \notin results
    BY <1>0, <1>5, <2>2, ResultChanges
  <2> QED
    BY <2>1, <2>2
<1>6. ASSUME scan'.pc \in {"first", "rest"}, NEW j \in Jobs,
             j \in results' \ Scanned',
             BenchmarkOf(j) = scan'.b, ~Overtaken(BenchmarkOf(j))'
      PROVE  j \in scan'.done
  <2>0. ~Overtaken(BenchmarkOf(j))
    BY <1>0, <1>3, <1>6
  <2>1. CASE UNCHANGED <<scan, subscribers, Scanned>>
    <3>1. CASE j \in results
      BY <1>4, <1>6, <2>0, <2>1, <3>1
    <3>2. CASE j \notin results
      <4>1. /\ j = worker.job /\ j \in Jobs /\ j \in InFlight
            /\ jobs[j] = "complete" /\ j \notin Scanned
        BY <1>0, <1>6, <2>1, <3>2, ResultChanges
      <4>2. BenchmarkOf(j) \in early
        BY <1>0, <1>6, <2>1, <4>1 DEF FlightTracked
      <4>3. crashes # 0 /\ crashes \in Nat
        BY <1>0, <4>1, BoundsAssumption DEF NewIsAbsent, BaseInv, TypeOK
      <4> QED
        BY <2>0, <4>2, <4>3 DEF Overtaken
    <3> QED
      BY <3>1, <3>2
  <2>2. CASE Reconciler
    <3>1. IdleScan.pc = "idle"
      BY DEF IdleScan
    <3> QED
      BY <1>0, <1>4, <1>6, <2>0, <2>2, <3>1, ReconcilerScan
  <2>3. CASE Crash
    BY <1>6, <2>3, Restarts DEF IdleScan
  <2> QED
    BY <1>0, <2>1, <2>2, <2>3, OthersKeepScan DEF Next
<1>7. RecordsKept'
  <2>1. \A j \in results' : /\ j \in Jobs
                            /\ ~Overtaken(BenchmarkOf(j))' =>
                                 jobs'[j] \in {"complete", "absent"}
    BY <1>1, <1>5
  <2> QED
    BY <1>1, <1>6, <2>1 DEF RecordsKept, Overtaken
<1> QED
  BY <1>2, <1>7

LEMMA RecInvNext ==
    ASSUME RecInv, [Next]_vars
    PROVE  RecInv'
  BY BaseNext, FlightTrackedNext, NewIsAbsentNext, RecordsKeptNext DEF RecInv

LEMMA RecInvInit == Init => RecInv
<1> SUFFICES ASSUME Init PROVE RecInv
  OBVIOUS
<1>1. /\ pending = <<>> /\ jobQueue = <<>> /\ worker.pc = "idle"
      /\ scan.pc = "idle" /\ scan.done = {} /\ results = {}
      /\ \A j \in Jobs : jobs[j] = "absent"
      /\ early = {} /\ crashes = 0
  BY DEF Init, IdleScan, IdleWorker
<1>2. InFlight = {}
  BY <1>1 DEF InFlight, Range
<1>3. FlightTracked /\ NewIsAbsent /\ RecordsKept /\ DoneRecorded
  BY <1>1, <1>2 DEF FlightTracked, NewIsAbsent, RecordsKept, DoneRecorded
<1> QED
  BY <1>3, BaseInit DEF RecInv

\* A job whose result is recorded is not created again by a step.
LEMMA RecordedStay ==
    ASSUME RecInv, [Next]_vars
    PROVE  \A j \in results : jobs[j] = "absent" /\ ~Overtaken(BenchmarkOf(j))
                                => jobs'[j] = "absent"
<1> SUFFICES ASSUME NEW j \in results, jobs[j] = "absent",
                    ~Overtaken(BenchmarkOf(j))
             PROVE  jobs'[j] = "absent"
  OBVIOUS
<1>1. BaseInv /\ j \in Jobs
  BY DEF RecInv, BaseInv, TypeOK, ClusterOK
<1>2. ASSUME CreateEager \/ CreateFirst, j = ScanNext
      PROVE  j \in scan.done
  BY <1>1, <1>2, ScanCreates DEF RecInv, RecordsKept
<1> QED
  BY <1>1, <1>2, JobChanges

\* A job whose result is recorded is not created again by the scan or by the
\* worker, whatever goes wrong: through restarts of the operator, clean-ups of
\* jobs, failing lookups and early completions.  Only a benchmark that has been
\* overtaken is excepted: the worker may record a result that the scan has not
\* read when it comes to the job.
THEOREM RecordedJobsAreKept == Spec => RecordedJobsStay
<1>1. RecInv /\ [Next]_vars => RecInv'
  BY RecInvNext
<1>2. RecInv /\ [Next]_vars =>
        [\A j \in results : jobs[j] = "absent" /\ ~Overtaken(BenchmarkOf(j))
                               => jobs'[j] = "absent"]_vars
  BY RecordedStay
<1> QED
  BY RecInvInit, <1>1, <1>2, PTL DEF Spec, RecordedJobsStay

\* When no completion is early, or the operator never restarts, no benchmark is
\* ever overtaken.
SafeRecords == ~({"crash", "fast"} \subseteq Faults)

LEMMA RecordsSafe ==
    ASSUME RecInv, SafeRecords
    PROVE  /\ \A j \in results : jobs[j] \in {"complete", "absent"}
           /\ scan.pc \in {"first", "rest"} =>
                \A j \in results \ Scanned :
                   BenchmarkOf(j) = scan.b => j \in scan.done
<1>1. \A b : ~Overtaken(b)
  BY DEF RecInv, FlightTracked, NewIsAbsent, SafeRecords, Overtaken
<1> QED
  BY <1>1 DEF RecInv, RecordsKept

-----------------------------------------------------------------------------
(***************************************************************************)
(* Turns.  A sequential benchmark has one turn at a time: a job that runs, *)
(* or whose completion is on its way.                                      *)
(***************************************************************************)

\* Without a restart every turn was given by this process.  Without early
\* completions and clean-ups the jobs run in order, even across restarts, so
\* that the scan of the next process finds the job whose turn it is.
InOrder   == Faults \cap {"fast", "cleanup"} = {}
SafeTurns == "crash" \notin Faults \/ InOrder

TakesTurns == {j \in Jobs : Sequential(BenchmarkOf(j))}

\* The jobs of j's benchmark, when it is sequential, that come before j.
Earlier(j) == {i \in TakesTurns : BenchmarkOf(i) = BenchmarkOf(j)
                                  /\ Place(i) < Place(j)}

\* A benchmark that is still scanned has a turn only once a job is new.
NoTurnYet ==
    "crash" \notin Faults =>
        \A j \in Turns \cap TakesTurns :
            \/ BenchmarkOf(j) \in subscribers
            \/ BenchmarkOf(j) = scan.b /\ scan.pc \in {"rest", "waiting"}

OneTurn ==
    SafeTurns =>
        \A i, j \in Turns \cap TakesTurns :
            BenchmarkOf(i) = BenchmarkOf(j) => i = j

\* Nothing starts before what comes before it has finished.
StartedInOrder ==
    InOrder => \A j \in Started : Earlier(j) \subseteq Finished

\* The scan gives no turn as long as all it has seen is finished.
FirstFinished ==
    InOrder /\ scan.pc = "first" =>
        \A j \in Scanned \cap TakesTurns :
            BenchmarkOf(j) = scan.b => j \in Finished

\* While a job has its turn, its companions wait or have finished.
TurnAlone ==
    InOrder =>
        \A i \in Turns \cap TakesTurns : \A j \in Scanned \ Listed :
            BenchmarkOf(i) = BenchmarkOf(j) => i = j \/ j \in Finished

TurnInv == /\ RecInv /\ NoTurnYet /\ OneTurn
           /\ StartedInOrder /\ FirstFinished /\ TurnAlone

\* A sequential benchmark has no eager job.
LEMMA TakesTurnsFacts ==
    ASSUME NEW j \in TakesTurns
    PROVE  /\ j \in Jobs /\ j \notin Eager /\ BenchmarkOf(j) \in Benchmarks
           /\ Place(j) \in Nat
           /\ \A i \in Jobs : BenchmarkOf(i) = BenchmarkOf(j) =>
                i \in TakesTurns
           /\ \A i \in Jobs : BenchmarkOf(i) = BenchmarkOf(j) =>
                i = j \/ i \in Earlier(j) \/ j \in Earlier(i)
<1>1. j \in Jobs /\ Sequential(BenchmarkOf(j)) /\ BenchmarkOf(j) \in Benchmarks
  BY BenchmarkOfType DEF TakesTurns
<1>2. j \notin Eager
  BY <1>1, FamilyOf DEF Sequential
<1>3. \A i \in Jobs : BenchmarkOf(i) = BenchmarkOf(j) => i \in TakesTurns
  BY <1>1 DEF TakesTurns
<1>4. ASSUME NEW i \in Jobs, BenchmarkOf(i) = BenchmarkOf(j)
      PROVE  i = j \/ i \in Earlier(j) \/ j \in Earlier(i)
  BY <1>1, <1>3, <1>4, PlaceType, PlaceUnique DEF Earlier
<1> QED
  BY <1>1, <1>2, <1>3, <1>4, PlaceType

\* How turns change: the scan or the worker gives one, the others keep or
\* take them away.
LEMMA TurnChanges ==
    ASSUME BaseInv, [Next]_vars
    PROVE  \/ Turns' \subseteq Turns
           \/ /\ CreateEager \/ CreateFirst
              /\ ScanNext \in Jobs /\ jobs[ScanNext] = "absent"
              /\ ScanNext \notin scan.done
              /\ Turns' = Turns \cup {ScanNext}
           \/ /\ WorkerCreate
              /\ Turns' \subseteq (Turns \ {worker.job}) \cup {worker.next}
<1>0. BaseInv /\ FlightOK /\ jobs \in [Jobs -> JobStates]
  BY DEF BaseInv, TypeOK, ClusterOK
<1>1. CASE Reconciler
  <2>1. InFlight' = InFlight /\ (jobs' = jobs => Active' = Active)
    BY <1>1, ReconcilerMoves, SameSets
  <2>2. CASE CreateEager \/ CreateFirst
    <3>1. \/ jobs' = jobs
          \/ /\ jobs[ScanNext] = "absent" /\ ScanNext \notin scan.done
             /\ ScanNext \in Jobs
             /\ jobs' = [jobs EXCEPT ![ScanNext] = "active"]
      BY <2>2, ScanCreates
    <3>2. CASE jobs' = jobs
      BY <2>1, <3>2 DEF Turns
    <3>3. CASE /\ jobs[ScanNext] = "absent" /\ ScanNext \notin scan.done
               /\ ScanNext \in Jobs
               /\ jobs' = [jobs EXCEPT ![ScanNext] = "active"]
      <4>1. Active' = Active \cup {ScanNext}
        BY <1>0, <3>3 DEF Active
      <4> QED
        BY <2>1, <2>2, <3>3, <4>1 DEF Turns
    <3> QED
      BY <3>1, <3>2, <3>3
  <2>3. CASE \E b \in Benchmarks : CreateFromOperator(b)
    BY <2>1, <2>3, ScanBegins DEF Turns
  <2>4. CASE \/ LeaveWaiting \/ NewTracker \/ SubscribeWaiting \/ SubscribeDR
             \/ SubscribeOpt
    BY <2>1, <2>4, ScanLeaves, ScanEnds, Subscribes, StoresMaps DEF Turns
  <2> QED
    BY <1>1, <2>2, <2>3, <2>4 DEF Reconciler
<1>2. ASSUME NEW k \in Jobs, JobCompletes(k)
      PROVE  Turns' \subseteq Turns
  <2>1. k \in Active
    BY <1>2, Completes DEF Active
  <2> QED
    BY <1>2, <2>1, Completes DEF Turns
<1>3. ASSUME NEW k \in Jobs, JobFails(k) \/ JobCleanedUp(k)
      PROVE  Turns' \subseteq Turns
  BY <1>3, Goes, OthersKeepFlight DEF Turns
<1>4. CASE WorkerCreate
  <2>1. /\ InFlight' = InFlight \ {worker.job} /\ worker.job \in InFlight
        /\ worker.next \in Jobs
        /\ \/ jobs' = jobs
           \/ jobs' = [jobs EXCEPT ![worker.next] = "active"]
    BY <1>4, Deploys
  <2>2. Active' \subseteq Active \cup {worker.next}
    BY <1>0, <2>1 DEF Active
  <2>3. worker.job \notin Active
    BY <1>0, <2>1 DEF FlightOK, Active
  <2> QED
    BY <1>4, <2>1, <2>2, <2>3 DEF Turns
<1>5. CASE Informer \/ UNCHANGED vars \/ (Worker /\ ~WorkerCreate)
  <2>1. jobs' = jobs
    BY <1>5, MovesOn, WorkerGoesOn, WorkerGivesUp, Pops, NothingMoves,
       StutterMoves DEF Informer, Worker
  <2>2. InFlight' \subseteq InFlight
    BY <1>5, OthersKeepFlight
  <2> QED
    BY <2>1, <2>2, SameSets DEF Turns
<1>6. CASE Crash
  BY <1>6, Restarts, SameSets DEF Turns
<1> QED
  BY <1>1, <1>2, <1>3, <1>4, <1>5, <1>6 DEF Next, Cluster

\* What has finished or started stays so where completed jobs are cleaned up
\* only once their result is recorded.
LEMMA FinishedGrows ==
    ASSUME BaseInv, [Next]_vars, "cleanup" \notin Faults
    PROVE  Finished \subseteq Finished' /\ Started \subseteq Started'
<1>0. results \subseteq results'
  BY ResultChanges
<1>1. \A j \in Jobs : \/ jobs'[j] = jobs[j]
                      \/ jobs[j] \in {"absent", "active"} /\ jobs'[j] # "absent"
                      \/ j \in results
  BY JobChanges
<1>2. ASSUME NEW j \in Finished PROVE j \in Finished'
  <2>1. j \in Jobs /\ (jobs[j] = "complete" \/ j \in results)
    BY <1>2 DEF Finished
  <2>2. jobs'[j] = "complete" \/ j \in results'
    BY <1>0, <1>1, <2>1
  <2> QED
    BY <2>1, <2>2 DEF Finished
<1>3. ASSUME NEW j \in Started PROVE j \in Started'
  <2>1. j \in Jobs /\ (jobs[j] # "absent" \/ j \in results)
    BY <1>3 DEF Started
  <2>2. jobs'[j] # "absent" \/ j \in results'
    BY <1>0, <1>1, <2>1
  <2> QED
    BY <2>1, <2>2 DEF Started
<1> QED
  BY <1>2, <1>3

\* What starts: a job the scan or the worker creates.
LEMMA StartedChanges ==
    ASSUME BaseInv, [Next]_vars
    PROVE  \A j \in Started' :
             \/ j \in Started
             \/ (CreateEager \/ CreateFirst) /\ j = ScanNext
             \/ WorkerCreate /\ j = worker.next
<1> SUFFICES ASSUME NEW j \in Started'
             PROVE  \/ j \in Started
                    \/ (CreateEager \/ CreateFirst) /\ j = ScanNext
                    \/ WorkerCreate /\ j = worker.next
  OBVIOUS
<1>1. j \in Jobs /\ (jobs'[j] # "absent" \/ j \in results')
  BY DEF Started
<1>2. CASE jobs[j] # "absent"
  BY <1>1, <1>2 DEF Started
<1>3. CASE jobs[j] = "absent" /\ jobs'[j] # "absent"
  BY <1>1, <1>3, JobChanges
<1>4. CASE jobs[j] = "absent" /\ j \in results'
  BY <1>1, <1>4, ResultChanges DEF Started
<1> QED
  BY <1>1, <1>2, <1>3, <1>4

\* Once a benchmark is past its first new job it remains so, short of a restart.
LEMMA UnderwayKept ==
    ASSUME BaseInv, [Next]_vars, ~Crash
    PROVE  \A b \in Benchmarks :
             b \in subscribers \/ (b = scan.b /\ scan.pc \in {"rest", "waiting"})
             => \/ b \in subscribers'
                \/ b = scan'.b /\ scan'.pc \in {"rest", "waiting"}
<1>1. CASE \E c \in Benchmarks : CreateFromOperator(c)
  <2>1. scan.pc = "idle" /\ UNCHANGED subscribers
    BY <1>1, ScanBegins DEF maps
  <2> QED
    BY <2>1
<1>2. CASE CreateEager \/ CreateFirst
  BY <1>2, ScanCreates DEF maps
<1>3. CASE LeaveWaiting \/ NewTracker
  BY <1>3, ScanLeaves, ScanEnds DEF maps
<1>4. CASE SubscribeWaiting
  BY <1>4, Subscribes
<1>5. CASE SubscribeDR \/ SubscribeOpt
  BY <1>5, StoresMaps
<1>6. CASE Cluster \/ Informer \/ Worker \/ UNCHANGED vars
  BY <1>6, OthersKeepScan
<1> QED
  BY <1>1, <1>2, <1>3, <1>4, <1>5, <1>6 DEF Next, Reconciler

\* A new turn of a sequential benchmark that is scanned is its first job's.
LEMMA FirstTurn ==
    ASSUME BaseInv, CreateEager \/ CreateFirst, ScanNext \in TakesTurns
    PROVE  /\ CreateFirst /\ scan.pc = "first" /\ scan'.b = scan.b
           /\ jobs[ScanNext] = "absent" /\ ScanNext \notin scan.done =>
                scan'.pc = "rest"
<1>1. CreateFirst
  BY TakesTurnsFacts DEF CreateEager
<1> QED
  BY <1>1, FirstOutcome, ScanCreates

LEMMA NoTurnYetNext ==
    ASSUME TurnInv, [Next]_vars
    PROVE  NoTurnYet'
<1> SUFFICES ASSUME "crash" \notin Faults, NEW j \in Turns', j \in TakesTurns
             PROVE  \/ BenchmarkOf(j) \in subscribers'
                    \/ /\ BenchmarkOf(j) = scan'.b
                       /\ scan'.pc \in {"rest", "waiting"}
  BY DEF NoTurnYet
<1>1. /\ BaseInv /\ NoTurnYet /\ ~Crash
      /\ j \in Jobs /\ BenchmarkOf(j) \in Benchmarks
  BY TakesTurnsFacts DEF TurnInv, RecInv, Crash
<1>2. CASE j \in Turns
  BY <1>1, <1>2, UnderwayKept DEF NoTurnYet
<1>3. CASE j = ScanNext /\ (CreateEager \/ CreateFirst)
           /\ jobs[ScanNext] = "absent" /\ ScanNext \notin scan.done
  BY <1>1, <1>3, FirstTurn, ScanCreates
<1>4. CASE j = worker.next /\ WorkerCreate
  BY <1>1, <1>4, Deploys
<1> QED
  BY <1>1, <1>2, <1>3, <1>4, TurnChanges

\* Turns are of jobs that have started; those of a benchmark that is not
\* subscribed still run.
LEMMA TurnsStarted ==
    ASSUME RecInv
    PROVE  /\ Turns \subseteq Started
           /\ InOrder => \A i \in Turns : BenchmarkOf(i) \notin subscribers =>
                           i \notin Finished
<1>0. FlightOK /\ FlightTracked
  BY DEF RecInv, BaseInv
<1>1. Turns \subseteq Started
  BY <1>0 DEF FlightOK, Turns, Active, Started, InFlight
<1>2. ASSUME InOrder, NEW i \in Turns, BenchmarkOf(i) \notin subscribers
      PROVE  i \notin Finished
  <2>1. "fast" \notin Faults /\ SafeRecords
    BY <1>2 DEF InOrder, SafeRecords
  <2>2. i \notin InFlight
    BY <1>0, <1>2, <2>1 DEF FlightTracked
  <2>3. i \in Jobs /\ jobs[i] = "active"
    BY <1>2, <2>2 DEF Turns, Active
  <2>4. i \notin results
    BY <2>1, <2>3, RecordsSafe
  <2> QED
    BY <2>3, <2>4 DEF Finished
<1> QED
  BY <1>1, <1>2

\* While no job has counted as new, a turn of the scan's benchmark is one that
\* is still ahead of the scan: the job the scan looks at has finished.
LEMMA TurnAhead ==
    ASSUME TurnInv, InOrder, CreateFirst,
           NEW i \in Turns \cap TakesTurns, BenchmarkOf(i) = scan.b
    PROVE  i = ScanNext \/ ScanNext \in Finished
<1>0. /\ RecInv /\ BaseInv /\ StartedInOrder /\ FirstFinished
      /\ scan.b \notin subscribers
      /\ ScanNext \in Jobs /\ BenchmarkOf(ScanNext) = scan.b
      /\ scan.pc = "first"
  BY ScanCreates, FirstOutcome DEF TurnInv, RecInv
<1>1. i \in Started /\ i \notin Finished
  BY <1>0, TurnsStarted
<1>2. CASE i \in Earlier(ScanNext)
  <2>1. Scanning({"first"}) /\ {"first"} \subseteq {"first", "rest"}
    BY DEF CreateFirst
  <2>2. Place(ScanNext) = scan.i
    BY <1>0, <2>1, ScanNextPlace
  <2>3. i \in Scanned
    BY <1>2, <2>2, TakesTurnsFacts DEF Earlier, Scanned
  <2> QED
    BY <1>0, <1>1, <2>3 DEF FirstFinished
<1>3. CASE ScanNext \in Earlier(i)
  BY <1>0, <1>1, <1>3 DEF StartedInOrder
<1> QED
  BY <1>0, <1>2, <1>3, TakesTurnsFacts

LEMMA OneTurnNext ==
    ASSUME TurnInv, [Next]_vars
    PROVE  OneTurn'
<1> SUFFICES ASSUME SafeTurns, NEW i \in Turns', NEW j \in Turns',
                    i \in TakesTurns, j \in TakesTurns,
                    BenchmarkOf(i) = BenchmarkOf(j)
             PROVE  i = j
  BY DEF OneTurn
<1>0. /\ RecInv /\ BaseInv /\ NoTurnYet
      /\ \A m, n \in Turns \cap TakesTurns :
           BenchmarkOf(m) = BenchmarkOf(n) => m = n
  BY DEF TurnInv, OneTurn, RecInv
<1>1. CASE Turns' \subseteq Turns
  BY <1>0, <1>1
<1>2. CASE /\ CreateEager \/ CreateFirst
           /\ ScanNext \in Jobs /\ jobs[ScanNext] = "absent"
           /\ ScanNext \notin scan.done
           /\ Turns' = Turns \cup {ScanNext}
  <2>1. /\ BenchmarkOf(ScanNext) = scan.b /\ scan.b \notin subscribers
        /\ ScanNext \notin Scanned /\ scan.pc \in {"first", "rest"}
    BY <1>0, <1>2, ScanCreates
  <2>2. ASSUME ScanNext \in TakesTurns, NEW m \in Turns \cap TakesTurns,
               BenchmarkOf(m) = scan.b
        PROVE  m = ScanNext
    <3>1. CreateFirst /\ scan.pc = "first"
      BY <1>0, <1>2, <2>2, FirstTurn
    <3>2. InOrder
      BY <1>0, <2>1, <2>2, <3>1 DEF NoTurnYet, SafeTurns
    <3>3. m = ScanNext \/ ScanNext \in Finished
      BY <2>2, <3>1, <3>2, TurnAhead
    <3>4. SafeRecords
      BY <3>2 DEF InOrder, SafeRecords
    <3>5. ScanNext \notin Finished
      BY <1>0, <1>2, <2>1, <3>4, RecordsSafe DEF Finished
    <3> QED
      BY <3>3, <3>5
  <2> QED
    BY <1>0, <1>2, <2>1, <2>2
<1>3. CASE /\ WorkerCreate
           /\ Turns' \subseteq (Turns \ {worker.job}) \cup {worker.next}
  <2>1. /\ worker.job \in Turns /\ worker.job \in Jobs
        /\ BenchmarkOf(worker.next) = BenchmarkOf(worker.job)
    BY <1>0, <1>3, Deploys DEF Its, Turns
  <2>2. ASSUME NEW m \in Turns', m \in TakesTurns,
               BenchmarkOf(m) = BenchmarkOf(worker.job)
        PROVE  m = worker.next
    <3>1. worker.job \in TakesTurns
      BY <2>1, <2>2, TakesTurnsFacts
    <3> QED
      BY <1>0, <1>3, <2>1, <2>2, <3>1
  <2>3. CASE BenchmarkOf(i) = BenchmarkOf(worker.job)
    BY <2>2, <2>3
  <2>4. CASE BenchmarkOf(i) # BenchmarkOf(worker.job)
    BY <1>0, <1>3, <2>1, <2>4
  <2> QED
    BY <2>3, <2>4
<1> QED
  BY <1>0, <1>1, <1>2, <1>3, TurnChanges

\* The job that the worker deploys comes first of those that wait.
LEMMA NextIsFirst ==
    ASSUME BaseInv, worker.pc = "create", NEW i \in Listed,
           BenchmarkOf(i) = BenchmarkOf(worker.next)
    PROVE  i = worker.next \/ Place(worker.next) < Place(i)
<1>1. /\ worker.job \in Jobs /\ worker.next \in Jobs
      /\ waitingJobMap \in [Benchmarks -> Seq(Jobs)]
      /\ scan.waitingJob \in Seq(Jobs)
      /\ BenchmarkOf(worker.next) = BenchmarkOf(worker.job)
      /\ BenchmarkOf(worker.job) \in subscribers
  BY DEF BaseInv, TypeOK, WorkerOK, MapsOK, ScanOK, NextJobOK, MapListsOK
<1>2. PICK b \in Benchmarks : b = BenchmarkOf(worker.job)
  BY <1>1, BenchmarkOfType
<1>3. CASE i \in Range(waitingJobMap[b])
  <2>1. PICK m \in 1..Len(waitingJobMap[b]) : waitingJobMap[b][m] = i
    BY <1>1, <1>3, InRange
  <2> QED
    BY <1>2, <2>1 DEF BaseInv, NextJobOK
<1>4. CASE scan.pc \in {"rest", "waiting"} /\ i \in Range(scan.waitingJob)
  <2>1. PICK m \in 1..Len(scan.waitingJob) : scan.waitingJob[m] = i
    BY <1>1, <1>4, InRange
  <2>2. BenchmarkOf(i) = scan.b /\ scan.b \notin subscribers
    BY <1>4, <2>1 DEF BaseInv, ScanListOK, Ordered, PhaseOK
  <2> QED
    BY <1>1, <2>2
<1>5. i = worker.next \/ i \in InList
  BY DEF Listed
<1> QED
  BY <1>1, <1>2, <1>3, <1>4, <1>5 DEF InList

\* How a job comes to be scanned and not listed.
LEMMA ListChanges ==
    ASSUME BaseInv, [Next]_vars, ~Crash
    PROVE  \A j \in Scanned' \ Listed' :
             \/ j \in Scanned \ Listed
             \/ (CreateEager \/ CreateFirst) /\ j = ScanNext
             \/ LeaveWaiting /\ j = ScanNext /\ jobs[j] # "absent"
             \/ /\ WorkerPop /\ j = NextUp /\ BenchmarkOf(j) = Its
                /\ worker.job \in jobOptMap /\ Its \in waitingKeys
                /\ j \in Range(waitingJobMap[Its]) /\ j \notin jobOptMap'
                /\ InFlight' = InFlight \ {worker.job}
             \/ WorkerCreate /\ j = worker.next
<1>1. CASE \E c \in Benchmarks : CreateFromOperator(c)
  BY <1>1, ScanBegins
<1>2. CASE CreateEager \/ CreateFirst
  BY <1>2, ScanCreates
<1>3. CASE LeaveWaiting
  BY <1>3, ScanLeaves
<1>4. CASE NewTracker \/ SubscribeWaiting \/ SubscribeDR \/ SubscribeOpt
  BY <1>4, ScanEnds, Subscribes, StoresMaps
<1>5. ASSUME NEW k \in Jobs, JobCompletes(k) \/ JobFails(k) \/ JobCleanedUp(k)
      PROVE  Listed' = Listed
  <2>1. UNCHANGED <<waitingJobMap, scan, worker>>
    BY <1>5 DEF JobCompletes, JobFails, JobCleanedUp, maps
  <2> QED
    BY <2>1, SameSets
<1>6. CASE UpdateFunc \/ WorkerTake \/ WorkerCollect \/ WorkerReadDR \/ WorkerSkip
  BY <1>6, OthersKeepScan, MovesOn, WorkerGoesOn, WorkerGivesUp
  DEF Informer, Worker
<1>7. CASE WorkerCreateNil \/ InformerSync
  BY <1>7, NothingMoves
<1>8. CASE WorkerPop
  <2>1. Scanned' = Scanned
    BY <1>8, OthersKeepScan DEF Worker
  <2> QED
    BY <1>8, <2>1, Pops
<1>9. CASE WorkerCreate
  <2>1. Scanned' = Scanned
    BY <1>9, OthersKeepScan DEF Worker
  <2> QED
    BY <1>9, <2>1, Deploys
<1>10. CASE UNCHANGED vars
  BY <1>10, StutterMoves
<1> QED
  BY <1>1, <1>2, <1>3, <1>4, <1>5, <1>6, <1>7, <1>8, <1>9, <1>10, OthersKeepScan
  DEF Next, Reconciler, Cluster, Informer, Worker

LEMMA StartedInOrderNext ==
    ASSUME TurnInv, [Next]_vars
    PROVE  StartedInOrder'
<1> SUFFICES ASSUME InOrder, NEW j \in Started', NEW i \in Earlier(j)
             PROVE  i \in Finished'
  BY DEF StartedInOrder
<1>0. /\ RecInv /\ BaseInv /\ FlightOK /\ StartedInOrder /\ FirstFinished
      /\ TurnAlone /\ j \in Jobs
      /\ i \in TakesTurns /\ i \in Jobs /\ BenchmarkOf(i) = BenchmarkOf(j)
      /\ Place(i) < Place(j) /\ j \in TakesTurns
  BY TakesTurnsFacts DEF TurnInv, RecInv, BaseInv, Earlier, Started
<1>1. SUFFICES i \in Finished
  BY <1>0, FinishedGrows DEF InOrder
<1>2. CASE j \in Started
  BY <1>0, <1>2 DEF StartedInOrder
<1>3. CASE (CreateEager \/ CreateFirst) /\ j = ScanNext
  <2>1. CreateFirst /\ scan.pc = "first"
    BY <1>0, <1>3, FirstTurn
  <2>2. Scanning({"first"}) /\ {"first"} \subseteq {"first", "rest"}
    BY <2>1 DEF CreateFirst
  <2>3. Place(ScanNext) = scan.i /\ BenchmarkOf(ScanNext) = scan.b
    BY <1>0, <2>2, ScanNextPlace
  <2>4. i \in Scanned
    BY <1>0, <1>3, <2>3 DEF Scanned
  <2> QED
    BY <1>0, <1>3, <2>1, <2>3, <2>4 DEF FirstFinished
<1>4. CASE WorkerCreate /\ j = worker.next
  <2>1. /\ worker.job \in InFlight /\ worker.job \in Jobs
        /\ worker.pc = "create" /\ Its \in subscribers
        /\ BenchmarkOf(j) = Its
    BY <1>0, <1>4, Deploys
  <2>2. i \in Scanned /\ BenchmarkOf(i) = Its
    BY <1>0, <2>1 DEF Scanned
  <2>3. i \notin Listed
    BY <1>0, <1>4, <2>1, NextIsFirst, PlaceType
  <2>4. /\ worker.job \in Turns \cap TakesTurns
        /\ BenchmarkOf(worker.job) = BenchmarkOf(i)
    BY <1>0, <2>1, <2>2, TakesTurnsFacts DEF Turns, Its
  <2>5. worker.job \in Finished
    BY <1>0, <2>1 DEF FlightOK, Finished
  <2> QED
    BY <1>0, <2>2, <2>3, <2>4, <2>5 DEF TurnAlone
<1> QED
  BY <1>0, <1>2, <1>3, <1>4, StartedChanges

LEMMA FirstFinishedNext ==
    ASSUME TurnInv, [Next]_vars
    PROVE  FirstFinished'
<1> SUFFICES ASSUME InOrder, scan'.pc = "first", NEW j \in Scanned',
                    j \in TakesTurns, BenchmarkOf(j) = scan'.b
             PROVE  j \in Finished'
  BY DEF FirstFinished
<1>0. /\ RecInv /\ BaseInv /\ PhaseOK /\ DoneRecorded /\ FirstFinished
      /\ j \in Jobs /\ BenchmarkOf(j) \in Benchmarks
      /\ Finished \subseteq Finished'
  BY TakesTurnsFacts, FinishedGrows DEF TurnInv, RecInv, BaseInv, InOrder
<1>1. ASSUME NEW b \in Benchmarks, CreateFromOperator(b)
      PROVE  FALSE
  <2>1. /\ b \notin subscribers /\ scan'.b = b /\ scan.b = None
        /\ Scanned' = Scanned
    BY <1>0, <1>1, ScanBegins DEF PhaseOK
  <2> QED
    BY <1>0, <2>1, JobsAssumption DEF Scanned
<1>2. CASE CreateEager \/ CreateFirst
  <2>1. /\ scan.pc = "first" /\ scan'.b = scan.b
        /\ j = ScanNext \/ j \in Scanned
    BY <1>0, <1>2, ScanCreates
  <2>2. CASE j \in Scanned
    BY <1>0, <2>1, <2>2 DEF FirstFinished
  <2>3. CASE j = ScanNext
    <3>1. CreateFirst
      BY <1>0, <1>2, <2>3, FirstTurn
    <3>2. ScanNext \in scan.done \/ jobs[ScanNext] = "complete"
      BY <1>0, <3>1, FirstOutcome
    <3> QED
      BY <1>0, <2>3, <3>2 DEF DoneRecorded, Finished
  <2> QED
    BY <2>1, <2>2, <2>3
<1>3. CASE LeaveWaiting \/ NewTracker
  BY <1>0, <1>3, ScanLeaves, ScanEnds
<1>4. CASE SubscribeWaiting \/ SubscribeDR \/ SubscribeOpt
  <2>1. IdleScan.pc = "idle"
    BY DEF IdleScan
  <2> QED
    BY <1>0, <1>4, <2>1, Subscribes, StoresMaps
<1>5. CASE Cluster \/ Informer \/ Worker \/ UNCHANGED vars
  BY <1>0, <1>5, OthersKeepScan DEF FirstFinished
<1>6. CASE Crash
  BY <1>6, Restarts
<1> QED
  BY <1>1, <1>2, <1>3, <1>4, <1>5, <1>6 DEF Next, Reconciler

LEMMA TurnAloneNext ==
    ASSUME TurnInv, [Next]_vars
    PROVE  TurnAlone'
<1> SUFFICES ASSUME InOrder, NEW i \in Turns', i \in TakesTurns,
                    NEW j \in Scanned' \ Listed', BenchmarkOf(i) = BenchmarkOf(j)
             PROVE  i = j \/ j \in Finished'
  BY DEF TurnAlone
<1>0. /\ RecInv /\ BaseInv /\ FlightOK /\ FirstFinished /\ StartedInOrder
      /\ j \in TakesTurns /\ i \in Jobs /\ j \in Jobs /\ ~Crash
      /\ Finished \subseteq Finished'
      /\ \A m \in Turns \cap TakesTurns : \A n \in Scanned \ Listed :
           BenchmarkOf(m) = BenchmarkOf(n) => m = n \/ n \in Finished
      /\ \A m, n \in Turns \cap TakesTurns :
           BenchmarkOf(m) = BenchmarkOf(n) => m = n
  <2>1. j \in Jobs /\ ~Crash /\ "cleanup" \notin Faults /\ SafeTurns
    BY Restarts DEF Scanned, InOrder, SafeTurns
  <2>2. RecInv /\ BaseInv /\ FlightOK
    BY DEF TurnInv, RecInv, BaseInv
  <2>3. /\ FirstFinished /\ StartedInOrder
        /\ \A m \in Turns \cap TakesTurns : \A n \in Scanned \ Listed :
             BenchmarkOf(m) = BenchmarkOf(n) => m = n \/ n \in Finished
        /\ \A m, n \in Turns \cap TakesTurns :
             BenchmarkOf(m) = BenchmarkOf(n) => m = n
    BY <2>1 DEF TurnInv, TurnAlone, OneTurn
  <2> QED
    BY <2>1, <2>2, <2>3, TakesTurnsFacts, FinishedGrows
<1>1. CASE WorkerCreate
  <2>1. /\ worker.job \in InFlight /\ worker.job \in Jobs
        /\ worker.job \in Turns /\ BenchmarkOf(worker.next) = Its
        /\ worker.job \in Finished /\ BenchmarkOf(worker.job) = Its
        /\ Turns' \subseteq (Turns \ {worker.job}) \cup {worker.next}
        /\ j \in Scanned \ Listed \/ j = worker.next
    <3>1. /\ worker.job \in InFlight /\ worker.job \in Jobs
          /\ BenchmarkOf(worker.next) = Its
          /\ Scanned' = Scanned /\ Listed' = Listed \ {worker.next}
      BY <1>0, <1>1, Deploys, SameSets
    <3>2. Turns' \subseteq (Turns \ {worker.job}) \cup {worker.next}
      <4>1. ~(CreateEager \/ CreateFirst) \/ Turns' \subseteq Turns
        BY <1>0, <1>1, Deploys, ScanCreates, TurnChanges
      <4>2. worker.job \notin Turns'
        <5>1. InFlight' = InFlight \ {worker.job}
          BY <1>0, <1>1, Deploys
        <5>2. jobs[worker.job] = "complete" /\ jobs'[worker.job] # "active"
          BY <1>0, <1>1, <3>1, JobChanges DEF FlightOK
        <5> QED
          BY <5>1, <5>2 DEF Turns, Active
      <4> QED
        BY <1>0, <4>1, <4>2, TurnChanges
    <3> QED
      BY <1>0, <3>1, <3>2 DEF Turns, FlightOK, Finished, Its
  <2>2. CASE BenchmarkOf(i) # Its
    BY <1>0, <2>1, <2>2
  <2>3. CASE BenchmarkOf(i) = Its
    <3>1. worker.job \in TakesTurns
      BY <1>0, <2>1, <2>3, TakesTurnsFacts
    <3>2. i = worker.next
      BY <1>0, <2>1, <2>3, <3>1
    <3> QED
      BY <1>0, <2>1, <2>3, <3>1, <3>2
  <2> QED
    BY <2>2, <2>3
<1>2. CASE CreateEager \/ CreateFirst
  <2>1. /\ BenchmarkOf(ScanNext) = scan.b
        /\ i \in Turns \/ i = ScanNext
        /\ j \in Scanned \ Listed \/ j = ScanNext
    BY <1>0, <1>2, ScanCreates, TurnChanges, Deploys
  <2>2. CASE i \in Turns /\ j \in Scanned \ Listed
    BY <1>0, <2>2
  <2>3. CASE i \in Turns /\ j = ScanNext
    <3>1. CreateFirst
      BY <1>0, <1>2, <2>3, FirstTurn
    <3> QED
      BY <1>0, <2>1, <2>3, <3>1, TurnAhead
  <2>4. CASE i = ScanNext /\ j \in Scanned \ Listed
    <3>1. scan.pc = "first"
      BY <1>0, <1>2, <2>4, FirstTurn
    <3> QED
      BY <1>0, <2>1, <2>4, <3>1 DEF FirstFinished
  <2> QED
    BY <2>1, <2>2, <2>3, <2>4
<1>3. CASE ~WorkerCreate /\ ~(CreateEager \/ CreateFirst)
  <2>1. i \in Turns
    BY <1>0, <1>3, TurnChanges
  <2>2. CASE j \in Scanned \ Listed
    BY <1>0, <2>1, <2>2
  <2>3. CASE LeaveWaiting /\ j = ScanNext /\ jobs[j] # "absent"
    <3>1. scan.b \notin subscribers /\ BenchmarkOf(j) = scan.b
      BY <1>0, <2>3, ScanLeaves
    <3>2. i \in Started /\ i \notin Finished /\ j \in Started
      BY <1>0, <2>1, <2>3, <3>1, TurnsStarted DEF Started
    <3>3. i \notin Earlier(j) /\ (j \in Earlier(i) => j \in Finished)
      BY <1>0, <3>2 DEF StartedInOrder
    <3> QED
      BY <1>0, <3>3, TakesTurnsFacts
  <2>4. CASE /\ WorkerPop /\ BenchmarkOf(j) = Its
             /\ InFlight' = InFlight \ {worker.job}
    <3>1. /\ worker.job \in InFlight /\ worker.job \in Jobs /\ jobs' = jobs
          /\ BenchmarkOf(worker.job) = Its
      BY <1>0, <2>4, Pops DEF Its
    <3>2. worker.job \in Turns /\ worker.job \in TakesTurns
      BY <1>0, <2>4, <3>1, TakesTurnsFacts DEF Turns
    <3>3. i = worker.job
      BY <1>0, <2>1, <2>4, <3>1, <3>2
    <3>4. worker.job \notin Turns'
      BY <1>0, <2>4, <3>1 DEF Turns, Active, FlightOK
    <3> QED
      BY <3>3, <3>4
  <2> QED
    BY <1>0, <1>3, <2>2, <2>3, <2>4, ListChanges
<1> QED
  BY <1>1, <1>2, <1>3

LEMMA TurnInvNext ==
    ASSUME TurnInv, [Next]_vars
    PROVE  TurnInv'
<1>1. RecInv'
  BY RecInvNext DEF TurnInv
<1> QED
  BY <1>1, NoTurnYetNext, OneTurnNext, StartedInOrderNext, FirstFinishedNext,
     TurnAloneNext
  DEF TurnInv

LEMMA TurnInvInit == Init => TurnInv
<1> SUFFICES ASSUME Init PROVE TurnInv
  OBVIOUS
<1>1. /\ pending = <<>> /\ jobQueue = <<>> /\ worker.pc = "idle"
      /\ scan.pc = "idle" /\ results = {}
      /\ \A j \in Jobs : jobs[j] = "absent"
  BY DEF Init, IdleScan, IdleWorker
<1>2. InFlight = {} /\ Active = {} /\ Started = {}
  BY <1>1 DEF InFlight, Active, Started, Range
<1>3. NoTurnYet /\ OneTurn /\ StartedInOrder /\ FirstFinished /\ TurnAlone
  BY <1>1, <1>2 DEF NoTurnYet, OneTurn, StartedInOrder, FirstFinished,
                    TurnAlone, Turns
<1> QED
  BY <1>3, RecInvInit DEF TurnInv

LEMMA OneTurnExcludes ==
    ASSUME OneTurn, SafeTurns
    PROVE  SequentialExclusion
<1> SUFFICES ASSUME NEW b \in Benchmarks, Sequential(b),
                    NEW j \in Range(JobsOf[b]), NEW k \in Range(JobsOf[b]),
                    jobs[j] = "active", jobs[k] = "active"
             PROVE  j = k
  BY DEF SequentialExclusion
<1>1. /\ j \in Jobs /\ k \in Jobs
      /\ BenchmarkOf(j) = b /\ BenchmarkOf(k) = b
  BY FamilyOf
<1> QED
  BY <1>1 DEF OneTurn, Turns, Active, TakesTurns

\* A sequential benchmark has at most one running job, whatever else happens,
\* as long as the operator does not restart; and through any number of
\* restarts when jobs complete only once their benchmark is tracked and are
\* cleaned up only once their result is recorded.
THEOREM Exclusion ==
    ASSUME SafeTurns
    PROVE  Spec => []SequentialExclusion
<1>1. TurnInv /\ [Next]_vars => TurnInv'
  BY TurnInvNext
<1>2. TurnInv => SequentialExclusion
  BY OneTurnExcludes DEF TurnInv
<1> QED
  BY <1>1, <1>2, TurnInvInit, PTL DEF Spec

-----------------------------------------------------------------------------
(***************************************************************************)
(* Waiting jobs.  After a restart, a lookup that fails takes a job of the  *)
(* previous process for absent and puts it in the list.                    *)
(***************************************************************************)
SafeLookups == ~({"get", "crash"} \subseteq Faults)
NoneLost    == Faults \cap {"fast", "create", "cleanup"} = {} /\ SafeLookups

ListedAbsent == SafeLookups => \A j \in Listed : jobs[j] = "absent"

\* Subscribe stores an entry of JobOptMap for every job that waits.
ListedHaveOpts ==
    SafeLookups =>
        \A b \in Benchmarks :
            Range(waitingJobMap[b]) \subseteq jobOptMap \cup OptsLeft

OptsOfScan == \A j \in OptsLeft : j \in Jobs /\ BenchmarkOf(j) = scan.b

\* Every job that has been scanned has started or waits.
NoneForgotten == NoneLost => Scanned \subseteq Listed \cup Started

WaitInv == /\ TurnInv /\ ListedAbsent /\ ListedHaveOpts
           /\ OptsOfScan /\ NoneForgotten

\* What is listed: a job is put in a list by the scan, and only if a lookup
\* does not find it.
LEMMA ListGrows ==
    ASSUME BaseInv, [Next]_vars
    PROVE  \A j \in Listed' :
             \/ j \in Listed /\ (WorkerCreate => j # worker.next)
             \/ /\ LeaveWaiting /\ j = ScanNext
                /\ jobs[j] = "absent" \/ "get" \in Faults
<1>1. CASE \E c \in Benchmarks : CreateFromOperator(c)
  <2>1. Listed' = Listed /\ ~WorkerCreate
    BY <1>1, ScanBegins, Deploys
  <2> QED
    BY <2>1
<1>2. CASE CreateEager \/ CreateFirst
  <2>1. Listed' = Listed /\ UNCHANGED worker
    BY <1>2, ScanCreates
  <2> QED
    BY <2>1, Deploys
<1>3. CASE LeaveWaiting
  <2>1. /\ UNCHANGED worker
        /\ \/ Listed' = Listed
           \/ /\ jobs[ScanNext] = "absent" \/ "get" \in Faults
              /\ Listed' = Listed \cup {ScanNext}
    BY <1>3, ScanLeaves
  <2> QED
    BY <1>3, <2>1, Deploys
<1>4. CASE NewTracker \/ SubscribeWaiting \/ SubscribeDR \/ SubscribeOpt
  <2>1. Listed' = Listed /\ UNCHANGED worker
    BY <1>4, ScanEnds, Subscribes, StoresMaps
  <2> QED
    BY <2>1, Deploys
<1>5. ASSUME NEW k \in Jobs, JobCompletes(k) \/ JobFails(k) \/ JobCleanedUp(k)
      PROVE  Listed' = Listed /\ UNCHANGED worker
  <2>1. UNCHANGED <<waitingJobMap, scan, worker>>
    BY <1>5 DEF JobCompletes, JobFails, JobCleanedUp, maps
  <2> QED
    BY <2>1, SameSets
<1>6. CASE Informer \/ (Worker /\ ~WorkerCreate) \/ UNCHANGED vars
  <2>1. Listed' \subseteq Listed
    BY <1>6, MovesOn, WorkerGoesOn, WorkerGivesUp, Pops, NothingMoves,
       StutterMoves
    DEF Informer, Worker
  <2>2. ~WorkerCreate \/ UNCHANGED worker
    BY <1>6, MovesOn, NothingMoves, StutterMoves DEF Informer, UpdateFunc
  <2> QED
    BY <2>1, <2>2, Deploys
<1>7. CASE WorkerCreate
  BY <1>7, Deploys
<1>8. CASE Crash
  BY <1>8, Restarts
<1>9. ASSUME Listed' = Listed /\ UNCHANGED worker
      PROVE  \A j \in Listed' : j \in Listed /\ (WorkerCreate => j # worker.next)
  BY <1>9, Deploys
<1> QED
  BY <1>1, <1>2, <1>3, <1>4, <1>5, <1>6, <1>7, <1>8, <1>9
  DEF Next, Reconciler, Cluster

LEMMA ListedAbsentNext ==
    ASSUME WaitInv, [Next]_vars
    PROVE  ListedAbsent'
<1> SUFFICES ASSUME SafeLookups, NEW j \in Listed'
             PROVE  jobs'[j] = "absent"
  BY DEF ListedAbsent
<1>0. /\ BaseInv /\ NewIsAbsent
      /\ \A k \in Listed : k \in Jobs /\ jobs[k] = "absent"
  BY DEF WaitInv, TurnInv, RecInv, ListedAbsent, Listed, InList, BaseInv,
         TypeOK, WorkerOK
<1>1. CASE j \in Listed /\ (WorkerCreate => j # worker.next)
  <2>1. CreateEager \/ CreateFirst => j # ScanNext
    BY <1>0, <1>1, ScanCreates
  <2> QED
    BY <1>0, <1>1, <2>1, JobChanges
<1>2. CASE /\ LeaveWaiting /\ j = ScanNext
           /\ jobs[j] = "absent" \/ "get" \in Faults
  <2>1. /\ jobs' = jobs /\ ScanNext \in Jobs /\ ScanNext \notin Scanned
    BY <1>0, <1>2, ScanLeaves
  <2>2. "crash" \notin Faults => jobs[j] = "absent"
    BY <1>0, <1>2, <2>1 DEF NewIsAbsent
  <2> QED
    BY <1>2, <2>1, <2>2 DEF SafeLookups
<1> QED
  BY <1>0, <1>1, <1>2, ListGrows

\* A job in a list of the tracker is a job of that benchmark, and listed.
LEMMA MapListed ==
    ASSUME BaseInv, NEW b \in Benchmarks, NEW j \in Range(waitingJobMap[b])
    PROVE  j \in Jobs /\ BenchmarkOf(j) = b /\ j \in Listed
<1>1. waitingJobMap[b] \in Seq(Jobs)
  BY DEF BaseInv, TypeOK, MapsOK
<1>2. PICK m \in 1..Len(waitingJobMap[b]) : waitingJobMap[b][m] = j
  BY <1>1, InRange
<1>3. j \in Jobs /\ BenchmarkOf(j) = b
  BY <1>1, <1>2 DEF BaseInv, MapListsOK, Ordered
<1> QED
  BY <1>3 DEF Listed, InList

\* A job comes into a list of the tracker when its benchmark subscribes.
LEMMA MapGrows ==
    ASSUME BaseInv, [Next]_vars
    PROVE  \A b \in Benchmarks : \A j \in Range(waitingJobMap'[b]) :
             \/ j \in Range(waitingJobMap[b])
             \/ /\ SubscribeWaiting /\ b = scan.b /\ j \in Jobs
                /\ BenchmarkOf(j) = b /\ scan'.pc = "dr"
                /\ scan'.opts = Range(JobsOf[b])
<1>0. /\ waitingJobMap \in [Benchmarks -> Seq(Jobs)]
      /\ scan.waitingJob \in Seq(Jobs) /\ PhaseOK /\ ScanListOK /\ MapListsOK
  BY DEF BaseInv, TypeOK, MapsOK, ScanOK
<1>1. CASE SubscribeWaiting
  <2>1. CASE UNCHANGED waitingJobMap
    BY <2>1
  <2>2. CASE ~UNCHANGED waitingJobMap
    <3>1. PICK c \in Benchmarks : c = scan.b
      BY <1>1, Subscribes
    <3>2. /\ waitingJobMap' = [waitingJobMap EXCEPT ![c] = scan.waitingJob]
          /\ scan'.pc = "dr" /\ scan'.opts = Range(JobsOf[c])
          /\ scan.pc = "waiting"
      BY <1>0, <1>1, <2>2, <3>1, Subscribes DEF PhaseOK
    <3>3. ASSUME NEW j \in Range(scan.waitingJob)
          PROVE  j \in Jobs /\ BenchmarkOf(j) = c
      <4>1. PICK m \in 1..Len(scan.waitingJob) : scan.waitingJob[m] = j
        BY <1>0, InRange
      <4> QED
        BY <1>0, <3>1, <3>2, <4>1 DEF ScanListOK, Ordered
    <3> QED
      BY <1>0, <1>1, <3>1, <3>2, <3>3
  <2> QED
    BY <2>1, <2>2
<1>2. CASE WorkerPop
  <2>1. PICK c \in Benchmarks : c = Its
    BY <1>2, Pops
  <2>2. \/ UNCHANGED waitingJobMap
        \/ /\ waitingJobMap[c] # <<>>
           /\ waitingJobMap' =
                [waitingJobMap EXCEPT ![c] = Tail(waitingJobMap[c])]
    BY <1>2, <2>1, Pops
  <2>3. waitingJobMap[c] # <<>> =>
          Range(Tail(waitingJobMap[c])) \subseteq Range(waitingJobMap[c])
    BY <1>0, OrderedTail DEF MapListsOK
  <2> QED
    BY <1>0, <2>2, <2>3
<1>3. CASE \/ \E b \in Benchmarks : CreateFromOperator(b)
           \/ CreateEager \/ CreateFirst \/ LeaveWaiting \/ NewTracker
           \/ SubscribeDR \/ SubscribeOpt
  <2>1. UNCHANGED waitingJobMap
    BY <1>3, ScanBegins, ScanCreates, ScanLeaves, ScanEnds, StoresMaps DEF maps
  <2> QED
    BY <2>1
<1>4. CASE Cluster \/ Informer \/ (Worker /\ ~WorkerPop) \/ UNCHANGED vars
  <2>1. CASE Cluster \/ Informer
    <3>1. UNCHANGED waitingJobMap
      BY <2>1 DEF Cluster, JobCompletes, JobFails, JobCleanedUp, Informer,
                  InformerSync, UpdateFunc, maps
    <3> QED
      BY <3>1
  <2>2. CASE (Worker /\ ~WorkerPop) \/ UNCHANGED vars
    <3>1. UNCHANGED waitingJobMap
      BY <2>2, MovesOn, WorkerGoesOn, WorkerGivesUp, Deploys, NothingMoves,
         StutterMoves
      DEF Worker, maps
    <3> QED
      BY <3>1
  <2> QED
    BY <1>4, <2>1, <2>2
<1>5. CASE Crash
  <2>1. Range(<<>>) = {}
    BY DEF Range
  <2> QED
    BY <1>5, <2>1, Restarts
<1> QED
  BY <1>1, <1>2, <1>3, <1>4, <1>5 DEF Next, Reconciler

\* An entry of JobOptMap stays until the worker drops the finished job.
LEMMA OptsKept ==
    ASSUME BaseInv, [Next]_vars, ~Crash
    PROVE  \A j \in jobOptMap \cup OptsLeft :
             \/ j \in jobOptMap' \cup OptsLeft'
             \/ WorkerPop /\ j = worker.job
<1>1. CASE \E b \in Benchmarks : CreateFromOperator(b)
  <2>1. OptsLeft = {} /\ UNCHANGED jobOptMap
    BY <1>1, ScanBegins DEF OptsLeft, maps
  <2> QED
    BY <2>1
<1>2. CASE CreateEager \/ CreateFirst \/ LeaveWaiting
  <2>1. OptsLeft = {} /\ UNCHANGED jobOptMap
    BY <1>2, ScanCreates, ScanLeaves DEF OptsLeft, maps
  <2> QED
    BY <2>1
<1>3. CASE NewTracker \/ SubscribeWaiting
  <2>1. OptsLeft = {} /\ UNCHANGED jobOptMap
    BY <1>3, ScanEnds, Subscribes DEF OptsLeft, maps
  <2> QED
    BY <2>1
<1>4. CASE SubscribeDR \/ SubscribeOpt
  BY <1>4, StoresMaps
<1>5. CASE Cluster \/ Informer \/ Worker \/ UNCHANGED vars
  <2>1. OptsLeft' = OptsLeft
    BY <1>5, OthersKeepScan, SameSets
  <2>2. CASE Cluster \/ Informer
    <3>1. UNCHANGED jobOptMap
      BY <2>2 DEF Cluster, JobCompletes, JobFails, JobCleanedUp, Informer,
                  InformerSync, UpdateFunc, maps
    <3> QED
      BY <2>1, <3>1
  <2>3. CASE (Worker /\ ~WorkerPop) \/ UNCHANGED vars
    <3>1. UNCHANGED jobOptMap
      BY <2>3, MovesOn, WorkerGoesOn, WorkerGivesUp, Deploys, NothingMoves,
         StutterMoves
      DEF Worker, maps
    <3> QED
      BY <2>1, <3>1
  <2>4. CASE WorkerPop
    BY <2>1, <2>4, Pops
  <2> QED
    BY <1>5, <2>2, <2>3, <2>4
<1> QED
  BY <1>1, <1>2, <1>3, <1>4, <1>5 DEF Next, Reconciler

LEMMA OptsOfScanNext ==
    ASSUME WaitInv, [Next]_vars
    PROVE  OptsOfScan'
<1>0. BaseInv /\ OptsOfScan /\ PhaseOK /\ ScanOK
  BY DEF WaitInv, TurnInv, RecInv, BaseInv, TypeOK
<1> SUFFICES ASSUME NEW j \in OptsLeft'
             PROVE  j \in Jobs /\ BenchmarkOf(j) = scan'.b
  BY DEF OptsOfScan
<1>1. ASSUME NEW b \in Benchmarks, CreateFromOperator(b)
      PROVE  FALSE
  BY <1>0, <1>1, ScanBegins DEF OptsLeft
<1>2. CASE CreateEager \/ CreateFirst \/ LeaveWaiting \/ NewTracker
  BY <1>0, <1>2, ScanCreates, ScanLeaves, ScanEnds DEF OptsLeft
<1>3. CASE SubscribeWaiting
  <2>1. IdleScan.pc = "idle"
    BY DEF IdleScan
  <2>2. PICK b \in Benchmarks : b = scan.b
    BY <1>0, <1>3, Subscribes
  <2>3. scan'.b = b /\ scan'.opts = Range(JobsOf[b]) /\ scan'.pc = "dr"
    BY <1>0, <1>3, <2>1, <2>2, Subscribes DEF OptsLeft, PhaseOK
  <2> QED
    BY <2>2, <2>3, FamilyOf DEF OptsLeft
<1>4. CASE SubscribeDR \/ SubscribeOpt
  <2>1. IdleScan.pc = "idle"
    BY DEF IdleScan
  <2>2. /\ scan.pc \in {"dr", "opt"} /\ j \in scan.opts
        /\ scan'.b = scan.b
    <3>1. CASE SubscribeDR
      BY <1>0, <3>1 DEF SubscribeDR, OptsLeft, ScanOK
    <3>2. CASE SubscribeOpt
      <4>1. PICK k \in scan.opts :
              scan' = IF scan.opts = {k} THEN IdleScan
                      ELSE [scan EXCEPT !.opts = @ \ {k}]
        BY Zenon, <3>2 DEF SubscribeOpt
      <4>2. CASE scan' = IdleScan
        BY <2>1, <4>2 DEF OptsLeft
      <4>3. CASE scan' = [scan EXCEPT !.opts = scan.opts \ {k}]
        <5>1. scan.pc = "opt"
          BY <3>2 DEF SubscribeOpt
        <5> QED
          BY <1>0, <4>3, <5>1 DEF OptsLeft, ScanOK
      <4> QED
        BY <4>1, <4>2, <4>3
    <3> QED
      BY <1>4, <3>1, <3>2
  <2> QED
    BY <1>0, <2>2 DEF OptsOfScan, OptsLeft
<1>5. CASE Cluster \/ Informer \/ Worker \/ UNCHANGED vars
  BY <1>0, <1>5, OthersKeepScan, SameSets DEF OptsOfScan
<1>6. CASE Crash
  BY <1>6, Restarts DEF OptsLeft, IdleScan
<1> QED
  BY <1>1, <1>2, <1>3, <1>4, <1>5, <1>6 DEF Next, Reconciler

LEMMA ListedHaveOptsNext ==
    ASSUME WaitInv, [Next]_vars
    PROVE  ListedHaveOpts'
<1> SUFFICES ASSUME SafeLookups, NEW b \in Benchmarks,
                    NEW j \in Range(waitingJobMap'[b])
             PROVE  j \in jobOptMap' \cup OptsLeft'
  BY DEF ListedHaveOpts
<1>0. BaseInv /\ FlightOK /\ ListedAbsent /\ ListedHaveOpts
  BY DEF WaitInv, TurnInv, RecInv, BaseInv
<1>1. CASE j \in Range(waitingJobMap[b])
  <2>1. j \in Listed /\ jobs[j] = "absent" /\ j \in jobOptMap \cup OptsLeft
    BY <1>0, <1>1, MapListed DEF ListedAbsent, ListedHaveOpts
  <2>2. WorkerPop => j # worker.job
    BY <1>0, <2>1, Pops DEF FlightOK
  <2>3. ~Crash
    <3>1. Range(<<>>) = {}
      BY DEF Range
    <3> QED
      BY <3>1, Restarts
  <2> QED
    BY <1>0, <2>1, <2>2, <2>3, OptsKept
<1>2. CASE /\ b = scan.b /\ j \in Jobs /\ BenchmarkOf(j) = b
           /\ scan'.pc = "dr" /\ scan'.opts = Range(JobsOf[b])
  BY <1>2, FamilyOf DEF OptsLeft
<1> QED
  BY <1>0, <1>1, <1>2, MapGrows

\* The worker knows the job it takes off a list, as the benchmark of a
\* completed job is fully subscribed unless a completion of it came early.
LEMMA PopsKnown ==
    ASSUME WaitInv, SafeLookups, Its \notin early, WorkerPop,
           Its \in waitingKeys, waitingJobMap[Its] # <<>>
    PROVE  NextUp \in jobOptMap'
<1>0. /\ BaseInv /\ FlightOK /\ ListedAbsent /\ ListedHaveOpts /\ OptsOfScan
      /\ FlightTracked /\ waitingJobMap \in [Benchmarks -> Seq(Jobs)]
      /\ Its \in Benchmarks /\ worker.job \in InFlight
      /\ jobOptMap' = jobOptMap \ {worker.job}
  BY Pops DEF WaitInv, TurnInv, RecInv, BaseInv, TypeOK, MapsOK
<1>1. NextUp \in Range(waitingJobMap[Its])
  BY <1>0, OrderedTail DEF BaseInv, MapListsOK, NextUp
<1>2. NextUp \in jobOptMap \cup OptsLeft /\ BenchmarkOf(NextUp) = Its
  BY <1>0, <1>1, MapListed DEF ListedHaveOpts
<1>3. NextUp # worker.job
  BY <1>0, <1>1, MapListed DEF ListedAbsent, FlightOK
<1>4. NextUp \notin OptsLeft
  BY <1>0, <1>2 DEF OptsOfScan, FlightTracked, Its
<1> QED
  BY <1>0, <1>2, <1>3, <1>4

LEMMA NoneForgottenNext ==
    ASSUME WaitInv, [Next]_vars
    PROVE  NoneForgotten'
<1> SUFFICES ASSUME NoneLost, NEW j \in Scanned', j \notin Listed'
             PROVE  j \in Started'
  BY DEF NoneForgotten
<1>0. /\ BaseInv /\ NoneForgotten /\ DoneRecorded /\ ~Crash /\ j \in Jobs
      /\ Started \subseteq Started' /\ results \subseteq results'
      /\ SafeLookups /\ early = {} /\ "create" \notin Faults
  BY Restarts, FinishedGrows, ResultChanges
  DEF WaitInv, TurnInv, RecInv, NoneLost, Scanned, FlightTracked
<1>1. CASE j \in Scanned \ Listed
  BY <1>0, <1>1 DEF NoneForgotten
<1>2. CASE (CreateEager \/ CreateFirst) /\ j = ScanNext
  BY <1>0, <1>2, ScanStarts DEF DoneRecorded, Started
<1>3. CASE jobs[j] # "absent"
  BY <1>0, <1>3 DEF Started
<1>4. CASE /\ WorkerPop /\ j = NextUp /\ BenchmarkOf(j) = Its
           /\ worker.job \in jobOptMap /\ Its \in waitingKeys
           /\ j \in Range(waitingJobMap[Its]) /\ j \notin jobOptMap'
  <2>1. waitingJobMap[Its] # <<>>
    <3>1. Range(<<>>) = {}
      BY DEF Range
    <3> QED
      BY <1>4, <3>1
  <2> QED
    BY <1>0, <1>4, <2>1, PopsKnown
<1>5. CASE WorkerCreate /\ j = worker.next
  BY <1>0, <1>5, Deploys DEF Started
<1> QED
  BY <1>0, <1>1, <1>2, <1>3, <1>4, <1>5, ListChanges

LEMMA WaitInvNext ==
    ASSUME WaitInv, [Next]_vars
    PROVE  WaitInv'
<1>1. TurnInv'
  BY TurnInvNext DEF WaitInv
<1> QED
  BY <1>1, ListedAbsentNext, ListedHaveOptsNext, OptsOfScanNext,
     NoneForgottenNext
  DEF WaitInv

LEMMA WaitInvInit == Init => WaitInv
<1> SUFFICES ASSUME Init PROVE WaitInv
  OBVIOUS
<1>1. /\ waitingJobMap = [b \in Benchmarks |-> <<>>] /\ worker.pc = "idle"
      /\ scan.pc = "idle" /\ scan.b = None /\ subscribers = {}
  BY DEF Init, IdleScan, IdleWorker
<1>2. /\ \A b \in Benchmarks : Range(waitingJobMap[b]) = {}
      /\ \A j \in Jobs : BenchmarkOf(j) \in Benchmarks /\ BenchmarkOf(j) # None
  BY <1>1, BenchmarkOfType, JobsAssumption DEF Range
<1>3. Listed = {} /\ OptsLeft = {} /\ Scanned = {}
  BY <1>1, <1>2 DEF Listed, InList, OptsLeft, Scanned
<1>4. ListedAbsent /\ ListedHaveOpts /\ OptsOfScan /\ NoneForgotten
  BY <1>2, <1>3 DEF ListedAbsent, ListedHaveOpts, OptsOfScan, NoneForgotten
<1> QED
  BY <1>4, TurnInvInit DEF WaitInv

LEMMA WaitingIsAbsentHolds ==
    ASSUME WaitInv, NoneLost
    PROVE  WaitingIsAbsent
<1>0. /\ BaseInv /\ SafeLookups
      /\ \A j \in Listed : jobs[j] = "absent"
      /\ Scanned \subseteq Listed \cup Started
      /\ waitingJobMap \in [Benchmarks -> Seq(Jobs)]
  BY DEF WaitInv, TurnInv, RecInv, BaseInv, TypeOK, MapsOK, NoneLost,
         ListedAbsent, NoneForgotten
<1>1. WaitingJobsAbsent
  BY <1>0, MapListed DEF WaitingJobsAbsent, Listed
<1>2. NoJobForgotten
  <2> SUFFICES ASSUME NEW b \in Benchmarks, Tracked(b),
                      NEW j \in Range(JobsOf[b]),
                      jobs[j] = "absent", j \notin results
               PROVE  \/ \E i \in 1..Len(waitingJobMap[b]) :
                           waitingJobMap[b][i] = j
                      \/ worker.pc = "create" /\ worker.next = j
    BY DEF NoJobForgotten
  <2>1. j \in Jobs /\ BenchmarkOf(j) = b
    BY FamilyOf
  <2>2. j \in Scanned /\ j \notin Started /\ scan.b # b
    BY <2>1 DEF Tracked, Scanned, Started
  <2>3. j \in Listed
    BY <1>0, <2>2
  <2>4. CASE scan.pc \in {"rest", "waiting"} /\ j \in Range(scan.waitingJob)
    <3>1. scan.waitingJob \in Seq(Jobs)
      BY <1>0 DEF BaseInv, TypeOK, ScanOK
    <3>2. PICK m \in 1..Len(scan.waitingJob) : scan.waitingJob[m] = j
      BY <2>4, <3>1, InRange
    <3>3. BenchmarkOf(j) = scan.b
      BY <1>0, <2>4, <3>2 DEF BaseInv, ScanListOK, Ordered
    <3> QED
      BY <2>1, <2>2, <3>3
  <2>5. CASE j \in Range(waitingJobMap[b])
    BY <1>0, <2>5, InRange
  <2> QED
    BY <2>1, <2>3, <2>4, <2>5 DEF Listed, InList
<1> QED
  BY <1>1, <1>2 DEF WaitingIsAbsent

\* What waits for its turn does not exist, and a job of a tracked benchmark
\* that does not exist and has no result waits.  The premise leaves out jobs
\* that complete before their benchmark is tracked, creations that fail,
\* clean-ups before the result is recorded, and failed lookups after a restart.
THEOREM WaitingStaysAbsent ==
    ASSUME NoneLost
    PROVE  Spec => []WaitingIsAbsent
<1>1. WaitInv /\ [Next]_vars => WaitInv'
  BY WaitInvNext
<1>2. WaitInv => WaitingIsAbsent
  BY WaitingIsAbsentHolds
<1> QED
  BY <1>1, <1>2, WaitInvInit, PTL DEF Spec

-----------------------------------------------------------------------------
(***************************************************************************)
(* The maps that the reconciler and the worker share without a lock.       *)
(***************************************************************************)

\* A job whose completion deploys another is known to JobOptMap.
OptsKnown ==
    \A j \in Active \cup Coming :
        BenchmarkOf(j) \in waitingKeys => j \in jobOptMap \cup OptsLeft

DRKnown ==
    \A b \in waitingKeys : b \in drMap \/ (scan.b = b /\ scan.pc = "dr")

\* What the worker read of DRMap before the benchmark was subscribed is nil.
DRRead ==
    worker.pc \in {"pop", "create"} /\ Its \in waitingKeys \ early =>
        worker.dr = "ok"

KeyInv ==
    /\ WaitInv
    /\ ~panicked => OptsKnown
    /\ DRKnown /\ DRRead

\* Which keys WaitingJobMap has.
LEMMA KeysChange ==
    ASSUME BaseInv, [Next]_vars
    PROVE  \/ waitingKeys' \subseteq waitingKeys
           \/ /\ SubscribeWaiting /\ waitingKeys' = waitingKeys \cup {scan.b}
              /\ scan.b \in Benchmarks /\ scan.b \notin subscribers
              /\ scan'.b = scan.b /\ scan'.pc = "dr"
              /\ scan'.opts = Range(JobsOf[scan.b])
              /\ UNCHANGED <<jobOptMap, jobs, worker, drMap>>
              /\ Coming' = Coming /\ Active' = Active
<1>1. CASE SubscribeWaiting
  <2>1. CASE UNCHANGED waitingKeys
    BY <2>1
  <2>2. CASE ~UNCHANGED waitingKeys
    <3>1. /\ waitingKeys' = waitingKeys \cup {scan.b} /\ scan.b \in Benchmarks
          /\ scan.b \notin subscribers /\ scan.pc = "waiting"
          /\ scan'.b = scan.b /\ scan'.pc = "dr" /\ scan'.opts = scan.opts
          /\ UNCHANGED <<jobs, drMap, jobOptMap, worker, queues>>
      BY <1>1, <2>2, Subscribes
    <3>2. scan.opts = Range(JobsOf[scan.b])
      BY <3>1 DEF BaseInv, PhaseOK
    <3>3. Coming' = Coming /\ Active' = Active
      BY <3>1, SameSets DEF queues
    <3> QED
      BY <1>1, <3>1, <3>2, <3>3
  <2> QED
    BY <2>1, <2>2
<1>2. CASE \/ \E b \in Benchmarks : CreateFromOperator(b)
           \/ CreateEager \/ CreateFirst \/ LeaveWaiting \/ NewTracker
           \/ SubscribeDR \/ SubscribeOpt
  <2>1. UNCHANGED waitingKeys
    BY <1>2, ScanBegins, ScanCreates, ScanLeaves, ScanEnds, StoresMaps DEF maps
  <2> QED
    BY <2>1
<1>3. CASE Cluster \/ Informer
  <2>1. UNCHANGED waitingKeys
    BY <1>3 DEF Cluster, JobCompletes, JobFails, JobCleanedUp, Informer,
                InformerSync, UpdateFunc, maps
  <2> QED
    BY <2>1
<1>4. CASE Worker \/ UNCHANGED vars
  <2>1. waitingKeys' \subseteq waitingKeys
    BY <1>4, MovesOn, WorkerGoesOn, WorkerGivesUp, Pops, Deploys, NothingMoves,
       StutterMoves
    DEF Worker, maps
  <2> QED
    BY <2>1
<1>5. CASE Crash
  BY <1>5, Restarts
<1> QED
  BY <1>1, <1>2, <1>3, <1>4, <1>5 DEF Next, Reconciler

\* Which jobs run or are reported.
LEMMA ComingChanges ==
    ASSUME BaseInv, [Next]_vars
    PROVE  \A j \in Active' \cup Coming' :
             \/ j \in Active \cup Coming
             \/ BenchmarkOf(j) = scan.b /\ scan.b \notin subscribers
                /\ UNCHANGED <<subscribers, waitingKeys>>
             \/ /\ WorkerCreate /\ j = worker.next /\ j \in jobOptMap
                /\ UNCHANGED jobOptMap
<1>0. jobs \in [Jobs -> JobStates] /\ NextJobOK
  BY DEF BaseInv, TypeOK, ClusterOK
<1>1. CASE CreateEager \/ CreateFirst
  <2>1. /\ UNCHANGED <<subscribers, waitingKeys>> /\ scan.b \notin subscribers
        /\ BenchmarkOf(ScanNext) = scan.b
    BY <1>1, ScanCreates DEF maps
  <2> QED
    BY <1>1, <2>1, ReconcilerMoves DEF Reconciler
<1>2. CASE \/ \E b \in Benchmarks : CreateFromOperator(b)
           \/ LeaveWaiting \/ NewTracker \/ SubscribeWaiting
           \/ SubscribeDR \/ SubscribeOpt
  <2>1. UNCHANGED jobs /\ Coming' = Coming
    BY <1>2, ScanBegins, ScanLeaves, ScanEnds, Subscribes, StoresMaps,
       ReconcilerMoves
    DEF Reconciler
  <2> QED
    BY <2>1, SameSets
<1>3. ASSUME NEW k \in Jobs, JobCompletes(k)
      PROVE  Active' \cup Coming' \subseteq Active \cup Coming
  <2>1. k \in Active
    BY <1>3, Completes DEF Active
  <2> QED
    BY <1>3, <2>1, Completes
<1>4. ASSUME NEW k \in Jobs, JobFails(k) \/ JobCleanedUp(k)
      PROVE  Active' \cup Coming' \subseteq Active \cup Coming
  <2>1. Coming' = Coming
    BY <1>4, SameSets DEF JobFails, JobCleanedUp, queues
  <2> QED
    BY <1>4, <2>1, Goes
<1>5. CASE WorkerCreate
  <2>1. /\ worker.next \in Jobs /\ Coming' = Coming /\ UNCHANGED jobOptMap
        /\ worker.pc = "create"
        /\ \/ jobs' = jobs
           \/ jobs' = [jobs EXCEPT ![worker.next] = "active"]
    BY <1>5, Deploys
  <2>2. Active' \subseteq Active \cup {worker.next}
    BY <1>0, <2>1 DEF Active
  <2>3. worker.next \in jobOptMap
    BY <1>0, <2>1 DEF NextJobOK
  <2> QED
    BY <1>5, <2>1, <2>2, <2>3
<1>6. CASE Informer \/ (Worker /\ ~WorkerCreate) \/ UNCHANGED vars
  <2>1. jobs' = jobs /\ Coming' \subseteq Coming
    BY <1>6, MovesOn, WorkerGoesOn, WorkerGivesUp, Pops, NothingMoves,
       StutterMoves
    DEF Informer, Worker
  <2> QED
    BY <2>1, SameSets
<1>7. CASE Crash
  <2>1. Coming' = {} /\ jobs' = jobs
    BY <1>7, Restarts
  <2> QED
    BY <2>1, SameSets
<1> QED
  BY <1>1, <1>2, <1>3, <1>4, <1>5, <1>6, <1>7 DEF Next, Reconciler, Cluster

LEMMA OptsKnownNext ==
    ASSUME KeyInv, [Next]_vars, ~panicked', ~panicked
    PROVE  OptsKnown'
<1> SUFFICES ASSUME NEW j \in Active' \cup Coming',
                    BenchmarkOf(j) \in waitingKeys'
             PROVE  j \in jobOptMap' \cup OptsLeft'
  BY DEF OptsKnown
<1>0. /\ BaseInv /\ FlightOK /\ OptsKnown /\ j \in Jobs /\ ~Crash
      /\ waitingKeys \subseteq subscribers
  BY Restarts DEF KeyInv, WaitInv, TurnInv, RecInv, BaseInv, MapListsOK,
                  Active, Coming
<1>1. CASE BenchmarkOf(j) \in waitingKeys
  <2>1. j \in jobOptMap \cup OptsLeft
    BY <1>0, <1>1, ComingChanges DEF OptsKnown
  <2>2. WorkerPop => j # worker.job
    <3>1. SUFFICES ASSUME WorkerPop PROVE j # worker.job
      OBVIOUS
    <3>2. /\ UNCHANGED jobs
          /\ Coming' = Coming \ {worker.job} \/ panicked'
          /\ worker.job \in InFlight
      BY <1>0, <3>1, Pops
    <3>3. worker.job \notin Active'
      BY <1>0, <3>2, <3>1, Pops DEF FlightOK, Active
    <3> QED
      BY <1>0, <3>2, <3>3
  <2> QED
    BY <1>0, <2>1, <2>2, OptsKept
<1>2. CASE BenchmarkOf(j) \notin waitingKeys
  <2>1. /\ BenchmarkOf(j) = scan.b /\ scan'.pc = "dr"
        /\ scan'.opts = Range(JobsOf[scan.b]) /\ scan.b \in Benchmarks
    BY <1>0, <1>2, KeysChange
  <2>2. PICK b \in Benchmarks : b = scan.b
    BY <2>1
  <2> QED
    BY <1>0, <2>1, <2>2, FamilyOf DEF OptsLeft
<1> QED
  BY <1>1, <1>2

LEMMA DRKnownNext ==
    ASSUME KeyInv, [Next]_vars
    PROVE  DRKnown'
<1> SUFFICES ASSUME NEW b \in waitingKeys'
             PROVE  b \in drMap' \/ (scan'.b = b /\ scan'.pc = "dr")
  BY DEF DRKnown
<1>0. BaseInv /\ DRKnown
  BY DEF KeyInv, WaitInv, TurnInv, RecInv
<1>1. CASE b \notin waitingKeys
  BY <1>0, <1>1, KeysChange
<1>2. CASE b \in waitingKeys
  <2>0. b \in drMap \/ (scan.b = b /\ scan.pc = "dr")
    BY <1>0, <1>2 DEF DRKnown
  <2>1. CASE \/ \E c \in Benchmarks : CreateFromOperator(c)
             \/ CreateEager \/ CreateFirst \/ LeaveWaiting \/ NewTracker
             \/ SubscribeWaiting
    <3>1. UNCHANGED drMap /\ scan.pc # "dr"
      BY <1>0, <2>1, ScanBegins, ScanCreates, ScanLeaves, ScanEnds, Subscribes
      DEF maps
    <3> QED
      BY <2>0, <3>1
  <2>2. CASE SubscribeDR \/ SubscribeOpt
    BY <1>0, <2>0, <2>2, StoresMaps
  <2>3. CASE Cluster \/ Informer \/ Worker \/ UNCHANGED vars
    <3>1. UNCHANGED scan
      BY <1>0, <2>3, OthersKeepScan
    <3>2. b \in drMap => b \in drMap'
      <4>1. CASE Cluster \/ Informer
        BY <4>1 DEF Cluster, JobCompletes, JobFails, JobCleanedUp, Informer,
                    InformerSync, UpdateFunc, maps
      <4>2. CASE Worker \/ UNCHANGED vars
        BY <1>0, <1>2, <4>2, MovesOn, WorkerGoesOn, WorkerGivesUp, Pops,
           Deploys, NothingMoves, StutterMoves
        DEF Worker, maps
      <4> QED
        BY <2>3, <4>1, <4>2
    <3> QED
      BY <2>0, <3>1, <3>2
  <2>4. CASE Crash
    BY <2>4, Restarts
  <2> QED
    BY <2>1, <2>2, <2>3, <2>4 DEF Next, Reconciler
<1> QED
  BY <1>1, <1>2

LEMMA DRReadNext ==
    ASSUME KeyInv, [Next]_vars
    PROVE  DRRead'
<1> SUFFICES ASSUME worker'.pc \in {"pop", "create"}, Its' \in waitingKeys',
                    Its' \notin early'
             PROVE  worker'.dr = "ok"
  BY DEF DRRead
<1>0. /\ BaseInv /\ DRKnown /\ DRRead /\ FlightTracked
      /\ Its' \notin early
  BY EarlyChanges DEF KeyInv, WaitInv, TurnInv, RecInv
<1>1. worker.pc # "idle" /\ Its \notin early =>
        Its \in subscribers /\ Its # scan.b
  BY <1>0 DEF FlightTracked, InFlight, Its, BaseInv, TypeOK, WorkerOK
<1>2. CASE UNCHANGED worker
  <2>1. Its' = Its /\ worker.pc # "idle"
    BY <1>2 DEF Its
  <2>2. Its \in waitingKeys
    BY <1>0, <1>1, <2>1, KeysChange
  <2> QED
    BY <1>0, <1>2, <2>1, <2>2 DEF DRRead
<1>3. CASE WorkerCollect \/ WorkerReadDR
  <2>1. /\ Its' = Its /\ waitingKeys' = waitingKeys /\ worker.pc = "deploy"
        /\ worker'.dr = IF Its \in drMap THEN "ok" ELSE "nil"
    BY <1>0, <1>3, WorkerGoesOn DEF Its, maps
  <2> QED
    BY <1>0, <1>1, <2>1 DEF DRKnown
<1>4. CASE WorkerPop
  <2>1. /\ Its' = Its /\ waitingKeys' = waitingKeys /\ worker.pc = "pop"
        /\ worker'.dr = worker.dr
    <3>1. IdleWorker.pc = "idle"
      BY DEF IdleWorker
    <3>2. /\ waitingKeys' = waitingKeys /\ worker.pc = "pop"
          /\ worker'.dr = worker.dr /\ worker'.job = worker.job
      BY <1>0, <1>4, <3>1, Pops
    <3> QED
      BY <3>2 DEF Its
  <2> QED
    BY <1>0, <2>1 DEF DRRead
<1>5. CASE WorkerTake \/ WorkerSkip \/ WorkerCreate \/ Crash
  <2>1. IdleWorker.pc = "idle"
    BY DEF IdleWorker
  <2>2. worker'.pc \notin {"pop", "create"}
    <3>1. WorkerTake => worker'.pc = "process"
      BY DEF WorkerTake, IdleWorker
    <3> QED
      BY <1>0, <1>5, <2>1, <3>1, WorkerGivesUp, Deploys, Restarts
  <2> QED
    BY <2>2
<1>6. CASE Reconciler \/ UpdateFunc \/ InformerSync \/ WorkerCreateNil
             \/ UNCHANGED vars
  <2>1. UNCHANGED worker
    BY <1>0, <1>6, ReconcilerMoves, NothingMoves, StutterMoves DEF UpdateFunc
  <2> QED
    BY <1>2, <2>1
<1>7. CASE Cluster
  <2>1. UNCHANGED worker
    BY <1>7 DEF Cluster, JobCompletes, JobFails, JobCleanedUp
  <2> QED
    BY <1>2, <2>1
<1> QED
  BY <1>3, <1>4, <1>5, <1>6, <1>7 DEF Next, Informer, Worker

LEMMA KeyInvNext ==
    ASSUME KeyInv, [Next]_vars
    PROVE  KeyInv'
<1>1. WaitInv'
  BY WaitInvNext DEF KeyInv
<1>2. CASE UNCHANGED vars
  <2>1. /\ UNCHANGED <<panicked, waitingKeys, jobOptMap, drMap, scan, worker>>
        /\ Active' = Active /\ Coming' = Coming /\ OptsLeft' = OptsLeft
    BY <1>2, StutterMoves
  <2>2. ~panicked' => OptsKnown'
    BY <2>1 DEF KeyInv, OptsKnown
  <2> QED
    BY <1>1, <2>2, DRKnownNext, DRReadNext DEF KeyInv
<1>3. CASE Next
  <2>1. ~panicked
    BY <1>3 DEF Next
  <2> QED
    BY <1>1, <2>1, OptsKnownNext, DRKnownNext, DRReadNext DEF KeyInv
<1> QED
  BY <1>2, <1>3

LEMMA KeyInvInit == Init => KeyInv
<1> SUFFICES ASSUME Init PROVE KeyInv
  OBVIOUS
<1>1. waitingKeys = {} /\ worker.pc = "idle"
  BY DEF Init, IdleWorker
<1> QED
  BY <1>1, WaitInvInit DEF KeyInv, OptsKnown, DRKnown, DRRead

-----------------------------------------------------------------------------
(***************************************************************************)
(* Panics.  The worker indexes an empty list when a second completion of   *)
(* the benchmark comes while its key is live.  A parallel benchmark gets   *)
(* there when the job that was taken off its list last is not created,     *)
(* because the operator, restarted, had put an existing job in the list.   *)
(***************************************************************************)
PanicPremise ==
    \/ SafeLookups
    \/ InOrder /\ \A b \in Benchmarks : Sequential(b)

\* The key of an empty list is about to be deleted, or is never used again.
EmptyUnused ==
    \A b \in waitingKeys \ early : waitingJobMap[b] = <<>> =>
        \/ worker.pc = "create" /\ Its = b
        \/ Sequential(b) /\ \A j \in Turns : BenchmarkOf(j) # b

PanicInv == KeyInv /\ (PanicPremise => EmptyUnused /\ NoPanic)

\* A subscribed benchmark gets turns from the worker only.
LEMMA TurnsOfSubscribed ==
    ASSUME BaseInv, [Next]_vars
    PROVE  \A j \in Turns' : BenchmarkOf(j) \in subscribers =>
             \/ j \in Turns
             \/ WorkerCreate /\ BenchmarkOf(j) = Its /\ worker.job \in Turns
<1>1. CreateEager \/ CreateFirst =>
        BenchmarkOf(ScanNext) = scan.b /\ scan.b \notin subscribers
  BY ScanCreates
<1>2. WorkerCreate => BenchmarkOf(worker.next) = Its /\ worker.job \in Turns
  BY Deploys DEF Turns
<1> QED
  BY <1>1, <1>2, TurnChanges

\* A worker about to create a job does nothing else.
LEMMA CreateStays ==
    ASSUME BaseInv, [Next]_vars, worker.pc = "create", ~WorkerCreate, ~Crash
    PROVE  UNCHANGED worker
<1>1. CASE Reconciler
  BY <1>1, ReconcilerMoves
<1>2. CASE Cluster
  BY <1>2 DEF Cluster, JobCompletes, JobFails, JobCleanedUp
<1>3. CASE Informer
  BY <1>3 DEF Informer, InformerSync, UpdateFunc
<1>4. CASE Worker
  <2>1. WorkerCreateNil
    BY <1>4, WorkerGoesOn, WorkerGivesUp, Pops DEF Worker, WorkerTake
  <2> QED
    BY <2>1, NothingMoves
<1>5. CASE UNCHANGED vars
  BY <1>5, StutterMoves
<1> QED
  BY <1>1, <1>2, <1>3, <1>4, <1>5 DEF Next

\* A list becomes empty when its last job is taken off.
LEMMA EmptiedByPop ==
    ASSUME BaseInv, [Next]_vars, ~Crash, NEW b \in waitingKeys,
           waitingJobMap[b] # <<>>, waitingJobMap'[b] = <<>>
    PROVE  WorkerPop /\ b = Its
<1>0. /\ waitingJobMap \in [Benchmarks -> Seq(Jobs)] /\ b \in Benchmarks
      /\ b \in subscribers
  BY DEF BaseInv, TypeOK, MapsOK, MapListsOK
<1>1. CASE SubscribeWaiting
  <2>1. PICK c \in Benchmarks : c = scan.b /\ c # b
    BY <1>0, <1>1, Subscribes
  <2>2. waitingJobMap'[b] = waitingJobMap[b]
    BY <1>0, <1>1, <2>1, Subscribes
  <2> QED
    BY <2>2
<1>2. CASE WorkerPop
  <2>1. PICK c \in Benchmarks : c = Its
    BY <1>2, Pops
  <2>2. \/ UNCHANGED waitingJobMap
        \/ waitingJobMap' =
             [waitingJobMap EXCEPT ![c] = Tail(waitingJobMap[c])]
    BY <1>2, <2>1, Pops
  <2>3. c = b
    BY <1>0, <2>2
  <2> QED
    BY <1>2, <2>1, <2>3
<1>3. CASE \/ \E c \in Benchmarks : CreateFromOperator(c)
           \/ CreateEager \/ CreateFirst \/ LeaveWaiting \/ NewTracker
           \/ SubscribeDR \/ SubscribeOpt
  <2>1. UNCHANGED waitingJobMap
    BY <1>3, ScanBegins, ScanCreates, ScanLeaves, ScanEnds, StoresMaps DEF maps
  <2> QED
    BY <2>1
<1>4. CASE Cluster \/ Informer
  <2>1. UNCHANGED waitingJobMap
    BY <1>4 DEF Cluster, JobCompletes, JobFails, JobCleanedUp, Informer,
                InformerSync, UpdateFunc, maps
  <2> QED
    BY <2>1
<1>5. CASE (Worker /\ ~WorkerPop) \/ UNCHANGED vars
  <2>1. UNCHANGED waitingJobMap
    BY <1>5, MovesOn, WorkerGoesOn, WorkerGivesUp, Deploys, NothingMoves,
       StutterMoves
    DEF Worker, maps
  <2> QED
    BY <2>1
<1> QED
  BY <1>1, <1>2, <1>3, <1>4, <1>5 DEF Next, Reconciler

LEMMA EmptyUnusedNext ==
    ASSUME PanicInv, [Next]_vars, PanicPremise
    PROVE  EmptyUnused'
<1> SUFFICES ASSUME NEW b \in waitingKeys', b \notin early',
                    waitingJobMap'[b] = <<>>
             PROVE  \/ worker'.pc = "create" /\ Its' = b
                    \/ Sequential(b) /\ \A j \in Turns' : BenchmarkOf(j) # b
  BY DEF EmptyUnused
<1>0. /\ WaitInv /\ BaseInv /\ FlightOK /\ OneTurn /\ EmptyUnused
      /\ waitingKeys \subseteq subscribers /\ ~Crash /\ b \notin early
      /\ worker.pc # "idle" => worker.job \in Turns
  BY Restarts, EarlyChanges DEF PanicInv, KeyInv, WaitInv, TurnInv, RecInv, BaseInv,
                  MapListsOK, Turns, InFlight, TypeOK, WorkerOK
<1>1. b \in waitingKeys /\ b \in subscribers
  <2>1. SUFFICES ASSUME b \notin waitingKeys PROVE FALSE
    BY <1>0
  <2>2. SubscribeWaiting /\ b = scan.b /\ b \in Benchmarks
    BY <1>0, <2>1, KeysChange
  <2>3. /\ waitingJobMap \in [Benchmarks -> Seq(Jobs)]
        /\ scan.waitingJob # <<>> \/ UNCHANGED waitingKeys
        /\ \/ waitingJobMap' = [waitingJobMap EXCEPT ![b] = scan.waitingJob]
           \/ UNCHANGED waitingKeys
    BY <1>0, <2>2, Subscribes DEF BaseInv, TypeOK, MapsOK
  <2> QED
    BY <2>1, <2>2, <2>3
<1>2. CASE waitingJobMap[b] = <<>>
  <2>1. CASE worker.pc = "create" /\ Its = b
    <3>1. WorkerCreate => b \notin waitingKeys'
      BY <1>0, <1>2, <2>1, Deploys
    <3>2. UNCHANGED worker
      BY <1>0, <2>1, <3>1, CreateStays
    <3> QED
      BY <2>1, <3>2 DEF Its
  <2>2. CASE Sequential(b) /\ \A j \in Turns : BenchmarkOf(j) # b
    <3>1. WorkerCreate => Its # b
      BY <1>0, <2>2, Deploys DEF Its
    <3>2. \A j \in Turns' : BenchmarkOf(j) # b
      BY <1>0, <1>1, <2>2, <3>1, TurnsOfSubscribed
    <3> QED
      BY <2>2, <3>2
  <2> QED
    BY <1>0, <1>1, <1>2, <2>1, <2>2 DEF EmptyUnused
<1>3. CASE waitingJobMap[b] # <<>>
  <2>1. WorkerPop /\ b = Its
    BY <1>0, <1>1, <1>3, EmptiedByPop
  <2>2. CASE worker'.pc = "create" /\ worker'.job = worker.job
    BY <2>1, <2>2 DEF Its
  <2>3. CASE NextUp \notin jobOptMap' /\ InFlight' = InFlight \ {worker.job}
    <3>1. ~SafeLookups
      BY <1>0, <1>1, <1>3, <2>1, <2>3, PopsKnown DEF PanicPremise
    <3>2. Sequential(b) /\ b \in Benchmarks /\ SafeTurns
      BY <1>0, <2>1, <3>1, Pops
      DEF PanicPremise, SafeTurns, InOrder
    <3>3. /\ worker.job \in Turns /\ worker.job \in Jobs
          /\ BenchmarkOf(worker.job) = b /\ worker.job \notin Turns'
          /\ Turns' \subseteq Turns
      <4>1. /\ worker.job \in InFlight /\ worker.job \in Jobs /\ jobs' = jobs
            /\ BenchmarkOf(worker.job) = b
        BY <1>0, <2>1, Pops DEF Its
      <4>2. worker.job \notin Active /\ Active' = Active
        BY <1>0, <4>1, SameSets DEF Active, FlightOK
      <4> QED
        BY <2>3, <4>1, <4>2 DEF Turns
    <3>4. worker.job \in TakesTurns
      BY <3>2, <3>3 DEF TakesTurns
    <3>5. ASSUME NEW j \in Turns', BenchmarkOf(j) = b PROVE FALSE
      <4>1. j \in Turns /\ j \in Jobs /\ j # worker.job
        BY <3>3, <3>5 DEF Turns, Active, InFlight
      <4>2. j \in TakesTurns
        BY <3>3, <3>4, <3>5, <4>1, TakesTurnsFacts
      <4> QED
        BY <1>0, <3>2, <3>3, <3>4, <3>5, <4>1, <4>2 DEF OneTurn
    <3> QED
      BY <3>2, <3>5
  <2> QED
    BY <1>0, <1>1, <1>3, <2>1, <2>2, <2>3, Pops
<1> QED
  BY <1>2, <1>3

LEMMA NoPanicNext ==
    ASSUME PanicInv, [Next]_vars, PanicPremise
    PROVE  NoPanic'
<1>0. /\ BaseInv /\ NoPanic /\ EmptyUnused /\ DRRead /\ NextJobOK
      /\ early \subseteq early'
  BY EarlyChanges
  DEF PanicInv, KeyInv, WaitInv, TurnInv, RecInv, BaseInv, PanicPremise
<1>1. CASE UNCHANGED vars
  BY <1>0, <1>1 DEF vars, queues, NoPanic
<1>2. CASE Next /\ panicked'
  <2>0. ~panicked
    BY <1>2 DEF Next
  <2>1. CASE WorkerPop
    <3>1. worker.job \in Turns /\ worker.pc = "pop" /\ UNCHANGED worker
          /\ Its \in waitingKeys /\ waitingJobMap[Its] = <<>>
      BY <1>0, <1>2, <2>0, <2>1, Pops DEF Turns
    <3>2. Its \in early
      BY <1>0, <3>1 DEF EmptyUnused, Its
    <3> QED
      BY <1>0, <3>1, <3>2 DEF NoPanic, Its
  <2>2. CASE WorkerCreateNil
    <3>1. worker.pc = "create" /\ worker.dr = "nil" /\ UNCHANGED worker
      BY <2>2 DEF WorkerCreateNil
    <3>2. Its \in early
      BY <1>0, <3>1 DEF NextJobOK, DRRead, Its
    <3> QED
      BY <1>0, <3>1, <3>2 DEF NoPanic, Its
  <2>3. ~Reconciler
    BY <1>0, <1>2, <2>0, ReconcilerMoves
  <2>4. ~Cluster /\ ~Informer
    BY <1>2, <2>0 DEF Cluster, JobCompletes, JobFails, JobCleanedUp,
                      Informer, InformerSync, UpdateFunc
  <2>5. Worker => WorkerPop \/ WorkerCreateNil
    BY <1>0, <1>2, <2>0, MovesOn, WorkerGoesOn, WorkerGivesUp, Deploys
    DEF Worker
  <2>6. ~Crash
    BY <1>2, <2>0, Restarts
  <2> QED
    BY <1>2, <2>1, <2>2, <2>3, <2>4, <2>5, <2>6 DEF Next
<1> QED
  BY <1>1, <1>2 DEF NoPanic

LEMMA PanicInvNext ==
    ASSUME PanicInv, [Next]_vars
    PROVE  PanicInv'
<1>1. KeyInv'
  BY KeyInvNext DEF PanicInv
<1>2. PanicPremise => EmptyUnused' /\ NoPanic'
  BY EmptyUnusedNext, NoPanicNext
<1> QED
  BY <1>1, <1>2 DEF PanicInv

LEMMA PanicInvInit == Init => PanicInv
<1> SUFFICES ASSUME Init PROVE PanicInv
  OBVIOUS
<1>1. waitingKeys = {} /\ ~panicked
  BY DEF Init
<1> QED
  BY <1>1, KeyInvInit DEF PanicInv, EmptyUnused, NoPanic

\* The worker indexes an empty list or uses a nil dynamic interface only for a
\* benchmark of which a completion came before its subscription was complete,
\* although it shares its maps with the reconciler without a lock, and however
\* completions of other benchmarks fall between the stores of Subscribe: when
\* lookups are reliable after a restart, or when every benchmark is sequential,
\* no completion is early and completed jobs stay until they are recorded.
THEOREM WorkerNeverPanics ==
    ASSUME PanicPremise
    PROVE  Spec => []NoPanic
<1>1. PanicInv /\ [Next]_vars => PanicInv'
  BY PanicInvNext
<1>2. PanicInv => NoPanic
  BY DEF PanicInv
<1> QED
  BY <1>1, <1>2, PanicInvInit, PTL DEF Spec

-----------------------------------------------------------------------------
(***************************************************************************)
(* The chain.  A job that waits is deployed by a completion, so some job   *)
(* of its benchmark has to be running or reported.                         *)
(***************************************************************************)
LivePremise ==
    /\ Faults \cap {"fast", "create", "cleanup", "jobfail", "nopods"} = {}
    /\ SafeLookups
    /\ ~({"expire", "crash"} \subseteq Faults)

NoneFailed == \A j \in Jobs : jobs[j] # "failed"

RecordedComplete ==
    "expire" \notin Faults => \A j \in results : jobs[j] = "complete"

ListedUnrecorded == Listed \cap results = {}

\* A scan leaves jobs waiting for one that runs.
ScanRuns ==
    \/ scan.pc = "rest"
    \/ scan.pc = "waiting" /\ scan.waitingJob # <<>>
    => \E j \in Active : BenchmarkOf(j) = scan.b

ListRuns ==
    \A b \in Benchmarks :
        waitingJobMap[b] # <<>> => \E j \in Turns : BenchmarkOf(j) = b

ChainInv ==
    /\ PanicInv
    /\ LivePremise => /\ NoneFailed /\ RecordedComplete /\ ListedUnrecorded
                      /\ ScanRuns /\ ListRuns

LEMMA LivePremises ==
    LivePremise => /\ NoneLost /\ PanicPremise /\ SafeLookups /\ SafeRecords
                   /\ {"fast", "create", "cleanup", "jobfail", "nopods"}
                        \cap Faults = {}
  BY DEF LivePremise, NoneLost, PanicPremise, SafeRecords

LEMMA ChainFacts ==
    ASSUME ChainInv
    PROVE  /\ BaseInv /\ RecInv /\ WaitInv /\ KeyInv /\ FlightOK
           /\ jobs \in [Jobs -> JobStates] /\ results \subseteq Jobs
  BY DEF ChainInv, PanicInv, KeyInv, WaitInv, TurnInv, RecInv, BaseInv,
         TypeOK, ClusterOK

LEMMA NoneFailedNext ==
    ASSUME ChainInv, [Next]_vars, LivePremise
    PROVE  NoneFailed' /\ RecordedComplete'
<1>0. /\ BaseInv /\ NoneFailed /\ RecordedComplete /\ results \subseteq Jobs
      /\ "jobfail" \notin Faults /\ "cleanup" \notin Faults
  BY ChainFacts, LivePremises DEF ChainInv
<1>1. NoneFailed'
  BY <1>0, JobChanges DEF NoneFailed
<1>2. ASSUME "expire" \notin Faults, NEW j \in results'
      PROVE  jobs'[j] = "complete"
  <2>1. CASE j \in results
    BY <1>0, <1>2, <2>1, JobChanges DEF RecordedComplete
  <2>2. CASE j \notin results
    BY <1>0, <1>2, <2>2, ResultChanges
  <2> QED
    BY <2>1, <2>2
<1> QED
  BY <1>1, <1>2 DEF RecordedComplete

LEMMA ListedUnrecordedNext ==
    ASSUME ChainInv, [Next]_vars, LivePremise
    PROVE  ListedUnrecorded'
<1> SUFFICES ASSUME NEW j \in Listed', j \in results'
             PROVE  FALSE
  BY DEF ListedUnrecorded
<1>0. /\ BaseInv /\ ListedUnrecorded /\ RecordedComplete /\ NewIsAbsent
      /\ \A k \in Listed : jobs[k] = "absent"
  BY ChainFacts, LivePremises
  DEF ChainInv, RecInv, WaitInv, ListedAbsent
<1>1. CASE j \in Listed
  BY <1>0, <1>1, ResultChanges DEF ListedUnrecorded
<1>2. CASE /\ LeaveWaiting /\ j = ScanNext
           /\ jobs[j] = "absent" \/ "get" \in Faults
  <2>1. /\ results' = results /\ ScanNext \in Jobs /\ ScanNext \notin Scanned
    BY <1>0, <1>2, ScanLeaves
  <2>2. "crash" \in Faults
    BY <1>0, <1>2, <2>1 DEF NewIsAbsent
  <2>3. "expire" \notin Faults /\ "get" \notin Faults
    BY <2>2 DEF LivePremise, SafeLookups
  <2> QED
    BY <1>0, <1>2, <2>1, <2>3 DEF RecordedComplete
<1> QED
  BY <1>0, <1>1, <1>2, ListGrows

\* A running job of the scan's benchmark runs on: it is not tracked.
LEMMA ActiveStays ==
    ASSUME BaseInv, [Next]_vars, LivePremise
    PROVE  \A j \in Active : j \in Active' \/ JobCompletes(j)
<1>1. "jobfail" \notin Faults
  BY LivePremises
<1> QED
  BY <1>1, JobChanges DEF Active

LEMMA ScanRunsNext ==
    ASSUME ChainInv, [Next]_vars, LivePremise
    PROVE  ScanRuns'
<1> SUFFICES ASSUME \/ scan'.pc = "rest"
                    \/ scan'.pc = "waiting" /\ scan'.waitingJob # <<>>
             PROVE  \E j \in Active' : BenchmarkOf(j) = scan'.b
  BY DEF ScanRuns
<1>0. /\ BaseInv /\ NoneFailed /\ NewIsAbsent /\ PhaseOK
      /\ jobs \in [Jobs -> JobStates]
      /\ "fast" \notin Faults /\ "create" \notin Faults
  BY ChainFacts, LivePremises DEF ChainInv, RecInv, BaseInv
<1>1. ASSUME \/ scan.pc = "rest"
             \/ scan.pc = "waiting" /\ scan.waitingJob # <<>>,
             scan'.b = scan.b
      PROVE  \E j \in Active' : BenchmarkOf(j) = scan'.b
  <2>1. PICK j \in Active : BenchmarkOf(j) = scan.b
    BY <1>1 DEF ChainInv, ScanRuns
  <2>2. ~JobCompletes(j)
    BY <1>0, <2>1 DEF JobCompletes, Tracked
  <2> QED
    BY <1>0, <1>1, <2>1, <2>2, ActiveStays
<1>2. CASE CreateFirst
  <2>1. scan'.b = scan.b /\ ScanNext \in Jobs /\ BenchmarkOf(ScanNext) = scan.b
        /\ ScanNext \notin Scanned
        /\ scan'.pc \in {"first", "rest"}
    BY <1>0, <1>2, ScanCreates
  <2>2. \/ jobs' = [jobs EXCEPT ![ScanNext] = "active"]
        \/ /\ jobs' = jobs
           /\ \/ jobs[ScanNext] \in {"active", "failed"}
              \/ "get" \in Faults /\ jobs[ScanNext] = "complete"
    BY <1>0, <1>2, <2>1, FirstOutcome
  <2>3. ~("get" \in Faults /\ jobs[ScanNext] = "complete")
    BY <1>0, <2>1 DEF NewIsAbsent, LivePremise, SafeLookups
  <2>4. jobs'[ScanNext] = "active"
    BY <1>0, <2>1, <2>2, <2>3 DEF NoneFailed
  <2> QED
    BY <2>1, <2>4 DEF Active
<1>3. CASE CreateEager
  <2>1. scan'.pc = scan.pc /\ scan'.b = scan.b
        /\ scan'.waitingJob = scan.waitingJob
    BY <1>0, <1>3, ScanCreates
    DEF CreateEager, BaseInv, TypeOK, ScanOK
  <2> QED
    BY <1>1, <2>1
<1>4. CASE LeaveWaiting
  BY <1>0, <1>1, <1>4, ScanLeaves
<1>5. CASE NewTracker
  <2>1. /\ scan.pc \in {"first", "rest"} /\ scan'.b = scan.b
        /\ scan'.pc = "waiting" /\ scan'.waitingJob = scan.waitingJob
    BY <1>0, <1>5, ScanEnds
  <2> QED
    BY <1>0, <1>1, <2>1 DEF PhaseOK
<1>6. CASE \/ \E b \in Benchmarks : CreateFromOperator(b)
           \/ SubscribeWaiting \/ SubscribeDR \/ SubscribeOpt \/ Crash
  <2>1. IdleScan.pc = "idle"
    BY DEF IdleScan
  <2>2. scan'.pc \notin {"rest", "waiting"}
    BY <1>0, <1>6, <2>1, ScanBegins, Subscribes, StoresMaps, Restarts
  <2> QED
    BY <2>2
<1>7. CASE Cluster \/ Informer \/ Worker \/ UNCHANGED vars
  BY <1>0, <1>1, <1>7, OthersKeepScan
<1> QED
  BY <1>2, <1>3, <1>4, <1>5, <1>6, <1>7 DEF Next, Reconciler

\* A completion leaves the channels and the worker only at the worker's end.
LEMMA FlightLost ==
    ASSUME BaseInv, [Next]_vars, ~Crash
    PROVE  \A j \in InFlight : j \in InFlight' \/
             (j = worker.job /\ (WorkerSkip \/ WorkerPop \/ WorkerCreate))
<1>1. CASE Reconciler
  BY <1>1, ReconcilerMoves
<1>2. ASSUME NEW k \in Jobs, JobCompletes(k) \/ JobFails(k) \/ JobCleanedUp(k)
      PROVE  InFlight \subseteq InFlight'
  <2>1. CASE JobCompletes(k)
    BY <2>1, Completes
  <2>2. CASE JobFails(k) \/ JobCleanedUp(k)
    BY <2>2, SameSets DEF JobFails, JobCleanedUp, queues
  <2> QED
    BY <1>2, <2>1, <2>2
<1>3. CASE Informer \/ Worker
  BY <1>3, MovesOn, WorkerGoesOn, WorkerGivesUp, Pops, Deploys, NothingMoves
  DEF Informer, Worker
<1>4. CASE UNCHANGED vars
  BY <1>4, StutterMoves
<1> QED
  BY <1>1, <1>2, <1>3, <1>4 DEF Next, Cluster

\* A completed job hands its turn on while others wait.
LEMMA PopHandsOn ==
    ASSUME KeyInv, LivePremise, ~panicked, WorkerPop,
           waitingJobMap[Its] # <<>>
    PROVE  InFlight' = InFlight
<1>0. /\ WaitInv /\ BaseInv /\ OptsKnown /\ OptsOfScan /\ FlightTracked
      /\ SafeLookups /\ early = {}
      /\ worker.job \in InFlight /\ worker.job \in Coming /\ Its \in Benchmarks
  BY Pops, LivePremises DEF KeyInv, WaitInv, TurnInv, RecInv, FlightTracked
<1>1. Its \in waitingKeys
  BY <1>0 DEF BaseInv, MapListsOK
<1>2. worker.job \notin OptsLeft
  BY <1>0 DEF OptsOfScan, FlightTracked
<1>3. worker.job \in jobOptMap
  BY <1>0, <1>1, <1>2 DEF OptsKnown, Its
<1>4. NextUp \in jobOptMap'
  BY <1>0, <1>1, PopsKnown
<1> QED
  BY <1>0, <1>1, <1>3, <1>4, Pops

LEMMA ListRunsNext ==
    ASSUME ChainInv, [Next]_vars, LivePremise
    PROVE  ListRuns'
<1> SUFFICES ASSUME NEW b \in Benchmarks, waitingJobMap'[b] # <<>>
             PROVE  \E j \in Turns' : BenchmarkOf(j) = b
  BY DEF ListRuns
<1>0. /\ BaseInv /\ KeyInv /\ FlightOK /\ ListRuns /\ ScanRuns /\ ~Crash
      /\ ~panicked /\ ListedUnrecorded /\ jobs \in [Jobs -> JobStates]
      /\ waitingJobMap \in [Benchmarks -> Seq(Jobs)]
      /\ \A j \in Listed : jobs[j] = "absent"
  <2>1. ~Crash
    BY Restarts
  <2>2. ~panicked
    BY ChainFacts, LivePremises
    DEF ChainInv, PanicInv, NoPanic, RecInv, FlightTracked
  <2> QED
    BY <2>1, <2>2, ChainFacts, LivePremises
    DEF ChainInv, PanicInv, WaitInv, ListedAbsent, BaseInv, TypeOK, MapsOK
<1>1. {"fast", "create", "nopods"} \cap Faults = {}
  BY LivePremises
<1>2. CASE waitingJobMap[b] = <<>>
  <2>1. PICK j \in Range(waitingJobMap'[b]) : TRUE
    <3>1. waitingJobMap' \in [Benchmarks -> Seq(Jobs)]
      BY <1>0, NextTypeOK DEF BaseInv, TypeOK, MapsOK
    <3>2. 1 \in DOMAIN waitingJobMap'[b]
      BY <3>1
    <3> QED
      BY <3>2 DEF Range
  <2>2. Range(<<>>) = {}
    BY DEF Range
  <2>3. SubscribeWaiting /\ b = scan.b
    BY <1>0, <1>2, <2>1, <2>2, MapGrows
  <2>4. /\ scan.pc = "waiting" /\ UNCHANGED jobs
        /\ scan.waitingJob = <<>> => UNCHANGED waitingJobMap
    BY <1>0, <2>3, Subscribes
  <2>5. PICK k \in Active : BenchmarkOf(k) = b
    BY <1>0, <1>2, <2>3, <2>4 DEF ScanRuns
  <2> QED
    BY <2>4, <2>5, SameSets DEF Turns
<1>3. CASE waitingJobMap[b] # <<>>
  <2>1. PICK j \in Turns : BenchmarkOf(j) = b
    BY <1>0, <1>3 DEF ListRuns
  <2>2. CASE j \in Active
    <3>1. CASE JobCompletes(j)
      BY <1>0, <1>1, <2>1, <2>2, <3>1, Completes DEF Turns, Active
    <3> QED
      BY <1>0, <2>1, <2>2, <3>1, ActiveStays DEF Turns
  <2>3. CASE j \in InFlight /\ j \notin InFlight'
    <3>1. /\ j = worker.job /\ Its = b
          /\ WorkerSkip \/ WorkerPop \/ WorkerCreate
      BY <1>0, <2>1, <2>3, FlightLost DEF Its
    <3>2. ~WorkerSkip
      BY <1>1 DEF WorkerSkip
    <3>3. ~WorkerPop
      BY <1>0, <1>3, <2>3, <3>1, PopHandsOn
    <3>4. CASE WorkerCreate
      <4>1. /\ worker.next \in Jobs /\ worker.next \in Listed
            /\ BenchmarkOf(worker.next) = b
            /\ \/ jobs' = jobs
               \/ jobs' = [jobs EXCEPT ![worker.next] = "active"]
            /\ jobs'[worker.next] # "absent" \/ worker.next \in results
        BY <1>0, <1>1, <3>1, <3>4, Deploys
      <4>2. worker.next \in Active'
        BY <1>0, <4>1 DEF Active, ListedUnrecorded
      <4> QED
        BY <4>1, <4>2 DEF Turns
    <3> QED
      BY <3>1, <3>2, <3>3, <3>4
  <2> QED
    BY <2>1, <2>2, <2>3 DEF Turns
<1> QED
  BY <1>2, <1>3

LEMMA ChainInvNext ==
    ASSUME ChainInv, [Next]_vars
    PROVE  ChainInv'
<1>1. PanicInv'
  BY PanicInvNext DEF ChainInv
<1> QED
  BY <1>1, NoneFailedNext, ListedUnrecordedNext, ScanRunsNext, ListRunsNext
  DEF ChainInv

LEMMA ChainInvInit == Init => ChainInv
<1> SUFFICES ASSUME Init PROVE ChainInv
  OBVIOUS
<1>1. /\ results = {} /\ scan.pc = "idle"
      /\ \A j \in Jobs : jobs[j] = "absent"
      /\ \A b \in Benchmarks : waitingJobMap[b] = <<>>
  BY DEF Init, IdleScan
<1> QED
  BY <1>1, PanicInvInit
  DEF ChainInv, NoneFailed, RecordedComplete, ListedUnrecorded, ScanRuns,
      ListRuns

LEMMA ChainAliveHolds ==
    ASSUME ChainInv, LivePremise
    PROVE  ChainAlive
<1> SUFFICES ASSUME NEW b \in Benchmarks, waitingJobMap[b] # <<>>
             PROVE  Running(b) \cup Completing(b) # {}
  BY DEF ChainAlive
<1>1. PICK j \in Turns : BenchmarkOf(j) = b
  BY DEF ChainInv, ListRuns
<1>2. j \in Range(JobsOf[b])
  BY <1>1, FamilyOf DEF Turns, Active, InFlight
<1> QED
  BY <1>1, <1>2 DEF Turns, Active, InFlight, Running, Completing

\* While jobs of a benchmark wait, one of it runs or has its completion on the
\* way to the worker.  The premise leaves out what breaks a chain (creations
\* that fail, failed jobs, pods that are gone, early completions and
\* clean-ups), failed lookups after a restart, and jobs that expire across one.
THEOREM ChainStaysAlive ==
    ASSUME LivePremise
    PROVE  Spec => []ChainAlive
<1>1. ChainInv /\ [Next]_vars => ChainInv'
  BY ChainInvNext
<1>2. ChainInv => ChainAlive
  BY ChainAliveHolds
<1> QED
  BY <1>1, <1>2, ChainInvInit, PTL DEF Spec

-----------------------------------------------------------------------------
(***************************************************************************)
(* The pipeline does what BenchmarkRuns promises, step by step.            *)
(***************************************************************************)
Phase == [j \in Jobs |-> RunOf(j)]

\* The phase of a job, in this state and in the next: no recorded job runs.
LEMMA RunFactsNow ==
    ASSUME WaitInv, NoneLost, NEW j \in Jobs
    PROVE  /\ jobs[j] \in {"absent", "active", "complete", "failed"}
           /\ j \in results => jobs[j] # "active"
           /\ Phase[j] \in {"pending", "running", "finished"}
           /\ Phase[j] = "running" <=> jobs[j] = "active"
           /\ Phase[j] = "pending" <=> jobs[j] = "absent" /\ j \notin results
<1>1. RecInv /\ SafeRecords /\ jobs \in [Jobs -> JobStates]
  BY DEF WaitInv, TurnInv, RecInv, BaseInv, TypeOK, ClusterOK, NoneLost,
         SafeRecords
<1>2. /\ jobs[j] \in {"absent", "active", "complete", "failed"}
      /\ j \in results => jobs[j] # "active"
  BY <1>1, RecordsSafe DEF JobStates
<1>3. Phase[j] = RunOf(j)
  BY DEF Phase
<1>4. CASE jobs[j] = "active"
  BY <1>2, <1>3, <1>4 DEF RunOf
<1>5. CASE jobs[j] \in {"complete", "failed"} \/ j \in results
  BY <1>2, <1>3, <1>5 DEF RunOf
<1>6. CASE jobs[j] = "absent" /\ j \notin results
  BY <1>2, <1>3, <1>6 DEF RunOf
<1> QED
  BY <1>2, <1>4, <1>5, <1>6

LEMMA RunFactsNext ==
    ASSUME WaitInv', NoneLost, NEW j \in Jobs
    PROVE  /\ jobs'[j] \in {"absent", "active", "complete", "failed"}
           /\ j \in results' => jobs'[j] # "active"
           /\ Phase'[j] \in {"pending", "running", "finished"}
           /\ Phase'[j] = "running" <=> jobs'[j] = "active"
           /\ Phase'[j] = "pending" <=> jobs'[j] = "absent" /\ j \notin results'
<1>1. /\ RecordsKept' /\ jobs' \in [Jobs -> JobStates]
      /\ ~Overtaken(BenchmarkOf(j))'
  BY DEF WaitInv, TurnInv, RecInv, BaseInv, TypeOK, ClusterOK, NoneLost,
         FlightTracked, Overtaken
<1>2. /\ jobs'[j] \in {"absent", "active", "complete", "failed"}
      /\ j \in results' => jobs'[j] # "active"
  BY <1>1 DEF JobStates, RecordsKept
<1>3. Phase'[j] = RunOf(j)'
  BY DEF Phase
<1>4. CASE jobs'[j] = "active"
  BY <1>2, <1>3, <1>4 DEF RunOf
<1>5. CASE jobs'[j] \in {"complete", "failed"} \/ j \in results'
  BY <1>2, <1>3, <1>5 DEF RunOf
<1>6. CASE jobs'[j] = "absent" /\ j \notin results'
  BY <1>2, <1>3, <1>6 DEF RunOf
<1> QED
  BY <1>2, <1>4, <1>5, <1>6

\* What changes the phase of a job: it starts or it finishes.
LEMMA PhaseChanges ==
    ASSUME WaitInv, WaitInv', NoneLost, [Next]_vars
    PROVE  \A j \in Jobs : Phase'[j] # Phase[j] =>
             \/ /\ \/ (CreateEager \/ CreateFirst) /\ j = ScanNext
                   \/ WorkerCreate /\ j = worker.next
                /\ jobs[j] = "absent"
                /\ Phase[j] = "pending" /\ Phase'[j] = "running"
             \/ /\ jobs[j] = "active" /\ jobs'[j] # "active"
                /\ Phase[j] = "running" /\ Phase'[j] = "finished"
<1>0. /\ BaseInv /\ RecInv /\ jobs \in [Jobs -> JobStates]
      /\ (jobs \in [Jobs -> JobStates])' /\ results \subseteq results'
      /\ "cleanup" \notin Faults /\ SafeRecords
      /\ "fast" \notin Faults
  <2>1. BaseInv /\ RecInv /\ TypeOK /\ BaseInv'
    BY BaseNext DEF WaitInv, TurnInv, RecInv, BaseInv
  <2> QED
    BY <2>1, ResultChanges
    DEF BaseInv, TypeOK, ClusterOK, NoneLost, SafeRecords
<1> SUFFICES ASSUME NEW j \in Jobs, Phase'[j] # Phase[j]
             PROVE
             \/ /\ \/ (CreateEager \/ CreateFirst) /\ j = ScanNext
                   \/ WorkerCreate /\ j = worker.next
                /\ jobs[j] = "absent"
                /\ Phase[j] = "pending" /\ Phase'[j] = "running"
             \/ /\ jobs[j] = "active" /\ jobs'[j] # "active"
                /\ Phase[j] = "running" /\ Phase'[j] = "finished"
  OBVIOUS
<1>1. CASE jobs'[j] = jobs[j]
  <2>1. j \in results' \ results => jobs[j] = "complete"
    BY <1>0, ResultChanges
  <2> QED
    BY <1>0, <1>1, <2>1, RunFactsNow, RunFactsNext
<1>2. CASE jobs[j] = "absent" /\ jobs'[j] = "active"
  <2>1. \/ (CreateEager \/ CreateFirst) /\ j = ScanNext /\ j \notin scan.done
        \/ WorkerCreate /\ j = worker.next /\ j \notin results
    BY <1>0, <1>2, JobChanges
  <2>2. j \notin results
    <3>1. CASE WorkerCreate /\ j \notin results
      BY <3>1
    <3>2. CASE (CreateEager \/ CreateFirst) /\ j = ScanNext
               /\ j \notin scan.done
      BY <1>0, <3>2, ScanCreates, RecordsSafe
    <3> QED
      BY <2>1, <3>1, <3>2
  <2> QED
    BY <1>0, <1>2, <2>1, <2>2, RunFactsNow, RunFactsNext
<1>3. CASE jobs[j] = "active" /\ jobs'[j] \in {"complete", "failed"}
  BY <1>0, <1>3, RunFactsNow, RunFactsNext
<1>4. CASE /\ jobs[j] = "complete" /\ jobs'[j] = "absent" /\ j \in results
  BY <1>0, <1>4, RunFactsNow, RunFactsNext
<1> QED
  BY <1>0, <1>1, <1>2, <1>3, <1>4, JobChanges

\* What comes before a job that starts in its turn has started.
LEMMA EarlierStarted ==
    ASSUME WaitInv, NoneLost, NEW j \in Jobs, j \notin Eager,
           \/ (CreateEager \/ CreateFirst) /\ j = ScanNext
           \/ WorkerCreate /\ j = worker.next,
           NEW i \in Jobs, BenchmarkOf(i) = BenchmarkOf(j), Place(i) < Place(j)
    PROVE  i \in Started
<1>0. /\ BaseInv /\ Scanned \subseteq Listed \cup Started
      /\ scan.waitingJob \in Seq(Jobs)
  BY DEF WaitInv, TurnInv, RecInv, NoneForgotten, BaseInv, TypeOK, ScanOK
<1>1. CASE (CreateEager \/ CreateFirst) /\ j = ScanNext
  <2>1. CreateFirst
    BY <1>1 DEF CreateEager
  <2>2. /\ scan.b \in Benchmarks /\ scan.b \notin subscribers
        /\ BenchmarkOf(j) = scan.b /\ scan.pc = "first"
    BY <1>0, <1>1, <2>1, ScanCreates, FirstOutcome
  <2>3. Scanning({"first"}) /\ {"first"} \subseteq {"first", "rest"}
    BY Zenon, <2>1 DEF CreateFirst
  <2>4. Place(j) = scan.i
    BY <1>0, <1>1, <2>3, ScanNextPlace
  <2>5. i \in Scanned
    BY <2>2, <2>4 DEF Scanned
  <2>6. i \notin Range(waitingJobMap[scan.b])
    <3>1. Range(<<>>) = {}
      BY DEF Range
    <3>2. waitingJobMap[scan.b] = <<>>
      BY <1>0, <2>2 DEF BaseInv, MapListsOK
    <3> QED
      BY <3>1, <3>2
  <2>7. worker.pc = "create" => BenchmarkOf(worker.next) # scan.b
    BY <1>0, <2>2 DEF BaseInv, NextJobOK, MapListsOK
  <2> QED
    BY <1>0, <2>2, <2>5, <2>6, <2>7 DEF Listed, InList
<1>2. CASE WorkerCreate /\ j = worker.next
  <2>1. Its \in subscribers /\ BenchmarkOf(j) = Its /\ worker.pc = "create"
    BY <1>0, <1>2, Deploys
  <2>2. i \in Scanned
    BY <2>1 DEF Scanned
  <2>3. ASSUME i \in Listed PROVE FALSE
    <3>1. BenchmarkOf(i) = BenchmarkOf(worker.next)
      BY <1>2
    <3>2. i = worker.next \/ Place(worker.next) < Place(i)
      BY <1>0, <2>1, <2>3, <3>1, NextIsFirst
    <3> QED
      BY <1>2, <3>2, PlaceType
  <2> QED
    BY <1>0, <2>2, <2>3
<1> QED
  BY <1>1, <1>2

\* A step that starts a job leaves the others as they are.
LEMMA OneStarts ==
    ASSUME BaseInv, NEW j \in Jobs,
           \/ (CreateEager \/ CreateFirst) /\ j = ScanNext
           \/ WorkerCreate /\ j = worker.next
    PROVE  results' = results /\ \A i \in Jobs \ {j} : jobs'[i] = jobs[i]
<1>0. jobs \in [Jobs -> JobStates]
  BY DEF BaseInv, TypeOK, ClusterOK
<1>1. CASE (CreateEager \/ CreateFirst) /\ j = ScanNext
  BY <1>0, <1>1, ScanCreates
<1>2. CASE WorkerCreate /\ j = worker.next
  BY <1>0, <1>2, Deploys
<1> QED
  BY <1>1, <1>2

LEMMA StartStep ==
    ASSUME WaitInv, WaitInv', NoneLost, NEW j \in Jobs,
           \/ (CreateEager \/ CreateFirst) /\ j = ScanNext
           \/ WorkerCreate /\ j = worker.next,
           jobs[j] = "absent", Phase[j] = "pending", Phase'[j] = "running",
           \A i \in Jobs \ {j} : Phase'[i] = Phase[i]
    PROVE  Runs!Next
<1>0. /\ BaseInv /\ OneTurn'
      /\ BenchmarkOf(j) \in Benchmarks
      /\ jobs'[j] = "active"
  BY BenchmarkOfType, RunFactsNext DEF WaitInv, TurnInv, RecInv
<1>1. PICK b \in Benchmarks :
        \E k \in 1..Len(JobsOf[b]) :
           b = BenchmarkOf(j) /\ k = Place(j) /\ JobsOf[b][k] = j
  BY <1>0, PlaceType
<1>2. PICK k \in 1..Len(JobsOf[b]) :
        b = BenchmarkOf(j) /\ k = Place(j) /\ JobsOf[b][k] = j
  BY <1>1
<1>3. ASSUME j \notin Eager, NEW m \in 1..(k - 1),
             Phase[JobsOf[b][m]] = "pending"
      PROVE  FALSE
  <2>1. m \in 1..Len(JobsOf[b]) /\ m < k
    BY JobsOfType
  <2>2. PICK i \in Jobs : i = JobsOf[b][m]
    BY <2>1, JobsOfType
  <2>3. BenchmarkOf(i) = b /\ Place(i) = m
    BY <2>1, <2>2, PlaceOf
  <2>4. i \in Started
    BY <1>2, <1>3, <2>1, <2>3, EarlierStarted
  <2> QED
    BY <1>0, <1>3, <2>2, <2>4, RunFactsNow DEF Started
<1>4. ASSUME Range(JobsOf[b]) \cap Eager = {}, NEW i \in Range(JobsOf[b]),
             Phase[i] = "running"
      PROVE  FALSE
  <2>1. /\ i \in Jobs /\ BenchmarkOf(i) = b
        /\ i \in TakesTurns /\ j \in TakesTurns
    BY <1>2, <1>4, FamilyOf DEF TakesTurns, Sequential
  <2>2. jobs[i] = "active" /\ i # j
    BY <1>0, <1>4, <2>1, RunFactsNow
  <2>3. jobs'[i] = "active"
    BY <1>0, <2>1, <2>2, OneStarts
  <2>4. i \in Turns' /\ j \in Turns'
    BY <1>0, <2>1, <2>3 DEF Turns, Active
  <2>5. SafeTurns
    BY DEF NoneLost, SafeTurns, InOrder
  <2> QED
    BY <1>0, <1>2, <2>1, <2>2, <2>4, <2>5 DEF OneTurn
<1>5. Phase' = [Phase EXCEPT ![j] = "running"]
  <2>1. Phase' = [i \in Jobs |-> Phase'[i]] /\ Phase = [i \in Jobs |-> Phase[i]]
    BY DEF Phase
  <2> QED
    BY <2>1
<1>6. Runs!Free(b)
  BY <1>4 DEF Runs!Free, Runs!Range, Range, Phase
<1>7. Runs!Start(b, k)
  BY <1>2, <1>3, <1>5, <1>6 DEF Runs!Start, Phase
<1> QED
  BY <1>7 DEF Runs!Next

LEMMA RunsStep ==
    ASSUME WaitInv, WaitInv', NoneLost, [Next]_vars
    PROVE  Runs!Next \/ Phase' = Phase
<1>0. /\ BaseInv /\ jobs \in [Jobs -> JobStates]
      /\ (jobs \in [Jobs -> JobStates])'
  BY DEF WaitInv, TurnInv, RecInv, BaseInv, TypeOK, ClusterOK
<1>1. Phase' = [i \in Jobs |-> Phase'[i]] /\ Phase = [i \in Jobs |-> Phase[i]]
  BY DEF Phase
<1>2. CASE \A j \in Jobs : Phase'[j] = Phase[j]
  BY <1>1, <1>2
<1>3. ASSUME NEW j \in Jobs, Phase'[j] # Phase[j]
      PROVE  Runs!Next
  <2>1. CASE /\ \/ (CreateEager \/ CreateFirst) /\ j = ScanNext
                \/ WorkerCreate /\ j = worker.next
             /\ jobs[j] = "absent"
             /\ Phase[j] = "pending" /\ Phase'[j] = "running"
    <3>1. results' = results /\ \A i \in Jobs \ {j} : jobs'[i] = jobs[i]
      BY <1>0, <2>1, OneStarts
    <3>2. \A i \in Jobs \ {j} : Phase'[i] = Phase[i]
      BY <1>0, <3>1, RunFactsNow, RunFactsNext
    <3> QED
      BY <1>0, <2>1, <3>2, StartStep
  <2>2. CASE /\ jobs[j] = "active" /\ jobs'[j] # "active"
             /\ Phase[j] = "running" /\ Phase'[j] = "finished"
    <3>1. \A i \in Jobs \ {j} : jobs'[i] = jobs[i]
      <4>1. ~(CreateEager \/ CreateFirst \/ WorkerCreate)
        BY <1>0, <2>2, ScanCreates, Deploys
      <4>2. PICK k \in Jobs : JobCompletes(k) \/ JobFails(k) \/ JobCleanedUp(k)
        <5>1. Cluster
          BY <1>0, <2>2, <4>1, ReconcilerMoves, MovesOn, WorkerGoesOn,
             WorkerGivesUp, Pops, NothingMoves, Restarts, StutterMoves
          DEF Next, Informer, Worker
        <5> QED
          BY <5>1 DEF Cluster
      <4>3. jobs' = [jobs EXCEPT ![k] = jobs'[k]]
        BY <1>0, <4>2 DEF JobCompletes, JobFails, JobCleanedUp
      <4>4. k = j
        BY <1>0, <2>2, <4>3
      <4> QED
        BY <1>0, <4>3, <4>4
    <3>2. \A i \in Jobs \ {j} : i \in results' <=> i \in results
      BY <1>0, <2>2, ResultChanges
    <3>3. \A i \in Jobs \ {j} : Phase'[i] = Phase[i]
      BY <1>0, <3>1, <3>2, RunFactsNow, RunFactsNext
    <3>4. Phase' = [Phase EXCEPT ![j] = "finished"]
      BY <1>1, <2>2, <3>3
    <3>5. Runs!Finish(j)
      BY <2>2, <3>4 DEF Runs!Finish, Phase
    <3> QED
      BY <3>5 DEF Runs!Next
  <2> QED
    BY <1>3, <2>1, <2>2, PhaseChanges
<1> QED
  BY <1>2, <1>3

LEMMA RunsInit == Init => Runs!Init
  BY DEF Init, Runs!Init, RunOf

\* Every job of the pipeline runs at most once, the jobs of a sequential
\* benchmark run one at a time, and jobs that take turns start in the order of
\* their combinations: reconciler, informer and worker together take only
\* steps that BenchmarkRuns allows.
THEOREM PipelineImplementsRuns ==
    ASSUME NoneLost
    PROVE  Spec => Runs!Spec
<1>1. WaitInv /\ [Next]_vars => WaitInv'
  BY WaitInvNext
<1>2. WaitInv /\ WaitInv' /\ [Next]_vars =>
        [Runs!Next]_([j \in Jobs |-> RunOf(j)])
  BY RunsStep DEF Phase
<1> QED
  BY <1>1, <1>2, WaitInvInit, RunsInit, PTL DEF Spec, Runs!Spec

=============================================================================
