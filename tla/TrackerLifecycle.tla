-------------------------- MODULE TrackerLifecycle --------------------------
(***************************************************************************)
(* The life of job trackers: benchmarks of one kind of job are created,    *)
(* subscribed, deleted and created again, each deletion running through a  *)
(* finalizer; the tracker of the kind is started for the first subscriber  *)
(* and ended after the last.  Its informer and its worker are goroutines   *)
(* that learn of the end late, or never.  The benchmarks are sequential    *)
(* and not auto-tuned, jobs do not fail, the operator does not restart and *)
(* the scan is one step: JobPipeline and AutoTune take those apart.        *)
(***************************************************************************)
EXTENDS Naturals, Sequences, FiniteSets, Functions, SequencesExt

CONSTANTS
    Benchmarks,   \* Benchmark resources, each in its namespace
    Names,        \* their names, which two namespaces may both use
    NameOf,       \* metadata.name of each benchmark
    Jobs,         \* job objects
    JobsOf,       \* the jobs of a benchmark, in the order they are scanned
    MaxLives,     \* how often each benchmark may be created
    MayMiss,      \* bound: those whose operator may be gone at their end
    MaxTrackers,  \* bound on the trackers started
    None          \* no benchmark, no job

ASSUME LivesAssumption ==
    /\ NameOf \in [Benchmarks -> Names]
    /\ JobsOf \in [Benchmarks -> Seq(Jobs) \ {<<>>}]
    /\ \A b \in Benchmarks, c \in Benchmarks :
         \A i \in 1..Len(JobsOf[b]), k \in 1..Len(JobsOf[c]) :
            JobsOf[b][i] = JobsOf[c][k] => b = c /\ i = k
    /\ \A j \in Jobs : \E b \in Benchmarks : j \in Range(JobsOf[b])
    /\ MaxLives \in [Benchmarks -> Nat]
    /\ MayMiss \subseteq Benchmarks /\ MaxTrackers \in Nat
    /\ None \notin Benchmarks \cup Jobs

Trackers == 1..MaxTrackers   \* in the order they are started
NoTracker == 0

BenchmarkOf(j) == CHOOSE b \in Benchmarks : j \in Range(JobsOf[b])

VARIABLES
    res,         \* the resource: "absent", "new", "live" (it has the
                 \* finalizer) or "deleting"
    lives,       \* how often it has been created
    results,     \* jobs with a result in the status of their benchmark
    jobs,        \* the cluster's jobs
    finalizer,   \* the reconciler inside finalizeBenchmark: pc, b
    registered,  \* m.JobTrackers[gvk]
    started,     \* the number of trackers started so far
    quit,        \* trackers whose Quit is closed
    subscribers, \* r.Subscribers of each tracker
    waiting,     \* r.WaitingJobMap, <<>> where there is no key
    waitingKeys, \* its keys
    drMap,       \* the keys of r.DRMap
    jobOptMap,   \* the keys of r.JobOptMap
    updates,     \* completions the informer of a tracker has at hand
    jobQueue,    \* r.JobQueue
    worker,      \* the goroutine of Run
    unfinalized, \* names of benchmarks that went without DeleteTracker
    panicked     \* a goroutine has panicked; the process is gone

cluster  == <<res, lives, results, jobs>>
trackers == <<registered, started, quit>>
lists    == <<waiting, waitingKeys>>
maps     == <<subscribers, lists, drMap, jobOptMap>>
queues   == <<updates, jobQueue>>
vars     == <<cluster, finalizer, trackers, maps, queues, worker, unfinalized,
              panicked>>

WorkerStates ==
    [pc : {"between", "blocked", "sleep", "read", "store", "create",
           "forget", "tidy", "gone"},
     job : Jobs \cup {None},    \* whose completion it is
     dr : {"nil", "ok"},
     next : Jobs \cup {None},   \* what it has read off the list
     tail : Seq(Jobs),          \* and what it is about to put back
     done : SUBSET Jobs]        \* the results in its copy of the benchmark

TypeOK ==
    /\ res \in [Benchmarks -> {"absent", "new", "live", "deleting"}]
    /\ lives \in [Benchmarks -> Nat]
    /\ \A b \in Benchmarks : lives[b] <= MaxLives[b]
    /\ results \subseteq Jobs
    /\ jobs \in [Jobs -> {"absent", "active", "complete"}]
    /\ finalizer \in [pc : {"idle", "jobs", "remove"},
                      b : Benchmarks \cup {None}]
    /\ finalizer.pc # "idle" => /\ finalizer.b \in Benchmarks
                                /\ res[finalizer.b] = "deleting"
    /\ started \in 0..MaxTrackers
    /\ registered \in 0..started
    /\ quit \subseteq 1..started
    /\ subscribers \in [Trackers -> SUBSET Names]
    /\ waiting \in [Trackers -> [Names -> Seq(Jobs)]]
    /\ waitingKeys \in [Trackers -> SUBSET Names]
    /\ drMap \in [Trackers -> SUBSET Names]
    /\ jobOptMap \in [Trackers -> SUBSET Jobs]
    /\ updates \in [Trackers -> Seq(Jobs)]
    /\ jobQueue \in [Trackers -> Seq(Jobs)]
    /\ worker \in [Trackers -> WorkerStates]
    /\ unfinalized \subseteq Names
    /\ panicked \in BOOLEAN

-----------------------------------------------------------------------------
IdleWorker == [pc |-> "between", job |-> None, dr |-> "nil",
               next |-> None, tail |-> <<>>, done |-> {}]
IdleFinalizer == [pc |-> "idle", b |-> None]

Init ==
    /\ res = [b \in Benchmarks |-> "absent"]
    /\ lives = [b \in Benchmarks |-> 0]
    /\ results = {}
    /\ jobs = [j \in Jobs |-> "absent"]
    /\ finalizer = IdleFinalizer
    /\ registered = NoTracker
    /\ started = 0
    /\ quit = {}
    /\ subscribers = [t \in Trackers |-> {}]
    /\ waiting = [t \in Trackers |-> [n \in Names |-> <<>>]]
    /\ waitingKeys = [t \in Trackers |-> {}]
    /\ drMap = [t \in Trackers |-> {}]
    /\ jobOptMap = [t \in Trackers |-> {}]
    /\ updates = [t \in Trackers |-> <<>>]
    /\ jobQueue = [t \in Trackers |-> <<>>]
    /\ worker = [t \in Trackers |-> IdleWorker]
    /\ unfinalized = {}
    /\ panicked = FALSE

-----------------------------------------------------------------------------
(***************************************************************************)
(* Users and the cluster.                                                  *)
(***************************************************************************)
UserCreates(b) ==
    /\ res[b] = "absent" /\ lives[b] < MaxLives[b]
    /\ res' = [res EXCEPT ![b] = "new"]
    /\ lives' = [lives EXCEPT ![b] = @ + 1]
    /\ UNCHANGED <<results, jobs, finalizer, trackers, maps,
                   queues, worker, unfinalized, panicked>>

\* A resource without the finalizer goes at once.
UserDeletes(b) ==
    /\ res[b] \in {"new", "live"}
    /\ res' = [res EXCEPT ![b] = IF @ = "new" THEN "absent" ELSE "deleting"]
    /\ UNCHANGED <<lives, results, jobs, finalizer, trackers,
                   maps, queues, worker, unfinalized, panicked>>

\* The informer of the registered tracker is told of the completion.
JobCompletes(j) ==
    /\ jobs[j] = "active"
    /\ jobs' = [jobs EXCEPT ![j] = "complete"]
    /\ updates' = [t \in Trackers |->
                     IF t = registered THEN Append(updates[t], j)
                                       ELSE updates[t]]
    /\ UNCHANGED <<res, lives, results, finalizer, trackers,
                   maps, jobQueue, worker, unfinalized, panicked>>

-----------------------------------------------------------------------------
(***************************************************************************)
(* Reconcile.  It runs for one resource at a time; that it runs again for  *)
(* a resource no one changes is the manager's periodic resync.             *)
(***************************************************************************)
AddFinalizer(b) ==
    /\ finalizer.pc = "idle" /\ res[b] = "new"
    /\ res' = [res EXCEPT ![b] = "live"]
    /\ UNCHANGED <<lives, results, jobs, finalizer, trackers,
                   maps, queues, worker, unfinalized, panicked>>

\* JTM.IsExist: the tracker is there and has the name among its subscribers.
IsExist(b) == registered # NoTracker /\ NameOf[b] \in subscribers[registered]

\* CreateIfNotExists takes these jobs for done; they do not count as new.
Done(j) == j \in results \/ jobs[j] = "complete"

\* The job the scan counts as new: it is running, or is created.
FirstNew(b) == SelectInSeq(JobsOf[b], LAMBDA j : ~Done(j))

\* The jobs after it that have no object, in the order of the scan.
LeftWaiting(b) ==
    FoldLeft(LAMBDA left, j : IF jobs[j] = "absent" THEN Append(left, j)
                                                    ELSE left,
             <<>>, SubSeq(JobsOf[b], FirstNew(b) + 1, Len(JobsOf[b])))

\* r.Subscribe in tracker t, after the scan; nothing is stored for a
\* benchmark that has no waiting job.
Subscribe(t, b, left) ==
    /\ subscribers' = [subscribers EXCEPT ![t] = @ \cup {NameOf[b]}]
    /\ IF left = <<>>
       THEN UNCHANGED <<lists, drMap, jobOptMap>>
       ELSE /\ waiting' = [waiting EXCEPT ![t][NameOf[b]] = left]
            /\ waitingKeys' = [waitingKeys EXCEPT ![t] = @ \cup {NameOf[b]}]
            /\ drMap' = [drMap EXCEPT ![t] = @ \cup {NameOf[b]}]
            /\ jobOptMap' = [jobOptMap EXCEPT ![t] = @ \cup Range(JobsOf[b])]

\* A plausible bug: every absent job is created, whatever isNew says.
CreateAll(b) ==
    /\ finalizer.pc = "idle" /\ res[b] = "live" /\ ~IsExist(b)
    /\ jobs' = [j \in Jobs |->
                  IF j \in Range(JobsOf[b]) /\ ~Done(j) THEN "active"
                                                        ELSE jobs[j]]
    /\ LET t == IF registered = NoTracker THEN started + 1 ELSE registered
       IN  /\ t <= MaxTrackers
           /\ registered' = t
           /\ started' = IF registered = NoTracker THEN t ELSE started
           /\ Subscribe(t, b, <<>>)
    /\ UNCHANGED <<res, lives, results, finalizer, quit, queues, worker,
                   unfinalized, panicked>>

\* The scan creates the first job that is not done, leaves the absent ones
\* behind it waiting, and subscribes the benchmark to the tracker of the
\* kind, a new one if there is none.
CreateFromOperator(b) ==
    /\ finalizer.pc = "idle" /\ res[b] = "live"
    /\ ~IsExist(b)
    /\ jobs' = [j \in Jobs |->
                  IF FirstNew(b) # 0 /\ j = JobsOf[b][FirstNew(b)]
                  THEN "active" ELSE jobs[j]]
    /\ LET left == IF FirstNew(b) = 0 THEN <<>> ELSE LeftWaiting(b)
           t    == IF registered = NoTracker THEN started + 1 ELSE registered
       IN  /\ t <= MaxTrackers
           /\ registered' = t
           /\ started' = IF registered = NoTracker THEN t ELSE started
           /\ Subscribe(t, b, left)
    /\ UNCHANGED <<res, lives, results, finalizer, quit,
                   queues, worker, unfinalized, panicked>>

\* r.Unsubscribe of tracker t: the name and what waits under it, if it is
\* there.  JobOptMap keeps its entries, and DRMap its one if no list is found.
Unsubscribe(t, n) ==
    /\ subscribers' = [subscribers EXCEPT ![t] = @ \ {n}]
    /\ IF n \in subscribers[t] /\ n \in waitingKeys[t]
       THEN /\ waiting' = [waiting EXCEPT ![t][n] = <<>>]
            /\ waitingKeys' = [waitingKeys EXCEPT ![t] = @ \ {n}]
            /\ drMap' = [drMap EXCEPT ![t] = @ \ {n}]
       ELSE UNCHANGED <<lists, drMap>>

\* A plausible bug: IsEmpty is asked before Unsubscribe.
DeleteTrackerEarly(n) ==
    IF registered = NoTracker
    THEN UNCHANGED <<trackers, maps>>
    ELSE /\ Unsubscribe(registered, n)
         /\ UNCHANGED <<trackers, jobOptMap>>

\* A plausible bug: the tracker is ended whoever else subscribes.
DeleteTrackerAlways(n) ==
    IF registered = NoTracker
    THEN UNCHANGED <<trackers, maps>>
    ELSE /\ Unsubscribe(registered, n)
         /\ registered' = NoTracker /\ quit' = quit \cup {registered}
         /\ UNCHANGED <<started, jobOptMap>>

\* m.DeleteTracker: the tracker is ended and forgotten if no one is left.
DeleteTracker(n) ==
    IF registered = NoTracker
    THEN UNCHANGED <<trackers, maps>>
    ELSE /\ Unsubscribe(registered, n)
         /\ IF subscribers[registered] \subseteq {n}
            THEN registered' = NoTracker /\ quit' = quit \cup {registered}
            ELSE UNCHANGED <<registered, quit>>
         /\ UNCHANGED <<started, jobOptMap>>

\* finalizeBenchmark looks for the operator and, if it does not find it,
\* leaves tracker and jobs as they are; its nil result lets the resource go.
FinalizeWithoutOperator(b) ==
    /\ finalizer.pc = "idle" /\ res[b] = "deleting"
    /\ finalizer' = [pc |-> "remove", b |-> b]
    /\ unfinalized' = unfinalized \cup {NameOf[b]}
    /\ b \in MayMiss
    /\ UNCHANGED <<cluster, trackers, maps, queues, worker, panicked>>

FinalizeBenchmark(b) ==
    /\ finalizer.pc = "idle" /\ res[b] = "deleting"
    /\ DeleteTracker(NameOf[b])
    /\ finalizer' = [pc |-> "jobs", b |-> b]
    /\ UNCHANGED <<cluster, queues, worker, unfinalized, panicked>>

\* A plausible bug: only the jobs of the remaining labels are deleted.
DeleteAllButFirst ==
    /\ finalizer.pc = "jobs"
    /\ jobs' = [j \in Jobs |-> IF j \in Range(Tail(JobsOf[finalizer.b]))
                              THEN "absent" ELSE jobs[j]]
    /\ finalizer' = [finalizer EXCEPT !.pc = "remove"]
    /\ UNCHANGED <<res, lives, results, trackers, maps, queues, worker,
                   unfinalized, panicked>>

\* DeleteFromOperator, every deletion accepted.
DeleteFromOperator ==
    /\ finalizer.pc = "jobs"
    /\ jobs' = [j \in Jobs |-> IF j \in Range(JobsOf[finalizer.b])
                              THEN "absent" ELSE jobs[j]]
    /\ finalizer' = [finalizer EXCEPT !.pc = "remove"]
    /\ UNCHANGED <<res, lives, results, trackers, maps, queues, worker,
                   unfinalized, panicked>>

\* A plausible bug: the reconciler is not released for other resources.
RemoveFinalizerOnly ==
    /\ finalizer.pc = "remove"
    /\ res' = [res EXCEPT ![finalizer.b] = "absent"]
    /\ results' = results \ Range(JobsOf[finalizer.b])
    /\ UNCHANGED <<lives, jobs, finalizer, trackers, maps, queues, worker,
                   unfinalized, panicked>>

\* The update that takes the finalizer off, and with it the resource.  (If it
\* is refused, a later request finalizes once more.)
RemoveFinalizer ==
    /\ finalizer.pc = "remove"
    /\ res' = [res EXCEPT ![finalizer.b] = "absent"]
    /\ results' = results \ Range(JobsOf[finalizer.b])
    /\ finalizer' = IdleFinalizer
    /\ UNCHANGED <<lives, jobs, trackers, maps, queues,
                   worker, unfinalized, panicked>>

-----------------------------------------------------------------------------
(***************************************************************************)
(* The goroutines of a tracker, which outlive its end.                     *)
(***************************************************************************)
Closed(t) == worker[t].pc = "gone"

\* The informer hands a completion over; a closed queue panics.
UpdateFunc(t) ==
    /\ updates[t] # <<>>
    /\ updates' = [updates EXCEPT ![t] = Tail(@)]
    /\ panicked' = Closed(t)
    /\ jobQueue' = [jobQueue EXCEPT ![t] = IF Closed(t) THEN @
                                           ELSE Append(@, Head(updates[t]))]
    /\ UNCHANGED <<cluster, finalizer, trackers, maps, worker, unfinalized>>

\* The informer has noticed that Quit is closed.
InformerStops(t) ==
    /\ t \in quit /\ updates[t] # <<>>
    /\ updates' = [updates EXCEPT ![t] = <<>>]
    /\ UNCHANGED <<cluster, finalizer, trackers, maps, jobQueue, worker,
                   unfinalized, panicked>>

\* Between two jobs Run looks at Quit, and closes the queue if it is closed,
\* whose rest no one reads; otherwise ProcessJobQueue waits for a job, from now
\* on deaf to Quit.
RunLooksAtQuit(t) ==
    /\ t <= started /\ worker[t].pc = "between"
    /\ worker' = [worker EXCEPT ![t].pc = IF t \in quit THEN "gone"
                                                        ELSE "blocked"]
    /\ jobQueue' = IF t \in quit THEN [jobQueue EXCEPT ![t] = <<>>] ELSE jobQueue
    /\ UNCHANGED <<cluster, finalizer, trackers, maps, updates, unfinalized,
                   panicked>>

\* ProcessJobQueue takes a job, looks up its benchmark, records the result in
\* its status and, in deployWaitingResource, reads DRMap before it pauses for
\* the job interval.  (BenchmarkStatus takes lookup and recording apart.)
WorkerTake(t) ==
    LET j == Head(jobQueue[t])
        b == BenchmarkOf(j)
    IN  /\ worker[t].pc = "blocked" /\ jobQueue[t] # <<>>
        /\ jobQueue' = [jobQueue EXCEPT ![t] = Tail(@)]
        /\ results' = IF res[b] = "absent" THEN results ELSE results \cup {j}
        /\ worker' = [worker EXCEPT ![t] =
                        IF res[b] = "absent" \/ j \notin jobOptMap[t]
                        THEN IdleWorker
                        ELSE [pc |-> "sleep", job |-> j, next |-> None,
                              tail |-> <<>>,
                              done |-> (results \cup {j}) \cap Range(JobsOf[b]),
                              dr |-> IF NameOf[b] \in drMap[t]
                                     THEN "ok" ELSE "nil"]]
        /\ UNCHANGED <<res, lives, jobs, finalizer, trackers, maps, updates,
                       unfinalized, panicked>>

\* The benchmark of the job in hand.  Nothing keeps it subscribed: whatever
\* the worker finds or writes, Unsubscribe may come before its next step.
NameInHand(t) == NameOf[BenchmarkOf(worker[t].job)]

\* After the pause it looks whether there is a list.
WorkerLooks(t) ==
    /\ worker[t].pc = "sleep"
    /\ jobOptMap' = [jobOptMap EXCEPT ![t] = @ \ {worker[t].job}]
    /\ worker' = [worker EXCEPT ![t].pc =
                    IF NameInHand(t) \in waitingKeys[t] THEN "read" ELSE "forget"]
    /\ UNCHANGED <<cluster, finalizer, trackers, subscribers, lists, drMap, queues,
                   unfinalized, panicked>>

\* It reads head and tail of the list, which panics if there is none by now,
\* or an empty one.
WorkerReads(t) ==
    LET list == waiting[t][NameInHand(t)]
    IN  /\ worker[t].pc = "read"
        /\ IF list = <<>>
           THEN panicked' = TRUE /\ UNCHANGED worker
           ELSE /\ worker' = [worker EXCEPT ![t].pc = "store",
                                            ![t].next = Head(list),
                                            ![t].tail = Tail(list)]
                /\ UNCHANGED panicked
        /\ UNCHANGED <<cluster, finalizer, trackers, maps, queues, unfinalized>>

\* It puts the tail under the name, where there may be no list any more.
WorkerStores(t) ==
    LET n == NameInHand(t)
    IN  /\ worker[t].pc = "store"
        /\ waiting' = [waiting EXCEPT ![t][n] = worker[t].tail]
        /\ waitingKeys' = [waitingKeys EXCEPT ![t] = @ \cup {n}]
        /\ worker' = [worker EXCEPT ![t] =
                        IF worker[t].next \in jobOptMap[t]
                        THEN [@ EXCEPT !.pc = "create", !.tail = <<>>]
                        ELSE IdleWorker]
        /\ UNCHANGED <<cluster, finalizer, trackers, subscribers, drMap, jobOptMap,
                       queues, unfinalized, panicked>>

\* CreateIfNotExists, through the dr read before the pause.  A job that has a
\* result or an object is left alone, and its turn is not handed on.
WorkerCreate(t) ==
    LET j == worker[t].next
        asks == j \notin worker[t].done
    IN  /\ worker[t].pc = "create"
        /\ panicked' = (asks /\ worker[t].dr = "nil")
        /\ jobs' = IF asks /\ worker[t].dr = "ok" /\ jobs[j] = "absent"
                   THEN [jobs EXCEPT ![j] = "active"] ELSE jobs
        /\ worker' = [worker EXCEPT ![t].pc = "tidy"]
        /\ UNCHANGED <<res, lives, results, finalizer, trackers, maps, queues,
                       unfinalized>>

\* An empty list goes, and the interface with it; that there is no list any
\* more counts as an empty one.
WorkerTidies(t) ==
    LET n == NameInHand(t)
    IN  /\ worker[t].pc = "tidy"
        /\ worker' = [worker EXCEPT ![t] = IdleWorker]
        /\ IF waiting[t][n] = <<>>
           THEN /\ waitingKeys' = [waitingKeys EXCEPT ![t] = @ \ {n}]
                /\ drMap' = [drMap EXCEPT ![t] = @ \ {n}]
           ELSE UNCHANGED <<waitingKeys, drMap>>
        /\ UNCHANGED <<cluster, finalizer, trackers, subscribers, waiting,
                       jobOptMap, queues, unfinalized, panicked>>

\* It has found no list: the interface goes.
WorkerForgets(t) ==
    /\ worker[t].pc = "forget"
    /\ drMap' = [drMap EXCEPT ![t] = @ \ {NameInHand(t)}]
    /\ worker' = [worker EXCEPT ![t] = IdleWorker]
    /\ UNCHANGED <<cluster, finalizer, trackers, subscribers, lists, jobOptMap,
                   queues, unfinalized, panicked>>

-----------------------------------------------------------------------------
Environment ==
    \/ \E b \in Benchmarks : UserCreates(b) \/ UserDeletes(b)
    \/ \E j \in Jobs : JobCompletes(j)

Reconciler ==
    \/ \E b \in Benchmarks : \/ AddFinalizer(b)
                             \/ CreateFromOperator(b)
                             \/ FinalizeWithoutOperator(b)
                             \/ FinalizeBenchmark(b)
    \/ DeleteFromOperator
    \/ RemoveFinalizer

Informer(t) == UpdateFunc(t) \/ InformerStops(t)

Worker(t) ==
    \/ RunLooksAtQuit(t) \/ WorkerTake(t)
    \/ WorkerLooks(t) \/ WorkerReads(t) \/ WorkerStores(t) \/ WorkerCreate(t)
    \/ WorkerTidies(t) \/ WorkerForgets(t)

Next ==
    /\ ~panicked
    /\ \/ Environment
       \/ Reconciler
       \/ \E t \in Trackers : Informer(t) \/ Worker(t)

(***************************************************************************)
(* Goroutines are scheduled, resources are reconciled again and again and  *)
(* jobs end.  The work of each kind is finite, so that fairness need not   *)
(* single out a benchmark, a tracker or a job.                             *)
(***************************************************************************)
Fairness ==
    /\ WF_vars(Reconciler)
    /\ WF_vars(\E t \in Trackers : Informer(t))
    /\ WF_vars(\E t \in Trackers : Worker(t))
    /\ WF_vars(\E j \in Jobs : JobCompletes(j))

Spec == Init /\ [][Next]_vars /\ Fairness

-----------------------------------------------------------------------------
UniqueNames == \A b, c \in Benchmarks : NameOf[b] = NameOf[c] => b = c

Running(b) == {j \in Range(JobsOf[b]) : jobs[j] = "active"}

(***************************************************************************)
(* A registered tracker has not been ended and has subscribers, each of    *)
(* them a benchmark with the finalizer or one that went while its operator *)
(* was gone; an ended tracker has none, though its goroutines go on        *)
(* (DeleteTracker, job_tracker.go:105-123).  A list may outlive its        *)
(* subscription, put back by a worker that had read it (208).  But the     *)
(* interface through which its jobs would be created does not, unless the  *)
(* worker is just about to take it off (221).                              *)
(***************************************************************************)
TrackerFollowsSubscribers ==
    /\ registered # NoTracker =>
         /\ registered \notin quit
         /\ subscribers[registered] # {}
    /\ \A t \in Trackers, n \in Names :
         /\ n \in subscribers[t] =>
              /\ t = registered
              /\ \/ n \in unfinalized
                 \/ \E b \in Benchmarks : /\ NameOf[b] = n
                                          /\ res[b] \in {"live", "deleting"}
         /\ n \in drMap[t] =>
              \/ n \in subscribers[t]
              \/ worker[t].pc = "forget" /\ NameInHand(t) = n

(***************************************************************************)
(* The jobs of a benchmark that has been finalized are gone, but for those *)
(* a worker had in hand, read off the list before Unsubscribe and created  *)
(* after DeleteFromOperator (job_tracker.go:206-213): one for each life.   *)
(***************************************************************************)
OrphansBounded ==
    \A b \in Benchmarks :
        /\ UniqueNames
        /\ res[b] = "absent" /\ NameOf[b] \notin unfinalized
        => Cardinality({j \in Range(JobsOf[b]) : jobs[j] # "absent"})
              <= lives[b]

(***************************************************************************)
(* A sequential benchmark that is created once runs one job at a time,     *)
(* whatever becomes of the other benchmarks and of the tracker they share: *)
(* it is the re-creation of a benchmark that a worker still holds a job of *)
(* that starts two.                                                        *)
(***************************************************************************)
SequentialUnlessRecreated ==
    UniqueNames =>
        \A b \in Benchmarks : lives[b] <= 1 => Cardinality(Running(b)) <= 1

(***************************************************************************)
(* A benchmark that is created once and never deleted has in the end all   *)
(* its jobs run and recorded, although others subscribe and unsubscribe,   *)
(* trackers end and start, as long as names are unique and the process     *)
(* lives.                                                                  *)
(***************************************************************************)
SurvivorFinishes ==
    \A b \in Benchmarks :
        /\ UniqueNames
        /\ <>[](res[b] = "live" /\ lives[b] = 1 /\ ~panicked)
        => <>[](Range(JobsOf[b]) \subseteq results)

=============================================================================
