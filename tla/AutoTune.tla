------------------------------ MODULE AutoTune ------------------------------
(***************************************************************************)
(* Auto-tuning the nodes of one benchmark: an optimizer per auto-tuned job *)
(* proposes profiles (AutoTune), the scan and then the tracker's worker    *)
(* take a profile and run the job under it again (CreateIfNotExists), and  *)
(* the worker hands the value measured back (ProcessJobQueue).  Optimizer  *)
(* and worker meet in two channels, which the optimizer closes at the end. *)
(* A benchmark that selects nodes runs one job at a time; its jobs outlast *)
(* the scan here (JobPipeline has the other case), so scan and worker take *)
(* turns in one variable, thread.                                          *)
(***************************************************************************)
EXTENDS Integers, Sequences, Functions, FiniteSetsExt

CONSTANTS
    Scanned,    \* the benchmark's jobs, in the order of the scan
    Tuned,      \* the jobs whose profile is auto-tuned
    Running,    \* jobs left running by the operator's previous process
    RandomRounds, \* RANDOM_ROUND
    Rounds,     \* RANDOM_ROUND + MAX_ROUND
    QSize,      \* TUNED_MAX_QSIZE
    Values,     \* performance values
    Minimize,   \* spec.iterationSpec.minimize
    Faults,     \* kinds of things that may go wrong
    None        \* no job, no value

FaultKinds ==
    { "invalid",   \* the optimizer tries a value outside of its range
      "profile",   \* the auto-tuned profile cannot be created
      "create",    \* the job cannot be created again
      "parse",     \* the log of a run cannot be parsed
      "call",      \* the parser service cannot be reached
      "optimize",  \* the optimizer cannot tell what to explore next
      "nosend" }   \* no parser key, or the first pod has not succeeded

Jobs == Range(Scanned)

\* A profile is the number of its proposal; NoProfile is any other one, the
\* empty one among them.
Profiles  == 0..Rounds
NoProfile == 0

\* The value of the empty Response that a failed call leaves, and the one in
\* the service's answer when a log cannot be parsed.
NoResponse == 0
Error      == -1
Measures   == Values \cup {NoResponse, Error}

ASSUME TuneAssumption ==
    /\ Scanned \in Seq(Jobs) /\ IsInjective(Scanned)
    /\ Tuned \subseteq Jobs /\ Running \subseteq Jobs
    /\ Rounds \in Nat \ {0} /\ QSize \in Nat \ {0}
    /\ RandomRounds \in 1..Rounds
    /\ Values \subseteq Nat \ {0}
    /\ Minimize \in BOOLEAN
    /\ Faults \subseteq FaultKinds
    /\ None \notin Jobs \cup Measures /\ None \notin FaultKinds

VARIABLES
    jobs,           \* [Jobs -> "absent", "active" or "complete"]
    profile,        \* the profile the job's last run was created under
    measured,       \* history: the (profile, value) pairs of its runs
    results,        \* the value in Status.Results, or None
    opt,            \* JobOptMap's optimizers: see Optimizers
    applied,        \* jobs with FinalizedApplied
    jobOptMap,      \* the keys of r.JobOptMap
    waiting,        \* the benchmark's entry in r.WaitingJobMap, or <<>>
    waitingKey,     \* whether r.WaitingJobMap has that entry
    drKey,          \* whether r.DRMap has the benchmark
    bestPod,        \* value of the log of r.BestPodNameMap's pod, or None
    jobQueue,       \* completed runs, with their values, to be collected
    thread,         \* the scan, and then the worker: see Threads
    panicked,       \* a goroutine has panicked
    fault           \* the kind that does in this behaviour, or None

cluster == <<jobs, profile, measured>>
maps    == <<jobOptMap, waiting, waitingKey, drKey>>
vars    == <<cluster, results, opt, applied, maps, bestPod, jobQueue, thread,
             panicked, fault>>

May(kind) == fault = kind

\* The optimizer of a job: its goroutine, the rounds begun and those that
\* await a result, the channels, and what it has logged for each round.  As a
\* history, submitted has the profiles sent, but as many of the first ones as
\* there have been results.
Optimizers ==
    [pc : {"unborn", "tune", "settled", "sampleClosed", "closed"},
     round : Profiles, awaiting : SUBSET Profiles,
     SampleQueue : Seq(Profiles), ResultQueue : Seq(Measures),
     log : SUBSET (Profiles \X Measures), finalized : Profiles,
     submitted : Seq(Profiles)]

\* Who runs CreateIfNotExists, and where: the scan, the worker after a run of
\* the same job ("retune"), or the worker for the next job ("deploy").
Threads ==
    [pc : {"scan", "create", "take", "apply", "idle", "collect", "send",
           "record", "deploy", "pop"},
     from : {"scan", "retune", "deploy"}, job : Jobs \cup {None},
     i : 1..(Len(Scanned) + 1), isNew : BOOLEAN, dr : BOOLEAN,
     profile : Profiles, value : Measures]

TypeOK ==
    /\ jobs \in [Jobs -> {"absent", "active", "complete"}]
    /\ profile \in [Jobs -> Profiles]
    /\ measured \in [Jobs -> SUBSET (Profiles \X Measures)]
    /\ results \in [Jobs -> Measures \cup {None}]
    /\ opt \in [Jobs -> Optimizers]
    /\ \A j \in Jobs : Len(opt[j].SampleQueue) <= QSize
                         /\ Len(opt[j].ResultQueue) <= QSize
    /\ applied \subseteq Jobs /\ jobOptMap \subseteq Jobs
    /\ waiting \in Seq(Jobs) /\ jobQueue \in Seq(Jobs \X Measures)
    /\ waitingKey \in BOOLEAN /\ drKey \in BOOLEAN
    /\ panicked \in BOOLEAN /\ fault \in Faults \cup {None}
    /\ bestPod \in [Jobs -> Measures \cup {None}]
    /\ thread \in Threads

Unborn == [pc |-> "unborn", round |-> NoProfile, awaiting |-> {},
           SampleQueue |-> <<>>, ResultQueue |-> <<>>,
           log |-> {}, finalized |-> NoProfile,
           submitted |-> <<>>]

Init ==
    /\ jobs = [j \in Jobs |-> IF j \in Running THEN "active" ELSE "absent"]
    /\ profile = [j \in Jobs |-> NoProfile]
    /\ measured = [j \in Jobs |-> {}]
    /\ results = [j \in Jobs |-> None]
    /\ opt = [j \in Jobs |-> Unborn]
    /\ applied = {} /\ jobOptMap = {}
    /\ waiting = <<>> /\ waitingKey = FALSE /\ drKey = FALSE
    /\ bestPod = [j \in Jobs |-> None]
    /\ jobQueue = <<>>
    /\ thread = [pc |-> "scan", from |-> "scan", job |-> None, i |-> 1,
                 isNew |-> FALSE, dr |-> TRUE, profile |-> NoProfile,
                 value |-> NoResponse]
    /\ panicked = FALSE
    /\ fault \in Faults \cup {None}

FinalizedReady(j) == opt[j].pc \in {"settled", "sampleClosed", "closed"}
SampleClosed(j)   == opt[j].pc \in {"sampleClosed", "closed"}
ResultClosed(j)   == opt[j].pc = "closed"

\* Is val2 better than val1?
isBetterResult(val1, val2) == IF Minimize THEN val2 < val1 ELSE val2 > val1

-----------------------------------------------------------------------------
(***************************************************************************)
(* The optimizer's goroutines.  The library has each round evaluated by    *)
(* the function of optimize, which sends the round's profile and takes a   *)
(* value.  Random rounds may be under way at the same time, and also when  *)
(* exploration begins; the rounds of exploration come one after another.   *)
(***************************************************************************)
Begins(o) == \/ o.round < RandomRounds
             \/ \A r \in o.awaiting : r <= RandomRounds

\* Seeded fault: the number of rounds is not bounded.
ProposeForever(j) ==
    /\ opt[j].pc = "tune" /\ Begins(opt[j])
    /\ Len(opt[j].SampleQueue) < QSize
    /\ opt' = [opt EXCEPT ![j].round = @ + 1,
                          ![j].awaiting = @ \cup {opt[j].round + 1},
                          ![j].SampleQueue = Append(@, opt[j].round + 1),
                          ![j].submitted = Append(@, opt[j].round + 1)]
    /\ UNCHANGED <<cluster, results, applied, maps, bestPod, jobQueue, thread,
                   panicked>>

\* A proposal that validateSample accepts is sent.  Proposals have their
\* numbers in the order in which they are.
Propose(j) ==
    /\ opt[j].pc = "tune" /\ opt[j].round < Rounds /\ Begins(opt[j])
    /\ Len(opt[j].SampleQueue) < QSize
    /\ opt' = [opt EXCEPT ![j].round = @ + 1,
                          ![j].awaiting = @ \cup {opt[j].round + 1},
                          ![j].SampleQueue = Append(@, opt[j].round + 1),
                          ![j].submitted = Append(@, opt[j].round + 1)]
    /\ UNCHANGED <<cluster, results, applied, maps, bestPod, jobQueue, thread,
                   panicked>>

\* One that it refuses is worth the worst value, and is not sent.
ProposeInvalid(j) ==
    /\ May("invalid")
    /\ opt[j].pc = "tune" /\ opt[j].round < Rounds /\ Begins(opt[j])
    /\ opt' = [opt EXCEPT ![j].round = @ + 1]
    /\ UNCHANGED <<cluster, results, applied, maps, bestPod, jobQueue, thread,
                   panicked>>

\* Whichever round receives a result takes it for its own.
Receive(j) ==
    LET value == Head(opt[j].ResultQueue) IN
    /\ opt[j].pc = "tune" /\ opt[j].ResultQueue # <<>>
    /\ \E r \in opt[j].awaiting :
         opt' = [opt EXCEPT
                   ![j].awaiting = @ \ {r}, ![j].ResultQueue = Tail(@),
                   ![j].log = @ \cup {<<r, value>>}, ![j].submitted = Tail(@)]
    /\ UNCHANGED <<cluster, results, applied, maps, bestPod, jobQueue, thread,
                   panicked>>

\* A pair of the log with the best value.
Best(log) == {p \in log : \A q \in log : ~isBetterResult(p[2], q[2])}

\* After the last round the best profile becomes the final one.
Settle(j) ==
    /\ opt[j].pc = "tune" /\ opt[j].round = Rounds /\ opt[j].awaiting = {}
    /\ \E p \in IF opt[j].log = {} THEN {<<NoProfile, NoResponse>>}
                ELSE Best(opt[j].log) :
         opt' = [opt EXCEPT ![j].pc = "settled", ![j].finalized = p[1]]
    /\ UNCHANGED <<cluster, results, applied, maps, bestPod, jobQueue, thread,
                   panicked>>

\* Optimize returns an error instead of exploring on: the empty profile does.
OptimizeFails(j) ==
    /\ May("optimize")
    /\ opt[j].pc = "tune" /\ opt[j].awaiting = {}
    /\ RandomRounds <= opt[j].round /\ opt[j].round < Rounds
    /\ opt' = [opt EXCEPT ![j].pc = "settled", ![j].finalized = NoProfile]
    /\ UNCHANGED <<cluster, results, applied, maps, bestPod, jobQueue, thread,
                   panicked>>

\* Finalize closes the two channels, after it has set FinalizedReady.
CloseQueues(j) ==
    /\ opt[j].pc \in {"settled", "sampleClosed"}
    /\ opt' = [opt EXCEPT
                 ![j].pc = IF @ = "settled" THEN "sampleClosed" ELSE "closed"]
    /\ UNCHANGED <<cluster, results, applied, maps, bestPod, jobQueue, thread,
                   panicked>>

Optimizer(j) == \/ Propose(j) \/ ProposeInvalid(j) \/ Receive(j)
                \/ Settle(j) \/ OptimizeFails(j) \/ CloseQueues(j)

-----------------------------------------------------------------------------
(***************************************************************************)
(* CreateIfNotExists, called by the scan and by the worker.                *)
(***************************************************************************)

\* CreateIfNotExists returns (err, isNew) to its caller.
Return(isNew, err) ==
    LET j == thread.job IN
    CASE thread.from = "scan" ->
           /\ thread' = [thread EXCEPT !.pc = "scan", !.isNew = isNew,
                                       !.i = @ + 1]
           /\ UNCHANGED maps
      [] thread.from = "retune" /\ isNew /\ ~err ->
           /\ thread' = [thread EXCEPT !.pc = "idle"]
           /\ UNCHANGED maps
      [] thread.from = "retune" /\ ~(isNew /\ ~err) ->
           /\ thread' = [thread EXCEPT !.pc = "pop"]
           /\ UNCHANGED maps
      [] thread.from = "deploy" ->
           /\ thread' = [thread EXCEPT !.pc = "idle"]
           /\ waitingKey' = (waiting # <<>>)
           /\ drKey' = (drKey /\ ~(waiting = <<>> /\ j \in applied'))
           /\ UNCHANGED <<jobOptMap, waiting>>

\* The lookup of the job panics if DRMap had no interface to the cluster;
\* nothing else of the step matters then.
Lookup(j) == panicked' = (results[j] = None /\ ~thread.dr)

\* A job with a recorded result, one that runs, and one that is complete and
\* not tuned, are left alone; one that is absent and not tuned is created.
CreateUntuned ==
    LET j      == thread.job
        create == results[j] = None /\ jobs[j] = "absent"
    IN
    /\ thread.pc = "create"
    /\ results[j] # None \/ jobs[j] = "active" \/ j \notin Tuned
    /\ Lookup(j)
    /\ applied' = applied
    /\ \E err \in {FALSE, create /\ May("create")} :
         /\ jobs' = IF create /\ ~err THEN [jobs EXCEPT ![j] = "active"]
                    ELSE jobs
         /\ Return(results[j] = None /\ jobs[j] # "complete", err)
    /\ UNCHANGED <<profile, measured, results, opt, bestPod, jobQueue>>

CreateTuned ==
    LET j == thread.job IN
    /\ thread.pc = "create"
    /\ results[j] = None /\ jobs[j] # "active" /\ j \in Tuned
    /\ Lookup(j)
    /\ thread' = [thread EXCEPT !.pc = "take"]
    /\ UNCHANGED <<cluster, results, opt, applied, maps, bestPod, jobQueue>>

\* The receive from SampleQueue waits for a sample,
TakeSample ==
    LET j == thread.job IN
    /\ thread.pc = "take"
    /\ opt[j].SampleQueue # <<>>
    /\ thread' = [thread EXCEPT !.pc = "apply",
                                !.profile = Head(opt[j].SampleQueue)]
    /\ opt' = [opt EXCEPT ![j].SampleQueue = Tail(@)]
    /\ UNCHANGED <<cluster, results, applied, maps, bestPod, jobQueue,
                   panicked>>

\* Seeded fault: taking the final profile is not remembered.
TakeFinalAgain ==
    LET j == thread.job IN
    /\ thread.pc = "take"
    /\ opt[j].SampleQueue = <<>> /\ SampleClosed(j)
    /\ thread' = [thread EXCEPT !.pc = "apply", !.profile = opt[j].finalized]
    /\ UNCHANGED <<cluster, results, opt, applied, maps, bestPod, jobQueue,
                   panicked>>

\* ... or, once that is closed and empty, takes the final profile, which it
\* takes once: after that there is "no more sample".
TakeFinal ==
    LET j == thread.job IN
    /\ thread.pc = "take"
    /\ opt[j].SampleQueue = <<>> /\ SampleClosed(j)
    /\ applied' = applied \cup {j}
    /\ IF j \in applied THEN Return(TRUE, TRUE)
       ELSE /\ thread' = [thread EXCEPT !.pc = "apply",
                                        !.profile = opt[j].finalized]
            /\ UNCHANGED maps
    /\ UNCHANGED <<cluster, results, opt, bestPod, jobQueue, panicked>>

\* Seeded fault: the profile of the previous round is not deleted, so it stays.
ApplyKeepsProfile ==
    LET j == thread.job IN
    /\ thread.pc = "apply"
    /\ applied' = applied
    /\ jobs' = [jobs EXCEPT ![j] = "active"]
    /\ profile' = [profile EXCEPT ![j] = IF @ = NoProfile THEN thread.profile
                                         ELSE @]
    /\ Return(TRUE, FALSE)
    /\ UNCHANGED <<measured, results, opt, bestPod, jobQueue, panicked>>

\* The auto-tuned profile is made anew, the job deleted and created again.
ApplyProfile ==
    LET j == thread.job IN
    /\ thread.pc = "apply"
    /\ applied' = applied
    /\ \/ /\ jobs' = [jobs EXCEPT ![j] = "active"]
          /\ profile' = [profile EXCEPT ![j] = thread.profile]
          /\ Return(TRUE, FALSE)
       \/ /\ May("create")
          /\ jobs' = [jobs EXCEPT ![j] = "absent"]
          /\ UNCHANGED profile
          /\ Return(TRUE, TRUE)
       \/ /\ May("profile")
          /\ UNCHANGED <<jobs, profile>>
          /\ Return(TRUE, TRUE)
    /\ UNCHANGED <<measured, results, opt, bestPod, jobQueue, panicked>>

CreateIfNotExists ==
    \/ CreateUntuned \/ CreateTuned
    \/ TakeSample \/ TakeFinal \/ ApplyProfile

-----------------------------------------------------------------------------
(***************************************************************************)
(* The scan of CreateFromOperator, and Subscribe.                          *)
(***************************************************************************)

\* Each job gets an optimizer, which runs if the job is tuned and is closed
\* at once if not; the job is created if none has counted as new.
ScanJob ==
    LET j == Scanned[thread.i] IN
    /\ thread.pc = "scan" /\ thread.i <= Len(Scanned)
    /\ opt' = [opt EXCEPT ![j].pc = IF j \in Tuned THEN "tune"
                                    ELSE "closed"]
    /\ applied' = applied \cup ({j} \ Tuned)
    /\ IF ~thread.isNew
         THEN /\ thread' = [thread EXCEPT !.pc = "create", !.job = j]
              /\ UNCHANGED waiting
         ELSE /\ thread' = [thread EXCEPT !.i = @ + 1]
              /\ waiting' = IF jobs[j] = "absent" THEN Append(waiting, j)
                            ELSE waiting
    /\ UNCHANGED <<cluster, results, jobOptMap, waitingKey, drKey, bestPod,
                   jobQueue, panicked>>

\* Seeded fault: the dynamic interface is not stored.
SubscribeNoDR ==
    /\ thread.pc = "scan" /\ thread.i > Len(Scanned)
    /\ waitingKey' = (waiting # <<>>)
    /\ jobOptMap' = IF waiting # <<>> THEN Jobs ELSE {}
    /\ thread' = [thread EXCEPT !.pc = "idle"]
    /\ UNCHANGED <<cluster, results, opt, applied, waiting, drKey, bestPod,
                   jobQueue, panicked>>

\* The optimizers are stored only if a job waits.
Subscribe ==
    /\ thread.pc = "scan" /\ thread.i > Len(Scanned)
    /\ waitingKey' = (waiting # <<>>)
    /\ drKey' = (waiting # <<>>)
    /\ jobOptMap' = IF waiting # <<>> THEN Jobs ELSE {}
    /\ thread' = [thread EXCEPT !.pc = "idle"]
    /\ UNCHANGED <<cluster, results, opt, applied, waiting, bestPod, jobQueue,
                   panicked>>

-----------------------------------------------------------------------------
(***************************************************************************)
(* The cluster runs a job once its benchmark is tracked.                   *)
(***************************************************************************)
Parsed == Values \cup (IF May("parse") THEN {Error} ELSE {})
                 \cup (IF May("call") THEN {NoResponse} ELSE {})

JobCompletes(j) ==
    /\ jobs[j] = "active"
    /\ thread.i > Len(Scanned) /\ thread.pc # "scan"
    /\ jobs' = [jobs EXCEPT ![j] = "complete"]
    /\ \E value \in Parsed :
         /\ measured' = [measured EXCEPT ![j] = @ \cup {<<profile[j], value>>}]
         /\ jobQueue' = Append(jobQueue, <<j, value>>)
    /\ UNCHANGED <<profile, results, opt, applied, maps, bestPod, thread,
                   panicked>>

-----------------------------------------------------------------------------
(***************************************************************************)
(* The tracker's worker: ProcessJobQueue, then deployWaitingResource.      *)
(***************************************************************************)
WorkerTake ==
    /\ thread.pc = "idle" /\ jobQueue # <<>>
    /\ thread' = [thread EXCEPT !.pc = "collect", !.job = Head(jobQueue)[1],
                                !.value = Head(jobQueue)[2]]
    /\ jobQueue' = Tail(jobQueue)
    /\ UNCHANGED <<cluster, results, opt, applied, maps, bestPod, panicked>>

\* The value is for the optimizer, if it has one that is not yet final.
WorkerCollect ==
    /\ thread.pc = "collect"
    /\ thread' = [thread EXCEPT
                    !.pc = IF thread.job \in jobOptMap
                              /\ ~FinalizedReady(thread.job)
                           THEN "send" ELSE "record"]
    /\ UNCHANGED <<cluster, results, opt, applied, maps, bestPod, jobQueue,
                   panicked>>

\* Nothing is parsed, or not from the first pod: the job is just over.
WorkerSkip ==
    /\ May("nosend")
    /\ thread.pc = "collect"
    /\ thread' = [thread EXCEPT !.pc = "deploy", !.dr = drKey]
    /\ UNCHANGED <<cluster, results, opt, applied, maps, bestPod, jobQueue,
                   panicked>>

\* Seeded fault: the value is not sent.
SendNothing ==
    /\ thread.pc = "send"
    /\ thread' = [thread EXCEPT !.pc = "record"]
    /\ UNCHANGED <<cluster, results, opt, applied, maps, bestPod, jobQueue,
                   panicked>>

\* The send panics if the optimizer has closed the channel since
\* WorkerCollect looked; nothing else of the step matters then.
WorkerSend ==
    LET j == thread.job IN
    /\ thread.pc = "send"
    /\ ResultClosed(j) \/ Len(opt[j].ResultQueue) < QSize
    /\ panicked' = ResultClosed(j)
    /\ opt' = [opt EXCEPT ![j].ResultQueue = Append(@, thread.value)]
    /\ thread' = [thread EXCEPT !.pc = "record"]
    /\ UNCHANGED <<cluster, results, applied, maps, bestPod, jobQueue>>

\* What the log of the best pod so far is worth when it is parsed again:
\* nothing if there is no such pod or the service cannot be reached; anything
\* if it could not be reached before.  A log that cannot be parsed counts as 0.
Previous(j) ==
    (IF bestPod[j] = NoResponse THEN Parsed \ {NoResponse} ELSE {bestPod[j]})
      \cup IF May("call") THEN {None} ELSE {}
PrevValue(prev) == IF prev = Error THEN NoResponse ELSE prev

\* Seeded fault: the last run's value is recorded.
WorkerRecordLast ==
    LET j     == thread.job
        final == j \in jobOptMap => j \in applied
    IN
    /\ thread.pc = "record"
    /\ results' = IF final THEN [results EXCEPT ![j] = thread.value]
                  ELSE results
    /\ bestPod' = [bestPod EXCEPT ![j] = IF final THEN None ELSE thread.value]
    /\ thread' = [thread EXCEPT !.pc = "deploy", !.dr = drKey]
    /\ UNCHANGED <<cluster, opt, applied, maps, jobQueue, panicked>>

\* The better of this run and of the best run so far is kept; it becomes the
\* job's result when this was the run under the final profile.
WorkerRecord ==
    LET j == thread.job IN
    /\ thread.pc = "record"
    /\ \E prev \in Previous(j) :
         LET keepPrevious == /\ j \in jobOptMap /\ prev # None
                             /\ ~isBetterResult(PrevValue(prev), thread.value)
             value  == IF keepPrevious THEN prev ELSE thread.value
             final  == /\ thread.value # NoResponse
                       /\ j \in jobOptMap => j \in applied
         IN
         /\ results' = IF final THEN [results EXCEPT ![j] = value] ELSE results
         /\ bestPod' = [bestPod EXCEPT ![j] =
                          IF final THEN None
                          ELSE IF j \in jobOptMap /\ ~keepPrevious
                               THEN thread.value ELSE @]
    /\ thread' = [thread EXCEPT !.pc = "deploy", !.dr = drKey]
    /\ UNCHANGED <<cluster, opt, applied, maps, jobQueue, panicked>>

\* Seeded fault: the waiting jobs come first.
DeployWaitingFirst ==
    LET j == thread.job IN
    /\ thread.pc = "deploy"
    /\ thread' = [thread EXCEPT
                    !.from = IF j \in jobOptMap \ applied THEN "retune" ELSE @,
                    !.pc = IF j \notin jobOptMap THEN "idle"
                           ELSE IF j \in applied \/ waiting # <<>> THEN "pop"
                           ELSE "create"]
    /\ UNCHANGED <<cluster, results, opt, applied, maps, bestPod, jobQueue,
                   panicked>>

\* The next profile of the same job comes before the next job.
WorkerDeploy ==
    LET j == thread.job IN
    /\ thread.pc = "deploy"
    /\ thread' = [thread EXCEPT
                    !.from = IF j \in jobOptMap \ applied THEN "retune" ELSE @,
                    !.pc = IF j \notin jobOptMap THEN "idle"
                           ELSE IF j \in applied THEN "pop" ELSE "create"]
    /\ UNCHANGED <<cluster, results, opt, applied, maps, bestPod, jobQueue,
                   panicked>>

WorkerPop ==
    LET j == thread.job
        opts == jobOptMap \ ({j} \cap applied)
    IN
    /\ thread.pc = "pop"
    /\ jobOptMap' = opts
    /\ panicked' = (waitingKey /\ waiting = <<>>)    \* index out of range
    /\ IF waitingKey /\ ~panicked'
         THEN /\ waiting' = Tail(waiting)
              /\ thread' = IF Head(waiting) \in opts
                           THEN [thread EXCEPT !.pc = "create",
                                               !.from = "deploy",
                                               !.job = Head(waiting)]
                           ELSE [thread EXCEPT !.pc = "idle"]
              /\ UNCHANGED drKey
         ELSE /\ drKey' = FALSE
              /\ thread' = [thread EXCEPT !.pc = "idle"]
              /\ UNCHANGED waiting
    /\ UNCHANGED <<cluster, results, opt, applied, waitingKey, bestPod,
                   jobQueue>>

Worker == \/ WorkerTake \/ WorkerCollect \/ WorkerSkip \/ WorkerSend
          \/ WorkerRecord \/ WorkerDeploy \/ WorkerPop

Thread == ScanJob \/ Subscribe \/ CreateIfNotExists \/ Worker

\* A panic ends the process.
On(Action) == ~panicked /\ Action /\ UNCHANGED fault

Next == \/ On(Thread)
        \/ \E j \in Jobs : On(Optimizer(j)) \/ On(JobCompletes(j))

Spec == Init /\ [][Next]_vars

\* Goroutines are scheduled, and a job that runs ends some time.
FairSpec ==
    /\ Spec
    /\ WF_vars(On(Thread))
    /\ \A j \in Jobs : /\ WF_vars(On(Optimizer(j)))
                       /\ WF_vars(On(JobCompletes(j)))

-----------------------------------------------------------------------------
(***************************************************************************)
(* Properties.                                                             *)
(***************************************************************************)

\* Where the rounds that the optimizer of j waits for may be.
One(P) == IF P THEN 1 ELSE 0
RoundsUnderWay(j) ==
      Len(opt[j].SampleQueue) + Len(opt[j].ResultQueue)
    + One(thread.pc = "apply" /\ thread.job = j)
    + One(jobs[j] = "active")
    + Cardinality({i \in DOMAIN jobQueue : jobQueue[i][1] = j})
    + One(thread.pc \in {"collect", "send"} /\ thread.job = j)

\* The rounds that await a result are those in a channel, in the worker's
\* hands or in the cluster, and no more is ever under way: a result too few
\* and a round waits for ever, one too many and it is nobody's.  What is not
\* created, or not sent, is lost.
RoundsBalance ==
    \A j \in Tuned : opt[j].pc = "tune" =>
       /\ RoundsUnderWay(j) <= Cardinality(opt[j].awaiting)
       /\ fault \notin {"profile", "create", "nosend"} =>
            RoundsUnderWay(j) = Cardinality(opt[j].awaiting)

\* The n-th result that the optimizer receives was measured in a run of the
\* job under the n-th profile that it has sent, unless one was not sent.
ResultsOfSamples ==
    fault # "nosend" =>
        \A j \in Tuned : \A n \in DOMAIN opt[j].ResultQueue :
           <<opt[j].submitted[n], opt[j].ResultQueue[n]>> \in measured[j]

\* Every round learns what was measured under its own profile (optimize:
\* "wait for result to return").
RoundsGetTheirResults == \A j \in Tuned : opt[j].log \subseteq measured[j]

\* Nobody sends on or closes a channel that the other side has closed, or uses
\* the interface to the cluster after it was dropped from the maps.
NoPanic == ~panicked

\* Things go wrong, but every run is made, parsed and sent.
Harmless == fault \in {None, "invalid", "optimize"}

\* The result recorded for a tuned job is the best of all its runs, the one
\* under the final profile included.
RecordedIsBest ==
    Harmless => \A j \in Tuned : results[j] # None =>
        /\ \E p \in measured[j] : p[2] = results[j]
        /\ \A p \in measured[j] : ~isBetterResult(results[j], p[2])

\* The result is recorded after a last run, under the profile of the best
\* round; or under the empty one, if the optimizer has failed before the end.
RecordedAfterFinal ==
    fault \in {None, "optimize"} => \A j \in Tuned : results[j] # None =>
        IF opt[j].round = Rounds
        THEN profile[j] \in {p[1] : p \in Best(opt[j].log)}
        ELSE fault = "optimize" /\ profile[j] = NoProfile

\* The result of a tuned job is its best one, and comes after its last run.
RecordedRight == RecordedIsBest /\ RecordedAfterFinal

\* Nodes are tuned for one job at a time: no other job runs between two runs
\* of a job that is being tuned.
TuningNotInterrupted ==
    [][Harmless => \A j \in Jobs, k \in Tuned :
         jobs[j] # "active" /\ jobs'[j] = "active" /\ j # k =>
            jobs[k] = "absent" \/ results[k] # None]_vars

\* Every job's result is recorded in the end.
AllResultsRecorded == \A j \in Jobs : <>(~Harmless \/ results[j] # None)

\* A job whose profile is to be auto-tuned is tuned.
TuningActivated == \A j \in Tuned : <>(fault # None \/ opt[j].round = Rounds)
=============================================================================
