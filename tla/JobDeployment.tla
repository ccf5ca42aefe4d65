---------------------------- MODULE JobDeployment ----------------------------
(***************************************************************************)
(* How the combinations of one benchmark become jobs on nodes: the scan    *)
(* enumerates them, lists their hashes, writes node selection into each    *)
(* job's object; whoever creates a job labels the nodes with its profile   *)
(* before, the worker takes the label off after, collects the pods and     *)
(* files the result under what the hash says.  The benchmark runs its jobs *)
(* one at a time, is the only one of its kind and is not auto-tuned:       *)
(* JobPipeline has the other cases of the scan, AutoTune the samples,      *)
(* BenchmarkStatus the writers of the status, TrackerLifecycle deletion.   *)
(***************************************************************************)
EXTENDS Naturals, Sequences, FiniteSets, Combinations, SpecObject,
        OperatorAdaptors

CONSTANTS
    Specs,        \* the benchmarks considered, each with its adaptor
    TrackedBuilds,\* their Status.TrackedBuilds
    Nodes,        \* the cluster's nodes
    NodeLabels,   \* their labels other than "profile"
    Unlabelled,   \* no profile on a node
    None,         \* no job, no node
    MaxRestarts   \* bound on the operator's restarts

VARIABLES
    spec,        \* Spec of the benchmark
    scanned,     \* its jobs in the order of the scan, and
    made,        \* their objects: both are of spec and do not change
    hashes,      \* its Status.Hash
    results,     \* its Status.Results: a job's result and where it is filed
    jobs,        \* the jobs in the cluster: phase and node
    pods,        \* their pods in the order listed, deleted ones marked
    profile,     \* the label "profile" of each node
    op,          \* the goroutine that scans, then works off completions
    waiting,     \* WaitingJobMap[benchmark]
    completions, \* what the informer has put in JobQueue
    restarts,    \* the operator's restarts
    mishaps,     \* kinds of failures so far: "patch", "job", "pod" happen once
    panicked     \* a goroutine has panicked; the process is gone

cluster == <<jobs, pods, profile>>
status  == <<hashes, results>>
fixed   == <<spec, scanned, made>>
vars    == <<fixed, status, cluster, op, waiting, completions, restarts,
             mishaps, panicked>>

-----------------------------------------------------------------------------
(***************************************************************************)
(* The job's object.                                                       *)
(***************************************************************************)
Selecting(s) == Len(s.nodeSelection) = 1
Selection(s) == s.nodeSelection[1]
ProfileLocation(s) == Selection(s).location \o <<Part(PROFILE)>>

WithProfile(s, object, job) ==
    IF Selecting(s) /\ PROFILE \in DOMAIN job.label /\ job.label[PROFILE] # DEFAULT
    THEN UpdateValue(object, ProfileLocation(s), job.label[PROFILE])
    ELSE object

\* The object that executing the template for a label and decoding it gives:
\* none if the text is no object, since the error is ignored.
Rendered(s, label) == IF label \in s.undecoded THEN Nil ELSE s.template

\* The selector's labels are written one after the other, in any order.
Orders(s) == IF Selecting(s) THEN SetToSeqs(DOMAIN Selection(s).selector)
                             ELSE {<<>>}

\* The object after none of the labels in an order, after the first, and so
\* on, each written to its parts under the location.
Written(s, object, order, parts) ==
    LET after[i \in 0..Len(order)] ==
          IF i = 0 THEN object
          ELSE UpdateValue(after[i - 1],
                           Selection(s).location \o parts[order[i]],
                           Selection(s).selector[order[i]])
    IN  after

\* Mutant: a label is not quoted, so that its dots separate parts.
WithSelectorUnquoted(s, object, order) ==
    IF ~Selecting(s) THEN object
    ELSE LET parts == [l \in DOMAIN Selection(s).selector |-> Parts(l)]
         IN  Written(s, object, order, parts)[Len(order)]

WithSelector(s, object, order) ==
    IF ~Selecting(s) THEN object
    ELSE LET parts == [l \in DOMAIN Selection(s).selector |-> Quoted(l)]
         IN  Written(s, object, order, parts)[Len(order)]

Error == [kind |-> "error"]

\* An error if the template cannot be parsed, or not be executed for the label.
GetBenchmarkWithIteration(s, job, order) ==
    IF job.label \in s.fails THEN Error
    ELSE WithSelector(s, WithProfile(s, Rendered(s, job.label), job), order)

\* Of a job without a profile this is "nil", not "default".
getTunedValue(s, object) ==
    IF ~Selecting(s) THEN Scalar(DEFAULT)
    ELSE IF object \in {Panic, Error} THEN Panic
    ELSE GetValue(object, ProfileLocation(s))

\* The nodes that TargetSelector matches.
getNodeList(s) ==
    {n \in Nodes : \A l \in DOMAIN Selection(s).selector :
                     /\ l \in DOMAIN NodeLabels[n]
                     /\ NodeLabels[n][l] = Selection(s).selector[l]}

\* What an object asks of a node: the map at the selection's location.
AskedOf(s, object) ==
    LET keys == getToken(Selection(s).location)
        there == Visited(object, keys)[Len(keys)]
    IN  IF there.kind = "map" THEN there.at ELSE <<>>

\* All that the operator and the cluster read off a job's object, if there is
\* one: the name of the object that the first label fails to give is asked
\* for nevertheless, the other labels are passed over.
Made(s, job, order) ==
    LET object == GetBenchmarkWithIteration(s, job, order)
        tuned == getTunedValue(s, object)
    IN  CASE object = Error /\ job.label = IterationLabels(s)[1] -> [is |-> "panic"]
          [] object = Error /\ job.label # IterationLabels(s)[1] -> [is |-> "error"]
          [] object # Error /\ tuned = Panic -> [is |-> "panic"]
          [] OTHER -> [is |-> "object", tunedValue |-> tuned.text,
                       asked |-> IF Selecting(s) THEN AskedOf(s, object) ELSE <<>>]

-----------------------------------------------------------------------------
(***************************************************************************)
(* What is assumed of the benchmarks: what a user has to write for the     *)
(* code to do what it says.                                                *)
(***************************************************************************)
\* Items and their values differ; an item without a value before another one
\* would be skipped (nextCombination starts again from nothing).
ItemsAssumed(items) ==
    /\ items \in Seq([name : STRING, values : Seq(STRING)])
    /\ \A i, k \in 1..Len(items) : items[i].name = items[k].name => i = k
    /\ \A i \in 1..Len(items) : /\ IsInjective(items[i].values)
                                /\ i < Len(items) => items[i].values # <<>>

\* No value is the text that UpdateValue takes for none; a label is given by
\* the texts between its dots.
ValuesAssumed(selection) ==
    /\ \A i \in 1..Len(selection.tunedValues) :
         selection.tunedValues[i] # NULL_VALUE_STR
    /\ IsFiniteSet(DOMAIN selection.selector)
    /\ \A l \in DOMAIN selection.selector :
         /\ l \in Seq(STRING) \ {<<>>}
         /\ selection.selector[l] \in STRING \ {NULL_VALUE_STR}

\* A key leads to a map, or by its name alone to nothing.
KeyAssumed(key, from, to) ==
    /\ key.index \in Nat /\ key.type \in {"VALUE", "LIST", "MAP"}
    /\ key.type = "MAP" => Len(key.sub) = 1
    /\ \/ to.kind = "nil" /\ key.type = "VALUE"
       \/ /\ to.kind = "map"
          /\ key.type # "VALUE" =>
               from.at[key.text].at \in Seq(Range(from.at[key.text].at))

\* The location leaves no quotation open and leads through the template's
\* maps to a map of labels, without one for the profile, or to nothing.
LocationAssumed(s) ==
    LET location == Selection(s).location
        keys == getToken(location)
        path == Visited(s.template, keys)
        base == AskedOf(s, s.template)
    IN  /\ location \in Seq(Range(location))
        /\ ~Tokenized(location)[Len(location)].opened
        /\ \A i \in 1..Len(keys) : KeyAssumed(keys[i], path[i - 1], path[i])
        /\ base \in [DOMAIN base -> Range(base)]
        /\ \A l \in DOMAIN base : l # <<PROFILE>> /\ base[l].kind = "scalar"

ASSUME BoundAssumption == MaxRestarts \in Nat

\* The benchmark runs its jobs one at a time, as one that selects nodes does.
ASSUME SpecsAssumption ==
    \A s \in Specs :
      /\ s.sequential \/ Selecting(s)
      /\ Len(s.nodeSelection) \in {0, 1}
      /\ s.iteration \in Seq([name : STRING, values : Seq(STRING)])
      /\ s.configuration \in Seq([name : STRING, values : Seq(STRING)])
      /\ PROFILE \notin ItemNames(s.iteration \o s.configuration)
      /\ ItemsAssumed(GetCombinedIterations(s))
      /\ s.repetition \in Nat /\ s.template.kind = "map"
      /\ TrackedBuilds[s] \in Seq(STRING) /\ IsInjective(TrackedBuilds[s])
      /\ Selecting(s) => ValuesAssumed(Selection(s)) /\ LocationAssumed(s)

-----------------------------------------------------------------------------
(***************************************************************************)
(* The cluster.                                                            *)
(***************************************************************************)
Phases == {"pending", "running", "succeeded", "failed"}

Condition(t, r, s) == [type |-> t, reason |-> r, status |-> s]

\* What the job's own controller writes in its status.
StatusAt(phase) ==
    [state |-> IF phase = "succeeded" THEN "Complete" ELSE phase,
     conditions |->
        CASE phase = "pending" -> <<>>
          [] phase = "running" -> IF spec.adaptor = "default" THEN <<>>
               ELSE <<Condition("Running", "JobRunning", "True")>>
          [] phase = "succeeded" -> IF spec.adaptor = "default"
               THEN <<Condition("Complete", "", "True")>>
               ELSE <<Condition("Running", "JobRunning", "False"),
                      Condition("Succeeded", "JobSucceeded", "True")>>
          [] phase = "failed" -> <<Condition("Failed", "JobFailed", "True")>>]

Complete(job) == CheckComplete(AdaptorOf(spec.adaptor), StatusAt(jobs[job].phase))

CanRun(job, n) ==
    LET asked == made[job].asked
    IN  \A l \in DOMAIN asked :
          IF l = <<PROFILE>> THEN asked[l] = Scalar(profile[n])
          ELSE l \in DOMAIN NodeLabels[n] /\ asked[l] = Scalar(NodeLabels[n][l])

\* A job becomes complete: the informer of a subscribed benchmark queues it.
UpdateFunc(job, phase) ==
    LET adaptor == AdaptorOf(spec.adaptor)
    IN  completions' =
          IF /\ op.subscribed
             /\ CheckComplete(adaptor, StatusAt(phase))
             /\ ~CheckComplete(adaptor, StatusAt(jobs[job].phase))
          THEN Append(completions, job)
          ELSE completions

JobStarts(job) ==
    /\ jobs[job].phase = "pending"
    /\ \E n \in Nodes : /\ CanRun(job, n)
                        /\ jobs' = [jobs EXCEPT ![job].phase = "running",
                                                ![job].node = n]
    /\ UpdateFunc(job, "running")
    /\ UNCHANGED <<fixed, status, pods, profile, op, waiting, restarts,
                   mishaps, panicked>>

Pod(job, role, phase) ==
    [job |-> job, role |-> role, phase |-> phase, deleted |-> FALSE]

\* The pod that gives the result may have had a failed one before it; an
\* MPI job has a worker besides.  Who ends before Subscribe is too early.
JobSucceeds(job) ==
    /\ jobs[job].phase = "running"
    /\ \E tries \in IF "pod" \in mishaps THEN {1} ELSE {1, 2} :
         /\ pods' = pods
              \o [i \in 1..(tries - 1) |-> Pod(job, "launcher", "Failed")]
              \o <<Pod(job, "launcher", "Succeeded")>>
              \o (IF spec.adaptor = "mpi" THEN <<Pod(job, "worker", "Running")>>
                                          ELSE <<>>)
         /\ mishaps' = mishaps \cup (IF tries = 1 THEN {} ELSE {"pod"})
                              \cup (IF op.subscribed THEN {} ELSE {"early"})
    /\ jobs' = [jobs EXCEPT ![job].phase = "succeeded"]
    /\ UpdateFunc(job, "succeeded")
    /\ UNCHANGED <<fixed, status, profile, op, waiting, restarts, panicked>>

JobFails(job) ==
    /\ jobs[job].phase = "running" /\ "job" \notin mishaps
    /\ jobs' = [jobs EXCEPT ![job].phase = "failed"]
    /\ mishaps' = mishaps \cup {"job"}
    /\ UpdateFunc(job, "failed")
    /\ UNCHANGED <<fixed, status, pods, profile, op, waiting, restarts, panicked>>

-----------------------------------------------------------------------------
(***************************************************************************)
(* Creating a job, by the scan or by the worker.                           *)
(***************************************************************************)
Idle == [pc |-> "idle", subscribed |-> FALSE, todo |-> <<>>, isNew |-> FALSE,
         job |-> None, nodes |-> {}]

CheckIfJobDone(job) == \E r \in results : r.job = job

\* A job found complete takes no turn; one found in any other phase does.
Found(job) == job \in DOMAIN jobs

\* Where CreateIfNotExists goes with a job that it does not find.
Begin(o, job) ==
    IF made[job].tunedValue # DEFAULT
    THEN [o EXCEPT !.pc = "apply", !.job = job, !.nodes = getNodeList(spec)]
    ELSE [o EXCEPT !.pc = "create", !.job = job]

\* Mutant: a job that is under way takes no turn.
CreateIfNotThere(o, job) ==
    IF Found(job) THEN o ELSE Begin([o EXCEPT !.isNew = TRUE], job)

CreateIfNotExists(o, job) ==
    CASE CheckIfJobDone(job) -> o
      [] ~CheckIfJobDone(job) /\ Found(job) -> [o EXCEPT !.isNew = ~Complete(job)]
      [] OTHER -> Begin([o EXCEPT !.isNew = TRUE], job)

\* The label of one node is replaced; a refusal is logged.
ApplyProfile(n) ==
    /\ op.pc = "apply" /\ n \in op.nodes
    /\ op' = [op EXCEPT !.nodes = @ \ {n}]
    /\ \/ profile' = [profile EXCEPT ![n] = made[op.job].tunedValue]
          /\ UNCHANGED mishaps
       \/ /\ "patch" \notin mishaps
          /\ mishaps' = mishaps \cup {"patch"}
          /\ UNCHANGED profile
    /\ UNCHANGED <<fixed, status, jobs, pods, waiting, completions, restarts,
                   panicked>>

\* The rest of CreateIfNotExists; the nodes are looked at once, and only
\* for the log, after ten seconds.  A refused creation counts as new as well.
CreateJob ==
    /\ op.pc = "create" \/ (op.pc = "apply" /\ op.nodes = {})
    /\ \/ jobs' = Assigned(jobs, op.job, [phase |-> "pending", node |-> None])
          /\ UNCHANGED mishaps
       \/ mishaps' = mishaps \cup {"create"} /\ UNCHANGED jobs
    /\ op' = [op EXCEPT !.pc = IF op.subscribed THEN "watch" ELSE "scan",
                        !.job = None]
    /\ UNCHANGED <<fixed, status, pods, profile, waiting, completions, restarts,
                   panicked>>

-----------------------------------------------------------------------------
(***************************************************************************)
(* CreateFromOperator.                                                     *)
(***************************************************************************)
\* Indexing the first of no combinations panics.
ScanStart ==
    /\ op.pc = "idle" /\ ~panicked
    /\ IF scanned = <<>>
       THEN panicked' = TRUE /\ UNCHANGED op
       ELSE /\ op' = [Idle EXCEPT !.pc = "scan", !.todo = scanned]
            /\ UNCHANGED panicked
    /\ UNCHANGED <<fixed, status, cluster, waiting, completions, restarts, mishaps>>

\* patchBenchmarkStatus, with no other writer.
PatchHash(job) ==
    hashes' = IF \E i \in 1..Len(hashes) : hashes[i].hash = job THEN hashes
              ELSE Append(hashes, HashItem(job))

\* Its turn if no job of this scan counts as new yet, else a place among those
\* that wait, unless it is there.
Deploy(o, job) ==
    IF op.isNew
    THEN /\ waiting' = IF Found(job) THEN waiting ELSE Append(waiting, job)
         /\ op' = o
    ELSE op' = CreateIfNotExists(o, job) /\ UNCHANGED waiting

\* One combination: its hash is listed before its object is made.
ScanJob ==
    /\ op.pc = "scan" /\ op.todo # <<>> /\ ~panicked
    /\ LET job == Head(op.todo)
           o == [op EXCEPT !.todo = Tail(@)]
       IN  /\ PatchHash(job)
           /\ panicked' = (made[job].is = "panic")
           /\ \/ made[job].is = "panic" /\ UNCHANGED <<op, waiting>>
              \/ made[job].is = "error" /\ op' = o /\ UNCHANGED waiting
              \/ made[job].is = "object" /\ Deploy(o, job)
    /\ UNCHANGED <<fixed, results, cluster, completions, restarts, mishaps>>

NewTracker ==
    /\ op.pc = "scan" /\ op.todo = <<>>
    /\ op' = [Idle EXCEPT !.pc = "watch", !.subscribed = TRUE]
    /\ UNCHANGED <<fixed, status, cluster, waiting, completions, restarts,
                   mishaps, panicked>>

-----------------------------------------------------------------------------
(***************************************************************************)
(* ProcessJobQueue.                                                        *)
(***************************************************************************)
\* The job's result, filed under what the status says of its hash.
updateBenchmarkStatus(job) ==
    results' = results \cup
       {[job |-> job, filed |-> GetDetailFromJobName(spec, hashes, job)]}

PodsLeft == SelectSeq(pods, LAMBDA p : ~p.deleted)

\* Only the pod listed first gives a result; if one has succeeded, all of
\* those listed are deleted and the next job's turn has come.
WorkerCollect ==
    /\ op.pc = "watch" /\ completions # <<>>
    /\ LET job == Head(completions)
           listed == GetPodList(AdaptorOf(spec.adaptor), job, PodsLeft)
           valid == \E i \in 1..Len(listed) : listed[i].phase = "Succeeded"
       IN  /\ IF valid /\ listed[1].phase = "Succeeded"
              THEN updateBenchmarkStatus(job)
              ELSE UNCHANGED results
           /\ pods' = IF ~valid THEN pods
                      ELSE [i \in 1..Len(pods) |->
                              [pods[i] EXCEPT !.deleted = @ \/ pods[i] \in Range(listed)]]
           /\ op' = IF ~valid THEN op
                    ELSE IF Selecting(spec)
                         THEN [op EXCEPT !.pc = "unlabel", !.nodes = getNodeList(spec)]
                         ELSE [op EXCEPT !.pc = "next"]
    /\ completions' = Tail(completions)
    /\ UNCHANGED <<fixed, hashes, jobs, profile, waiting, restarts, mishaps,
                   panicked>>

\* The label of one node is removed; a refusal is logged.
DeleteLabel(n) ==
    /\ op.pc = "unlabel" /\ n \in op.nodes
    /\ op' = [op EXCEPT !.nodes = @ \ {n}]
    /\ \/ profile' = [profile EXCEPT ![n] = Unlabelled] /\ UNCHANGED mishaps
       \/ /\ "patch" \notin mishaps
          /\ mishaps' = mishaps \cup {"patch"}
          /\ UNCHANGED profile
    /\ UNCHANGED <<fixed, status, jobs, pods, waiting, completions, restarts,
                   panicked>>

DeployWaitingResource ==
    /\ op.pc = "next" \/ (op.pc = "unlabel" /\ op.nodes = {})
    /\ LET o == [op EXCEPT !.pc = "watch"]
       IN  IF waiting = <<>> THEN op' = o /\ UNCHANGED waiting
           ELSE /\ op' = CreateIfNotExists(o, Head(waiting))
                /\ waiting' = Tail(waiting)
    /\ UNCHANGED <<fixed, status, cluster, completions, restarts, mishaps,
                   panicked>>

\* The operator restarts: the cluster and the status are what is left.
Crash ==
    /\ restarts < MaxRestarts
    /\ restarts' = restarts + 1
    /\ op' = Idle
    /\ waiting' = <<>> /\ completions' = <<>>
    /\ UNCHANGED <<fixed, status, cluster, mishaps, panicked>>

-----------------------------------------------------------------------------
Init ==
    /\ spec \in Specs
    /\ scanned = ScannedJobs(spec, TrackedBuilds[spec])
    /\ \E order \in [Range(scanned) -> Orders(spec)] :
         made = [j \in Range(scanned) |-> Made(spec, j, order[j])]
    /\ hashes = <<>> /\ results = {}
    /\ jobs = <<>> /\ pods = <<>>
    /\ profile = [n \in Nodes |-> Unlabelled]
    /\ op = Idle
    /\ waiting = <<>> /\ completions = <<>>
    /\ restarts = 0 /\ mishaps = {}
    /\ panicked = FALSE

Operator ==
    \/ ScanStart \/ ScanJob \/ NewTracker
    \/ \E n \in Nodes : ApplyProfile(n) \/ DeleteLabel(n)
    \/ CreateJob
    \/ WorkerCollect \/ DeployWaitingResource

JobRuns(job) == JobStarts(job) \/ JobSucceeds(job)

Next == \/ ~panicked /\ (Operator \/ Crash)
        \/ \E job \in DOMAIN jobs : JobRuns(job) \/ JobFails(job)

Spec == Init /\ [][Next]_vars

\* The goroutines run on; a job whose node is there runs and ends.
FairSpec == /\ Spec
            /\ WF_vars(~panicked /\ Operator)
            /\ WF_vars(\E job \in DOMAIN jobs : JobRuns(job))

-----------------------------------------------------------------------------
MeantOf == [s \in Specs |-> JobsMeant(s, TrackedBuilds[s])]
Meant == MeantOf[spec]

\* Type correctness: only jobs of the benchmark are created, listed, queued
\* and deleted with their pods, and each waits at most once.
TypeOK ==
    /\ spec \in Specs /\ Range(scanned) \subseteq Meant
    /\ \A i \in 1..Len(hashes) : hashes[i].hash \in Meant
    /\ \A r \in results : r.job \in DOMAIN jobs
    /\ DOMAIN jobs \subseteq Meant
    /\ \A j \in DOMAIN jobs : /\ jobs[j].phase \in Phases
                              /\ jobs[j].node \in Nodes \cup {None}
    /\ Range(completions) \cup Range(waiting) \cup Range(op.todo) \subseteq Meant
    /\ IsInjective(waiting) /\ IsInjective(completions) /\ IsInjective(op.todo)
    /\ \A i \in 1..Len(pods) : pods[i].job \in DOMAIN jobs
    /\ DOMAIN profile = Nodes
    /\ op.pc \in {"idle", "scan", "apply", "create", "watch", "unlabel", "next"}
    /\ op.nodes \subseteq Nodes /\ op.job \in Meant \cup {None}
    /\ restarts \in 0..MaxRestarts
    /\ mishaps \subseteq {"patch", "job", "pod", "early", "create"}
    /\ panicked \in BOOLEAN

\* The labels of the selector have dots.
Dotted(s) == Selecting(s) => \A l \in DOMAIN Selection(s).selector : Len(l) >= 2

\* A benchmark that the scan cannot go through: there is no first combination,
\* or no object for it, or there may be nothing to write node labels into.
MayPanic(s) ==
    \/ IterationLabels(s) = <<>>
    \/ IterationLabels(s)[1] \in s.fails
    \/ Selecting(s) /\ (~Dotted(s) \/ s.undecoded # {})

\* A job of a named profile runs on a node labelled with it as long as it
\* runs, whatever fails and whenever the operator restarts; and unless a node
\* could not be patched, a job without one runs on no node that carries a
\* named profile (CreateIfNotExists and ProcessJobQueue label the nodes); for
\* selectors whose labels have dots.
RunsUnderItsProfile ==
    Dotted(spec) => \A j \in DOMAIN jobs :
       jobs[j].phase = "running" /\ PROFILE \in DOMAIN j.label =>
          IF j.label[PROFILE] # DEFAULT
          THEN profile[jobs[j].node] = j.label[PROFILE]
          ELSE \/ "patch" \in mishaps
               \/ profile[jobs[j].node] \in {Unlabelled, NULL_VALUE_STR}

\* The object of each job created asks for the node labels of the selector
\* and of the job's profile, and for what the template asked, and for no
\* more, if the selector's labels have dots; and no other benchmark than one
\* that the scan cannot go through panics (GetBenchmarkWithIteration's updates
\* of one object).
AsksForItsNodes ==
    /\ panicked => MayPanic(spec)
    /\ Selecting(spec) /\ Dotted(spec) => \A j \in DOMAIN jobs :
         LET base == AskedOf(spec, Rendered(spec, j.label))
             selector == Selection(spec).selector
             own == IF j.label[PROFILE] = DEFAULT THEN {} ELSE {<<PROFILE>>}
         IN  made[j].asked =
               [l \in own \cup DOMAIN selector \cup DOMAIN base |->
                  IF l \in own THEN Scalar(j.label[PROFILE])
                  ELSE IF l \in DOMAIN selector THEN Scalar(selector[l])
                  ELSE base[l]]

\* Each job that selects nodes asks for the selector's labels, with dots or
\* without, as iteration/README.md:26-29 has them.  Does not hold: a quotation
\* of one part is not closed (getToken), so that the value of the label takes
\* the place of the node selector.
SelectorIsAsked ==
    Selecting(spec) => \A j \in DOMAIN jobs :
       LET selector == Selection(spec).selector
       IN  \A l \in DOMAIN selector :
             /\ l \in DOMAIN made[j].asked
             /\ made[j].asked[l] = Scalar(selector[l])

\* Results are filed so that repetitions of a combination fall together and
\* nothing else does: for the averages of updateBenchmarkStatus, which takes
\* build, scenario and configuration from GetDetailFromJobName.
FiledWithItsRepetitions ==
    \A r, s \in results :
       LET place(x) == <<x.filed.build, x.filed.iteration, x.filed.configuration>>
       IN  /\ place(r) = place(s) <=> (r.job.label = s.job.label
                                        /\ r.job.build = s.job.build)
           /\ r # s /\ place(r) = place(s) =>
                r.filed.repetition # s.filed.repetition

\* If nothing fails, every choice of values that the template can be executed
\* for, with every build and repetition, is measured (iteration/README.md:38).
EveryCombinationMeasured ==
    <>(\/ MayPanic(spec) \/ mishaps # {} \/ restarts # 0
       \/ {r.job : r \in results} = {j \in Meant : j.label \notin spec.fails})
=============================================================================
