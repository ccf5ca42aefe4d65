# Verification of the CPE operator

TLA+ models of the CPE operator: what it promises of the jobs of a benchmark, how its
goroutines keep that promise, TLC runs on small instances and TLAPS proofs for all
instances. Line numbers are those of the repository's `src/`.

## The system

The operator runs benchmark jobs in a Kubernetes cluster. A `Benchmark` resource names a
job operator (`BenchmarkOperator`), a job template and the values to iterate over; every
combination, build and repetition becomes one job. Completed jobs are reported by
informers; their logs are stored, parsed by a separate service, and summarised in the
benchmark's status.

| Component | State it keeps | Operations | Talks to |
|---|---|---|---|
| Benchmark reconciler (`controllers/benchmark_controller.go`, `common.go`) | none; the finalizer and status of the resource | scan all combinations, create or leave waiting; finalize | API server, job trackers, optimizers |
| Job tracker, one per kind of job (`job_tracker.go`) | `Subscribers`, `WaitingJobMap`, `DRMap`, `JobOptMap`, `BestPodNameMap`, `JobQueue` | `Subscribe`, `Unsubscribe`, the informer's `UpdateFunc`, the worker's `ProcessJobQueue` and `deployWaitingResource` | reconciler (shared maps), informer (channel), optimizers (channels), status |
| Best results (`updateBenchmarkStatus`) | `Status.Results`, `Status.BestResults` | one update per collected job | status of the benchmark |
| Auto-tuner (`bayesopt.go`) | an optimizer per auto-tuned job, `SampleQueue`, `ResultQueue`, finalized flags | run rounds (propose a profile, take a value), finalize | the scan and the worker, by channels |
| Tuned handler (`tuned.go`) | node labels, the `auto-tuned` profile | apply, delete | API server |
| Iteration handler (`iteration.go`) | none | enumerate combinations, substitute values | reconciler |
| Build watcher (`build_watcher.go`) | `BuildQueue` | append a build to `Status.TrackedBuilds` | status of the benchmark |
| Operator adaptors (`operator_adaptor.go`) | none | is a job complete, its pods and logs | tracker |
| BenchmarkOperator reconciler (`benchmarkoperator_controller.go`) | finalizer, installed releases and manifests, role bindings | install, uninstall | helm, API server |
| Result collector (`collector.go`) | one gauge | rebuild at each scrape | status of the benchmarks |
| Parser service (`cpe-parser/`) | none | fetch a log, parse, push, answer | object store, push gateway |

What makes it hard: jobs of one benchmark are created from two goroutines that share maps
without a lock; the only thing that keeps the chain of waiting jobs going is a completion
event of the job before; the operator's memory is lost in a restart while the jobs go on;
lookups, creations, status updates and the parser service fail, and most failures are only
logged; optimizer and worker wait for each other in two channels that one of them closes.

## Modules

| Module | Models | Runs |
|---|---|---|
| `JobPipeline` | reconciler's scan, Subscribe, informer, queue and worker, cluster, restarts | `MCPipeline*.cfg` |
| `BenchmarkRuns` | what the pipeline promises: each job once, sequential ones one at a time and in order | refinement in `MCPipelineFaultFree.cfg` |
| `JobPipelineProofs` | theorems about `JobPipeline` | tlapm |
| `TrackerLifecycle` | benchmarks created, subscribed, finalized and created again; trackers started and ended; their goroutines | `MCLifecycle.cfg` |
| `TrackerLifecycleProofs` | theorems about `TrackerLifecycle` | tlapm |
| `JobDeployment` | from a benchmark to its jobs on the nodes: hashes, node labels, pods, the filing of results, restarts | `MCDeploy.cfg` |
| `Combinations`, `SpecObject`, `OperatorAdaptors`, `Maps` | what `JobDeployment` is built from: the enumeration of combinations, values at a location of a nested object, completion and pods for each kind of job, assignments to maps | in `MCDeploy.cfg` |
| `JobDeploymentProofs` | theorems about `JobDeployment` and the operators it is built from | tlapm |
| `BenchmarkOperator` | installing and removing job operators, request by request | `MCOperators.cfg` |
| `BenchmarkOperatorProofs` | theorems about `BenchmarkOperator` | tlapm |
| `AutoTune` | optimizers, their channels, `CreateIfNotExists`, the worker's handling of results | `MCTune*.cfg` |
| `AutoTuneProofs` | theorems about `AutoTune` | tlapm |
| `SearchSpace` | the parameters of auto-tuning: their files, the numbers proposed, the profiles made of them | `MCSpace*.cfg` |
| `SearchSpaceProofs` | theorems about `SearchSpace` | tlapm |
| `BestResult` | `updateBenchmarkStatus`: results, averages, best results | `MCBest*.cfg` |
| `BenchmarkStatus` | the status and its three writers: scan, worker, build watcher | `MCStatus*.cfg` |
| `BenchmarkStatusProofs` | theorems about `BenchmarkStatus` | tlapm |
| `ResultCollector` | the gauge of results and the scrapes that rebuild it | `MCCollector*.cfg` |
| `ResultProofs` | theorems about `BestResult` and `ResultCollector` | tlapm |
| `MC...` | constants of the runs | |

Each module takes one concern of the reconciler and the tracker apart and makes the others
coarse: `JobPipeline` the interleaving of scan and worker, `TrackerLifecycle` the coming
and going of benchmarks, `JobDeployment` the contents of jobs and labels, `AutoTune` the
optimizer's channels and `SearchSpace` its numbers, `BenchmarkStatus` the stale copies of
the status, `BestResult` its numbers, `ResultCollector` what is shown of them.

### JobPipeline

One group-version-kind, so one tracker, with any number of benchmarks. `scan` is the
reconciler's only worker inside `CreateFromOperator` (common.go:516-642): `first` while no
job has counted as new, `rest` afterwards, then the three parts of `Subscribe` (`waiting`,
`dr`, `opt`), which are separate steps because nothing locks the maps against the tracker's
worker. `Eager` is the set of jobs created without waiting for a turn (common.go:622-627);
a benchmark without any is sequential. `worker` is the goroutine of `Run`: take a
completion, collect it, read `DRMap`, pop the next waiting job, create it
(job_tracker.go:178-380). `pending` are updates that the informer has not delivered;
`UpdateFunc` blocks while `jobQueue` is full. `early` is a history: the benchmarks with a
completion that the informer saw before their subscription was complete, that is before or
between the stores of Subscribe (the fault `fast`).

`Faults` switches what may go wrong, one kind per name; a run says which it allows. A
failed lookup is taken for an absent job, as every caller does; a refused creation is only
logged; a restart keeps `jobs` and `results` and resets the rest. A goroutine that panics
takes the process with it and ends the behaviour (`panicked`).

Abstracted: job objects (a name is one place in one benchmark's scan, and names are used
once), logs and their contents, the job interval (the worker may always pause). Assumed:
the worker's copy of the results contains what it has itself recorded; a job is not cleaned
up while its completion is on the way (time-to-live longer than the processing). Go's
"concurrent map" abort is not modelled: the maps behave as if each access were atomic.

### TrackerLifecycle

One kind of job. `res` and `lives` follow each Benchmark resource through creation, its
finalizer, deletion and the next creation; `finalizer` is the reconciler inside
`finalizeBenchmark` (benchmark_controller.go:147-176), which unsubscribes, deletes the jobs
and lets the resource go in three steps, or does only the last when the operator cannot be
read. `registered` is the tracker in `m.JobTrackers`; `quit` are those whose `Quit` is
closed. Every tracker that was ever started keeps its maps, its queue and its two
goroutines, because `Run` looks at `Quit` only between two jobs (job_tracker.go:153-156) and
is deaf to it while it waits for one. The worker reads `DRMap` (`WorkerTake`), pauses for the
job interval, looks whether there is a list (`WorkerLooks`, 206), reads head and tail of it
(`WorkerReads`, 208), stores the tail (`WorkerStores`, 208), creates the job (`WorkerCreate`,
212) and drops the key of an empty list with the interface (`WorkerTidies`, 216-219), or only
the interface if there was no list (`WorkerForgets`, 221). Nothing locks the maps, so
Unsubscribe may come between any two of these: the worker may read a list that is gone and
panic, put one back for a benchmark that has left, or create a job of it.

Made coarse: the scan with Subscribe is one step, and so are the lookup of a benchmark, the
recording of a result and the read of `DRMap`; the worker's two reads of the list are one step,
and so are a store or a lookup and the statement on the maps right after it (180 with 183, 208
with 211, 216 with 219): an Unsubscribe between the two makes no difference, and one followed
there by a new subscription of the same name is left out; benchmarks are sequential and not
auto-tuned; jobs do not fail, deletions are accepted, the operator does not restart.
`BenchmarkOf` gives the benchmark of a job by the job, where the code builds it from names:
hence `UniqueNames` is a premise of the properties about what a benchmark gets. The finalization
when the job's interface cannot be built, and the end of all trackers at the process's exit, are
left out.

### JobDeployment

One benchmark that runs its jobs one at a time, from any of the `Specs`, each with an
adaptor. `Combinations` enumerates its labels, builds and repetitions as
`GetIteratedValues` and `nextCombination` do, and turns a hash back into the keys a result
is filed by (`GetDetailFromJobName`). `SpecObject` is iteration.go's walk through a nested
object: a location is a sequence of parts, each a key, an index into a list or a condition
on a list's elements, and a value is put there, with maps made on the way, or read.
`OperatorAdaptors` says for each of the four adaptors when a status is complete and which
pods are a job's. `scanned` and `made` are computed from `spec` at the start and never
change: they hold what the enumeration and `GetBenchmarkWithIteration` return. Pods that are
deleted stay in `pods`, marked, and are listed no more. Go's recursion through keys and items is
written as functions on positions (`Tokenized`, `Visited`, `Descent`, `Rebuilt`, `Layers`).

`SpecsAssumption` is what a user has to write for the code to do what it says:

- it runs its jobs one at a time, because it is sequential or selects nodes;
- items have different names, none of them `profile`, and an item's values differ; only the last
  item may have none, because `nextCombination` starts from nothing when the list before it is
  empty (iteration.go:274), and so drops the items before;
- no value is `nil`, which `UpdateValue` takes for none (iteration.go:251);
- the selection's location leaves no quotation open and leads through the template's maps and
  lists of maps to a map of labels, or by plain names to nothing; the map has scalars only and no
  `profile`. Otherwise the code panics or overwrites what the template says.

Three kinds of benchmark that break on the way are in the model: a selector's label may lack a
dot, and `getToken` does not look for the end of a quotation in the part that opens it
(iteration.go:230-234); a template may fail for some combinations (`fails`: the first panics at
common.go:553, the others are listed and passed over, 588), or give no object (`undecoded`: the
error of 373 is ignored). The selector is a Go map, so each job's labels are written in an order
of its own (`Orders`), drawn at the start.

`op` is the one goroutine at work: the scan (`ScanJob`, `ApplyProfile` for one node after the
other, `CreateJob`), then the worker (`WorkerCollect`, `DeleteLabel` for one node after the
other, `DeployWaitingResource`). The cluster starts a job on a node that has the labels it
asks for, and ends it; a `pod` mishap makes the first pod of a job a failed one, an `early`
one is a job that ends before the benchmark has subscribed. A restart leaves jobs, pods,
labels and status.

Left out: collisions of the 32-bit hash, composite locations, the conversion of a value to
the type of the one it replaces, selectors with match expressions, the check (logged only)
whether tuned has applied a profile, builds tracked later, statuses that a job's controller
has not written yet, other benchmarks on the same nodes. A cluster without a tuned handler
puts no label anywhere. Writes of the status succeed (`BenchmarkStatus` has their failures);
a creation may be refused (`create`), and counts as new all the same.

### BenchmarkOperator

Any number of BenchmarkOperator resources, in their namespaces, whose cluster-wide role and
binding are named after the resource's name alone, and which may share definitions,
manifests and a release. `rec` is the reconciler, one request to the cluster at a time:
definitions, role, binding and deployment (benchmarkoperator_controller.go:128-226), or
deployment, role, binding and finalizer (105-119, 341-361). It holds the copy of the
deployment's kind and the groups for which the role gets rules. `MayFail` is an error that
is logged, or not even that. `excused` are operators whose kind was edited, or whose removal
passed over an error: what they leave is theirs. Edits change the kind of deployment only.
A missing interface for a definition makes the code panic, which is a `Crash` here. The
operator `none` that main.go creates is a resource of kind none.

### AutoTune

One benchmark that selects nodes, so one job at a time. `opt` holds each job's optimizer:
`tune` with the rounds begun (`round`) and those that await a value (`awaiting`), then `settled`,
`sampleClosed` and `closed`, because `Finalize` sets its flag before it closes two channels
(bayesopt.go:401-407). `thread` is whoever runs
`CreateIfNotExists`: the scan, then the worker, which the other module shows may overlap
only if a job completes during the scan. `fault` is the one kind of thing that goes wrong in
a behaviour, or none: a property that a kind of failure may break says which kinds it
excludes, and the others hold under each of them. `profile` is the profile a job's object was last
created under, a number for each round, and `measured` is a history of what was measured
under which. The Bayesian optimizer is a library that is handed a function for a round
(bayesopt.go:377-394) and 5 random rounds (328): here any profile may be proposed, any number of
random rounds may be under way at once, also with the first round of exploration, and the rounds
of exploration come one after another (`Begins`). Whichever round that awaits a value receives
one takes it (`Receive`), for the channels keep an order and nothing else; `submitted` is the
history of the profiles sent that have had no value received yet. The best one logged wins;
when `Optimize` returns an error the final profile is the empty one (`OptimizeFails`, 395-397).
`SearchSpace` shows how far the final profile may be from a measured one.

### SearchSpace

`dir` is the directory of parameter files, read one after the other at the start
(`GetSearchSpaceConfig`, bayesopt.go:248-278); what has been read when an error ends the
reading stays. A file gives the type and kind of its parameters by its name and one of them
in each line. A round of the optimizer asks for a number for each parameter: one that
`Sample` may give, then any of `Explored`. `Evaluate` is the function that is handed to the
library (377-394): out of a range it is worth `Refused`, else it is rounded (`Validate`),
converted and measured. `Settle` converts the best one logged, as it was asked for;
`OptimizeFails` converts the empty map that stands for an error (395-397), at any time after the
random rounds, and the final profile has no parameter. Numbers
are counted in halves, so that rounding has something to drop; `Trunc` is Go's `int()`.
A panic of `rand.Intn` or of an index out of the set's array ends the behaviour.

Left out: the texts of values, numbers that cannot be parsed (a line with too few of them
stands for a bad one), steps of zero (the files are the operator's own; the assumption says
so), unreadable files. Two parameters with one name overwrite each other in a profile; the
properties about values are stated for names that are `Alone`.

### BestResult

Jobs of two or more configurations complete in any order. Averages are compared as
fractions, so the rounding to six decimals in the status is left out.

### BenchmarkStatus

One benchmark and whoever writes its status. The manager hands out copies from a cache that
lags behind the API server (`CacheSync`); a writer changes its copy and replaces the whole
status, and the server takes it only if no one has written since the copy was made
(`Accepts`, `Update`). No writer tries again. The scan keeps one copy for all its hashes
(`ScanJob`: patchBenchmarkStatus, common.go:302-316), so that an accepted write brings its
copy up to date and a refused one leaves it behind for the rest of the scan. The worker
takes its copy before it fetches and parses the logs and writes after
(job_tracker.go:236-478). The build watcher does the same for a build
(build_watcher.go:80-167). A result is filed under the scenario and build found by the job's
hash in the worker's copy, or under empty ones (`GetDetailFromJobName`).

`Labels` are the benchmark's combinations, each run once for each build, in parallel;
creations and lookups succeed, because `JobPipeline` has the faults. `Shared` says whether
another benchmark has started the tracker's informer, so that jobs can complete before this
one has subscribed. A build is reported once. Values, averages and best results are left to
`BestResult`.

### ResultCollector

The metrics registry calls `Collect` (collector.go:172-198) for each scrape, and for two at a
time when they overlap: they share one gauge. `scrape` is where each is between listing
the benchmarks, the reset, filling item by item and sending. `Unmarshal` is what JSON makes of
a parser's values, which decides the branch of `updateGaugeVec` that is taken. `seen` and
`alone` are histories of who overlapped whom. A list that cannot be read is empty. `RecordResult`
and `DeleteBenchmark` stand for everyone else. Two benchmarks of one name in two namespaces
share their series, as in the code, where the namespace is no label.

Each item is set in one step, and the gauge is sent in one: the library locks each access to a
series, and the finer interleavings only mix the same values. Statistics and the wording of
labels are left out.

## Runs

| Run | Question | Bounds |
|---|---|---|
| `fault_free` | do scan, Subscribe and worker lose or duplicate jobs; is every result recorded; does the pipeline implement `BenchmarkRuns` | a sequential benchmark of 3 jobs and a parallel one of 2 labels and 2 repetitions; queue of 1, so that the informer blocks |
| `restart` | is a recorded job ever run again, do two jobs of a benchmark run, does a goroutine panic, across restarts | sequential benchmarks of 3 jobs and of 1, 2 restarts, failing jobs, lookups, creations and collections, clean-up of recorded jobs, completions before and between Subscribe's stores |
| `lost_completion` | **violated**: is every job created | a job may complete before it is tracked |
| `lifecycle` | do trackers follow their subscribers; what is left of a deleted benchmark; do two jobs of a benchmark run; is a benchmark that stays finished | a benchmark of 2 jobs with 2 lives, either of which may end without operator, one of 1 job with 1 life, 3 trackers |
| `deploy` | does every combination get its job, with its nodes, under its profile, and its result filed with its repetitions | 8 benchmarks, 4 of which the code makes nothing good of; 4 adaptors, 2 nodes, each kind of failure once, refused creations, 2 restarts |
| `operators` | is what a deleted operator had installed gone, does its role cover its groups, is one that stays installed in the end | 2 operators, all kinds, one name or two, shared definition, manifest and release, 1 life each, 1 mishap |
| `tune` | the handshake of optimizer and worker, the pairing of values and profiles, its outcome and its liveness | two tuned jobs and one other, a random round and one of exploration that may be under way together, 2 values, one kind of failure or none |
| `space` | does a profile give every name one value for the right plugin, of its set or step; is the final profile near a measured one; what panics | 7 directories, 1 random round and 1 of exploration, which may fail, over 11 numbers |
| `collector` | does a scrape show what it listed, all of it and nothing else, also when two overlap | 3 benchmarks, two with one name, 4 items, 2 scrapes |
| `best` | is the best result at least as good as each average, made of its own configuration's runs, and only improved | 2 configurations, 3 runs each, 3 values, parser errors, minimize |
| `status` | do three writers on stale copies lose what is listed, file a result wrongly or show a wrong count | 2 combinations, 1 build, 2 restarts, informer shared |
| `status_lost` | **violated**: does every collected job have its result in the status | 2 jobs, no restart |

Three jobs are enough for the pipeline: one running, one that is being deployed and one left to
lose or overtake; a second benchmark competes for the queue and the worker. The queue's capacity
of 100 becomes 1, since only a full queue differs from an unbounded one. The second life of a
benchmark meets the worker of the first; the third tracker may start while the goroutines of two
ended ones are still there. The benchmarks of `deploy` differ in what the code branches on:
configurations, node selection, builds, repetitions, a location that ends in a map, goes through
an index or a condition, a selector's label with dots or without, an item without a value, a
template that fails for the first combination, for another, or that gives no object. One mishap
is enough for `operators`, where each request is followed by those it may spoil; `NothingStays`
is proved for any number. The 105 rounds of an optimizer become 2, a first and a last one, or a
random and an explored one: the invariants of `SearchSpace` relate one round to the end. The
numbers explored fall inside, outside, on and between the steps and the ends of every range. In
the status, two combinations let a write of the scan be refused and the next one follow it; the
build, with the initial one's jobs, makes four jobs and brings in the third writer; two restarts
let a third scan begin on what the second has left. `CHECK_DEADLOCK` is off where a benchmark
that has run all its jobs, or a process that has panicked, stops.

Fairness: the reconciler, the informers and the workers are goroutines, so weak fairness of
each; a job that runs ends some time, so weak fairness of each completion, or of the cluster
as a whole where the jobs are finitely many. In `BenchmarkOperator` the worker takes one
resource at a time and each again and again (changes, errors, the manager's resync), so
`Take` is strongly fair for each. No fairness is assumed of failures, restarts, clean-ups or
users.

### What the violated runs show

- `lost_completion`: the informer handles updates only (job_tracker.go:496-516). A first job
  that completes before the informer has listed it, or before Subscribe has stored its
  optimizer, deploys nothing, and the jobs waiting behind it are never created.
- `status_lost`: a result that is recorded from a copy that has been overtaken, by the
  previous result or by a build, is refused; that is only logged (job_tracker.go:472-476),
  and the pods with the logs are deleted.

### More disagreements

Six properties are defined but part of no run of the project's list. TLC finds each violated
under the configuration beside it:

- `TuningActivated` of `AutoTune` (`MCTuneAlone.cfg`): a benchmark whose only job is
  auto-tuned is run once, because `Subscribe` stores optimizers only if some job waits
  (job_tracker.go:554); iteration/README.md:89 says that `auto-tuned` "will activate node
  auto-tuning mechanism".
- `RoundsGetTheirResults` of `AutoTune` (`MCTunePaired.cfg`): each round sends its profile and, as
  bayesopt.go:385 says, is to "wait for result to return", but rounds under way together share one
  channel of results, and any of them may take the value of another's profile. Once a result is not
  sent, as under `nosend`, every later value goes to a round before its own.
- `SelectorIsAsked` of `JobDeployment` (`MCDeployUndotted.cfg`): iteration/README.md:26-29 takes any
  `label-key` in `matchLabels`; one without a dot is lost with the quotation that is never closed
  (iteration.go:230-234), and its value is written over the node selector itself.
- `BestIsBestAverage` of `BestResult` (`MCBestDocumented.cfg`): a best result is replaced by a
  better average only, also when the worse one is of the same configuration
  (job_tracker.go:453-468); iteration/README.md:86 says that with more than one repetition "the
  average value of all runs will be used".
- `IntegersInRange` of `SearchSpace` (`MCSpaceRange.cfg`): a value is rounded to a multiple of
  the step, not to one counted from the minimum (bayesopt.go:109), after its range has been
  checked, so that `netdev_max_backlog=1000,250000,2000` of config/tuned/nw_ss.yaml:19 may
  become 0, below its minimum.
- `EveryKeyShown` of `ResultCollector` (`MCCollectorLabels.cfg`): labelled values, which
  cpe-parser/README.md:80 lists among those that a parser may return, come out of
  `json.Unmarshal` as maps, for which `updateGaugeVec` has no branch (collector.go:127-166).

### What the bounds of the passing runs leave out

- `restart` has early completions, and its properties name what they spoil. `NoPanic` lets the
  worker panic for a benchmark one of whose own jobs completed early, and there it does: it reads
  `DRMap` (job_tracker.go:180) before Subscribe stores it (556) and `JobOptMap` (183) after (557),
  and uses the nil interface; after a restart it also indexes an empty list under a live key.
  `SequentialExclusion` and `RecordedJobsStay` leave out a benchmark that is `Overtaken`, one with
  an early completion after a restart: a job that completes during the second scan is done for
  the scan, which starts the next one, and is reported by the tracker of another benchmark, whose
  worker starts one more. Jobs are cleaned up only after their results are recorded; with
  `"cleanup"` in `Faults` `SequentialExclusion` does not hold.
- `tune` states `AllResultsRecorded` and `RecordedRight` without the kinds of failure that lose
  a round (`Harmless`), and `ResultsOfSamples` without results that are not sent. It starts with
  no tuned job running (`Running = {}`). With one that the process before has left,
  `ResultsOfSamples` does not hold: its value is taken for the first profile's.
- `lifecycle` states `OrphansBounded` with one job for each life, not none: what a worker has
  popped before the finalizer unsubscribes is created after the finalizer has deleted the
  jobs, and stays. `SequentialUnlessRecreated` excludes re-created benchmarks for the same
  reason.
- `deploy` states `RunsUnderItsProfile` and the node labels of `AsksForItsNodes` for selectors
  whose labels have dots (see `SelectorIsAsked`), and `EveryCombinationMeasured` without
  failures; a job that fails, or whose first pod did, hands its turn to nobody.

## Proofs

Each theorem holds for every value of the constants that satisfies the module's assumption.
A theorem about a system with faults has a premise that names the kinds of fault it leaves
out, and says below what breaks without it, or that it is left to TLC.

`JobPipelineProofs` proves, for all benchmarks, jobs, queue sizes and numbers of restarts that
satisfy `JobsAssumption` and `BoundsAssumption`, with the faults that are left:

- `TypeCorrect`: `Spec => []TypeOK`, so the queue never exceeds its capacity, under all faults;
- `RecordedJobsAreKept`: `Spec => RecordedJobsStay`, an action property, under all faults. It leaves
  out benchmarks that are `Overtaken`: after a restart the worker may record an early result that
  a scan under way has not read, and the scan runs the job again;
- `Exclusion`: `Spec => []SequentialExclusion`, either without restarts or without early
  completions and early clean-ups (`SafeTurns`; see the bounds of `restart` above). That restarts
  and early completions of other benchmarks do no harm is model-checked only;
- `WaitingStaysAbsent`: `Spec => []WaitingIsAbsent`. Early completions, refused creations and
  early clean-ups leave a job that neither exists nor waits; a failed lookup in the scan after a
  restart lists a job that exists (`NoneLost`);
- `WorkerNeverPanics`: `Spec => []NoPanic`, so that a benchmark none of whose own jobs completed
  early never makes the worker panic, whatever early completions others have. Under `PanicPremise`
  lookups do not fail after a restart, unless all benchmarks are sequential, no completion is early
  and nothing is cleaned up early: a failed lookup lists a job that exists, its completion drops
  its optimizer, so that the worker that pops it later returns and leaves the key of the list it
  has emptied, and the next completion of the benchmark makes it index that list;
- `ChainStaysAlive`: `Spec => []ChainAlive`, when nothing that ends a chain happens
  (`LivePremise`: no refused creations, failed jobs, missing pods, ...);
- `PipelineImplementsRuns`: `Spec => Runs!Spec` under `NoneLost`, the refinement of
  `BenchmarkRuns`, whose specification has no fairness: what the pipeline does is what is
  promised, also through restarts, failed jobs and failed collections.

None of these is inductive. The invariant comes in layers, each used by the next. `BaseInv`: the
types, a job is in one place of the pipeline only, and lists are in the order of the scan.
`RecInv`: what a scan knows to be done covers what is recorded. `TurnInv` says who may hold the
turn of a sequential benchmark: at most one of a running job, a completion on its way to the
worker or the worker's own processing of it, and nobody while the scan is in `first`, so that
scan and worker never both create; across restarts it also says that what has started is a
prefix of the scan's order (`StartedInOrder`), which is why a second scan finds the same job
next. `WaitInv`: what is listed is absent, has its optimizer, and nothing scanned is forgotten.
`KeyInv` relates the keys of the three maps that `Subscribe` fills one after the other, and says
of each benchmark not in `early` that its completions come when all three are filled and that
the interface the worker has read is not nil; `PanicInv` adds that an empty list under the live
key of such a benchmark is never used, `ChainInv` that a list has a turn that will serve it.
Each layer has one lemma per action or per changed variable; the refinement follows from
`WaitInv` and a lemma that says how a step changes the phase of a job (`PhaseChanges`).

`AutoTuneProofs` proves, for all jobs, tuned or not, values, profiles, rounds and kinds of
fault that satisfy `TuneAssumption`:

- `TypeCorrect`: `Spec => []TypeOK`;
- `NoPanics`: `Spec => []NoPanic`;
- `SamplesMeasured`: `Spec => []ResultsOfSamples`, so the n-th result is of the n-th profile sent,
  unless a result was not sent;
- `RoundsAccounted`: `Spec => []RoundsBalance`, if there is more than one job: a benchmark of
  one stores no optimizer, so its rounds wait for ever (see `TuningActivated` above);
- `RecordedBest`: `Spec => []RecordedIsBest`, and `RecordedRight` if there is more than one job;
- `NotInterrupted`: `Spec => TuningNotInterrupted`, an action property.

Their premise `FirstRuns` is about the job that the process before has left running: it is the
first of the scan, and not tuned. A tuned one breaks `ResultsOfSamples` (see `tune` above); one
further on in the scan shares its turn with the first. The invariant `IInv` follows the one
turn of the benchmark (`TurnOK`) through cluster, queue and thread. However many rounds of an
optimizer await a value, only one of them can be in somebody's hands (`Held`): the job runs under
it, its completion is queued, or the thread has it. `RoundsOK` says that the profiles sent are, in
their order, those of the results in `ResultQueue`, that of the round held, and those still in
`SampleQueue` (`Whole`), or else that a round was lost and the job is never run again (`Over`). So
the n-th result is of the n-th profile, although the two channels only keep an order; which round
takes it is left open. `BestsOK` keeps the best of all that was measured in the maps or in the
status, `FinalsOK` the final profile in force: the best one logged after the last round, or the
empty one of an optimizer that failed.

`ResultProofs` proves, of `BestResult`, for all scenarios, configurations, values and
repetitions that satisfy `BestAssumption`, with or without parser errors:

- `BestResultIsRight`: `Spec => []BestIsRight`;
- `BestResultOnlyImproves`: `Spec => BestOnlyImproves`, an action property.

`BestIsRight` is inductive: an update compares with one entry only, and betterness of fractions
is transitive (`BeatsTransitive`, by cross-multiplication). The sum of the runs is a fold, so
the proof first has to show that it is an integer, and what it is once a run is added. The
library's induction theorems take a predicate as a parameter and cannot be used; here induction
is stated on sets (`AllNaturals`, from the well-foundedness of `<` on `Nat`).

`BenchmarkStatusProofs` proves, for all combinations, builds and numbers of restarts that
satisfy `StatusAssumption`, with or without another benchmark on the tracker:

- `TypeCorrect`: `Spec => []TypeOK`, so no job is queued twice;
- `ResultsAreListed`: `Spec => []FiledIsListed`;
- `CountAgrees`: `Spec => []CompletedAgrees`;
- `NothingIsForgotten`: `Spec => NothingForgotten`, an action property.

They rest on one inductive invariant, `IInv`. Its heart is `CopiesFresh`: every copy in the
cache or in a writer's hands is of an earlier version of the status or is the status itself
(`FreshIn`), so a copy that the server accepts has everything the status has. `UpdateStep`
states what a write does, whoever makes it; `PatchExtends`, `RecordedExtends` and
`BuildExtends` state what each writer adds to its copy. The worker's case also needs that
the job it holds has no result yet, whatever its copy says: `QueuedComplete` and
`RecordedCollected`.

`BenchmarkOperatorProofs` proves, for all operators, names, definitions, manifests and
releases that satisfy `OperatorsAssumption`, shared in any way, and any number of lives and
mishaps:

- `TypeCorrect`: `Spec => []TypeOK`;
- `NothingStays`: `Spec => []NothingLeftBehind`;
- `RoleCovers`: `Spec => []RoleCoversGroups`.

`NothingLeftBehind` lets a resource without a finalizer account for what is in the cluster,
which such a resource never has installed; `HeldInv` strengthens it to those that have the
finalizer (`Held`), and adds what each stage of a removal has taken away (`Uninstalled`), so
that the last step may remove the resource. The theorem makes the order of the requests
matter: deployment, role, binding, then finalizer. `RoleInv` follows the rules from the
definitions to the role, the role to the binding, and back.

`TrackerLifecycleProofs` proves, for all benchmarks, names they may share, jobs, lives and
trackers that satisfy `LivesAssumption`:

- `TypeCorrect`: `Spec => []TypeOK`;
- `TrackerFollows`: `Spec => []TrackerFollowsSubscribers`;
- `OrphansAreFew`: `Spec => []OrphansBounded`;
- `FirstLifeSequential`: `Spec => []SequentialUnlessRecreated`.

What the scan leaves in a waiting list is a fold over the jobs; that it is defined, and a
sequence of jobs, is by induction on sets, and `InHand` says that a worker that is not waiting has
a job in hand, and the next one once it has read the list. A list may be under a name that no one
subscribes for, put back by a worker that had read it, so `FollowInv` speaks of the interface
instead: where `DRMap` has a name there is a subscriber and a list for Unsubscribe to find, unless
the worker is about to drop it (`DrOK`). It adds to `TrackerFollowsSubscribers` that the benchmark
inside the finalizer has unsubscribed from every tracker (`FinalizerOK`), which holds because no
one can subscribe until the reconciler is done.

`OrphansBounded` alone is not inductive: jobs left behind come out of the hands of workers whose
tracker has gone. `OrphanInv` counts those hands too: only a worker that has read the interface
of a benchmark (`WorkerTake`) can create its jobs, each life gives it to at most one more worker
(`HoldersOK`), and lists put back late hold jobs of the right benchmark (`ListsOK`), so once the
benchmark's jobs have been deleted, those that exist and those still in hand are together no
more than its lives (`OrphansOK`); creating a job moves it from one count to the other.
`SequentialUnlessRecreated` needs where the turn of a benchmark is in its first life: nowhere
before its first scan (`NotBegun`), and then in at most one of four places: with a running job,
in the informer, in the queue or in the worker's hands (`OneTurn`). Both claims are for
benchmarks that do not share names, and the first is not for one deleted while the operator was
gone, as the properties say.

`SearchSpaceProofs` proves, for all files, ranges, steps, numbers and rounds that satisfy
`SpaceAssumption`, with a `None` that is no profile (`NoneAssumption`):

- `TypeCorrect`: `Spec => []TypeOK`;
- `TunedRight`: `Spec => []TunedWhereListed`;
- `RoundedRight`: `Spec => []ValuesAsRounded`;
- `EndsWell`: `Spec => []TuningEnds`.

The invariant keeps with each entry of the log the proposal its profile was made of, and that
it was in range (`LogOK`), and lets a name's type come from a file of the space (`NamesOK`),
until reading fails. `ProfileFacts` says what `convertToProfile` returns, `TruncNear` and
`ValueInRange` how far rounding may go. For the end of tuning the invariant keeps the proposal
that the final profile was made of, or that it is empty because the optimizer failed before its
last round (`FinalOK`); `RoundedNear` compares it, which nothing
rounds, with the profile that was measured, and `RangeIndexable` excludes that a proposal in
range is past a set's last index.

`ResultProofs` also proves, of `ResultCollector`, for all benchmarks, items and scrapes that
satisfy `CollectorAssumption` (one module extends both; their definitions have different names):

- `GaugeTypeCorrect`: `CollectorSpec => []GaugeTypeOK`;
- `AloneExact`: `CollectorSpec => []AloneIsExact`;
- `NothingElse`: `CollectorSpec => []OnlyListed`.

The invariant says of the gauge that every scrape that fills it has seen all of it (`FillOK`),
and that for a scrape that is alone its series, with those of the items still to set, are those
of what was listed (`AloneOK`).

`JobDeploymentProofs` proves, for all benchmarks, items, builds, repetitions, templates,
locations, selectors and nodes that satisfy `SpecsAssumption`, and any number of restarts:

- `ScanEnumeratesMeant`: the scan goes through every choice of values, build and repetition
  (`JobsMeant`), each once;
- `InvariantHolds`: `Spec => []IInv`, from which follow
- `TypeCorrect`: `Spec => []TypeOK`;
- `ProfileHolds`: `Spec => []RunsUnderItsProfile`;
- `SelectionHolds`: `Spec => []AsksForItsNodes`;
- `FilingHolds`: `Spec => []FiledWithItsRepetitions`.

The first half is about the operators. A recursive function is a CHOOSE, so each is first shown to
exist, and what holds at every position is shown at the least one where it would fail. `Layers`
yields every combination, and a layer's order is that of positions (so the scan is injective).
`Tokenized` of a location and a quoted label is the location's keys and one more, the label, if
that has a dot; what `Rebuilt` puts at the end of the keys is what `Visited` finds
there, and all else on the way stays, so the profile and the labels, in whatever order they are
written, ask for just that. A hash is turned back into the job it was made of, once it is listed.

The second half is the invariant. `FixedInv`: `scanned` and `made` are what the operators yield.
`Kept` are the jobs that the scan does not pass over because their template fails. `Chain`: the
first so many of them have been created, all but the last have ended, and the goroutine is at
one of the places where it may then be: at rest, scanning jobs that have ended, scanning those
still to wait, creating the first, watching, working off, creating the next, or waiting for ever
after a creation that was refused (`Refused`). So one job at most may start or run, and
`ProfileInv` says of it that the node it is on carries its profile, or, for one without, that
the nodes it may be on have been given none, all but those still to be patched (`op.nodes`) and
unless a patch failed. `SelectionHolds` then needs nothing but `FixedInv`, `Chain` and the facts
about `UpdateValue`; that only the benchmarks of `MayPanic` panic follows from what is made of
their jobs (`RoleInv`). The labels on nodes and in objects are followed for selectors whose
labels have dots (`Labelling`). `RoleInv` and `JobInv` are the types; `HashInv` says that an
entry of the status is of a job that is meant and that each created job has one, `ResultInv`
that a result is of a job that ended and is filed as what it is (`FiledAs`). The chain also says
that all that a scan has passed, and so all that waits, is listed (`ListedUntil`): `HashInv` is
not inductive without it, since a job created from the waiting list might have no entry, and its
result would be filed under empty keys.

Only model-checked: liveness (`AllResultsRecorded` of `JobPipeline` and `AutoTune`,
`SurvivorFinishes`, `InstalledInTheEnd`, `EveryCombinationMeasured`), which is out of the
prover's reach.

## Not modelled

- The parser service: a stateless handler whose steps are I/O; `BestResult` has its replies.
- Composite locations and type conversions of the iteration handler; what tuned does with a
  label on a node; more than one benchmark on the same nodes, where the label of one would
  be replaced by the other's.
- Left out for good: log parsers (text formats, no state), generated code, `main.go`
  (wiring), object-store and HTTP clients (their failures are faults of the models above),
  and `JobListChanged` (common.go:477), which nothing calls.
