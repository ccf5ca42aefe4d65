---------------------------- MODULE Combinations ----------------------------
(***************************************************************************)
(* The jobs of a benchmark: the combinations of its iteration items, each  *)
(* for every build and repetition, how a job is named after them and how   *)
(* the name is turned back.  An item is a name and a sequence of values; a *)
(* combination is a function from names to values.                         *)
(***************************************************************************)
EXTENDS Naturals, Sequences, Functions, SequencesExt, Maps

PROFILE == "profile"          \* NODESELECT_ITR_NAME
DEFAULT == "default"          \* NODESELECT_ITR_DEFAULT
INIT_BUILD_NAME == "init"

ItemNames(items) == {items[i].name : i \in 1..Len(items)}

\* Mutant: a layer starts from the last combination only.
nextCombinationOfLast(item, prevList) ==
    LET prev == IF prevList = <<>> THEN <<>> ELSE prevList[Len(prevList)]
    IN  [i \in 1..Len(item.values) |->
           Assigned(prev, item.name, item.values[i])]

\* One layer of the enumeration: every value with every earlier combination.
nextCombination(item, prevList) ==
    IF prevList = <<>>
    THEN [i \in 1..Len(item.values) |-> Single(item.name, item.values[i])]
    ELSE FlattenSeq([i \in 1..Len(item.values) |->
           [k \in 1..Len(prevList) |->
              Assigned(prevList[k], item.name, item.values[i])]])

\* The combinations of none of the items, of the first, and so on.
Layers(items) ==
    LET layer[i \in 0..Len(items)] ==
          IF i = 0 THEN <<>> ELSE nextCombination(items[i], layer[i - 1])
    IN  layer

GetAllCombination(items) == Layers(items)[Len(items)]

\* A benchmark selects nodes if nodeSelection is a sequence of one.
NodeSelectionItems(spec) ==
    [i \in 1..Len(spec.nodeSelection) |->
       [name |-> PROFILE, values |-> spec.nodeSelection[i].tunedValues]]

GetCombinedIterations(spec) ==
    spec.iteration \o spec.configuration \o NodeSelectionItems(spec)

IterationLabels(spec) ==
    LET items == GetCombinedIterations(spec)
    IN  IF items = <<>> THEN << <<>> >> ELSE GetAllCombination(items)

BuildsOf(trackedBuilds) ==
    IF trackedBuilds = <<>> THEN <<INIT_BUILD_NAME>> ELSE trackedBuilds

\* Mutant: one repetition too many.
MaxRepetitionAndOne(spec) == spec.repetition + 1

MaxRepetition(spec) == IF spec.repetition = 0 THEN 1 ELSE spec.repetition

\* A job's hash stands for the three it is computed from: collisions of the
\* 32-bit hash are left out.  Within one benchmark the hash is the name.
getJobHash(label, build, repetition) ==
    [label |-> label, build |-> build, repetition |-> repetition]

\* The jobs in the order CreateFromOperator goes through them.
ScannedJobs(spec, trackedBuilds) ==
    LET labels == IterationLabels(spec)
        builds == BuildsOf(trackedBuilds)
        OfBuild(b, r) == [i \in 1..Len(labels) |-> getJobHash(labels[i], b, r)]
        OfRound(r) == FlattenSeq([i \in 1..Len(builds) |-> OfBuild(builds[i], r)])
    IN  FlattenSeq([r \in 1..MaxRepetition(spec) |-> OfRound(r - 1)])

\* The entry of Status.Hash that CreateFromOperator lists for a job.
HashItem(job) ==
    [hash |-> job, build |-> job.build, iteration |-> job.label,
     repetition |-> job.repetition]

\* The entries listed for a job's hash.
EntriesOf(hashes, job) == {i \in 1..Len(hashes) : hashes[i].hash = job}

\* What the first of them says, with its values split by the names.
Detail(hashes, job, iterations, configurations) ==
    IF EntriesOf(hashes, job) = {}
    THEN [build |-> "", iteration |-> <<>>, configuration |-> <<>>,
          repetition |-> 0]
    ELSE LET found == hashes[Min(EntriesOf(hashes, job))]
         IN  [build |-> found.build,
              iteration |-> Restrict(found.iteration, iterations),
              configuration |-> Restrict(found.iteration, configurations),
              repetition |-> found.repetition]

\* The names by which all hashes are split: those of the first one listed.
ListedNames(hashes) == IF hashes = <<>> THEN {} ELSE DOMAIN hashes[1].iteration

\* Mutant: the node selection is no configuration.
DetailWithoutSelection(spec, hashes, job) ==
    Detail(hashes, job, ListedNames(hashes) \cap ItemNames(spec.iteration),
           ListedNames(hashes) \cap ItemNames(spec.configuration))

GetDetailFromJobName(spec, hashes, job) ==
    LET keys == ListedNames(hashes)
        iterations == keys \cap ItemNames(spec.iteration)
        configurations == (keys \ iterations) \cap
             ItemNames(spec.configuration \o NodeSelectionItems(spec))
    IN  Detail(hashes, job, iterations, configurations)

-----------------------------------------------------------------------------
(***************************************************************************)
(* What is meant: every choice of a value for each item, for every build,  *)
(* or the build "init", and for repetitions counted from 0.                *)
(***************************************************************************)
ValuesNamed(items, n) ==
    UNION {Range(items[i].values) : i \in {k \in 1..Len(items) : items[k].name = n}}

JobsMeant(spec, trackedBuilds) ==
    LET items == GetCombinedIterations(spec)
        names == ItemNames(items)
        labels == {f \in [names -> UNION {ValuesNamed(items, n) : n \in names}] :
                     \A n \in names : f[n] \in ValuesNamed(items, n)}
        builds == IF trackedBuilds = <<>> THEN {"init"} ELSE Range(trackedBuilds)
    IN  {[label |-> f, build |-> b, repetition |-> r] :
           f \in labels, b \in builds, r \in {0} \cup 0..(spec.repetition - 1)}
=============================================================================
