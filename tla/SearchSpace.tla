----------------------------- MODULE SearchSpace -----------------------------
(***************************************************************************)
(* The parameters that auto-tuning varies: read from the files of a        *)
(* directory when the operator starts (GetSearchSpaceConfig), proposed by  *)
(* the optimizer as one number each, checked and rounded (validateSample)  *)
(* and turned into the profile that the nodes get (convertToProfile).  How *)
(* profiles and values pass between optimizer and worker is in AutoTune.   *)
(* A number of the optimizer is counted in parts of 1/Grain.               *)
(***************************************************************************)
EXTENDS Integers, Sequences

CONSTANTS
    Dirs,          \* directories: sequences of files, see Files
    TuneTypes,     \* the types that TuneType.IsValid knows
    SetValues,     \* the values of sets
    SetMaxLength,  \* SET_MAX_LENGTH
    RandomRounds,  \* RANDOM_ROUND
    Rounds,        \* RANDOM_ROUND + MAX_ROUND
    Explored,      \* numbers tried after the random rounds
    Results,       \* performance values measured
    Refused,       \* the value of a refused proposal: -1, or MaxFloat64
    None           \* no value, no profile

Grain == 2

\* A file's name may have two parts, for the type of node tuning and for the
\* kind of its parameters.
Files == [twoParts : BOOLEAN, tuneType : STRING, paramType : STRING,
          lines : Seq([name : STRING, args : Seq(Int \cup SetValues)])]

ASSUME SpaceAssumption ==
    /\ Dirs \subseteq Seq(Files)
    /\ SetMaxLength \in Nat /\ Rounds \in Nat /\ RandomRounds \in 0..Rounds
    /\ Explored \subseteq Int /\ Results \subseteq Int /\ Refused \in Int
    /\ \A d \in Dirs : \A i \in 1..Len(d) : \A k \in 1..Len(d[i].lines) :
         d[i].paramType # "set" => /\ d[i].lines[k].args \in Seq(Int)
                                   /\ Len(d[i].lines[k].args) >= 3 =>
                                        d[i].lines[k].args[3] > 0

\* The names that the lines of a directory's files define.
NamesIn(d) ==
    UNION {{d[i].lines[k].name : k \in 1..Len(d[i].lines)} : i \in 1..Len(d)}

\* No profile is a profile.
ASSUME NoneAssumption ==
    \A d \in Dirs : \A names \in SUBSET NamesIn(d) :
       None \notin [names -> [type : TuneTypes,
                             value : Int \cup SetValues \cup {None}]]

Minimize == Refused > 0

VARIABLES
    dir,           \* the directory
    next,          \* the file that is read next
    space,         \* SearchSpace, as a set of (type, parameter)
    paramNameMap,  \* ParamNameMap: from names to types
    failed,        \* reading has failed
    round,         \* rounds of the optimizer
    log,           \* its (proposal, profile or None, value) triples
    final,         \* FinalizedTunedProfile, or None
    panicked

loading == <<dir, next, space, paramNameMap, failed>>
vars    == <<loading, round, log, final, panicked>>

ParamTypes == {"int", "set", "float"}
Params == {s.param : s \in space}

Init ==
    /\ dir \in Dirs /\ next = 1
    /\ space = {} /\ paramNameMap = <<>> /\ failed = FALSE
    /\ round = 0 /\ log = {} /\ final = None /\ panicked = FALSE

-----------------------------------------------------------------------------
(***************************************************************************)
(* Reading the files.  A line is a name and what follows its equals sign,  *)
(* split at commas; it has no args if it has no equals sign, or two.       *)
(***************************************************************************)
Readable(paramType, line) ==
    IF paramType = "set" THEN Len(line.args) \in 1..(SetMaxLength - 1)
    ELSE Len(line.args) >= 2

\* One shape for the three kinds; a set's numbers are its values' indices.
Param(paramType, line) ==
    [kind   |-> paramType, name |-> line.name,
     min    |-> IF paramType = "set" THEN 0 ELSE line.args[1],
     max    |-> IF paramType = "set" THEN Len(line.args) ELSE line.args[2],
     step   |-> IF paramType = "int" /\ Len(line.args) >= 3
                THEN line.args[3] ELSE 1,
     values |-> IF paramType = "set" THEN line.args ELSE <<>>]

\* GetParam reads up to the first line that it cannot read.
LinesRead(file) ==
    {i \in 1..Len(file.lines) :
       \A k \in 1..i : Readable(file.paramType, file.lines[k])}
FileFails(file) ==
    \/ file.tuneType \notin TuneTypes \/ file.paramType \notin ParamTypes
    \/ LinesRead(file) # 1..Len(file.lines)
ParamsRead(file) ==
    IF file.tuneType \in TuneTypes /\ file.paramType \in ParamTypes
    THEN {Param(file.paramType, file.lines[i]) : i \in LinesRead(file)}
    ELSE {}

WithNames(params, tuneType) ==
    LET names == {p.name : p \in params} IN
    [n \in names \cup DOMAIN paramNameMap |->
       IF n \in names THEN tuneType ELSE paramNameMap[n]]

\* Mutant: an error in a file is passed over.
ReadFileOn ==
    LET file == dir[next]
        params == ParamsRead(file)
    IN
    /\ next <= Len(dir)
    /\ file.twoParts
    /\ paramNameMap' = WithNames(params, file.tuneType)
    /\ space' = IF FileFails(file) THEN space
                ELSE space \cup [type : {file.tuneType}, param : params]
    /\ next' = next + 1
    /\ UNCHANGED <<dir, failed, round, log, final, panicked>>

\* Names are entered line by line, parameters when the file is read; the
\* first error ends the reading, and what has been read stays.
ReadFile ==
    LET file == dir[next]
        params == ParamsRead(file)
    IN
    /\ next <= Len(dir)
    /\ file.twoParts
    /\ paramNameMap' = WithNames(params, file.tuneType)
    /\ failed' = FileFails(file)
    /\ space' = IF failed' THEN space
                ELSE space \cup [type : {file.tuneType}, param : params]
    /\ next' = IF failed' THEN Len(dir) + 1 ELSE next + 1
    /\ UNCHANGED <<dir, round, log, final, panicked>>

SkipFile ==
    /\ next <= Len(dir)
    /\ ~dir[next].twoParts
    /\ next' = next + 1
    /\ UNCHANGED <<dir, space, paramNameMap, failed, round, log, final,
                   panicked>>

-----------------------------------------------------------------------------
(***************************************************************************)
(* Numbers and values.  Go's int() drops the fraction.                     *)
(***************************************************************************)
Trunc(v, d) == IF v >= 0 THEN v \div d ELSE -((-v) \div d)

Slots(p) == IF p.kind = "set" THEN Len(p.values)
            ELSE Trunc(p.max - p.min, p.step)

\* What a random round may take; rand.Intn panics if there is nothing.
Sample(p) ==
    IF p.kind = "float" THEN (Grain * p.min)..(Grain * p.max - 1)
    ELSE {Grain * (p.min + k * p.step) : k \in 0..(Slots(p) - 1)}

InRange(p, v) == Grain * p.min <= v /\ v <= Grain * p.max

\* Mutant: rounded to the next step.
ValidateUp(p, v) ==
    CASE p.kind = "set" -> Grain * Trunc(v, Grain)
      [] p.kind = "int" -> Grain * p.step * (Trunc(v, Grain * p.step) + 1)
      [] OTHER -> v

\* Rounded to a multiple of the step, not to one counted from the minimum.
Validate(p, v) ==
    CASE p.kind = "set" -> Grain * Trunc(v, Grain)
      [] p.kind = "int" -> Grain * p.step * Trunc(v, Grain * p.step)
      [] OTHER -> v

\* The array of a set has room, and empty values, after the last one.
Indexable(p, v) == p.kind = "set" => Trunc(v, Grain) \in 0..(SetMaxLength - 1)
getValue(p, v) ==
    CASE p.kind = "set" -> IF Trunc(v, Grain) \in 0..(Len(p.values) - 1)
                           THEN p.values[Trunc(v, Grain) + 1] ELSE None
      [] p.kind = "int" -> Trunc(v, Grain)
      [] OTHER -> v

\* A profile gives names a type and a value; of two parameters of one name
\* either may be the last one.
convertToProfile(asked) ==
    LET names == {p.name : p \in DOMAIN asked} IN
    {[n \in names |-> [type |-> paramNameMap[n],
                       value |-> getValue(of[n], asked[of[n]])]] :
       of \in {f \in [names -> DOMAIN asked] : \A n \in names : f[n].name = n}}

-----------------------------------------------------------------------------
(***************************************************************************)
(* The optimizer.  Which numbers it explores is the library's affair.      *)
(***************************************************************************)
Entry(asked, profile, value) ==
    [asked |-> asked, profile |-> profile, value |-> value]

\* The function that AutoTune's optimize hands to the library.
Evaluate(asked) ==
    IF \A p \in DOMAIN asked : InRange(p, asked[p])
    THEN \E profile \in convertToProfile([p \in DOMAIN asked |->
                                            Validate(p, asked[p])]),
            value \in Results :
           log' = log \cup {Entry(asked, profile, value)}
    ELSE log' = log \cup {Entry(asked, None, Refused)}

Ready == next > Len(dir) /\ ~panicked /\ final = None

RandomRound ==
    /\ Ready /\ round < RandomRounds
    /\ \E asked \in [Params -> UNION {Sample(p) : p \in Params}] :
         /\ \A p \in Params : asked[p] \in Sample(p)
         /\ Evaluate(asked)
    /\ round' = round + 1
    /\ UNCHANGED <<loading, final, panicked>>

SamplePanics ==
    /\ Ready /\ round < RandomRounds
    /\ \E p \in Params : p.kind # "float" /\ Slots(p) <= 0
    /\ panicked' = TRUE
    /\ UNCHANGED <<loading, round, log, final>>

ExploreRound ==
    /\ Ready /\ RandomRounds <= round /\ round < Rounds
    /\ \E asked \in [Params -> Explored] : Evaluate(asked)
    /\ round' = round + 1
    /\ UNCHANGED <<loading, final, panicked>>

isBetter(val1, val2) == IF Minimize THEN val2 < val1 ELSE val2 > val1
Best == {e \in log : \A other \in log : ~isBetter(e.value, other.value)}

\* Mutant: the last proposal becomes the final profile.
SettleOnAny ==
    /\ Ready /\ round = Rounds
    /\ \E e \in log : /\ \A p \in DOMAIN e.asked : Indexable(p, e.asked[p])
                      /\ final' \in convertToProfile(e.asked)
    /\ UNCHANGED <<loading, round, log, panicked>>

\* The best proposal becomes the final profile as the library has logged it:
\* nothing rounds it, or looks at its range.
Settle ==
    /\ Ready /\ round = Rounds
    /\ \E e \in Best : /\ \A p \in DOMAIN e.asked : Indexable(p, e.asked[p])
                       /\ final' \in convertToProfile(e.asked)
    /\ UNCHANGED <<loading, round, log, panicked>>

SettlePanics ==
    /\ Ready /\ round = Rounds
    /\ \E e \in Best : \E p \in DOMAIN e.asked : ~Indexable(p, e.asked[p])
    /\ panicked' = TRUE
    /\ UNCHANGED <<loading, round, log, final>>

\* The library returns an error where it cannot tell what to explore next.
\* The map of numbers is then empty, and the final profile with it, whatever
\* has been measured.
OptimizeFails ==
    /\ Ready /\ RandomRounds <= round /\ round < Rounds
    /\ final' \in convertToProfile(<<>>)
    /\ UNCHANGED <<loading, round, log, panicked>>

Next == ReadFile \/ SkipFile \/ RandomRound \/ SamplePanics \/ ExploreRound
        \/ Settle \/ SettlePanics \/ OptimizeFails

Spec == Init /\ [][Next]_vars

-----------------------------------------------------------------------------
(***************************************************************************)
(* Properties.                                                             *)
(***************************************************************************)
Names == {p.name : p \in Params}
Profiles == {e.profile : e \in {l \in log : l.profile # None}}

\* Every name of the space has a type, which convertToProfile looks up, and
\* every number asked for is one of a parameter of the space.
TypeOK ==
    /\ next \in 1..(Len(dir) + 1) /\ failed \in BOOLEAN /\ panicked \in BOOLEAN
    /\ {s.type : s \in space} \subseteq TuneTypes
    /\ Names \subseteq DOMAIN paramNameMap
    /\ \A n \in DOMAIN paramNameMap : paramNameMap[n] \in TuneTypes
    /\ round \in 0..Rounds
    /\ \A e \in log : DOMAIN e.asked = Params /\ e.value \in Results \cup {Refused}

Listed(profile) ==
    /\ DOMAIN profile = Names
    /\ ~failed => \A n \in Names : \E s \in space :
                     s.param.name = n /\ s.type = profile[n].type

\* Every profile that is measured, and the final one after the last round,
\* gives every parameter exactly one value, and unless reading has failed for
\* a plugin that one of the parameter's files is for.  The final profile of an
\* optimizer that fails before its last round has no parameter at all.
TunedWhereListed ==
    /\ \A profile \in Profiles : Listed(profile)
    /\ final # None => IF round = Rounds THEN Listed(final)
                       ELSE round >= RandomRounds /\ DOMAIN final = {}

Alone(p) == \A q \in Params : q.name = p.name => q = p

\* A profile that is measured has a value of the set, unless its end is asked
\* for; or a multiple of the step, less than a step out of the range.
ValuesAsRounded ==
    \A e \in log : e.profile # None => \A p \in Params : Alone(p) =>
       LET value == e.profile[p.name].value IN
       CASE p.kind = "set" -> \/ value \in {p.values[i] : i \in 1..Len(p.values)}
                              \/ e.asked[p] = Grain * p.max
         [] p.kind = "int" -> /\ value % p.step = 0
                              /\ p.min - p.step < value /\ value < p.max + p.step
         [] OTHER -> Grain * p.min <= value /\ value <= Grain * p.max

\* After the last round the nodes end up under a profile that differs from one
\* that was measured, with the best value, by less than a step in each
\* parameter, if any run was worth more than a refusal.
FinalNearMeasured ==
    final # None /\ round = Rounds /\ (\E e \in log : isBetter(Refused, e.value)) =>
       \E e \in Best : e.profile # None /\ \A p \in Params : Alone(p) =>
          LET was == e.profile[p.name].value
              is  == final[p.name].value
          IN  IF p.kind = "int" THEN was - p.step < is /\ is < was + p.step
              ELSE is = was

\* The operator panics only if a range has no step in it, or if no run was
\* worth more than a refusal.
PanicsForCause ==
    panicked =>
       \/ \E p \in Params : p.kind # "float" /\ Slots(p) <= 0
       \/ ~\E e \in log : isBetter(Refused, e.value)

\* How tuning ends: with a profile near the best one, or before the last round
\* by an error (see TunedWhereListed) or a panic for a cause.
TuningEnds == FinalNearMeasured /\ PanicsForCause

\* The integers of a profile that is measured are in their range, as the file
\* of the search space says.
IntegersInRange ==
    \A e \in log : e.profile # None => \A p \in Params :
       Alone(p) /\ p.kind = "int" => e.profile[p.name].value \in p.min..p.max
=============================================================================
