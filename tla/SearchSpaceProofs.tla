-------------------------- MODULE SearchSpaceProofs --------------------------
(***************************************************************************)
(* Theorems about SearchSpace, for any files, numbers and rounds.          *)
(***************************************************************************)
EXTENDS SearchSpace, TLAPS

LEMMA Quotient ==
    ASSUME NEW a \in Nat, NEW d \in Nat \ {0}
    PROVE  /\ a \div d \in Nat
           /\ d * (a \div d) <= a /\ a < d * (a \div d) + d
  OBVIOUS

\* Dropping the fraction of a quotient takes off less than the divisor.
LEMMA TruncNear ==
    ASSUME NEW v \in Int, NEW d \in Nat \ {0}
    PROVE  /\ Trunc(v, d) \in Int
           /\ v - d < d * Trunc(v, d) /\ d * Trunc(v, d) < v + d
           /\ v >= 0 => 0 <= Trunc(v, d) /\ d * Trunc(v, d) <= v
           /\ v <= 0 => Trunc(v, d) <= 0 /\ v <= d * Trunc(v, d)
<1>1. CASE v >= 0
  BY <1>1, Quotient DEF Trunc
<1>2. CASE ~(v >= 0)
  BY <1>2, Quotient DEF Trunc
<1> QED
  BY <1>1, <1>2

LEMMA TruncHalves ==
    ASSUME NEW k \in Int PROVE Trunc(2 * k, 2) = k
  BY DEF Trunc

LEMMA Multiple ==
    ASSUME NEW k \in Int, NEW d \in Nat \ {0} PROVE (d * k) % d = 0
  OBVIOUS

-----------------------------------------------------------------------------
(***************************************************************************)
(* The invariant: what files and rounds leave behind.                      *)
(***************************************************************************)
ParamOK(p) ==
    /\ p.kind \in ParamTypes
    /\ p.kind = "set" => /\ p.min = 0 /\ p.max = Len(p.values)
                         /\ p.max \in Nat /\ p.step = 1
                         /\ p.max <= SetMaxLength - 1
                         /\ p.values \in Seq(Int \cup SetValues)
    /\ p.kind # "set" => p.min \in Int /\ p.max \in Int
    /\ p.kind = "int" => p.step \in Nat \ {0}

SpaceOK ==
    /\ dir \in Dirs /\ next \in 1..(Len(dir) + 1)
    /\ failed \in BOOLEAN /\ panicked \in BOOLEAN /\ round \in 0..Rounds
    /\ \A s \in space : /\ s.type \in TuneTypes /\ ParamOK(s.param)
                         /\ s.param.name \in NamesIn(dir)
    /\ next <= Len(dir) => log = {} /\ final = None /\ ~failed /\ ~panicked

\* A name has the type of one of its parameters.
NamesOK ==
    /\ Names \subseteq DOMAIN paramNameMap
    /\ \A n \in DOMAIN paramNameMap : paramNameMap[n] \in TuneTypes
    /\ ~failed => \A n \in DOMAIN paramNameMap : \E s \in space :
                    s.param.name = n /\ s.type = paramNameMap[n]

\* A profile is what is made of a proposal that is in range; any other
\* proposal was refused.
LogOK ==
    \A e \in log :
      /\ e.asked \in [Params -> Int] /\ e.value \in Results \cup {Refused}
      /\ e.profile # None =>
           /\ \A p \in Params : InRange(p, e.asked[p])
           /\ e.profile \in
                convertToProfile([p \in Params |-> Validate(p, e.asked[p])])
      /\ e.profile = None => e.value = Refused

\* Tuning ends with the best proposal after the last round, with nothing
\* before it, or because of a number in the best one or of a range without a
\* step.
FinalOK ==
    /\ final # None => IF round = Rounds
                       THEN \E e \in Best : final \in convertToProfile(e.asked)
                       ELSE /\ round >= RandomRounds
                            /\ final \in convertToProfile(<<>>)
    /\ panicked => \/ \E p \in Params : p.kind # "float" /\ Slots(p) <= 0
                   \/ \E e \in Best : \E p \in Params : ~Indexable(p, e.asked[p])

IInv == SpaceOK /\ NamesOK /\ LogOK /\ FinalOK

LEMMA ArgsTyped ==
    ASSUME NEW args \in Seq(Int), Len(args) >= 2,
           Len(args) >= 3 => args[3] > 0
    PROVE  /\ args[1] \in Int /\ args[2] \in Int
           /\ Len(args) >= 3 => args[3] \in Nat \ {0}
<1>1. \A k \in 1..Len(args) : args[k] \in Int
  OBVIOUS
<1>2. args[1] \in Int /\ args[2] \in Int
  BY <1>1
<1>3. Len(args) >= 3 => args[3] \in Int
  BY <1>1
<1> QED
  BY <1>2, <1>3

\* What a line is read as.
LEMMA ReadParam ==
    ASSUME SpaceOK, next <= Len(dir), NEW p \in ParamsRead(dir[next])
    PROVE  /\ ParamOK(p) /\ dir[next].tuneType \in TuneTypes
           /\ p.name \in NamesIn(dir)
<1> DEFINE file == dir[next]
<1>1. /\ file.tuneType \in TuneTypes /\ file.paramType \in ParamTypes
      /\ p \in {Param(file.paramType, file.lines[i]) : i \in LinesRead(file)}
  BY DEF ParamsRead
<1>2. PICK i \in LinesRead(file) : p = Param(file.paramType, file.lines[i])
  BY <1>1
<1>3. i \in 1..Len(file.lines) /\ Readable(file.paramType, file.lines[i])
  <2>1. file \in Files
    BY SpaceAssumption DEF SpaceOK
  <2>2. i \in 1..Len(file.lines)
    BY <1>2 DEF LinesRead
  <2>3. i \in 1..i
    BY <2>1, <2>2 DEF Files
  <2> QED
    BY <1>2, <2>2, <2>3 DEF LinesRead
<1>4. /\ dir \in Dirs /\ next \in 1..Len(dir) /\ dir \in Seq(Files)
      /\ file \in Files
  BY SpaceAssumption DEF SpaceOK
<1>5. p.name \in NamesIn(dir)
  BY <1>2, <1>3, <1>4 DEF NamesIn, Param
<1>6. CASE file.paramType = "set"
  <2>1. Len(file.lines[i].args) \in 1..(SetMaxLength - 1)
    BY <1>3, <1>6 DEF Readable
  <2>2. /\ Len(file.lines[i].args) \in Nat
        /\ Len(file.lines[i].args) <= SetMaxLength - 1
    <3>1. PICK top \in Int : top = SetMaxLength - 1
      BY SpaceAssumption
    <3>2. Len(file.lines[i].args) \in 1..top
      BY <2>1, <3>1
    <3>3. \A n \in 1..top : n \in Nat /\ n <= top
      OBVIOUS
    <3> QED
      BY <3>1, <3>2, <3>3
  <2>3. /\ p.kind = "set" /\ p.min = 0 /\ p.max = Len(file.lines[i].args)
        /\ p.values = file.lines[i].args /\ p.step = 1
    BY <1>2, <1>6 DEF Param
  <2>4. file.lines[i].args \in Seq(Int \cup SetValues)
    <3>1. file.lines \in Seq([name : STRING, args : Seq(Int \cup SetValues)])
      BY <1>4 DEF Files
    <3>2. file.lines[i] \in [name : STRING, args : Seq(Int \cup SetValues)]
      <4> DEFINE Lines == [name : STRING, args : Seq(Int \cup SetValues)]
      <4>1. PICK lines \in Seq(Lines) : lines = file.lines
        BY <3>1
      <4>2. lines[i] \in Lines
        <5> HIDE DEF Lines
        <5> QED
          BY <1>3, <4>1
      <4> QED
        BY <4>1, <4>2
    <3> QED
      BY <3>2
  <2> QED
    BY <1>1, <1>5, <2>2, <2>3, <2>4 DEF ParamOK, ParamTypes
<1>7. CASE file.paramType # "set"
  <2> DEFINE args == file.lines[i].args
  <2>1. args \in Seq(Int) /\ (Len(args) >= 3 => args[3] > 0)
    BY <1>3, <1>4, <1>7, SpaceAssumption
  <2>2. Len(args) >= 2
    BY <1>3, <1>7 DEF Readable
  <2>3. /\ args[1] \in Int /\ args[2] \in Int
        /\ Len(args) >= 3 => args[3] \in Nat \ {0}
    BY <2>1, <2>2, ArgsTyped
  <2>4. /\ p.kind = file.paramType /\ p.min = args[1] /\ p.max = args[2]
        /\ p.kind = "int" => p.step = IF Len(args) >= 3 THEN args[3] ELSE 1
    BY <1>2, <1>7 DEF Param
  <2> HIDE DEF args
  <2> QED
    BY <1>1, <1>5, <1>7, <2>3, <2>4 DEF ParamOK
<1> QED
  BY <1>1, <1>6, <1>7

\* A value is a number or one of a set, or none.
LEMMA ValueTyped ==
    ASSUME NEW p, ParamOK(p), NEW v \in Int
    PROVE  getValue(p, v) \in Int \cup SetValues \cup {None}
<1>1. CASE p.kind = "set"
  <2>1. p.values \in Seq(Int \cup SetValues) /\ Trunc(v, 2) \in Int
    BY <1>1, TruncNear DEF ParamOK
  <2>2. PICK k \in Int, s \in Seq(Int \cup SetValues) :
          k = Trunc(v, 2) /\ s = p.values
    BY <2>1
  <2>3. getValue(p, v) = IF k \in 0..(Len(s) - 1) THEN s[k + 1] ELSE None
    BY <1>1, <2>2 DEF getValue, Grain
  <2>4. k \in 0..(Len(s) - 1) => s[k + 1] \in Int \cup SetValues
    BY <2>2
  <2> QED
    BY <2>3, <2>4
<1>2. CASE p.kind = "int"
  BY <1>2, TruncNear DEF getValue, Grain
<1>3. CASE p.kind = "float"
  BY <1>3 DEF getValue
<1> QED
  BY <1>1, <1>2, <1>3 DEF ParamOK, ParamTypes

LEMMA ValidateTyped ==
    ASSUME NEW p, ParamOK(p), NEW v \in Int
    PROVE  Validate(p, v) \in Int
<1>1. CASE p.kind = "int"
  <2>1. p.step \in Nat \ {0}
    BY <1>1 DEF ParamOK
  <2>2. 2 * p.step \in Nat \ {0}
    BY <2>1
  <2>3. Trunc(v, 2 * p.step) \in Int
    BY <2>2, TruncNear
  <2>4. PICK k \in Int : k = Trunc(v, 2 * p.step)
    BY <2>3
  <2> QED
    BY <1>1, <2>1, <2>4 DEF Validate, Grain
<1>2. CASE p.kind # "int"
  BY <1>2, TruncNear DEF Validate, Grain
<1> QED
  BY <1>1, <1>2

\* What a proposal becomes is a profile.
LEMMA ProfileTyped ==
    ASSUME SpaceOK, NamesOK, NEW asked \in [Params -> Int],
           NEW f \in convertToProfile(asked)
    PROVE  f # None
<1>1. PICK of \in [Names -> Params] :
        f = [n \in Names |-> [type |-> paramNameMap[n],
                              value |-> getValue(of[n], asked[of[n]])]]
  BY DEF convertToProfile, Names
<1>2. ASSUME NEW n \in Names
      PROVE  /\ paramNameMap[n] \in TuneTypes
             /\ getValue(of[n], asked[of[n]]) \in Int \cup SetValues \cup {None}
  <2>1. of[n] \in Params /\ ParamOK(of[n]) /\ asked[of[n]] \in Int
    BY DEF SpaceOK, Params
  <2> QED
    BY <2>1, ValueTyped DEF NamesOK
<1>3. f \in [Names -> [type : TuneTypes, value : Int \cup SetValues \cup {None}]]
  BY <1>1, <1>2
<1>4. Names \subseteq NamesIn(dir) /\ dir \in Dirs
  BY DEF SpaceOK, Names, Params
<1> QED
  BY <1>3, <1>4, NoneAssumption

\* The profiles that a proposal may become.
LEMMA ProfileFacts ==
    ASSUME NEW asked, DOMAIN asked = Params, NEW f \in convertToProfile(asked)
    PROVE  /\ DOMAIN f = Names
           /\ \A n \in Names : f[n].type = paramNameMap[n]
           /\ \A p \in Params : Alone(p) =>
                f[p.name].value = getValue(p, asked[p])
<1>1. PICK of \in [Names -> Params] :
        /\ \A n \in Names : of[n].name = n
        /\ f = [n \in Names |-> [type |-> paramNameMap[n],
                                 value |-> getValue(of[n], asked[of[n]])]]
  BY DEF convertToProfile, Names
<1>2. \A p \in Params : p.name \in Names
  BY DEF Names
<1>3. \A p \in Params : Alone(p) => of[p.name] = p
  BY <1>1, <1>2 DEF Alone
<1> QED
  BY <1>1, <1>2, <1>3

-----------------------------------------------------------------------------
LEMMA InitInv == Init => IInv
<1> SUFFICES ASSUME Init PROVE IInv
  OBVIOUS
<1>1. DOMAIN paramNameMap = {} /\ Params = {} /\ Names = {}
  BY DEF Init, Params, Names
<1>2. dir \in Seq(Files) /\ 1 \in 1..(Len(dir) + 1)
  BY SpaceAssumption DEF Init
<1>3. SpaceOK
  <2>1. next = 1 /\ round = 0 /\ round \in 0..Rounds
    BY SpaceAssumption DEF Init
  <2>2. next \in 1..(Len(dir) + 1)
    BY <1>2, <2>1
  <2> QED
    BY <2>1, <2>2 DEF Init, SpaceOK
<1>4. NamesOK
  BY <1>1 DEF NamesOK
<1> QED
  BY <1>3, <1>4 DEF Init, IInv, LogOK, FinalOK

LEMMA ReadInv ==
    ASSUME IInv, ReadFile PROVE IInv'
<1> DEFINE file == dir[next]
           names == {p.name : p \in ParamsRead(file)}
<1>1. /\ next <= Len(dir)
      /\ paramNameMap' = WithNames(ParamsRead(file), file.tuneType)
      /\ failed' = FileFails(file)
      /\ space' = IF failed' THEN space
                  ELSE space \cup [type : {file.tuneType},
                                   param : ParamsRead(file)]
      /\ next' = IF failed' THEN Len(dir) + 1 ELSE next + 1
      /\ UNCHANGED <<dir, round, log, final, panicked>>
  BY DEF ReadFile
<1>2. log = {} /\ final = None /\ ~panicked
  BY <1>1 DEF IInv, SpaceOK
<1>3. \A p \in ParamsRead(file) : /\ ParamOK(p) /\ file.tuneType \in TuneTypes
                                  /\ p.name \in NamesIn(dir)
  BY <1>1, ReadParam DEF IInv
<1>4. /\ DOMAIN paramNameMap' = names \cup DOMAIN paramNameMap
      /\ \A n \in names : paramNameMap'[n] = file.tuneType
      /\ \A n \in DOMAIN paramNameMap \ names :
           paramNameMap'[n] = paramNameMap[n]
  BY <1>1 DEF WithNames
<1>5. \A s \in space' : s \in space \/ (/\ s.type = file.tuneType
                                        /\ s.param \in ParamsRead(file))
  BY <1>1
<1>6. dir \in Seq(Files) /\ next \in 1..Len(dir) /\ failed' \in BOOLEAN
  BY <1>1, SpaceAssumption DEF IInv, SpaceOK, FileFails
<1>7. SpaceOK'
  <2>1. \A s \in space' : /\ s.type \in TuneTypes /\ ParamOK(s.param)
                           /\ s.param.name \in NamesIn(dir)
    BY <1>3, <1>5 DEF IInv, SpaceOK
  <2>2. next' \in 1..(Len(dir) + 1)
    BY <1>1, <1>6
  <2>3. next' <= Len(dir) => ~failed'
    BY <1>1, <1>6
  <2> QED
    BY <1>1, <1>2, <1>6, <2>1, <2>2, <2>3 DEF IInv, SpaceOK
<1>8. NamesOK'
  <2>1. Names' \subseteq DOMAIN paramNameMap'
    BY <1>4, <1>5 DEF IInv, NamesOK, Names, Params
  <2>2. \A n \in DOMAIN paramNameMap' : paramNameMap'[n] \in TuneTypes
    BY <1>3, <1>4 DEF IInv, NamesOK
  <2>3. ASSUME ~failed', NEW n \in DOMAIN paramNameMap'
        PROVE  \E s \in space' : s.param.name = n /\ s.type = paramNameMap'[n]
    <3>1. CASE n \in names
      <4>1. PICK p \in ParamsRead(file) : p.name = n
        BY <3>1
      <4>2. [type |-> file.tuneType, param |-> p] \in space'
        BY <1>1, <2>3
      <4> QED
        BY <1>4, <3>1, <4>1, <4>2
    <3>2. CASE n \notin names
      <4>1. ~failed
        BY <1>1 DEF IInv, SpaceOK
      <4> QED
        BY <1>1, <1>4, <2>3, <3>2, <4>1 DEF IInv, NamesOK
    <3> QED
      BY <3>1, <3>2
  <2> QED
    BY <2>1, <2>2, <2>3 DEF NamesOK
<1>9. LogOK' /\ FinalOK'
  BY <1>1, <1>2 DEF LogOK, FinalOK
<1> QED
  BY <1>7, <1>8, <1>9 DEF IInv

LEMMA SkipInv ==
    ASSUME IInv, SkipFile PROVE IInv'
<1>1. /\ next <= Len(dir) /\ next' = next + 1
      /\ UNCHANGED <<dir, space, paramNameMap, failed, round, log, final,
                     panicked>>
  BY DEF SkipFile
<1>2. dir \in Seq(Files) /\ next' \in 1..(Len(dir) + 1)
  BY <1>1, SpaceAssumption DEF IInv, SpaceOK
<1>3. log = {} /\ final = None /\ ~panicked /\ Params' = Params /\ Names' = Names
  BY <1>1 DEF IInv, SpaceOK, Params, Names
<1> QED
  BY <1>1, <1>2, <1>3 DEF IInv, SpaceOK, NamesOK, LogOK, FinalOK

\* A round adds one entry to the log.
LEMMA RoundInv ==
    ASSUME IInv, NEW asked \in [Params -> Int], Evaluate(asked), Ready,
           round < Rounds, round' = round + 1,
           UNCHANGED <<loading, final, panicked>>
    PROVE  IInv'
<1>1. /\ UNCHANGED <<dir, next, space, paramNameMap, failed, final, panicked>>
      /\ Params' = Params /\ Names' = Names
  BY DEF loading, Params, Names
<1>2. PICK e : /\ log' = log \cup {e} /\ e.asked = asked
               /\ e.value \in Results \cup {Refused}
               /\ e.profile # None =>
                    /\ \A p \in Params : InRange(p, asked[p])
                    /\ e.profile \in
                         convertToProfile([p \in Params |-> Validate(p, asked[p])])
               /\ e.profile = None => e.value = Refused
  <2>1. DOMAIN asked = Params
    OBVIOUS
  <2>2. CASE \A p \in Params : InRange(p, asked[p])
    <3>1. PICK profile \in convertToProfile([p \in Params |-> Validate(p, asked[p])]),
               value \in Results :
                 log' = log \cup {Entry(asked, profile, value)}
      BY <2>1, <2>2 DEF Evaluate
    <3> DEFINE e == Entry(asked, profile, value)
    <3>2. e.asked = asked /\ e.value = value /\ e.profile = profile
      BY DEF Entry
    <3> HIDE DEF e
    <3>3. log' = log \cup {e}
      BY <3>1 DEF e
    <3>4. profile # None
      <4>1. [p \in Params |-> Validate(p, asked[p])] \in [Params -> Int]
        BY ValidateTyped DEF IInv, SpaceOK, Params
      <4> QED
        BY <3>1, <4>1, ProfileTyped DEF IInv
    <3> QED
      BY <2>2, <3>1, <3>2, <3>3, <3>4
  <2>3. CASE ~(\A p \in Params : InRange(p, asked[p]))
    <3>1. log' = log \cup {Entry(asked, None, Refused)}
      BY <2>1, <2>3 DEF Evaluate
    <3> DEFINE e == Entry(asked, None, Refused)
    <3>2. e.asked = asked /\ e.value = Refused /\ e.profile = None
      BY DEF Entry
    <3> HIDE DEF e
    <3>3. log' = log \cup {e}
      BY <3>1 DEF e
    <3> QED
      BY <3>2, <3>3
  <2> QED
    BY <2>2, <2>3
<1>4. SpaceOK' /\ NamesOK'
  <2>1. round' \in 0..Rounds
    BY SpaceAssumption DEF IInv, SpaceOK
  <2>2. ~(next <= Len(dir))
    BY SpaceAssumption DEF Ready, IInv, SpaceOK
  <2> QED
    BY <1>1, <2>1, <2>2 DEF IInv, SpaceOK, NamesOK
<1>5. LogOK'
  <2> SUFFICES ASSUME NEW l \in log'
      PROVE (/\ l.asked \in [Params -> Int] /\ l.value \in Results \cup {Refused}
             /\ l.profile # None =>
                  /\ \A p \in Params : InRange(p, l.asked[p])
                  /\ l.profile \in
                       convertToProfile([p \in Params |-> Validate(p, l.asked[p])])
             /\ l.profile = None => l.value = Refused)'
    BY DEF LogOK
  <2>1. /\ l.asked \in [Params -> Int] /\ l.value \in Results \cup {Refused}
        /\ l.profile = None => l.value = Refused
    BY <1>2 DEF IInv, LogOK
  <2>2. l.profile # None =>
          /\ \A p \in Params : InRange(p, l.asked[p])
          /\ l.profile \in
               convertToProfile([p \in Params |-> Validate(p, l.asked[p])])
    BY <1>2 DEF IInv, LogOK
  <2>3. convertToProfile([p \in Params |-> Validate(p, l.asked[p])])' =
          convertToProfile([p \in Params |-> Validate(p, l.asked[p])])
    BY <1>1 DEF convertToProfile
  <2> QED
    BY <1>1, <2>1, <2>2, <2>3
<1>6. FinalOK'
  <2>1. final' = None /\ ~panicked'
    BY <1>1 DEF Ready
  <2> QED
    BY <2>1 DEF FinalOK
<1> QED
  BY <1>4, <1>5, <1>6 DEF IInv


\* Entries stay right as long as the space stays.
LEMMA LogStays ==
    ASSUME LogOK, UNCHANGED <<paramNameMap, space, log>> PROVE LogOK'
<1>1. Params' = Params
  BY DEF Params
<1> SUFFICES ASSUME NEW l \in log
    PROVE (/\ l.asked \in [Params -> Int] /\ l.value \in Results \cup {Refused}
           /\ l.profile # None =>
                /\ \A p \in Params : InRange(p, l.asked[p])
                /\ l.profile \in
                     convertToProfile([p \in Params |-> Validate(p, l.asked[p])])
           /\ l.profile = None => l.value = Refused)'
  BY DEF LogOK
<1>2. /\ l.profile = None => l.value = Refused
      /\ l.asked \in [Params -> Int] /\ l.value \in Results \cup {Refused}
      /\ l.profile # None =>
           /\ \A p \in Params : InRange(p, l.asked[p])
           /\ l.profile \in
                convertToProfile([p \in Params |-> Validate(p, l.asked[p])])
  BY DEF LogOK
<1>3. convertToProfile([p \in Params |-> Validate(p, l.asked[p])])' =
        convertToProfile([p \in Params |-> Validate(p, l.asked[p])])
  BY <1>1 DEF convertToProfile
<1> QED
  BY <1>1, <1>2, <1>3

\* How tuning has ended, of a log that stays.
Ended(f, p) ==
    /\ f # None => IF round = Rounds
                   THEN \E e \in Best : f \in convertToProfile(e.asked)
                   ELSE round >= RandomRounds /\ f \in convertToProfile(<<>>)
    /\ p => \/ \E q \in Params : q.kind # "float" /\ Slots(q) <= 0
            \/ \E e \in Best : \E q \in Params : ~Indexable(q, e.asked[q])

LEMMA FinalStays ==
    ASSUME UNCHANGED <<paramNameMap, space, log, round>>,
           Ended(final', panicked')
    PROVE  FinalOK'
<1>1. Best' = Best /\ Params' = Params
  BY DEF Best, Params
<1>2. ASSUME final' # None, round = Rounds
      PROVE  \E e \in Best' : final' \in convertToProfile(e.asked)'
  <2>1. PICK e \in Best : final' \in convertToProfile(e.asked)
    BY <1>2 DEF Ended
  <2>2. convertToProfile(e.asked)' = convertToProfile(e.asked)
    BY DEF convertToProfile
  <2> QED
    BY <1>1, <2>1, <2>2
<1>3. ASSUME final' # None, round # Rounds
      PROVE  round' >= RandomRounds /\ final' \in convertToProfile(<<>>)'
  <2>1. convertToProfile(<<>>)' = convertToProfile(<<>>)
    BY DEF convertToProfile
  <2> QED
    BY <1>3, <2>1 DEF Ended
<1> QED
  BY <1>1, <1>2, <1>3 DEF Ended, FinalOK

\* What ends the rounds leaves the log alone.
LEMMA EndInv ==
    ASSUME IInv, Ready, UNCHANGED <<loading, round, log>>,
           panicked' \in BOOLEAN, Ended(final', panicked')
    PROVE  IInv'
<1>1. /\ UNCHANGED <<dir, next, space, paramNameMap, failed, round, log>>
      /\ Params' = Params /\ Names' = Names
  BY DEF loading, Params, Names
<1>2. ~(next <= Len(dir))
  BY SpaceAssumption DEF Ready, IInv, SpaceOK
<1>3. SpaceOK' /\ NamesOK'
  BY <1>1, <1>2 DEF IInv, SpaceOK, NamesOK
<1>4. LogOK'
  BY <1>1, LogStays DEF IInv
<1>5. FinalOK'
  BY <1>1, FinalStays
<1> QED
  BY <1>3, <1>4, <1>5 DEF IInv

\* A random round asks for integers.
LEMMA SampleTyped ==
    ASSUME NEW p, ParamOK(p) PROVE Sample(p) \subseteq Int
<1>1. CASE p.kind = "float"
  BY <1>1 DEF ParamOK, Sample, Grain
<1>2. CASE p.kind = "set"
  <2>1. Slots(p) \in Int /\ p.min = 0 /\ \A k \in 0..(Slots(p) - 1) : k * p.step = k
    BY <1>2 DEF ParamOK, Slots
  <2> HIDE DEF Slots
  <2> QED
    BY <1>2, <2>1 DEF Sample, Grain
<1>3. CASE p.kind = "int"
  <2>1. p.min \in Int /\ p.max \in Int /\ p.step \in Nat \ {0}
    BY <1>3 DEF ParamOK
  <2>2. p.max - p.min \in Int
    BY <2>1
  <2>3. Slots(p) \in Int
    BY <1>3, <2>1, <2>2, TruncNear DEF Slots
  <2> QED
    BY <1>3, <2>1, <2>3 DEF Sample, Grain
<1> QED
  BY <1>1, <1>2, <1>3 DEF ParamOK, ParamTypes

LEMMA StepInv == IInv /\ [Next]_vars => IInv'
<1> SUFFICES ASSUME IInv, [Next]_vars PROVE IInv'
  OBVIOUS
<1>1. CASE ReadFile
  BY <1>1, ReadInv
<1>2. CASE SkipFile
  BY <1>2, SkipInv
<1>3. CASE RandomRound
  <2>1. /\ Ready /\ round < RandomRounds /\ round' = round + 1
        /\ UNCHANGED <<loading, final, panicked>>
    BY <1>3 DEF RandomRound
  <2>2. PICK asked \in [Params -> UNION {Sample(p) : p \in Params}] :
          /\ \A p \in Params : asked[p] \in Sample(p)
          /\ Evaluate(asked)
    BY <1>3 DEF RandomRound
  <2>3. \A p \in Params : ParamOK(p)
    BY DEF IInv, SpaceOK, Params
  <2>4. asked \in [Params -> Int]
    BY <2>2, <2>3, SampleTyped
  <2>5. round < Rounds
    BY <2>1, SpaceAssumption DEF IInv, SpaceOK
  <2> QED
    BY <2>1, <2>2, <2>4, <2>5, RoundInv
<1>4. CASE SamplePanics
  <2>1. Ready /\ final = None /\ UNCHANGED <<loading, round, log, final>>
    BY <1>4 DEF SamplePanics, Ready
  <2>2. panicked' \in BOOLEAN /\ Ended(final', panicked')
    BY <1>4, <2>1 DEF SamplePanics, Ended
  <2> QED
    BY <2>1, <2>2, EndInv
<1>5. CASE ExploreRound
  <2>1. /\ Ready /\ round < Rounds /\ round' = round + 1
        /\ UNCHANGED <<loading, final, panicked>>
    BY <1>5 DEF ExploreRound
  <2>2. PICK asked \in [Params -> Explored] : Evaluate(asked)
    BY <1>5 DEF ExploreRound
  <2>3. asked \in [Params -> Int]
    BY <2>2, SpaceAssumption
  <2> QED
    BY <2>1, <2>2, <2>3, RoundInv
<1>6. CASE Settle
  <2>1. /\ Ready /\ UNCHANGED <<loading, round, log, panicked>> /\ round = Rounds
        /\ \E e \in Best : final' \in convertToProfile(e.asked)
    BY <1>6 DEF Settle
  <2>2. ~panicked'
    BY <2>1 DEF Ready
  <2>3. panicked' \in BOOLEAN /\ Ended(final', panicked')
    BY <2>1, <2>2 DEF Ended, IInv, SpaceOK
  <2> QED
    BY <2>1, <2>3, EndInv
<1>7. CASE SettlePanics
  <2>1. /\ Ready /\ final = None /\ UNCHANGED <<loading, round, log, final>>
        /\ panicked' = TRUE
    BY <1>7 DEF SettlePanics, Ready
  <2>2. \E e \in Best : \E p \in Params : ~Indexable(p, e.asked[p])
    <3>1. PICK e \in Best : \E p \in DOMAIN e.asked : ~Indexable(p, e.asked[p])
      BY <1>7 DEF SettlePanics
    <3>2. DOMAIN e.asked = Params
      BY DEF Best, IInv, LogOK
    <3> QED
      BY <3>1, <3>2
  <2>3. Ended(final', panicked')
    BY <2>1, <2>2 DEF Ended
  <2> QED
    BY <2>1, <2>3, EndInv
<1>8. CASE OptimizeFails
  <2>1. /\ Ready /\ UNCHANGED <<loading, round, log, panicked>>
        /\ RandomRounds <= round /\ round < Rounds
        /\ final' \in convertToProfile(<<>>)
    BY <1>8 DEF OptimizeFails
  <2>2. /\ ~panicked' /\ panicked' \in BOOLEAN
        /\ round \in Int /\ RandomRounds \in Int /\ Rounds \in Int
    BY <2>1, SpaceAssumption DEF Ready, IInv, SpaceOK
  <2>3. Ended(final', panicked')
    BY <2>1, <2>2 DEF Ended
  <2> QED
    BY <2>1, <2>2, <2>3, EndInv
<1>9. CASE UNCHANGED vars
  <2>1. /\ UNCHANGED <<dir, next, space, paramNameMap, failed, round, log,
                       final, panicked>>
        /\ Params' = Params /\ Names' = Names
    BY <1>9 DEF vars, loading, Params, Names
  <2>2. SpaceOK' /\ NamesOK'
    BY <2>1 DEF IInv, SpaceOK, NamesOK
  <2>3. LogOK'
    BY <2>1, LogStays DEF IInv
  <2>4. FinalOK'
    BY <2>1, FinalStays DEF IInv, FinalOK, Ended
  <2> QED
    BY <2>2, <2>3, <2>4 DEF IInv
<1> QED
  BY <1>1, <1>2, <1>3, <1>4, <1>5, <1>6, <1>7, <1>8, <1>9 DEF Next

LEMMA Invariance == Spec => []IInv
<1> QED
  BY InitInv, StepInv, PTL DEF Spec

-----------------------------------------------------------------------------
\* TypeOK, of InitSearchSpace and AutoTune: every name of the space has a
\* type that is known, and every number asked for is one of a parameter.
THEOREM TypeCorrect == Spec => []TypeOK
<1>1. IInv => TypeOK
  <2> SUFFICES ASSUME IInv PROVE TypeOK
    OBVIOUS
  <2>1. \A e \in log : DOMAIN e.asked = Params /\ e.value \in Results \cup {Refused}
    BY DEF IInv, LogOK
  <2> QED
    BY <2>1 DEF IInv, SpaceOK, NamesOK, TypeOK
<1> QED
  BY <1>1, Invariance, PTL

\* TunedWhereListed, of convertToProfile: whatever the directory, a profile
\* that is measured, and the final one after the last round, has one value per
\* name, for a plugin that one of the name's files is for; only an optimizer
\* that fails after its random rounds leaves an empty one.
THEOREM TunedRight == Spec => []TunedWhereListed
<1>1. ASSUME IInv, NEW asked, DOMAIN asked = Params,
             NEW profile \in convertToProfile(asked)
      PROVE  Listed(profile)
  <2>1. DOMAIN profile = Names /\ \A n \in Names : profile[n].type = paramNameMap[n]
    BY <1>1, ProfileFacts
  <2> QED
    BY <1>1, <2>1 DEF IInv, NamesOK, Listed
<1>2. ASSUME IInv, NEW profile \in Profiles PROVE Listed(profile)
  <2>1. PICK e \in log : e.profile = profile /\ e.profile # None
    BY <1>2 DEF Profiles
  <2>2. profile \in convertToProfile([p \in Params |-> Validate(p, e.asked[p])])
    BY <1>2, <2>1 DEF IInv, LogOK
  <2> QED
    BY <1>1, <1>2, <2>2
<1>3. ASSUME IInv, final # None, round = Rounds PROVE Listed(final)
  <2>1. PICK e \in log : final \in convertToProfile(e.asked)
    BY <1>3 DEF IInv, FinalOK, Best
  <2>2. DOMAIN e.asked = Params
    BY <1>3 DEF IInv, LogOK
  <2> QED
    BY <1>1, <1>3, <2>1, <2>2
<1>4. ASSUME IInv, final # None, round # Rounds
      PROVE  round >= RandomRounds /\ DOMAIN final = {}
  <2>1. round >= RandomRounds /\ final \in convertToProfile(<<>>)
    BY <1>4 DEF IInv, FinalOK
  <2>2. DOMAIN <<>> = {}
    OBVIOUS
  <2>3. {p.name : p \in DOMAIN <<>>} = {}
    BY <2>2
  <2> QED
    BY <2>1, <2>3 DEF convertToProfile
<1>5. IInv => TunedWhereListed
  BY <1>2, <1>3, <1>4 DEF TunedWhereListed
<1> QED
  BY <1>5, Invariance, PTL

\* What a number in range becomes.
LEMMA ValueInRange ==
    ASSUME NEW p, ParamOK(p), NEW v \in Int, InRange(p, v)
    PROVE  LET value == getValue(p, Validate(p, v)) IN
           CASE p.kind = "set" -> \/ value \in {p.values[i] : i \in 1..Len(p.values)}
                                  \/ v = Grain * p.max
             [] p.kind = "int" -> /\ value % p.step = 0
                                  /\ p.min - p.step < value /\ value < p.max + p.step
             [] OTHER -> Grain * p.min <= value /\ value <= Grain * p.max
<1>1. CASE p.kind = "set"
  <2> DEFINE k == Trunc(v, 2)
  <2>1. p.min = 0 /\ p.max = Len(p.values) /\ p.max \in Nat /\ 0 <= v /\ v <= 2 * p.max
    BY <1>1 DEF ParamOK, InRange, Grain
  <2>2. k \in Int /\ 2 * k <= v /\ 0 <= k
    BY <2>1, Quotient DEF Trunc
  <2>3. Validate(p, v) = 2 * k /\ Trunc(2 * k, 2) = k
    BY <1>1, <2>2, TruncHalves DEF Validate, Grain
  <2>4. ASSUME v # 2 * p.max PROVE k + 1 \in 1..Len(p.values)
    <3> HIDE DEF k
    <3> QED
      BY <2>1, <2>2, <2>4
  <2>5. v # 2 * p.max =>
          getValue(p, Validate(p, v)) = p.values[k + 1]
    <3> SUFFICES ASSUME v # 2 * p.max
                 PROVE getValue(p, Validate(p, v)) = p.values[k + 1]
      OBVIOUS
    <3>1. k \in 0..(Len(p.values) - 1)
      BY <2>1, <2>2, <2>4
    <3> QED
      BY <1>1, <2>3, <3>1 DEF getValue, Grain
  <2> HIDE DEF k
  <2> QED
    BY <1>1, <2>4, <2>5 DEF Grain
<1>2. CASE p.kind = "int"
  <2> DEFINE d == 2 * p.step
             k == Trunc(v, d)
  <2>1. /\ p.step \in Nat \ {0} /\ p.min \in Int /\ p.max \in Int
        /\ 2 * p.min <= v /\ v <= 2 * p.max /\ d \in Nat \ {0}
    BY <1>2 DEF ParamOK, InRange, Grain
  <2>2. k \in Int /\ v - d < d * k /\ d * k < v + d
    BY <2>1, TruncNear
  <2>3. Validate(p, v) = 2 * (p.step * k)
    <3>1. Validate(p, v) = 2 * p.step * Trunc(v, 2 * p.step)
      BY <1>2 DEF Validate, Grain
    <3> HIDE DEF k
    <3>2. 2 * p.step * k = 2 * (p.step * k)
      BY <2>1, <2>2
    <3> QED
      BY <3>1, <3>2 DEF k
  <2> HIDE DEF k
  <2>4. p.step * k \in Int
    BY <2>1, <2>2
  <2>5. getValue(p, Validate(p, v)) = p.step * k
    BY <1>2, <2>3, <2>4, TruncHalves DEF getValue, Grain
  <2>6. (p.step * k) % p.step = 0
    BY <2>1, <2>2, Multiple
  <2>7. d * k = 2 * (p.step * k)
    BY <2>1, <2>2
  <2> DEFINE m == p.step * k
  <2>8. m \in Int /\ v - 2 * p.step < 2 * m /\ 2 * m < v + 2 * p.step
    BY <2>2, <2>4, <2>7
  <2> HIDE DEF m
  <2>9. p.min - p.step < m /\ m < p.max + p.step
    BY <2>1, <2>8
  <2> QED
    BY <1>2, <2>5, <2>6, <2>9 DEF m
<1>3. CASE p.kind = "float"
  <2>1. getValue(p, Validate(p, v)) = v
    BY <1>3 DEF getValue, Validate
  <2> QED
    BY <1>3, <2>1 DEF InRange
<1> QED
  BY <1>1, <1>2, <1>3 DEF ParamOK, ParamTypes

\* ValuesAsRounded, of validateSample and getValue: a set's value is one of
\* the set, an integer a multiple of its step less than a step out of range.
THEOREM RoundedRight == Spec => []ValuesAsRounded
<1>1. IInv => ValuesAsRounded
  <2> SUFFICES ASSUME IInv, NEW e \in log, e.profile # None,
                      NEW p \in Params, Alone(p)
               PROVE  LET value == e.profile[p.name].value IN
       CASE p.kind = "set" -> \/ value \in {p.values[i] : i \in 1..Len(p.values)}
                              \/ e.asked[p] = Grain * p.max
         [] p.kind = "int" -> /\ value % p.step = 0
                              /\ p.min - p.step < value /\ value < p.max + p.step
         [] OTHER -> Grain * p.min <= value /\ value <= Grain * p.max
    BY DEF ValuesAsRounded
  <2>1. /\ e.asked[p] \in Int /\ InRange(p, e.asked[p])
        /\ e.profile \in convertToProfile([q \in Params |-> Validate(q, e.asked[q])])
    BY DEF IInv, LogOK
  <2>2. ParamOK(p)
    BY DEF IInv, SpaceOK, Params
  <2>3. e.profile[p.name].value = getValue(p, Validate(p, e.asked[p]))
    BY <2>1, ProfileFacts
  <2> QED
    BY <2>1, <2>2, <2>3, ValueInRange
<1> QED
  BY <1>1, Invariance, PTL

\* Rounding toward zero moves a number by less than a step.
LEMMA RoundedNear ==
    ASSUME NEW p, ParamOK(p), NEW v \in Int
    PROVE  LET was == getValue(p, Validate(p, v))
               is  == getValue(p, v)
           IN  IF p.kind = "int" THEN was - p.step < is /\ is < was + p.step
               ELSE is = was
<1>1. CASE p.kind = "set"
  <2>1. PICK k \in Int : k = Trunc(v, 2)
    <3>1. 2 \in Nat \ {0}
      OBVIOUS
    <3>2. Trunc(v, 2) \in Int
      BY <3>1, TruncNear
    <3> QED
      BY <3>2
  <2>2. Validate(p, v) = 2 * k /\ Trunc(2 * k, 2) = k
    BY <1>1, <2>1, TruncHalves DEF Validate, Grain
  <2> QED
    BY <1>1, <2>1, <2>2 DEF getValue, Grain
<1>2. CASE p.kind = "int"
  <2>1. PICK d \in Nat \ {0} : d = p.step
    BY <1>2 DEF ParamOK
  <2>2. 2 \in Nat \ {0} /\ 2 * d \in Nat \ {0}
    OBVIOUS
  <2>3. Trunc(v, 2 * d) \in Int /\ Trunc(v, 2) \in Int
    BY <2>2, TruncNear
  <2>4. PICK k \in Int, i \in Int : k = Trunc(v, 2 * d) /\ i = Trunc(v, 2)
    BY <2>3
  <2>5. PICK m \in Int : m = d * k
    OBVIOUS
  <2>6. Validate(p, v) = 2 * m /\ Trunc(2 * m, 2) = m
    <3>1. Validate(p, v) = 2 * d * k
      BY <1>2, <2>1, <2>4 DEF Validate, Grain
    <3>2. 2 * d * k = 2 * m
      BY <2>5
    <3> QED
      BY <3>1, <3>2, TruncHalves
  <2>7. getValue(p, Validate(p, v)) = m /\ getValue(p, v) = i
    BY <1>2, <2>4, <2>6 DEF getValue, Grain
  <2>8. /\ v - 2 * d < 2 * m /\ 2 * m < v + 2 * d
        /\ v >= 0 => 2 * m <= v
        /\ v <= 0 => v <= 2 * m
    <3>1. 2 * d \in Nat \ {0} /\ (2 * d) * k = 2 * m
      BY <2>5
    <3> QED
      BY <2>4, <3>1, TruncNear
  <2>9. /\ v - 2 < 2 * i /\ 2 * i < v + 2
        /\ v >= 0 => 2 * i <= v
        /\ v <= 0 => v <= 2 * i
    <3>1. /\ v - 2 < 2 * Trunc(v, 2) /\ 2 * Trunc(v, 2) < v + 2
          /\ v >= 0 => 2 * Trunc(v, 2) <= v
          /\ v <= 0 => v <= 2 * Trunc(v, 2)
      BY <2>2, TruncNear
    <3> QED
      BY <2>4, <3>1
  <2>10. m - d < i /\ i < m + d
    BY <2>8, <2>9
  <2> QED
    BY <1>2, <2>1, <2>7, <2>10
<1>3. CASE p.kind = "float"
  BY <1>3 DEF getValue, Validate
<1> QED
  BY <1>1, <1>2, <1>3 DEF ParamOK, ParamTypes

\* An index that is in the range of its set is within the array.
LEMMA RangeIndexable ==
    ASSUME NEW p, ParamOK(p), NEW v \in Int, InRange(p, v)
    PROVE  Indexable(p, v)
<1> SUFFICES ASSUME p.kind = "set"
             PROVE  Trunc(v, 2) \in 0..(SetMaxLength - 1)
  BY DEF Indexable, Grain
<1>1. 2 \in Nat \ {0}
  OBVIOUS
<1>2. Trunc(v, 2) \in Int /\ (v >= 0 => 0 <= Trunc(v, 2) /\ 2 * Trunc(v, 2) <= v)
  BY <1>1, TruncNear
<1>3. p.max \in Nat
  BY DEF ParamOK
<1>4. PICK k \in Int, n \in Nat : k = Trunc(v, 2) /\ n = p.max
  BY <1>2, <1>3
<1>5. 0 <= v /\ v <= 2 * n /\ n <= SetMaxLength - 1
  BY <1>4 DEF ParamOK, InRange, Grain
<1>6. 0 <= k /\ 2 * k <= v
  BY <1>4, <1>5, <1>2
<1>7. k <= n /\ SetMaxLength \in Nat
  BY <1>5, <1>6, SpaceAssumption
<1> QED
  BY <1>4, <1>5, <1>6, <1>7

\* TuningEnds, of AutoTune and SetParam.GetSetValue: whatever the library
\* proposes, the final profile after the last round, which nothing rounds, is
\* within a step of the best one measured, and the operator panics only for lack of a good run or
\* of a step in a range.
THEOREM EndsWell == Spec => []TuningEnds
<1>1. ASSUME IInv, \E e \in log : isBetter(Refused, e.value), NEW e \in Best
      PROVE  /\ e.profile # None /\ e.asked \in [Params -> Int]
             /\ \A p \in Params : InRange(p, e.asked[p])
             /\ e.profile \in
                  convertToProfile([p \in Params |-> Validate(p, e.asked[p])])
  <2>1. e \in log /\ \A other \in log : ~isBetter(e.value, other.value)
    BY DEF Best
  <2>2. e.value # Refused
    BY <1>1, <2>1
  <2> QED
    BY <1>1, <2>1, <2>2 DEF IInv, LogOK
<1>2. ASSUME IInv PROVE \A p \in Params : ParamOK(p)
  BY <1>2 DEF IInv, SpaceOK, Params
<1>3. IInv => FinalNearMeasured
  <2> SUFFICES ASSUME IInv, final # None, round = Rounds,
                      \E e \in log : isBetter(Refused, e.value)
               PROVE  \E e \in Best : e.profile # None /\ \A p \in Params : Alone(p) =>
                        LET was == e.profile[p.name].value
                            is  == final[p.name].value
                        IN  IF p.kind = "int" THEN was - p.step < is /\ is < was + p.step
                            ELSE is = was
    BY DEF FinalNearMeasured
  <2>1. PICK e \in Best : final \in convertToProfile(e.asked)
    BY DEF IInv, FinalOK
  <2>2. /\ e.profile # None /\ e.asked \in [Params -> Int]
        /\ e.profile \in
             convertToProfile([p \in Params |-> Validate(p, e.asked[p])])
    BY <1>1
  <2>3. ASSUME NEW p \in Params, Alone(p)
        PROVE  LET was == e.profile[p.name].value
                   is  == final[p.name].value
               IN  IF p.kind = "int" THEN was - p.step < is /\ is < was + p.step
                   ELSE is = was
    <3>1. e.profile[p.name].value = getValue(p, Validate(p, e.asked[p]))
      BY <2>2, <2>3, ProfileFacts
    <3>2. final[p.name].value = getValue(p, e.asked[p])
      BY <2>1, <2>2, <2>3, ProfileFacts
    <3>3. ParamOK(p) /\ e.asked[p] \in Int
      BY <1>2, <2>2
    <3> QED
      BY <3>1, <3>2, <3>3, RoundedNear
  <2> QED
    BY <2>2, <2>3
<1>4. IInv => PanicsForCause
  <2> SUFFICES ASSUME IInv, panicked, \E e \in log : isBetter(Refused, e.value),
                      NEW e \in Best, NEW p \in Params, ~Indexable(p, e.asked[p])
               PROVE  FALSE
    BY DEF IInv, FinalOK, PanicsForCause
  <2>1. InRange(p, e.asked[p]) /\ e.asked[p] \in Int /\ ParamOK(p)
    BY <1>1, <1>2
  <2> QED
    BY <2>1, RangeIndexable
<1> QED
  BY <1>3, <1>4, Invariance, PTL DEF TuningEnds
=============================================================================
