---------------------------- MODULE ResultProofs ----------------------------
(***************************************************************************)
(* Theorems about what becomes of results: the best ones of a benchmark    *)
(* (BestResult) and the gauge that shows those of all (ResultCollector).   *)
(* The two modules have no name in common, so one module extends both.     *)
(*                                                                         *)
(* Of BestResult: what the status shows was measured and nothing measured  *)
(* is better, for every number of scenarios, configurations and            *)
(* repetitions, every set of integer values, and parsers that fail or not. *)
(* The average of a configuration is a fold over the runs collected so     *)
(* far, so the proof first shows that such a fold is an integer.           *)
(***************************************************************************)
EXTENDS BestResult, ResultCollector, WellFoundedInduction, SequenceTheorems,
        TLAPS

-----------------------------------------------------------------------------
(***************************************************************************)
(* The sum of the values of a configuration's runs.                        *)
(***************************************************************************)

\* The least-number principle, for sets.
LEMMA LeastNatural ==
    ASSUME NEW T, T \subseteq Nat, T # {}
    PROVE  \E x \in T : \A y \in T : x <= y
<1> DEFINE Less == {ss \in Nat \X Nat : ss[1] < ss[2]}
<1>1. IsWellFoundedOn(Less, Nat)
  BY NatLessThanWellFounded DEF OpToRel
<1>2. PICK x \in T : \A y \in T : ~(<<y, x>> \in Less)
  BY <1>1, WFMin
<1>3. \A y \in T : ~(y < x)
  BY <1>2
<1> QED
  BY <1>3

\* Induction, for sets.
LEMMA AllNaturals ==
    ASSUME NEW S, 0 \in S, \A n \in Nat : n \in S => n + 1 \in S
    PROVE  Nat \subseteq S
<1>1. SUFFICES ASSUME Nat \ S # {} PROVE FALSE
  OBVIOUS
<1>2. PICK x \in Nat \ S : \A y \in Nat \ S : x <= y
  BY <1>1, LeastNatural
<1>3. x # 0 /\ x - 1 \in Nat
  BY <1>2
<1>4. x - 1 \in S
  BY <1>2, <1>3
<1>5. (x - 1) + 1 \in S
  BY <1>3, <1>4
<1> QED
  BY <1>2, <1>5

LEMMA MaxOfPositions ==
    ASSUME NEW k \in Nat, NEW s \in SUBSET (1..k), s # {}
    PROVE  Max(s) \in s /\ \A y \in s : Max(s) >= y
<1> DEFINE FromEnd == {k - y : y \in s}
<1>0. \A y \in s : y \in Int /\ y <= k /\ k - y \in Nat
  OBVIOUS
<1>1. FromEnd \subseteq Nat /\ FromEnd # {}
  BY <1>0
<1>2. PICK d \in FromEnd : \A e \in FromEnd : d <= e
  BY <1>1, LeastNatural
<1>3. PICK x \in s : d = k - x
  BY <1>2
<1>4. ASSUME NEW y \in s PROVE x >= y
  <2>1. k - x <= k - y
    BY <1>2, <1>3
  <2> QED
    BY <1>0, <2>1
<1> QED
  BY <1>4 DEF Max

\* The function FoldLeft iterates, for the sum of items.
SumStep(items, g, s) ==
    IF s = {} THEN 0 ELSE g[s \ {Max(s)}] + items[Max(s)]

LEMMA SumIsDefined ==
    ASSUME NEW n \in Nat, NEW items \in [1..n -> Int]
    PROVE  \E g \in [SUBSET (1..n) -> Int] :
              g = [s \in SUBSET (1..n) |-> SumStep(items, g, s)]
<1> DEFINE Exists(k) == \E g \in [SUBSET (1..k) -> Int] :
              \A s \in SUBSET (1..k) : g[s] = SumStep(items, g, s)
           Holds(k) == k <= n => Exists(k)
<1>1. Exists(0)
  <2> DEFINE g == [s \in SUBSET (1..0) |-> 0]
  <2>1. \A s \in SUBSET (1..0) : s = {}
    OBVIOUS
  <2>2. g \in [SUBSET (1..0) -> Int]
    OBVIOUS
  <2>3. \A s \in SUBSET (1..0) : g[s] = SumStep(items, g, s)
    BY <2>1 DEF SumStep
  <2> QED
    BY <2>2, <2>3
<1>2. ASSUME NEW k \in Nat, k + 1 <= n, Exists(k) PROVE Exists(k + 1)
  <2>1. PICK g \in [SUBSET (1..k) -> Int] :
          \A s \in SUBSET (1..k) : g[s] = SumStep(items, g, s)
    BY <1>2
  <2> DEFINE h == [s \in SUBSET (1..(k + 1)) |->
                     IF k + 1 \in s THEN g[s \ {k + 1}] + items[k + 1]
                                    ELSE g[s]]
  <2>2. \A s \in SUBSET (1..(k + 1)) : s \ {k + 1} \in SUBSET (1..k)
    OBVIOUS
  <2>3. items[k + 1] \in Int
    BY <1>2
  <2>4. h \in [SUBSET (1..(k + 1)) -> Int]
    <3> SUFFICES ASSUME NEW s \in SUBSET (1..(k + 1)) PROVE h[s] \in Int
      OBVIOUS
    <3>1. CASE k + 1 \in s
      BY <2>2, <2>3, <3>1
    <3>2. CASE k + 1 \notin s
      <4>1. s \in SUBSET (1..k)
        BY <2>2, <3>2
      <4> QED
        BY <3>2, <4>1
    <3> QED
      BY <3>1, <3>2
  <2>5. ASSUME NEW s \in SUBSET (1..(k + 1))
        PROVE  h[s] = SumStep(items, h, s)
    <3>1. CASE k + 1 \in s
      <4>1. Max(s) = k + 1
        <5>1. k + 1 \in Nat
          OBVIOUS
        <5>2. PICK x \in 1..(k + 1) : x = Max(s) /\ \A y \in s : x >= y
          BY <3>1, <5>1, MaxOfPositions
        <5> QED
          BY <3>1, <5>2
      <4>2. h[s \ {k + 1}] = g[s \ {k + 1}]
        BY <2>2
      <4>3. h[s] = g[s \ {k + 1}] + items[k + 1]
        BY <3>1
      <4> HIDE DEF h
      <4> QED
        BY <3>1, <4>1, <4>2, <4>3 DEF SumStep
    <3>2. CASE k + 1 \notin s
      <4>1. s \in SUBSET (1..k)
        BY <2>2, <3>2
      <4>2. h[s] = g[s] /\ g[s] = SumStep(items, g, s)
        BY <2>1, <3>2, <4>1
      <4>3. s # {} => Max(s) \in s
        BY <4>1, MaxOfPositions
      <4>4. s # {} => h[s \ {Max(s)}] = g[s \ {Max(s)}]
        BY <3>2, <4>1
      <4> HIDE DEF h
      <4> QED
        BY <4>2, <4>4 DEF SumStep
    <3> QED
      BY <3>1, <3>2
  <2> HIDE DEF h
  <2> QED
    BY <2>4, <2>5
<1>3. Exists(n)
  <2> HIDE DEF Exists
  <2>1. Holds(0) /\ \A k \in Nat : Holds(k) => Holds(k + 1)
    BY <1>1, <1>2
  <2> DEFINE S == {k \in Nat : Holds(k)}
  <2>2. n \in S
    <3> HIDE DEF Holds
    <3>1. 0 \in S /\ \A k \in Nat : k \in S => k + 1 \in S
      BY <2>1
    <3> HIDE DEF S
    <3> QED
      BY <3>1, AllNaturals
  <2> QED
    BY <2>2
<1>4. PICK g \in [SUBSET (1..n) -> Int] :
        \A s \in SUBSET (1..n) : g[s] = SumStep(items, g, s)
  BY <1>3
<1>5. g = [s \in SUBSET (1..n) |-> SumStep(items, g, s)]
  BY <1>4
<1> WITNESS g \in [SUBSET (1..n) -> Int]
<1> QED
  BY <1>5

\* The sum of integers is an integer.
LEMMA SumType ==
    ASSUME NEW items \in Seq(Int)
    PROVE  Sum(items) \in Int
<1>1. PICK n \in Nat : /\ n = Len(items) /\ items \in [1..n -> Int]
                       /\ DOMAIN items = 1..n
  OBVIOUS
<1> DEFINE it == CHOOSE g : g = [s \in SUBSET (1..n) |-> SumStep(items, g, s)]
           AllInt(k) == \A s \in SUBSET (1..k) : it[s] \in Int
           Holds(k) == k <= n => AllInt(k)
<1>2. Sum(items) = it[1..n]
  BY <1>1, Zenon DEF Sum, FoldLeft, MapThenFoldSet, SumStep
<1>3. it = [s \in SUBSET (1..n) |-> SumStep(items, it, s)]
  <2>1. \E g : g = [s \in SUBSET (1..n) |-> SumStep(items, g, s)]
    BY <1>1, SumIsDefined
  <2> QED
    BY <2>1, Zenon
<1> HIDE DEF it
<1>4. \A s \in SUBSET (1..n) : it[s] = SumStep(items, it, s)
  BY <1>3, Zenon
<1>5. it[{}] = 0
  BY <1>4 DEF SumStep
<1>6. AllInt(0)
  <2> SUFFICES ASSUME NEW s \in SUBSET (1..0) PROVE it[s] \in Int
    OBVIOUS
  <2>1. s = {}
    OBVIOUS
  <2> QED
    BY <1>5, <2>1
<1>7. ASSUME NEW k \in Nat, k + 1 <= n, AllInt(k),
             NEW s \in SUBSET (1..(k + 1))
      PROVE  it[s] \in Int
  <2>1. s \in SUBSET (1..n)
    BY <1>1, <1>7
  <2>2. CASE s = {}
    BY <1>5, <2>2
  <2>3. CASE s # {}
    <3>1. Max(s) \in s /\ \A y \in s : Max(s) >= y
      <4>1. k + 1 \in Nat
        OBVIOUS
      <4> QED
        BY <2>3, <4>1, MaxOfPositions
    <3>2. PICK x \in 1..(k + 1) : x = Max(s)
      BY <3>1
    <3>3. \A y \in s \ {x} : y \in 1..k
      BY <3>1, <3>2
    <3>4. items[x] \in Int
      BY <1>1, <1>7, <3>2
    <3>5. it[s \ {x}] \in Int
      BY <1>7, <3>3
    <3>6. it[s] = it[s \ {x}] + items[x]
      BY <1>4, <2>1, <2>3, <3>2 DEF SumStep
    <3> QED
      BY <3>4, <3>5, <3>6
  <2> QED
    BY <2>2, <2>3
<1>8. AllInt(n)
  <2>1. ASSUME NEW k \in Nat, k + 1 <= n, AllInt(k) PROVE AllInt(k + 1)
    BY <1>7, <2>1
  <2> HIDE DEF AllInt
  <2>2. Holds(0) /\ \A k \in Nat : Holds(k) => Holds(k + 1)
    BY <1>6, <2>1
  <2> DEFINE S == {k \in Nat : Holds(k)}
  <2>3. n \in S
    <3> HIDE DEF Holds
    <3>1. 0 \in S /\ \A k \in Nat : k \in S => k + 1 \in S
      BY <2>2
    <3> HIDE DEF S
    <3> QED
      BY <3>1, AllNaturals
  <2> QED
    BY <2>3
<1>9. it[1..n] \in Int
  BY <1>8
<1> QED
  BY <1>2, <1>9

-----------------------------------------------------------------------------
(***************************************************************************)
(* Runs of a configuration and comparisons of averages.                    *)
(***************************************************************************)

\* What one more run makes of the runs of a configuration.
LEMMA RunAdded ==
    ASSUME NEW items \in Seq(Int), NEW value \in Int
    PROVE  /\ Append(items, value) \in Seq(Int)
           /\ Len(items) \in Nat /\ Len(Append(items, value)) = Len(items) + 1
           /\ Append(items, value) # items
           /\ Range(items) \subseteq Range(Append(items, value))
           /\ value \in Range(Append(items, value))
           /\ SubSeq(Append(items, value), 1, Len(items) + 1)
                = Append(items, value)
           /\ \A n \in 1..Len(items) :
                SubSeq(Append(items, value), 1, n) = SubSeq(items, 1, n)
<1> DEFINE new == Append(items, value)
<1>1. /\ new \in Seq(Int) /\ Len(items) \in Nat /\ Len(new) = Len(items) + 1
      /\ new[Len(items) + 1] = value
      /\ \A i \in 1..Len(items) : new[i] = items[i]
  OBVIOUS
<1>2. DOMAIN items = 1..Len(items) /\ DOMAIN new = 1..(Len(items) + 1)
  BY <1>1
<1> HIDE DEF new
<1>3. Range(items) \subseteq Range(new) /\ value \in Range(new)
  BY <1>1, <1>2 DEF Range
<1>4. SubSeq(new, 1, Len(items) + 1) = new
  BY <1>1
<1>5. ASSUME NEW n \in 1..Len(items)
      PROVE  SubSeq(new, 1, n) = SubSeq(items, 1, n)
  <2>1. /\ n \in Nat /\ \A i \in 1..n : new[i] = items[i]
        /\ SubSeq(new, 1, n) = [i \in 1..n |-> new[i]]
        /\ SubSeq(items, 1, n) = [i \in 1..n |-> items[i]]
    BY <1>1
  <2> QED
    BY <2>1
<1> QED
  BY <1>1, <1>3, <1>4, <1>5 DEF new

\* Fractions with positive denominators.
IsFraction(a) == a.sum \in Int /\ a.count \in Nat \ {0}

LEMMA AverageType ==
    ASSUME NEW c, NEW items \in Seq(Int), items # <<>>
    PROVE  IsFraction(Average(c, items))
<1>1. Sum(items) \in Int /\ Len(items) \in Nat /\ Len(items) # 0
  BY SumType
<1> QED
  BY <1>1 DEF Average, IsFraction

\* The code's comparison is that of the fractions.
LEMMA BetterIsBeats ==
    ASSUME NEW a, NEW b, IsFraction(a), IsFraction(b)
    PROVE  isBetterResult(a, b) <=> Beats(b, a)
<1>1. /\ b.sum * a.count \in Int /\ a.sum * b.count \in Int
  BY DEF IsFraction
<1> QED
  BY <1>1 DEF isBetterResult, Beats

\* A product with a positive factor keeps the order.
LEMMA TimesPositive ==
    ASSUME NEW x \in Int, NEW y \in Int, NEW d \in Nat \ {0}
    PROVE  x <= y <=> x * d <= y * d
  OBVIOUS

LEMMA FactorsSwap ==
    ASSUME NEW x \in Int, NEW y \in Int, NEW z \in Int
    PROVE  (x * y) * z = (x * z) * y /\ (x * y) * z \in Int
  OBVIOUS

\* The order of fractions is transitive.
LEMMA CrossMultiply ==
    ASSUME NEW x \in Int, NEW y \in Int, NEW z \in Int,
           NEW k \in Nat \ {0}, NEW m \in Nat \ {0}, NEW n \in Nat \ {0},
           x * m <= y * k, y * n <= z * m
    PROVE  x * n <= z * k
<1>1. /\ x * m \in Int /\ y * k \in Int /\ y * n \in Int /\ z * m \in Int
      /\ x * n \in Int /\ z * k \in Int
  OBVIOUS
<1>2. PICK p \in Int : p = (x * m) * n /\ p = (x * n) * m
  BY FactorsSwap
<1>3. PICK q \in Int : q = (y * k) * n /\ q = (y * n) * k
  BY FactorsSwap
<1>4. PICK r \in Int : r = (z * m) * k /\ r = (z * k) * m
  BY FactorsSwap
<1>5. (x * m) * n <= (y * k) * n
  BY <1>1, TimesPositive
<1>6. (y * n) * k <= (z * m) * k
  BY <1>1, TimesPositive
<1>7. p <= r
  <2>1. p <= q
    BY <1>2, <1>3, <1>5
  <2>2. q <= r
    BY <1>3, <1>4, <1>6
  <2> QED
    BY <2>1, <2>2
<1>8. (x * n) * m <= (z * k) * m
  BY <1>2, <1>4, <1>7
<1> QED
  BY <1>1, <1>8, TimesPositive

LEMMA BeatsIrreflexive ==
    ASSUME NEW a, IsFraction(a)
    PROVE  ~Beats(a, a)
<1>1. PICK x \in Int : x = a.sum * a.count
  BY DEF IsFraction
<1>2. x - x = 0
  BY <1>1
<1> QED
  BY <1>1, <1>2 DEF Beats

\* What does not beat a fraction does not beat one that does.
LEMMA BeatsTransitive ==
    ASSUME NEW a, NEW b, NEW c,
           IsFraction(a), IsFraction(b), IsFraction(c),
           ~Beats(a, b), Beats(c, b)
    PROVE  ~Beats(a, c)
<1>1. PICK x \in Int, y \in Int, z \in Int :
        x = a.sum /\ y = b.sum /\ z = c.sum
  BY DEF IsFraction
<1>2. PICK k \in Nat \ {0}, m \in Nat \ {0}, n \in Nat \ {0} :
        k = a.count /\ m = b.count /\ n = c.count
  BY DEF IsFraction
<1>3. /\ x * m \in Int /\ y * k \in Int /\ y * n \in Int /\ z * m \in Int
      /\ x * n \in Int /\ z * k \in Int
  OBVIOUS
<1>4. CASE Minimize
  <2>1. z * m <= y * n /\ y * k <= x * m
    BY <1>1, <1>2, <1>3, <1>4 DEF Beats
  <2>2. z * k <= x * n
    BY <2>1, CrossMultiply
  <2> QED
    BY <1>1, <1>2, <1>3, <1>4, <2>2 DEF Beats
<1>5. CASE ~Minimize
  <2>1. x * m <= y * k /\ y * n <= z * m
    BY <1>1, <1>2, <1>3, <1>5 DEF Beats
  <2>2. x * n <= z * k
    BY <2>1, CrossMultiply
  <2> QED
    BY <1>1, <1>2, <1>3, <1>5, <2>2 DEF Beats
<1> QED
  BY <1>4, <1>5

-----------------------------------------------------------------------------
(***************************************************************************)
(* One update of the status.                                               *)
(***************************************************************************)
\* An entry shown is a fraction.
LEMMA EntryType ==
    ASSUME TypeOK, NEW k \in Scenarios \X Keys, bestResults[k] # NoEntry
    PROVE  /\ bestResults[k] \in Entries /\ IsFraction(bestResults[k])
           /\ bestResults[k].config \in Configs
  BY DEF TypeOK, Entries, IsFraction

\* The runs of a configuration with a new one, and their average.
RunsAfter(s, c, response) == Append(results[<<s, c>>], response.value)
NewAverage(s, c, response) == Average(c, RunsAfter(s, c, response))

LEMMA ResponseType ==
    ASSUME NEW response \in Responses
    PROVE  /\ response.value \in Int /\ response.key \in Keys
           /\ response.key = Key \/ response.value = Error
<1>1. CASE response \in [key : {Key}, value : Values]
  BY <1>1, BestAssumption DEF Keys
<1>2. CASE response = [key |-> NoKey, value |-> Error]
  <2>1. Error \in Int
    BY DEF Error
  <2> QED
    BY <1>2, <2>1 DEF Keys
<1> QED
  BY <1>1, <1>2, Zenon DEF Responses

LEMMA NewAverageType ==
    ASSUME TypeOK, NEW s \in Scenarios, NEW c \in Configs,
           NEW response \in Responses, Len(results[<<s, c>>]) < Repetitions
    PROVE  /\ results[<<s, c>>] \in Seq(Int)
           /\ RunsAfter(s, c, response) \in Seq(Int)
           /\ RunsAfter(s, c, response) # <<>>
           /\ Len(RunsAfter(s, c, response)) <= Repetitions
           /\ NewAverage(s, c, response) \in Entries
           /\ IsFraction(NewAverage(s, c, response))
           /\ NewAverage(s, c, response) # NoEntry
<1>0. /\ results[<<s, c>>] \in Seq(Int) /\ response.value \in Int
      /\ Repetitions \in Nat
  BY ResponseType, BestAssumption DEF TypeOK
<1>1. PICK items \in Seq(Int) : items = RunsAfter(s, c, response)
  <2>1. RunsAfter(s, c, response) \in Seq(Int)
    BY <1>0 DEF RunsAfter
  <2> QED
    BY <2>1
<1>2. items # <<>> /\ Len(items) \in 1..Repetitions
  BY <1>0, <1>1 DEF RunsAfter
<1>3. Sum(items) \in Int
  BY SumType
<1>4. NewAverage(s, c, response) =
        [config |-> c, sum |-> Sum(items), count |-> Len(items)]
  BY <1>1 DEF NewAverage, Average
<1> HIDE DEF NewAverage
<1>5. NewAverage(s, c, response) \in Entries
  BY <1>2, <1>3, <1>4 DEF Entries
<1>6. /\ IsFraction(NewAverage(s, c, response))
      /\ NewAverage(s, c, response) # NoEntry
  BY <1>2, <1>3, <1>4 DEF IsFraction, NoEntry
<1> QED
  BY <1>0, <1>1, <1>2, <1>5, <1>6

\* What an update leaves and what it changes.
LEMMA Update ==
    ASSUME TypeOK, NEW s \in Scenarios, NEW c \in Configs,
           NEW response \in Responses, updateBenchmarkStatus(s, c, response)
    PROVE  /\ Len(results[<<s, c>>]) < Repetitions
           /\ <<s, response.key>> \in Scenarios \X Keys
           /\ results'[<<s, c>>] = RunsAfter(s, c, response)
           /\ \A i \in Scenarios \X Configs :
                i # <<s, c>> => results'[i] = results[i]
           /\ \A i \in Scenarios \X Keys :
                i # <<s, response.key>> => bestResults'[i] = bestResults[i]
           /\ \/ /\ bestResults'[<<s, response.key>>] =
                       NewAverage(s, c, response)
                 /\ \/ bestResults[<<s, response.key>>] = NoEntry
                    \/ Beats(NewAverage(s, c, response),
                             bestResults[<<s, response.key>>])
              \/ /\ bestResults'[<<s, response.key>>] =
                       bestResults[<<s, response.key>>]
                 /\ bestResults[<<s, response.key>>] # NoEntry
                 /\ ~Beats(NewAverage(s, c, response),
                           bestResults[<<s, response.key>>])
           /\ results' \in [Scenarios \X Configs -> Seq(Int)]
           /\ bestResults' \in [Scenarios \X Keys -> Entries \cup {NoEntry}]
<1>0. <<s, response.key>> \in Scenarios \X Keys
  BY ResponseType
<1>1. PICK k \in Scenarios \X Keys : k = <<s, response.key>>
  BY <1>0
<1>2. PICK new : new = NewAverage(s, c, response)
  OBVIOUS
<1>3. /\ Len(results[<<s, c>>]) < Repetitions
      /\ results' = [results EXCEPT ![<<s, c>>] = RunsAfter(s, c, response)]
      /\ bestResults' =
           IF bestResults[k] = NoEntry \/ isBetterResult(bestResults[k], new)
           THEN [bestResults EXCEPT ![k] = new]
           ELSE bestResults
  BY <1>1, <1>2 DEF updateBenchmarkStatus, RunsAfter, NewAverage
<1>4. /\ RunsAfter(s, c, response) \in Seq(Int)
      /\ new \in Entries /\ IsFraction(new)
  BY <1>2, <1>3, NewAverageType
<1>5. /\ results \in [Scenarios \X Configs -> Seq(Int)]
      /\ bestResults \in [Scenarios \X Keys -> Entries \cup {NoEntry}]
  BY DEF TypeOK
<1>6. bestResults[k] # NoEntry =>
        (isBetterResult(bestResults[k], new) <=> Beats(new, bestResults[k]))
  BY <1>4, EntryType, BetterIsBeats
<1>7. /\ results'[<<s, c>>] = RunsAfter(s, c, response)
      /\ \A i \in Scenarios \X Configs :
           i # <<s, c>> => results'[i] = results[i]
      /\ results' \in [Scenarios \X Configs -> Seq(Int)]
  BY <1>3, <1>4, <1>5
<1>8. /\ \A i \in Scenarios \X Keys : i # k => bestResults'[i] = bestResults[i]
      /\ \/ /\ bestResults'[k] = new
            /\ bestResults[k] = NoEntry \/ Beats(new, bestResults[k])
         \/ /\ bestResults'[k] = bestResults[k]
            /\ bestResults[k] # NoEntry
            /\ ~Beats(new, bestResults[k])
      /\ bestResults' \in [Scenarios \X Keys -> Entries \cup {NoEntry}]
  <2>1. CASE bestResults[k] = NoEntry \/ isBetterResult(bestResults[k], new)
    BY <1>3, <1>4, <1>5, <1>6, <2>1
  <2>2. CASE ~(bestResults[k] = NoEntry
                 \/ isBetterResult(bestResults[k], new))
    BY <1>3, <1>4, <1>5, <1>6, <2>2
  <2> QED
    BY <2>1, <2>2
<1> QED
  BY <1>0, <1>1, <1>2, <1>3, <1>7, <1>8

-----------------------------------------------------------------------------
(***************************************************************************)
(* Types, and the three parts of BestIsRight.                              *)
(***************************************************************************)
LEMMA TypeInit == Init => TypeOK
<1> SUFFICES ASSUME Init PROVE TypeOK
  OBVIOUS
<1>1. /\ <<>> \in Seq(Int) /\ Len(<<>>) = 0
  OBVIOUS
<1> QED
  BY <1>1, BestAssumption DEF Init, TypeOK

LEMMA TypeNext ==
    ASSUME TypeOK, NEW s \in Scenarios, NEW c \in Configs,
           NEW response \in Responses, updateBenchmarkStatus(s, c, response)
    PROVE  TypeOK'
<1>1. /\ Len(results[<<s, c>>]) < Repetitions
      /\ results'[<<s, c>>] = RunsAfter(s, c, response)
      /\ \A i \in Scenarios \X Configs : i # <<s, c>> => results'[i] = results[i]
      /\ results' \in [Scenarios \X Configs -> Seq(Int)]
      /\ bestResults' \in [Scenarios \X Keys -> Entries \cup {NoEntry}]
  BY Update
<1>2. Len(RunsAfter(s, c, response)) <= Repetitions
  BY <1>1, NewAverageType
<1>3. \A i \in Scenarios \X Configs : Len(results'[i]) <= Repetitions
  BY <1>1, <1>2 DEF TypeOK
<1> QED
  BY <1>1, <1>3 DEF TypeOK

\* The configuration that is updated is compared with the best one, and what
\* did not beat the best one does not beat a better one.
LEMMA NothingBetterNext ==
    ASSUME TypeOK, NothingBetter, NEW s \in Scenarios, NEW c \in Configs,
           NEW response \in Responses, updateBenchmarkStatus(s, c, response)
    PROVE  NothingBetter'
<1>1. PICK k : k = <<s, response.key>>
  OBVIOUS
<1>2. PICK new : new = NewAverage(s, c, response)
  OBVIOUS
<1>3. /\ k \in Scenarios \X Keys /\ Len(results[<<s, c>>]) < Repetitions
      /\ results'[<<s, c>>] = RunsAfter(s, c, response)
      /\ \A i \in Scenarios \X Configs : i # <<s, c>> => results'[i] = results[i]
      /\ \A i \in Scenarios \X Keys : i # k => bestResults'[i] = bestResults[i]
      /\ \/ /\ bestResults'[k] = new
            /\ bestResults[k] = NoEntry \/ Beats(new, bestResults[k])
         \/ /\ bestResults'[k] = bestResults[k]
            /\ bestResults[k] # NoEntry
            /\ ~Beats(new, bestResults[k])
  BY <1>1, <1>2, Update
<1>4. /\ results[<<s, c>>] \in Seq(Int) /\ response.value \in Int
      /\ response.key = Key \/ response.value = Error
      /\ IsFraction(new) /\ new # NoEntry
  BY <1>2, <1>3, NewAverageType, ResponseType
<1> SUFFICES ASSUME NEW z \in Scenarios, NEW d \in Measured(z)'
             PROVE  /\ bestResults'[<<z, Key>>] # NoEntry
                    /\ ~Beats(Average(d, results'[<<z, d>>]),
                              bestResults'[<<z, Key>>])
  BY Zenon DEF NothingBetter
<1>0. /\ d \in Configs /\ results'[<<z, d>>] # <<>>
      /\ Error \notin Range(results'[<<z, d>>])
  BY DEF Measured
<1>5. <<z, Key>> \in Scenarios \X Keys /\ <<z, d>> \in Scenarios \X Configs
  BY <1>0 DEF Keys
<1>6. CASE z = s /\ d = c
  <2>1. k = <<z, Key>>
    <3>1. response.value \in Range(RunsAfter(s, c, response))
      BY <1>4, RunAdded DEF RunsAfter
    <3> QED
      BY <1>0, <1>1, <1>3, <1>4, <1>6, <3>1
  <2>2. Average(d, results'[<<z, d>>]) = new
    BY <1>2, <1>3, <1>6 DEF NewAverage
  <2> QED
    BY <1>3, <1>4, <2>1, <2>2, BeatsIrreflexive
<1>7. CASE ~(z = s /\ d = c)
  <2>1. results'[<<z, d>>] = results[<<z, d>>]
    BY <1>3, <1>5, <1>7
  <2>2. PICK old : old = Average(d, results[<<z, d>>])
    OBVIOUS
  <2>3. /\ bestResults[<<z, Key>>] # NoEntry
        /\ ~Beats(old, bestResults[<<z, Key>>])
    BY <1>0, <2>1, <2>2 DEF NothingBetter, Measured
  <2>4. IsFraction(old)
    <3>1. results[<<z, d>>] \in Seq(Int)
      BY <1>5 DEF TypeOK
    <3> QED
      BY <1>0, <2>1, <2>2, <3>1, AverageType
  <2>5. IsFraction(bestResults[<<z, Key>>])
    BY <1>5, <2>3, EntryType
  <2>6. CASE bestResults'[<<z, Key>>] = bestResults[<<z, Key>>]
    BY <2>1, <2>2, <2>3, <2>6
  <2>7. CASE bestResults'[<<z, Key>>] # bestResults[<<z, Key>>]
    <3>1. k = <<z, Key>>
      BY <1>3, <1>5, <2>7
    <3>2. /\ bestResults'[<<z, Key>>] = new
          /\ Beats(new, bestResults[<<z, Key>>])
      BY <1>3, <2>3, <2>7, <3>1
    <3>3. ~Beats(old, new)
      BY <1>4, <2>3, <2>4, <2>5, <3>2, BeatsTransitive
    <3> QED
      BY <1>4, <2>1, <2>2, <3>2, <3>3
  <2> QED
    BY <2>6, <2>7
<1> QED
  BY <1>6, <1>7

\* A new best result is the average of all runs of its configuration; those
\* an old one was made of are still the first of theirs.
LEMMA BestWasMeasuredNext ==
    ASSUME TypeOK, BestWasMeasured, NEW s \in Scenarios, NEW c \in Configs,
           NEW response \in Responses, updateBenchmarkStatus(s, c, response)
    PROVE  BestWasMeasured'
<1>1. PICK k : k = <<s, response.key>>
  OBVIOUS
<1>2. PICK items : items = RunsAfter(s, c, response)
  OBVIOUS
<1>3. /\ k \in Scenarios \X Keys /\ Len(results[<<s, c>>]) < Repetitions
      /\ results'[<<s, c>>] = items
      /\ \A i \in Scenarios \X Configs : i # <<s, c>> => results'[i] = results[i]
      /\ \A i \in Scenarios \X Keys : i # k => bestResults'[i] = bestResults[i]
      /\ bestResults'[k] \in {Average(c, items), bestResults[k]}
  BY <1>1, <1>2, Update DEF NewAverage
<1>4. results[<<s, c>>] \in Seq(Int) /\ response.value \in Int
  BY <1>3, NewAverageType, ResponseType
<1>5. /\ items \in Seq(Int) /\ Len(results[<<s, c>>]) \in Nat
      /\ Len(items) = Len(results[<<s, c>>]) + 1
      /\ SubSeq(items, 1, Len(items)) = items
      /\ \A n \in 1..Len(results[<<s, c>>]) :
           SubSeq(items, 1, n) = SubSeq(results[<<s, c>>], 1, n)
  <2>1. PICK runs \in Seq(Int), value \in Int :
          runs = results[<<s, c>>] /\ value = response.value
    BY <1>4
  <2>2. items = Append(runs, value)
    BY <1>2, <2>1 DEF RunsAfter
  <2>3. /\ items \in Seq(Int) /\ Len(runs) \in Nat
        /\ Len(items) = Len(runs) + 1
        /\ SubSeq(items, 1, Len(runs) + 1) = items
        /\ \A n \in 1..Len(runs) : SubSeq(items, 1, n) = SubSeq(runs, 1, n)
    BY <2>2, RunAdded
  <2> QED
    BY <2>1, <2>3
<1> SUFFICES ASSUME NEW z \in Scenarios, bestResults'[<<z, Key>>] # NoEntry
             PROVE  LET best == bestResults'[<<z, Key>>]
                        runs == results'[<<z, best.config>>]
                    IN  /\ best.count <= Len(runs)
                        /\ best = Average(best.config,
                                          SubSeq(runs, 1, best.count))
  BY DEF BestWasMeasured
<1>6. PICK best : best = bestResults'[<<z, Key>>]
  OBVIOUS
<1>7. <<z, Key>> \in Scenarios \X Keys
  BY DEF Keys
<1>8. CASE best = bestResults[<<z, Key>>]
  <2>1. best \in Entries /\ best.config \in Configs /\ best.count \in Nat \ {0}
    BY <1>6, <1>7, <1>8, EntryType DEF IsFraction
  <2>2. PICK runs : runs = results[<<z, best.config>>]
    OBVIOUS
  <2>3. /\ best.count <= Len(runs)
        /\ best = Average(best.config, SubSeq(runs, 1, best.count))
    BY <1>6, <1>8, <2>2 DEF BestWasMeasured
  <2>4. CASE <<z, best.config>> = <<s, c>>
    <3>1. runs = results[<<s, c>>] /\ results'[<<z, best.config>>] = items
      BY <1>3, <2>2, <2>4
    <3>2. best.count \in 1..Len(results[<<s, c>>])
      BY <1>5, <2>1, <2>3, <3>1
    <3>3. SubSeq(items, 1, best.count) = SubSeq(runs, 1, best.count)
      BY <1>5, <3>1, <3>2
    <3>4. best.count <= Len(items)
      BY <1>5, <3>2
    <3> QED
      BY <1>6, <2>3, <3>1, <3>3, <3>4
  <2>5. CASE <<z, best.config>> # <<s, c>>
    <3>1. results'[<<z, best.config>>] = runs
      BY <1>3, <2>1, <2>2, <2>5
    <3> QED
      BY <1>6, <2>3, <3>1
  <2> QED
    BY <2>4, <2>5
<1>9. CASE best # bestResults[<<z, Key>>]
  <2>1. k = <<z, Key>> /\ best = Average(c, items)
    BY <1>3, <1>6, <1>7, <1>9
  <2>2. z = s /\ best.config = c /\ best.count = Len(items)
    BY <1>1, <2>1 DEF Average
  <2>3. results'[<<z, best.config>>] = items
    BY <1>3, <2>2
  <2>4. best.count <= Len(items)
    BY <1>5, <2>2
  <2>5. best = Average(best.config, SubSeq(items, 1, best.count))
    BY <1>5, <2>1, <2>2
  <2> QED
    BY <1>6, <2>3, <2>4, <2>5
<1> QED
  BY <1>8, <1>9

-----------------------------------------------------------------------------
(***************************************************************************)
(* Theorems.                                                               *)
(***************************************************************************)
LEMMA RightInit == Init => BestIsRight
<1> SUFFICES ASSUME Init PROVE BestIsRight
  OBVIOUS
<1>1. /\ \A i \in Scenarios \X Configs : results[i] = <<>>
      /\ \A i \in Scenarios \X Keys : bestResults[i] = NoEntry
  BY DEF Init
<1>2. \A z \in Scenarios : bestResults[<<z, Key>>] = NoEntry
  BY <1>1 DEF Keys
<1>3. NothingBetter
  BY <1>1 DEF NothingBetter, Measured
<1>4. BestWasMeasured
  BY <1>2 DEF BestWasMeasured
<1> QED
  BY <1>3, <1>4, TypeInit DEF BestIsRight

LEMMA RightStutter ==
    ASSUME BestIsRight, UNCHANGED vars
    PROVE  BestIsRight'
  BY DEF vars, BestIsRight, TypeOK, NothingBetter, Measured, BestWasMeasured

LEMMA RightNext == BestIsRight /\ [Next]_vars => BestIsRight'
<1> SUFFICES ASSUME BestIsRight, Next PROVE BestIsRight'
  BY RightStutter
<1>1. PICK s \in Scenarios, c \in Configs, response \in Responses :
        updateBenchmarkStatus(s, c, response)
  BY DEF Next
<1> QED
  BY <1>1, TypeNext, NothingBetterNext, BestWasMeasuredNext DEF BestIsRight

\* Whatever the order in which jobs complete, no average of a configuration's
\* runs is better than the best result shown for its scenario, and that one
\* is the average of the first runs of its configuration.
THEOREM BestResultIsRight == Spec => []BestIsRight
  BY RightInit, RightNext, PTL DEF Spec

LEMMA ImprovesNext ==
    ASSUME TypeOK, Next, NEW k \in Scenarios \X Keys,
           bestResults[k] # NoEntry, bestResults'[k] # bestResults[k]
    PROVE  /\ Beats(bestResults'[k], bestResults[k])
           /\ results'[<<k[1], bestResults'[k].config>>]
                # results[<<k[1], bestResults'[k].config>>]
<1>1. PICK s \in Scenarios, c \in Configs, response \in Responses :
        updateBenchmarkStatus(s, c, response)
  BY DEF Next
<1>2. /\ k = <<s, response.key>>
      /\ bestResults'[k] = NewAverage(s, c, response)
      /\ Beats(NewAverage(s, c, response), bestResults[k])
      /\ results'[<<s, c>>] = RunsAfter(s, c, response)
      /\ Len(results[<<s, c>>]) < Repetitions
  <2>1. PICK m : m = <<s, response.key>>
    OBVIOUS
  <2>2. PICK new : new = NewAverage(s, c, response)
    OBVIOUS
  <2>3. /\ Len(results[<<s, c>>]) < Repetitions
        /\ results'[<<s, c>>] = RunsAfter(s, c, response)
        /\ \A i \in Scenarios \X Keys : i # m => bestResults'[i] = bestResults[i]
        /\ \/ /\ bestResults'[m] = new
              /\ bestResults[m] = NoEntry \/ Beats(new, bestResults[m])
           \/ bestResults'[m] = bestResults[m]
    BY <1>1, <2>1, <2>2, Update
  <2>4. k = m
    BY <2>3
  <2> QED
    BY <2>1, <2>2, <2>3, <2>4
<1>3. k[1] = s /\ bestResults'[k].config = c
  BY <1>2 DEF NewAverage, Average
<1>4. RunsAfter(s, c, response) # results[<<s, c>>]
  <2>1. results[<<s, c>>] \in Seq(Int) /\ response.value \in Int
    BY <1>2, NewAverageType, ResponseType
  <2> QED
    BY <2>1, RunAdded DEF RunsAfter
<1> QED
  BY <1>2, <1>3, <1>4

\* A best result gives way only to a better one, of the configuration whose
\* run has just been collected.
THEOREM BestResultOnlyImproves == Spec => BestOnlyImproves
<1>1. TypeOK /\ [Next]_vars =>
        [\A k \in Scenarios \X Keys :
           bestResults[k] # NoEntry /\ bestResults'[k] # bestResults[k] =>
             /\ Beats(bestResults'[k], bestResults[k])
             /\ results'[<<k[1], bestResults'[k].config>>]
                  # results[<<k[1], bestResults'[k].config>>]]_vars
  BY ImprovesNext
<1>2. BestIsRight => TypeOK
  BY DEF BestIsRight
<1> QED
  BY <1>1, <1>2, BestResultIsRight, PTL DEF Spec, BestOnlyImproves

-----------------------------------------------------------------------------
(***************************************************************************)
(* Of ResultCollector: what a scrape sends, for any benchmarks, items and  *)
(* parsers' values and any number of scrapes.                              *)
(***************************************************************************)
\* What a set of items may set, and for which series.
Of(items)       == UNION {Exports(item) : item \in items}
SeriesSet(items) == UNION {SeriesIn(Exports(item)) : item \in items}

\* The states of scrapes, and which of them know of which items: one that runs
\* has seen what the others that run have listed.
ScrapeShape ==
    /\ scrape \in [Scrapes -> ScrapeStates]
    /\ listed \in [Scrapes -> SUBSET Items] /\ todo \in [Scrapes -> SUBSET Items]
    /\ seen \in [Scrapes -> SUBSET Items]
    /\ DOMAIN shown = Scrapes
    /\ recorded \subseteq Items
    /\ \A s \in Scrapes : todo[s] \subseteq listed[s]
    /\ \A s \in Scrapes : scrape[s] = "reset" => todo[s] = listed[s]
    /\ \A s, r \in Running : listed[r] \subseteq seen[s]

\* The gauge has nothing but what a scrape that fills it has seen.
FillOK == \A s \in Scrapes : scrape[s] = "fill" => gauge \subseteq Of(seen[s])

\* A scrape that is alone has set all but what it has still to set.
AloneOK ==
    /\ \A s \in alone : scrape[s] # "none"
    /\ \A s \in alone : s \in Running => Running = {s}
    /\ \A s \in alone : scrape[s] = "fill" =>
         SeriesIn(gauge) \cup SeriesSet(todo[s]) = SeriesSet(listed[s])

GaugeRest ==
    /\ present \subseteq Benchmarks /\ alone \subseteq Scrapes
    /\ panicked \in BOOLEAN
    /\ \A p, q \in gauge : p[1] = q[1] => p = q

GaugeInv ==
    /\ ScrapeShape /\ GaugeRest
    /\ FillOK /\ AloneOK /\ OnlyListed /\ AloneIsExact

\* What the gauge holds after an item is set.
LEMMA SetFacts ==
    ASSUME NEW item \in Items, NEW pairs \in SUBSET Exports(item),
           \A p \in Exports(item) : \E q \in pairs : q[1] = p[1],
           \A p, q \in pairs : p[1] = q[1] => p = q,
           \A p, q \in gauge : p[1] = q[1] => p = q
    PROVE  /\ Set(pairs) \subseteq gauge \cup Exports(item)
           /\ SeriesIn(Set(pairs)) = SeriesIn(gauge) \cup SeriesIn(Exports(item))
           /\ \A p, q \in Set(pairs) : p[1] = q[1] => p = q
<1>1. Set(pairs) \subseteq gauge \cup Exports(item)
  BY DEF Set
<1>2. SeriesIn(pairs) = SeriesIn(Exports(item))
  BY DEF SeriesIn
<1>3. SeriesIn(Set(pairs)) = SeriesIn(gauge) \cup SeriesIn(pairs)
  BY DEF SeriesIn, Set
<1>4. \A p, q \in Set(pairs) : p[1] = q[1] => p = q
  BY DEF SeriesIn, Set
<1> QED
  BY <1>1, <1>2, <1>3, <1>4

-----------------------------------------------------------------------------
LEMMA CollectorInitInv == CollectorInit => GaugeInv
  BY DEF CollectorInit, GaugeInv, ScrapeShape, GaugeRest, FillOK, AloneOK,
         OnlyListed, AloneIsExact,
         Running, ScrapeStates

\* Whoever leaves the scrapes alone.
LEMMA ClusterInv ==
    ASSUME GaugeInv, UNCHANGED scraping, recorded' \subseteq Items,
           present' \subseteq Benchmarks, panicked' \in BOOLEAN
    PROVE  GaugeInv'
  BY DEF GaugeInv, ScrapeShape, GaugeRest, FillOK, AloneOK, OnlyListed,
         AloneIsExact,
         Running, scraping, Of, SeriesSet

LEMMA ListInv ==
    ASSUME GaugeInv, NEW s \in Scrapes, List(s), UNCHANGED panicked
    PROVE  GaugeInv'
<1>1. PICK items \in {recorded, {}} :
        /\ listed' = [listed EXCEPT ![s] = items]
        /\ todo' = [todo EXCEPT ![s] = items]
        /\ seen' = [t \in Scrapes |->
                      IF t = s THEN items \cup UNION {listed[r] : r \in Running}
                      ELSE IF t \in Running THEN seen[t] \cup items
                      ELSE seen[t]]
  BY DEF List
<1>0. items \in SUBSET Items
  BY DEF GaugeInv, ScrapeShape
<1>2. s \notin Running /\ Running' = Running \cup {s}
  BY DEF List, GaugeInv, ScrapeShape, Running, ScrapeStates
<1>3. /\ scrape[s] = "none" /\ scrape' = [scrape EXCEPT ![s] = "reset"]
      /\ alone' = IF Running = {} THEN alone \cup {s} ELSE alone \ Running
      /\ UNCHANGED <<recorded, present, gauge, shown, panicked>>
  BY DEF List
<1>4. ScrapeShape'
  <2>1. /\ scrape' \in [Scrapes -> ScrapeStates]
        /\ listed' \in [Scrapes -> SUBSET Items]
        /\ todo' \in [Scrapes -> SUBSET Items]
        /\ seen' \in [Scrapes -> SUBSET Items]
        /\ DOMAIN shown' = Scrapes /\ recorded' \subseteq Items
    BY <1>0, <1>1, <1>3 DEF GaugeInv, ScrapeShape, ScrapeStates, Running
  <2>2. \A t \in Scrapes : /\ todo'[t] \subseteq listed'[t]
                           /\ scrape'[t] = "reset" => todo'[t] = listed'[t]
    BY <1>1, <1>3 DEF GaugeInv, ScrapeShape
  <2>3. \A t, r \in Running' : listed'[r] \subseteq seen'[t]
    <3>1. SUFFICES ASSUME NEW t \in Running', NEW r \in Running'
                   PROVE  listed'[r] \subseteq seen'[t]
      OBVIOUS
    <3>2. CASE t = s
      BY <1>1, <1>2, <3>1, <3>2 DEF GaugeInv, ScrapeShape
    <3>3. CASE t # s /\ r = s
      BY <1>1, <1>2, <3>1, <3>3 DEF GaugeInv, ScrapeShape, Running
    <3>4. CASE t # s /\ r # s
      BY <1>1, <1>2, <3>1, <3>4 DEF GaugeInv, ScrapeShape, Running
    <3> QED
      BY <3>2, <3>3, <3>4
  <2> QED
    BY <2>1, <2>2, <2>3 DEF ScrapeShape
<1>5. \A t \in Scrapes : t # s => seen[t] \subseteq seen'[t]
  BY <1>1
<1>6. \A t \in Scrapes : t # s => /\ scrape'[t] = scrape[t]
                                  /\ listed'[t] = listed[t]
                                  /\ todo'[t] = todo[t]
  BY <1>1, <1>3 DEF GaugeInv, ScrapeShape
<1>7. scrape'[s] = "reset"
  BY <1>3 DEF GaugeInv, ScrapeShape
<1>8. FillOK' /\ OnlyListed'
  BY <1>3, <1>5, <1>6, <1>7 DEF GaugeInv, FillOK, OnlyListed, Of
<1>9. AloneOK'
  <2>1. \A t \in alone' : scrape'[t] # "none"
    BY <1>3, <1>6, <1>7 DEF GaugeInv, GaugeRest, AloneOK
  <2>2. \A t \in alone' : t \in Running' => Running' = {t}
    BY <1>2, <1>3 DEF GaugeInv, GaugeRest, AloneOK
  <2>3. \A t \in alone' : scrape'[t] = "fill" =>
          SeriesIn(gauge') \cup SeriesSet(todo'[t]) = SeriesSet(listed'[t])
    BY <1>3, <1>6, <1>7 DEF GaugeInv, GaugeRest, AloneOK
  <2> QED
    BY <2>1, <2>2, <2>3 DEF AloneOK
<1>10. GaugeRest' /\ AloneIsExact'
  BY <1>3, <1>6, <1>7 DEF GaugeInv, GaugeRest, AloneIsExact
<1> QED
  BY <1>4, <1>8, <1>9, <1>10 DEF GaugeInv

\* A scrape that goes on and lists nothing.
LEMMA GoesOn ==
    ASSUME GaugeInv, NEW s \in Scrapes, NEW pc \in {"fill", "sent"},
           scrape[s] \in {"reset", "fill"},
           scrape' = [scrape EXCEPT ![s] = pc],
           UNCHANGED <<recorded, listed, seen>>,
           todo' \in [Scrapes -> SUBSET Items],
           \A t \in Scrapes : todo'[t] \subseteq todo[t],
           \A t \in Scrapes : t # s => todo'[t] = todo[t],
           DOMAIN shown' = Scrapes
    PROVE  /\ ScrapeShape'
           /\ Running' \subseteq Running /\ s \in Running
           /\ \A t \in Scrapes : t # s => scrape'[t] = scrape[t]
           /\ scrape'[s] = pc
<1>1. Running' \subseteq Running /\ s \in Running
  BY DEF GaugeInv, ScrapeShape, Running
<1>2. scrape' \in [Scrapes -> ScrapeStates]
  BY DEF GaugeInv, ScrapeShape, ScrapeStates
<1>3. ScrapeShape'
  BY <1>1, <1>2 DEF GaugeInv, ScrapeShape
<1> QED
  BY <1>1, <1>3 DEF GaugeInv, ScrapeShape

\* While one scrape runs, no other one is alone.
LEMMA NotAlone ==
    ASSUME GaugeInv, NEW s \in Scrapes, scrape[s] \in {"reset", "fill"},
           NEW t \in alone, t # s
    PROVE  t \notin Running
  BY DEF GaugeInv, AloneOK, Running

LEMMA ResetInv ==
    ASSUME GaugeInv, NEW s \in Scrapes, Reset(s), UNCHANGED panicked
    PROVE  GaugeInv'
<1>1. /\ scrape[s] = "reset" /\ scrape' = [scrape EXCEPT ![s] = "fill"]
      /\ gauge' = {} /\ UNCHANGED <<listed, todo, shown, seen, alone>>
      /\ UNCHANGED <<recorded, present, panicked>>
  BY DEF Reset
<1>2. /\ ScrapeShape' /\ Running' \subseteq Running
      /\ \A t \in Scrapes : t # s => scrape'[t] = scrape[t]
      /\ scrape'[s] = "fill"
  BY <1>1, GoesOn DEF GaugeInv, ScrapeShape
<1>3. todo[s] = listed[s]
  BY <1>1 DEF GaugeInv, ScrapeShape
<1>4. \A t \in alone : scrape'[t] = "fill" => t = s
  BY <1>1, <1>2, NotAlone DEF GaugeInv, GaugeRest, Running
<1>5. AloneOK'
  <2>1. \A t \in alone' : scrape'[t] # "none"
    BY <1>1, <1>2 DEF GaugeInv, GaugeRest, AloneOK
  <2>2. \A t \in alone' : t \in Running' => Running' = {t}
    BY <1>1, <1>2 DEF GaugeInv, AloneOK
  <2>3. \A t \in alone' : scrape'[t] = "fill" =>
          SeriesIn(gauge') \cup SeriesSet(todo'[t]) = SeriesSet(listed'[t])
    BY <1>1, <1>3, <1>4 DEF SeriesIn
  <2> QED
    BY <2>1, <2>2, <2>3 DEF AloneOK
<1>6. GaugeRest' /\ FillOK' /\ OnlyListed' /\ AloneIsExact'
  BY <1>1, <1>2 DEF GaugeInv, GaugeRest, FillOK, OnlyListed, AloneIsExact
<1> QED
  BY <1>2, <1>5, <1>6 DEF GaugeInv

LEMMA FillInv ==
    ASSUME GaugeInv, NEW s \in Scrapes, NEW item \in Items, Fill(s, item),
           UNCHANGED panicked
    PROVE  GaugeInv'
<1>1. /\ scrape[s] = "fill" /\ item \in todo[s]
      /\ todo' = [todo EXCEPT ![s] = @ \ {item}]
      /\ UNCHANGED <<recorded, present, scrape, listed, shown, seen, alone>>
      /\ UNCHANGED panicked
  BY DEF Fill
<1>2. /\ gauge' \subseteq gauge \cup Exports(item)
      /\ SeriesIn(gauge') = SeriesIn(gauge) \cup SeriesIn(Exports(item))
      /\ \A p, q \in gauge' : p[1] = q[1] => p = q
  <2>1. PICK pairs \in SUBSET Exports(item) :
          /\ \A p \in Exports(item) : \E q \in pairs : q[1] = p[1]
          /\ \A p, q \in pairs : p[1] = q[1] => p = q
          /\ gauge' = Set(pairs)
    BY DEF Fill
  <2> QED
    BY <2>1, SetFacts DEF GaugeInv, GaugeRest
<1>3. Running' = Running /\ s \in Running
  BY <1>1 DEF Running
<1>4. ScrapeShape'
  BY <1>1, <1>3 DEF GaugeInv, ScrapeShape
<1>5. FillOK'
  <2>1. SUFFICES ASSUME NEW t \in Scrapes, scrape[t] = "fill"
                 PROVE  gauge' \subseteq Of(seen[t])
    BY <1>1 DEF FillOK
  <2>2. gauge \subseteq Of(seen[t])
    BY <2>1 DEF GaugeInv, FillOK
  <2>3. item \in seen[t]
    BY <1>1, <2>1 DEF GaugeInv, ScrapeShape, Running
  <2> QED
    BY <1>2, <2>2, <2>3 DEF Of
<1>6. AloneOK'
  <2>1. \A t \in alone' : scrape'[t] # "none"
    BY <1>1 DEF GaugeInv, AloneOK
  <2>2. \A t \in alone' : t \in Running' => Running' = {t}
    BY <1>1, <1>3 DEF GaugeInv, AloneOK
  <2>3. ASSUME NEW t \in alone', scrape'[t] = "fill"
        PROVE  SeriesIn(gauge') \cup SeriesSet(todo'[t]) = SeriesSet(listed'[t])
    <3>1. t = s
      BY <1>1, <2>3, NotAlone DEF GaugeInv, GaugeRest, Running
    <3>2. todo'[s] = todo[s] \ {item}
      BY <1>1 DEF GaugeInv, ScrapeShape
    <3>3. SeriesSet(todo[s]) = SeriesIn(Exports(item)) \cup SeriesSet(todo'[s])
      BY <1>1, <3>2 DEF SeriesSet
    <3>4. SeriesIn(gauge) \cup SeriesSet(todo[s]) = SeriesSet(listed[s])
      BY <1>1, <2>3, <3>1 DEF GaugeInv, AloneOK
    <3> QED
      BY <1>1, <1>2, <3>1, <3>3, <3>4
  <2> QED
    BY <2>1, <2>2, <2>3 DEF AloneOK
<1>7. GaugeRest' /\ OnlyListed' /\ AloneIsExact'
  BY <1>1, <1>2 DEF GaugeInv, GaugeRest, OnlyListed, AloneIsExact
<1> QED
  BY <1>4, <1>5, <1>6, <1>7 DEF GaugeInv

LEMMA SendInv ==
    ASSUME GaugeInv, NEW s \in Scrapes, Send(s), UNCHANGED panicked
    PROVE  GaugeInv'
<1>1. /\ scrape[s] = "fill" /\ todo[s] = {}
      /\ scrape' = [scrape EXCEPT ![s] = "sent"]
      /\ shown' = [shown EXCEPT ![s] = gauge]
      /\ UNCHANGED <<gauge, listed, todo, seen, alone>>
      /\ UNCHANGED <<recorded, present, panicked>>
  BY DEF Send
<1>2. /\ ScrapeShape' /\ Running' \subseteq Running
      /\ \A t \in Scrapes : t # s => scrape'[t] = scrape[t]
      /\ scrape'[s] = "sent"
  BY <1>1, GoesOn DEF GaugeInv, ScrapeShape
<1>3. /\ shown'[s] = gauge
      /\ \A t \in Scrapes : t # s => shown'[t] = shown[t]
  BY <1>1 DEF GaugeInv, ScrapeShape
<1>4. FillOK' /\ GaugeRest'
  BY <1>1, <1>2 DEF GaugeInv, FillOK, GaugeRest
<1>5. AloneOK'
  <2>1. \A t \in alone' : scrape'[t] # "none"
    BY <1>1, <1>2 DEF GaugeInv, GaugeRest, AloneOK
  <2>2. \A t \in alone' : t \in Running' => Running' = {t}
    BY <1>1, <1>2 DEF GaugeInv, AloneOK
  <2>3. \A t \in alone' : scrape'[t] = "fill" =>
          SeriesIn(gauge') \cup SeriesSet(todo'[t]) = SeriesSet(listed'[t])
    BY <1>1, <1>2 DEF GaugeInv, GaugeRest, AloneOK
  <2> QED
    BY <2>1, <2>2, <2>3 DEF AloneOK
<1>6. OnlyListed'
  BY <1>1, <1>2, <1>3 DEF GaugeInv, OnlyListed, FillOK, Of
<1>7. AloneIsExact'
  <2>1. s \in alone => SeriesIn(gauge) = SeriesSet(listed[s])
    BY <1>1 DEF GaugeInv, AloneOK, SeriesSet
  <2> QED
    BY <1>1, <1>2, <1>3, <2>1 DEF GaugeInv, GaugeRest, AloneIsExact, SeriesSet
<1> QED
  BY <1>2, <1>4, <1>5, <1>6, <1>7 DEF GaugeInv

LEMMA CollectorStepInv == GaugeInv /\ [CollectorNext]_collectorVars => GaugeInv'
<1> SUFFICES ASSUME GaugeInv, [CollectorNext]_collectorVars PROVE GaugeInv'
  OBVIOUS
<1>t. recorded \subseteq Items /\ present \subseteq Benchmarks
      /\ panicked \in BOOLEAN
  BY DEF GaugeInv, ScrapeShape, GaugeRest
<1>0. UNCHANGED collectorVars => GaugeInv'
  BY <1>t, ClusterInv DEF collectorVars
<1>1. \A item \in Items : RecordResult(item) /\ panicked' \in BOOLEAN
        => GaugeInv'
  BY <1>t, ClusterInv DEF RecordResult
<1>2. \A b \in Benchmarks : DeleteBenchmark(b) /\ panicked' \in BOOLEAN
        => GaugeInv'
  BY <1>t, ClusterInv DEF DeleteBenchmark
<1>3. \A s \in Scrapes, item \in Items : FillPanics(s, item) => GaugeInv'
  BY <1>t, ClusterInv DEF FillPanics
<1> QED
  BY <1>t, <1>0, <1>1, <1>2, <1>3, ListInv, ResetInv, FillInv, SendInv
     DEF CollectorNext, Cluster, Collect

LEMMA GaugeInvariance == CollectorSpec => []GaugeInv
  BY CollectorInitInv, CollectorStepInv, PTL DEF CollectorSpec

-----------------------------------------------------------------------------
(***************************************************************************)
(* The theorems.                                                           *)
(***************************************************************************)

\* The state is well formed: a series of the gauge has one value, although two
\* calls of Collect fill it at once.
THEOREM GaugeTypeCorrect == CollectorSpec => []GaugeTypeOK
<1>1. GaugeInv => GaugeTypeOK
  BY DEF GaugeInv, ScrapeShape, GaugeRest, GaugeTypeOK
<1> QED
  BY <1>1, GaugeInvariance, PTL

\* A scrape by itself sends just what the statuses had when it listed them.
THEOREM AloneExact == CollectorSpec => []AloneIsExact
<1>1. GaugeInv => AloneIsExact
  BY DEF GaugeInv
<1> QED
  BY <1>1, GaugeInvariance, PTL

\* Scrapes that overlap send nothing that none of them has listed.
THEOREM NothingElse == CollectorSpec => []OnlyListed
<1>1. GaugeInv => OnlyListed
  BY DEF GaugeInv
<1> QED
  BY <1>1, GaugeInvariance, PTL
=============================================================================
