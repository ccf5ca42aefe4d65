------------------------ MODULE JobDeploymentProofs ------------------------
(***************************************************************************)
(* The four invariants of JobDeployment, for every benchmark that is as    *)
(* SpecsAssumption says.  First what the operators compute: the scan       *)
(* enumerates the jobs that are meant, each once; what UpdateValue writes  *)
(* into an object is what GetValue and the nodes find there; a hash is     *)
(* turned back into its job.  Recursion is over sequences, so each         *)
(* recursive function is first unfolded and then reasoned about by the     *)
(* least index at which a claim would fail.  Then the state: IInv says     *)
(* where the goroutine is while the first k jobs exist, one lemma for each *)
(* action.                                                                 *)
(***************************************************************************)
EXTENDS JobDeployment, FiniteSetTheorems, SequenceTheorems,
        WellFoundedInduction, TLAPS

\* The least-number principle, for sets.
LEMMA LeastNatural ==
    ASSUME NEW T, T \subseteq Nat, T # {}
    PROVE  \E x \in T : \A y \in T : x <= y
<1> DEFINE Less == {ss \in Nat \X Nat : ss[1] < ss[2]}
<1>1. IsWellFoundedOn(Less, Nat)
  BY NatLessThanWellFounded DEF OpToRel
<1>2. PICK x \in T : \A y \in T : ~(<<y, x>> \in Less)
  BY <1>1, WFMin
<1>3. \A y \in T : ~(y < x)
  BY <1>2
<1> QED
  BY <1>3

\* Induction, for sets.
LEMMA AllNaturals ==
    ASSUME NEW S, 0 \in S, \A n \in Nat : n \in S => n + 1 \in S
    PROVE  Nat \subseteq S
<1>1. SUFFICES ASSUME Nat \ S # {} PROVE FALSE
  OBVIOUS
<1>2. PICK x \in Nat \ S : \A y \in Nat \ S : x <= y
  BY <1>1, LeastNatural
<1>3. x # 0 /\ x - 1 \in Nat
  BY <1>2
<1>4. x - 1 \in S
  BY <1>2, <1>3
<1>5. (x - 1) + 1 \in S
  BY <1>3, <1>4
<1> QED
  BY <1>2, <1>5

\* Induction up to a bound.
LEMMA AllUntil ==
    ASSUME NEW n \in Nat, NEW S,
           0 \in S, \A i \in Nat : i < n /\ i \in S => i + 1 \in S
    PROVE  0..n \subseteq S
<1> DEFINE T == {i \in Nat : i <= n => i \in S}
<1>1. 0 \in T /\ \A i \in Nat : i \in T => i + 1 \in T
  OBVIOUS
<1> HIDE DEF T
<1>2. Nat \subseteq T
  BY <1>1, AllNaturals
<1> QED
  BY <1>2 DEF T

-----------------------------------------------------------------------------
(***************************************************************************)
(* The functions that are defined by recursion over positions.  Nothing is *)
(* known of the set of their values, so each has an existence proof of its *)
(* own, all of one form: a function for the first k positions gives one    *)
(* for k + 1.                                                              *)
(***************************************************************************)
LEMMA LayersUnfold ==
    ASSUME NEW items, Len(items) \in Nat
    PROVE  /\ Layers(items)[0] = <<>>
           /\ \A i \in 1..Len(items) :
                Layers(items)[i]
                  = nextCombination(items[i], Layers(items)[i - 1])
<1> DEFINE Step(f, i) == IF i = 0 THEN <<>>
                         ELSE nextCombination(items[i], f[i - 1])
           S == {k \in Nat : \E f : f = [i \in 0..k |-> Step(f, i)]}
           n == Len(items)
           it == CHOOSE f : f = [i \in 0..n |-> Step(f, i)]
<1>1. 0 \in S
  <2>1. [i \in 0..0 |-> <<>>] = [i \in 0..0 |-> Step([j \in 0..0 |-> <<>>], i)]
    OBVIOUS
  <2> QED
    BY <2>1
<1>2. ASSUME NEW k \in Nat, k \in S PROVE k + 1 \in S
  <2>1. PICK f : f = [i \in 0..k |-> Step(f, i)]
    BY <1>2
  <2> DEFINE g == [i \in 0..(k + 1) |-> IF i = k + 1 THEN Step(f, i) ELSE f[i]]
  <2>2. ASSUME NEW i \in 0..(k + 1) PROVE g[i] = Step(g, i)
    <3>1. i # 0 => i - 1 \in 0..k /\ g[i - 1] = f[i - 1]
      <4> HIDE DEF Step
      <4> QED
        OBVIOUS
    <3>2. Step(f, i) = Step(g, i)
      BY <3>1
    <3>3. i # k + 1 => i \in 0..k
      OBVIOUS
    <3>4. i \in 0..k => f[i] = Step(f, i)
      BY <2>1
    <3> HIDE DEF Step
    <3> QED
      BY <3>2, <3>3, <3>4
  <2>3. g = [i \in 0..(k + 1) |-> Step(g, i)]
    BY <2>2, Zenon
  <2> HIDE DEF g, Step
  <2> QED
    BY <2>3
<1>3. n \in S
  <2> HIDE DEF S
  <2>1. Nat \subseteq S
    BY <1>1, <1>2, AllNaturals
  <2> QED
    BY <2>1
<1>4. it = [i \in 0..n |-> Step(it, i)]
  <2> HIDE DEF Step
  <2> QED
    BY <1>3, Zenon
<1>5. Layers(items) = it
  BY Zenon DEF Layers
<1> HIDE DEF it
<1>6. \A i \in 0..n : it[i] = Step(it, i)
  BY <1>4, Zenon
<1> QED
  BY <1>4, <1>5, <1>6

LEMMA TokenizedUnfolds ==
    ASSUME NEW location, Len(location) \in Nat
    PROVE  /\ Tokenized(location)[0] = Reading(FALSE, <<>>, <<>>)
           /\ \A i \in 1..Len(location) :
                Tokenized(location)[i]
                  = ReadPart(Tokenized(location)[i - 1], location[i])
<1> DEFINE Step(f, i) == IF i = 0 THEN Reading(FALSE, <<>>, <<>>)
                         ELSE ReadPart(f[i - 1], location[i])
           S == {k \in Nat : \E f : f = [i \in 0..k |-> Step(f, i)]}
           n == Len(location)
           it == CHOOSE f : f = [i \in 0..n |-> Step(f, i)]
<1>1. 0 \in S
  <2>1. [i \in 0..0 |-> Reading(FALSE, <<>>, <<>>)]
          = [i \in 0..0 |-> Step([j \in 0..0 |-> Reading(FALSE, <<>>, <<>>)], i)]
    OBVIOUS
  <2> QED
    BY <2>1
<1>2. ASSUME NEW k \in Nat, k \in S PROVE k + 1 \in S
  <2>1. PICK f : f = [i \in 0..k |-> Step(f, i)]
    BY <1>2
  <2> DEFINE g == [i \in 0..(k + 1) |-> IF i = k + 1 THEN Step(f, i) ELSE f[i]]
  <2>2. ASSUME NEW i \in 0..(k + 1) PROVE g[i] = Step(g, i)
    <3>1. i # 0 => i - 1 \in 0..k /\ g[i - 1] = f[i - 1]
      <4> HIDE DEF Step
      <4> QED
        OBVIOUS
    <3>2. Step(f, i) = Step(g, i)
      BY <3>1
    <3>3. i # k + 1 => i \in 0..k
      OBVIOUS
    <3>4. i \in 0..k => f[i] = Step(f, i)
      BY <2>1
    <3> HIDE DEF Step
    <3> QED
      BY <3>2, <3>3, <3>4
  <2>3. g = [i \in 0..(k + 1) |-> Step(g, i)]
    BY <2>2, Zenon
  <2> HIDE DEF g, Step
  <2> QED
    BY <2>3
<1>3. n \in S
  <2> HIDE DEF S
  <2>1. Nat \subseteq S
    BY <1>1, <1>2, AllNaturals
  <2> QED
    BY <2>1
<1>4. it = [i \in 0..n |-> Step(it, i)]
  <2> HIDE DEF Step
  <2> QED
    BY <1>3, Zenon
<1>5. Tokenized(location) = it
  BY Zenon DEF Tokenized
<1> HIDE DEF it
<1>6. \A i \in 0..n : it[i] = Step(it, i)
  BY <1>4, Zenon
<1> QED
  BY <1>4, <1>5, <1>6

LEMMA WrittenUnfolds ==
    ASSUME NEW s, NEW object, NEW order, NEW parts, Len(order) \in Nat
    PROVE  /\ Written(s, object, order, parts)[0] = object
           /\ \A i \in 1..Len(order) :
                Written(s, object, order, parts)[i]
                  = UpdateValue(Written(s, object, order, parts)[i - 1],
                                Selection(s).location \o parts[order[i]],
                                Selection(s).selector[order[i]])
<1> DEFINE Step(f, i) == IF i = 0 THEN object
                         ELSE UpdateValue(f[i - 1],
                                Selection(s).location \o parts[order[i]],
                                Selection(s).selector[order[i]])
           S == {k \in Nat : \E f : f = [i \in 0..k |-> Step(f, i)]}
           n == Len(order)
           it == CHOOSE f : f = [i \in 0..n |-> Step(f, i)]
<1>1. 0 \in S
  <2>1. [i \in 0..0 |-> object]
          = [i \in 0..0 |-> Step([j \in 0..0 |-> object], i)]
    OBVIOUS
  <2> QED
    BY <2>1
<1>2. ASSUME NEW k \in Nat, k \in S PROVE k + 1 \in S
  <2>1. PICK f : f = [i \in 0..k |-> Step(f, i)]
    BY <1>2
  <2> DEFINE g == [i \in 0..(k + 1) |-> IF i = k + 1 THEN Step(f, i) ELSE f[i]]
  <2>2. ASSUME NEW i \in 0..(k + 1) PROVE g[i] = Step(g, i)
    <3>1. i # 0 => i - 1 \in 0..k /\ g[i - 1] = f[i - 1]
      <4> HIDE DEF Step
      <4> QED
        OBVIOUS
    <3>2. Step(f, i) = Step(g, i)
      BY <3>1
    <3>3. i # k + 1 => i \in 0..k
      OBVIOUS
    <3>4. i \in 0..k => f[i] = Step(f, i)
      BY <2>1
    <3> HIDE DEF Step
    <3> QED
      BY <3>2, <3>3, <3>4
  <2>3. g = [i \in 0..(k + 1) |-> Step(g, i)]
    BY <2>2, Zenon
  <2> HIDE DEF g, Step
  <2> QED
    BY <2>3
<1>3. n \in S
  <2> HIDE DEF S
  <2>1. Nat \subseteq S
    BY <1>1, <1>2, AllNaturals
  <2> QED
    BY <2>1
<1>4. it = [i \in 0..n |-> Step(it, i)]
  <2> HIDE DEF Step
  <2> QED
    BY <1>3, Zenon
<1>5. Written(s, object, order, parts) = it
  BY Zenon DEF Written
<1> HIDE DEF it
<1>6. \A i \in 0..n : it[i] = Step(it, i)
  BY <1>4, Zenon
<1> QED
  BY <1>4, <1>5, <1>6

LEMMA VisitedUnfolds ==
    ASSUME NEW object, NEW keys, Len(keys) \in Nat
    PROVE  /\ Visited(object, keys)[0] = object
           /\ \A i \in 1..Len(keys) :
                Visited(object, keys)[i]
                  = IF Visited(object, keys)[i - 1].kind # "map" THEN Nil
                    ELSE getValue(keys[i], Prepared(keys[i], Visited(object, keys)[i - 1].at))
<1> DEFINE Step(f, i) == IF i = 0 THEN object
                         ELSE IF f[i - 1].kind # "map" THEN Nil
                         ELSE getValue(keys[i], Prepared(keys[i], f[i - 1].at))
           S == {k \in Nat : \E f : f = [i \in 0..k |-> Step(f, i)]}
           n == Len(keys)
           it == CHOOSE f : f = [i \in 0..n |-> Step(f, i)]
<1>1. 0 \in S
  <2>1. [i \in 0..0 |-> object]
          = [i \in 0..0 |-> Step([j \in 0..0 |-> object], i)]
    OBVIOUS
  <2> QED
    BY <2>1
<1>2. ASSUME NEW k \in Nat, k \in S PROVE k + 1 \in S
  <2>1. PICK f : f = [i \in 0..k |-> Step(f, i)]
    BY <1>2
  <2> DEFINE g == [i \in 0..(k + 1) |-> IF i = k + 1 THEN Step(f, i) ELSE f[i]]
  <2>2. ASSUME NEW i \in 0..(k + 1) PROVE g[i] = Step(g, i)
    <3>1. i # 0 => i - 1 \in 0..k /\ g[i - 1] = f[i - 1]
      <4> HIDE DEF Step
      <4> QED
        OBVIOUS
    <3>2. Step(f, i) = Step(g, i)
      BY <3>1
    <3>3. i # k + 1 => i \in 0..k
      OBVIOUS
    <3>4. i \in 0..k => f[i] = Step(f, i)
      BY <2>1
    <3> HIDE DEF Step
    <3> QED
      BY <3>2, <3>3, <3>4
  <2>3. g = [i \in 0..(k + 1) |-> Step(g, i)]
    BY <2>2, Zenon
  <2> HIDE DEF g, Step
  <2> QED
    BY <2>3
<1>3. n \in S
  <2> HIDE DEF S
  <2>1. Nat \subseteq S
    BY <1>1, <1>2, AllNaturals
  <2> QED
    BY <2>1
<1>4. it = [i \in 0..n |-> Step(it, i)]
  <2> HIDE DEF Step
  <2> QED
    BY <1>3, Zenon
<1>5. Visited(object, keys) = it
  BY Zenon DEF Visited
<1> HIDE DEF it
<1>6. \A i \in 0..n : it[i] = Step(it, i)
  BY <1>4, Zenon
<1> QED
  BY <1>4, <1>5, <1>6

LEMMA DescentUnfolds ==
    ASSUME NEW object, NEW keys, Len(keys) \in Nat
    PROVE  /\ Descent(object, keys)[0] = object
           /\ \A i \in 1..Len(keys) :
                Descent(object, keys)[i]
                  = IF Descent(object, keys)[i - 1].kind # "map" THEN Nil
                    ELSE Entered(keys[i], Descent(object, keys)[i - 1].at)
<1> DEFINE Step(f, i) == IF i = 0 THEN object
                         ELSE IF f[i - 1].kind # "map" THEN Nil
                         ELSE Entered(keys[i], f[i - 1].at)
           S == {k \in Nat : \E f : f = [i \in 0..k |-> Step(f, i)]}
           n == Len(keys)
           it == CHOOSE f : f = [i \in 0..n |-> Step(f, i)]
<1>1. 0 \in S
  <2>1. [i \in 0..0 |-> object]
          = [i \in 0..0 |-> Step([j \in 0..0 |-> object], i)]
    OBVIOUS
  <2> QED
    BY <2>1
<1>2. ASSUME NEW k \in Nat, k \in S PROVE k + 1 \in S
  <2>1. PICK f : f = [i \in 0..k |-> Step(f, i)]
    BY <1>2
  <2> DEFINE g == [i \in 0..(k + 1) |-> IF i = k + 1 THEN Step(f, i) ELSE f[i]]
  <2>2. ASSUME NEW i \in 0..(k + 1) PROVE g[i] = Step(g, i)
    <3>1. i # 0 => i - 1 \in 0..k /\ g[i - 1] = f[i - 1]
      <4> HIDE DEF Step
      <4> QED
        OBVIOUS
    <3>2. Step(f, i) = Step(g, i)
      BY <3>1
    <3>3. i # k + 1 => i \in 0..k
      OBVIOUS
    <3>4. i \in 0..k => f[i] = Step(f, i)
      BY <2>1
    <3> HIDE DEF Step
    <3> QED
      BY <3>2, <3>3, <3>4
  <2>3. g = [i \in 0..(k + 1) |-> Step(g, i)]
    BY <2>2, Zenon
  <2> HIDE DEF g, Step
  <2> QED
    BY <2>3
<1>3. n \in S
  <2> HIDE DEF S
  <2>1. Nat \subseteq S
    BY <1>1, <1>2, AllNaturals
  <2> QED
    BY <2>1
<1>4. it = [i \in 0..n |-> Step(it, i)]
  <2> HIDE DEF Step
  <2> QED
    BY <1>3, Zenon
<1>5. Descent(object, keys) = it
  BY Zenon DEF Descent
<1> HIDE DEF it
<1>6. \A i \in 0..n : it[i] = Step(it, i)
  BY <1>4, Zenon
<1> QED
  BY <1>4, <1>5, <1>6

\* FlattenSeq appends the sequences one after the other.
FlattenedTo(seqs) ==
    CHOOSE f : f = [i \in 1..Len(seqs) |->
                      IF i = 1 THEN seqs[i] ELSE f[i - 1] \o seqs[i]]

LEMMA FlattenUnfolds ==
    ASSUME NEW seqs, Len(seqs) \in Nat \ {0}
    PROVE  /\ FlattenSeq(seqs) = FlattenedTo(seqs)[Len(seqs)]
           /\ FlattenedTo(seqs)[1] = seqs[1]
           /\ \A i \in 2..Len(seqs) :
                FlattenedTo(seqs)[i] = FlattenedTo(seqs)[i - 1] \o seqs[i]
<1> DEFINE Step(f, i) == IF i = 1 THEN seqs[i] ELSE f[i - 1] \o seqs[i]
           S == {k \in Nat : \E f : f = [i \in 1..k |-> Step(f, i)]}
           n == Len(seqs)
           it == CHOOSE f : f = [i \in 1..n |-> Step(f, i)]
<1>1. 0 \in S
  <2>1. [i \in 1..0 |-> 0] = [i \in 1..0 |-> Step([j \in 1..0 |-> 0], i)]
    OBVIOUS
  <2> QED
    BY <2>1
<1>2. ASSUME NEW k \in Nat, k \in S PROVE k + 1 \in S
  <2>1. PICK f : f = [i \in 1..k |-> Step(f, i)]
    BY <1>2
  <2> DEFINE g == [i \in 1..(k + 1) |-> IF i = k + 1 THEN Step(f, i) ELSE f[i]]
  <2>2. ASSUME NEW i \in 1..(k + 1) PROVE g[i] = Step(g, i)
    <3>1. i # 1 => i - 1 \in 1..k /\ g[i - 1] = f[i - 1]
      <4> HIDE DEF Step
      <4> QED
        OBVIOUS
    <3>2. Step(f, i) = Step(g, i)
      BY <3>1
    <3>3. i # k + 1 => i \in 1..k
      OBVIOUS
    <3>4. i \in 1..k => f[i] = Step(f, i)
      BY <2>1
    <3> HIDE DEF Step
    <3> QED
      BY <3>2, <3>3, <3>4
  <2>3. g = [i \in 1..(k + 1) |-> Step(g, i)]
    BY <2>2, Zenon
  <2> HIDE DEF g, Step
  <2> QED
    BY <2>3
<1>3. n \in S
  <2> HIDE DEF S
  <2>1. Nat \subseteq S
    BY <1>1, <1>2, AllNaturals
  <2> QED
    BY <2>1
<1>4. it = [i \in 1..n |-> Step(it, i)]
  <2> HIDE DEF Step
  <2> QED
    BY <1>3, Zenon
<1>5. FlattenedTo(seqs) = it
  BY Zenon DEF FlattenedTo
<1>6. FlattenSeq(seqs) = it[n]
  <2>1. Len(seqs) # 0
    OBVIOUS
  <2> QED
    BY <2>1, Zenon DEF FlattenSeq
<1> HIDE DEF it
<1>7. \A i \in 1..n : it[i] = Step(it, i)
  BY <1>4, Zenon
<1>8. 1 \in 1..n /\ \A i \in 2..n : i \in 1..n /\ i # 1
  OBVIOUS
<1> QED
  BY <1>5, <1>6, <1>7, <1>8, Zenon

\* The function Rebuilt goes through the positions from the last.
LEMMA RebuiltUnfolds ==
    ASSUME NEW object, NEW keys, NEW value,
           NEW path, path = Descent(object, keys),
           NEW n \in Nat \ {0}, n = LastOf(path, keys)
    PROVE  /\ Rebuilt(object, keys, value)[n]
                = ValueSet(keys[n], path[n - 1].at, n = Len(keys), value)
           /\ \A i \in 1..(n - 1) :
                Rebuilt(object, keys, value)[i]
                  = IF Rebuilt(object, keys, value)[i + 1] = Panic THEN Panic
                    ELSE Placed(keys[i], Prepared(keys[i], path[i - 1].at),
                                Rebuilt(object, keys, value)[i + 1])
<1> DEFINE Step(f, i) ==
             IF i = n
             THEN ValueSet(keys[i], path[i - 1].at, i = Len(keys), value)
             ELSE IF f[i + 1] = Panic THEN Panic
             ELSE Placed(keys[i], Prepared(keys[i], path[i - 1].at), f[i + 1])
           S == {k \in Nat : k < n =>
                   \E f : f = [i \in (n - k)..n |-> Step(f, i)]}
           it == CHOOSE f : f = [i \in 1..n |-> Step(f, i)]
<1>1. 0 \in S
  <2> DEFINE g == [i \in (n - 0)..n |->
                     ValueSet(keys[n], path[n - 1].at, n = Len(keys), value)]
  <2>1. \A i \in (n - 0)..n : i = n
    OBVIOUS
  <2>2. \A i \in (n - 0)..n : g[i] = Step(g, i)
    BY <2>1
  <2>3. g = [i \in (n - 0)..n |-> Step(g, i)]
    BY <2>2, Zenon
  <2> HIDE DEF g, Step
  <2> QED
    BY <2>3
<1>2. ASSUME NEW k \in Nat, k \in S PROVE k + 1 \in S
  <2> SUFFICES ASSUME k + 1 < n
               PROVE  \E f : f = [i \in (n - (k + 1))..n |-> Step(f, i)]
    OBVIOUS
  <2>1. PICK f : f = [i \in (n - k)..n |-> Step(f, i)]
    BY <1>2
  <2> DEFINE m == n - (k + 1)
             g == [i \in m..n |-> IF i = m THEN Step(f, i) ELSE f[i]]
  <2>2. ASSUME NEW i \in m..n PROVE g[i] = Step(g, i)
    <3>1. i # n => i + 1 \in (n - k)..n /\ g[i + 1] = f[i + 1]
      <4> HIDE DEF Step
      <4> QED
        OBVIOUS
    <3>2. Step(f, i) = Step(g, i)
      BY <3>1
    <3>3. i # m => i \in (n - k)..n
      OBVIOUS
    <3>4. i \in (n - k)..n => f[i] = Step(f, i)
      BY <2>1
    <3> HIDE DEF Step
    <3> QED
      BY <3>2, <3>3, <3>4
  <2>3. g = [i \in m..n |-> Step(g, i)]
    BY <2>2, Zenon
  <2> HIDE DEF g, Step
  <2> QED
    BY <2>3
<1>3. n - 1 \in S
  <2> HIDE DEF S
  <2>1. Nat \subseteq S
    BY <1>1, <1>2, AllNaturals
  <2> QED
    BY <2>1
<1>4. it = [i \in 1..n |-> Step(it, i)]
  <2> HIDE DEF Step
  <2>1. n - (n - 1) = 1 /\ n - 1 < n
    OBVIOUS
  <2>2. \E f : f = [i \in (n - (n - 1))..n |-> Step(f, i)]
    BY <1>3, <2>1
  <2> QED
    BY <2>1, <2>2, Zenon
<1>5. Rebuilt(object, keys, value) = it
  BY Zenon DEF Rebuilt
<1> HIDE DEF it
<1>6. \A i \in 1..n : it[i] = Step(it, i)
  BY <1>4, Zenon
<1> QED
  BY <1>5, <1>6

-----------------------------------------------------------------------------
(***************************************************************************)
(* Sequences that enumerate a set.                                         *)
(***************************************************************************)
LEMMA ConcatFacts ==
    ASSUME NEW S, NEW s \in Seq(S), NEW t \in Seq(S)
    PROVE  /\ s \o t \in Seq(S)
           /\ Range(s \o t) = Range(s) \cup Range(t)
           /\ IsInjective(s) /\ IsInjective(t) /\ Range(s) \cap Range(t) = {}
                => IsInjective(s \o t)
<1> DEFINE u == s \o t
<1>1. /\ u \in Seq(S) /\ Len(s) \in Nat /\ Len(t) \in Nat
      /\ DOMAIN s = 1..Len(s) /\ DOMAIN t = 1..Len(t)
      /\ DOMAIN u = 1..(Len(s) + Len(t))
      /\ \A i \in 1..Len(s) : u[i] = s[i]
      /\ \A i \in 1..Len(t) : u[Len(s) + i] = t[i]
  OBVIOUS
<1>2. ASSUME NEW i \in DOMAIN u
      PROVE  \/ i \in 1..Len(s) /\ u[i] = s[i]
             \/ i - Len(s) \in 1..Len(t) /\ u[i] = t[i - Len(s)]
  BY <1>1
<1> HIDE DEF u
<1>3. Range(u) \subseteq Range(s) \cup Range(t)
  BY <1>1, <1>2 DEF Range
<1>4. Range(s) \subseteq Range(u)
  <2>1. \A i \in 1..Len(s) : i \in DOMAIN u
    BY <1>1
  <2> QED
    BY <1>1, <2>1 DEF Range
<1>5. Range(t) \subseteq Range(u)
  <2>1. \A i \in 1..Len(t) : Len(s) + i \in DOMAIN u
    BY <1>1
  <2> QED
    BY <1>1, <2>1 DEF Range
<1>6. ASSUME IsInjective(s), IsInjective(t), Range(s) \cap Range(t) = {}
      PROVE  IsInjective(u)
  <2> SUFFICES ASSUME NEW i \in DOMAIN u, NEW j \in DOMAIN u, u[i] = u[j]
               PROVE  i = j
    BY DEF IsInjective
  <2>1. \A k \in 1..Len(s) : s[k] \in Range(s)
    BY <1>1 DEF Range
  <2>2. \A k \in 1..Len(t) : t[k] \in Range(t)
    BY <1>1 DEF Range
  <2>3. CASE i \in 1..Len(s) /\ u[i] = s[i] /\ j \in 1..Len(s) /\ u[j] = s[j]
    BY <1>1, <1>6, <2>3 DEF IsInjective
  <2>4. CASE /\ i - Len(s) \in 1..Len(t) /\ u[i] = t[i - Len(s)]
             /\ j - Len(s) \in 1..Len(t) /\ u[j] = t[j - Len(s)]
    <3>1. i - Len(s) = j - Len(s)
      BY <1>1, <1>6, <2>4 DEF IsInjective
    <3> QED
      BY <1>1, <3>1
  <2> QED
    BY <1>2, <1>6, <2>1, <2>2, <2>3, <2>4
<1> QED
  BY <1>1, <1>3, <1>4, <1>5, <1>6 DEF u

\* A flattened sequence has what its sequences have, each once if they have
\* it once and have nothing in common.
LEMMA FlattenFacts ==
    ASSUME NEW S, NEW seqs \in Seq(Seq(S))
    PROVE  /\ FlattenSeq(seqs) \in Seq(S)
           /\ \A x : x \in Range(FlattenSeq(seqs)) <=>
                      \E i \in 1..Len(seqs) : x \in Range(seqs[i])
           /\ /\ \A i \in 1..Len(seqs) : IsInjective(seqs[i])
              /\ \A i, j \in 1..Len(seqs) :
                   i # j => Range(seqs[i]) \cap Range(seqs[j]) = {}
              => IsInjective(FlattenSeq(seqs))
<1>1. CASE Len(seqs) = 0
  <2>1. FlattenSeq(seqs) = <<>> /\ 1..Len(seqs) = {} /\ <<>> \in Seq(S)
    BY <1>1 DEF FlattenSeq
  <2>2. Range(<<>>) = {} /\ IsInjective(<<>>)
    BY DEF Range, IsInjective
  <2> HIDE DEF IsInjective, Range
  <2> QED
    BY <2>1, <2>2
<1>2. CASE Len(seqs) # 0
  <2> DEFINE F == FlattenedTo(seqs)
             n == Len(seqs)
             Apart == /\ \A i \in 1..n : IsInjective(seqs[i])
                      /\ \A i, j \in 1..n :
                           i # j => Range(seqs[i]) \cap Range(seqs[j]) = {}
             Holds(k) == /\ F[k] \in Seq(S)
                         /\ \A x : x \in Range(F[k]) <=>
                                    \E i \in 1..k : x \in Range(seqs[i])
                         /\ Apart => IsInjective(F[k])
             T == {k \in Nat : k < n => Holds(k + 1)}
  <2>1. /\ n \in Nat \ {0} /\ \A i \in 1..n : seqs[i] \in Seq(S)
    BY <1>2
  <2>2. /\ FlattenSeq(seqs) = F[n] /\ F[1] = seqs[1]
        /\ \A i \in 2..n : F[i] = F[i - 1] \o seqs[i]
    BY <2>1, FlattenUnfolds
  <2> HIDE DEF F
  <2>3. Holds(1)
    <3>1. /\ 1 \in 1..1 /\ (\A i \in 1..1 : i = 1) /\ 1 \in 1..n
      BY <2>1
    <3> QED
      BY <2>1, <2>2, <3>1
  <2>4. ASSUME NEW k \in Nat \ {0}, k + 1 <= n, Holds(k) PROVE Holds(k + 1)
    <3>1. /\ k + 1 \in 2..n /\ (k + 1) - 1 = k /\ k + 1 \in 1..n
          /\ 1..(k + 1) = (1..k) \cup {k + 1}
      BY <2>1, <2>4
    <3>2. F[k + 1] = F[k] \o seqs[k + 1] /\ seqs[k + 1] \in Seq(S)
      BY <2>1, <2>2, <3>1
    <3>3. /\ F[k + 1] \in Seq(S)
          /\ Range(F[k + 1]) = Range(F[k]) \cup Range(seqs[k + 1])
          /\ IsInjective(F[k]) /\ IsInjective(seqs[k + 1])
               /\ Range(F[k]) \cap Range(seqs[k + 1]) = {}
               => IsInjective(F[k + 1])
      BY <2>4, <3>2, ConcatFacts
    <3>4. \A x : x \in Range(F[k + 1]) <=>
                 \E i \in 1..(k + 1) : x \in Range(seqs[i])
      BY <2>4, <3>1, <3>3, Zenon
    <3>5. ASSUME Apart PROVE Range(F[k]) \cap Range(seqs[k + 1]) = {}
      <4>1. \A i \in 1..k : i \in 1..n /\ i # k + 1
        BY <2>1, <3>1
      <4> SUFFICES ASSUME NEW x \in Range(F[k]), x \in Range(seqs[k + 1])
                   PROVE  FALSE
        OBVIOUS
      <4>2. PICK i \in 1..k : x \in Range(seqs[i])
        BY <2>4
      <4>3. Range(seqs[i]) \cap Range(seqs[k + 1]) = {}
        BY <3>1, <3>5, <4>1
      <4> QED
        BY <4>2, <4>3
    <3> QED
      BY <3>1, <3>3, <3>4, <3>5, <2>4
  <2>5. Holds(n)
    <3> HIDE DEF Holds
    <3>1. 0 \in T /\ \A k \in Nat : k \in T => k + 1 \in T
      BY <2>3, <2>4
    <3>2. n - 1 \in T
      <4>1. n - 1 \in Nat
        BY <2>1
      <4> HIDE DEF T
      <4>2. Nat \subseteq T
        BY <3>1, AllNaturals
      <4> QED
        BY <4>1, <4>2
    <3> QED
      BY <2>1, <3>2
  <2> QED
    BY <2>2, <2>5
<1> QED
  BY <1>1, <1>2

-----------------------------------------------------------------------------
(***************************************************************************)
(* The combinations.                                                       *)
(***************************************************************************)
\* A sequence has the elements of a set, each once.
Enumerates(s, S) ==
    /\ s \in Seq(S)
    /\ \A x \in S : \E i \in 1..Len(s) : x = s[i]
    /\ \A i, j \in 1..Len(s) : s[i] = s[j] => i = j

\* The choices of a value for each of the first n items.
NamesUntil(items, n) == {items[k].name : k \in 1..n}
ChoicesUntil(items, n) ==
    {f \in [NamesUntil(items, n) -> STRING] :
       \A k \in 1..n : f[items[k].name] \in Range(items[k].values)}

\* A choice for n items is one for the items before the last and a value.
LEMMA OneMoreChoice ==
    ASSUME NEW items, NEW n \in Nat \ {0},
           \A i, k \in 1..n : items[i].name = items[k].name => i = k,
           Range(items[n].values) \subseteq STRING
    PROVE  /\ \A v \in Range(items[n].values), p \in ChoicesUntil(items, n - 1) :
                Assigned(p, items[n].name, v) \in ChoicesUntil(items, n)
           /\ \A f \in ChoicesUntil(items, n) :
                \E v \in Range(items[n].values), p \in ChoicesUntil(items, n - 1) :
                  f = Assigned(p, items[n].name, v)
           /\ \A v, w \in Range(items[n].values),
                 p, q \in ChoicesUntil(items, n - 1) :
                Assigned(p, items[n].name, v) = Assigned(q, items[n].name, w)
                  => v = w /\ p = q
<1> DEFINE a == items[n].name
           before == NamesUntil(items, n - 1)
<1>1. /\ n \in 1..n /\ \A k \in 1..(n - 1) : k \in 1..n /\ k # n
      /\ \A k \in 1..n : k = n \/ k \in 1..(n - 1)
  OBVIOUS
<1>2. a \notin before
  BY <1>1 DEF NamesUntil
<1>3. NamesUntil(items, n) = {a} \cup before
  BY <1>1 DEF NamesUntil
<1>4. \A k \in 1..(n - 1) : items[k].name \in before
  BY DEF NamesUntil
<1>5. ASSUME NEW v \in Range(items[n].values),
             NEW p \in ChoicesUntil(items, n - 1)
      PROVE  /\ p \in [before -> STRING] /\ DOMAIN p = before
             /\ DOMAIN Assigned(p, a, v) = {a} \cup before
             /\ Assigned(p, a, v)[a] = v
             /\ \A x \in before : Assigned(p, a, v)[x] = p[x]
  BY <1>2 DEF ChoicesUntil, Assigned
<1>6. ASSUME NEW v \in Range(items[n].values),
             NEW p \in ChoicesUntil(items, n - 1)
      PROVE  Assigned(p, a, v) \in ChoicesUntil(items, n)
  <2> DEFINE f == Assigned(p, a, v)
  <2>1. f = [x \in {a} \cup before |-> IF x = a THEN v ELSE p[x]]
    BY <1>5 DEF Assigned
  <2>2. f \in [{a} \cup before -> STRING]
    BY <1>5, <2>1
  <2>3. ASSUME NEW k \in 1..n
        PROVE  f[items[k].name] \in Range(items[k].values)
    <3>1. CASE k = n
      BY <1>5, <3>1
    <3>2. CASE k \in 1..(n - 1)
      BY <1>4, <1>5, <3>2 DEF ChoicesUntil
    <3> QED
      BY <1>1, <3>1, <3>2
  <2> HIDE DEF f, before
  <2>4. f \in [NamesUntil(items, n) -> STRING]
    BY <1>3, <2>2
  <2>5. f \in ChoicesUntil(items, n)
    BY <2>3, <2>4 DEF ChoicesUntil
  <2> QED
    BY <2>5 DEF f
<1>7. ASSUME NEW f \in ChoicesUntil(items, n)
      PROVE  \E v \in Range(items[n].values), p \in ChoicesUntil(items, n - 1) :
               f = Assigned(p, a, v)
  <2> DEFINE p == [x \in before |-> f[x]]
  <2>1. /\ f \in [{a} \cup before -> STRING]
        /\ \A k \in 1..n : f[items[k].name] \in Range(items[k].values)
    BY <1>3 DEF ChoicesUntil
  <2>2. f[a] \in Range(items[n].values)
    BY <1>1, <2>1
  <2>3. p \in ChoicesUntil(items, n - 1)
    <3>1. p \in [before -> STRING]
      BY <2>1
    <3>2. \A k \in 1..(n - 1) : p[items[k].name] \in Range(items[k].values)
      BY <1>1, <1>4, <2>1
    <3> HIDE DEF p
    <3> QED
      BY <3>1, <3>2 DEF ChoicesUntil
  <2>4. f = [x \in {a} \cup DOMAIN p |-> IF x = a THEN f[a] ELSE p[x]]
    BY <1>2, <2>1
  <2> QED
    BY <2>2, <2>3, <2>4 DEF Assigned
<1>8. ASSUME NEW v \in Range(items[n].values),
             NEW w \in Range(items[n].values),
             NEW p \in ChoicesUntil(items, n - 1),
             NEW q \in ChoicesUntil(items, n - 1),
             Assigned(p, a, v) = Assigned(q, a, w)
      PROVE  v = w /\ p = q
  <2>1. v = w
    BY <1>5, <1>8
  <2>2. \A x \in before : p[x] = q[x]
    BY <1>5, <1>8
  <2> QED
    BY <1>5, <2>1, <2>2
<1> HIDE DEF a, before
<1> QED
  BY <1>6, <1>7, <1>8 DEF a

LEMMA EnumerationFacts ==
    ASSUME NEW s, NEW S, Enumerates(s, S)
    PROVE  /\ s \in Seq(S) /\ DOMAIN s = 1..Len(s) /\ Len(s) \in Nat
           /\ Range(s) = S /\ IsInjective(s)
           /\ \A i \in 1..Len(s) : s[i] \in S
<1>1. /\ s \in Seq(S) /\ DOMAIN s = 1..Len(s) /\ Len(s) \in Nat
      /\ \A i \in 1..Len(s) : s[i] \in S
  BY DEF Enumerates
<1>2. Range(s) = S
  BY <1>1 DEF Enumerates, Range
<1>3. IsInjective(s)
  BY <1>1 DEF Enumerates, IsInjective
<1> QED
  BY <1>1, <1>2, <1>3

LEMMA EnumeratesRange ==
    ASSUME NEW T, NEW s \in Seq(T), IsInjective(s)
    PROVE  Enumerates(s, Range(s))
<1> DEFINE n == Len(s)
           S == Range(s)
<1>1. DOMAIN s = 1..n /\ n \in Nat /\ s = [i \in 1..n |-> s[i]]
  OBVIOUS
<1>2. /\ \A i \in 1..n : s[i] \in S
      /\ \A x \in S : \E i \in 1..n : x = s[i]
  BY <1>1 DEF Range
<1>3. \A i, j \in 1..n : s[i] = s[j] => i = j
  BY <1>1 DEF IsInjective
<1> HIDE DEF S
<1>4. s \in Seq(S)
  BY <1>1, <1>2
<1> QED
  BY <1>2, <1>3, <1>4 DEF Enumerates, S

\* Sequences that enumerate disjoint sets enumerate their union.
LEMMA UnionEnumerated ==
    ASSUME NEW S, NEW n \in Nat, NEW seqs, NEW part,
           seqs = [i \in 1..n |-> seqs[i]],
           \A i \in 1..n : Enumerates(seqs[i], part[i]),
           \A x \in S : \E i \in 1..n : x \in part[i],
           \A i \in 1..n : part[i] \subseteq S,
           \A i, j \in 1..n : part[i] \cap part[j] # {} => i = j
    PROVE  Enumerates(FlattenSeq(seqs), S)
<1>1. ASSUME NEW i \in 1..n
      PROVE  /\ seqs[i] \in Seq(S) /\ Range(seqs[i]) = part[i]
             /\ IsInjective(seqs[i])
  <2>1. /\ seqs[i] \in Seq(part[i]) /\ Range(seqs[i]) = part[i]
        /\ IsInjective(seqs[i]) /\ part[i] \subseteq S
    BY EnumerationFacts
  <2> QED
    BY <2>1
<1>2. seqs \in Seq(Seq(S)) /\ Len(seqs) = n
  BY <1>1
<1>3. FlattenSeq(seqs) \in Seq(S)
  BY <1>2, FlattenFacts
<1>4. \A x : x \in Range(FlattenSeq(seqs)) <=>
              \E i \in 1..Len(seqs) : x \in Range(seqs[i])
  BY <1>2, FlattenFacts
<1>5. Range(FlattenSeq(seqs)) = S
  <2>1. \A i \in 1..n : Range(seqs[i]) = part[i]
    BY <1>1
  <2>2. ASSUME NEW x \in Range(FlattenSeq(seqs)) PROVE x \in S
    <3>1. PICK i \in 1..n : x \in Range(seqs[i])
      BY <1>2, <1>4
    <3> QED
      BY <2>1, <3>1
  <2>3. ASSUME NEW x \in S PROVE x \in Range(FlattenSeq(seqs))
    <3>1. PICK i \in 1..n : x \in part[i]
      OBVIOUS
    <3>2. x \in Range(seqs[i])
      BY <2>1, <3>1
    <3> QED
      BY <1>2, <1>4, <3>2
  <2> QED
    BY <2>2, <2>3
<1>6. IsInjective(FlattenSeq(seqs))
  <2>1. \A i \in 1..Len(seqs) : IsInjective(seqs[i])
    BY <1>1, <1>2
  <2>2. \A i, j \in 1..Len(seqs) :
          i # j => Range(seqs[i]) \cap Range(seqs[j]) = {}
    BY <1>1, <1>2
  <2> QED
    BY <1>2, <2>1, <2>2, FlattenFacts
<1> QED
  BY <1>3, <1>5, <1>6, EnumeratesRange

\* Nested loops over two sequences enumerate the pairs, by what a function
\* makes of them.
Pairs(V, D, C, G) ==
    /\ \A v \in V, p \in D : G[v][p] \in C
    /\ \A x \in C : \E v \in V, p \in D : x = G[v][p]
    /\ \A v, w \in V, p, q \in D : G[v][p] = G[w][q] => v = w /\ p = q

LEMMA PairsEnumerated ==
    ASSUME NEW V, NEW D, NEW C, NEW G, NEW vs, NEW ps,
           Enumerates(vs, V), Enumerates(ps, D), Pairs(V, D, C, G)
    PROVE  Enumerates(FlattenSeq([i \in 1..Len(vs) |->
                        [k \in 1..Len(ps) |-> G[vs[i]][ps[k]]]]), C)
<1> DEFINE seqs == [i \in 1..Len(vs) |-> [k \in 1..Len(ps) |-> G[vs[i]][ps[k]]]]
           part == [i \in 1..Len(vs) |-> {G[vs[i]][p] : p \in D}]
<1>1. /\ Len(vs) \in Nat /\ \A i \in 1..Len(vs) : vs[i] \in V
      /\ \A v \in V : \E i \in 1..Len(vs) : v = vs[i]
      /\ \A i, j \in 1..Len(vs) : vs[i] = vs[j] => i = j
  BY EnumerationFacts DEF Enumerates
<1>2. /\ Len(ps) \in Nat /\ \A k \in 1..Len(ps) : ps[k] \in D
      /\ \A p \in D : \E k \in 1..Len(ps) : p = ps[k]
      /\ \A i, j \in 1..Len(ps) : ps[i] = ps[j] => i = j
  BY EnumerationFacts DEF Enumerates
<1>3. ASSUME NEW i \in 1..Len(vs) PROVE Enumerates(seqs[i], part[i])
  <2> DEFINE new == [k \in 1..Len(ps) |-> G[vs[i]][ps[k]]]
  <2>1. /\ DOMAIN new = 1..Len(ps) /\ new = [k \in 1..Len(ps) |-> new[k]]
        /\ \A k \in 1..Len(ps) : new[k] = G[vs[i]][ps[k]]
        /\ seqs[i] = new
    OBVIOUS
  <2>2. /\ part[i] = {G[vs[i]][p] : p \in D} /\ vs[i] \in V
    BY <1>1
  <2> HIDE DEF new, seqs, part
  <2>3. \A k \in 1..Len(ps) : new[k] \in part[i]
    BY <1>2, <2>1, <2>2
  <2>4. \A x \in part[i] : \E k \in 1..Len(ps) : x = new[k]
    BY <1>2, <2>1, <2>2
  <2>5. \A k, m \in 1..Len(ps) : new[k] = new[m] => k = m
    BY <1>2, <2>1, <2>2 DEF Pairs
  <2>6. new \in Seq(part[i]) /\ Len(new) = Len(ps)
    BY <1>2, <2>1, <2>3
  <2>7. Enumerates(new, part[i])
    BY <2>4, <2>5, <2>6 DEF Enumerates
  <2> QED
    BY <2>1, <2>7
<1>4. seqs = [i \in 1..Len(vs) |-> seqs[i]]
  OBVIOUS
<1>5. \A i \in 1..Len(vs) : part[i] = {G[vs[i]][p] : p \in D}
  OBVIOUS
<1> HIDE DEF seqs, part
<1>6. \A x \in C : \E i \in 1..Len(vs) : x \in part[i]
  <2> SUFFICES ASSUME NEW x \in C PROVE \E i \in 1..Len(vs) : x \in part[i]
    OBVIOUS
  <2>1. PICK v \in V, p \in D : x = G[v][p]
    BY DEF Pairs
  <2>2. PICK i \in 1..Len(vs) : v = vs[i]
    BY <1>1
  <2> QED
    BY <1>5, <2>1, <2>2
<1>7. \A i \in 1..Len(vs) : part[i] \subseteq C
  BY <1>1, <1>5 DEF Pairs
<1>8. \A i, j \in 1..Len(vs) : part[i] \cap part[j] # {} => i = j
  <2> SUFFICES ASSUME NEW i \in 1..Len(vs), NEW j \in 1..Len(vs),
                      NEW x \in part[i], x \in part[j]
               PROVE  i = j
    OBVIOUS
  <2>1. PICK p \in D, q \in D : x = G[vs[i]][p] /\ x = G[vs[j]][q]
    BY <1>5
  <2>2. PICK v \in V, w \in V : v = vs[i] /\ w = vs[j]
    BY <1>1
  <2>3. G[v][p] = G[w][q]
    BY <2>1, <2>2
  <2>4. v = w
    BY <2>3 DEF Pairs
  <2> QED
    BY <1>1, <2>2, <2>4
<1>9. Enumerates(FlattenSeq(seqs), C)
  BY <1>1, <1>3, <1>4, <1>6, <1>7, <1>8, UnionEnumerated, Zenon
<1> QED
  BY <1>9 DEF seqs

\* One layer enumerates the choices for one more item.
LEMMA OneMoreLayer ==
    ASSUME NEW items, NEW n \in Nat \ {0}, NEW prev,
           \A i, k \in 1..n : items[i].name = items[k].name => i = k,
           items[n].values \in Seq(STRING), IsInjective(items[n].values),
           IF n = 1 THEN prev = <<>>
           ELSE prev # <<>> /\ Enumerates(prev, ChoicesUntil(items, n - 1))
    PROVE  /\ Enumerates(nextCombination(items[n], prev), ChoicesUntil(items, n))
           /\ items[n].values # <<>> => nextCombination(items[n], prev) # <<>>
<1> DEFINE a == items[n].name
           vs == items[n].values
           C == ChoicesUntil(items, n)
           D == ChoicesUntil(items, n - 1)
<1>1. /\ DOMAIN vs = 1..Len(vs) /\ Len(vs) \in Nat
      /\ \A i \in 1..Len(vs) : vs[i] \in Range(vs) /\ vs[i] \in STRING
      /\ \A v \in Range(vs) : \E i \in 1..Len(vs) : v = vs[i]
      /\ vs # <<>> => 1 \in 1..Len(vs)
      /\ Range(vs) \subseteq STRING
      /\ \A i, j \in 1..Len(vs) : vs[i] = vs[j] => i = j
  <2>1. DOMAIN vs = 1..Len(vs)
    OBVIOUS
  <2> QED
    BY <2>1 DEF Range, IsInjective
<1>2. /\ \A v \in Range(vs), p \in D : Assigned(p, a, v) \in C
      /\ \A f \in C : \E v \in Range(vs), p \in D : f = Assigned(p, a, v)
      /\ \A v, w \in Range(vs), p, q \in D :
           Assigned(p, a, v) = Assigned(q, a, w) => v = w /\ p = q
  BY <1>1, OneMoreChoice, Zenon
<1>3. CASE n = 1
  <2> DEFINE new == [i \in 1..Len(vs) |-> Single(a, vs[i])]
             none == [x \in {} |-> x]
  <2>1. nextCombination(items[n], prev) = new
    BY <1>3 DEF nextCombination
  <2>2. D = {none}
    <3>1. NamesUntil(items, n - 1) = {} /\ 1..(n - 1) = {}
      BY <1>3 DEF NamesUntil
    <3>2. D = [{} -> STRING]
      BY <3>1 DEF ChoicesUntil
    <3> QED
      BY <3>2
  <2>3. \A v : Assigned(none, a, v) = Single(a, v)
    BY DEF Assigned, Single
  <2>4. /\ \A v \in Range(vs) : Single(a, v) \in C
        /\ \A f \in C : \E v \in Range(vs) : f = Single(a, v)
        /\ \A v, w \in Range(vs) : Single(a, v) = Single(a, w) => v = w
    <3> HIDE DEF C, D, a, vs, none
    <3> QED
      BY <1>2, <2>2, <2>3
  <2> HIDE DEF C, a, vs
  <2>5. /\ new \in Seq(C) /\ Len(new) = Len(vs)
        /\ \A i \in 1..Len(vs) : new[i] = Single(a, vs[i])
    BY <1>1, <2>4
  <2> HIDE DEF new
  <2>6. \A f \in C : \E i \in 1..Len(vs) : f = new[i]
    BY <1>1, <2>4, <2>5
  <2>7. \A i, j \in 1..Len(vs) : new[i] = new[j] => i = j
    BY <1>1, <2>4, <2>5
  <2>8. vs # <<>> => new # <<>>
    BY <1>1, <2>5
  <2> QED
    BY <2>1, <2>5, <2>6, <2>7, <2>8 DEF Enumerates, C, vs
<1>4. CASE n # 1
  <2> DEFINE G == [v \in Range(vs) |-> [p \in D |-> Assigned(p, a, v)]]
             seqs == [i \in 1..Len(vs) |->
                        [k \in 1..Len(prev) |-> Assigned(prev[k], a, vs[i])]]
             tuples == [i \in 1..Len(vs) |->
                          [k \in 1..Len(prev) |-> G[vs[i]][prev[k]]]]
  <2>1. nextCombination(items[n], prev) = FlattenSeq(seqs)
    BY <1>4 DEF nextCombination
  <2>2. prev # <<>> /\ Enumerates(prev, D)
    BY <1>4
  <2> HIDE DEF C, D, a, vs
  <2>3. \A v \in Range(vs), p \in D : G[v][p] = Assigned(p, a, v)
    OBVIOUS
  <2>4. Enumerates(vs, Range(vs))
    BY EnumeratesRange DEF vs
  <2>5. /\ \A k \in 1..Len(prev) : prev[k] \in D
        /\ Len(prev) \in Nat /\ 1 \in 1..Len(prev)
    <3>1. /\ prev \in Seq(D) /\ Len(prev) \in Nat
          /\ \A k \in 1..Len(prev) : prev[k] \in D
      BY <2>2, EnumerationFacts
    <3> QED
      BY <2>2, <3>1
  <2>6. tuples = seqs
    <3>1. ASSUME NEW i \in 1..Len(vs), NEW k \in 1..Len(prev)
          PROVE  G[vs[i]][prev[k]] = Assigned(prev[k], a, vs[i])
      BY <1>1, <2>3, <2>5
    <3> HIDE DEF G
    <3> QED
      BY <3>1
  <2>7. Enumerates(FlattenSeq(tuples), C)
    <3>1. Pairs(Range(vs), D, C, G)
      <4> HIDE DEF G
      <4>1. \A v \in Range(vs), p \in D : G[v][p] \in C
        BY <1>2, <2>3
      <4>2. \A x \in C : \E v \in Range(vs), p \in D : x = G[v][p]
        BY <1>2, <2>3
      <4>3. \A v, w \in Range(vs), p, q \in D :
              G[v][p] = G[w][q] => v = w /\ p = q
        BY <1>2, <2>3
      <4> QED
        BY <4>1, <4>2, <4>3 DEF Pairs
    <3> HIDE DEF G
    <3> QED
      BY <2>2, <2>4, <3>1, PairsEnumerated
  <2> HIDE DEF seqs, tuples
  <2>8. vs # <<>> => FlattenSeq(seqs) # <<>>
    <3> SUFFICES ASSUME vs # <<>>, FlattenSeq(seqs) = <<>> PROVE FALSE
      OBVIOUS
    <3>1. Assigned(prev[1], a, vs[1]) \in C
      BY <1>1, <1>2, <2>5
    <3>2. Len(FlattenSeq(seqs)) = 0
      OBVIOUS
    <3>3. \A x \in C : \E i \in 1..0 : x = FlattenSeq(seqs)[i]
      BY <2>6, <2>7, <3>2 DEF Enumerates
    <3> QED
      BY <3>1, <3>3
  <2> QED
    BY <2>1, <2>6, <2>7, <2>8 DEF C, vs
<1> QED
  BY <1>3, <1>4

\* What is assumed of the items, item by item.
LEMMA ItemFacts ==
    ASSUME NEW items, ItemsAssumed(items)
    PROVE  /\ Len(items) \in Nat
           /\ \A i, k \in 1..Len(items) :
                items[i].name = items[k].name => i = k
           /\ \A i \in 1..Len(items) :
                /\ items[i].values \in Seq(STRING)
                /\ IsInjective(items[i].values)
                /\ i < Len(items) => items[i].values # <<>>
                /\ Range(items[i].values) \subseteq STRING
<1> DEFINE I == [name : STRING, values : Seq(STRING)]
<1>1. items \in Seq(I)
  BY DEF ItemsAssumed
<1>2. \A x \in I : x.values \in Seq(STRING)
  OBVIOUS
<1> HIDE DEF I
<1>3. Len(items) \in Nat /\ \A i \in 1..Len(items) : items[i] \in I
  BY <1>1
<1>4. \A i \in 1..Len(items) : items[i].values \in Seq(STRING)
  BY <1>2, <1>3
<1>5. \A v \in Seq(STRING) : Range(v) \subseteq STRING
  BY DEF Range
<1> QED
  BY <1>3, <1>4, <1>5 DEF ItemsAssumed

\* GetAllCombination enumerates every choice of values.
LEMMA AllChoices ==
    ASSUME NEW items, ItemsAssumed(items), items # <<>>
    PROVE  Enumerates(GetAllCombination(items), ChoicesUntil(items, Len(items)))
<1> DEFINE n == Len(items)
           L == Layers(items)
           Holds(k) == /\ Enumerates(L[k], ChoicesUntil(items, k))
                       /\ k < n => L[k] # <<>>
           T == {k \in Nat : k < n => Holds(k + 1)}
<1>1. /\ n \in Nat \ {0}
      /\ \A i, k \in 1..n : items[i].name = items[k].name => i = k
      /\ \A i \in 1..n : /\ items[i].values \in Seq(STRING)
                         /\ IsInjective(items[i].values)
                         /\ i < n => items[i].values # <<>>
  <2>1. n # 0
    <3> DEFINE I == [name : STRING, values : Seq(STRING)]
    <3>1. items \in Seq(I)
      BY DEF ItemsAssumed
    <3> HIDE DEF I
    <3> QED
      BY <3>1
  <2> QED
    BY <2>1, ItemFacts
<1>2. /\ L[0] = <<>>
      /\ \A i \in 1..n : L[i] = nextCombination(items[i], L[i - 1])
  BY <1>1, LayersUnfold
<1> HIDE DEF L
<1>3. ASSUME NEW k \in 1..n, k # 1 => Holds(k - 1)
      PROVE  Holds(k)
  <2> DEFINE prev == L[k - 1]
  <2>1. /\ k \in Nat \ {0} /\ k - 1 < n /\ (k = 1 => k - 1 = 0)
        /\ \A i \in 1..k : i \in 1..n
    BY <1>1
  <2>2. \A i, m \in 1..k : items[i].name = items[m].name => i = m
    BY <1>1, <2>1
  <2>3. IF k = 1 THEN prev = <<>>
        ELSE prev # <<>> /\ Enumerates(prev, ChoicesUntil(items, k - 1))
    BY <1>2, <1>3, <2>1
  <2>4. /\ items[k].values \in Seq(STRING) /\ IsInjective(items[k].values)
        /\ k < n => items[k].values # <<>>
        /\ L[k] = nextCombination(items[k], prev)
    BY <1>1, <1>2
  <2> HIDE DEF prev
  <2>5. /\ Enumerates(nextCombination(items[k], prev), ChoicesUntil(items, k))
        /\ items[k].values # <<>> => nextCombination(items[k], prev) # <<>>
    BY <2>1, <2>2, <2>3, <2>4, OneMoreLayer
  <2> QED
    BY <2>4, <2>5
<1>4. n - 1 \in T
  <2>1. 0 \in T
    <3>1. 1 \in 1..n /\ 0 + 1 = 1
      BY <1>1
    <3>2. Holds(1)
      BY <1>3, <3>1
    <3> HIDE DEF Holds
    <3> QED
      BY <3>1, <3>2
  <2>2. ASSUME NEW k \in Nat, k \in T PROVE k + 1 \in T
    <3> SUFFICES ASSUME k + 1 < n PROVE Holds((k + 1) + 1)
      OBVIOUS
    <3>1. k < n /\ (k + 1) + 1 \in 1..n /\ ((k + 1) + 1) - 1 = k + 1
      BY <1>1
    <3>2. Holds(k + 1)
      BY <2>2, <3>1
    <3> HIDE DEF Holds
    <3> QED
      BY <1>3, <3>1, <3>2
  <2>3. n - 1 \in Nat
    BY <1>1
  <2> HIDE DEF T
  <2>4. Nat \subseteq T
    BY <2>1, <2>2, AllNaturals
  <2> QED
    BY <2>3, <2>4
<1>5. Holds(n)
  <2> HIDE DEF Holds
  <2> QED
    BY <1>1, <1>4
<1> QED
  BY <1>5 DEF GetAllCombination, L

\* The choices are the labels meant.
LEMMA LabelsMeant ==
    ASSUME NEW items, ItemsAssumed(items)
    PROVE  {f \in [ItemNames(items) ->
                     UNION {ValuesNamed(items, n) : n \in ItemNames(items)}] :
              \A n \in ItemNames(items) : f[n] \in ValuesNamed(items, n)}
             = ChoicesUntil(items, Len(items))
<1> DEFINE n == Len(items)
           names == ItemNames(items)
           U == UNION {ValuesNamed(items, m) : m \in names}
           M == {f \in [names -> U] :
                   \A m \in names : f[m] \in ValuesNamed(items, m)}
<1>1. /\ \A i, k \in 1..n : items[i].name = items[k].name => i = k
      /\ \A i \in 1..n : Range(items[i].values) \subseteq STRING
  BY ItemFacts
<1>2. /\ names = NamesUntil(items, n)
      /\ \A k \in 1..n : items[k].name \in names
      /\ \A m \in names : \E k \in 1..n : m = items[k].name
  BY DEF ItemNames, NamesUntil
<1>3. ASSUME NEW k \in 1..n
      PROVE  ValuesNamed(items, items[k].name) = Range(items[k].values)
  <2>1. {i \in 1..n : items[i].name = items[k].name} = {k}
    BY <1>1
  <2> QED
    BY <2>1 DEF ValuesNamed
<1> HIDE DEF names
<1>4. \A m \in names : ValuesNamed(items, m) \subseteq U
  OBVIOUS
<1> HIDE DEF U
<1>5. ASSUME NEW f \in M PROVE f \in ChoicesUntil(items, n)
  <2>1. \A k \in 1..n : f[items[k].name] \in Range(items[k].values)
    BY <1>2, <1>3
  <2>2. \A m \in names : f[m] \in STRING
    BY <1>1, <1>2, <2>1
  <2>3. f \in [names -> STRING]
    BY <2>2
  <2> QED
    BY <1>2, <2>1, <2>3 DEF ChoicesUntil
<1>6. ASSUME NEW f \in ChoicesUntil(items, n) PROVE f \in M
  <2>1. /\ f \in [names -> STRING]
        /\ \A k \in 1..n : f[items[k].name] \in Range(items[k].values)
    BY <1>2 DEF ChoicesUntil
  <2>2. \A m \in names : f[m] \in ValuesNamed(items, m)
    BY <1>2, <1>3, <2>1
  <2>3. f \in [names -> U]
    BY <1>4, <2>1, <2>2
  <2> QED
    BY <2>2, <2>3
<1>7. M = ChoicesUntil(items, n)
  BY <1>5, <1>6
<1> QED
  BY <1>7 DEF U, names

\* The labels of a benchmark, each once.
LabelsOf(s) ==
    ChoicesUntil(GetCombinedIterations(s), Len(GetCombinedIterations(s)))

LEMMA LabelsEnumerated ==
    ASSUME NEW s \in Specs
    PROVE  Enumerates(IterationLabels(s), LabelsOf(s))
<1> DEFINE items == GetCombinedIterations(s)
<1>1. ItemsAssumed(items)
  BY SpecsAssumption
<1> HIDE DEF items
<1>2. CASE items = <<>>
  <2>1. IterationLabels(s) = << <<>> >>
    BY <1>2 DEF IterationLabels, items
  <2>2. NamesUntil(items, 0) = {} /\ Len(items) = 0 /\ 1..0 = {}
    BY <1>2 DEF NamesUntil
  <2>3. LabelsOf(s) = {<<>>}
    <3>1. LabelsOf(s) = [{} -> STRING]
      BY <2>2 DEF LabelsOf, ChoicesUntil, items
    <3>2. \A f \in [{} -> STRING] : f = <<>>
      OBVIOUS
    <3>3. <<>> \in [{} -> STRING]
      OBVIOUS
    <3> QED
      BY <3>1, <3>2, <3>3
  <2> QED
    BY <2>1, <2>3 DEF Enumerates
<1>3. CASE items # <<>>
  <2>1. IterationLabels(s) = GetAllCombination(items)
    BY <1>3 DEF IterationLabels, items
  <2> QED
    BY <1>1, <1>3, <2>1, AllChoices DEF LabelsOf, items
<1> QED
  BY <1>2, <1>3

\* What is meant of a benchmark, part by part.
BuildSet(s) ==
    IF TrackedBuilds[s] = <<>> THEN {"init"} ELSE Range(TrackedBuilds[s])
Rounds(s) == {0} \cup 0..(s.repetition - 1)
JobsOf(s) == JobsMeant(s, TrackedBuilds[s])

LEMMA BuildsEnumerated ==
    ASSUME NEW s \in Specs
    PROVE  Enumerates(BuildsOf(TrackedBuilds[s]), BuildSet(s))
<1>1. TrackedBuilds[s] \in Seq(STRING) /\ IsInjective(TrackedBuilds[s])
  BY SpecsAssumption
<1>2. CASE TrackedBuilds[s] = <<>>
  <2>1. BuildsOf(TrackedBuilds[s]) = <<"init">> /\ BuildSet(s) = {"init"}
    BY <1>2 DEF BuildsOf, BuildSet, INIT_BUILD_NAME
  <2> QED
    BY <2>1 DEF Enumerates
<1>3. CASE TrackedBuilds[s] # <<>>
  <2>1. /\ BuildsOf(TrackedBuilds[s]) = TrackedBuilds[s]
        /\ BuildSet(s) = Range(TrackedBuilds[s])
    BY <1>3 DEF BuildsOf, BuildSet
  <2> QED
    BY <1>1, <2>1, EnumeratesRange
<1> QED
  BY <1>2, <1>3

LEMMA JobsMeantByPart ==
    ASSUME NEW s \in Specs
    PROVE  JobsOf(s) = [label : LabelsOf(s), build : BuildSet(s),
                        repetition : Rounds(s)]
<1> DEFINE items == GetCombinedIterations(s)
<1>1. ItemsAssumed(items)
  BY SpecsAssumption
<1> HIDE DEF items
<1>2. {f \in [ItemNames(items) ->
                     UNION {ValuesNamed(items, n) : n \in ItemNames(items)}] :
              \A n \in ItemNames(items) : f[n] \in ValuesNamed(items, n)}
       = ChoicesUntil(items, Len(items))
  BY <1>1, LabelsMeant
<1> DEFINE M == {f \in [ItemNames(items) ->
                     UNION {ValuesNamed(items, n) : n \in ItemNames(items)}] :
              \A n \in ItemNames(items) : f[n] \in ValuesNamed(items, n)}
<1>3. LabelsOf(s) = M
  BY <1>2 DEF LabelsOf, items
<1>4. BuildSet(s) = IF TrackedBuilds[s] = <<>> THEN {"init"}
                   ELSE Range(TrackedBuilds[s])
  BY DEF BuildSet
<1>5. Rounds(s) = {0} \cup 0..(s.repetition - 1)
  BY DEF Rounds
<1> DEFINE B == IF TrackedBuilds[s] = <<>> THEN {"init"}
                ELSE Range(TrackedBuilds[s])
           R == {0} \cup 0..(s.repetition - 1)
           J == {[label |-> f, build |-> b, repetition |-> r] :
                   f \in M, b \in B, r \in R}
<1>6. JobsOf(s) = J
  BY DEF JobsOf, JobsMeant, items
<1> HIDE DEF M, B, R
<1>7. J = [label : M, build : B, repetition : R]
  <2>1. ASSUME NEW x \in J PROVE x \in [label : M, build : B, repetition : R]
    <3>1. PICK f \in M, b \in B, r \in R :
            x = [label |-> f, build |-> b, repetition |-> r]
      BY DEF J
    <3> QED
      BY <3>1
  <2>2. ASSUME NEW x \in [label : M, build : B, repetition : R] PROVE x \in J
    <3>1. /\ x = [label |-> x.label, build |-> x.build,
                  repetition |-> x.repetition]
          /\ x.label \in M /\ x.build \in B /\ x.repetition \in R
      OBVIOUS
    <3> QED
      BY <3>1 DEF J
  <2> HIDE DEF J
  <2> QED
    BY <2>1, <2>2
<1> HIDE DEF J
<1>8. M = LabelsOf(s) /\ B = BuildSet(s) /\ R = Rounds(s)
  BY <1>3, <1>4, <1>5 DEF B, R
<1> QED
  BY <1>6, <1>7, <1>8

\* One round goes through the labels for each build.
Round(s, r) ==
    FlattenSeq([i \in 1..Len(BuildsOf(TrackedBuilds[s])) |->
      [k \in 1..Len(IterationLabels(s)) |->
         getJobHash(IterationLabels(s)[k], BuildsOf(TrackedBuilds[s])[i], r)]])

JobsOfRound(s, r) ==
    [label : LabelsOf(s), build : BuildSet(s), repetition : {r}]

LEMMA RoundEnumerated ==
    ASSUME NEW s \in Specs, NEW r
    PROVE  Enumerates(Round(s, r), JobsOfRound(s, r))
<1> DEFINE vs == BuildsOf(TrackedBuilds[s])
           ps == IterationLabels(s)
           V == BuildSet(s)
           D == LabelsOf(s)
           C == [label : D, build : V, repetition : {r}]
           G == [b \in V |-> [f \in D |->
                   [label |-> f, build |-> b, repetition |-> r]]]
<1>1. Enumerates(vs, V) /\ Enumerates(ps, D)
  BY BuildsEnumerated, LabelsEnumerated
<1> HIDE DEF vs, ps, V, D
<1>2. Pairs(V, D, C, G)
  <2>1. \A b \in V, f \in D :
          G[b][f] = [label |-> f, build |-> b, repetition |-> r]
    OBVIOUS
  <2> HIDE DEF G
  <2>2. \A b \in V, f \in D : G[b][f] \in C
    <3> SUFFICES ASSUME NEW b \in V, NEW f \in D PROVE G[b][f] \in C
      OBVIOUS
    <3>1. [label |-> f, build |-> b, repetition |-> r] \in C
      OBVIOUS
    <3> QED
      BY <2>1, <3>1
  <2>3. \A x \in C : \E b \in V, f \in D : x = G[b][f]
    BY <2>1
  <2>4. \A b, c \in V, f, g \in D : G[b][f] = G[c][g] => b = c /\ f = g
    <3> SUFFICES ASSUME NEW b \in V, NEW c \in V, NEW f \in D, NEW g \in D,
                        G[b][f] = G[c][g]
                 PROVE  b = c /\ f = g
      OBVIOUS
    <3>1. [label |-> f, build |-> b, repetition |-> r]
            = [label |-> g, build |-> c, repetition |-> r]
      BY <2>1
    <3> HIDE DEF G
    <3> QED
      BY <3>1
  <2> QED
    BY <2>2, <2>3, <2>4 DEF Pairs
<1>3. \A i \in 1..Len(vs), k \in 1..Len(ps) :
        G[vs[i]][ps[k]] = getJobHash(ps[k], vs[i], r)
  <2>1. \A i \in 1..Len(vs), k \in 1..Len(ps) : vs[i] \in V /\ ps[k] \in D
    BY <1>1, EnumerationFacts
  <2> QED
    BY <2>1 DEF getJobHash
<1> HIDE DEF G
<1>4. [i \in 1..Len(vs) |-> [k \in 1..Len(ps) |-> G[vs[i]][ps[k]]]]
        = [i \in 1..Len(vs) |->
             [k \in 1..Len(ps) |-> getJobHash(ps[k], vs[i], r)]]
  BY <1>3
<1> HIDE DEF C
<1>5. Enumerates(FlattenSeq([i \in 1..Len(vs) |->
                        [k \in 1..Len(ps) |-> G[vs[i]][ps[k]]]]), C)
  BY <1>1, <1>2, PairsEnumerated
<1>6. Round(s, r) = FlattenSeq([i \in 1..Len(vs) |->
             [k \in 1..Len(ps) |-> getJobHash(ps[k], vs[i], r)]])
  BY DEF Round, vs, ps
<1>7. JobsOfRound(s, r) = C
  BY DEF JobsOfRound, C, D, V
<1> QED
  BY <1>4, <1>5, <1>6, <1>7

\* The scan goes through the jobs that are meant, each once: for any items,
\* builds and repetitions as assumed (CreateFromOperator's nested loops over
\* GetAllCombination).
THEOREM ScanEnumeratesMeant ==
    ASSUME NEW s \in Specs
    PROVE  Enumerates(ScannedJobs(s, TrackedBuilds[s]),
                      JobsMeant(s, TrackedBuilds[s]))
<1> DEFINE n == MaxRepetition(s)
           seqs == [r \in 1..n |-> Round(s, r - 1)]
           part == [r \in 1..n |-> JobsOfRound(s, r - 1)]
<1>1. s.repetition \in Nat
  BY SpecsAssumption
<1>2. n \in Nat /\ \A r : r \in Rounds(s) <=> \E i \in 1..n : r = i - 1
  <2>1. CASE s.repetition = 0
    <3>1. n = 1 /\ Rounds(s) = {0}
      BY <2>1 DEF MaxRepetition, Rounds
    <3> HIDE DEF n
    <3> QED
      BY <3>1
  <2>2. CASE s.repetition # 0
    <3>1. n = s.repetition /\ n \in Nat \ {0}
      BY <1>1, <2>2 DEF MaxRepetition
    <3>2. Rounds(s) = 0..(n - 1)
      BY <3>1 DEF Rounds
    <3> HIDE DEF n
    <3>3. ASSUME NEW r \in 0..(n - 1) PROVE \E i \in 1..n : r = i - 1
      <4>1. r + 1 \in 1..n /\ r = (r + 1) - 1
        BY <3>1
      <4> QED
        BY <4>1
    <3>4. ASSUME NEW i \in 1..n PROVE i - 1 \in 0..(n - 1)
      BY <3>1
    <3> QED
      BY <3>1, <3>2, <3>3, <3>4
  <2> QED
    BY <2>1, <2>2
<1>3. ScannedJobs(s, TrackedBuilds[s]) = FlattenSeq(seqs)
  BY DEF ScannedJobs, Round
<1> HIDE DEF n
<1>4. \A x \in JobsOf(s) : \E i \in 1..n : x \in part[i]
  <2> SUFFICES ASSUME NEW x \in JobsOf(s) PROVE \E i \in 1..n : x \in part[i]
    OBVIOUS
  <2>1. x \in [label : LabelsOf(s), build : BuildSet(s),
               repetition : Rounds(s)]
    BY JobsMeantByPart
  <2>2. PICK i \in 1..n : x.repetition = i - 1
    BY <1>2, <2>1
  <2>3. x \in part[i]
    BY <2>1, <2>2 DEF JobsOfRound
  <2> QED
    BY <2>3
<1>5. \A i \in 1..n : part[i] \subseteq JobsOf(s)
  <2> SUFFICES ASSUME NEW i \in 1..n, NEW x \in part[i] PROVE x \in JobsOf(s)
    OBVIOUS
  <2>1. x \in [label : LabelsOf(s), build : BuildSet(s), repetition : {i - 1}]
    BY DEF JobsOfRound
  <2>2. i - 1 \in Rounds(s)
    BY <1>2
  <2>3. x \in [label : LabelsOf(s), build : BuildSet(s),
               repetition : Rounds(s)]
    BY <2>1, <2>2
  <2> QED
    BY <2>3, JobsMeantByPart
<1>6. \A i, j \in 1..n : part[i] \cap part[j] # {} => i = j
  <2> SUFFICES ASSUME NEW i \in 1..n, NEW j \in 1..n,
                      NEW x, x \in part[i], x \in part[j]
               PROVE  i = j
    OBVIOUS
  <2>1. x.repetition = i - 1 /\ x.repetition = j - 1
    BY DEF JobsOfRound
  <2> QED
    BY <1>2, <2>1
<1>7. /\ seqs = [i \in 1..n |-> seqs[i]]
      /\ \A i \in 1..n : Enumerates(seqs[i], part[i])
  BY RoundEnumerated
<1> HIDE DEF seqs, part
<1>8. Enumerates(FlattenSeq(seqs), JobsOf(s))
  BY <1>2, <1>4, <1>5, <1>6, <1>7, UnionEnumerated
<1> QED
  BY <1>3, <1>8 DEF JobsOf

\* What a job's label says of its profile.
LEMMA JobFacts ==
    ASSUME NEW s \in Specs, NEW j \in JobsOf(s)
    PROVE  /\ DOMAIN j.label = ItemNames(GetCombinedIterations(s))
           /\ j = [label |-> j.label, build |-> j.build,
                   repetition |-> j.repetition]
           /\ PROFILE \in DOMAIN j.label <=> Selecting(s)
           /\ Selecting(s) =>
                /\ j.label[PROFILE] \in Range(Selection(s).tunedValues)
                /\ j.label[PROFILE] # NULL_VALUE_STR
<1> DEFINE items == GetCombinedIterations(s)
           n == Len(items)
           own == s.iteration \o s.configuration
           sel == NodeSelectionItems(s)
           m == Len(s.iteration) + Len(s.configuration)
<1>1. j \in [label : LabelsOf(s), build : BuildSet(s), repetition : Rounds(s)]
  BY JobsMeantByPart
<1>2. /\ j = [label |-> j.label, build |-> j.build,
              repetition |-> j.repetition]
      /\ j.label \in LabelsOf(s)
  BY <1>1
<1>3. /\ NamesUntil(items, n) = ItemNames(items)
      /\ DOMAIN j.label = ItemNames(items)
      /\ \A k \in 1..n : j.label[items[k].name] \in Range(items[k].values)
  BY <1>2 DEF LabelsOf, ChoicesUntil, NamesUntil, ItemNames
<1>4. /\ Len(s.iteration) \in Nat /\ Len(s.configuration) \in Nat
      /\ own \in Seq([name : STRING, values : Seq(STRING)])
      /\ Len(own) = m
      /\ PROFILE \notin ItemNames(own)
      /\ Len(s.nodeSelection) \in {0, 1}
      /\ Selecting(s) => ValuesAssumed(Selection(s))
  BY SpecsAssumption
<1> DEFINE size == Len(s.nodeSelection)
           item == [name |-> PROFILE, values |-> Selection(s).tunedValues]
<1>5. /\ sel = [i \in 1..size |->
               [name |-> PROFILE, values |-> s.nodeSelection[i].tunedValues]]
      /\ size \in {0, 1} /\ (size = 1 <=> Selecting(s))
  BY <1>4 DEF NodeSelectionItems, Selecting
<1>6. sel = IF Selecting(s) THEN <<item>> ELSE <<>>
  <2>1. CASE size = 0
    <3>1. 1..size = {}
      BY <2>1
    <3> HIDE DEF sel
    <3>2. sel = <<>>
      BY <1>5, <3>1
    <3> QED
      BY <1>5, <2>1, <3>2
  <2>2. CASE size = 1
    <3>1. 1..size = {1}
      BY <2>2
    <3>2. sel = [i \in {1} |-> item]
      BY <1>5, <3>1 DEF Selection
    <3>3. <<item>> = [i \in {1} |-> item]
      OBVIOUS
    <3> HIDE DEF sel
    <3> QED
      BY <1>5, <2>2, <3>2, <3>3
  <2> QED
    BY <1>5, <2>1, <2>2
<1>7. items = own \o sel
  BY DEF GetCombinedIterations
<1> HIDE DEF items, own, sel, item
<1>8. CASE Selecting(s)
  <2>1. sel = <<item>>
    BY <1>6, <1>8
  <2>2. /\ n = Len(own) + 1 /\ items[n] = item /\ Len(own) \in Nat
    <3> DEFINE I == [name : STRING, values : Seq(STRING)]
               S == I \cup {item}
    <3>1. own \in Seq(S)
      <4>1. own \in Seq(I) /\ I \subseteq S
        BY <1>4
      <4> HIDE DEF I, S
      <4> QED
        BY <4>1
    <3>2. item \in S
      OBVIOUS
    <3> HIDE DEF S
    <3> QED
      BY <1>7, <2>1, <3>1, <3>2
  <2>3. n \in 1..n /\ items[n].name = PROFILE
        /\ items[n].values = Selection(s).tunedValues
    BY <2>2 DEF item
  <2>4. PROFILE \in ItemNames(items)
    BY <2>3 DEF ItemNames
  <2>5. j.label[PROFILE] \in Range(Selection(s).tunedValues)
    BY <1>3, <2>3
  <2>6. PICK i \in DOMAIN Selection(s).tunedValues :
          j.label[PROFILE] = Selection(s).tunedValues[i]
    BY <2>5 DEF Range
  <2>7. DOMAIN Selection(s).tunedValues = 1..Len(Selection(s).tunedValues)
    <3>1. items[n].values \in Seq(STRING)
      <4>1. ItemsAssumed(items)
        BY SpecsAssumption DEF items
      <4> QED
        BY <2>3, <4>1, ItemFacts
    <3> QED
      BY <2>3, <3>1
  <2>8. Selection(s).tunedValues[i] # NULL_VALUE_STR
    BY <1>4, <1>8, <2>7 DEF ValuesAssumed
  <2> QED
    BY <1>2, <1>3, <1>8, <2>4, <2>5, <2>6, <2>8 DEF items
<1>9. CASE ~Selecting(s)
  <2>1. items = own
    BY <1>4, <1>6, <1>7, <1>9
  <2> QED
    BY <1>2, <1>3, <1>4, <1>9, <2>1 DEF items
<1> QED
  BY <1>8, <1>9

-----------------------------------------------------------------------------
(***************************************************************************)
(* Writing a value at the end of a path of keys, and reading it again.     *)
(***************************************************************************)
\* The keys lead through maps, or on to nothing.
Leads(object, keys) ==
    /\ object.kind = "map"
    /\ \A i \in 1..Len(keys) :
         KeyAssumed(keys[i], Visited(object, keys)[i - 1],
                    Visited(object, keys)[i])

\* The names at the end of the keys.
There(object, keys) ==
    LET there == Visited(object, keys)[Len(keys)]
    IN  IF there.kind = "map" THEN there.at ELSE <<>>

\* One key more.
Extends(more, keys) ==
    /\ Len(keys) \in Nat /\ Len(more) = Len(keys) + 1
    /\ \A i \in 1..Len(keys) : more[i] = keys[i]

LEMMA MinFacts ==
    ASSUME NEW T, T \subseteq Nat, T # {}
    PROVE  Min(T) \in T
<1>1. \E x \in T : \A y \in T : x <= y
  BY LeastNatural
<1> QED
  BY <1>1 DEF Min

\* A value that a key places is found there: if the key looks for an entry
\* with a certain text, the value still has to have that text.
LEMMA PlacedIsRead ==
    ASSUME NEW key, NEW object, NEW x, x.kind = "map",
           KeyAssumed(key, Map(object), getValue(key, Prepared(key, object))),
           key.type = "MAP" =>
             LET y == getValue(key, Prepared(key, object))
             IN  key.sub \in DOMAIN y.at =>
                   key.sub \in DOMAIN x.at /\ x.at[key.sub] = y.at[key.sub]
    PROVE  LET new == Placed(key, Prepared(key, object), x)
           IN  /\ new.kind = "map"
               /\ getValue(key, Prepared(key, new.at)) = x
               /\ KeyAssumed(key, new, x)
<1> DEFINE base == Prepared(key, object)
           y == getValue(key, base)
           new == Placed(key, base, x)
           list == base[key.text].at
           i == IndexOf(key, list)
<1>1. CASE key.type = "VALUE"
  <2>1. new = Map(Assigned(base, key.text, x))
    BY <1>1 DEF Placed
  <2>2. key.text \in DOMAIN new.at /\ new.at[key.text] = x /\ new.kind = "map"
    BY <2>1 DEF Assigned, Map
  <2>3. Prepared(key, new.at) = new.at
    BY <1>1 DEF Prepared
  <2>4. getValue(key, new.at) = x
    BY <1>1, <2>2 DEF getValue
  <2>5. KeyAssumed(key, new, x)
    BY <1>1 DEF KeyAssumed
  <2> QED
    BY <2>2, <2>3, <2>4, <2>5
<1>2. CASE key.type # "VALUE"
  <2>1. /\ key.index \in Nat /\ key.type \in {"LIST", "MAP"}
        /\ y.kind = "map"
        /\ object[key.text].at \in Seq(Range(object[key.text].at))
    BY <1>2 DEF KeyAssumed, Map
  <2>2. key.text \in DOMAIN object
    <3> SUFFICES ASSUME key.text \notin DOMAIN object PROVE FALSE
      OBVIOUS
    <3>1. base = Assigned(object, key.text, List(<<>>))
      BY <1>2 DEF Prepared
    <3>2. /\ key.text \in DOMAIN base
          /\ base[key.text].kind = "list" /\ list = <<>>
      BY <3>1 DEF Assigned, List
    <3>3. i = key.index + 1 \/ i = Len(list) + 1
      <4>1. {k \in 1..Len(list) : /\ key.sub \in DOMAIN list[k].at
                                  /\ list[k].at[key.sub] = Scalar(key.want)}
              = {}
        BY <3>2
      <4> QED
        BY <4>1 DEF IndexOf
    <3>4. Len(list) = 0
      BY <3>2
    <3> HIDE DEF base, list, i
    <3>5. ~(i <= Len(list))
      BY <2>1, <3>3, <3>4
    <3>6. y = Nil
      BY <1>2, <3>2, <3>5 DEF getValue, list, i
    <3> QED
      BY <2>1, <3>6 DEF Nil
  <2>3. base = object
    BY <2>2 DEF Prepared
  <2>4. object[key.text].kind = "list"
    BY <1>2, <2>1, <2>2, <2>3 DEF getValue, Panic
  <2>5. /\ list = object[key.text].at /\ list \in Seq(Range(list))
        /\ Len(list) \in Nat
    BY <2>1, <2>3
  <2>6. i <= Len(list) /\ y = list[i]
    BY <1>2, <2>1, <2>2, <2>3, <2>4 DEF getValue, Nil
  <2> DEFINE l == [list EXCEPT ![i] = x]
             Has(q) == /\ key.sub \in DOMAIN q.at
                       /\ q.at[key.sub] = Scalar(key.want)
             here == {k \in 1..Len(list) : Has(list[k])}
  <2>7. /\ i \in 1..Len(list)
        /\ key.type = "MAP" => Has(list[i])
    <3>1. CASE key.type = "LIST"
      BY <2>1, <2>5, <2>6, <3>1 DEF IndexOf
    <3>2. CASE key.type = "MAP"
      <4>1. i = IF here = {} THEN Len(list) + 1
                ELSE CHOOSE q \in here : \A k \in here : q <= k
        BY <3>2 DEF IndexOf
      <4> HIDE DEF i
      <4>2. here # {}
        <5> HIDE DEF here, list
        <5> QED
          BY <2>5, <2>6, <4>1
      <4>3. here \subseteq Nat
        BY <2>5
      <4>4. \E q \in here : \A k \in here : q <= k
        <5> HIDE DEF here
        <5> QED
          BY <4>2, <4>3, LeastNatural
      <4>5. i \in here
        <5> HIDE DEF here
        <5> QED
          BY <4>1, <4>2, <4>4
      <4> HIDE DEF Has, list
      <4> QED
        BY <4>5
    <3> QED
      BY <2>1, <3>1, <3>2
  <2>8. /\ Len(l) = Len(list) /\ l[i] = x
        /\ \A k \in 1..Len(list) : k # i => l[k] = list[k]
        /\ l \in Seq(Range(l))
    <3> HIDE DEF list, i
    <3>1. l \in Seq(Range(list) \cup {x})
      BY <2>5, <2>7
    <3>2. Len(l) = Len(list) /\ l[i] = x
          /\ \A k \in 1..Len(list) : k # i => l[k] = list[k]
      BY <2>5, <2>7
    <3>3. l \in Seq(Range(l))
      <4> HIDE DEF l
      <4> QED
        BY <3>1 DEF Range
    <3> QED
      BY <3>2, <3>3
  <2>9. IndexOf(key, l) = i
    <3>1. CASE key.type = "LIST"
      BY <3>1 DEF IndexOf
    <3>2. CASE key.type = "MAP"
      <4>1. Has(l[i])
        <5>1. key.sub \in DOMAIN y.at /\ y.at[key.sub] = Scalar(key.want)
          BY <2>6, <2>7, <3>2
        <5> HIDE DEF y
        <5>2. key.sub \in DOMAIN x.at /\ x.at[key.sub] = Scalar(key.want)
          BY <3>2, <5>1 DEF y, base
        <5> HIDE DEF l, i
        <5> QED
          BY <2>8, <5>2
      <4>2. {k \in 1..Len(l) : Has(l[k])} = here
        <5> HIDE DEF Has, l, i, list
        <5> QED
          BY <2>7, <2>8, <3>2, <4>1
      <4>3. i = IF here = {} THEN Len(list) + 1
                ELSE CHOOSE q \in here : \A k \in here : q <= k
        BY <3>2 DEF IndexOf
      <4>4. IndexOf(key, l) = IF {k \in 1..Len(l) : Has(l[k])} = {}
              THEN Len(l) + 1
              ELSE CHOOSE q \in {k \in 1..Len(l) : Has(l[k])} :
                     \A k \in {k \in 1..Len(l) : Has(l[k])} : q <= k
        BY <3>2 DEF IndexOf
      <4> HIDE DEF here, l, Has, i, list
      <4> QED
        BY <2>8, <4>2, <4>3, <4>4
    <3> QED
      BY <2>1, <3>1, <3>2
  <2>10. new = Map(Assigned(base, key.text, List(l)))
    <3>1. i <= Len(list)
      BY <2>6
    <3> QED
      BY <1>2, <3>1 DEF Placed
  <2> HIDE DEF l, i, base, y
  <2>11. /\ key.text \in DOMAIN new.at /\ new.at[key.text] = List(l)
         /\ new.kind = "map"
    BY <2>10 DEF Assigned, Map
  <2> HIDE DEF new
  <2>12. Prepared(key, new.at) = new.at
    BY <2>11 DEF Prepared
  <2>13. new.at[key.text].kind = "list" /\ new.at[key.text].at = l
    BY <2>11 DEF List
  <2>14. i <= Len(l)
    BY <2>7, <2>8
  <2>15. getValue(key, new.at) = l[i]
    BY <1>2, <2>9, <2>11, <2>13, <2>14 DEF getValue
  <2>16. KeyAssumed(key, new, x)
    <3>1. /\ key.index \in Nat /\ key.type \in {"VALUE", "LIST", "MAP"}
          /\ key.type = "MAP" => Len(key.sub) = 1
      BY DEF KeyAssumed
    <3> QED
      BY <2>8, <2>13, <3>1 DEF KeyAssumed
  <2> QED
    BY <2>8, <2>11, <2>12, <2>15, <2>16 DEF new, base
<1> QED
  BY <1>1, <1>2 DEF KeyAssumed

LEMMA VisitedMore ==
    ASSUME NEW object, NEW keys, NEW more, Extends(more, keys)
    PROVE  /\ \A i \in 0..Len(keys) : Visited(object, more)[i] = Visited(object, keys)[i]
           /\ Visited(object, more)[Len(more)]
                = IF Visited(object, keys)[Len(keys)].kind # "map" THEN Nil
                  ELSE getValue(more[Len(more)],
                         Prepared(more[Len(more)],
                                  Visited(object, keys)[Len(keys)].at))
<1> DEFINE n == Len(keys)
           V == Visited(object, keys)
           M == Visited(object, more)
           T == {i \in 0..n : M[i] = V[i]}
<1>1. /\ n \in Nat /\ Len(more) = n + 1
      /\ \A i \in 1..n : more[i] = keys[i]
  BY DEF Extends
<1>2. /\ V[0] = object
      /\ \A i \in 1..n : V[i] = IF V[i - 1].kind # "map" THEN Nil
                    ELSE getValue(keys[i], Prepared(keys[i], V[i - 1].at))
  BY <1>1, VisitedUnfolds
<1>3. /\ M[0] = object
      /\ \A i \in 1..(n + 1) : M[i] = IF M[i - 1].kind # "map" THEN Nil
                    ELSE getValue(more[i], Prepared(more[i], M[i - 1].at))
  BY <1>1, VisitedUnfolds
<1> HIDE DEF V, M
<1>4. 0..n \subseteq T
  <2>1. 0 \in T
    BY <1>1, <1>2, <1>3
  <2>2. ASSUME NEW i \in Nat, i < n, i \in T PROVE i + 1 \in T
    <3>1. /\ i + 1 \in 1..n /\ i + 1 \in 1..(n + 1) /\ (i + 1) - 1 = i
          /\ i + 1 \in 0..n
      BY <1>1, <2>2
    <3>2. M[i] = V[i] /\ more[i + 1] = keys[i + 1]
      BY <1>1, <2>2, <3>1
    <3>3. V[i + 1] = IF V[i].kind # "map" THEN Nil
                ELSE getValue(keys[i + 1], Prepared(keys[i + 1], V[i].at))
      BY <1>2, <3>1
    <3>4. M[i + 1] = IF M[i].kind # "map" THEN Nil
                ELSE getValue(more[i + 1], Prepared(more[i + 1], M[i].at))
      BY <1>3, <3>1
    <3>5. M[i + 1] = V[i + 1]
      BY <3>2, <3>3, <3>4
    <3> QED
      BY <3>1, <3>5
  <2> HIDE DEF T, n
  <2> QED
    BY <1>1, <2>1, <2>2, AllUntil
<1>5. \A i \in 0..n : M[i] = V[i]
  BY <1>4
<1>6. n + 1 \in 1..(n + 1) /\ (n + 1) - 1 = n /\ n \in 0..n
  BY <1>1
<1>7. M[n + 1] = IF V[n].kind # "map" THEN Nil
                 ELSE getValue(more[n + 1], Prepared(more[n + 1], V[n].at))
  BY <1>3, <1>5, <1>6
<1> QED
  BY <1>1, <1>5, <1>7 DEF V, M

\* Past a map that is not there, nothing is.
LEMMA LeadsOn ==
    ASSUME NEW object, NEW keys, Len(keys) \in Nat, Leads(object, keys)
    PROVE  /\ \A i \in 0..Len(keys) :
                Visited(object, keys)[i].kind \in {"map", "nil"}
           /\ \A i \in 1..Len(keys) :
                /\ Visited(object, keys)[i].kind = "map"
                     => Visited(object, keys)[i - 1].kind = "map"
                /\ Visited(object, keys)[i].kind # "map"
                     => keys[i].type = "VALUE"
<1> DEFINE n == Len(keys)
           V == Visited(object, keys)
<1>1. /\ V[0] = object /\ object.kind = "map"
      /\ \A i \in 1..n : V[i] = IF V[i - 1].kind # "map" THEN Nil
                    ELSE getValue(keys[i], Prepared(keys[i], V[i - 1].at))
  BY VisitedUnfolds DEF Leads
<1>2. \A i \in 1..n : KeyAssumed(keys[i], V[i - 1], V[i])
  BY DEF Leads
<1> HIDE DEF V
<1>3. \A i \in 1..n : /\ V[i].kind \in {"map", "nil"}
                      /\ V[i].kind # "map" => keys[i].type = "VALUE"
  BY <1>2 DEF KeyAssumed
<1>4. \A i \in 1..n : V[i].kind = "map" => V[i - 1].kind = "map"
  BY <1>1 DEF Nil
<1>5. \A i \in 0..n : i = 0 \/ i \in 1..n
  OBVIOUS
<1> QED
  BY <1>1, <1>3, <1>4, <1>5 DEF V

\* If something is at the end of the keys, they lead through maps.
LEMMA LeadsAll ==
    ASSUME NEW object, NEW keys, Len(keys) \in Nat, Leads(object, keys),
           Visited(object, keys)[Len(keys)].kind = "map"
    PROVE  \A i \in 0..Len(keys) : Visited(object, keys)[i].kind = "map"
<1> DEFINE n == Len(keys)
           V == Visited(object, keys)
           T == {i \in 0..n : V[n - i].kind = "map"}
<1>1. \A i \in 1..n : V[i].kind = "map" => V[i - 1].kind = "map"
  BY LeadsOn
<1>2. n \in Nat /\ V[n].kind = "map"
  OBVIOUS
<1> HIDE DEF V, n
<1>3. 0..n \subseteq T
  <2>1. 0 \in T
    <3>1. n - 0 = n /\ 0 \in 0..n
      BY <1>2
    <3> QED
      BY <1>2, <3>1
  <2>2. ASSUME NEW i \in Nat, i < n, i \in T PROVE i + 1 \in T
    <3>1. n - i \in 1..n /\ (n - i) - 1 = n - (i + 1) /\ i + 1 \in 0..n
      BY <1>2, <2>2
    <3>2. V[n - i].kind = "map"
      BY <2>2
    <3>3. V[n - (i + 1)].kind = "map"
      BY <1>1, <3>1, <3>2
    <3> QED
      BY <3>1, <3>3
  <2> HIDE DEF T
  <2> QED
    BY <1>2, <2>1, <2>2, AllUntil
<1>4. ASSUME NEW i \in 0..n PROVE V[i].kind = "map"
  <2>1. n - i \in 0..n /\ n - (n - i) = i
    BY <1>2
  <2>2. n - i \in T
    BY <1>3, <2>1
  <2>3. V[n - (n - i)].kind = "map"
    BY <2>2
  <2> QED
    BY <2>1, <2>3
<1> QED
  BY <1>4 DEF V, n

\* What is read at one key more.
LEMMA ReadThere ==
    ASSUME NEW object, NEW keys, NEW more, Extends(more, keys),
           Leads(object, keys), more[Len(more)].type = "VALUE",
           \A l \in DOMAIN There(object, keys) :
             There(object, keys)[l].kind = "scalar"
    PROVE  LET name == more[Len(more)].text
               base == There(object, keys)
           IN  deeperValue(object, more)
                 = IF name \in DOMAIN base THEN base[name]
                   ELSE Scalar(NULL_VALUE_STR)
<1> DEFINE n == Len(keys)
           N == Len(more)
           k == more[N]
           V == Visited(object, keys)
           M == Visited(object, more)
           base == There(object, keys)
           ends == {i \in 1..N : M[i].kind # "map" \/ i = N}
           last == LastOf(M, more)
<1>1. n \in Nat /\ N = n + 1
  BY DEF Extends
<1>2. /\ \A i \in 0..n : M[i] = V[i]
      /\ M[N] = IF V[n].kind # "map" THEN Nil
                ELSE getValue(k, Prepared(k, V[n].at))
  BY VisitedMore
<1>3. \A i \in 0..n : V[i].kind \in {"map", "nil"}
  BY <1>1, LeadsOn
<1>4. base = IF V[n].kind = "map" THEN V[n].at ELSE <<>>
  BY DEF There
<1>5. \A l \in DOMAIN base : base[l].kind = "scalar"
  OBVIOUS
<1>6. V[n].kind = "map" => \A i \in 0..n : V[i].kind = "map"
  BY <1>1, LeadsAll
<1> HIDE DEF V, M, base
<1>7. last \in ends
  <2>1. N \in ends /\ ends \subseteq Nat
    BY <1>1
  <2>2. last = Min(ends)
    BY DEF LastOf
  <2> HIDE DEF ends, last
  <2> QED
    BY <2>1, <2>2, MinFacts
<1> HIDE DEF last, ends
<1>8. deeperValue(object, more)
        = CASE M[last].kind \in {"panic", "map"} -> Panic
            [] M[last].kind = "list" /\ more[last].type = "VALUE" -> Panic
            [] M[last].kind = "nil" -> Scalar(NULL_VALUE_STR)
            [] OTHER -> M[last]
  BY DEF deeperValue, M, last
<1>9. M[N] = IF k.text \in DOMAIN base THEN base[k.text] ELSE Nil
  <2>1. CASE V[n].kind = "map"
    <3>1. base = V[n].at /\ Prepared(k, V[n].at) = V[n].at
      BY <1>4, <2>1 DEF Prepared
    <3>2. M[N] = getValue(k, base)
      BY <1>2, <2>1, <3>1
    <3> QED
      BY <3>2 DEF getValue
  <2>2. CASE V[n].kind # "map"
    BY <1>2, <1>4, <2>2
  <2> QED
    BY <2>1, <2>2
<1>10. CASE k.text \in DOMAIN base
  <2>1. V[n].kind = "map"
    BY <1>4, <1>10
  <2>2. last = N
    <3>1. \A i \in 1..N : i = N \/ i \in 0..n
      BY <1>1
    <3>2. last \in 1..N /\ (M[last].kind # "map" \/ last = N)
      BY <1>7 DEF ends
    <3> QED
      BY <1>2, <1>6, <2>1, <3>1, <3>2
  <2>3. M[N] = base[k.text] /\ base[k.text].kind = "scalar"
    BY <1>5, <1>9, <1>10
  <2>4. deeperValue(object, more) = M[N]
    BY <1>8, <2>2, <2>3
  <2> QED
    BY <1>10, <2>3, <2>4 DEF base
<1>11. CASE k.text \notin DOMAIN base
  <2>1. M[N].kind = "nil"
    BY <1>9, <1>11 DEF Nil
  <2>2. M[last].kind = "nil"
    <3>1. \A i \in 1..N : i = N \/ i \in 0..n
      BY <1>1
    <3>2. last \in 1..N /\ (M[last].kind # "map" \/ last = N)
      BY <1>7 DEF ends
    <3> QED
      BY <1>2, <1>3, <2>1, <3>1, <3>2
  <2>3. deeperValue(object, more) = Scalar(NULL_VALUE_STR)
    BY <1>8, <2>2
  <2> QED
    BY <1>11, <2>3 DEF base
<1> QED
  BY <1>10, <1>11

\* The descent enters the maps that the keys lead through, and new ones.
LEMMA DescentLeads ==
    ASSUME NEW object, NEW keys, NEW more, Extends(more, keys),
           Leads(object, keys)
    PROVE  \A i \in 0..Len(keys) :
             /\ Descent(object, more)[i].kind = "map"
             /\ Descent(object, more)[i]
                  = IF Visited(object, keys)[i].kind = "map"
                    THEN Visited(object, keys)[i] ELSE Map(<<>>)
<1> DEFINE n == Len(keys)
           V == Visited(object, keys)
           D == Descent(object, more)
           Same(i) == /\ D[i].kind = "map"
                      /\ D[i] = IF V[i].kind = "map" THEN V[i] ELSE Map(<<>>)
           T == {i \in 0..n : Same(i)}
<1>1. /\ n \in Nat /\ Len(more) = n + 1
      /\ \A i \in 1..n : more[i] = keys[i]
  BY DEF Extends
<1>2. /\ V[0] = object /\ object.kind = "map"
      /\ \A i \in 1..n : V[i] = IF V[i - 1].kind # "map" THEN Nil
                    ELSE getValue(keys[i], Prepared(keys[i], V[i - 1].at))
  BY <1>1, VisitedUnfolds DEF Leads
<1>3. /\ D[0] = object
      /\ \A i \in 1..(n + 1) : D[i] = IF D[i - 1].kind # "map" THEN Nil
                                ELSE Entered(more[i], D[i - 1].at)
  BY <1>1, DescentUnfolds
<1>4. \A i \in 1..n : KeyAssumed(keys[i], V[i - 1], V[i])
  BY DEF Leads
<1> HIDE DEF V, D
<1>5. ASSUME NEW i \in 0..n, i < n, Same(i) PROVE Same(i + 1)
  <2>1. i + 1 \in 1..n /\ (i + 1) - 1 = i /\ i + 1 \in 1..(n + 1)
    BY <1>1, <1>5
  <2> DEFINE key == keys[i + 1]
  <2>2. /\ D[i + 1] = Entered(key, D[i].at)
        /\ V[i + 1] = IF V[i].kind # "map" THEN Nil
                      ELSE getValue(key, Prepared(key, V[i].at))
        /\ KeyAssumed(key, V[i], V[i + 1])
    BY <1>1, <1>2, <1>3, <1>4, <1>5, <2>1
  <2> HIDE DEF key
  <2> DEFINE next == getValue(key, Prepared(key, D[i].at))
  <2>3. D[i + 1] = CASE next.kind = "map" -> next
          [] next.kind = "nil" /\ key.type = "VALUE" -> Map(<<>>)
          [] next.kind = "nil" /\ key.type = "MAP" ->
               Map(Single(key.sub, Scalar(key.want)))
          [] OTHER -> Nil
    BY <2>2 DEF Entered
  <2>4. /\ V[i + 1].kind \in {"map", "nil"}
        /\ V[i + 1].kind = "nil" => key.type = "VALUE"
    BY <2>2 DEF KeyAssumed
  <2>5. Map(<<>>).kind = "map" /\ Map(<<>>).at = <<>>
    BY DEF Map
  <2>6. CASE V[i].kind = "map"
    <3>1. next = V[i + 1]
      BY <1>5, <2>2, <2>6
    <3> HIDE DEF next
    <3>2. CASE V[i + 1].kind = "map"
      BY <2>3, <3>1, <3>2
    <3>3. CASE V[i + 1].kind = "nil"
      BY <2>3, <2>4, <2>5, <3>1, <3>3
    <3> QED
      BY <2>4, <3>2, <3>3
  <2>7. CASE V[i].kind # "map"
    <3>1. /\ V[i + 1].kind = "nil" /\ key.type = "VALUE"
          /\ D[i].at = <<>>
      BY <1>5, <2>2, <2>4, <2>5, <2>7 DEF Nil
    <3>2. Prepared(key, D[i].at) = <<>>
      BY <3>1 DEF Prepared
    <3>3. next.kind = "nil"
      BY <3>2 DEF getValue, Nil
    <3> HIDE DEF next
    <3> QED
      BY <2>3, <2>5, <3>1, <3>3
  <2> QED
    BY <2>6, <2>7
<1>6. Same(0)
  BY <1>2, <1>3
<1> HIDE DEF Same
<1>7. 0..n \subseteq T
  <2>1. 0 \in T
    BY <1>1, <1>6
  <2>2. ASSUME NEW i \in Nat, i < n, i \in T PROVE i + 1 \in T
    <3>1. i \in 0..n /\ i + 1 \in 0..n /\ Same(i)
      BY <1>1, <2>2
    <3> QED
      BY <1>5, <2>2, <3>1
  <2> HIDE DEF T, n
  <2> QED
    BY <1>1, <2>1, <2>2, AllUntil
<1> QED
  BY <1>7 DEF Same, V, D, T

\* A map that is entered keeps what the next key does not name: a text that an
\* entry of a list was found by is kept, since what the next key leads to is no
\* text.
LEMMA NextKeyKeeps ==
    ASSUME NEW key, NEW object, NEW x, NEW sub, NEW want,
           getValue(key, Prepared(key, object)).kind \in {"map", "nil"},
           getValue(key, Prepared(key, object)).kind # "map"
             => key.type = "VALUE",
           sub \in DOMAIN object, object[sub] = Scalar(want)
    PROVE  /\ sub \in DOMAIN Placed(key, Prepared(key, object), x).at
           /\ Placed(key, Prepared(key, object), x).at[sub] = Scalar(want)
<1> DEFINE base == Prepared(key, object)
<1>1. sub \in DOMAIN base /\ base[sub] = Scalar(want)
  <2>1. CASE key.type # "VALUE" /\ key.text \notin DOMAIN object
    <3>1. base = Assigned(object, key.text, List(<<>>)) /\ sub # key.text
      BY <2>1 DEF Prepared
    <3> HIDE DEF base
    <3> QED
      BY <3>1 DEF Assigned
  <2>2. CASE ~(key.type # "VALUE" /\ key.text \notin DOMAIN object)
    BY <2>2 DEF Prepared
  <2> QED
    BY <2>1, <2>2
<1>2. key.text # sub
  <2> SUFFICES ASSUME key.text = sub PROVE FALSE
    OBVIOUS
  <2> HIDE DEF base
  <2>1. key.text \in DOMAIN base /\ base[key.text].kind = "scalar"
    BY <1>1 DEF Scalar
  <2>2. getValue(key, base) = IF key.type = "VALUE" THEN base[key.text]
                              ELSE Panic
    BY <2>1 DEF getValue
  <2>3. getValue(key, base).kind \in {"scalar", "panic"}
    BY <2>1, <2>2 DEF Panic
  <2> QED
    BY <2>3 DEF base
<1> HIDE DEF base
<1>3. PICK y : Placed(key, base, x) = Map(Assigned(base, key.text, y))
  BY DEF Placed
<1>4. Placed(key, base, x).at = Assigned(base, key.text, y)
  BY <1>3 DEF Map
<1>5. /\ sub \in DOMAIN Placed(key, base, x).at
      /\ Placed(key, base, x).at[sub] = Scalar(want)
  BY <1>1, <1>2, <1>4 DEF Assigned
<1> QED
  BY <1>5 DEF base

\* What a key that looks for a text finds has the text.
LEMMA FoundHasText ==
    ASSUME NEW key, NEW object, key.type = "MAP",
           getValue(key, Prepared(key, object)).kind = "map",
           KeyAssumed(key, Map(object), getValue(key, Prepared(key, object)))
    PROVE  LET y == getValue(key, Prepared(key, object))
           IN  key.sub \in DOMAIN y.at /\ y.at[key.sub] = Scalar(key.want)
<1> DEFINE base == Prepared(key, object)
           y == getValue(key, base)
           list == base[key.text].at
           i == IndexOf(key, list)
           Has(q) == /\ key.sub \in DOMAIN q.at
                     /\ q.at[key.sub] = Scalar(key.want)
           here == {k \in 1..Len(list) : Has(list[k])}
<1>1. key.text \in DOMAIN base /\ i <= Len(list) /\ y = list[i]
  BY DEF getValue, Nil, Panic
<1>2. i = IF here = {} THEN Len(list) + 1
                ELSE CHOOSE q \in here : \A k \in here : q <= k
  BY DEF IndexOf
<1>3. Len(list) \in Nat
  <2>1. CASE key.text \in DOMAIN object
    <3>1. base = object /\ Map(object).at = object
      BY <2>1 DEF Prepared, Map
    <3>2. list \in Seq(Range(list))
      BY <3>1 DEF KeyAssumed
    <3> QED
      BY <3>2
  <2>2. CASE key.text \notin DOMAIN object
    <3>1. base = Assigned(object, key.text, List(<<>>))
      BY <2>2 DEF Prepared
    <3>2. list = <<>>
      BY <3>1 DEF Assigned, List
    <3> QED
      BY <3>2
  <2> QED
    BY <2>1, <2>2
<1> HIDE DEF i, list, base, y
<1>4. here # {} /\ here \subseteq Nat
  <2> HIDE DEF Has
  <2>1. here \subseteq Nat
    BY <1>3
  <2> HIDE DEF here
  <2> QED
    BY <1>1, <1>2, <1>3, <2>1
<1>5. i \in here
  <2> HIDE DEF here
  <2>1. \E q \in here : \A k \in here : q <= k
    BY <1>4, LeastNatural
  <2> QED
    BY <1>2, <1>4, <2>1
<1>6. Has(list[i])
  <2> HIDE DEF Has
  <2> QED
    BY <1>5
<1> QED
  BY <1>1, <1>6 DEF y, base

\* A value is written at one key more, and all else stays as it was: for every
\* key whose name is not one that entries of a list are found by.
LEMMA WriteThere ==
    ASSUME NEW object, NEW keys, NEW more, NEW value, Extends(more, keys),
           Leads(object, keys), more[Len(more)].type = "VALUE",
           \A l \in DOMAIN There(object, keys) :
             There(object, keys)[l].kind = "scalar",
           Len(more[Len(more)].text) # 1
             \/ more[Len(more)].text \notin DOMAIN There(object, keys)
    PROVE  LET new == updateNextValue(object, more, value)
           IN  /\ Leads(new, keys)
               /\ There(new, keys)
                    = Assigned(There(object, keys), more[Len(more)].text,
                               Scalar(value))
<1> DEFINE n == Len(keys)
           N == n + 1
           k == more[N]
           V == Visited(object, keys)
           D == Descent(object, more)
           R == Rebuilt(object, more, value)
           base == There(object, keys)
           W == Visited(R[1], keys)
<1>1. /\ n \in Nat /\ Len(more) = N
      /\ \A i \in 1..n : more[i] = keys[i]
  BY DEF Extends
<1>2. /\ k.type = "VALUE"
      /\ \A l \in DOMAIN base : base[l].kind = "scalar"
      /\ Len(k.text) # 1 \/ k.text \notin DOMAIN base
  BY <1>1
<1>3. \A i \in 0..n :
        /\ D[i].kind = "map"
        /\ D[i] = IF V[i].kind = "map" THEN V[i] ELSE Map(<<>>)
  BY DescentLeads
<1>4. /\ V[0] = object
      /\ \A i \in 1..n : V[i] = IF V[i - 1].kind # "map" THEN Nil
                    ELSE getValue(keys[i], Prepared(keys[i], V[i - 1].at))
  BY <1>1, VisitedUnfolds
<1>5. \A i \in 1..n : KeyAssumed(keys[i], V[i - 1], V[i])
  BY DEF Leads
<1>6. \A i \in 1..n : V[i].kind = "map" => V[i - 1].kind = "map"
  BY <1>1, LeadsOn
<1>7. base = D[n].at
  <2>1. base = IF V[n].kind = "map" THEN V[n].at ELSE <<>>
    BY DEF There
  <2>2. Map(<<>>).at = <<>>
    BY DEF Map
  <2> QED
    BY <1>1, <1>3, <2>1, <2>2
<1>8. LastOf(D, more) = N
  <2>1. {i \in 1..Len(more) : D[i].kind # "map" \/ i = Len(more)} = {N}
    <3>1. \A i \in 1..N : i = N \/ i \in 0..n
      BY <1>1
    <3> QED
      BY <1>1, <1>3, <3>1
  <2>2. Min({N}) \in {N}
    BY <1>1, MinFacts
  <2> HIDE DEF D
  <2> QED
    BY <2>1, <2>2 DEF LastOf
<1>9. /\ R[N] = ValueSet(k, D[n].at, TRUE, value)
      /\ \A i \in 1..n :
           R[i] = IF R[i + 1] = Panic THEN Panic
                  ELSE Placed(keys[i], Prepared(keys[i], D[i - 1].at), R[i + 1])
  <2>1. N \in Nat \ {0} /\ N - 1 = n
    BY <1>1
  <2>2. /\ R[N] = ValueSet(more[N], D[N - 1].at, N = Len(more), value)
        /\ \A i \in 1..(N - 1) :
             R[i] = IF R[i + 1] = Panic THEN Panic
                    ELSE Placed(more[i], Prepared(more[i], D[i - 1].at), R[i + 1])
    <3> HIDE DEF N
    <3> QED
      BY <1>8, <2>1, RebuiltUnfolds
  <2> HIDE DEF R, D
  <2> QED
    BY <1>1, <2>1, <2>2
<1> HIDE DEF V, D, R, base
<1>10. R[N] = Map(Assigned(base, k.text, Scalar(value)))
  <2> DEFINE next == getValue(k, base)
  <2>1. Prepared(k, base) = base
    BY <1>2 DEF Prepared
  <2>2. next.kind \in {"scalar", "nil"}
    BY <1>2 DEF getValue, Nil
  <2> HIDE DEF next
  <2>3. R[N] = IF \/ next.kind \in {"panic", "map"}
                  \/ next.kind = "list" /\ k.type = "VALUE"
                  \/ next.kind = "nil" /\ TRUE /\ k.type = "MAP"
                  \/ next.kind = "nil" /\ ~TRUE /\ base[k.text].at = <<>>
               THEN Panic
               ELSE Placed(k, base, Scalar(value))
    BY <1>7, <1>9, <2>1 DEF ValueSet, next
  <2>4. R[N] = Placed(k, base, Scalar(value))
    BY <1>2, <2>2, <2>3
  <2> QED
    BY <1>2, <2>4 DEF Placed
<1>11. \A i \in 1..N : R[i].kind = "map"
  <2> DEFINE T == {i \in 0..n : R[N - i].kind = "map"}
  <2>1. 0 \in T
    <3>1. N - 0 = N /\ 0 \in 0..n
      BY <1>1
    <3>2. R[N].kind = "map"
      BY <1>10 DEF Map
    <3> QED
      BY <3>1, <3>2
  <2>2. ASSUME NEW i \in Nat, i < n, i \in T PROVE i + 1 \in T
    <3> DEFINE p == n - i
    <3>1. /\ p \in 1..n /\ p + 1 = N - i /\ N - (i + 1) = p
          /\ i + 1 \in 0..n
      BY <1>1, <2>2
    <3>2. R[p + 1].kind = "map"
      BY <2>2, <3>1
    <3> HIDE DEF p
    <3>3. R[p + 1] # Panic
      BY <3>2 DEF Panic
    <3>4. R[p] = Placed(keys[p], Prepared(keys[p], D[p - 1].at), R[p + 1])
      BY <1>9, <3>1, <3>3
    <3>5. R[p].kind = "map"
      BY <3>4 DEF Placed, Map
    <3> QED
      BY <3>1, <3>5
  <2> HIDE DEF T, n
  <2>3. 0..n \subseteq T
    BY <1>1, <2>1, <2>2, AllUntil
  <2>4. ASSUME NEW i \in 1..N PROVE R[i].kind = "map"
    <3>1. N - i \in 0..n /\ N - (N - i) = i
      BY <1>1
    <3>2. N - i \in T
      BY <2>3, <3>1
    <3>3. R[N - (N - i)].kind = "map"
      BY <3>2 DEF T
    <3> QED
      BY <3>1, <3>3
  <2> QED
    BY <2>4
<1>12. \A i \in 1..n :
         R[i] = Placed(keys[i], Prepared(keys[i], D[i - 1].at), R[i + 1])
  <2>1. \A i \in 1..n : i + 1 \in 1..N
    BY <1>1
  <2>2. \A i \in 1..n : R[i + 1] # Panic
    BY <1>11, <2>1 DEF Panic
  <2> QED
    BY <1>9, <2>2
<1>13. ASSUME NEW i \in 1..n
       PROVE  /\ getValue(keys[i], Prepared(keys[i], R[i].at)) = R[i + 1]
              /\ KeyAssumed(keys[i], R[i], R[i + 1])
  <2> DEFINE key == keys[i]
             from == D[i - 1].at
             y == getValue(key, Prepared(key, from))
  <2>1. i - 1 \in 0..n /\ i \in 0..n /\ i + 1 \in 1..N
    BY <1>1
  <2>2. KeyAssumed(key, V[i - 1], V[i])
    BY <1>5
  <2>3. /\ V[i - 1].kind = "map" => y = V[i] /\ from = V[i - 1].at
        /\ V[i - 1].kind # "map" => y = Nil /\ key.type = "VALUE"
    <3>1. CASE V[i - 1].kind = "map"
      BY <1>3, <1>4, <2>1, <3>1
    <3>2. CASE V[i - 1].kind # "map"
      <4>1. V[i].kind = "nil"
        BY <1>4, <3>2 DEF Nil
      <4>2. key.type = "VALUE" /\ from = <<>>
        BY <1>3, <2>1, <2>2, <3>2, <4>1 DEF KeyAssumed, Map
      <4>3. y = Nil
        BY <4>2 DEF Prepared, getValue
      <4> QED
        BY <3>2, <4>2, <4>3
    <3> QED
      BY <3>1, <3>2
  <2>4. KeyAssumed(key, Map(from), y)
    <3> HIDE DEF y, from, key
    <3>1. Map(from).at = from
      BY DEF Map
    <3>2. CASE V[i - 1].kind = "map"
      BY <2>2, <2>3, <3>1, <3>2 DEF KeyAssumed
    <3>3. CASE V[i - 1].kind # "map"
      <4>1. key.index \in Nat
        BY <2>2 DEF KeyAssumed
      <4> QED
        BY <2>3, <3>3, <4>1 DEF KeyAssumed, Nil
    <3> QED
      BY <3>2, <3>3
  <2>5. R[i + 1].kind = "map"
    BY <1>11, <2>1
  <2>6. ASSUME key.type = "MAP"
        PROVE  /\ key.sub \in DOMAIN y.at
               /\ y.at[key.sub] = Scalar(key.want)
               /\ key.sub \in DOMAIN R[i + 1].at
               /\ R[i + 1].at[key.sub] = Scalar(key.want)
    <3>1. y.kind = "map" /\ y = V[i] /\ V[i] = D[i] /\ Len(key.sub) = 1
      <4>1. y.kind = "map" /\ Len(key.sub) = 1
        BY <2>4, <2>6 DEF KeyAssumed
      <4>2. y = V[i]
        BY <2>3, <2>6
      <4> HIDE DEF y, key, from
      <4> QED
        BY <1>3, <2>1, <4>1, <4>2
    <3>2. key.sub \in DOMAIN y.at /\ y.at[key.sub] = Scalar(key.want)
      <4> HIDE DEF key, from
      <4> QED
        BY <2>4, <2>6, <3>1, FoundHasText
    <3>3. key.sub \in DOMAIN D[i].at /\ D[i].at[key.sub] = Scalar(key.want)
      BY <3>1, <3>2
    <3> HIDE DEF y, from, key
    <3>4. CASE i = n
      <4>1. R[i + 1].at = Assigned(base, k.text, Scalar(value))
        BY <1>10, <3>4 DEF Map
      <4>2. key.sub \in DOMAIN base /\ base[key.sub] = Scalar(key.want)
        BY <1>7, <3>3, <3>4
      <4>3. k.text # key.sub
        BY <1>2, <3>1, <4>2
      <4> QED
        BY <3>2, <4>1, <4>2, <4>3 DEF Assigned
    <3>5. CASE i # n
      <4> DEFINE next == keys[i + 1]
                 x == R[i + 2]
      <4>1. /\ i + 1 \in 1..n /\ (i + 1) - 1 = i /\ (i + 1) + 1 = i + 2
        BY <1>1, <3>5
      <4>2. R[i + 1] = Placed(next, Prepared(next, D[i].at), x)
        BY <1>12, <4>1
      <4>3. V[i + 1] = getValue(next, Prepared(next, D[i].at))
        BY <1>4, <3>1, <4>1
      <4>4. /\ V[i + 1].kind \in {"map", "nil"}
            /\ V[i + 1].kind # "map" => next.type = "VALUE"
        <5>1. KeyAssumed(next, V[i], V[i + 1])
          BY <1>5, <4>1
        <5> HIDE DEF next
        <5> QED
          BY <5>1 DEF KeyAssumed
      <4> HIDE DEF next, x
      <4>5. /\ key.sub \in DOMAIN Placed(next, Prepared(next, D[i].at), x).at
            /\ Placed(next, Prepared(next, D[i].at), x).at[key.sub]
                 = Scalar(key.want)
        <5> DEFINE obj == D[i].at
        <5>1. /\ getValue(next, Prepared(next, obj)).kind \in {"map", "nil"}
              /\ getValue(next, Prepared(next, obj)).kind # "map"
                   => next.type = "VALUE"
              /\ key.sub \in DOMAIN obj /\ obj[key.sub] = Scalar(key.want)
          BY <3>3, <4>3, <4>4
        <5> HIDE DEF obj
        <5>2. /\ key.sub \in DOMAIN Placed(next, Prepared(next, obj), x).at
              /\ Placed(next, Prepared(next, obj), x).at[key.sub]
                   = Scalar(key.want)
          BY <5>1, NextKeyKeeps
        <5> QED
          BY <5>2 DEF obj
      <4> QED
        BY <3>2, <4>2, <4>5
    <3> QED
      BY <3>4, <3>5
  <2>7. R[i] = Placed(key, Prepared(key, from), R[i + 1])
    BY <1>12
  <2> DEFINE x == R[i + 1]
  <2>8. LET new == Placed(key, Prepared(key, from), x)
        IN  /\ new.kind = "map"
            /\ getValue(key, Prepared(key, new.at)) = x
            /\ KeyAssumed(key, new, x)
    <3>1. /\ x.kind = "map"
          /\ KeyAssumed(key, Map(from), getValue(key, Prepared(key, from)))
      BY <2>4, <2>5
    <3>2. key.type = "MAP" =>
             LET yy == getValue(key, Prepared(key, from))
             IN  key.sub \in DOMAIN yy.at =>
                   key.sub \in DOMAIN x.at /\ x.at[key.sub] = yy.at[key.sub]
      BY <2>6
    <3> HIDE DEF key, from, x
    <3> QED
      BY <3>1, <3>2, PlacedIsRead
  <2> HIDE DEF key, from, y
  <2> QED
    BY <2>7, <2>8 DEF key
<1>14. /\ W[0] = R[1]
       /\ \A i \in 1..n : W[i] = IF W[i - 1].kind # "map" THEN Nil
                    ELSE getValue(keys[i], Prepared(keys[i], W[i - 1].at))
  BY <1>1, VisitedUnfolds
<1> HIDE DEF W
<1>15. \A i \in 0..n : W[i] = R[i + 1]
  <2> DEFINE T == {i \in 0..n : W[i] = R[i + 1]}
  <2>1. 0 \in T
    BY <1>1, <1>14
  <2>2. ASSUME NEW i \in Nat, i < n, i \in T PROVE i + 1 \in T
    <3>1. /\ i + 1 \in 1..n /\ (i + 1) - 1 = i /\ i + 1 \in 0..n
          /\ i + 1 \in 1..N
      BY <1>1, <2>2
    <3>2. W[i] = R[i + 1] /\ R[i + 1].kind = "map"
      BY <1>11, <2>2, <3>1
    <3>3. W[i + 1] = getValue(keys[i + 1], Prepared(keys[i + 1], R[i + 1].at))
      BY <1>14, <3>1, <3>2
    <3>4. W[i + 1] = R[(i + 1) + 1]
      BY <1>13, <3>1, <3>3
    <3> QED
      BY <3>1, <3>4
  <2> HIDE DEF T, n
  <2>3. 0..n \subseteq T
    BY <1>1, <2>1, <2>2, AllUntil
  <2> QED
    BY <2>3 DEF T
<1>16. updateNextValue(object, more, value) = R[1]
  BY DEF updateNextValue, R
<1>17. Leads(R[1], keys)
  <2>1. \A i \in 1..n : /\ i - 1 \in 0..n /\ i \in 0..n /\ (i - 1) + 1 = i
    BY <1>1
  <2>2. \A i \in 1..n : W[i - 1] = R[i] /\ W[i] = R[i + 1]
    BY <1>15, <2>1
  <2>3. R[1].kind = "map"
    BY <1>1, <1>11
  <2> QED
    BY <1>13, <2>2, <2>3 DEF Leads, W
<1>18. There(R[1], keys) = Assigned(base, k.text, Scalar(value))
  <2>1. W[n] = R[N]
    BY <1>1, <1>15
  <2>2. W[n].kind = "map" /\ W[n].at = Assigned(base, k.text, Scalar(value))
    BY <1>10, <2>1 DEF Map
  <2> QED
    BY <2>2 DEF There, W
<1> QED
  BY <1>1, <1>16, <1>17, <1>18 DEF base

-----------------------------------------------------------------------------
(***************************************************************************)
(* The keys of a location.                                                 *)
(***************************************************************************)
\* Texts that are appended one by one.
IsSeq(s) == s \in Seq(Range(s))

LEMMA AppendFacts ==
    ASSUME NEW s, IsSeq(s), NEW x
    PROVE  /\ IsSeq(Append(s, x)) /\ Len(s) \in Nat
           /\ Extends(Append(s, x), s)
           /\ Append(s, x)[Len(Append(s, x))] = x
<1> DEFINE S == Range(s) \cup {x}
           t == Append(s, x)
<1>1. s \in Seq(S) /\ Len(s) \in Nat
  BY DEF IsSeq
<1>2. x \in S
  OBVIOUS
<1> HIDE DEF S
<1>3. /\ t \in Seq(S) /\ Len(t) = Len(s) + 1 /\ t[Len(t)] = x
      /\ \A i \in 1..Len(s) : t[i] = s[i]
  BY <1>1, <1>2
<1> HIDE DEF t
<1>4. t \in Seq(Range(t))
  BY <1>3 DEF Range
<1> QED
  BY <1>1, <1>3, <1>4 DEF IsSeq, Extends, t

LEMMA TokensAreSeq ==
    ASSUME NEW location, Len(location) \in Nat
    PROVE  \A i \in 0..Len(location) : IsSeq(Tokenized(location)[i].token)
<1> DEFINE n == Len(location)
           t == Tokenized(location)
           T == {i \in 0..n : IsSeq(t[i].token)}
<1>1. /\ t[0] = Reading(FALSE, <<>>, <<>>)
      /\ \A i \in 1..n : t[i] = ReadPart(t[i - 1], location[i])
  BY TokenizedUnfolds
<1> HIDE DEF t
<1>2. 0 \in T
  <2>1. t[0].token = <<>> /\ 0 \in 0..n
    BY <1>1 DEF Reading
  <2>2. IsSeq(<<>>)
    BY DEF IsSeq
  <2> QED
    BY <2>1, <2>2
<1>3. ASSUME NEW i \in Nat, i < n, i \in T PROVE i + 1 \in T
  <2>1. i + 1 \in 1..n /\ (i + 1) - 1 = i /\ i + 1 \in 0..n
    BY <1>3
  <2> DEFINE s == t[i]
             p == location[i + 1]
  <2>2. t[i + 1] = ReadPart(s, p) /\ IsSeq(s.token)
    BY <1>1, <1>3, <2>1
  <2> HIDE DEF s, p
  <2>3. \/ ReadPart(s, p).token = s.token
        \/ \E x : ReadPart(s, p).token = Append(s.token, x)
    BY DEF ReadPart, Reading
  <2>4. IsSeq(ReadPart(s, p).token)
    BY <2>2, <2>3, AppendFacts
  <2> QED
    BY <2>1, <2>2, <2>4
<1> HIDE DEF T
<1>4. 0..n \subseteq T
  BY <1>2, <1>3, AllUntil
<1> QED
  BY <1>4 DEF T, t

\* Parts that follow do not change what was read before.
LEMMA TokenizedMore ==
    ASSUME NEW location, NEW parts, IsSeq(location), IsSeq(parts)
    PROVE  /\ Len(location \o parts) = Len(location) + Len(parts)
           /\ Tokenized(location \o parts)[Len(location)]
                = Tokenized(location)[Len(location)]
           /\ \A i \in 1..Len(parts) :
                Tokenized(location \o parts)[Len(location) + i]
                  = ReadPart(Tokenized(location \o parts)[Len(location) + i - 1],
                             parts[i])
<1> DEFINE n == Len(location)
           m == Len(parts)
           all == location \o parts
           t == Tokenized(location)
           u == Tokenized(all)
           T == {i \in 0..n : u[i] = t[i]}
           S == Range(location) \cup Range(parts)
<1>1. /\ n \in Nat /\ m \in Nat /\ Len(all) = n + m
      /\ \A i \in 1..n : all[i] = location[i]
      /\ \A i \in 1..m : all[n + i] = parts[i]
  <2>1. location \in Seq(S) /\ parts \in Seq(S)
    BY DEF IsSeq
  <2> HIDE DEF S
  <2> QED
    BY <2>1
<1>2. /\ t[0] = Reading(FALSE, <<>>, <<>>)
      /\ \A i \in 1..n : t[i] = ReadPart(t[i - 1], location[i])
  BY <1>1, TokenizedUnfolds
<1>3. /\ u[0] = Reading(FALSE, <<>>, <<>>)
      /\ \A i \in 1..(n + m) : u[i] = ReadPart(u[i - 1], all[i])
  <2>1. Len(all) \in Nat
    BY <1>1
  <2> HIDE DEF all
  <2> QED
    BY <1>1, <2>1, TokenizedUnfolds
<1> HIDE DEF t, u, all
<1>4. 0..n \subseteq T
  <2>1. 0 \in T
    <3>1. 0 \in 0..n /\ u[0] = t[0]
      BY <1>1, <1>2, <1>3
    <3> QED
      BY <3>1
  <2>2. ASSUME NEW i \in Nat, i < n, i \in T PROVE i + 1 \in T
    <3>1. /\ i + 1 \in 1..n /\ i + 1 \in 1..(n + m) /\ (i + 1) - 1 = i
          /\ i + 1 \in 0..n
      BY <1>1, <2>2
    <3>2. u[i] = t[i] /\ all[i + 1] = location[i + 1]
      BY <1>1, <2>2, <3>1
    <3>3. t[i + 1] = ReadPart(t[i], location[i + 1])
      BY <1>2, <3>1
    <3>4. u[i + 1] = ReadPart(u[i], all[i + 1])
      BY <1>3, <3>1
    <3> QED
      BY <3>1, <3>2, <3>3, <3>4
  <2> HIDE DEF T, n
  <2> QED
    BY <1>1, <2>1, <2>2, AllUntil
<1>5. u[n] = t[n]
  BY <1>1, <1>4
<1>6. ASSUME NEW i \in 1..m
      PROVE  u[n + i] = ReadPart(u[n + i - 1], parts[i])
  <2>1. n + i \in 1..(n + m)
    BY <1>1
  <2> QED
    BY <1>1, <1>3, <2>1
<1> QED
  BY <1>1, <1>5, <1>6 DEF u, t, all

\* What is written under a location is written at one key more: the name of the
\* profile, and a label whose dots are quoted.
LEMMA PartKey ==
    ASSUME NEW location, IsSeq(location),
           ~Tokenized(location)[Len(location)].opened, NEW text
    PROVE  LET more == getToken(location \o <<Part(text)>>)
           IN  /\ Extends(more, getToken(location))
               /\ more[Len(more)].type = "VALUE"
               /\ more[Len(more)].text = <<text>>
<1> DEFINE parts == <<Part(text)>>
           n == Len(location)
           s == Tokenized(location)[n]
           key == [Part(text) EXCEPT !.text = <<text>>]
<1>1. IsSeq(parts) /\ Len(parts) = 1 /\ parts[1] = Part(text) /\ n \in Nat
  BY DEF IsSeq, Range
<1> HIDE DEF parts
<1>2. /\ Len(location \o parts) = n + 1
      /\ Tokenized(location \o parts)[n] = s
      /\ Tokenized(location \o parts)[n + 1] = ReadPart(s, Part(text))
  <2>1. /\ Len(location \o parts) = n + Len(parts)
        /\ Tokenized(location \o parts)[n] = s
        /\ \A i \in 1..Len(parts) :
             Tokenized(location \o parts)[n + i]
               = ReadPart(Tokenized(location \o parts)[n + i - 1], parts[i])
    BY Zenon, <1>1, TokenizedMore
  <2>2. 1 \in 1..Len(parts) /\ n + 1 - 1 = n
    BY <1>1
  <2>3. Tokenized(location \o parts)[n + 1]
          = ReadPart(Tokenized(location \o parts)[n], parts[1])
    BY <2>1, <2>2
  <2> QED
    BY <1>1, <2>1, <2>3
<1>3. IsSeq(s.token)
  BY <1>1, TokensAreSeq
<1> HIDE DEF s
<1>4. ReadPart(s, Part(text)).token = Append(s.token, key)
  <2>1. Part(text).open = FALSE /\ Part(text).text = text /\ ~s.opened
    BY DEF Part, PartOf, s
  <2> QED
    BY <2>1 DEF ReadPart, Reading
<1>5. key.type = "VALUE" /\ key.text = <<text>>
  BY DEF Part, PartOf
<1> HIDE DEF key
<1>6. getToken(location \o parts) = Append(s.token, key)
  BY <1>2, <1>4 DEF getToken
<1>7. getToken(location) = s.token
  BY DEF getToken, s
<1> DEFINE more == Append(s.token, key)
<1>8. Extends(more, s.token) /\ more[Len(more)] = key
  BY <1>3, AppendFacts
<1> HIDE DEF more
<1> QED
  BY <1>5, <1>6, <1>7, <1>8 DEF parts, more

LEMMA QuotedFacts ==
    ASSUME NEW label, label \in Seq(STRING)
    PROVE  /\ Len(Quoted(label)) = Len(label) /\ IsSeq(Quoted(label))
           /\ \A i \in 1..Len(label) :
                /\ Quoted(label)[i].text = label[i]
                /\ Quoted(label)[i].type = "VALUE"
                /\ Quoted(label)[i].open <=> i = 1
                /\ Quoted(label)[i].close <=> i = Len(label)
<1> DEFINE m == Len(label)
           q == Quoted(label)
<1>1. m \in Nat /\ DOMAIN q = 1..m
  BY Zenon, LenProperties DEF Quoted
<1>2. ASSUME NEW i \in 1..m
      PROVE  /\ q[i].text = label[i] /\ q[i].type = "VALUE"
             /\ q[i].open <=> i = 1
             /\ q[i].close <=> i = m
  <2>1. q[i] = PartOf(label[i], i = 1, i = m)
    BY Zenon DEF Quoted
  <2>2. /\ q[i].text = label[i] /\ q[i].type = "VALUE"
        /\ q[i].open = (i = 1)
        /\ q[i].close = (i = m)
    <3> DEFINE a == i = 1
               b == i = m
               t == label[i]
               p == PartOf(t, a, b)
    <3>1. q[i] = p
      BY Zenon, <2>1
    <3> HIDE DEF a, b, t, q
    <3>2. p.text = t /\ p.type = "VALUE" /\ p.open = a /\ p.close = b
      BY DEF PartOf
    <3> HIDE DEF p
    <3>3. q[i].text = t /\ q[i].type = "VALUE" /\ q[i].open = a /\ q[i].close = b
      BY Zenon, <3>1, <3>2
    <3> QED
      BY Zenon, <3>3 DEF a, b, t
  <2> QED
    BY Zenon, <2>2
<1>3. q = [i \in 1..m |-> q[i]]
  BY Zenon, <1>1 DEF Quoted
<1> HIDE DEF q
<1>4. \A i \in 1..m : q[i] \in Range(q)
  BY Zenon, <1>1 DEF Range
<1>5. Len(q) = m /\ q \in Seq(Range(q))
  <2> DEFINE S == Range(q)
  <2> HIDE DEF S, m
  <2>1. q = [i \in 1..m |-> q[i]] /\ \A i \in 1..m : q[i] \in S
    BY <1>3, <1>4 DEF S
  <2>2. Len(q) = m /\ q \in Seq(S)
    BY <1>1, <2>1
  <2> QED
    BY <2>2 DEF S
<1> QED
  BY Zenon, <1>2, <1>5 DEF q, IsSeq

LEMMA QuotedKey ==
    ASSUME NEW location, IsSeq(location),
           ~Tokenized(location)[Len(location)].opened,
           NEW label, label \in Seq(STRING), Len(label) >= 2
    PROVE  LET more == getToken(location \o Quoted(label))
           IN  /\ Extends(more, getToken(location))
               /\ more[Len(more)].type = "VALUE"
               /\ more[Len(more)].text = label
<1> DEFINE m == Len(label)
           parts == Quoted(label)
           n == Len(location)
           s == Tokenized(location)[n]
           u == Tokenized(location \o parts)
           key == [parts[m] EXCEPT !.text = label]
<1>1. m \in Nat /\ m >= 2 /\ Len(parts) = m /\ IsSeq(parts)
  BY QuotedFacts
<1>2. \A i \in 1..m : /\ parts[i].text = label[i] /\ parts[i].type = "VALUE"
                      /\ parts[i].open <=> i = 1
                      /\ parts[i].close <=> i = m
  BY QuotedFacts
<1>3. n \in Nat
  BY DEF IsSeq
<1> HIDE DEF parts
<1>4. /\ Len(location \o parts) = n + m /\ u[n] = s
      /\ \A i \in 1..m : u[n + i] = ReadPart(u[n + i - 1], parts[i])
  BY <1>1, TokenizedMore
<1>5. IsSeq(s.token) /\ ~s.opened
  BY <1>3, TokensAreSeq
<1> HIDE DEF s, u
<1> DEFINE Reads(i) == u[n + i] = Reading(TRUE, SubSeq(label, 1, i), s.token)
           T == {i \in 0..(m - 2) : Reads(i + 1)}
<1>6. 0 \in T
  <2>1. u[n + 1] = ReadPart(s, parts[1])
    BY <1>1, <1>3, <1>4
  <2>2. parts[1].open /\ parts[1].text = label[1]
    BY <1>1, <1>2
  <2>3. u[n + 1] = Reading(TRUE, <<label[1]>>, s.token)
    BY <1>5, <2>1, <2>2 DEF ReadPart
  <2>4. SubSeq(label, 1, 1) = <<label[1]>>
    <3> DEFINE sub == SubSeq(label, 1, 1)
    <3>1. sub \in Seq(STRING) /\ Len(sub) = 1 /\ sub[1] = label[1]
      BY <1>1
    <3> HIDE DEF sub
    <3>2. sub = <<sub[1]>>
      BY <3>1
    <3> QED
      BY <3>1, <3>2 DEF sub
  <2>5. 0 \in 0..(m - 2) /\ 0 + 1 = 1
    BY <1>1
  <2> QED
    BY <2>3, <2>4, <2>5
<1>7. ASSUME NEW i \in Nat, i < m - 2, i \in T PROVE i + 1 \in T
  <2> DEFINE p == i + 2
  <2>1. /\ p \in 1..m /\ p # 1 /\ p # m /\ n + p - 1 = n + (i + 1)
        /\ p - 1 = i + 1 /\ p = (i + 1) + 1 /\ i + 1 \in 0..(m - 2)
    BY <1>1, <1>3, <1>7
  <2>2. Reads(i + 1)
    BY <1>7
  <2> HIDE DEF p
  <2>3. u[n + p] = ReadPart(Reading(TRUE, SubSeq(label, 1, p - 1), s.token),
                            parts[p])
    BY <1>4, <2>1, <2>2
  <2>4. ~parts[p].close /\ parts[p].text = label[p]
    BY <1>2, <2>1
  <2>5. u[n + p] = Reading(TRUE, Append(SubSeq(label, 1, p - 1), label[p]),
                           s.token)
    BY <2>3, <2>4 DEF ReadPart, Reading
  <2>6. Append(SubSeq(label, 1, p - 1), label[p]) = SubSeq(label, 1, p)
    BY <1>1, <2>1
  <2>7. Reads(p)
    BY <2>5, <2>6
  <2> HIDE DEF Reads
  <2> QED
    BY <2>1, <2>7
<1>8. Reads(m - 1)
  <2>1. m - 2 \in Nat /\ (m - 2) + 1 = m - 1
    BY <1>1
  <2> HIDE DEF Reads
  <2>2. 0..(m - 2) \subseteq T
    <3> HIDE DEF T, m
    <3> QED
      BY <1>6, <1>7, <2>1, AllUntil
  <2>3. m - 2 \in T
    <3>1. m - 2 \in 0..(m - 2)
      BY <2>1
    <3> HIDE DEF T, m
    <3> QED
      BY <2>2, <3>1
  <2> QED
    BY <2>1, <2>3
<1>9. u[n + m].token = Append(s.token, key)
  <2>1. u[n + m] = ReadPart(Reading(TRUE, SubSeq(label, 1, m - 1), s.token),
                            parts[m])
    <3>1. m \in 1..m /\ n + m - 1 = n + (m - 1)
      BY <1>1, <1>3
    <3> QED
      BY <1>4, <1>8, <3>1
  <2>2. parts[m].close /\ parts[m].text = label[m]
    BY <1>1, <1>2
  <2>3. u[n + m].token
          = Append(s.token, [parts[m] EXCEPT !.text =
                        Append(SubSeq(label, 1, m - 1), parts[m].text)])
    BY <2>1, <2>2 DEF ReadPart, Reading
  <2>4. Append(SubSeq(label, 1, m - 1), label[m]) = label
    BY <1>1
  <2> QED
    BY <2>2, <2>3, <2>4
<1>10. key.type = "VALUE" /\ key.text = label
  <2>1. m \in 1..m
    BY <1>1
  <2>2. parts[m].type = "VALUE"
    BY <1>2, <2>1
  <2> QED
    BY <2>2
<1> HIDE DEF key
<1>11. getToken(location \o parts) = Append(s.token, key)
  BY <1>4, <1>9 DEF getToken, u
<1>12. getToken(location) = s.token
  BY DEF getToken, s
<1> DEFINE more == Append(s.token, key)
<1>13. Extends(more, s.token) /\ more[Len(more)] = key
  BY <1>5, AppendFacts
<1> HIDE DEF more
<1> QED
  BY <1>10, <1>11, <1>12, <1>13 DEF parts, more

-----------------------------------------------------------------------------
(***************************************************************************)
(* The object made for a job.                                              *)
(***************************************************************************)
\* A finite set in any order.
LEMMA OrderEnumerates ==
    ASSUME NEW S, IsFiniteSet(S), NEW f \in SetToSeqs(S)
    PROVE  Enumerates(f, S)
<1> DEFINE n == Cardinality(S)
<1>1. n \in Nat /\ ExistsBijection(1..n, S) /\ IsFiniteSet(1..n)
      /\ Cardinality(1..n) = n
  <2>1. n \in Nat /\ ExistsBijection(1..n, S)
    BY FS_CardinalityType
  <2>2. IsFiniteSet(1..n) /\ Cardinality(1..n) = n
    <3> HIDE DEF n
    <3> QED
      BY <2>1, FS_Interval
  <2> QED
    BY <2>1, <2>2
<1>2. f \in [1..n -> S] /\ \A i, j \in 1..n : i # j => f[i] # f[j]
  BY DEF SetToSeqs
<1>3. f \in [1..n -> S] /\ IsInjective(f)
  BY <1>2 DEF IsInjective
<1> HIDE DEF n
<1>4. f \in Injection(1..n, S)
  BY <1>3 DEF Injection
<1>5. f \in Surjection(1..n, S)
  BY <1>1, <1>4, FS_Injection DEF n
<1>6. Len(f) = n /\ f \in Seq(S)
  BY <1>1, <1>3
<1>7. \A x \in S : \E i \in 1..n : f[i] = x
  BY <1>5 DEF Surjection
<1>8. \A i, j \in 1..n : f[i] = f[j] => i = j
  BY <1>3 DEF IsInjective
<1> QED
  BY <1>6, <1>7, <1>8 DEF Enumerates

\* The names of a map with those of a set in their place.
With(base, done, values) ==
    [l \in done \cup DOMAIN base |->
       IF l \in done THEN Scalar(values[l]) ELSE base[l]]

LEMMA WithMore ==
    ASSUME NEW base, NEW done, NEW values, NEW l
    PROVE  Assigned(With(base, done, values), l, Scalar(values[l]))
             = With(base, done \cup {l}, values)
  BY DEF With, Assigned

\* What an object has to be for a selection's labels to be written into it.
KeysOf(s) == getToken(Selection(s).location)

ScalarMap(base) ==
    /\ base = [l \in DOMAIN base |-> base[l]]
    /\ \A l \in DOMAIN base : base[l].kind = "scalar"

Writable(s, object) ==
    Leads(object, KeysOf(s)) /\ ScalarMap(There(object, KeysOf(s)))

\* Parts that are read as one name.
Names(s, parts, name) ==
    LET more == getToken(Selection(s).location \o parts)
    IN  /\ Extends(more, KeysOf(s)) /\ more[Len(more)].type = "VALUE"
        /\ more[Len(more)].text = name

LEMMA LocationFacts ==
    ASSUME NEW s \in Specs, Selecting(s)
    PROVE  /\ IsSeq(Selection(s).location) /\ Len(KeysOf(s)) \in Nat
           /\ ~Tokenized(Selection(s).location)[Len(Selection(s).location)].opened
           /\ Writable(s, s.template)
           /\ <<PROFILE>> \notin DOMAIN There(s.template, KeysOf(s))
           /\ \A object : AskedOf(s, object) = There(object, KeysOf(s))
           /\ ValuesAssumed(Selection(s))
<1> DEFINE location == Selection(s).location
           keys == getToken(location)
           base == There(s.template, keys)
<1>1. /\ LocationAssumed(s) /\ ValuesAssumed(Selection(s))
      /\ s.template.kind = "map"
  BY SpecsAssumption
<1>2. \A object : AskedOf(s, object) = There(object, keys)
  BY DEF AskedOf, There
<1>3. /\ IsSeq(location)
      /\ ~Tokenized(location)[Len(location)].opened
      /\ Leads(s.template, keys)
      /\ base \in [DOMAIN base -> Range(base)]
      /\ \A l \in DOMAIN base : l # <<PROFILE>> /\ base[l].kind = "scalar"
  BY <1>1, <1>2 DEF LocationAssumed, IsSeq, Leads
<1>4. Len(keys) \in Nat
  <2> DEFINE n == Len(location)
  <2>1. n \in Nat
    BY <1>3 DEF IsSeq
  <2>2. IsSeq(Tokenized(location)[n].token)
    <3> HIDE DEF location
    <3>1. n \in 0..n
      BY <2>1
    <3> QED
      BY <2>1, <3>1, TokensAreSeq
  <2>3. keys = Tokenized(location)[n].token
    BY DEF getToken
  <2> HIDE DEF keys, n, location
  <2> QED
    BY <2>2, <2>3, AppendFacts
<1>5. <<PROFILE>> \notin DOMAIN base
  BY <1>3
<1>6. ScalarMap(base)
  <2> HIDE DEF base
  <2> QED
    BY <1>3 DEF ScalarMap
<1> QED
  BY <1>1, <1>2, <1>3, <1>4, <1>5, <1>6 DEF Writable, KeysOf

\* One label is written.
LEMMA LabelWritten ==
    ASSUME NEW s \in Specs, Selecting(s), NEW object, Writable(s, object),
           NEW parts, NEW name, Names(s, parts, name),
           Len(name) # 1 \/ name \notin DOMAIN There(object, KeysOf(s)),
           NEW value, value # NULL_VALUE_STR
    PROVE  /\ Writable(s, UpdateValue(object, Selection(s).location \o parts,
                                      value))
           /\ There(UpdateValue(object, Selection(s).location \o parts, value),
                    KeysOf(s))
                = Assigned(There(object, KeysOf(s)), name, Scalar(value))
<1> DEFINE location == Selection(s).location
           keys == KeysOf(s)
           more == getToken(location \o parts)
           new == updateNextValue(object, more, value)
           base == There(object, keys)
<1>1. Leads(object, keys) /\ ScalarMap(base)
  BY DEF Writable
<1>2. object.kind = "map"
  BY <1>1 DEF Leads
<1>3. UpdateValue(object, location \o parts, value) = new
  BY <1>2 DEF UpdateValue
<1>4. Leads(new, keys) /\ There(new, keys) = Assigned(base, name, Scalar(value))
  <2> DEFINE k == more[Len(more)]
  <2>1. /\ Extends(more, keys) /\ k.type = "VALUE" /\ k.text = name
        /\ Len(k.text) # 1 \/ k.text \notin DOMAIN base
    BY DEF Names
  <2> HIDE DEF more, keys
  <2> QED
    BY <1>1, <2>1, WriteThere DEF ScalarMap
<1> HIDE DEF new, base, keys, more
<1>5. ScalarMap(There(new, keys))
  BY <1>1, <1>4 DEF Assigned, Scalar, ScalarMap
<1> QED
  BY <1>3, <1>4, <1>5 DEF Writable, keys, base

\* All labels of the selector are written, whatever the order.
LEMMA SelectorWritten ==
    ASSUME NEW s \in Specs, Selecting(s), Dotted(s), NEW order \in Orders(s),
           NEW object, Writable(s, object)
    PROVE  /\ Writable(s, WithSelector(s, object, order))
           /\ There(WithSelector(s, object, order), KeysOf(s))
                = With(There(object, KeysOf(s)),
                       DOMAIN Selection(s).selector, Selection(s).selector)
<1> DEFINE location == Selection(s).location
           keys == KeysOf(s)
           selector == Selection(s).selector
           labels == DOMAIN selector
           parts == [l \in labels |-> Quoted(l)]
           n == Len(order)
           W == Written(s, object, order, parts)
           base == There(object, keys)
           Done(i) == {order[k] : k \in 1..i}
           Holds(i) == /\ Writable(s, W[i])
                       /\ There(W[i], keys) = With(base, Done(i), selector)
           T == {i \in 0..n : Holds(i)}
<1>1. /\ IsSeq(location) /\ ~Tokenized(location)[Len(location)].opened
      /\ ValuesAssumed(Selection(s))
  BY LocationFacts
<1>2. /\ IsFiniteSet(labels)
      /\ \A l \in labels : /\ l \in Seq(STRING) /\ Len(l) >= 2
                           /\ selector[l] # NULL_VALUE_STR
  BY <1>1 DEF ValuesAssumed, Dotted
<1>3. Enumerates(order, labels) /\ n \in Nat
  <2>1. Enumerates(order, labels)
    BY <1>2, OrderEnumerates DEF Orders
  <2> QED
    BY <2>1 DEF Enumerates
<1>4. \A i \in 1..n : order[i] \in labels
  <2> HIDE DEF labels
  <2> QED
    BY <1>3, EnumerationFacts
<1>5. /\ W[0] = object
      /\ \A i \in 1..n : W[i] = UpdateValue(W[i - 1],
                                  location \o parts[order[i]],
                                  selector[order[i]])
  BY <1>3, WrittenUnfolds
<1>6. WithSelector(s, object, order) = W[n]
  BY DEF WithSelector
<1> HIDE DEF W, labels
<1>7. Holds(0)
  <2>1. Done(0) = {}
    OBVIOUS
  <2>2. With(base, {}, selector) = base
    <3>1. base = [l \in DOMAIN base |-> base[l]]
      BY DEF Writable, ScalarMap
    <3> HIDE DEF base
    <3> QED
      BY <3>1 DEF With
  <2> QED
    BY <1>5, <2>1, <2>2
<1>8. ASSUME NEW i \in Nat, i < n, Holds(i) PROVE Holds(i + 1)
  <2> DEFINE l == order[i + 1]
             value == selector[l]
             p == Quoted(l)
  <2>1. i + 1 \in 1..n /\ (i + 1) - 1 = i /\ l \in labels
    BY <1>3, <1>4, <1>8
  <2>2. Done(i + 1) = Done(i) \cup {l}
    <3>1. \A k : k \in 1..(i + 1) <=> k \in 1..i \/ k = i + 1
      BY <1>8
    <3> QED
      BY <3>1
  <2> HIDE DEF l
  <2>3. l \in Seq(STRING) /\ Len(l) >= 2 /\ value # NULL_VALUE_STR
    BY <1>2, <2>1
  <2>4. W[i + 1] = UpdateValue(W[i], location \o p, value)
    <3>1. parts[l] = p
      BY <2>1
    <3> QED
      BY <1>5, <2>1, <3>1 DEF l
  <2> HIDE DEF Done, value
  <2>5. Names(s, p, l)
    BY <1>1, <2>3, QuotedKey DEF Names, KeysOf
  <2>6. Len(l) # 1
    <3> DEFINE m == Len(l)
    <3>1. m \in Nat /\ m >= 2
      BY <2>3
    <3> HIDE DEF m
    <3>2. m # 1
      BY <3>1
    <3> QED
      BY <3>2 DEF m
  <2>7. /\ Writable(s, W[i + 1])
        /\ There(W[i + 1], keys)
             = Assigned(There(W[i], keys), l, Scalar(value))
    <3>1. Writable(s, W[i])
      BY <1>8
    <3> HIDE DEF p
    <3> QED
      BY <2>3, <2>4, <2>5, <2>6, <3>1, LabelWritten
  <2>8. There(W[i + 1], keys) = With(base, Done(i + 1), selector)
    <3> HIDE DEF keys, base, selector
    <3> QED
      BY <1>8, <2>2, <2>7, WithMore DEF value
  <2> QED
    BY <2>7, <2>8
<1>9. Done(n) = labels
  <2> HIDE DEF n
  <2>1. \A x \in labels : \E k \in 1..n : x = order[k]
    BY <1>3 DEF Enumerates, n
  <2> QED
    BY <1>4, <2>1
<1> HIDE DEF Holds, n
<1>10. 0..n \subseteq T
  <2>1. 0 \in T
    BY <1>3, <1>7
  <2>2. ASSUME NEW i \in Nat, i < n, i \in T PROVE i + 1 \in T
    <3>1. i + 1 \in 0..n
      BY <1>3, <2>2
    <3> QED
      BY <1>8, <2>2, <3>1
  <2> HIDE DEF T
  <2> QED
    BY <1>3, <2>1, <2>2, AllUntil
<1>11. Holds(n)
  <2>1. n \in 0..n
    BY <1>3
  <2> QED
    BY <1>10, <2>1
<1>12. Writable(s, W[n]) /\ There(W[n], keys) = With(base, labels, selector)
  <2>1. Writable(s, W[n]) /\ There(W[n], keys) = With(base, Done(n), selector)
    BY <1>11 DEF Holds
  <2> HIDE DEF Done
  <2> QED
    BY <1>9, <2>1
<1> QED
  BY <1>6, <1>12 DEF labels

\* What AsksForItsNodes says of one job.
AskedFor(s, j) ==
    LET base == AskedOf(s, Rendered(s, j.label))
        selector == Selection(s).selector
        own == IF j.label[PROFILE] = DEFAULT THEN {} ELSE {<<PROFILE>>}
    IN  [l \in own \cup DOMAIN selector \cup DOMAIN base |->
           IF l \in own THEN Scalar(j.label[PROFILE])
           ELSE IF l \in DOMAIN selector THEN Scalar(selector[l])
           ELSE base[l]]

\* The object made for a job is never a panic, asks for what it should, and
\* its profile is read back from it.
LEMMA MadeSelecting ==
    ASSUME NEW s \in Specs, Selecting(s), Dotted(s), NEW j \in JobsOf(s),
           NEW order \in Orders(s), j.label \notin s.fails \cup s.undecoded
    PROVE  /\ Made(s, j, order).is = "object"
           /\ Made(s, j, order).tunedValue
                = IF j.label[PROFILE] = DEFAULT THEN NULL_VALUE_STR
                  ELSE j.label[PROFILE]
           /\ Made(s, j, order).asked = AskedFor(s, j)
<1> DEFINE own == j.label[PROFILE]
           name == <<PROFILE>>
           parts == <<Part(PROFILE)>>
           base == There(s.template, KeysOf(s))
           first == WithProfile(s, s.template, j)
           object == GetBenchmarkWithIteration(s, j, order)
           selector == Selection(s).selector
           labels == DOMAIN selector
           mine == IF own = DEFAULT THEN {} ELSE {name}
           tuned == getTunedValue(s, object)
           T == There(object, KeysOf(s))
<1>1. /\ IsSeq(Selection(s).location) /\ Len(KeysOf(s)) \in Nat
      /\ ~Tokenized(Selection(s).location)[Len(Selection(s).location)].opened
      /\ Writable(s, s.template) /\ name \notin DOMAIN base
      /\ \A o : AskedOf(s, o) = There(o, KeysOf(s))
      /\ ValuesAssumed(Selection(s))
  BY LocationFacts
<1>2. Names(s, parts, name)
  BY <1>1, PartKey DEF Names, KeysOf
<1>3. PROFILE \in DOMAIN j.label /\ own # NULL_VALUE_STR
  BY JobFacts
<1>4. /\ Writable(s, first)
      /\ There(first, KeysOf(s))
           = IF own = DEFAULT THEN base ELSE Assigned(base, name, Scalar(own))
  <2>1. CASE own = DEFAULT
    <3>1. first = s.template
      BY <2>1 DEF WithProfile
    <3> QED
      BY <1>1, <2>1, <3>1
  <2>2. CASE own # DEFAULT
    <3>1. first = UpdateValue(s.template, Selection(s).location \o parts, own)
      BY <1>3, <2>2 DEF WithProfile, ProfileLocation
    <3> HIDE DEF first, own, parts, name
    <3> QED
      BY <1>1, <1>2, <1>3, <2>2, <3>1, LabelWritten
  <2> QED
    BY <2>1, <2>2
<1>5. object = WithSelector(s, first, order)
  BY DEF GetBenchmarkWithIteration, Rendered
<1> HIDE DEF first
<1>6. /\ Writable(s, object)
      /\ T = With(There(first, KeysOf(s)), labels, selector)
  BY <1>4, <1>5, SelectorWritten
<1>7. name \notin labels
  <2>1. \A l \in labels : Len(l) >= 2
    BY DEF Dotted
  <2>2. Len(name) = 1
    OBVIOUS
  <2> SUFFICES ASSUME name \in labels PROVE FALSE
    OBVIOUS
  <2>3. Len(name) >= 2
    BY <2>1
  <2> DEFINE m == Len(name)
  <2>4. m \in Nat /\ m = 1
    BY <2>2
  <2> HIDE DEF m
  <2> QED
    BY <2>3, <2>4 DEF m
<1> HIDE DEF object, base, own, name, labels, parts, T
<1>8. T = [l \in mine \cup labels \cup DOMAIN base |->
             IF l \in mine THEN Scalar(own)
             ELSE IF l \in labels THEN Scalar(selector[l])
             ELSE base[l]]
  <2>1. CASE own = DEFAULT
    <3>1. T = With(base, labels, selector) /\ mine = {}
      BY <1>4, <1>6, <2>1
    <3> HIDE DEF mine
    <3> QED
      BY <3>1 DEF With
  <2>2. CASE own # DEFAULT
    <3>1. T = With(Assigned(base, name, Scalar(own)), labels, selector)
          /\ mine = {name}
      BY <1>4, <1>6, <2>2
    <3> HIDE DEF mine
    <3> QED
      BY <1>7, <3>1 DEF With, Assigned
  <2> QED
    BY <2>1, <2>2
<1>9. tuned = IF own = DEFAULT THEN Scalar(NULL_VALUE_STR) ELSE Scalar(own)
  <2> DEFINE more == getToken(ProfileLocation(s))
  <2>1. object \notin {Panic, Error} /\ object.kind # "nil"
    BY <1>6 DEF Writable, Leads, Panic, Error
  <2>2. tuned = deeperValue(object, more)
    BY <2>1 DEF getTunedValue, GetValue
  <2>3. /\ Extends(more, KeysOf(s)) /\ more[Len(more)].type = "VALUE"
        /\ more[Len(more)].text = name
    BY <1>2 DEF Names, ProfileLocation, parts
  <2> HIDE DEF more
  <2>4. deeperValue(object, more)
          = IF name \in DOMAIN T THEN T[name] ELSE Scalar(NULL_VALUE_STR)
    BY <1>6, <2>3, ReadThere DEF Writable, ScalarMap, T
  <2>5. CASE own = DEFAULT
    <3>1. name \notin DOMAIN T
      BY <1>1, <1>7, <1>8, <2>5
    <3> QED
      BY <2>2, <2>4, <2>5, <3>1
  <2>6. CASE own # DEFAULT
    <3>1. name \in DOMAIN T /\ T[name] = Scalar(own)
      BY <1>8, <2>6
    <3> QED
      BY <2>2, <2>4, <2>6, <3>1
  <2> QED
    BY <2>5, <2>6
<1>10. tuned # Panic
  BY <1>9 DEF Scalar, Panic
<1>11. /\ tuned.text = IF own = DEFAULT THEN NULL_VALUE_STR ELSE own
       /\ AskedOf(s, object) = T
  BY <1>1, <1>9 DEF Scalar, T
<1>12. Made(s, j, order)
         = [is |-> "object", tunedValue |-> tuned.text, asked |-> T]
  <2>1. object # Error
    BY <1>6 DEF Writable, Leads, Error
  <2> QED
    BY <1>10, <1>11, <2>1 DEF Made, object
<1>13. T = AskedFor(s, j)
  BY <1>1, <1>8 DEF AskedFor, Rendered, own, name, labels, base
<1> QED
  BY <1>11, <1>12, <1>13 DEF own

\* Writing where there is no object panics, and after that so does the rest.
LEMMA SelectorOfNothing ==
    ASSUME NEW s \in Specs, Selecting(s), NEW order \in Orders(s),
           NEW object, object.kind # "map"
    PROVE  WithSelector(s, object, order)
             = IF DOMAIN Selection(s).selector = {} THEN object ELSE Panic
<1> DEFINE location == Selection(s).location
           selector == Selection(s).selector
           labels == DOMAIN selector
           parts == [l \in labels |-> Quoted(l)]
           n == Len(order)
           W == Written(s, object, order, parts)
           T == {i \in 0..n : W[i] = IF i = 0 THEN object ELSE Panic}
<1>1. ValuesAssumed(Selection(s))
  BY LocationFacts
<1>2. Enumerates(order, labels)
  BY <1>1, OrderEnumerates DEF ValuesAssumed, Orders
<1>3. /\ n \in Nat /\ \A i \in 1..n : order[i] \in labels
      /\ \A l \in labels : \E i \in 1..n : l = order[i]
  <2> HIDE DEF labels
  <2> QED
    BY <1>2, EnumerationFacts DEF Enumerates
<1>4. /\ W[0] = object
      /\ \A i \in 1..n : W[i] = UpdateValue(W[i - 1],
                                  location \o parts[order[i]],
                                  selector[order[i]])
  BY <1>3, WrittenUnfolds
<1>5. WithSelector(s, object, order) = W[n]
  BY DEF WithSelector
<1>6. \A l \in labels : selector[l] # NULL_VALUE_STR
  BY <1>1 DEF ValuesAssumed
<1>7. Panic.kind # "map"
  BY DEF Panic
<1> HIDE DEF W, parts, labels, selector, location
<1>8. ASSUME NEW i \in Nat, i < n, i \in T PROVE i + 1 \in T
  <2>1. i + 1 \in 1..n /\ i + 1 \in 0..n /\ (i + 1) - 1 = i /\ i + 1 # 0
    BY <1>3, <1>8
  <2>2. W[i].kind # "map"
    BY <1>7, <1>8
  <2>3. selector[order[i + 1]] # NULL_VALUE_STR
    BY <1>3, <1>6, <2>1
  <2>4. W[i + 1] = UpdateValue(W[i], location \o parts[order[i + 1]],
                               selector[order[i + 1]])
    BY <1>4, <2>1
  <2>5. W[i + 1] = Panic
    BY <2>2, <2>3, <2>4 DEF UpdateValue
  <2> QED
    BY <2>1, <2>5
<1>9. 0..n \subseteq T
  <2>1. 0 \in T
    BY <1>3, <1>4
  <2> HIDE DEF T, n
  <2> QED
    BY <1>3, <1>8, <2>1, AllUntil
<1>10. W[n] = IF n = 0 THEN object ELSE Panic
  <2>1. n \in 0..n
    BY <1>3
  <2> QED
    BY <1>9, <2>1
<1>11. labels = {} <=> n = 0
  BY <1>3
<1> QED
  BY <1>5, <1>10, <1>11 DEF labels, selector

\* In what is no object nothing is found and nothing is asked for.
LEMMA NothingFound ==
    ASSUME NEW keys, Len(keys) \in Nat
    PROVE  \A i \in 0..Len(keys) : Visited(Nil, keys)[i] = Nil
<1> DEFINE n == Len(keys)
           V == Visited(Nil, keys)
           T == {i \in 0..n : V[i] = Nil}
<1>1. /\ V[0] = Nil
      /\ \A i \in 1..n : V[i] = IF V[i - 1].kind # "map" THEN Nil
                               ELSE getValue(keys[i], Prepared(keys[i], V[i - 1].at))
  BY VisitedUnfolds
<1>2. Nil.kind # "map"
  BY DEF Nil
<1> HIDE DEF V
<1>3. ASSUME NEW i \in Nat, i < n, i \in T PROVE i + 1 \in T
  <2>1. i + 1 \in 1..n /\ i + 1 \in 0..n /\ (i + 1) - 1 = i
    BY <1>3
  <2>2. V[i + 1] = Nil
    BY <1>1, <1>2, <1>3, <2>1
  <2> QED
    BY <2>1, <2>2
<1>4. 0..n \subseteq T /\ n \in Nat
  <2>1. 0 \in T /\ n \in Nat
    BY <1>1
  <2> HIDE DEF T, n
  <2> QED
    BY <1>3, <2>1, AllUntil
<1> QED
  BY <1>4 DEF V

LEMMA NothingThere ==
    ASSUME NEW s, Selecting(s), Len(KeysOf(s)) \in Nat
    PROVE  AskedOf(s, Nil) = <<>>
<1> DEFINE keys == KeysOf(s)
           n == Len(keys)
<1>1. n \in 0..n
  OBVIOUS
<1>2. Visited(Nil, keys)[n] = Nil
  BY <1>1, NothingFound
<1>3. Nil.kind # "map"
  BY DEF Nil
<1> QED
  BY <1>2, <1>3 DEF AskedOf, KeysOf

LEMMA NothingRead ==
    ASSUME NEW keys, NEW n \in Nat, Len(keys) = n, 1 <= n
    PROVE  deeperValue(Nil, keys) = Scalar(NULL_VALUE_STR)
<1> DEFINE path == Visited(Nil, keys)
           ends == {i \in 1..n : path[i].kind # "map" \/ i = n}
           last == LastOf(path, keys)
<1>1. \A i \in 0..n : path[i] = Nil
  BY NothingFound
<1>2. ends \subseteq Nat /\ n \in ends
  OBVIOUS
<1>3. last = Min(ends)
  BY DEF LastOf
<1> HIDE DEF ends, last, path
<1>4. last \in ends
  BY <1>2, <1>3, MinFacts
<1>5. last \in 0..n
  BY <1>4 DEF ends
<1>6. path[last] = Nil
  BY <1>1, <1>5
<1>7. Nil.kind = "nil"
  BY DEF Nil
<1> QED
  BY <1>6, <1>7 DEF deeperValue, path, last

\* Of no object the code makes a panic, or nothing that asks for more.
LEMMA MadeOfNothing ==
    ASSUME NEW s \in Specs, Selecting(s), NEW j \in JobsOf(s),
           NEW order \in Orders(s),
           j.label \in s.undecoded, j.label \notin s.fails
    PROVE  LET m == Made(s, j, order)
           IN  \/ m.is = "panic"
               \/ /\ m.is = "object" /\ m.tunedValue = NULL_VALUE_STR
                  /\ j.label[PROFILE] = DEFAULT /\ m.asked = AskedFor(s, j)
<1> DEFINE own == j.label[PROFILE]
           first == WithProfile(s, Nil, j)
           object == GetBenchmarkWithIteration(s, j, order)
           selector == Selection(s).selector
           tuned == getTunedValue(s, object)
           m == Made(s, j, order)
           more == getToken(ProfileLocation(s))
<1>1. PROFILE \in DOMAIN j.label /\ own # NULL_VALUE_STR
  BY JobFacts
<1>2. first = IF own = DEFAULT THEN Nil ELSE Panic
  BY <1>1 DEF WithProfile, UpdateValue, Nil
<1>3. object = WithSelector(s, first, order)
  BY DEF GetBenchmarkWithIteration, Rendered
<1>4. Panic.kind # "map" /\ Nil.kind = "nil" /\ Panic # Error /\ Nil # Error
      /\ Nil # Panic
  BY DEF Panic, Nil, Error
<1> HIDE DEF first
<1>5. object = IF DOMAIN selector = {} THEN first ELSE Panic
  BY <1>2, <1>3, <1>4, SelectorOfNothing
<1> HIDE DEF object
<1>6. CASE object = Panic
  <2>1. tuned = Panic
    BY <1>6 DEF getTunedValue
  <2>2. m = [is |-> "panic"]
    BY <1>4, <1>6, <2>1 DEF Made, object
  <2> QED
    BY <2>2
<1>7. CASE object # Panic
  <2>1. object = Nil /\ own = DEFAULT /\ DOMAIN selector = {}
    BY <1>2, <1>5, <1>7
  <2>2. tuned = Panic \/ tuned = deeperValue(Nil, more)
    BY <1>4, <2>1 DEF getTunedValue, GetValue
  <2>3. CASE tuned = Panic
    <3>1. m = [is |-> "panic"]
      BY <1>4, <2>1, <2>3 DEF Made, object
    <3> QED
      BY <3>1
  <2>4. CASE tuned # Panic
    <3>1. tuned = Scalar(NULL_VALUE_STR)
      <4>1. Extends(more, KeysOf(s))
        BY <1>1, LocationFacts, PartKey DEF ProfileLocation, KeysOf
      <4>2. Len(more) \in Nat /\ 1 \in 1..Len(more)
        BY <4>1 DEF Extends
      <4>3. deeperValue(Nil, more) = Scalar(NULL_VALUE_STR)
        <5> PICK n \in Nat : n = Len(more)
          BY <4>2
        <5>1. 1 <= n
          BY <4>2
        <5> QED
          BY <5>1, NothingRead
      <4> QED
        BY <2>2, <2>4, <4>3
    <3>2. AskedOf(s, Nil) = <<>>
      BY LocationFacts, NothingThere
    <3>3. AskedFor(s, j) = <<>>
      BY <2>1, <3>2 DEF AskedFor, Rendered
    <3>4. m = [is |-> "object", tunedValue |-> NULL_VALUE_STR, asked |-> <<>>]
      BY <1>4, <2>1, <2>4, <3>1, <3>2 DEF Made, object, Scalar
    <3> QED
      BY <2>1, <3>3, <3>4
  <2> QED
    BY <2>3, <2>4
<1> QED
  BY <1>6, <1>7

LEMMA MadePlain ==
    ASSUME NEW s \in Specs, ~Selecting(s), NEW j, NEW order,
           j.label \notin s.fails
    PROVE  /\ Made(s, j, order).is = "object"
           /\ Made(s, j, order).tunedValue = DEFAULT
<1> DEFINE object == GetBenchmarkWithIteration(s, j, order)
<1>1. getTunedValue(s, object) = Scalar(DEFAULT)
  BY DEF getTunedValue
<1>2. Scalar(DEFAULT) # Panic /\ Scalar(DEFAULT).text = DEFAULT
  BY DEF Scalar, Panic
<1>3. object # Error
  <2>1. object = Rendered(s, j.label)
    BY DEF GetBenchmarkWithIteration, WithSelector, WithProfile
  <2>2. Nil # Error /\ s.template # Error
    BY SpecsAssumption DEF Nil, Error
  <2> QED
    BY <2>1, <2>2 DEF Rendered
<1>4. Made(s, j, order)
        = [is |-> "object", tunedValue |-> DEFAULT, asked |-> <<>>]
  BY <1>1, <1>2, <1>3 DEF Made
<1> QED
  BY <1>4

LEMMA MadeIs ==
    ASSUME NEW s, NEW j, NEW order
    PROVE  Made(s, j, order).is \in {"panic", "error", "object"}
BY DEF Made

\* Without an object the job is passed over, or its name panics.
LEMMA MadeFails ==
    ASSUME NEW s, NEW j, NEW order, j.label \in s.fails
    PROVE  Made(s, j, order)
             = [is |-> IF j.label = IterationLabels(s)[1] THEN "panic" ELSE "error"]
BY DEF Made, GetBenchmarkWithIteration

-----------------------------------------------------------------------------
(***************************************************************************)
(* The jobs that the scan does not pass over, after each combination.      *)
(***************************************************************************)
Passing(s, m) ==
    LET kept[i \in 0..Len(s)] ==
          IF i = 0 THEN <<>>
          ELSE IF m[s[i]].is = "error" THEN kept[i - 1]
          ELSE Append(kept[i - 1], s[i])
    IN  kept

LEMMA PassingUnfolds ==
    ASSUME NEW s, NEW m, Len(s) \in Nat
    PROVE  /\ Passing(s, m)[0] = <<>>
           /\ \A i \in 1..Len(s) :
                Passing(s, m)[i]
                  = IF m[s[i]].is = "error" THEN Passing(s, m)[i - 1]
                    ELSE Append(Passing(s, m)[i - 1], s[i])
<1> DEFINE Step(f, i) == IF i = 0 THEN <<>>
                         ELSE IF m[s[i]].is = "error" THEN f[i - 1]
                         ELSE Append(f[i - 1], s[i])
           S == {k \in Nat : \E f : f = [i \in 0..k |-> Step(f, i)]}
           n == Len(s)
           it == CHOOSE f : f = [i \in 0..n |-> Step(f, i)]
<1>1. 0 \in S
  <2>1. [i \in 0..0 |-> <<>>] = [i \in 0..0 |-> Step([j \in 0..0 |-> <<>>], i)]
    OBVIOUS
  <2> QED
    BY <2>1
<1>2. ASSUME NEW k \in Nat, k \in S PROVE k + 1 \in S
  <2>1. PICK f : f = [i \in 0..k |-> Step(f, i)]
    BY <1>2
  <2> DEFINE g == [i \in 0..(k + 1) |-> IF i = k + 1 THEN Step(f, i) ELSE f[i]]
  <2>2. ASSUME NEW i \in 0..(k + 1) PROVE g[i] = Step(g, i)
    <3>1. i # 0 => i - 1 \in 0..k /\ g[i - 1] = f[i - 1]
      <4> HIDE DEF Step
      <4> QED
        OBVIOUS
    <3>2. Step(f, i) = Step(g, i)
      BY <3>1
    <3>3. i # k + 1 => i \in 0..k
      OBVIOUS
    <3>4. i \in 0..k => f[i] = Step(f, i)
      BY <2>1
    <3> HIDE DEF Step
    <3> QED
      BY <3>2, <3>3, <3>4
  <2>3. g = [i \in 0..(k + 1) |-> Step(g, i)]
    BY <2>2, Zenon
  <2> HIDE DEF g, Step
  <2> QED
    BY <2>3
<1>3. n \in S
  <2> HIDE DEF S
  <2>1. Nat \subseteq S
    BY <1>1, <1>2, AllNaturals
  <2> QED
    BY <2>1
<1>4. it = [i \in 0..n |-> Step(it, i)]
  <2> HIDE DEF Step
  <2> QED
    BY <1>3, Zenon
<1>5. Passing(s, m) = it
  BY Zenon DEF Passing
<1> HIDE DEF it
<1>6. \A i \in 0..n : it[i] = Step(it, i)
  BY <1>4, Zenon
<1>7. 0 \in 0..n /\ \A i \in 1..n : i \in 0..n /\ i # 0
  OBVIOUS
<1> QED
  BY <1>5, <1>6, <1>7

\* What comes out of M, and how it comes from one combination to the next.
PassesOnce(M, s, m, P) ==
    LET n == Len(s)
    IN  /\ P[n] \in Seq(M) /\ Len(P[n]) \in Nat
        /\ \A i, k \in 1..Len(P[n]) : P[n][i] = P[n][k] => i = k
        /\ Len(P[0]) = 0
        /\ \A e \in 1..n :
             IF m[s[e]].is = "error" THEN Len(P[e]) = Len(P[e - 1])
             ELSE /\ Len(P[e]) = Len(P[e - 1]) + 1
                  /\ Len(P[e]) \in 1..Len(P[n]) /\ P[n][Len(P[e])] = s[e]

LEMMA PassingFacts ==
    ASSUME NEW M, NEW s, NEW m, Enumerates(s, M)
    PROVE  PassesOnce(M, s, m, Passing(s, m))
<1> DEFINE n == Len(s)
           P == Passing(s, m)
           Good(e) == /\ P[e] \in Seq(M)
                      /\ \A p \in 1..Len(P[e]) : \E i \in 1..e : P[e][p] = s[i]
                      /\ \A p, q \in 1..Len(P[e]) : P[e][p] = P[e][q] => p = q
                      /\ \A f \in 0..e :
                           /\ Len(P[f]) \in Nat /\ Len(P[f]) <= Len(P[e])
                           /\ \A p \in 1..Len(P[f]) : P[e][p] = P[f][p]
           T == {e \in 0..n : Good(e)}
<1>1. /\ n \in Nat /\ \A i \in 1..n : s[i] \in M
      /\ \A i, k \in 1..n : s[i] = s[k] => i = k
  BY EnumerationFacts DEF Enumerates
<1>2. /\ P[0] = <<>>
      /\ \A i \in 1..n : P[i] = IF m[s[i]].is = "error" THEN P[i - 1]
                                ELSE Append(P[i - 1], s[i])
  BY <1>1, PassingUnfolds
<1> HIDE DEF P, n
<1>3. Good(0)
  BY <1>2
<1>4. ASSUME NEW e \in Nat, e < n, Good(e) PROVE Good(e + 1)
  <2>1. e + 1 \in 1..n /\ (e + 1) - 1 = e
    BY <1>1, <1>4
  <2>2. /\ \A f \in 0..(e + 1) : f \in 0..e \/ f = e + 1
        /\ \A i \in 1..e : i \in 1..(e + 1) /\ i \in 1..n /\ i # e + 1
    BY <1>1, <1>4
  <2> PICK L \in Nat : L = Len(P[e])
    BY <1>4
  <2> DEFINE x == s[e + 1]
  <2>3. CASE m[x].is = "error"
    <3>1. P[e + 1] = P[e]
      BY <1>2, <2>1, <2>3
    <3>2. \A f \in 0..(e + 1) :
            /\ Len(P[f]) \in Nat /\ Len(P[f]) <= Len(P[e])
            /\ \A p \in 1..Len(P[f]) : P[e][p] = P[f][p]
      <4>1. /\ Len(P[e + 1]) \in Nat /\ Len(P[e + 1]) <= Len(P[e])
            /\ \A p \in 1..Len(P[e + 1]) : P[e][p] = P[e + 1][p]
        BY <3>1
      <4> QED
        BY <1>4, <2>2, <4>1
    <3> QED
      BY <1>4, <2>2, <3>1, <3>2
  <2>4. CASE m[x].is # "error"
    <3>1. P[e + 1] = Append(P[e], x)
      BY <1>2, <2>1, <2>4
    <3> HIDE DEF x
    <3>2. x \in M
      BY <1>1, <2>1 DEF x
    <3>3. /\ P[e + 1] \in Seq(M) /\ Len(P[e + 1]) = L + 1
          /\ \A p \in 1..L : P[e + 1][p] = P[e][p]
          /\ P[e + 1][L + 1] = x
      BY <1>4, <3>1, <3>2
    <3>4. \A p \in 1..(L + 1) : p \in 1..L \/ p = L + 1
      OBVIOUS
    <3>5. \A p \in 1..L : P[e][p] # x
      BY <1>1, <1>4, <2>1, <2>2 DEF x
    <3>6. \A p \in 1..(L + 1) : \E i \in 1..(e + 1) : P[e + 1][p] = s[i]
      <4>1. P[e + 1][L + 1] = s[e + 1] /\ e + 1 \in 1..(e + 1)
        BY <3>3 DEF x
      <4>2. \A p \in 1..L : \E i \in 1..(e + 1) : P[e + 1][p] = s[i]
        BY <1>4, <2>2, <3>3
      <4> QED
        BY <3>4, <4>1, <4>2
    <3>7. \A p, q \in 1..(L + 1) : P[e + 1][p] = P[e + 1][q] => p = q
      <4> SUFFICES ASSUME NEW p \in 1..(L + 1), NEW q \in 1..(L + 1),
                          P[e + 1][p] = P[e + 1][q]
                   PROVE  p = q
        OBVIOUS
      <4>1. CASE p \in 1..L /\ q \in 1..L
        BY <1>4, <3>3, <4>1
      <4>2. CASE p \in 1..L /\ q = L + 1
        BY <3>3, <3>5, <4>2
      <4>3. CASE p = L + 1 /\ q \in 1..L
        BY <3>3, <3>5, <4>3
      <4> QED
        BY <3>4, <4>1, <4>2, <4>3
    <3>8. \A f \in 0..(e + 1) :
            /\ Len(P[f]) \in Nat /\ Len(P[f]) <= L + 1
            /\ \A p \in 1..Len(P[f]) : P[e + 1][p] = P[f][p]
      <4>1. ASSUME NEW f \in 0..e
            PROVE  /\ Len(P[f]) \in Nat /\ Len(P[f]) <= L + 1
                   /\ \A p \in 1..Len(P[f]) : P[e + 1][p] = P[f][p]
        <5> PICK K \in Nat : K = Len(P[f])
          BY <1>4
        <5>1. K <= L /\ \A p \in 1..K : P[e][p] = P[f][p]
          BY <1>4
        <5>2. \A p \in 1..K : p \in 1..L
          BY <5>1
        <5>3. K <= L + 1
          BY <5>1
        <5>4. \A p \in 1..K : P[e + 1][p] = P[f][p]
          BY <3>3, <5>1, <5>2
        <5> QED
          BY <5>3, <5>4
      <4>2. /\ Len(P[e + 1]) \in Nat /\ Len(P[e + 1]) <= L + 1
            /\ \A p \in 1..Len(P[e + 1]) : P[e + 1][p] = P[e + 1][p]
        BY <3>3
      <4> QED
        BY <2>2, <4>1, <4>2
    <3> QED
      BY <3>3, <3>6, <3>7, <3>8
  <2> QED
    BY <2>3, <2>4
<1>5. 0..n \subseteq T
  <2>1. 0 \in T
    BY <1>1, <1>3
  <2>2. ASSUME NEW e \in Nat, e < n, e \in T PROVE e + 1 \in T
    <3>1. e + 1 \in 0..n
      BY <1>1, <2>2
    <3>2. Good(e)
      BY <2>2
    <3> HIDE DEF Good
    <3>3. Good(e + 1)
      BY <1>4, <2>2, <3>2
    <3> QED
      BY <3>1, <3>3
  <2> HIDE DEF T
  <2> QED
    BY <1>1, <2>1, <2>2, AllUntil
<1>6. \A e \in 0..n : Good(e)
  BY <1>5
<1>7. Good(n)
  BY <1>1, <1>6
<1>8. ASSUME NEW e \in 1..n
      PROVE  IF m[s[e]].is = "error" THEN Len(P[e]) = Len(P[e - 1])
             ELSE /\ Len(P[e]) = Len(P[e - 1]) + 1
                  /\ Len(P[e]) \in 1..Len(P[n]) /\ P[n][Len(P[e])] = s[e]
  <2>1. e - 1 \in 0..n /\ e \in 0..n /\ n \in 0..n
    BY <1>1
  <2>2. P[e - 1] \in Seq(M)
    BY <1>6, <2>1
  <2>3. CASE m[s[e]].is = "error"
    BY <1>2, <2>3
  <2>4. CASE m[s[e]].is # "error"
    <3>1. P[e] = Append(P[e - 1], s[e])
      BY <1>2, <2>4
    <3> PICK L \in Nat : L = Len(P[e - 1])
      BY <2>2
    <3>2. Len(P[e]) = L + 1 /\ P[e][L + 1] = s[e]
      BY <2>2, <3>1
    <3>3. /\ Len(P[e]) <= Len(P[n])
          /\ \A p \in 1..Len(P[e]) : P[n][p] = P[e][p]
      BY <1>7, <2>1
    <3> PICK N \in Nat : N = Len(P[n])
      BY <1>7
    <3>4. L + 1 \in 1..(L + 1) /\ L + 1 \in 1..N
      BY <3>2, <3>3
    <3> QED
      BY <2>4, <3>2, <3>3, <3>4
  <2> QED
    BY <2>3, <2>4
<1>9. P[n] \in Seq(M) /\ Len(P[n]) \in Nat /\ Len(P[0]) = 0
  BY <1>2, <1>7
<1>10. \A i, k \in 1..Len(P[n]) : P[n][i] = P[n][k] => i = k
  BY <1>7
<1> HIDE DEF Good
<1> QED
  BY <1>8, <1>9, <1>10 DEF P, n, PassesOnce

-----------------------------------------------------------------------------
(***************************************************************************)
(* The inductive invariant.                                                *)
(***************************************************************************)
\* An adaptor sees the jobs of its kind succeed, unless the operator does not
\* know it; and sees no other job complete.
SucceededStatus(s) ==
    [state |-> "Complete",
     conditions |-> IF s.adaptor = "default"
                    THEN <<Condition("Complete", "", "True")>>
                    ELSE <<Condition("Running", "JobRunning", "False"),
                           Condition("Succeeded", "JobSucceeded", "True")>>]
Known(s) == CheckComplete(AdaptorOf(s.adaptor), SucceededStatus(s))

Done(j) == jobs[j].phase = "succeeded" /\ Known(spec)

\* The jobs that the scan does not pass over, and how many of them are among
\* the first e combinations.
Kept == Passing(scanned, made)[Len(scanned)]
Count(e) == Len(Passing(scanned, made)[e])

\* The first k of them, and those after them; whether the first k have been
\* seen to end, and whether the first d are listed and have an object.
Until(k) == {Kept[i] : i \in 1..k}
Between(k, d) == SubSeq(Kept, k + 1, d)
After(k) == SubSeq(Kept, k + 1, Len(Kept))
EndedUntil(k) == \A i \in 1..k : Done(Kept[i])
ListedUntil(d) == \A i \in 1..d : /\ EntriesOf(hashes, Kept[i]) # {}
                                  /\ made[Kept[i]].is = "object"

\* What is left of the scan after the first d of them.
Rest(e) == SubSeq(scanned, e + 1, Len(scanned))
Left(d) == \E e \in 0..Len(scanned) : Count(e) = d /\ op.todo = Rest(e)

\* What the goroutine that scans and then works off completions is at, when
\* the first k jobs exist and the first d have been scanned.
AtRest == /\ op.pc = "idle" /\ ~op.subscribed
          /\ waiting = <<>> /\ completions = <<>>

ScansWhatEnded(k, d) ==
    /\ op.pc = "scan" /\ ~op.subscribed /\ ~op.isNew
    /\ d <= k /\ EndedUntil(d)
    /\ waiting = <<>> /\ completions = <<>>

ScansWhatWaits(k, d) ==
    /\ op.pc = "scan" /\ ~op.subscribed /\ op.isNew
    /\ 1 <= k /\ k <= d
    /\ waiting = Between(k, d) /\ completions = <<>>

CreatesFirst(k, d) ==
    /\ op.pc \in {"apply", "create"} /\ ~op.subscribed /\ op.isNew
    /\ d = k + 1 /\ op.job = Kept[k + 1] /\ EndedUntil(k)
    /\ waiting = <<>> /\ completions = <<>>

Watches(k, d) ==
    /\ op.pc = "watch" /\ op.subscribed
    /\ d = Len(Kept) /\ waiting = After(k)
    /\ \/ completions = <<>>
       \/ k >= 1 /\ completions = <<Kept[k]>> /\ EndedUntil(k)

WorksOff(k, d) ==
    /\ op.pc \in {"unlabel", "next"} /\ op.subscribed
    /\ d = Len(Kept) /\ waiting = After(k)
    /\ completions = <<>> /\ EndedUntil(k)

CreatesNext(k, d) ==
    /\ op.pc \in {"apply", "create"} /\ op.subscribed
    /\ d = Len(Kept) /\ k + 1 <= d /\ waiting = After(k + 1)
    /\ op.job = Kept[k + 1] /\ EndedUntil(k)
    /\ completions = <<>>

\* The job after the first k could not be created: nothing completes any more.
Refused(k, d) ==
    /\ op.pc = IF op.subscribed THEN "watch" ELSE "scan"
    /\ op.subscribed \/ op.isNew
    /\ k + 1 <= d /\ EndedUntil(k)
    /\ waiting = Between(k + 1, d) /\ completions = <<>>

Stage(k, d) ==
    \/ AtRest \/ ScansWhatEnded(k, d) \/ ScansWhatWaits(k, d)
    \/ CreatesFirst(k, d) \/ Watches(k, d) \/ WorksOff(k, d)
    \/ CreatesNext(k, d) \/ Refused(k, d)

\* The jobs are created in the order of the scan, each after the last ended.
ChainAt(k, d) ==
    /\ DOMAIN jobs = Until(k) /\ EndedUntil(k - 1)
    /\ Left(d)
    /\ op.pc # "idle" => ListedUntil(d)
    /\ Stage(k, d)

Chain == \E k, d \in 0..Len(Kept) : ChainAt(k, d)

FixedInv ==
    /\ spec \in Specs
    /\ scanned = ScannedJobs(spec, TrackedBuilds[spec])
    /\ \E order \in [Range(scanned) -> Orders(spec)] :
         made = [j \in Range(scanned) |-> Made(spec, j, order[j])]

PCs == {"idle", "scan", "apply", "create", "watch", "unlabel", "next"}
Ops == [pc : PCs, subscribed : BOOLEAN, todo : Seq(Meant), isNew : BOOLEAN,
        job : Meant \cup {None}, nodes : SUBSET Nodes]

Mishaps == {"patch", "job", "pod", "early", "create"}

RoleInv ==
    /\ restarts \in 0..MaxRestarts
    /\ mishaps \subseteq Mishaps
    /\ panicked \in BOOLEAN /\ (panicked => MayPanic(spec))
    /\ op \in Ops
    /\ DOMAIN profile = Nodes

JobInv ==
    /\ \A j \in DOMAIN jobs :
         jobs[j] \in [phase : Phases, node : Nodes \cup {None}]
    /\ pods \in Seq([job : DOMAIN jobs, role : {"launcher", "worker"},
                     phase : {"Failed", "Running", "Succeeded"},
                     deleted : BOOLEAN])

\* The hashes of all jobs created, each from an object, are listed as what
\* they are.
HashInv ==
    /\ hashes \in Seq({HashItem(j) : j \in Meant})
    /\ \A j \in DOMAIN jobs : /\ EntriesOf(hashes, j) # {}
                              /\ made[j].is = "object"

\* What the code says of a job by its hash is what the job is.
FiledAs(j) ==
    LET names == ItemNames(GetCombinedIterations(spec))
        iterations == names \cap ItemNames(spec.iteration)
    IN  [build |-> j.build, iteration |-> Restrict(j.label, iterations),
         configuration |-> Restrict(j.label, names \ iterations),
         repetition |-> j.repetition]

ResultInv ==
    \A r \in results : /\ r = [job |-> r.job, filed |-> FiledAs(r.job)]
                       /\ r.job \in DOMAIN jobs /\ Done(r.job)

IsDefault(j) == j.label[PROFILE] = DEFAULT

\* While a job may start or run, the nodes that it may run on carry its
\* profile, or are not refused a label that is none.
RunsRight(j) ==
    /\ jobs[j].phase = "running" =>
         /\ jobs[j].node \in Nodes
         /\ IF IsDefault(j) THEN jobs[j].node \in getNodeList(spec)
            ELSE profile[jobs[j].node] = j.label[PROFILE]
    /\ jobs[j].phase \in {"pending", "running"} /\ IsDefault(j) =>
         \/ "patch" \in mishaps
         \/ \A n \in getNodeList(spec) : profile[n] = NULL_VALUE_STR

\* The benchmarks of which the model says what their jobs ask for.
Labelling(s) == Selecting(s) /\ Dotted(s)

ProfileInv ==
    /\ Labelling(spec) =>
         /\ op.pc # "create"
         /\ \A j \in DOMAIN jobs : RunsRight(j)
         /\ op.pc = "apply" /\ IsDefault(op.job) =>
              \/ "patch" \in mishaps
              \/ \A n \in getNodeList(spec) \ op.nodes :
                    profile[n] = NULL_VALUE_STR
    /\ ~Selecting(spec) => op.pc \notin {"apply", "unlabel"}

IInv == /\ FixedInv /\ RoleInv /\ Chain /\ JobInv /\ HashInv /\ ResultInv
        /\ ProfileInv

\* A job is seen to be complete exactly if it has succeeded and its adaptor is
\* one that sees it.
LEMMA SeenComplete ==
    ASSUME NEW phase \in Phases
    PROVE  CheckComplete(AdaptorOf(spec.adaptor), StatusAt(phase))
             <=> phase = "succeeded" /\ Known(spec)
<1> DEFINE a == spec.adaptor
           st == StatusAt(phase)
<1>1. CASE phase = "succeeded"
  <2>1. st = SucceededStatus(spec)
    BY <1>1 DEF StatusAt, SucceededStatus
  <2> QED
    BY <1>1, <2>1 DEF Known
<1>2. CASE phase # "succeeded"
  <2>1. st.state # "Complete"
    BY <1>2 DEF StatusAt, Phases
  <2>2. st.conditions \in {<<>>, <<Condition("Running", "JobRunning", "True")>>,
                           <<Condition("Failed", "JobFailed", "True")>>}
    BY <1>2 DEF StatusAt, Phases
  <2> HIDE DEF st
  <2>3. \A i \in 1..Len(st.conditions) :
          /\ st.conditions[i].type # "Complete"
          /\ st.conditions[i].reason # "JobSucceeded"
    <3>1. CASE st.conditions = <<>>
      BY <3>1
    <3>2. CASE st.conditions = <<Condition("Running", "JobRunning", "True")>>
      BY <3>2 DEF Condition
    <3>3. CASE st.conditions = <<Condition("Failed", "JobFailed", "True")>>
      BY <3>3 DEF Condition
    <3> QED
      BY <2>2, <3>1, <3>2, <3>3
  <2>4. ~CheckComplete(AdaptorOf(a), st)
    BY <2>1, <2>3 DEF CheckComplete, DefaultComplete, RipsawComplete,
                      ReasonComplete
  <2> QED
    BY <1>2, <2>4 DEF st
<1> QED
  BY <1>1, <1>2

LEMMA CompleteIsDone ==
    ASSUME NEW j, jobs[j].phase \in Phases
    PROVE  Complete(j) <=> Done(j)
BY SeenComplete DEF Complete, Done

\* The scan, as the lemmas below use it: each job of it once, those that it
\* keeps, and how it comes from one to the next.
ScanFacts ==
    /\ scanned \in Seq(Meant) /\ Len(scanned) \in Nat
    /\ \A i \in 1..Len(scanned) : scanned[i] \in Meant
    /\ \A i, k \in 1..Len(scanned) : scanned[i] = scanned[k] => i = k
    /\ Range(scanned) = Meant /\ Meant = JobsOf(spec)
    /\ \A j \in Meant : \E order \in Orders(spec) : made[j] = Made(spec, j, order)
    /\ Kept \in Seq(Meant) /\ Len(Kept) \in Nat
    /\ \A i \in 1..Len(Kept) : Kept[i] \in Meant
    /\ \A i, k \in 1..Len(Kept) : Kept[i] = Kept[k] => i = k
    /\ Count(0) = 0 /\ Count(Len(scanned)) = Len(Kept)
    /\ \A e \in 1..Len(scanned) :
         IF made[scanned[e]].is = "error" THEN Count(e) = Count(e - 1)
         ELSE /\ Count(e) = Count(e - 1) + 1
              /\ Count(e) \in 1..Len(Kept) /\ Kept[Count(e)] = scanned[e]

LEMMA ScanHolds == FixedInv => ScanFacts
<1> SUFFICES ASSUME FixedInv PROVE ScanFacts
  OBVIOUS
<1>1. Meant = JobsOf(spec)
  BY DEF Meant, MeantOf, JobsOf, FixedInv
<1>2. Enumerates(scanned, Meant)
  BY <1>1, ScanEnumeratesMeant DEF FixedInv, JobsOf
<1>3. /\ scanned \in Seq(Meant) /\ Len(scanned) \in Nat
      /\ \A i \in 1..Len(scanned) : scanned[i] \in Meant
      /\ Range(scanned) = Meant
  BY <1>2, EnumerationFacts
<1>4. \A j \in Meant : \E order \in Orders(spec) : made[j] = Made(spec, j, order)
  <2>1. PICK order \in [Meant -> Orders(spec)] :
          made = [j \in Meant |-> Made(spec, j, order[j])]
    BY <1>3 DEF FixedInv
  <2> QED
    BY <2>1
<1>5. /\ Kept \in Seq(Meant) /\ Len(Kept) \in Nat
      /\ \A i, k \in 1..Len(Kept) : Kept[i] = Kept[k] => i = k
      /\ Count(0) = 0 /\ Count(Len(scanned)) = Len(Kept)
      /\ \A e \in 1..Len(scanned) :
           IF made[scanned[e]].is = "error" THEN Count(e) = Count(e - 1)
           ELSE /\ Count(e) = Count(e - 1) + 1
                /\ Count(e) \in 1..Len(Kept) /\ Kept[Count(e)] = scanned[e]
  <2> DEFINE n == Len(scanned)
             P == Passing(scanned, made)
  <2>1. PassesOnce(Meant, scanned, made, P)
    BY <1>2, PassingFacts
  <2>2. Kept = P[n] /\ \A e : Count(e) = Len(P[e])
    BY DEF Kept, Count
  <2> HIDE DEF P
  <2> QED
    BY <2>1, <2>2 DEF PassesOnce
<1>6. \A i \in 1..Len(Kept) : Kept[i] \in Meant
  BY <1>5
<1> HIDE DEF Kept, Count
<1> QED
  BY <1>1, <1>2, <1>3, <1>4, <1>5, <1>6 DEF ScanFacts, Enumerates

\* What is made of the jobs of the benchmark.
MadeFacts ==
    \A j \in Meant :
      /\ made[j].is \in {"panic", "error", "object"}
      /\ made[j].is = "panic" => MayPanic(spec)
      /\ made[j].is = "object" =>
           /\ ~Selecting(spec) => made[j].tunedValue = DEFAULT
           /\ Labelling(spec) =>
                /\ made[j].tunedValue = IF IsDefault(j) THEN NULL_VALUE_STR
                                        ELSE j.label[PROFILE]
                /\ made[j].tunedValue # DEFAULT
                /\ made[j].asked = AskedFor(spec, j)
      /\ PROFILE \in DOMAIN j.label <=> Selecting(spec)

LEMMA MadeHolds == FixedInv => MadeFacts
<1> SUFFICES ASSUME FixedInv, NEW j \in Meant
             PROVE  /\ made[j].is \in {"panic", "error", "object"}
                    /\ made[j].is = "panic" => MayPanic(spec)
                    /\ made[j].is = "object" =>
                         /\ ~Selecting(spec) => made[j].tunedValue = DEFAULT
                         /\ Labelling(spec) =>
                              /\ made[j].tunedValue
                                   = IF IsDefault(j) THEN NULL_VALUE_STR
                                     ELSE j.label[PROFILE]
                              /\ made[j].tunedValue # DEFAULT
                              /\ made[j].asked = AskedFor(spec, j)
                    /\ PROFILE \in DOMAIN j.label <=> Selecting(spec)
  BY DEF MadeFacts
<1>1. ScanFacts /\ spec \in Specs
  BY ScanHolds DEF FixedInv
<1>2. PICK order \in Orders(spec) : made[j] = Made(spec, j, order)
  BY <1>1 DEF ScanFacts
<1>3. j \in JobsOf(spec)
  BY <1>1 DEF ScanFacts
<1>4. PROFILE \in DOMAIN j.label <=> Selecting(spec)
  BY <1>1, <1>3, JobFacts
<1>5. made[j].is \in {"panic", "error", "object"}
  BY <1>2, MadeIs
<1>6. CASE j.label \in spec.fails
  <2>1. made[j].is # "object"
    BY <1>2, <1>6, MadeFails
  <2>2. made[j].is = "panic" => j.label = IterationLabels(spec)[1]
    BY <1>2, <1>6, MadeFails
  <2> QED
    BY <1>4, <1>5, <1>6, <2>1, <2>2 DEF MayPanic
<1>7. CASE ~Selecting(spec) /\ j.label \notin spec.fails
  <2>1. made[j].is = "object" /\ made[j].tunedValue = DEFAULT
    BY <1>1, <1>2, <1>7, MadePlain
  <2> QED
    BY <1>4, <1>7, <2>1 DEF Labelling
<1>8. CASE Selecting(spec) /\ ~Dotted(spec)
  BY <1>4, <1>5, <1>8 DEF MayPanic, Labelling
<1>9. CASE Labelling(spec) /\ j.label \notin spec.fails
  <2>1. Selecting(spec) /\ Dotted(spec)
    BY <1>9 DEF Labelling
  <2>2. CASE j.label \in spec.undecoded
    <3>1. \/ made[j].is = "panic"
          \/ /\ made[j].is = "object" /\ made[j].tunedValue = NULL_VALUE_STR
             /\ j.label[PROFILE] = DEFAULT /\ made[j].asked = AskedFor(spec, j)
      BY <1>1, <1>2, <1>3, <1>9, <2>1, <2>2, MadeOfNothing
    <3>2. MayPanic(spec)
      BY <2>1, <2>2 DEF MayPanic
    <3>3. NULL_VALUE_STR # DEFAULT
      BY DEF NULL_VALUE_STR, DEFAULT
    <3> QED
      BY <1>4, <1>5, <2>1, <3>1, <3>2, <3>3 DEF IsDefault
  <2>3. CASE j.label \notin spec.undecoded
    <3>1. /\ made[j].is = "object"
          /\ made[j].tunedValue = IF j.label[PROFILE] = DEFAULT
                                  THEN NULL_VALUE_STR ELSE j.label[PROFILE]
          /\ made[j].asked = AskedFor(spec, j)
      BY <1>1, <1>2, <1>3, <1>9, <2>1, <2>3, MadeSelecting
    <3>2. NULL_VALUE_STR # DEFAULT
      BY DEF NULL_VALUE_STR, DEFAULT
    <3> QED
      BY <1>4, <2>1, <3>1, <3>2 DEF IsDefault
  <2> QED
    BY <2>2, <2>3
<1> QED
  BY <1>6, <1>7, <1>8, <1>9 DEF Labelling

-----------------------------------------------------------------------------
(***************************************************************************)
(* What the actions have in common.                                        *)
(***************************************************************************)
LEMMA FixedKept ==
    ASSUME FixedInv, UNCHANGED fixed
    PROVE  /\ FixedInv' /\ Meant' = Meant
           /\ \A k : Until(k)' = Until(k) /\ After(k)' = After(k)
           /\ \A k, d : Between(k, d)' = Between(k, d)
           /\ \A e : Count(e)' = Count(e) /\ Rest(e)' = Rest(e)
           /\ spec' = spec /\ scanned' = scanned /\ made' = made
           /\ Kept' = Kept
<1>1. spec' = spec /\ scanned' = scanned /\ made' = made
  BY DEF fixed
<1>2. FixedInv'
  BY <1>1 DEF FixedInv
<1>3. Meant' = Meant
  BY <1>1 DEF Meant
<1>4. /\ Kept' = Kept
      /\ \A e : Count(e)' = Count(e) /\ Rest(e)' = Rest(e)
  BY <1>1 DEF Kept, Count, Rest
<1>5. \A k : Until(k)' = Until(k) /\ After(k)' = After(k)
  BY <1>4 DEF Until, After
<1>6. \A k, d : Between(k, d)' = Between(k, d)
  BY <1>4 DEF Between
<1> QED
  BY <1>1, <1>2, <1>3, <1>4, <1>5, <1>6

\* What is left of the scan stays with the goroutine.
LEMMA LeftKept ==
    ASSUME FixedInv, UNCHANGED fixed, NEW d, Left(d), op'.todo = op.todo
    PROVE  Left(d)'
<1>1. PICK e \in 0..Len(scanned) : Count(e) = d /\ op.todo = Rest(e)
  BY DEF Left
<1>2. scanned' = scanned /\ Count(e)' = Count(e) /\ Rest(e)' = Rest(e)
  BY FixedKept
<1>3. e \in 0..Len(scanned')
  BY <1>2
<1> QED
  BY <1>1, <1>2, <1>3 DEF Left

LEMMA EndedKept ==
    ASSUME UNCHANGED fixed, NEW m,
           \A i \in 1..m : jobs'[Kept[i]] = jobs[Kept[i]]
    PROVE  EndedUntil(m)' <=> EndedUntil(m)
<1>1. spec' = spec /\ Kept' = Kept
  BY DEF fixed, Kept
<1>2. \A j : jobs'[j] = jobs[j] => (Done(j)' <=> Done(j))
  BY <1>1 DEF Done
<1> QED
  BY <1>1, <1>2 DEF EndedUntil

\* Results stay what they are as long as the jobs that ended stay.
LEMMA ResultsKept ==
    ASSUME UNCHANGED fixed, ResultInv, UNCHANGED results,
           \A j \in DOMAIN jobs :
             j \in DOMAIN jobs' /\ (Done(j) => jobs'[j] = jobs[j])
    PROVE  ResultInv'
<1>1. spec' = spec
  BY DEF fixed
<1>2. \A j : FiledAs(j)' = FiledAs(j)
  BY <1>1 DEF FiledAs
<1>3. \A j : Done(j) /\ jobs'[j] = jobs[j] => Done(j)'
  BY <1>1 DEF Done
<1> QED
  BY <1>2, <1>3 DEF ResultInv

LEMMA JobsKept ==
    ASSUME UNCHANGED fixed, UNCHANGED jobs
    PROVE  /\ \A m : EndedUntil(m)' <=> EndedUntil(m)
           /\ ResultInv /\ UNCHANGED results => ResultInv'
           /\ JobInv /\ UNCHANGED pods => JobInv'
<1>1. \A m : EndedUntil(m)' <=> EndedUntil(m)
  BY EndedKept
<1>2. ResultInv /\ UNCHANGED results => ResultInv'
  BY ResultsKept
<1>3. JobInv /\ UNCHANGED pods => JobInv'
  BY DEF JobInv
<1> QED
  BY <1>1, <1>2, <1>3

LEMMA ListedKept ==
    ASSUME UNCHANGED <<fixed, hashes>>
    PROVE  \A m : ListedUntil(m)' <=> ListedUntil(m)
<1>1. Kept' = Kept /\ hashes' = hashes /\ made' = made
  BY DEF fixed, Kept
<1> QED
  BY <1>1 DEF ListedUntil

\* The goroutine has gone on while the jobs stay.
LEMMA ChainKept ==
    ASSUME FixedInv, UNCHANGED <<fixed, jobs>>,
           NEW k \in 0..Len(Kept), NEW d \in 0..Len(Kept),
           ChainAt(k, d), NEW e \in 0..Len(Kept),
           Left(e)', op'.pc # "idle" => ListedUntil(e)', Stage(k, e)'
    PROVE  Chain'
<1>1. /\ Kept' = Kept
      /\ \A m : Until(m)' = Until(m) /\ After(m)' = After(m)
  BY FixedKept
<1>2. \A m : EndedUntil(m)' <=> EndedUntil(m)
  BY JobsKept
<1>3. DOMAIN jobs' = Until(k) /\ EndedUntil(k - 1)'
  BY <1>2 DEF ChainAt
<1>4. ChainAt(k, e)'
  BY <1>1, <1>3 DEF ChainAt
<1> QED
  BY <1>1, <1>4 DEF Chain

\* The rest of a sequence.
LEMMA SuffixFacts ==
    ASSUME NEW T, NEW s \in Seq(T), NEW k \in 0..Len(s)
    PROVE  /\ SubSeq(s, k + 1, Len(s)) \in Seq(T)
           /\ SubSeq(s, k + 1, Len(s)) = <<>> <=> k = Len(s)
           /\ k < Len(s) =>
                /\ Head(SubSeq(s, k + 1, Len(s))) = s[k + 1]
                /\ Tail(SubSeq(s, k + 1, Len(s)))
                     = SubSeq(s, (k + 1) + 1, Len(s))
           /\ SubSeq(s, 0 + 1, Len(s)) = s
<1> PICK n \in Nat : n = Len(s)
  OBVIOUS
<1> DEFINE r == SubSeq(s, k + 1, n)
<1>1. /\ \A i \in 1..n : s[i] \in T
      /\ k \in 0..n
  OBVIOUS
<1>2. r \in Seq(T)
  BY <1>1
<1>3. r = <<>> <=> k = n
  <2>1. Len(r) = n - k
    BY <1>1
  <2>2. r = <<>> <=> Len(r) = 0
    BY <1>2
  <2> QED
    BY <1>1, <2>1, <2>2
<1>4. ASSUME k < n
      PROVE  Head(r) = s[k + 1] /\ Tail(r) = SubSeq(s, (k + 1) + 1, n)
  <2>1. Len(r) = n - k
    BY <1>1, <1>4
  <2>2. Head(r) = s[k + 1]
    BY <1>1, <1>4
  <2>3. Tail(r) = SubSeq(s, (k + 1) + 1, n)
    BY <1>1, <1>4
  <2> QED
    BY <2>2, <2>3
<1>5. SubSeq(s, 0 + 1, n) = s
  BY <1>1
<1> QED
  BY <1>2, <1>3, <1>4, <1>5

\* Sequences of what is left of the scan, and of the jobs that it keeps.
LEMMA RestFacts ==
    ASSUME ScanFacts, NEW e \in 0..Len(scanned)
    PROVE  /\ Rest(e) \in Seq(Meant) /\ (Rest(e) = <<>> <=> e = Len(scanned))
           /\ e < Len(scanned) => /\ Head(Rest(e)) = scanned[e + 1]
                                  /\ Tail(Rest(e)) = Rest(e + 1)
           /\ Rest(0) = scanned
BY SuffixFacts DEF ScanFacts, Rest

LEMMA AfterFacts ==
    ASSUME ScanFacts, NEW k \in 0..Len(Kept)
    PROVE  /\ After(k) \in Seq(Meant) /\ Between(k, k) = <<>>
           /\ After(k) = <<>> <=> k = Len(Kept)
           /\ k < Len(Kept) => /\ Head(After(k)) = Kept[k + 1]
                               /\ Tail(After(k)) = After(k + 1)
           /\ After(k) = Between(k, Len(Kept))
<1>1. /\ After(k) \in Seq(Meant) /\ (After(k) = <<>> <=> k = Len(Kept))
      /\ k < Len(Kept) => /\ Head(After(k)) = Kept[k + 1]
                          /\ Tail(After(k)) = After(k + 1)
  BY SuffixFacts DEF ScanFacts, After
<1>2. k \in Nat /\ Kept \in Seq(Meant)
  BY DEF ScanFacts
<1>3. Between(k, k) = <<>>
  <2> HIDE DEF Kept
  <2> QED
    BY <1>2 DEF Between
<1> QED
  BY <1>1, <1>3 DEF After, Between

LEMMA BetweenFacts ==
    ASSUME ScanFacts, NEW k \in 0..Len(Kept), NEW d \in 0..Len(Kept),
           k <= d, d < Len(Kept)
    PROVE  Between(k, d + 1) = Append(Between(k, d), Kept[d + 1])
<1> DEFINE n == Len(Kept)
<1>1. Kept \in Seq(Meant) /\ n \in Nat
  BY DEF ScanFacts
<1>2. /\ Between(k, d) = SubSeq(Kept, k + 1, d)
      /\ Between(k, d + 1) = SubSeq(Kept, k + 1, d + 1)
  BY DEF Between
<1>3. k \in Nat /\ d \in Nat /\ k <= d /\ d < n
  BY <1>1
<1> HIDE DEF n
<1>4. \A i \in 1..n : Kept[i] \in Meant
  BY <1>1 DEF n
<1> DEFINE a == SubSeq(Kept, k + 1, d + 1)
           b == Append(SubSeq(Kept, k + 1, d), Kept[d + 1])
<1>5. /\ a \in Seq(Meant) /\ Len(a) = d + 1 - k
      /\ \A i \in 1..(d + 1 - k) : a[i] = Kept[k + i]
  BY <1>1, <1>3, <1>4
<1>6. /\ b \in Seq(Meant) /\ Len(b) = d + 1 - k
      /\ \A i \in 1..(d + 1 - k) : b[i] = Kept[k + i]
  BY <1>1, <1>3, <1>4
<1> HIDE DEF a, b
<1>7. a = b
  BY <1>3, <1>5, <1>6, SeqEqual
<1> QED
  BY <1>2, <1>7 DEF a, b

\* When the first k jobs exist.
LEMMA UntilFacts ==
    ASSUME ScanFacts, NEW k \in 0..Len(Kept), DOMAIN jobs = Until(k)
    PROVE  /\ \A i \in 1..Len(Kept) : Kept[i] \in DOMAIN jobs <=> i <= k
           /\ \A j \in DOMAIN jobs : \E i \in 1..k : j = Kept[i]
           /\ DOMAIN jobs \subseteq Meant
           /\ EndedUntil(k) => \A j \in DOMAIN jobs : Done(j)
<1>1. \A j \in DOMAIN jobs : \E i \in 1..k : j = Kept[i]
  BY DEF Until
<1>2. \A i \in 1..k : i \in 1..Len(Kept) /\ i <= k
  BY DEF ScanFacts
<1>3. \A i \in 1..k : Kept[i] \in DOMAIN jobs
  BY DEF Until
<1>4. \A i, m \in 1..Len(Kept) : Kept[i] = Kept[m] => i = m
  BY DEF ScanFacts
<1>5. ASSUME NEW i \in 1..Len(Kept)
      PROVE  Kept[i] \in DOMAIN jobs <=> i <= k
  <2>1. ASSUME i <= k PROVE Kept[i] \in DOMAIN jobs
    <3>1. i \in 1..k
      BY <2>1
    <3> QED
      BY <1>3, <3>1
  <2>2. ASSUME Kept[i] \in DOMAIN jobs PROVE i <= k
    <3>1. PICK m \in 1..k : Kept[i] = Kept[m]
      BY <1>1, <2>2
    <3> QED
      BY <1>2, <1>4, <3>1
  <2> QED
    BY <2>1, <2>2
<1>6. DOMAIN jobs \subseteq Meant
  BY <1>1, <1>2 DEF ScanFacts
<1>7. EndedUntil(k) => \A j \in DOMAIN jobs : Done(j)
  BY <1>1 DEF EndedUntil
<1> QED
  BY <1>1, <1>5, <1>6, <1>7

\* A job that has not been seen to end is the last of the first k.
LEMMA LastUnended ==
    ASSUME ScanFacts, NEW k \in 0..Len(Kept), DOMAIN jobs = Until(k),
           EndedUntil(k - 1), NEW j \in DOMAIN jobs, ~Done(j)
    PROVE  /\ k \in 1..Len(Kept) /\ j = Kept[k] /\ ~EndedUntil(k)
           /\ \A i \in 1..(k - 1) : Kept[i] # j
<1>1. PICK i \in 1..k : j = Kept[i]
  BY UntilFacts
<1>2. ~(i \in 1..(k - 1))
  BY <1>1 DEF EndedUntil
<1>3. i = k /\ k \in 1..k /\ k \in 1..Len(Kept)
  BY <1>2 DEF ScanFacts
<1>4. ~EndedUntil(k)
  BY <1>1, <1>3 DEF EndedUntil
<1>5. \A m \in 1..(k - 1) : m \in 1..Len(Kept) /\ m # k
  BY DEF ScanFacts
<1>6. \A m \in 1..(k - 1) : Kept[m] # j
  BY <1>1, <1>3, <1>5 DEF ScanFacts
<1> QED
  BY <1>1, <1>3, <1>4, <1>6

LEMMA OpsKept ==
    ASSUME FixedInv, UNCHANGED fixed PROVE Ops' = Ops
<1>1. Meant' = Meant
  BY FixedKept
<1> QED
  BY <1>1 DEF Ops

LEMMA IdleFacts ==
    /\ Idle \in Ops
    /\ Idle.pc = "idle" /\ ~Idle.subscribed /\ Idle.todo = <<>> /\ ~Idle.isNew
    /\ Idle.job = None
BY DEF Idle, Ops, PCs

LEMMA NothingYet ==
    ASSUME ScanFacts
    PROVE  /\ Until(0) = {} /\ EndedUntil(0) /\ EndedUntil(0 - 1)
           /\ After(Len(Kept)) = <<>> /\ Rest(Len(scanned)) = <<>>
<1>1. 1..0 = {} /\ 1..(0 - 1) = {}
  OBVIOUS
<1>2. Len(Kept) \in 0..Len(Kept) /\ Len(scanned) \in 0..Len(scanned)
  BY DEF ScanFacts
<1> QED
  BY <1>1, <1>2, AfterFacts, RestFacts DEF Until, EndedUntil

\* When nothing is left of the scan it has gone through all that it keeps.
LEMMA NothingLeft ==
    ASSUME ScanFacts
    PROVE  /\ \A d : Left(d) /\ op.todo = <<>> => d = Len(Kept)
           /\ op.todo = <<>> => Left(Len(Kept))
<1>1. ASSUME NEW d, Left(d), op.todo = <<>> PROVE d = Len(Kept)
  <2>1. PICK e \in 0..Len(scanned) : Count(e) = d /\ op.todo = Rest(e)
    BY <1>1 DEF Left
  <2>2. e = Len(scanned)
    BY <1>1, <2>1, RestFacts
  <2> QED
    BY <2>1, <2>2 DEF ScanFacts
<1>2. ASSUME op.todo = <<>> PROVE Left(Len(Kept))
  <2>1. Len(scanned) \in 0..Len(scanned)
    BY DEF ScanFacts
  <2>2. Count(Len(scanned)) = Len(Kept) /\ Rest(Len(scanned)) = <<>>
    BY NothingYet DEF ScanFacts
  <2> QED
    BY <1>2, <2>1, <2>2 DEF Left
<1> QED
  BY <1>1, <1>2

LEMMA InitIInv == Init => IInv
<1> SUFFICES ASSUME Init PROVE IInv
  OBVIOUS
<1> USE DEF Init
<1>1. FixedInv
  BY Zenon DEF FixedInv
<1>2. ScanFacts
  BY <1>1, ScanHolds
<1>3. RoleInv
  <2>1. op \in Ops
    BY IdleFacts
  <2>2. restarts \in 0..MaxRestarts
    BY BoundAssumption
  <2>3. DOMAIN profile = Nodes
    OBVIOUS
  <2> QED
    BY <2>1, <2>2, <2>3 DEF RoleInv, Mishaps
<1>4. DOMAIN jobs = {}
  OBVIOUS
<1>5. Chain
  <2> DEFINE n == Len(Kept)
  <2>1. n \in 0..n /\ 0 \in 0..n
    BY <1>2 DEF ScanFacts
  <2>2. DOMAIN jobs = Until(0) /\ EndedUntil(0 - 1) /\ Left(n)
    BY <1>2, <1>4, NothingYet, NothingLeft, IdleFacts
  <2>3. AtRest
    BY IdleFacts DEF AtRest
  <2>4. ChainAt(0, n)
    BY <2>2, <2>3, IdleFacts DEF ChainAt, Stage
  <2> QED
    BY <2>1, <2>4 DEF Chain
<1>6. JobInv
  BY <1>4 DEF JobInv
<1>7. HashInv
  BY <1>4, IdleFacts DEF HashInv
<1>8. ResultInv
  BY DEF ResultInv
<1>9. ProfileInv
  BY <1>4, IdleFacts DEF ProfileInv
<1> QED
  BY <1>1, <1>3, <1>5, <1>6, <1>7, <1>8, <1>9 DEF IInv

LEMMA HashKept ==
    ASSUME FixedInv, HashInv, UNCHANGED <<fixed, hashes, jobs>>
    PROVE  HashInv'
<1>1. Meant' = Meant /\ made' = made
  BY FixedKept
<1> QED
  BY <1>1 DEF HashInv

LEMMA RunsRightKept ==
    ASSUME UNCHANGED <<fixed, profile>>, mishaps \subseteq mishaps',
           NEW j, jobs'[j] = jobs[j], RunsRight(j)
    PROVE  RunsRight(j)'
<1>1. spec' = spec
  BY DEF fixed
<1>2. getNodeList(spec)' = getNodeList(spec)
  BY <1>1 DEF getNodeList
<1> QED
  BY <1>1, <1>2 DEF RunsRight, IsDefault

\* Nothing of the cluster has changed, and no label is being put on.
LEMMA ProfileKept ==
    ASSUME UNCHANGED <<fixed, profile, jobs>>, mishaps \subseteq mishaps',
           ProfileInv, op'.pc \notin {"apply", "create", "unlabel"}
    PROVE  ProfileInv'
<1>1. spec' = spec
  BY DEF fixed
<1>2. Labelling(spec) => \A j \in DOMAIN jobs : RunsRight(j)'
  BY RunsRightKept DEF ProfileInv
<1>3. Labelling(spec)' <=> Labelling(spec)
  BY <1>1 DEF Labelling, Dotted, Selecting, Selection
<1> QED
  BY <1>1, <1>2, <1>3 DEF ProfileInv

LEMMA StageKept ==
    ASSUME FixedInv, Chain,
           UNCHANGED <<fixed, hashes, jobs, op, waiting, completions>>
    PROVE  Chain'
<1>1. PICK k, d \in 0..Len(Kept) : ChainAt(k, d)
  BY DEF Chain
<1>2. /\ Kept' = Kept
      /\ \A m : Until(m)' = Until(m) /\ After(m)' = After(m)
      /\ \A m, e : Between(m, e)' = Between(m, e)
  BY FixedKept
<1>3. /\ \A m : (EndedUntil(m)' <=> EndedUntil(m))
                /\ (ListedUntil(m)' <=> ListedUntil(m))
      /\ Left(d)'
  BY <1>1, JobsKept, ListedKept, LeftKept DEF ChainAt
<1>4. Stage(k, d)'
  BY <1>1, <1>2, <1>3 DEF ChainAt, Stage, AtRest, ScansWhatEnded,
     ScansWhatWaits, CreatesFirst, Watches, WorksOff, CreatesNext, Refused
<1>5. op' = op /\ DOMAIN jobs' = DOMAIN jobs
  OBVIOUS
<1>6. ChainAt(k, d)'
  BY <1>1, <1>2, <1>3, <1>4, <1>5 DEF ChainAt
<1> QED
  BY <1>2, <1>6 DEF Chain

\* Nothing is scanned only if there is no combination at all.
LEMMA NoneScanned ==
    ASSUME FixedInv, scanned = <<>>
    PROVE  MayPanic(spec)
<1>1. spec \in Specs /\ Meant = JobsOf(spec) /\ Range(scanned) = Meant
  BY ScanHolds DEF FixedInv, ScanFacts
<1>2. JobsOf(spec) = {}
  BY <1>1 DEF Range
<1>3. JobsOf(spec) = [label : LabelsOf(spec), build : BuildSet(spec),
                      repetition : Rounds(spec)]
  BY <1>1, JobsMeantByPart
<1>4. BuildSet(spec) # {}
  <2>1. TrackedBuilds[spec] \in Seq(STRING)
    BY <1>1, SpecsAssumption
  <2>2. TrackedBuilds[spec] # <<>> => Range(TrackedBuilds[spec]) # {}
    BY <2>1 DEF Range
  <2> QED
    BY <2>2 DEF BuildSet
<1>5. 0 \in Rounds(spec)
  BY DEF Rounds
<1>6. LabelsOf(spec) = {}
  <2> SUFFICES ASSUME NEW f \in LabelsOf(spec) PROVE FALSE
    OBVIOUS
  <2>1. PICK b \in BuildSet(spec) : TRUE
    BY <1>4
  <2>2. [label |-> f, build |-> b, repetition |-> 0] \in JobsOf(spec)
    BY <1>3, <1>5
  <2> QED
    BY <1>2, <2>2
<1>7. IterationLabels(spec) = <<>>
  <2>1. Enumerates(IterationLabels(spec), {})
    BY <1>1, <1>6, LabelsEnumerated
  <2>2. /\ IterationLabels(spec) \in Seq({})
        /\ \A i \in 1..Len(IterationLabels(spec)) : IterationLabels(spec)[i] \in {}
    BY <2>1, EnumerationFacts
  <2> QED
    BY <2>2
<1> QED
  BY <1>7 DEF MayPanic

LEMMA ScanStartKeeps ==
    ASSUME IInv, ScanStart PROVE IInv'
<1> DEFINE n == Len(Kept)
<1>1. /\ FixedInv /\ RoleInv /\ Chain /\ JobInv /\ HashInv /\ ResultInv
      /\ ProfileInv
  BY DEF IInv
<1>2. /\ UNCHANGED fixed /\ UNCHANGED <<hashes, results>>
      /\ UNCHANGED <<jobs, pods, profile>>
      /\ UNCHANGED <<waiting, completions, restarts, mishaps>>
  BY DEF ScanStart, status, cluster
<1>3. ScanFacts /\ FixedInv' /\ Ops' = Ops /\ Kept' = Kept
  BY <1>1, <1>2, ScanHolds, FixedKept, OpsKept
<1>4. JobInv' /\ ResultInv'
  BY <1>1, <1>2, JobsKept
<1>5. op.pc = "idle"
  BY DEF ScanStart
<1>6. CASE scanned = <<>>
  <2>1. panicked' = TRUE /\ op' = op
    BY <1>6 DEF ScanStart
  <2>2. Chain'
    BY <1>1, <1>2, <2>1, StageKept
  <2>3. HashInv' /\ ProfileInv'
    BY <1>1, <1>2, <1>5, <2>1, HashKept, ProfileKept
  <2>4. RoleInv'
    BY <1>1, <1>2, <1>3, <1>6, <2>1, NoneScanned, FixedKept DEF RoleInv
  <2> QED
    BY <1>3, <1>4, <2>2, <2>3, <2>4 DEF IInv
<1>7. CASE scanned # <<>>
  <2>1. /\ op' = [Idle EXCEPT !.pc = "scan", !.todo = scanned]
        /\ panicked' = panicked
    BY <1>7 DEF ScanStart
  <2>2. /\ op' \in Ops /\ op'.pc = "scan" /\ ~op'.subscribed /\ ~op'.isNew
        /\ op'.todo = scanned
    BY <1>3, <2>1 DEF Idle, Ops, PCs, ScanFacts
  <2>3. PICK k, d \in 0..n : ChainAt(k, d)
    BY <1>1 DEF Chain
  <2>4. waiting = <<>> /\ completions = <<>>
    BY <1>5, <2>3 DEF ChainAt, Stage, AtRest, ScansWhatEnded,
     ScansWhatWaits, CreatesFirst, Watches, WorksOff, CreatesNext, Refused
  <2>5. 0 \in 0..n /\ 0 <= k /\ Left(0)'
    <3>1. 0 \in 0..n /\ 0 <= k /\ 0 \in 0..Len(scanned)
      BY <1>3, <2>3 DEF ScanFacts
    <3>2. Count(0) = 0 /\ Rest(0) = scanned
      BY <1>3, <3>1, RestFacts DEF ScanFacts
    <3>3. Count(0)' = 0 /\ op'.todo = Rest(0)' /\ scanned' = scanned
      BY <1>1, <1>2, <2>2, <3>2, FixedKept
    <3> QED
      BY <3>1, <3>3 DEF Left
  <2>6. EndedUntil(0)'
    BY <1>2, <1>3, NothingYet, JobsKept
  <2>7. Stage(k, 0)'
    BY <1>2, <2>2, <2>4, <2>5, <2>6 DEF Stage, ScansWhatEnded
  <2>8. Chain'
    <3>1. ListedUntil(0)'
      BY DEF ListedUntil
    <3> QED
      BY <1>1, <1>2, <2>3, <2>5, <2>7, <3>1, ChainKept
  <2>9. HashInv' /\ ProfileInv'
    BY <1>1, <1>2, <2>2, HashKept, ProfileKept
  <2>10. RoleInv'
    BY <1>1, <1>2, <1>3, <2>1, <2>2, FixedKept DEF RoleInv
  <2> QED
    BY <1>3, <1>4, <2>8, <2>9, <2>10 DEF IInv
<1> QED
  BY <1>6, <1>7

LEMMA NewTrackerKeeps ==
    ASSUME IInv, NewTracker PROVE IInv'
<1> DEFINE n == Len(Kept)
<1>1. /\ FixedInv /\ RoleInv /\ Chain /\ JobInv /\ HashInv /\ ResultInv
      /\ ProfileInv
  BY DEF IInv
<1>2. /\ UNCHANGED fixed /\ UNCHANGED <<hashes, results>>
      /\ UNCHANGED <<jobs, pods, profile>>
      /\ UNCHANGED <<waiting, completions, restarts, mishaps, panicked>>
  BY DEF NewTracker, status, cluster
<1>3. ScanFacts /\ FixedInv' /\ Ops' = Ops /\ Kept' = Kept
  BY <1>1, <1>2, ScanHolds, FixedKept, OpsKept
<1>4. JobInv' /\ ResultInv'
  BY <1>1, <1>2, JobsKept
<1>5. op.pc = "scan" /\ op.todo = <<>>
      /\ op' = [Idle EXCEPT !.pc = "watch", !.subscribed = TRUE]
  BY DEF NewTracker
<1>6. op' \in Ops /\ op'.pc = "watch" /\ op'.subscribed /\ op'.todo = <<>>
  <2>1. op' = [pc |-> "watch", subscribed |-> TRUE, todo |-> <<>>,
               isNew |-> FALSE, job |-> None, nodes |-> {}]
    BY <1>5 DEF Idle
  <2> QED
    BY <2>1 DEF Ops, PCs
<1>7. PICK k, d \in 0..n : ChainAt(k, d)
  BY <1>1 DEF Chain
<1>8. d = n
  BY <1>3, <1>5, <1>7, NothingLeft DEF ChainAt
<1>9. \/ waiting = After(k) /\ completions = <<>>
      \/ Refused(k, d)
  <2>1. CASE ScansWhatEnded(k, d)
    <3>1. k = n
      BY <1>3, <1>7, <1>8, <2>1 DEF ScansWhatEnded, ScanFacts
    <3> QED
      BY <1>3, <2>1, <3>1, AfterFacts DEF ScansWhatEnded
  <2>2. CASE ScansWhatWaits(k, d)
    <3>1. waiting = Between(k, n) /\ completions = <<>>
      BY <1>8, <2>2 DEF ScansWhatWaits
    <3> QED
      BY <1>3, <1>7, <3>1, AfterFacts
  <2> QED
    BY <1>5, <1>7, <2>1, <2>2 DEF ChainAt, Stage, AtRest, CreatesFirst,
       Watches, WorksOff, CreatesNext, Refused
<1>10. Stage(k, d)'
  <2>1. /\ After(k)' = After(k) /\ Between(k + 1, d)' = Between(k + 1, d)
        /\ EndedUntil(k)' <=> EndedUntil(k)
    BY <1>1, <1>2, FixedKept, JobsKept
  <2>2. CASE waiting = After(k) /\ completions = <<>>
    BY <1>2, <1>3, <1>6, <1>8, <2>1, <2>2 DEF Stage, Watches
  <2>3. CASE Refused(k, d)
    <3>1. Refused(k, d)'
      BY <1>2, <1>6, <2>1, <2>3 DEF Refused
    <3> QED
      BY <3>1 DEF Stage
  <2> QED
    BY <1>9, <2>2, <2>3
<1>11. Left(d)'
  <2>1. op'.todo = op.todo
    BY <1>5, <1>6
  <2> QED
    BY <1>1, <1>2, <1>7, <2>1, LeftKept DEF ChainAt
<1>12. Chain'
  <2>1. ListedUntil(d)'
    BY <1>2, <1>5, <1>7, ListedKept DEF ChainAt
  <2> QED
    BY <1>1, <1>2, <1>7, <1>8, <1>10, <1>11, <2>1, ChainKept
<1>13. HashInv' /\ ProfileInv'
  BY <1>1, <1>2, <1>6, HashKept, ProfileKept
<1>14. RoleInv'
  BY <1>1, <1>2, <1>3, <1>6, FixedKept DEF RoleInv
<1> QED
  BY <1>3, <1>4, <1>12, <1>13, <1>14 DEF IInv

-----------------------------------------------------------------------------
(***************************************************************************)
(* The hashes listed, and what a job's hash is turned back into.           *)
(***************************************************************************)
LEMMA NamesOfBoth ==
    ASSUME NEW S, NEW s \in Seq(S), NEW t \in Seq(S)
    PROVE  ItemNames(s \o t) = ItemNames(s) \cup ItemNames(t)
<1> DEFINE u == s \o t
<1>1. /\ Len(s) \in Nat /\ Len(t) \in Nat /\ Len(u) = Len(s) + Len(t)
      /\ \A i \in 1..Len(s) : u[i] = s[i]
      /\ \A i \in 1..Len(t) : u[Len(s) + i] = t[i]
  OBVIOUS
<1>2. ASSUME NEW i \in 1..Len(u)
      PROVE  \/ i \in 1..Len(s) /\ u[i] = s[i]
             \/ i - Len(s) \in 1..Len(t) /\ u[i] = t[i - Len(s)]
  BY <1>1
<1> HIDE DEF u
<1>3. \A i \in 1..Len(s) : i \in 1..Len(u)
  BY <1>1
<1>4. \A i \in 1..Len(t) : Len(s) + i \in 1..Len(u)
  BY <1>1
<1>5. ItemNames(u) \subseteq ItemNames(s) \cup ItemNames(t)
  BY <1>2 DEF ItemNames
<1>6. ItemNames(s) \subseteq ItemNames(u) /\ ItemNames(t) \subseteq ItemNames(u)
  BY <1>1, <1>3, <1>4 DEF ItemNames
<1> QED
  BY <1>5, <1>6 DEF u

\* Whether the node selection counts as a configuration or comes after it.
LEMMA CombinedNames ==
    ASSUME NEW s \in Specs
    PROVE  ItemNames(GetCombinedIterations(s))
             = ItemNames(s.iteration)
                 \cup ItemNames(s.configuration \o NodeSelectionItems(s))
<1> DEFINE I == [name : STRING, values : Seq(STRING)]
           size == Len(s.nodeSelection)
           sel == NodeSelectionItems(s)
           item(i) == [name |-> PROFILE,
                       values |-> s.nodeSelection[i].tunedValues]
           S == I \cup {item(i) : i \in 1..size}
<1>1. /\ s.iteration \in Seq(I) /\ s.configuration \in Seq(I)
      /\ size \in {0, 1}
  BY SpecsAssumption
<1>2. sel = [i \in 1..size |-> item(i)]
  BY DEF NodeSelectionItems
<1>3. I \subseteq S /\ \A i \in 1..size : item(i) \in S
  OBVIOUS
<1> HIDE DEF I, S, sel, item, size
<1>4. s.iteration \in Seq(S) /\ s.configuration \in Seq(S) /\ sel \in Seq(S)
  BY <1>1, <1>2, <1>3
<1>5. /\ s.iteration \o s.configuration \in Seq(S)
      /\ GetCombinedIterations(s) = (s.iteration \o s.configuration) \o sel
  BY <1>4 DEF GetCombinedIterations, sel
<1>6. /\ ItemNames(s.iteration \o s.configuration)
           = ItemNames(s.iteration) \cup ItemNames(s.configuration)
      /\ ItemNames(s.configuration \o sel)
           = ItemNames(s.configuration) \cup ItemNames(sel)
  BY <1>4, NamesOfBoth
<1>7. ItemNames((s.iteration \o s.configuration) \o sel)
        = ItemNames(s.iteration \o s.configuration) \cup ItemNames(sel)
  <2> DEFINE own == s.iteration \o s.configuration
  <2>1. own \in Seq(S)
    BY <1>5
  <2> HIDE DEF own
  <2>2. ItemNames(own \o sel) = ItemNames(own) \cup ItemNames(sel)
    BY <1>4, <2>1, NamesOfBoth
  <2> QED
    BY <2>2 DEF own
<1> QED
  BY <1>5, <1>6, <1>7 DEF sel

LEMMA PatchFacts ==
    ASSUME hashes \in Seq({HashItem(j) : j \in Meant}), NEW job \in Meant,
           PatchHash(job)
    PROVE  /\ hashes' \in Seq({HashItem(j) : j \in Meant})
           /\ EntriesOf(hashes', job) # {}
           /\ \A j : EntriesOf(hashes, j) # {} => EntriesOf(hashes', j) # {}
<1> DEFINE H == {HashItem(j) : j \in Meant}
           h == HashItem(job)
<1>1. h \in H /\ h.hash = job
  BY DEF HashItem
<1>2. CASE \E i \in 1..Len(hashes) : hashes[i].hash = job
  BY <1>2 DEF PatchHash, EntriesOf
<1>3. CASE ~\E i \in 1..Len(hashes) : hashes[i].hash = job
  <2>1. hashes' = Append(hashes, h)
    BY <1>3 DEF PatchHash
  <2> HIDE DEF H, h
  <2>2. hashes \in Seq(H)
    BY DEF H
  <2>3. /\ hashes' \in Seq(H) /\ Len(hashes) \in Nat
        /\ Len(hashes') = Len(hashes) + 1 /\ hashes'[Len(hashes) + 1] = h
        /\ \A i \in 1..Len(hashes) : hashes'[i] = hashes[i]
    BY <1>1, <2>1, <2>2
  <2>4. /\ Len(hashes) + 1 \in 1..Len(hashes')
        /\ \A i \in 1..Len(hashes) : i \in 1..Len(hashes')
    BY <2>3
  <2>5. EntriesOf(hashes', job) # {}
    BY <1>1, <2>3, <2>4 DEF EntriesOf
  <2>6. \A j : EntriesOf(hashes, j) # {} => EntriesOf(hashes', j) # {}
    BY <2>3, <2>4 DEF EntriesOf
  <2> QED
    BY <2>3, <2>5, <2>6 DEF H
<1> QED
  BY <1>2, <1>3

\* The detail that GetDetailFromJobName finds for a job whose hash is listed
\* is the job's own, its values split as the benchmark's items are.
LEMMA DetailIsOwn ==
    ASSUME FixedInv, hashes \in Seq({HashItem(j) : j \in Meant}),
           NEW job \in Meant, EntriesOf(hashes, job) # {}
    PROVE  GetDetailFromJobName(spec, hashes, job) = FiledAs(job)
<1> DEFINE H == {HashItem(j) : j \in Meant}
           names == ItemNames(GetCombinedIterations(spec))
           first == ItemNames(spec.iteration)
           rest == ItemNames(spec.configuration \o NodeSelectionItems(spec))
           pos == Min(EntriesOf(hashes, job))
<1>1. spec \in Specs /\ Meant = JobsOf(spec)
  BY ScanHolds DEF FixedInv, ScanFacts
<1>2. names = first \cup rest
  BY <1>1, CombinedNames
<1>3. \A h \in H : h = HashItem(h.hash) /\ h.hash \in Meant
  BY DEF HashItem
<1>4. \A h \in H : /\ DOMAIN h.iteration = names
                   /\ h.iteration = h.hash.label /\ h.build = h.hash.build
                   /\ h.repetition = h.hash.repetition
  <2>1. \A j \in Meant : DOMAIN j.label = names
    BY <1>1, JobFacts
  <2> QED
    BY <2>1 DEF HashItem
<1> HIDE DEF H
<1>5. /\ hashes \in Seq(H) /\ Len(hashes) \in Nat
      /\ \A i \in 1..Len(hashes) : hashes[i] \in H
  BY DEF H
<1>6. EntriesOf(hashes, job) \subseteq Nat /\ pos \in EntriesOf(hashes, job)
  <2>1. EntriesOf(hashes, job) \subseteq Nat
    BY <1>5 DEF EntriesOf
  <2> QED
    BY <2>1, MinFacts
<1> HIDE DEF pos, names, first, rest
<1>7. pos \in 1..Len(hashes) /\ hashes[pos].hash = job /\ hashes[pos] \in H
  BY <1>5, <1>6 DEF EntriesOf
<1>8. 1 \in 1..Len(hashes) /\ hashes # <<>>
  BY <1>5, <1>7
<1>9. ListedNames(hashes) = names
  <2>1. hashes[1] \in H
    BY <1>5, <1>8
  <2> QED
    BY <1>4, <1>8, <2>1 DEF ListedNames
<1> DEFINE its == names \cap first
           confs == names \ its
<1>10. (names \ its) \cap rest = confs
  BY <1>2
<1>11. GetDetailFromJobName(spec, hashes, job) = Detail(hashes, job, its, confs)
  BY <1>9, <1>10 DEF GetDetailFromJobName, first, rest
<1> HIDE DEF its, confs
<1>12. Detail(hashes, job, its, confs)
         = [build |-> job.build, iteration |-> Restrict(job.label, its),
            configuration |-> Restrict(job.label, confs),
            repetition |-> job.repetition]
  <2> DEFINE found == hashes[pos]
  <2>1. Detail(hashes, job, its, confs)
          = [build |-> found.build, iteration |-> Restrict(found.iteration, its),
             configuration |-> Restrict(found.iteration, confs),
             repetition |-> found.repetition]
    BY Zenon DEF Detail, pos
  <2>2. /\ found.build = job.build /\ found.iteration = job.label
        /\ found.repetition = job.repetition
    BY <1>4, <1>7
  <2> HIDE DEF found
  <2> QED
    BY Zenon, <2>1, <2>2
<1> QED
  BY <1>11, <1>12 DEF FiledAs, its, confs, names, first

-----------------------------------------------------------------------------
(***************************************************************************)
(* Each action keeps the invariant.                                        *)
(***************************************************************************)
\* Where a job is begun: at the nodes if it selects some.
Starts(o) == /\ o.pc \in {"apply", "create"}
             /\ ~Selecting(spec) => o.pc = "create"
             /\ Labelling(spec) => o.pc = "apply"
             /\ o.pc = "apply" => o.nodes = getNodeList(spec)

LEMMA BeginFacts ==
    ASSUME FixedInv, NEW o \in Ops, NEW job \in Meant, made[job].is = "object"
    PROVE  /\ Begin(o, job) \in Ops /\ Starts(Begin(o, job))
           /\ Begin(o, job).subscribed <=> o.subscribed
           /\ Begin(o, job).isNew <=> o.isNew
           /\ Begin(o, job).todo = o.todo /\ Begin(o, job).job = job
<1>1. /\ made[job].tunedValue # DEFAULT => Selecting(spec)
      /\ Labelling(spec) => made[job].tunedValue # DEFAULT
      /\ Labelling(spec) => Selecting(spec)
  BY MadeHolds DEF MadeFacts, Labelling
<1>2. getNodeList(spec) \in SUBSET Nodes
  BY DEF getNodeList
<1>3. /\ o.subscribed \in BOOLEAN /\ o.todo \in Seq(Meant) /\ o.isNew \in BOOLEAN
      /\ o.nodes \in SUBSET Nodes /\ o.pc \in PCs
      /\ o = [pc |-> o.pc, subscribed |-> o.subscribed, todo |-> o.todo,
              isNew |-> o.isNew, job |-> o.job, nodes |-> o.nodes]
  BY DEF Ops
<1> DEFINE b == o.subscribed
           w == o.isNew
           Op(pc, nodes) == [pc |-> pc, subscribed |-> b, todo |-> o.todo,
                             isNew |-> w, job |-> job, nodes |-> nodes]
<1>4. CASE made[job].tunedValue # DEFAULT
  <2>1. Begin(o, job) = [o EXCEPT !.pc = "apply", !.job = job,
                                  !.nodes = getNodeList(spec)]
    BY <1>4 DEF Begin
  <2>2. Begin(o, job) = Op("apply", getNodeList(spec))
    BY <1>3, <2>1
  <2> HIDE DEF b, w
  <2> QED
    BY <1>1, <1>2, <1>3, <1>4, <2>2 DEF Ops, PCs, b, w, Starts
<1>5. CASE made[job].tunedValue = DEFAULT
  <2>1. Begin(o, job) = [o EXCEPT !.pc = "create", !.job = job]
    BY <1>5 DEF Begin
  <2>2. Begin(o, job) = Op("create", o.nodes)
    BY <1>3, <2>1
  <2> HIDE DEF b, w
  <2> QED
    BY <1>1, <1>2, <1>3, <1>5, <2>2 DEF Ops, PCs, b, w, Starts
<1> QED
  BY <1>4, <1>5

\* What CreateIfNotExists does with a job, seen to end, still under way, or
\* not there.
LEMMA CreateIfNotExistsFacts ==
    ASSUME FixedInv, JobInv, ResultInv, NEW o \in Ops, NEW job \in Meant,
           made[job].is = "object"
    PROVE  LET p == CreateIfNotExists(o, job)
           IN  /\ p \in Ops /\ p.todo = o.todo
               /\ p.subscribed <=> o.subscribed
               /\ Found(job) => /\ p.pc = o.pc /\ p.job = o.job
                                /\ ~Done(job) => p.isNew
                                /\ Done(job) /\ ~o.isNew => ~p.isNew
               /\ ~Found(job) => Starts(p) /\ p.isNew /\ p.job = job
<1> DEFINE p == CreateIfNotExists(o, job)
           b == o.subscribed
           w == o.isNew
           New(x) == [pc |-> o.pc, subscribed |-> b, todo |-> o.todo,
                      isNew |-> x, job |-> o.job, nodes |-> o.nodes]
<1>1. /\ b \in BOOLEAN /\ o.todo \in Seq(Meant) /\ w \in BOOLEAN
      /\ o.nodes \in SUBSET Nodes /\ o.pc \in PCs /\ o.job \in Meant \cup {None}
      /\ o = New(w)
  BY DEF Ops
<1>2. CheckIfJobDone(job) => Found(job) /\ Done(job)
  BY DEF CheckIfJobDone, ResultInv, Found
<1>3. CASE CheckIfJobDone(job)
  <2>1. p = o
    BY <1>3 DEF CreateIfNotExists
  <2> QED
    BY <1>2, <1>3, <2>1 DEF Ops
<1>4. ASSUME NEW x \in BOOLEAN
      PROVE  /\ [o EXCEPT !.isNew = x] = New(x)
             /\ New(x) \in Ops /\ New(x).pc = o.pc /\ New(x).job = o.job
             /\ New(x).todo = o.todo
             /\ New(x).subscribed = b /\ New(x).isNew = x
  <2>1. [o EXCEPT !.isNew = x] = New(x)
    BY <1>1
  <2> HIDE DEF b, w
  <2> QED
    BY <1>1, <2>1 DEF Ops
<1>5. CASE ~CheckIfJobDone(job) /\ Found(job)
  <2>1. Complete(job) <=> Done(job)
    <3>1. jobs[job].phase \in Phases
      BY <1>5 DEF Found, JobInv
    <3> QED
      BY <3>1, CompleteIsDone
  <2> DEFINE c == ~Complete(job)
  <2>2. p = [o EXCEPT !.isNew = c]
    BY <1>5 DEF CreateIfNotExists
  <2>3. c \in BOOLEAN /\ (c <=> ~Done(job))
    BY <2>1
  <2> HIDE DEF c, New, p, b
  <2>4. /\ p \in Ops /\ p.pc = o.pc /\ p.job = o.job /\ p.todo = o.todo
        /\ p.subscribed = b /\ p.isNew = c
    BY <1>4, <2>2, <2>3
  <2> QED
    BY <1>5, <2>3, <2>4 DEF p, b
<1>6. CASE ~Found(job)
  <2>1. p = Begin([o EXCEPT !.isNew = TRUE], job)
    BY <1>2, <1>6 DEF CreateIfNotExists
  <2> HIDE DEF New, p, b
  <2>2. /\ p = Begin(New(TRUE), job) /\ New(TRUE) \in Ops
        /\ New(TRUE).todo = o.todo
        /\ New(TRUE).subscribed = b /\ New(TRUE).isNew = TRUE
    BY <1>4, <2>1
  <2>3. /\ p \in Ops /\ Starts(p)
        /\ p.subscribed <=> b
        /\ p.isNew
        /\ p.todo = o.todo /\ p.job = job
    BY <2>2, BeginFacts
  <2> QED
    BY <1>6, <2>3 DEF p, b
<1> QED
  BY <1>3, <1>5, <1>6

\* The stages that fit a program counter.
LEMMA StageOf ==
    ASSUME NEW k, NEW d, Stage(k, d)
    PROVE  /\ op.pc = "idle" => AtRest
           /\ op.pc = "scan" => \/ ScansWhatEnded(k, d) \/ ScansWhatWaits(k, d)
                                 \/ Refused(k, d)
           /\ op.pc \in {"apply", "create"} =>
                CreatesFirst(k, d) \/ CreatesNext(k, d)
           /\ op.pc = "watch" => Watches(k, d) \/ Refused(k, d)
           /\ op.pc \in {"unlabel", "next"} => WorksOff(k, d)
BY DEF Stage, AtRest, ScansWhatEnded, ScansWhatWaits, CreatesFirst, Watches,
       WorksOff, CreatesNext, Refused

\* The goroutine begins a job: it labels no node yet.
LEMMA ProfileBegun ==
    ASSUME UNCHANGED <<fixed, profile, jobs, mishaps>>, ProfileInv,
           Starts(op')
    PROVE  ProfileInv'
<1>1. spec' = spec
  BY DEF fixed
<1>2. Labelling(spec) => \A j \in DOMAIN jobs : RunsRight(j)'
  BY RunsRightKept DEF ProfileInv
<1>3. getNodeList(spec)' = getNodeList(spec)
  BY <1>1 DEF getNodeList
<1>4. /\ Labelling(spec) => op'.pc = "apply" /\ (getNodeList(spec) \ op.nodes)' = {}
      /\ ~Selecting(spec) => op'.pc = "create"
  BY <1>3 DEF Starts
<1> QED
  BY <1>1, <1>2, <1>4 DEF ProfileInv

\* A combination that has an object: its job is there, waits, or is begun.
LEMMA DeployFacts ==
    ASSUME FixedInv, JobInv, ResultInv,
           NEW k \in 0..Len(Kept), NEW d \in 0..Len(Kept), ChainAt(k, d),
           op.pc = "scan", ~op.subscribed, d < Len(Kept),
           NEW o \in Ops, o.pc = "scan", ~o.subscribed, o.isNew <=> op.isNew,
           NEW job, job = Kept[d + 1], made[job].is = "object", Deploy(o, job),
           UNCHANGED <<fixed, jobs, completions>>
    PROVE  /\ op' \in Ops /\ op'.todo = o.todo /\ ~op'.subscribed
           /\ Stage(k, d + 1)'
           /\ op'.pc \in {"apply", "create"} => op'.job = job
           /\ op'.pc = "scan" \/ Starts(op')
<1> DEFINE n == Len(Kept)
<1>1. /\ op.isNew =>
            op' = o /\ waiting' = IF Found(job) THEN waiting
                                  ELSE Append(waiting, job)
      /\ ~op.isNew => waiting' = waiting /\ op' = CreateIfNotExists(o, job)
  BY DEF Deploy
<1>2. /\ ScanFacts /\ Kept' = Kept
      /\ \A m, x : Between(m, x)' = Between(m, x)
      /\ \A m : EndedUntil(m)' <=> EndedUntil(m)
  BY ScanHolds, FixedKept, JobsKept
<1>3. d + 1 \in 1..n /\ d + 1 \in 0..n /\ n \in Nat /\ job \in Meant
  <2>1. d + 1 \in 1..n /\ d + 1 \in 0..n /\ n \in Nat
    BY <1>2 DEF ScanFacts
  <2> QED
    BY <1>2, <2>1 DEF ScanFacts
<1>4. Found(job) <=> d + 1 <= k
  BY <1>2, <1>3, UntilFacts DEF ChainAt, Found
<1>5. CASE op.isNew
  <2>1. op' = o
    BY <1>1, <1>5
  <2>2. CASE ScansWhatWaits(k, d)
    <3>1. /\ 1 <= k /\ k <= d /\ waiting = Between(k, d) /\ completions = <<>>
      BY <2>2 DEF ScansWhatWaits
    <3>2. ~Found(job) /\ k <= d + 1
      BY <1>3, <1>4, <3>1
    <3>3. waiting' = Append(Between(k, d), Kept[d + 1])
      BY <1>1, <1>5, <3>1, <3>2
    <3>4. waiting' = Between(k, d + 1)
      BY <1>2, <1>3, <3>1, <3>3, BetweenFacts
    <3>5. ScansWhatWaits(k, d + 1)'
      BY <1>2, <1>5, <2>1, <3>1, <3>2, <3>4 DEF ScansWhatWaits
    <3> QED
      BY <2>1, <3>5 DEF Stage
  <2>3. CASE Refused(k, d)
    <3>1. /\ k + 1 <= d /\ EndedUntil(k) /\ waiting = Between(k + 1, d)
          /\ completions = <<>>
      BY <2>3 DEF Refused
    <3>2. ~Found(job) /\ k + 1 <= d + 1 /\ k + 1 \in 0..n
      BY <1>3, <1>4, <3>1
    <3>3. waiting' = Append(Between(k + 1, d), Kept[d + 1])
      BY <1>1, <1>5, <3>1, <3>2
    <3>4. waiting' = Between(k + 1, d + 1)
      BY <1>2, <1>3, <3>1, <3>2, <3>3, BetweenFacts
    <3>5. Refused(k, d + 1)'
      BY <1>2, <1>5, <2>1, <3>1, <3>2, <3>4 DEF Refused
    <3> QED
      BY <2>1, <3>5 DEF Stage
  <2> QED
    BY <1>5, <2>2, <2>3, StageOf DEF ChainAt, ScansWhatEnded
<1>6. CASE ~op.isNew
  <2>1. ScansWhatEnded(k, d)
    BY <1>6, StageOf DEF ChainAt, ScansWhatWaits, Refused
  <2>2. d <= k /\ EndedUntil(d) /\ waiting' = <<>> /\ completions' = <<>>
    BY <1>1, <1>6, <2>1 DEF ScansWhatEnded
  <2>3. op' = CreateIfNotExists(o, job) /\ ~o.isNew
    BY <1>1, <1>6
  <2>4. /\ op' \in Ops /\ op'.todo = o.todo /\ ~op'.subscribed
        /\ Found(job) => /\ op'.pc = o.pc
                         /\ ~Done(job) => op'.isNew
                         /\ Done(job) => ~op'.isNew
        /\ ~Found(job) => Starts(op') /\ op'.isNew /\ op'.job = job
    BY <1>3, <2>3, CreateIfNotExistsFacts
  <2>5. CASE Found(job) /\ Done(job)
    <3>1. d + 1 <= k
      BY <1>4, <2>5
    <3>2. EndedUntil(d + 1)
      <4>1. \A i \in 1..(d + 1) : i \in 1..d \/ i = d + 1
        OBVIOUS
      <4> QED
        BY <2>2, <2>5, <4>1 DEF EndedUntil
    <3>3. ScansWhatEnded(k, d + 1)'
      BY <1>2, <2>2, <2>4, <2>5, <3>1, <3>2 DEF ScansWhatEnded
    <3> QED
      BY <2>4, <2>5, <3>3 DEF Stage
  <2>6. CASE Found(job) /\ ~Done(job)
    <3>1. job = Kept[k] /\ k \in 1..n
      BY <1>2, <2>6, LastUnended DEF ChainAt, Found
    <3>2. k = d + 1
      BY <1>2, <1>3, <3>1 DEF ScanFacts
    <3>3. Between(k, d + 1) = <<>>
      BY <1>2, <3>2, AfterFacts
    <3>4. 1 <= k /\ k <= d + 1
      BY <3>2
    <3>5. ScansWhatWaits(k, d + 1)'
      BY <1>2, <2>2, <2>4, <2>6, <3>3, <3>4 DEF ScansWhatWaits
    <3> QED
      BY <2>4, <2>6, <3>5 DEF Stage
  <2>7. CASE ~Found(job)
    <3>1. k = d
      BY <1>4, <2>2, <2>7
    <3>2. op'.job = Kept'[k + 1] /\ op'.pc \in {"apply", "create"}
      BY <1>2, <2>4, <2>7, <3>1 DEF Starts
    <3>3. EndedUntil(k)'
      BY <1>2, <2>2, <3>1
    <3>4. CreatesFirst(k, d + 1)'
      BY <2>2, <2>4, <2>7, <3>1, <3>2, <3>3 DEF CreatesFirst
    <3> QED
      BY <2>4, <2>7, <3>4 DEF Stage
  <2> QED
    BY <2>5, <2>6, <2>7
<1> QED
  BY <1>5, <1>6

LEMMA ScanJobKeeps ==
    ASSUME IInv, ScanJob PROVE IInv'
<1> DEFINE n == Len(Kept)
           job == Head(op.todo)
           o == [op EXCEPT !.todo = Tail(@)]
<1>1. /\ FixedInv /\ RoleInv /\ Chain /\ JobInv /\ HashInv /\ ResultInv
      /\ ProfileInv
  BY DEF IInv
<1>2. /\ UNCHANGED fixed /\ UNCHANGED results
      /\ UNCHANGED <<jobs, pods, profile>>
      /\ UNCHANGED <<completions, restarts, mishaps>>
  BY DEF ScanJob, cluster
<1>3. /\ ScanFacts /\ FixedInv' /\ Ops' = Ops /\ Kept' = Kept
      /\ Meant' = Meant /\ op \in Ops
  BY <1>1, <1>2, ScanHolds, FixedKept, OpsKept DEF RoleInv
<1>4. JobInv' /\ ResultInv'
  BY <1>1, <1>2, JobsKept
<1>5. PICK k, d \in 0..n : ChainAt(k, d)
  BY <1>1 DEF Chain
<1>6. op.pc = "scan" /\ op.todo # <<>> /\ Left(d) /\ ~op.subscribed
  BY <1>5, StageOf DEF ScanJob, ChainAt, ScansWhatEnded, ScansWhatWaits, Refused
<1>7. PICK e \in 0..Len(scanned) : Count(e) = d /\ op.todo = Rest(e)
  BY <1>6 DEF Left
<1>8. /\ e + 1 \in 1..Len(scanned) /\ e + 1 \in 0..Len(scanned)
      /\ e + 1 - 1 = e
      /\ job = scanned[e + 1] /\ Tail(op.todo) = Rest(e + 1)
      /\ job \in Meant /\ Rest(e + 1) \in Seq(Meant)
  <2>1. e < Len(scanned) /\ Len(scanned) \in Nat
    BY <1>3, <1>6, <1>7, RestFacts DEF ScanFacts
  <2>2. e + 1 \in 1..Len(scanned) /\ e + 1 \in 0..Len(scanned) /\ e + 1 - 1 = e
    BY <2>1
  <2>3. job = scanned[e + 1] /\ Tail(op.todo) = Rest(e + 1)
    BY <1>3, <1>7, <2>1, RestFacts
  <2> HIDE DEF job
  <2>4. job \in Meant
    BY <1>3, <2>2, <2>3 DEF ScanFacts
  <2>5. Rest(e + 1) \in Seq(Meant)
    BY <1>3, <2>2, RestFacts
  <2> QED
    BY <2>2, <2>3, <2>4, <2>5
<1>9. /\ PatchHash(job) /\ panicked' = (made[job].is = "panic")
      /\ \/ made[job].is = "panic" /\ op' = op /\ waiting' = waiting
         \/ made[job].is = "error" /\ op' = o /\ waiting' = waiting
         \/ made[job].is = "object" /\ Deploy(o, job)
  BY DEF ScanJob
<1>10. /\ o \in Ops /\ o.pc = "scan" /\ ~o.subscribed
       /\ (o.isNew <=> op.isNew) /\ o.todo = Rest(e + 1)
  <2> DEFINE b == op.subscribed
             w == op.isNew
             t == Tail(op.todo)
             q == [pc |-> op.pc, subscribed |-> b, todo |-> t,
                   isNew |-> w, job |-> op.job, nodes |-> op.nodes]
  <2>1. /\ op.pc \in PCs /\ b \in BOOLEAN /\ t \in Seq(Meant) /\ w \in BOOLEAN
        /\ op.job \in Meant \cup {None} /\ op.nodes \in SUBSET Nodes
    BY <1>3, <1>8 DEF Ops
  <2>2. op = [pc |-> op.pc, subscribed |-> b, todo |-> op.todo,
              isNew |-> w, job |-> op.job, nodes |-> op.nodes]
    BY <1>3 DEF Ops
  <2>3. o = [op EXCEPT !.todo = t]
    OBVIOUS
  <2> HIDE DEF b, w, t, o
  <2>4. o = q
    BY <2>2, <2>3
  <2>5. /\ q \in Ops /\ q.pc = "scan" /\ (q.subscribed <=> b)
        /\ (q.isNew <=> w) /\ q.todo = t
    BY <1>6, <2>1 DEF Ops
  <2> QED
    BY <1>6, <1>8, <2>4, <2>5 DEF b, w, t
<1> HIDE DEF job, o
<1>11. /\ hashes' \in Seq({HashItem(j) : j \in Meant})
       /\ EntriesOf(hashes', job) # {}
       /\ \A j : EntriesOf(hashes, j) # {} => EntriesOf(hashes', j) # {}
  BY <1>1, <1>8, <1>9, PatchFacts DEF HashInv
<1>12. HashInv'
  <2>1. \A j \in DOMAIN jobs : /\ EntriesOf(hashes', j) # {}
                               /\ made[j].is = "object"
    BY <1>1, <1>11 DEF HashInv
  <2>2. made' = made
    BY <1>2 DEF fixed
  <2> QED
    BY <1>2, <1>3, <1>11, <2>1, <2>2 DEF HashInv
<1>13. op' \in Ops => RoleInv'
  <2>1. DOMAIN profile' = Nodes
    BY <1>1, <1>2 DEF RoleInv
  <2>2. restarts' \in 0..MaxRestarts /\ mishaps' \subseteq Mishaps
    BY <1>1, <1>2 DEF RoleInv
  <2>3. panicked' \in BOOLEAN /\ (panicked' => MayPanic(spec))
    BY <1>1, <1>8, <1>9, MadeHolds DEF MadeFacts
  <2>4. spec' = spec
    BY <1>2 DEF fixed
  <2> QED
    BY <1>3, <2>1, <2>2, <2>3, <2>4 DEF RoleInv
<1>14. ListedUntil(d)'
  <2>1. ListedUntil(d) /\ made' = made
    BY <1>2, <1>5, <1>6 DEF ChainAt, fixed
  <2> QED
    BY <1>3, <1>11, <2>1 DEF ListedUntil
<1>15. /\ IF made[job].is = "error" THEN Count(e + 1) = d
          ELSE /\ Count(e + 1) = d + 1
               /\ d + 1 \in 1..n /\ Kept[d + 1] = job
       /\ \A x : Count(x)' = Count(x) /\ Rest(x)' = Rest(x)
       /\ scanned' = scanned
  BY <1>1, <1>2, <1>3, <1>7, <1>8, FixedKept DEF ScanFacts
<1>16. /\ \A m, x : Between(m, x)' = Between(m, x)
       /\ \A m : EndedUntil(m)' <=> EndedUntil(m)
  BY <1>1, <1>2, FixedKept, JobsKept
<1>17. CASE made[job].is = "panic"
  <2>1. op' = op /\ waiting' = waiting
    BY <1>9, <1>17
  <2>2. Left(d)'
    BY <1>1, <1>2, <1>6, <2>1, LeftKept
  <2>3. Stage(k, d)'
    BY <1>2, <1>5, <1>6, <1>16, <2>1, StageOf
       DEF ChainAt, Stage, ScansWhatEnded, ScansWhatWaits, Refused
  <2>4. Chain'
    BY <1>1, <1>2, <1>5, <1>14, <2>2, <2>3, ChainKept
  <2>5. ProfileInv' /\ RoleInv'
    BY <1>1, <1>2, <1>3, <1>6, <1>13, <2>1, ProfileKept
  <2> QED
    BY <1>3, <1>4, <1>12, <2>4, <2>5 DEF IInv
<1>18. CASE made[job].is = "error"
  <2>1. op' = o /\ waiting' = waiting
    BY <1>9, <1>18
  <2>2. Left(d)'
    BY <1>8, <1>10, <1>15, <1>18, <2>1 DEF Left
  <2>3. Stage(k, d)'
    BY <1>2, <1>5, <1>6, <1>10, <1>16, <2>1, StageOf
       DEF ChainAt, Stage, ScansWhatEnded, ScansWhatWaits, Refused
  <2>4. Chain'
    BY <1>1, <1>2, <1>5, <1>14, <2>2, <2>3, ChainKept
  <2>5. ProfileInv' /\ RoleInv'
    BY <1>1, <1>2, <1>10, <1>13, <2>1, ProfileKept
  <2> QED
    BY <1>3, <1>4, <1>12, <2>4, <2>5 DEF IInv
<1>19. CASE made[job].is = "object"
  <2>1. Deploy(o, job) /\ job = Kept[d + 1] /\ d + 1 \in 0..n /\ d < n
    BY <1>9, <1>15, <1>19
  <2>2. /\ op' \in Ops /\ op'.todo = o.todo /\ ~op'.subscribed
        /\ Stage(k, d + 1)'
        /\ op'.pc \in {"apply", "create"} => op'.job = job
        /\ op'.pc = "scan" \/ Starts(op')
    BY <1>1, <1>2, <1>5, <1>6, <1>10, <1>19, <2>1, DeployFacts
  <2>3. Left(d + 1)'
    BY <1>8, <1>10, <1>15, <1>19, <2>2 DEF Left
  <2>4. ListedUntil(d + 1)'
    <3>1. \A i \in 1..(d + 1) : i \in 1..d \/ i = d + 1
      BY <1>5
    <3>2. made' = made
      BY <1>2 DEF fixed
    <3> QED
      BY <1>3, <1>11, <1>14, <1>19, <2>1, <3>1, <3>2 DEF ListedUntil
  <2>5. Chain'
    BY <1>1, <1>2, <1>5, <2>1, <2>2, <2>3, <2>4, ChainKept
  <2>6. ProfileInv'
    <3>1. CASE op'.pc = "scan"
      BY <1>1, <1>2, <3>1, ProfileKept
    <3>2. CASE Starts(op')
      BY <1>1, <1>2, <3>2, ProfileBegun
    <3> QED
      BY <2>2, <3>1, <3>2
  <2> QED
    BY <1>3, <1>4, <1>12, <1>13, <2>2, <2>5, <2>6 DEF IInv
<1>20. made[job].is \in {"panic", "error", "object"}
  BY <1>9
<1> QED
  BY <1>17, <1>18, <1>19, <1>20

\* Whoever puts labels on nodes, takes them off or creates a job has seen all
\* jobs of the cluster end; the job created is the next one.
LEMMA AllEnded ==
    ASSUME ScanFacts, NEW k \in 0..Len(Kept), NEW d \in 0..Len(Kept),
           ChainAt(k, d)
    PROVE  /\ op.pc \in {"apply", "create", "unlabel", "next"} =>
                EndedUntil(k) /\ \A j \in DOMAIN jobs : Done(j)
           /\ op.pc \in {"apply", "create"} =>
                /\ k < Len(Kept) /\ op.job = Kept[k + 1]
                /\ op.job \in Meant /\ op.job \notin DOMAIN jobs
                /\ made[op.job].is = "object"
<1>1. DOMAIN jobs = Until(k) /\ Len(Kept) \in Nat
  BY DEF ChainAt, ScanFacts
<1>2. op.pc \in {"apply", "create", "unlabel", "next"} => EndedUntil(k)
  BY StageOf DEF ChainAt, CreatesFirst, CreatesNext, WorksOff
<1>3. ASSUME op.pc \in {"apply", "create"}
      PROVE  /\ k < Len(Kept) /\ op.job = Kept[k + 1]
             /\ op.job \in Meant /\ op.job \notin DOMAIN jobs
             /\ made[op.job].is = "object"
  <2>1. op.job = Kept[k + 1] /\ k + 1 <= d
    BY <1>3, StageOf DEF ChainAt, CreatesFirst, CreatesNext
  <2>2. k < Len(Kept) /\ k + 1 \in 1..Len(Kept) /\ ~(k + 1 <= k)
    BY <1>1, <2>1
  <2>3. op.job \in Meant
    BY <2>1, <2>2 DEF ScanFacts
  <2>4. op.job \notin DOMAIN jobs
    BY <1>1, <2>1, <2>2, UntilFacts
  <2>5. made[op.job].is = "object"
    <3>1. k + 1 \in 1..d /\ ListedUntil(d)
      BY <1>1, <1>3, <2>1 DEF ChainAt
    <3> QED
      BY <2>1, <3>1 DEF ListedUntil
  <2> QED
    BY <2>1, <2>2, <2>3, <2>4, <2>5
<1> QED
  BY <1>1, <1>2, <1>3, UntilFacts

\* The goroutine has dealt with a node.
LEMMA NodesLeft ==
    ASSUME FixedInv, UNCHANGED fixed, op \in Ops, NEW n,
           op' = [op EXCEPT !.nodes = @ \ {n}]
    PROVE  /\ op' \in Ops' /\ op'.pc = op.pc /\ op'.todo = op.todo
           /\ op'.job = op.job /\ op'.nodes = op.nodes \ {n}
           /\ (op'.subscribed <=> op.subscribed) /\ (op'.isNew <=> op.isNew)
<1> DEFINE b == op.subscribed
           w == op.isNew
           r == op.nodes \ {n}
           q == [pc |-> op.pc, subscribed |-> b, todo |-> op.todo,
                 isNew |-> w, job |-> op.job, nodes |-> r]
<1>1. /\ op.pc \in PCs /\ b \in BOOLEAN /\ op.todo \in Seq(Meant)
      /\ w \in BOOLEAN /\ op.job \in Meant \cup {None} /\ r \in SUBSET Nodes
  BY DEF Ops
<1>2. op = [pc |-> op.pc, subscribed |-> b, todo |-> op.todo,
            isNew |-> w, job |-> op.job, nodes |-> op.nodes]
  BY DEF Ops
<1>3. op' = [op EXCEPT !.nodes = r]
  OBVIOUS
<1> HIDE DEF b, w, r
<1>4. op' = q
  BY <1>2, <1>3
<1>5. q \in Ops
  BY <1>1 DEF Ops
<1>6. Ops' = Ops
  BY OpsKept
<1> QED
  BY <1>4, <1>5, <1>6 DEF b, w, r

LEMMA StageWithNodesLeft ==
    ASSUME FixedInv, NEW k \in 0..Len(Kept), NEW d \in 0..Len(Kept),
           ChainAt(k, d),
           UNCHANGED <<fixed, hashes, jobs, waiting, completions>>,
           op'.pc = op.pc, op'.todo = op.todo, op'.job = op.job,
           op'.subscribed <=> op.subscribed, op'.isNew <=> op.isNew
    PROVE  Chain'
<1>1. /\ Kept' = Kept
      /\ \A m : Until(m)' = Until(m) /\ After(m)' = After(m)
      /\ \A m, e : Between(m, e)' = Between(m, e)
  BY FixedKept
<1>2. /\ \A m : EndedUntil(m)' <=> EndedUntil(m)
      /\ \A m : ListedUntil(m)' <=> ListedUntil(m)
  BY JobsKept, ListedKept
<1>3. Stage(k, d)'
  BY <1>1, <1>2 DEF ChainAt, Stage, AtRest, ScansWhatEnded,
     ScansWhatWaits, CreatesFirst, Watches, WorksOff, CreatesNext, Refused
<1>4. DOMAIN jobs' = DOMAIN jobs /\ Left(d)'
  BY LeftKept DEF ChainAt
<1>5. ChainAt(k, d)'
  BY <1>1, <1>2, <1>3, <1>4 DEF ChainAt
<1> QED
  BY <1>1, <1>5 DEF Chain

\* A job that has ended asks nothing of the nodes any more.
LEMMA DoneRunsRight ==
    ASSUME NEW j, Done(j), UNCHANGED <<fixed, jobs>>
    PROVE  RunsRight(j)'
<1>1. jobs'[j].phase = "succeeded"
  BY DEF Done
<1>2. /\ jobs'[j].phase # "running"
      /\ jobs'[j].phase \notin {"pending", "running"}
  BY <1>1
<1> QED
  BY <1>2 DEF RunsRight

LEMMA ApplyProfileKeeps ==
    ASSUME IInv, NEW n \in Nodes, ApplyProfile(n) PROVE IInv'
<1>1. /\ FixedInv /\ RoleInv /\ Chain /\ JobInv /\ HashInv /\ ResultInv
      /\ ProfileInv
  BY DEF IInv
<1>2. /\ UNCHANGED fixed /\ UNCHANGED <<hashes, results>>
      /\ UNCHANGED <<jobs, pods, waiting, completions, restarts, panicked>>
  BY DEF ApplyProfile, status
<1>3. ScanFacts /\ FixedInv' /\ Kept' = Kept /\ spec' = spec /\ op \in Ops
  BY <1>1, <1>2, ScanHolds, FixedKept DEF RoleInv
<1>4. JobInv' /\ ResultInv' /\ HashInv'
  BY <1>1, <1>2, JobsKept, HashKept
<1>5. PICK k, d \in 0..Len(Kept) : ChainAt(k, d)
  BY <1>1 DEF Chain
<1>6. op.pc = "apply" /\ op' = [op EXCEPT !.nodes = @ \ {n}]
  BY DEF ApplyProfile
<1>7. /\ op' \in Ops' /\ op'.pc = op.pc /\ op'.todo = op.todo
      /\ op'.job = op.job /\ op'.nodes = op.nodes \ {n}
      /\ (op'.subscribed <=> op.subscribed) /\ (op'.isNew <=> op.isNew)
  BY <1>1, <1>2, <1>3, <1>6, NodesLeft
<1>8. Chain'
  BY <1>1, <1>2, <1>5, <1>7, StageWithNodesLeft
<1>9. \/ profile' = [profile EXCEPT ![n] = made[op.job].tunedValue]
           /\ mishaps' = mishaps
      \/ mishaps' = mishaps \cup {"patch"} /\ profile' = profile
  BY DEF ApplyProfile
<1>10. RoleInv'
  <2>1. DOMAIN profile' = Nodes
    BY <1>1, <1>9 DEF RoleInv
  <2>2. mishaps' \subseteq Mishaps
    BY <1>1, <1>9 DEF RoleInv, Mishaps
  <2> QED
    BY <1>1, <1>2, <1>3, <1>7, <2>1, <2>2 DEF RoleInv
<1>11. /\ \A j \in DOMAIN jobs : Done(j)
       /\ op.job \in Meant /\ made[op.job].is = "object"
  BY <1>3, <1>5, <1>6, AllEnded
<1>12. Selecting(spec)
  BY <1>1, <1>6 DEF ProfileInv
<1>13. ASSUME Labelling(spec), made[op.job].is = "object", IsDefault(op.job)
       PROVE  \/ "patch" \in mishaps'
              \/ \A m \in getNodeList(spec) \ op'.nodes :
                    profile'[m] = NULL_VALUE_STR
  <2>1. CASE "patch" \in mishaps
    BY <1>9, <2>1
  <2>2. CASE "patch" \notin mishaps /\ mishaps' = mishaps
    <3>1. made[op.job].tunedValue = NULL_VALUE_STR
      BY <1>1, <1>11, <1>12, <1>13, MadeHolds DEF MadeFacts
    <3>2. profile' = [profile EXCEPT ![n] = NULL_VALUE_STR]
      BY <1>9, <2>2, <3>1
    <3>3. /\ DOMAIN profile = Nodes
          /\ \A m \in getNodeList(spec) \ op.nodes : profile[m] = NULL_VALUE_STR
      BY <1>1, <1>6, <1>12, <1>13, <2>2 DEF ProfileInv, RoleInv
    <3>4. getNodeList(spec) \subseteq Nodes
      BY DEF getNodeList
    <3> QED
      BY <1>7, <3>2, <3>3, <3>4
  <2>3. CASE mishaps' # mishaps
    BY <1>9, <2>3
  <2> QED
    BY <2>1, <2>2, <2>3
<1>14. ProfileInv'
  <2>1. \A j \in DOMAIN jobs' : RunsRight(j)'
    BY <1>2, <1>11, DoneRunsRight
  <2>2. getNodeList(spec)' = getNodeList(spec)
    BY <1>3 DEF getNodeList
  <2>3. op'.pc = "apply" /\ op'.job = op.job
    BY <1>6, <1>7
  <2>4. Selecting(spec)' /\ (Labelling(spec)' <=> Labelling(spec))
    BY <1>3, <1>12
  <2>5. op'.pc # "create"
    BY <2>3
  <2> QED
    BY <1>11, <1>13, <2>1, <2>2, <2>3, <2>4, <2>5 DEF ProfileInv, IsDefault
<1> QED
  BY <1>3, <1>4, <1>8, <1>10, <1>14 DEF IInv

LEMMA DeleteLabelKeeps ==
    ASSUME IInv, NEW n \in Nodes, DeleteLabel(n) PROVE IInv'
<1>1. /\ FixedInv /\ RoleInv /\ Chain /\ JobInv /\ HashInv /\ ResultInv
      /\ ProfileInv
  BY DEF IInv
<1>2. /\ UNCHANGED fixed /\ UNCHANGED <<hashes, results>>
      /\ UNCHANGED <<jobs, pods, waiting, completions, restarts, panicked>>
  BY DEF DeleteLabel, status
<1>3. ScanFacts /\ FixedInv' /\ Kept' = Kept /\ spec' = spec /\ op \in Ops
  BY <1>1, <1>2, ScanHolds, FixedKept DEF RoleInv
<1>4. JobInv' /\ ResultInv' /\ HashInv'
  BY <1>1, <1>2, JobsKept, HashKept
<1>5. PICK k, d \in 0..Len(Kept) : ChainAt(k, d)
  BY <1>1 DEF Chain
<1>6. op.pc = "unlabel" /\ op' = [op EXCEPT !.nodes = @ \ {n}]
  BY DEF DeleteLabel
<1>7. /\ op' \in Ops' /\ op'.pc = op.pc /\ op'.todo = op.todo
      /\ op'.job = op.job /\ op'.nodes = op.nodes \ {n}
      /\ (op'.subscribed <=> op.subscribed) /\ (op'.isNew <=> op.isNew)
  BY <1>1, <1>2, <1>3, <1>6, NodesLeft
<1>8. Chain'
  BY <1>1, <1>2, <1>5, <1>7, StageWithNodesLeft
<1>9. \/ profile' = [profile EXCEPT ![n] = Unlabelled] /\ mishaps' = mishaps
      \/ mishaps' = mishaps \cup {"patch"} /\ profile' = profile
  BY DEF DeleteLabel
<1>10. RoleInv'
  <2>1. DOMAIN profile' = Nodes
    BY <1>1, <1>9 DEF RoleInv
  <2>2. mishaps' \subseteq Mishaps
    BY <1>1, <1>9 DEF RoleInv, Mishaps
  <2> QED
    BY <1>1, <1>2, <1>3, <1>7, <2>1, <2>2 DEF RoleInv
<1>11. \A j \in DOMAIN jobs : Done(j)
  BY <1>3, <1>5, <1>6, AllEnded
<1>12. Selecting(spec) /\ Selecting(spec)'
  BY <1>1, <1>3, <1>6 DEF ProfileInv
<1>13. ProfileInv'
  <2>1. \A j \in DOMAIN jobs' : RunsRight(j)'
    BY <1>2, <1>11, DoneRunsRight
  <2>2. op'.pc # "create" /\ op'.pc # "apply"
    BY <1>6, <1>7
  <2>3. Selecting(spec)' <=> Selecting(spec)
    BY <1>3
  <2> QED
    BY <1>12, <2>1, <2>2, <2>3 DEF ProfileInv
<1> QED
  BY <1>3, <1>4, <1>8, <1>10, <1>13 DEF IInv

LEMMA MorePods ==
    ASSUME NEW D, NEW E, D \subseteq E,
           NEW p \in Seq([job : D, role : {"launcher", "worker"},
                          phase : {"Failed", "Running", "Succeeded"},
                          deleted : BOOLEAN])
    PROVE  p \in Seq([job : E, role : {"launcher", "worker"},
                      phase : {"Failed", "Running", "Succeeded"},
                      deleted : BOOLEAN])
<1> DEFINE P(S) == [job : S, role : {"launcher", "worker"},
                    phase : {"Failed", "Running", "Succeeded"},
                    deleted : BOOLEAN]
<1>1. P(D) \subseteq P(E)
  OBVIOUS
<1> DEFINE A == P(D)
           B == P(E)
<1>2. A \subseteq B /\ p \in Seq(A)
  BY <1>1
<1> HIDE DEF A, B
<1>3. p \in Seq(B)
  BY <1>2
<1> QED
  BY <1>3 DEF B

LEMMA CreateJobKeeps ==
    ASSUME IInv, CreateJob PROVE IInv'
<1> DEFINE n == Len(Kept)
           new == [phase |-> "pending", node |-> None]
<1>1. /\ FixedInv /\ RoleInv /\ Chain /\ JobInv /\ HashInv /\ ResultInv
      /\ ProfileInv
  BY DEF IInv
<1>2. /\ UNCHANGED fixed /\ UNCHANGED <<hashes, results>>
      /\ UNCHANGED <<pods, profile, waiting, completions, restarts, panicked>>
  BY DEF CreateJob, status
<1>3. ScanFacts /\ FixedInv' /\ Kept' = Kept /\ spec' = spec /\ op \in Ops
      /\ Ops' = Ops /\ Meant' = Meant
  BY <1>1, <1>2, ScanHolds, FixedKept, OpsKept DEF RoleInv
<1>4. PICK k, d \in 0..n : ChainAt(k, d)
  BY <1>1 DEF Chain
<1>5. /\ op.pc = "create" \/ (op.pc = "apply" /\ op.nodes = {})
      /\ \/ jobs' = Assigned(jobs, op.job, new) /\ mishaps' = mishaps
         \/ jobs' = jobs /\ mishaps' = mishaps \cup {"create"}
      /\ op' = [op EXCEPT !.pc = IF op.subscribed THEN "watch" ELSE "scan",
                          !.job = None]
  BY DEF CreateJob
<1>6. /\ EndedUntil(k) /\ \A j \in DOMAIN jobs : Done(j)
      /\ k < n /\ op.job = Kept[k + 1]
      /\ op.job \in Meant /\ op.job \notin DOMAIN jobs
      /\ made[op.job].is = "object"
  BY <1>3, <1>4, <1>5, AllEnded
<1>8. /\ op' \in Ops
      /\ op'.pc = IF op.subscribed THEN "watch" ELSE "scan"
      /\ op'.todo = op.todo
      /\ (op'.subscribed <=> op.subscribed) /\ (op'.isNew <=> op.isNew)
  <2> DEFINE b == op.subscribed
             w == op.isNew
             pc == IF b THEN "watch" ELSE "scan"
             q == [pc |-> pc, subscribed |-> b, todo |-> op.todo,
                   isNew |-> w, job |-> None, nodes |-> op.nodes]
  <2>1. /\ b \in BOOLEAN /\ op.todo \in Seq(Meant) /\ w \in BOOLEAN
        /\ op.nodes \in SUBSET Nodes
    BY <1>3 DEF Ops
  <2>2. op = [pc |-> op.pc, subscribed |-> b, todo |-> op.todo,
              isNew |-> w, job |-> op.job, nodes |-> op.nodes]
    BY <1>3 DEF Ops
  <2>3. op' = [op EXCEPT !.pc = pc, !.job = None]
    BY <1>5
  <2>4. pc \in PCs /\ pc = IF b THEN "watch" ELSE "scan"
    BY DEF PCs
  <2> DEFINE mid == [op EXCEPT !.pc = pc]
  <2> HIDE DEF b, w, pc
  <2>5. op' = q
    <3>1. mid = [pc |-> pc, subscribed |-> b, todo |-> op.todo,
                 isNew |-> w, job |-> op.job, nodes |-> op.nodes]
      BY <2>2
    <3>2. op' = [mid EXCEPT !.job = None]
      BY <2>3
    <3> HIDE DEF mid
    <3> QED
      BY <3>1, <3>2
  <2>6. q \in Ops
    BY <2>1, <2>4 DEF Ops
  <2> QED
    BY <2>4, <2>5, <2>6 DEF b, w, pc
<1>7. RoleInv'
  <2>1. mishaps' \subseteq Mishaps
    BY <1>1, <1>5 DEF RoleInv, Mishaps
  <2> QED
    BY <1>1, <1>2, <1>3, <1>8, <2>1 DEF RoleInv
<1>9. n \in Nat /\ k + 1 \in 1..n /\ k + 1 \in 0..n /\ k + 1 - 1 = k
  BY <1>3, <1>6 DEF ScanFacts
<1>10. k + 1 <= d /\ ListedUntil(d) /\ DOMAIN jobs = Until(k) /\ Left(d)
  BY <1>4, <1>5, StageOf DEF ChainAt, CreatesFirst, CreatesNext
<1>11. /\ \A m : Until(m)' = Until(m) /\ After(m)' = After(m)
       /\ \A m, e : Between(m, e)' = Between(m, e)
       /\ \A m : ListedUntil(m)' <=> ListedUntil(m)
       /\ Left(d)'
  BY <1>1, <1>2, <1>8, <1>10, FixedKept, ListedKept, LeftKept
<1>12. CASE jobs' = Assigned(jobs, op.job, new) /\ mishaps' = mishaps
  <2>1. /\ DOMAIN jobs' = DOMAIN jobs \cup {op.job}
        /\ jobs'[op.job] = new
        /\ \A j \in DOMAIN jobs : jobs'[j] = jobs[j]
    BY <1>6, <1>12 DEF Assigned
  <2>2. ResultInv'
    BY <1>1, <1>2, <2>1, ResultsKept
  <2>3. JobInv'
    <3>1. DOMAIN jobs \subseteq DOMAIN jobs'
      BY <2>1
    <3>2. pods' \in Seq([job : DOMAIN jobs', role : {"launcher", "worker"},
                         phase : {"Failed", "Running", "Succeeded"},
                         deleted : BOOLEAN])
      BY <1>1, <1>2, <3>1, MorePods DEF JobInv
    <3>3. new \in [phase : Phases, node : Nodes \cup {None}]
      BY DEF Phases
    <3>4. \A j \in DOMAIN jobs' :
            jobs'[j] \in [phase : Phases, node : Nodes \cup {None}]
      BY <1>1, <2>1, <3>3 DEF JobInv
    <3> QED
      BY <3>2, <3>4 DEF JobInv
  <2>4. HashInv'
    <3>1. EntriesOf(hashes, op.job) # {}
      <4>1. k + 1 \in 1..d
        BY <1>9, <1>10
      <4> QED
        BY <1>6, <1>10, <4>1 DEF ListedUntil
    <3>2. made' = made
      BY <1>2 DEF fixed
    <3> QED
      BY <1>1, <1>2, <1>3, <1>6, <2>1, <3>1, <3>2 DEF HashInv
  <2>5. Chain'
    <3>1. \A i \in 1..k : Kept[i] \in DOMAIN jobs
      BY <1>10 DEF Until
    <3>2. EndedUntil(k)'
      BY <1>2, <1>6, <2>1, <3>1, EndedKept
    <3>3. DOMAIN jobs' = Until(k + 1)
      <4>1. \A i : i \in 1..(k + 1) <=> i \in 1..k \/ i = k + 1
        BY <1>4
      <4> QED
        BY <1>6, <1>10, <2>1, <4>1 DEF Until
    <3>4. Stage(k + 1, d)'
      <4>1. CASE CreatesFirst(k, d)
        <5>1. Between(k + 1, d) = <<>>
          BY <1>3, <1>9, <4>1, AfterFacts DEF CreatesFirst
        <5>2. ScansWhatWaits(k + 1, d)'
          BY <1>2, <1>4, <1>8, <1>10, <1>11, <4>1, <5>1
             DEF CreatesFirst, ScansWhatWaits
        <5> QED
          BY <5>2 DEF Stage
      <4>2. CASE CreatesNext(k, d)
        <5>1. Watches(k + 1, d)'
          BY <1>2, <1>3, <1>8, <1>11, <4>2 DEF CreatesNext, Watches
        <5> QED
          BY <5>1 DEF Stage
      <4> QED
        BY <1>4, <1>5, <4>1, <4>2, StageOf DEF ChainAt
    <3>5. ChainAt(k + 1, d)'
      BY <1>8, <1>9, <1>10, <1>11, <3>2, <3>3, <3>4 DEF ChainAt
    <3> QED
      BY <1>3, <1>4, <1>9, <3>5 DEF Chain
  <2>6. ProfileInv'
    <3>1. op'.pc \notin {"apply", "create", "unlabel"}
      BY <1>8
    <3>2. ASSUME Labelling(spec), NEW j \in DOMAIN jobs PROVE RunsRight(j)'
      BY <1>1, <1>2, <1>12, <2>1, <3>2, RunsRightKept DEF ProfileInv
    <3> PICK c : c = op.job
      OBVIOUS
    <3>3. ASSUME Labelling(spec) PROVE RunsRight(c)'
      <4>1. /\ IsDefault(op.job) => "patch" \in mishaps
                 \/ \A m \in getNodeList(spec) \ op.nodes : profile[m] = NULL_VALUE_STR
            /\ op.nodes = {}
        BY <1>1, <1>5, <3>3 DEF ProfileInv
      <4>2. jobs'[op.job].phase = "pending"
        BY <2>1
      <4>3. getNodeList(spec)' = getNodeList(spec)
        BY <1>3 DEF getNodeList
      <4> QED
        BY <1>2, <1>3, <1>12, <4>1, <4>2, <4>3 DEF RunsRight, IsDefault
    <3>4. Labelling(spec) => \A j \in DOMAIN jobs' : RunsRight(j)'
      BY <2>1, <3>2, <3>3
    <3>5. Labelling(spec)' <=> Labelling(spec)
      BY <1>3
    <3> QED
      BY <3>1, <3>4, <3>5 DEF ProfileInv
  <2> QED
    BY <1>3, <1>7, <2>2, <2>3, <2>4, <2>5, <2>6 DEF IInv
<1>13. CASE jobs' = jobs /\ mishaps' = mishaps \cup {"create"}
  <2>1. JobInv' /\ ResultInv' /\ HashInv'
    BY <1>1, <1>2, <1>13, JobsKept, HashKept
  <2>2. EndedUntil(k)'
    BY <1>2, <1>6, <1>13, JobsKept
  <2>3. Refused(k, d)'
    <3>1. CASE CreatesFirst(k, d)
      <4>1. Between(k + 1, d) = <<>>
        BY <1>3, <1>9, <3>1, AfterFacts DEF CreatesFirst
      <4> QED
        BY <1>2, <1>8, <1>10, <1>11, <2>2, <3>1, <4>1 DEF CreatesFirst, Refused
    <3>2. CASE CreatesNext(k, d)
      <4>1. After(k + 1) = Between(k + 1, d)
        BY <1>3, <1>9, <3>2, AfterFacts DEF CreatesNext
      <4> QED
        BY <1>2, <1>8, <1>10, <1>11, <2>2, <3>2, <4>1 DEF CreatesNext, Refused
    <3> QED
      BY <1>4, <1>5, <3>1, <3>2, StageOf DEF ChainAt
  <2>4. Chain'
    <3>1. Stage(k, d)'
      BY <2>3 DEF Stage
    <3> QED
      BY <1>1, <1>2, <1>4, <1>10, <1>11, <1>13, <3>1, ChainKept
  <2>5. ProfileInv'
    <3>1. op'.pc \notin {"apply", "create", "unlabel"}
      BY <1>8
    <3> QED
      BY <1>1, <1>2, <1>13, <3>1, ProfileKept
  <2> QED
    BY <1>3, <1>7, <2>1, <2>4, <2>5 DEF IInv
<1> QED
  BY <1>5, <1>12, <1>13

LEMMA DeployWaitingResourceKeeps ==
    ASSUME IInv, DeployWaitingResource PROVE IInv'
<1> DEFINE n == Len(Kept)
           o == [op EXCEPT !.pc = "watch"]
<1>1. /\ FixedInv /\ RoleInv /\ Chain /\ JobInv /\ HashInv /\ ResultInv
      /\ ProfileInv
  BY DEF IInv
<1>2. /\ UNCHANGED fixed /\ UNCHANGED <<hashes, results>>
      /\ UNCHANGED <<jobs, pods, profile>>
      /\ UNCHANGED <<completions, restarts, mishaps, panicked>>
  BY DEF DeployWaitingResource, status, cluster
<1>3. /\ ScanFacts /\ FixedInv' /\ Ops' = Ops /\ Kept' = Kept
      /\ Meant' = Meant /\ op \in Ops
  BY <1>1, <1>2, ScanHolds, FixedKept, OpsKept DEF RoleInv
<1>4. JobInv' /\ ResultInv' /\ HashInv'
  BY <1>1, <1>2, JobsKept, HashKept
<1>5. PICK k, d \in 0..n : ChainAt(k, d)
  BY <1>1 DEF Chain
<1>6. /\ op.subscribed /\ d = n /\ waiting = After(k) /\ completions = <<>>
      /\ EndedUntil(k) /\ Left(d) /\ DOMAIN jobs = Until(k)
      /\ ListedUntil(d)
  BY <1>5, StageOf DEF DeployWaitingResource, ChainAt, WorksOff
<1>7. /\ waiting = <<>> => op' = o /\ waiting' = waiting
      /\ waiting # <<>> => /\ op' = CreateIfNotExists(o, Head(waiting))
                           /\ waiting' = Tail(waiting)
  BY DEF DeployWaitingResource
<1>8. /\ o \in Ops /\ o.pc = "watch" /\ o.subscribed /\ o.todo = op.todo
  <2> DEFINE b == op.subscribed
             w == op.isNew
             q == [pc |-> "watch", subscribed |-> b, todo |-> op.todo,
                   isNew |-> w, job |-> op.job, nodes |-> op.nodes]
  <2>1. /\ b \in BOOLEAN /\ op.todo \in Seq(Meant) /\ w \in BOOLEAN
        /\ op.nodes \in SUBSET Nodes /\ op.job \in Meant \cup {None}
        /\ "watch" \in PCs
    BY <1>3 DEF Ops, PCs
  <2>2. op = [pc |-> op.pc, subscribed |-> b, todo |-> op.todo,
              isNew |-> w, job |-> op.job, nodes |-> op.nodes]
    BY <1>3 DEF Ops
  <2>3. b
    BY <1>6
  <2> HIDE DEF b, w
  <2>4. o = q
    BY <2>2
  <2> HIDE DEF o
  <2> QED
    BY <2>1, <2>3, <2>4 DEF Ops
<1> HIDE DEF o
<1>9. /\ \A m : Until(m)' = Until(m) /\ After(m)' = After(m)
      /\ \A m : EndedUntil(m)' <=> EndedUntil(m)
      /\ \A m : ListedUntil(m)' <=> ListedUntil(m)
  BY <1>1, <1>2, FixedKept, JobsKept, ListedKept
<1>10. /\ op' \in Ops /\ op'.todo = op.todo /\ Stage(k, d)'
       /\ op'.pc = "watch" \/ Starts(op')
  <2>1. CASE waiting = <<>>
    <3>1. Watches(k, d)'
      BY <1>2, <1>3, <1>6, <1>7, <1>8, <1>9, <2>1 DEF Watches
    <3> QED
      BY <1>6, <1>7, <1>8, <2>1, <3>1 DEF Stage
  <2>2. CASE waiting # <<>>
    <3> DEFINE job == Head(waiting)
    <3>1. k < n /\ job = Kept[k + 1] /\ waiting' = After(k + 1)
      <4>1. k # n
        BY <1>3, <1>6, <2>2, AfterFacts
      <4>2. k < n
        BY <1>5, <4>1
      <4> QED
        BY <1>3, <1>6, <1>7, <2>2, <4>2, AfterFacts
    <3> HIDE DEF job
    <3>2. k + 1 \in 1..n /\ k + 1 <= d /\ ~(k + 1 <= k)
      BY <1>3, <1>6, <3>1 DEF ScanFacts
    <3>3. job \in Meant /\ ~Found(job) /\ made[job].is = "object"
      <4>1. k + 1 \in 1..d
        BY <1>6, <3>2
      <4> QED
        BY <1>3, <1>6, <3>1, <3>2, <4>1, UntilFacts
           DEF ScanFacts, Found, ListedUntil
    <3>4. op' = CreateIfNotExists(o, job)
      BY <1>7, <2>2 DEF job
    <3>5. /\ op' \in Ops /\ op'.todo = o.todo /\ op'.subscribed
          /\ Starts(op') /\ op'.job = job
      BY <1>1, <1>8, <3>3, <3>4, CreateIfNotExistsFacts
    <3>6. op'.pc \in {"apply", "create"}
      BY <3>5 DEF Starts
    <3>7. CreatesNext(k, d)'
      BY <1>2, <1>3, <1>6, <1>9, <3>1, <3>2, <3>5, <3>6 DEF CreatesNext
    <3> QED
      BY <1>6, <1>8, <3>5, <3>7 DEF Stage
  <2> QED
    BY <2>1, <2>2
<1>11. Chain'
  <2>1. Left(d)'
    BY <1>1, <1>2, <1>6, <1>10, LeftKept
  <2> QED
    BY <1>1, <1>2, <1>5, <1>6, <1>9, <1>10, <2>1, ChainKept
<1>12. ProfileInv'
  <2>1. CASE op'.pc = "watch"
    BY <1>1, <1>2, <2>1, ProfileKept
  <2>2. CASE Starts(op')
    BY <1>1, <1>2, <2>2, ProfileBegun
  <2> QED
    BY <1>10, <2>1, <2>2
<1>13. RoleInv'
  BY <1>1, <1>2, <1>3, <1>10, FixedKept DEF RoleInv
<1> QED
  BY <1>3, <1>4, <1>11, <1>12, <1>13 DEF IInv

LEMMA CrashKeeps ==
    ASSUME IInv, Crash PROVE IInv'
<1> DEFINE n == Len(Kept)
<1>1. /\ FixedInv /\ RoleInv /\ Chain /\ JobInv /\ HashInv /\ ResultInv
      /\ ProfileInv
  BY DEF IInv
<1>2. /\ UNCHANGED fixed /\ UNCHANGED <<hashes, results>>
      /\ UNCHANGED <<jobs, pods, profile>> /\ UNCHANGED <<mishaps, panicked>>
  BY DEF Crash, status, cluster
<1>3. /\ ScanFacts /\ FixedInv' /\ Ops' = Ops /\ Kept' = Kept
      /\ Meant' = Meant
  BY <1>1, <1>2, ScanHolds, FixedKept, OpsKept
<1>4. JobInv' /\ ResultInv' /\ HashInv'
  BY <1>1, <1>2, JobsKept, HashKept
<1>5. /\ op' = Idle /\ waiting' = <<>> /\ completions' = <<>>
      /\ restarts < MaxRestarts /\ restarts' = restarts + 1
  BY DEF Crash
<1>6. /\ op' \in Ops /\ op'.pc = "idle" /\ ~op'.subscribed
      /\ op'.todo = <<>>
  BY <1>5, IdleFacts
<1>7. PICK k, d \in 0..n : ChainAt(k, d)
  BY <1>1 DEF Chain
<1>8. PICK e \in 0..n : e = n
  BY <1>3 DEF ScanFacts
<1>9. Left(e)'
  <2> PICK m \in 0..Len(scanned) : m = Len(scanned)
    BY <1>3 DEF ScanFacts
  <2>1. Count(m) = e /\ Rest(m) = <<>>
    BY <1>3, <1>8, NothingYet DEF ScanFacts
  <2>2. /\ Count(m)' = Count(m) /\ Rest(m)' = Rest(m)
        /\ scanned' = scanned
    BY <1>1, <1>2, FixedKept
  <2> QED
    BY <1>6, <2>1, <2>2 DEF Left
<1>10. Stage(k, e)'
  BY <1>5, <1>6 DEF Stage, AtRest
<1>11. Chain'
  BY <1>1, <1>2, <1>6, <1>7, <1>9, <1>10, ChainKept
<1>12. ProfileInv'
  BY <1>1, <1>2, <1>6, ProfileKept
<1>13. RoleInv'
  <2>1. restarts' \in 0..MaxRestarts
    BY <1>1, <1>5, BoundAssumption DEF RoleInv
  <2> QED
    BY <1>1, <1>2, <1>3, <1>6, <2>1, FixedKept DEF RoleInv
<1> QED
  BY <1>3, <1>4, <1>11, <1>12, <1>13 DEF IInv

-----------------------------------------------------------------------------
(***************************************************************************)
(* What the jobs do.                                                       *)
(***************************************************************************)
LEMMA UpdateFuncFacts ==
    ASSUME UNCHANGED fixed, NEW job, NEW phase \in Phases,
           jobs[job].phase \in {"pending", "running"},
           jobs'[job].phase = phase, UpdateFunc(job, phase)
    PROVE  /\ ~Done(job)
           /\ \/ completions' = completions
              \/ /\ op.subscribed /\ completions' = Append(completions, job)
                 /\ Done(job)'
<1>1. spec' = spec
  BY DEF fixed
<1>2. jobs[job].phase \in Phases /\ jobs[job].phase # "succeeded"
  BY DEF Phases
<1>3. /\ CheckComplete(AdaptorOf(spec.adaptor), StatusAt(phase))
           <=> phase = "succeeded" /\ Known(spec)
      /\ ~CheckComplete(AdaptorOf(spec.adaptor), StatusAt(jobs[job].phase))
  BY <1>2, SeenComplete
<1>4. completions' = IF op.subscribed /\ phase = "succeeded" /\ Known(spec)
                     THEN Append(completions, job) ELSE completions
  BY <1>3 DEF UpdateFunc
<1> QED
  BY <1>1, <1>2, <1>4 DEF Done

\* The job that goes on is the last one created, at a time when the goroutine
\* does not count on its end.
LEMMA JobChain ==
    ASSUME FixedInv, Chain, UNCHANGED <<fixed, hashes, op, waiting>>,
           NEW job \in DOMAIN jobs, ~Done(job), DOMAIN jobs' = DOMAIN jobs,
           \A j \in DOMAIN jobs \ {job} : jobs'[j] = jobs[j],
           \/ completions' = completions
           \/ /\ op.subscribed /\ completions' = Append(completions, job)
              /\ Done(job)'
    PROVE  Chain'
<1> DEFINE n == Len(Kept)
<1>1. PICK k, d \in 0..n : ChainAt(k, d)
  BY DEF Chain
<1>2. /\ ScanFacts /\ Kept' = Kept /\ spec' = spec
      /\ \A m : Until(m)' = Until(m) /\ After(m)' = After(m)
      /\ \A m, e : Between(m, e)' = Between(m, e)
      /\ \A m : ListedUntil(m)' <=> ListedUntil(m)
      /\ Left(d)'
  BY <1>1, ScanHolds, FixedKept, ListedKept, LeftKept DEF ChainAt
<1>3. DOMAIN jobs = Until(k) /\ EndedUntil(k - 1) /\ Stage(k, d)
  BY <1>1 DEF ChainAt
<1>4. /\ k \in 1..n /\ job = Kept[k] /\ ~EndedUntil(k)
      /\ \A i \in 1..(k - 1) : Kept[i] # job
  BY <1>2, <1>3, LastUnended
<1>5. \A i \in 1..(k - 1) : jobs'[Kept[i]] = jobs[Kept[i]]
  <2>1. \A i \in 1..(k - 1) : i \in 1..k
    BY <1>1
  <2> QED
    BY <1>3, <1>4, <2>1 DEF Until
<1>6. EndedUntil(k - 1)'
  BY <1>3, <1>5, EndedKept
<1>7. ASSUME Done(job)' PROVE EndedUntil(k)'
  <2>1. \A i \in 1..k : i \in 1..(k - 1) \/ i = k
    BY <1>1
  <2>2. \A i \in 1..(k - 1) : Done(Kept[i])'
    BY <1>2, <1>6 DEF EndedUntil
  <2>3. Done(Kept[k])'
    <3>1. jobs'[Kept[k]].phase = "succeeded" /\ Known(spec)'
      BY <1>4, <1>7 DEF Done
    <3> QED
      BY <1>2, <3>1 DEF Done
  <2> QED
    BY <1>2, <2>1, <2>2, <2>3 DEF EndedUntil
<1>8. Stage(k, d)'
  <2>1. CASE op.subscribed /\ completions' = Append(completions, job)
             /\ Done(job)'
    <3>1. Watches(k, d) /\ completions = <<>>
      BY <1>3, <1>4, <2>1 DEF Stage, AtRest, ScansWhatEnded, ScansWhatWaits,
         CreatesFirst, Watches, WorksOff, CreatesNext, Refused
    <3>2. completions' = <<Kept[k]>>
      BY <1>4, <2>1, <3>1
    <3>3. k >= 1
      BY <1>4
    <3>4. Watches(k, d)'
      BY <1>2, <1>7, <2>1, <3>1, <3>2, <3>3 DEF Watches
    <3> QED
      BY <3>4 DEF Stage
  <2>2. CASE completions' = completions
    <3>1. CASE AtRest
      BY <2>2, <3>1 DEF Stage, AtRest
    <3>2. CASE ScansWhatEnded(k, d)
      <4>1. d # k
        BY <1>4, <3>2 DEF ScansWhatEnded
      <4>2. \A i \in 1..d : i \in 1..(k - 1)
        BY <1>1, <3>2, <4>1 DEF ScansWhatEnded
      <4>3. EndedUntil(d)'
        BY <1>5, <3>2, <4>2, EndedKept DEF ScansWhatEnded
      <4> QED
        BY <2>2, <3>2, <4>3 DEF Stage, ScansWhatEnded
    <3>3. CASE ScansWhatWaits(k, d)
      BY <1>2, <2>2, <3>3 DEF Stage, ScansWhatWaits
    <3>4. CASE Watches(k, d)
      <4>1. completions = <<>>
        BY <1>4, <3>4 DEF Watches
      <4> QED
        BY <1>2, <2>2, <3>4, <4>1 DEF Stage, Watches
    <3> QED
      BY <1>3, <1>4, <3>1, <3>2, <3>3, <3>4
         DEF Stage, CreatesFirst, WorksOff, CreatesNext, Refused
  <2> QED
    BY <2>1, <2>2
<1>9. ChainAt(k, d)'
  BY <1>1, <1>2, <1>6, <1>8 DEF ChainAt
<1> QED
  BY <1>2, <1>9 DEF Chain

\* What a step of a job keeps but for the pods, the profiles and the mishaps.
LEMMA JobKeeps ==
    ASSUME IInv, NEW job \in DOMAIN jobs, NEW phase \in Phases,
           NEW node \in Nodes \cup {None},
           jobs[job].phase \in {"pending", "running"},
           jobs' = [jobs EXCEPT ![job] = [phase |-> phase, node |-> node]],
           UpdateFunc(job, phase),
           UNCHANGED <<fixed, status, profile, op, waiting, restarts, panicked>>,
           mishaps' \subseteq mishaps \cup Mishaps,
           mishaps \subseteq mishaps'
    PROVE  /\ FixedInv' /\ RoleInv' /\ Chain' /\ HashInv' /\ ResultInv'
           /\ DOMAIN jobs' = DOMAIN jobs
           /\ jobs'[job] = [phase |-> phase, node |-> node]
           /\ \A j \in DOMAIN jobs' :
                jobs'[j] \in [phase : Phases, node : Nodes \cup {None}]
           /\ RunsRight(job)' => ProfileInv'
<1> DEFINE new == [phase |-> phase, node |-> node]
<1>1. /\ FixedInv /\ RoleInv /\ Chain /\ JobInv /\ HashInv /\ ResultInv
      /\ ProfileInv /\ UNCHANGED <<hashes, results>>
  BY DEF IInv, status
<1>2. /\ FixedInv' /\ Ops' = Ops /\ Meant' = Meant
      /\ Kept' = Kept /\ spec' = spec /\ made' = made
  BY <1>1, FixedKept, OpsKept
<1> HIDE DEF new
<1>3. /\ DOMAIN jobs' = DOMAIN jobs /\ jobs'[job] = new
      /\ \A j \in DOMAIN jobs \ {job} : jobs'[j] = jobs[j]
  BY DEF new
<1>4. new.phase = phase /\ new \in [phase : Phases, node : Nodes \cup {None}]
  BY DEF new
<1>5. /\ ~Done(job)
      /\ \/ completions' = completions
         \/ /\ op.subscribed /\ completions' = Append(completions, job)
            /\ Done(job)'
  BY <1>3, <1>4, UpdateFuncFacts
<1>6. Chain'
  BY <1>1, <1>3, <1>5, JobChain
<1>7. ResultInv'
  <2>1. \A j \in DOMAIN jobs :
          j \in DOMAIN jobs' /\ (Done(j) => jobs'[j] = jobs[j])
    BY <1>3, <1>5
  <2> QED
    BY <1>1, <2>1, ResultsKept
<1>8. HashInv'
  BY <1>1, <1>2, <1>3 DEF HashInv
<1>9. RoleInv'
  BY <1>1, <1>2 DEF RoleInv, Mishaps
<1>10. \A j \in DOMAIN jobs' :
         jobs'[j] \in [phase : Phases, node : Nodes \cup {None}]
  BY <1>1, <1>3, <1>4 DEF JobInv
<1>11. ASSUME RunsRight(job)' PROVE ProfileInv'
  <2>1. PICK k, d \in 0..Len(Kept) : ChainAt(k, d)
    BY <1>1 DEF Chain
  <2>2. op.pc \notin {"apply", "create", "unlabel", "next"}
    BY <1>1, <1>5, <2>1, AllEnded, ScanHolds
  <2>3. op'.pc \notin {"apply", "create", "unlabel"}
    BY <2>2
  <2>4. Labelling(spec) => \A j \in DOMAIN jobs \ {job} : RunsRight(j)'
    BY <1>1, <1>3, RunsRightKept DEF ProfileInv
  <2>5. /\ Labelling(spec)' <=> Labelling(spec)
        /\ Selecting(spec)' <=> Selecting(spec)
    BY <1>2
  <2>6. Labelling(spec) => \A j \in DOMAIN jobs' : RunsRight(j)'
    BY <1>3, <1>11, <2>4
  <2> QED
    BY <1>1, <2>3, <2>5, <2>6 DEF ProfileInv
<1> QED
  BY <1>2, <1>3, <1>6, <1>7, <1>8, <1>9, <1>10, <1>11 DEF new

\* Who changes only the phase.
LEMMA PhaseSet ==
    ASSUME JobInv, NEW job \in DOMAIN jobs, NEW phase
    PROVE  /\ [jobs EXCEPT ![job].phase = phase]
                = [jobs EXCEPT ![job] =
                     [phase |-> phase, node |-> jobs[job].node]]
           /\ jobs[job].node \in Nodes \cup {None}
<1>1. jobs[job] \in [phase : Phases, node : Nodes \cup {None}]
  BY DEF JobInv
<1>2. [jobs[job] EXCEPT !.phase = phase]
        = [phase |-> phase, node |-> jobs[job].node]
  BY <1>1
<1> QED
  BY <1>1, <1>2

LEMMA JobFailsKeeps ==
    ASSUME IInv, NEW job \in DOMAIN jobs, JobFails(job) PROVE IInv'
<1>1. JobInv
  BY DEF IInv
<1>2. /\ jobs[job].phase = "running"
      /\ jobs' = [jobs EXCEPT ![job].phase = "failed"]
      /\ mishaps' = mishaps \cup {"job"} /\ UpdateFunc(job, "failed")
      /\ UNCHANGED <<fixed, status, profile, op, waiting, restarts, panicked>>
      /\ pods' = pods
  BY DEF JobFails
<1>3. /\ jobs' = [jobs EXCEPT ![job] =
                    [phase |-> "failed", node |-> jobs[job].node]]
      /\ mishaps' \subseteq mishaps \cup Mishaps /\ mishaps \subseteq mishaps'
      /\ jobs[job].node \in Nodes \cup {None} /\ "failed" \in Phases
  BY <1>1, <1>2, PhaseSet DEF Phases, Mishaps
<1>4. /\ FixedInv' /\ RoleInv' /\ Chain' /\ HashInv' /\ ResultInv'
      /\ DOMAIN jobs' = DOMAIN jobs
      /\ jobs'[job] = [phase |-> "failed", node |-> jobs[job].node]
      /\ \A j \in DOMAIN jobs' :
           jobs'[j] \in [phase : Phases, node : Nodes \cup {None}]
      /\ RunsRight(job)' => ProfileInv'
  BY <1>2, <1>3, JobKeeps
<1>5. RunsRight(job)'
  <2>1. jobs'[job].phase = "failed"
    BY <1>4
  <2> QED
    BY <2>1 DEF RunsRight
<1>6. JobInv'
  BY <1>1, <1>2, <1>4 DEF JobInv
<1> QED
  BY <1>4, <1>5, <1>6 DEF IInv

\* The pods of a job that succeeds come after those that there are.
LEMMA PodsOfSuccess ==
    ASSUME JobInv, NEW job \in DOMAIN jobs, NEW tries \in {1, 2},
           NEW mpi \in BOOLEAN
    PROVE  pods \o [i \in 1..(tries - 1) |-> Pod(job, "launcher", "Failed")]
                \o <<Pod(job, "launcher", "Succeeded")>>
                \o (IF mpi THEN <<Pod(job, "worker", "Running")>> ELSE <<>>)
             \in Seq([job : DOMAIN jobs, role : {"launcher", "worker"},
                      phase : {"Failed", "Running", "Succeeded"},
                      deleted : BOOLEAN])
<1> DEFINE P == [job : DOMAIN jobs, role : {"launcher", "worker"},
                 phase : {"Failed", "Running", "Succeeded"}, deleted : BOOLEAN]
           failed == Pod(job, "launcher", "Failed")
           good == Pod(job, "launcher", "Succeeded")
           more == Pod(job, "worker", "Running")
           first == [i \in 1..(tries - 1) |-> failed]
           last == IF mpi THEN <<more>> ELSE <<>>
<1>1. failed \in P /\ good \in P /\ more \in P /\ pods \in Seq(P)
  BY DEF Pod, JobInv
<1> HIDE DEF P, failed, good, more
<1>2. first \in Seq(P)
  <2>1. tries - 1 \in Nat
    OBVIOUS
  <2> QED
    BY <1>1, <2>1
<1>3. last \in Seq(P) /\ <<good>> \in Seq(P)
  BY <1>1
<1> HIDE DEF first, last
<1>4. pods \o first \in Seq(P)
  BY <1>1, <1>2
<1>5. pods \o first \o <<good>> \in Seq(P)
  BY <1>3, <1>4
<1>6. pods \o first \o <<good>> \o last \in Seq(P)
  BY <1>3, <1>5
<1> QED
  BY <1>6 DEF P, failed, good, more, first, last

LEMMA JobSucceedsKeeps ==
    ASSUME IInv, NEW job \in DOMAIN jobs, JobSucceeds(job) PROVE IInv'
<1>1. JobInv
  BY DEF IInv
<1>2. PICK tries \in {1, 2} :
        /\ pods' = pods
             \o [i \in 1..(tries - 1) |-> Pod(job, "launcher", "Failed")]
             \o <<Pod(job, "launcher", "Succeeded")>>
             \o (IF spec.adaptor = "mpi" THEN <<Pod(job, "worker", "Running")>>
                                         ELSE <<>>)
        /\ mishaps' = mishaps \cup (IF tries = 1 THEN {} ELSE {"pod"})
                             \cup (IF op.subscribed THEN {} ELSE {"early"})
  BY Zenon DEF JobSucceeds
<1>3. /\ jobs[job].phase = "running"
      /\ jobs' = [jobs EXCEPT ![job].phase = "succeeded"]
      /\ UpdateFunc(job, "succeeded")
      /\ UNCHANGED <<fixed, status, profile, op, waiting, restarts, panicked>>
  BY Zenon DEF JobSucceeds
<1>4. /\ mishaps' \subseteq mishaps \cup Mishaps
      /\ mishaps \subseteq mishaps'
  BY <1>2 DEF Mishaps
<1>5. /\ jobs' = [jobs EXCEPT ![job] =
                    [phase |-> "succeeded", node |-> jobs[job].node]]
      /\ jobs[job].node \in Nodes \cup {None} /\ "succeeded" \in Phases
  BY <1>1, <1>3, PhaseSet DEF Phases
<1>6. /\ FixedInv' /\ RoleInv' /\ Chain' /\ HashInv' /\ ResultInv'
      /\ DOMAIN jobs' = DOMAIN jobs
      /\ jobs'[job] = [phase |-> "succeeded", node |-> jobs[job].node]
      /\ \A j \in DOMAIN jobs' :
           jobs'[j] \in [phase : Phases, node : Nodes \cup {None}]
      /\ RunsRight(job)' => ProfileInv'
  BY <1>3, <1>4, <1>5, JobKeeps
<1>7. RunsRight(job)'
  <2>1. jobs'[job].phase = "succeeded"
    BY <1>6
  <2> QED
    BY <2>1 DEF RunsRight
<1>8. JobInv'
  <2> DEFINE mpi == spec.adaptor = "mpi"
  <2>1. mpi \in BOOLEAN
    OBVIOUS
  <2>2. pods' \in Seq([job : DOMAIN jobs, role : {"launcher", "worker"},
                       phase : {"Failed", "Running", "Succeeded"},
                       deleted : BOOLEAN])
    BY <1>1, <1>2, <2>1, PodsOfSuccess
  <2> QED
    BY <1>6, <2>2 DEF JobInv
<1> QED
  BY <1>6, <1>7, <1>8 DEF IInv

\* A selector whose labels have dots has none of the profile's name.
LEMMA SelectorNames ==
    ASSUME NEW s, Labelling(s)
    PROVE  <<PROFILE>> \notin DOMAIN Selection(s).selector
<1>1. \A l \in DOMAIN Selection(s).selector : Len(l) >= 2
  BY DEF Labelling, Dotted
<1> DEFINE m == Len(<<PROFILE>>)
<1>2. m = 1
  OBVIOUS
<1> SUFFICES ASSUME <<PROFILE>> \in DOMAIN Selection(s).selector PROVE FALSE
  OBVIOUS
<1>3. m >= 2
  BY <1>1
<1> HIDE DEF m
<1> QED
  BY <1>2, <1>3

\* A node that a job can run on carries its profile, or is one that the
\* selector matches.
LEMMA CanRunFacts ==
    ASSUME FixedInv, Labelling(spec), NEW job \in Meant, NEW n \in Nodes,
           made[job].is = "object", CanRun(job, n)
    PROVE  IF IsDefault(job) THEN n \in getNodeList(spec)
           ELSE profile[n] = job.label[PROFILE]
<1> DEFINE selector == Selection(spec).selector
           name == <<PROFILE>>
           asked == made[job].asked
<1>1. asked = AskedFor(spec, job)
  BY MadeHolds DEF MadeFacts
<1>2. \A l \in DOMAIN asked :
        IF l = name THEN asked[l] = Scalar(profile[n])
        ELSE l \in DOMAIN NodeLabels[n] /\ asked[l] = Scalar(NodeLabels[n][l])
  BY DEF CanRun
<1>3. \A x, y : Scalar(x) = Scalar(y) => x = y
  <2> SUFFICES ASSUME NEW x, NEW y, Scalar(x) = Scalar(y) PROVE x = y
    OBVIOUS
  <2>1. Scalar(x).text = x /\ Scalar(y).text = y
    BY DEF Scalar
  <2> QED
    BY <2>1
<1>4. name \notin DOMAIN selector
  BY SelectorNames
<1> HIDE DEF asked, name, selector
<1>5. CASE ~IsDefault(job)
  <2>1. name \in DOMAIN asked /\ asked[name] = Scalar(job.label[PROFILE])
    BY <1>1, <1>5 DEF AskedFor, IsDefault, name
  <2> QED
    BY <1>2, <1>3, <1>5, <2>1
<1>6. CASE IsDefault(job)
  <2>1. \A l \in DOMAIN selector :
          l \in DOMAIN asked /\ asked[l] = Scalar(selector[l])
    BY <1>1, <1>6 DEF AskedFor, IsDefault, selector
  <2>2. \A l \in DOMAIN selector :
          l \in DOMAIN NodeLabels[n] /\ NodeLabels[n][l] = selector[l]
    BY <1>2, <1>3, <1>4, <2>1
  <2>3. n \in getNodeList(spec)
    BY <2>2 DEF getNodeList, selector
  <2> QED
    BY <1>6, <2>3
<1> QED
  BY <1>5, <1>6

LEMMA JobStartsKeeps ==
    ASSUME IInv, NEW job \in DOMAIN jobs, JobStarts(job) PROVE IInv'
<1>1. JobInv /\ FixedInv /\ Chain /\ ProfileInv /\ HashInv
  BY DEF IInv
<1>2. PICK n \in Nodes :
        /\ CanRun(job, n)
        /\ jobs' = [jobs EXCEPT ![job].phase = "running", ![job].node = n]
  BY Zenon DEF JobStarts
<1>3. /\ jobs[job].phase = "pending" /\ UpdateFunc(job, "running")
      /\ mishaps' \subseteq mishaps \cup Mishaps /\ mishaps \subseteq mishaps'
      /\ UNCHANGED <<fixed, status, profile, op, waiting, restarts, panicked>>
      /\ pods' = pods /\ mishaps' = mishaps
  BY DEF JobStarts
<1>4. jobs' = [jobs EXCEPT ![job] = [phase |-> "running", node |-> n]]
  <2> DEFINE mid == [jobs EXCEPT ![job].phase = "running"]
             r == [phase |-> "running", node |-> jobs[job].node]
  <2>1. mid = [jobs EXCEPT ![job] = r]
    BY <1>1, PhaseSet
  <2>2. jobs' = [mid EXCEPT ![job].node = n]
    BY <1>2
  <2> HIDE DEF mid
  <2>3. DOMAIN mid = DOMAIN jobs /\ mid[job] = r
    BY <2>1
  <2>4. [r EXCEPT !.node = n] = [phase |-> "running", node |-> n]
    OBVIOUS
  <2>5. jobs' = [mid EXCEPT ![job] = [r EXCEPT !.node = n]]
    BY <2>2, <2>3
  <2> HIDE DEF r
  <2> QED
    BY <2>1, <2>4, <2>5
<1>5. n \in Nodes \cup {None} /\ "running" \in Phases
  BY DEF Phases
<1>6. /\ FixedInv' /\ RoleInv' /\ Chain' /\ HashInv' /\ ResultInv'
      /\ DOMAIN jobs' = DOMAIN jobs
      /\ jobs'[job] = [phase |-> "running", node |-> n]
      /\ \A j \in DOMAIN jobs' :
           jobs'[j] \in [phase : Phases, node : Nodes \cup {None}]
      /\ RunsRight(job)' => ProfileInv'
  BY <1>3, <1>4, <1>5, JobKeeps
<1>7. JobInv'
  BY <1>1, <1>3, <1>6 DEF JobInv
<1>8. spec' = spec /\ ScanFacts
  BY <1>1, <1>3, FixedKept, ScanHolds
<1>9. ProfileInv'
  <2>1. CASE Labelling(spec)
    <3>1. job \in Meant /\ made[job].is = "object"
      <4>1. PICK k, d \in 0..Len(Kept) : ChainAt(k, d)
        BY <1>1 DEF Chain
      <4> QED
        BY <1>1, <1>8, <4>1, UntilFacts DEF ChainAt, HashInv
    <3>2. IF IsDefault(job) THEN n \in getNodeList(spec)
          ELSE profile[n] = job.label[PROFILE]
      BY <1>1, <1>2, <2>1, <3>1, CanRunFacts
    <3>3. IsDefault(job) => \/ "patch" \in mishaps
                            \/ \A m \in getNodeList(spec) : profile[m] = NULL_VALUE_STR
      BY <1>1, <1>3, <2>1 DEF ProfileInv, RunsRight
    <3>4. getNodeList(spec)' = getNodeList(spec)
      BY <1>8 DEF getNodeList
    <3>5. jobs'[job].node = n /\ n \in Nodes
      BY <1>6
    <3>6. RunsRight(job)'
      BY <1>3, <1>8, <3>2, <3>3, <3>4, <3>5 DEF RunsRight, IsDefault
    <3> QED
      BY <1>6, <3>6
  <2>2. CASE ~Labelling(spec)
    <3>1. /\ Labelling(spec)' <=> Labelling(spec)
          /\ Selecting(spec)' <=> Selecting(spec)
      BY <1>8
    <3> QED
      BY <1>1, <1>3, <2>2, <3>1 DEF ProfileInv
  <2> QED
    BY <2>1, <2>2
<1> QED
  BY <1>6, <1>7, <1>9 DEF IInv

\* The pods with those of a set marked as deleted.
PodsOf(S) == Seq([job : S, role : {"launcher", "worker"},
                  phase : {"Failed", "Running", "Succeeded"},
                  deleted : BOOLEAN])
MarkedIn(p, L) ==
    [i \in 1..Len(p) |-> [p[i] EXCEPT !.deleted = @ \/ p[i] \in L]]

LEMMA PodsMarked ==
    ASSUME NEW S, NEW L, NEW p \in PodsOf(S)
    PROVE  MarkedIn(p, L) \in PodsOf(S)
<1> USE DEF PodsOf, MarkedIn
<1> DEFINE P == [job : S, role : {"launcher", "worker"},
                 phase : {"Failed", "Running", "Succeeded"},
                 deleted : BOOLEAN]
<1>1. ASSUME NEW x \in P
      PROVE  [x EXCEPT !.deleted = @ \/ x \in L] \in P
  <2> DEFINE b == x.deleted \/ x \in L
  <2>1. b \in BOOLEAN
    OBVIOUS
  <2>2. [x EXCEPT !.deleted = @ \/ x \in L] = [x EXCEPT !.deleted = b]
    OBVIOUS
  <2> HIDE DEF b
  <2>3. [x EXCEPT !.deleted = b] \in P
    BY <2>1
  <2> QED
    BY <2>2, <2>3
<1> DEFINE Marked(x) == [x EXCEPT !.deleted = @ \/ x \in L]
<1>2. \A x \in P : Marked(x) \in P
  BY <1>1
<1>3. p \in Seq(P)
  OBVIOUS
<1> HIDE DEF Marked, P
<1>4. Len(p) \in Nat /\ \A i \in 1..Len(p) : p[i] \in P
  BY <1>3
<1>5. [i \in 1..Len(p) |-> Marked(p[i])] \in Seq(P)
  BY <1>2, <1>4
<1> QED
  BY <1>5 DEF Marked, P

LEMMA WorkerCollectKeeps ==
    ASSUME IInv, WorkerCollect PROVE IInv'
<1> DEFINE n == Len(Kept)
           job == Head(completions)
           listed == GetPodList(AdaptorOf(spec.adaptor), job, PodsLeft)
           valid == \E i \in 1..Len(listed) : listed[i].phase = "Succeeded"
           filed == [job |-> job,
                     filed |-> GetDetailFromJobName(spec, hashes, job)]
           marked == [i \in 1..Len(pods) |->
                        [pods[i] EXCEPT !.deleted = @ \/ pods[i] \in Range(listed)]]
<1>1. /\ FixedInv /\ RoleInv /\ Chain /\ JobInv /\ HashInv /\ ResultInv
      /\ ProfileInv
  BY DEF IInv
<1>2. /\ UNCHANGED fixed /\ UNCHANGED <<hashes, jobs, profile, waiting>>
      /\ UNCHANGED <<restarts, mishaps, panicked>>
      /\ completions' = Tail(completions)
      /\ op.pc = "watch" /\ completions # <<>>
  BY DEF WorkerCollect
<1>3. /\ ScanFacts /\ FixedInv' /\ Ops' = Ops /\ Kept' = Kept
      /\ Meant' = Meant /\ spec' = spec /\ op \in Ops
  BY <1>1, <1>2, ScanHolds, FixedKept, OpsKept DEF RoleInv
<1>4. results' = results \/ results' = results \cup {filed}
  BY Zenon DEF WorkerCollect, updateBenchmarkStatus
<1>5. pods' = pods \/ pods' = marked
  BY Zenon DEF WorkerCollect
<1>6. \/ op' = op
      \/ Selecting(spec)
           /\ op' = [op EXCEPT !.pc = "unlabel", !.nodes = getNodeList(spec)]
      \/ op' = [op EXCEPT !.pc = "next"]
  BY Zenon DEF WorkerCollect
<1> HIDE DEF listed, valid, marked
<1>7. PICK k, d \in 0..n : ChainAt(k, d)
  BY <1>1 DEF Chain
<1>8. /\ op.subscribed /\ d = n /\ waiting = After(k) /\ k >= 1
      /\ completions = <<Kept[k]>> /\ EndedUntil(k) /\ Left(d)
      /\ DOMAIN jobs = Until(k) /\ ListedUntil(d)
  BY <1>2, <1>7, StageOf DEF ChainAt, Watches, Refused
<1>9. job = Kept[k] /\ completions' = <<>> /\ k \in 1..k /\ k \in 1..n
  BY <1>2, <1>3, <1>7, <1>8 DEF ScanFacts
<1> HIDE DEF job
<1>10. job \in Meant /\ job \in DOMAIN jobs /\ Done(job)
  BY <1>3, <1>8, <1>9 DEF ScanFacts, Until, EndedUntil
<1>11. /\ op' \in Ops /\ op'.todo = op.todo /\ op'.subscribed
       /\ \/ op'.pc = "watch" \/ op'.pc = "next"
          \/ op'.pc = "unlabel" /\ Selecting(spec)
  <2> DEFINE b == op.subscribed
             w == op.isNew
             R(pc, nodes) == [pc |-> pc, subscribed |-> b, todo |-> op.todo,
                              isNew |-> w, job |-> op.job, nodes |-> nodes]
  <2>1. /\ b \in BOOLEAN /\ op.todo \in Seq(Meant) /\ w \in BOOLEAN
        /\ op.nodes \in SUBSET Nodes /\ op.job \in Meant \cup {None}
        /\ {"watch", "unlabel", "next"} \subseteq PCs
        /\ getNodeList(spec) \in SUBSET Nodes
    BY <1>3 DEF Ops, PCs, getNodeList
  <2>2. op = R(op.pc, op.nodes)
    BY <1>3 DEF Ops
  <2>3. b
    BY <1>8
  <2> HIDE DEF b, w
  <2>4. CASE op' = op
    BY <1>2, <1>3, <1>8, <2>4
  <2>5. CASE Selecting(spec)
             /\ op' = [op EXCEPT !.pc = "unlabel", !.nodes = getNodeList(spec)]
    <3> DEFINE mid == [op EXCEPT !.pc = "unlabel"]
    <3>1. mid = R("unlabel", op.nodes)
      BY <2>2
    <3>2. op' = [mid EXCEPT !.nodes = getNodeList(spec)]
      BY <2>5
    <3> HIDE DEF mid
    <3>3. op' = R("unlabel", getNodeList(spec))
      BY <3>1, <3>2
    <3> QED
      <4>1. op' \in Ops /\ op'.todo = op.todo /\ op'.pc = "unlabel"
        BY <2>1, <3>3 DEF Ops
      <4>2. op'.subscribed
        BY <2>3, <3>3
      <4> QED
        BY <2>5, <4>1, <4>2
  <2>6. CASE op' = [op EXCEPT !.pc = "next"]
    <3>1. op' = R("next", op.nodes)
      BY <2>2, <2>6
    <3> QED
      BY <2>1, <2>3, <3>1 DEF Ops
  <2> QED
    BY <1>6, <2>4, <2>5, <2>6
<1>12. RoleInv'
  BY <1>1, <1>2, <1>3, <1>11, FixedKept DEF RoleInv
<1>13. HashInv'
  BY <1>1, <1>2, HashKept
<1>14. JobInv'
  <2> DEFINE L == Range(listed)
  <2>1. pods \in PodsOf(DOMAIN jobs)
    BY <1>1 DEF JobInv, PodsOf
  <2>2. marked = MarkedIn(pods, L)
    BY DEF marked, MarkedIn
  <2> HIDE DEF L
  <2>3. pods' \in PodsOf(DOMAIN jobs)
    BY <1>5, <2>1, <2>2, PodsMarked
  <2> QED
    BY <1>1, <1>2, <2>3 DEF JobInv, PodsOf
<1>15. ResultInv'
  <2>1. GetDetailFromJobName(spec, hashes, job) = FiledAs(job)
    BY <1>1, <1>10, DetailIsOwn DEF HashInv
  <2>2. filed = [job |-> filed.job, filed |-> FiledAs(filed.job)]
        /\ filed.job = job
    BY <2>1
  <2>3. \A j : FiledAs(j)' = FiledAs(j) /\ (Done(j)' <=> Done(j))
    BY <1>2, <1>3 DEF FiledAs, Done
  <2> HIDE DEF filed
  <2>4. \A r \in results' : r \in results \/ r = filed
    BY <1>4
  <2> QED
    BY <1>1, <1>2, <1>10, <2>2, <2>3, <2>4 DEF ResultInv
<1>16. /\ \A m : After(m)' = After(m)
       /\ \A m : EndedUntil(m)' <=> EndedUntil(m)
       /\ \A m : ListedUntil(m)' <=> ListedUntil(m)
  BY <1>1, <1>2, FixedKept, JobsKept, ListedKept
<1>17. Stage(k, d)'
  <2>1. CASE op'.pc = "watch"
    <3>1. Watches(k, d)'
      BY <1>2, <1>3, <1>8, <1>9, <1>11, <1>16, <2>1 DEF Watches
    <3> QED
      BY <3>1 DEF Stage
  <2>2. CASE op'.pc \in {"unlabel", "next"}
    <3>1. WorksOff(k, d)'
      BY <1>2, <1>3, <1>8, <1>9, <1>11, <1>16, <2>2 DEF WorksOff
    <3> QED
      BY <3>1 DEF Stage
  <2> QED
    BY <1>11, <2>1, <2>2
<1>18. Chain'
  <2>1. Left(d)'
    BY <1>1, <1>2, <1>8, <1>11, LeftKept
  <2> QED
    BY <1>1, <1>2, <1>7, <1>8, <1>11, <1>16, <1>17, <2>1, ChainKept
<1>19. ProfileInv'
  <2>1. Labelling(spec) => \A j \in DOMAIN jobs : RunsRight(j)'
    BY <1>1, <1>2, RunsRightKept DEF ProfileInv
  <2>2. op'.pc \notin {"apply", "create"}
    BY <1>11
  <2>3. /\ Labelling(spec)' <=> Labelling(spec)
        /\ Selecting(spec)' <=> Selecting(spec)
    BY <1>3
  <2> QED
    BY <1>2, <1>11, <2>1, <2>2, <2>3 DEF ProfileInv
<1> QED
  BY <1>3, <1>12, <1>13, <1>14, <1>15, <1>18, <1>19 DEF IInv

\* Every action keeps the invariant.
LEMMA NextIInv == IInv /\ [Next]_vars => IInv'
<1> SUFFICES ASSUME IInv, [Next]_vars PROVE IInv'
  OBVIOUS
<1>1. CASE ScanStart
  BY <1>1, ScanStartKeeps
<1>2. CASE ScanJob
  BY <1>2, ScanJobKeeps
<1>3. CASE NewTracker
  BY <1>3, NewTrackerKeeps
<1>4. ASSUME NEW n \in Nodes, ApplyProfile(n) \/ DeleteLabel(n)
      PROVE  IInv'
  BY <1>4, ApplyProfileKeeps, DeleteLabelKeeps
<1>5. CASE CreateJob
  BY <1>5, CreateJobKeeps
<1>6. CASE WorkerCollect
  BY <1>6, WorkerCollectKeeps
<1>7. CASE DeployWaitingResource
  BY <1>7, DeployWaitingResourceKeeps
<1>8. CASE Crash
  BY <1>8, CrashKeeps
<1>9. ASSUME NEW job \in DOMAIN jobs, JobRuns(job) \/ JobFails(job)
      PROVE  IInv'
  BY <1>9, JobStartsKeeps, JobSucceedsKeeps, JobFailsKeeps DEF JobRuns
<1>10. CASE UNCHANGED vars
  <2>1. /\ FixedInv /\ RoleInv /\ Chain /\ JobInv /\ HashInv /\ ResultInv
        /\ ProfileInv
    BY DEF IInv
  <2>2. /\ UNCHANGED fixed /\ UNCHANGED <<hashes, results>>
        /\ UNCHANGED <<jobs, pods, profile>>
        /\ UNCHANGED <<op, waiting, completions>>
        /\ UNCHANGED <<restarts, mishaps, panicked>>
    BY <1>10 DEF vars, status, cluster
  <2>3. FixedInv' /\ Ops' = Ops /\ Kept' = Kept /\ spec' = spec
    BY <2>1, <2>2, FixedKept, OpsKept
  <2>4. JobInv' /\ ResultInv' /\ HashInv' /\ Chain'
    BY <2>1, <2>2, JobsKept, HashKept, StageKept
  <2>5. RoleInv'
    BY <2>1, <2>2, <2>3, FixedKept DEF RoleInv
  <2>6. ProfileInv'
    <3>1. Labelling(spec) => \A j \in DOMAIN jobs : RunsRight(j)'
      BY <2>1, <2>2, RunsRightKept DEF ProfileInv
    <3>2. /\ getNodeList(spec)' = getNodeList(spec)
          /\ Labelling(spec)' <=> Labelling(spec)
          /\ Selecting(spec)' <=> Selecting(spec)
      BY <2>3 DEF getNodeList
    <3> QED
      BY <2>1, <2>2, <2>3, <3>1, <3>2 DEF ProfileInv, IsDefault
  <2> QED
    BY <2>3, <2>4, <2>5, <2>6 DEF IInv
<1> QED
  BY <1>1, <1>2, <1>3, <1>4, <1>5, <1>6, <1>7, <1>8, <1>9, <1>10
     DEF Next, Operator

\* The jobs that have an object are created in the order of the scan, each
\* after those before it have been seen to end; until then the goroutine is
\* where it can only scan, watch or create the next; and what the hashes, the
\* results and the nodes' labels say of the jobs is right (CreateFromOperator,
\* ProcessJobQueue).
THEOREM InvariantHolds == Spec => []IInv
BY InitIInv, NextIInv, PTL DEF Spec

-----------------------------------------------------------------------------
(***************************************************************************)
(* What follows from it.                                                   *)
(***************************************************************************)
\* A part of a sequence that names each of its jobs once names them once.
LEMMA PartFacts ==
    ASSUME NEW T, NEW t \in Seq(T),
           \A i, k \in 1..Len(t) : t[i] = t[k] => i = k,
           NEW a \in Nat, NEW b \in Nat, 1 <= a, b <= Len(t)
    PROVE  /\ Range(SubSeq(t, a, b)) \subseteq T
           /\ IsInjective(SubSeq(t, a, b))
<1> DEFINE n == Len(t)
           s == SubSeq(t, a, b)
<1>1. /\ t \in Seq(T) /\ n \in Nat
      /\ \A i \in 1..n : t[i] \in T
      /\ \A i, k \in 1..n : t[i] = t[k] => i = k
  OBVIOUS
<1> HIDE DEF n
<1>2. /\ \A i \in DOMAIN s : i \in Nat /\ a + i - 1 \in 1..n
      /\ \A i \in DOMAIN s : s[i] = t[a + i - 1]
  <2>1. b <= n
    BY DEF n
  <2>2. CASE a <= b
    <3>1. DOMAIN s = 1..(b - a + 1)
      BY <1>1, <2>1, <2>2 DEF n
    <3>2. \A i \in 1..(b - a + 1) : s[i] = t[a + i - 1]
      BY <1>1, <2>1, <2>2 DEF n
    <3>3. \A i \in 1..(b - a + 1) : i \in Nat /\ a + i - 1 \in 1..n
      BY <1>1, <2>1, <2>2
    <3> HIDE DEF s
    <3> QED
      BY <3>1, <3>2, <3>3
  <2>3. CASE b < a
    <3>1. s = <<>>
      BY <1>1, <2>3
    <3> QED
      BY <3>1
  <2> QED
    BY <2>2, <2>3
<1> HIDE DEF s
<1>3. Range(s) \subseteq T
  <2>1. \A i \in DOMAIN s : s[i] \in T
    BY <1>1, <1>2
  <2> QED
    BY <2>1, Zenon DEF Range
<1>4. \A i, k \in DOMAIN s : s[i] = s[k] => i = k
  <2> SUFFICES ASSUME NEW i \in DOMAIN s, NEW k \in DOMAIN s, s[i] = s[k]
               PROVE  i = k
    OBVIOUS
  <2>1. a + i - 1 = a + k - 1
    BY <1>1, <1>2
  <2> QED
    BY <1>2, <2>1
<1> QED
  BY <1>3, <1>4 DEF IsInjective, s

\* Type correctness: only jobs of the benchmark are created, listed, queued
\* and deleted with their pods, and each waits at most once.
THEOREM TypeCorrect == Spec => []TypeOK
<1>1. IInv => TypeOK
  <2> SUFFICES ASSUME IInv PROVE TypeOK
    OBVIOUS
  <2>1. /\ FixedInv /\ RoleInv /\ Chain /\ JobInv /\ HashInv /\ ResultInv
        /\ ScanFacts
    BY ScanHolds DEF IInv
  <2> DEFINE n == Len(Kept)
             Good(s) == Range(s) \subseteq Meant /\ IsInjective(s)
  <2>2. PICK k, d \in 0..n : ChainAt(k, d)
    BY <2>1 DEF Chain
  <2>3. n \in Nat /\ k \in Nat /\ d \in Nat /\ k <= n /\ d <= n
    BY <2>1 DEF ScanFacts
  <2>4. Good(<<>>)
    BY DEF Range, IsInjective
  <2>5. \A m, e \in Nat : e <= n => Good(Between(m, e))
    <3>1. \A m \in Nat : m + 1 \in Nat /\ 1 <= m + 1
      OBVIOUS
    <3>2. /\ Kept \in Seq(Meant)
          /\ \A i, m \in 1..n : Kept[i] = Kept[m] => i = m
      BY <2>1 DEF ScanFacts
    <3> QED
      BY <3>1, <3>2, PartFacts DEF Between
  <2>6. \A m \in Nat : Good(After(m))
    <3>1. \A m : After(m) = Between(m, n)
      BY DEF After, Between
    <3> QED
      BY <2>3, <2>5, <3>1
  <2>7. ASSUME k >= 1 PROVE Good(<<Kept[k]>>)
    <3>1. Kept[k] \in Meant
      BY <2>1, <2>3, <2>7 DEF ScanFacts
    <3> QED
      BY <3>1 DEF Range, IsInjective
  <2> HIDE DEF Good
  <2>8. Good(completions)
    BY <2>2, <2>4, <2>7 DEF ChainAt, Stage, AtRest, ScansWhatEnded,
       ScansWhatWaits, CreatesFirst, Watches, WorksOff, CreatesNext, Refused
  <2>9. Good(waiting)
    <3>1. k + 1 \in Nat
      BY <2>3
    <3> QED
      BY <2>2, <2>3, <2>4, <2>5, <2>6, <3>1 DEF ChainAt, Stage, AtRest,
         ScansWhatEnded, ScansWhatWaits, CreatesFirst, Watches, WorksOff,
         CreatesNext, Refused
  <2>10. Good(op.todo)
    <3>1. PICK e \in 0..Len(scanned) : op.todo = Rest(e)
      BY <2>2 DEF ChainAt, Left
    <3>2. e + 1 \in Nat /\ 1 <= e + 1 /\ Len(scanned) \in Nat
      BY <2>1 DEF ScanFacts
    <3>3. /\ scanned \in Seq(Meant)
          /\ \A i, m \in 1..Len(scanned) : scanned[i] = scanned[m] => i = m
      BY <2>1 DEF ScanFacts
    <3>4. Len(scanned) <= Len(scanned)
      BY <3>2
    <3>5. Good(SubSeq(scanned, e + 1, Len(scanned)))
      BY <3>2, <3>3, <3>4, PartFacts DEF Good
    <3> QED
      BY <3>1, <3>5 DEF Rest
  <2>11. \A i \in 1..Len(hashes) : hashes[i].hash \in Meant
    <3> DEFINE H == {HashItem(j) : j \in Meant}
    <3>1. \A h \in H : h.hash \in Meant
      BY DEF HashItem
    <3> HIDE DEF H
    <3>2. hashes \in Seq(H)
      BY <2>1 DEF HashInv, H
    <3> QED
      BY <3>1, <3>2
  <2>12. \A i \in 1..Len(pods) : pods[i].job \in DOMAIN jobs
    <3> DEFINE P == [job : DOMAIN jobs, role : {"launcher", "worker"},
                     phase : {"Failed", "Running", "Succeeded"},
                     deleted : BOOLEAN]
    <3>1. \A p \in P : p.job \in DOMAIN jobs
      OBVIOUS
    <3> HIDE DEF P
    <3>2. pods \in Seq(P)
      BY <2>1 DEF JobInv, P
    <3> QED
      BY <3>1, <3>2
  <2>13. DOMAIN jobs \subseteq Meant
    BY <2>1, <2>2, UntilFacts DEF ChainAt
  <2>14. \A j \in DOMAIN jobs : /\ jobs[j].phase \in Phases
                                /\ jobs[j].node \in Nodes \cup {None}
    BY <2>1 DEF JobInv
  <2>15. /\ op.pc \in {"idle", "scan", "apply", "create", "watch", "unlabel",
                       "next"}
         /\ op.nodes \subseteq Nodes /\ op.job \in Meant \cup {None}
    <3>1. op \in Ops
      BY <2>1 DEF RoleInv
    <3> QED
      BY <3>1 DEF Ops, PCs
  <2>16. /\ spec \in Specs /\ Range(scanned) \subseteq Meant
         /\ \A r \in results : r.job \in DOMAIN jobs
    BY <2>1 DEF FixedInv, ScanFacts, ResultInv
  <2>17. /\ DOMAIN profile = Nodes
         /\ restarts \in 0..MaxRestarts
         /\ mishaps \subseteq {"patch", "job", "pod", "early", "create"}
         /\ panicked \in BOOLEAN
    BY <2>1 DEF RoleInv, Mishaps
  <2> QED
    BY <2>8, <2>9, <2>10, <2>11, <2>12, <2>13, <2>14, <2>15, <2>16, <2>17
       DEF TypeOK, Good
<1> QED
  BY <1>1, InvariantHolds, PTL

\* A job of a named profile runs on a node labelled with it as long as it
\* runs; a job without one on none that carries a named profile, unless a
\* node could not be patched; for selectors whose labels have dots
\* (CreateIfNotExists, ProcessJobQueue).
THEOREM ProfileHolds == Spec => []RunsUnderItsProfile
<1>1. IInv => RunsUnderItsProfile
  <2> SUFFICES ASSUME IInv, Dotted(spec), NEW j \in DOMAIN jobs,
                      jobs[j].phase = "running", PROFILE \in DOMAIN j.label
               PROVE  IF j.label[PROFILE] # DEFAULT
                      THEN profile[jobs[j].node] = j.label[PROFILE]
                      ELSE \/ "patch" \in mishaps
                           \/ profile[jobs[j].node] \in {Unlabelled, NULL_VALUE_STR}
    BY DEF RunsUnderItsProfile
  <2>1. FixedInv /\ Chain /\ ProfileInv /\ ScanFacts /\ MadeFacts
    BY ScanHolds, MadeHolds DEF IInv
  <2>2. PICK k, d \in 0..Len(Kept) : ChainAt(k, d)
    BY <2>1 DEF Chain
  <2>3. j \in Meant
    BY <2>1, <2>2, UntilFacts DEF ChainAt
  <2>4. Labelling(spec)
    BY <2>1, <2>3 DEF MadeFacts, Labelling
  <2>5. RunsRight(j)
    BY <2>1, <2>4 DEF ProfileInv
  <2> QED
    BY <2>5 DEF RunsRight, IsDefault
<1> QED
  BY <1>1, InvariantHolds, PTL

\* The object of each job created asks for the node labels of the selector
\* and of the job's profile, and for what the template asked, and for no
\* more, if the selector's labels have dots; and no other benchmark panics
\* than one without a first combination, without an object for it, or with
\* node labels to write into an object that has no place for them
\* (GetBenchmarkWithIteration's updates of one object).
THEOREM SelectionHolds == Spec => []AsksForItsNodes
<1>1. IInv => AsksForItsNodes
  <2> SUFFICES ASSUME IInv PROVE AsksForItsNodes
    OBVIOUS
  <2>1. /\ FixedInv /\ RoleInv /\ Chain /\ HashInv /\ ScanFacts
        /\ MadeFacts
    BY ScanHolds, MadeHolds DEF IInv
  <2>2. PICK k, d \in 0..Len(Kept) : ChainAt(k, d)
    BY <2>1 DEF Chain
  <2>3. DOMAIN jobs \subseteq Meant
    BY <2>1, <2>2, UntilFacts DEF ChainAt
  <2>4. Selecting(spec) /\ Dotted(spec) =>
          \A j \in DOMAIN jobs : made[j].asked = AskedFor(spec, j)
    BY <2>1, <2>3 DEF MadeFacts, HashInv, Labelling
  <2>5. panicked => MayPanic(spec)
    BY <2>1 DEF RoleInv
  <2> QED
    BY <2>4, <2>5, Zenon DEF AsksForItsNodes, AskedFor
<1> QED
  BY <1>1, InvariantHolds, PTL

\* Results are filed so that repetitions of a combination fall together and
\* nothing else does (updateBenchmarkStatus with GetDetailFromJobName).
THEOREM FilingHolds == Spec => []FiledWithItsRepetitions
<1>1. IInv => FiledWithItsRepetitions
  <2> SUFFICES ASSUME IInv, NEW r \in results, NEW s \in results
               PROVE  LET place(x) == <<x.filed.build, x.filed.iteration,
                                        x.filed.configuration>>
                      IN  /\ place(r) = place(s) <=>
                               (r.job.label = s.job.label
                                 /\ r.job.build = s.job.build)
                          /\ r # s /\ place(r) = place(s) =>
                               r.filed.repetition # s.filed.repetition
    BY Zenon DEF FiledWithItsRepetitions
  <2> DEFINE place(x) == <<x.filed.build, x.filed.iteration,
                           x.filed.configuration>>
             names == ItemNames(GetCombinedIterations(spec))
             its == names \cap ItemNames(spec.iteration)
             confs == names \ its
             a == r.job
             b == s.job
  <2>1. FixedInv /\ Chain /\ ResultInv /\ ScanFacts
    BY ScanHolds DEF IInv
  <2>2. PICK k, d \in 0..Len(Kept) : ChainAt(k, d)
    BY <2>1 DEF Chain
  <2>3. a \in Meant /\ b \in Meant
    BY <2>1, <2>2, UntilFacts DEF ChainAt, ResultInv
  <2>4. /\ r = [job |-> a, filed |-> FiledAs(a)]
        /\ s = [job |-> b, filed |-> FiledAs(b)]
    BY <2>1 DEF ResultInv
  <2>5. spec \in Specs /\ a \in JobsOf(spec) /\ b \in JobsOf(spec)
    BY <2>1, <2>3 DEF FixedInv, ScanFacts
  <2>6. /\ DOMAIN a.label = names /\ DOMAIN b.label = names
        /\ a = [label |-> a.label, build |-> a.build, repetition |-> a.repetition]
        /\ b = [label |-> b.label, build |-> b.build, repetition |-> b.repetition]
    BY <2>5, JobFacts
  <2>7. /\ a.label = [x \in DOMAIN a.label |-> a.label[x]]
        /\ b.label = [x \in DOMAIN b.label |-> b.label[x]]
    <3>1. a.label \in LabelsOf(spec) /\ b.label \in LabelsOf(spec)
      BY <2>5, JobsMeantByPart
    <3> DEFINE items == GetCombinedIterations(spec)
               D == NamesUntil(items, Len(items))
    <3>2. a.label \in [D -> STRING] /\ b.label \in [D -> STRING]
      BY <3>1 DEF LabelsOf, ChoicesUntil
    <3> HIDE DEF D
    <3> QED
      BY <3>2
  <2> HIDE DEF names, a, b
  <2>8. /\ r.filed = [build |-> a.build, iteration |-> Restrict(a.label, its),
                      configuration |-> Restrict(a.label, confs),
                      repetition |-> a.repetition]
        /\ s.filed = [build |-> b.build, iteration |-> Restrict(b.label, its),
                      configuration |-> Restrict(b.label, confs),
                      repetition |-> b.repetition]
    BY <2>4 DEF FiledAs, names
  <2>9. names = its \cup confs
    OBVIOUS
  <2> HIDE DEF its, confs
  <2>10. ASSUME Restrict(a.label, its) = Restrict(b.label, its),
                Restrict(a.label, confs) = Restrict(b.label, confs)
         PROVE  a.label = b.label
    <3>1. \A x \in its : a.label[x] = b.label[x]
      BY <2>10 DEF Restrict
    <3>2. \A x \in confs : a.label[x] = b.label[x]
      BY <2>10 DEF Restrict
    <3> QED
      BY <2>6, <2>7, <2>9, <3>1, <3>2
  <2>11. place(r) = place(s) <=> (a.label = b.label /\ a.build = b.build)
    <3>1. place(r) = <<a.build, Restrict(a.label, its), Restrict(a.label, confs)>>
      BY <2>8
    <3>2. place(s) = <<b.build, Restrict(b.label, its), Restrict(b.label, confs)>>
      BY <2>8
    <3> QED
      BY <2>10, <3>1, <3>2
  <2>12. ASSUME r # s, place(r) = place(s)
         PROVE  r.filed.repetition # s.filed.repetition
    <3> SUFFICES ASSUME r.filed.repetition = s.filed.repetition PROVE FALSE
      OBVIOUS
    <3>1. a.repetition = b.repetition
      BY <2>8
    <3>2. a = b
      BY <2>6, <2>11, <2>12, <3>1
    <3> QED
      BY <2>4, <2>12, <3>2
  <2> QED
    BY <2>11, <2>12 DEF a, b
<1> QED
  BY <1>1, InvariantHolds, PTL
=============================================================================
