------------------------ MODULE TrackerLifecycleProofs ------------------------
(***************************************************************************)
(* Theorems about TrackerLifecycle, for any benchmarks, names they may     *)
(* share, jobs, lives and number of trackers.                              *)
(***************************************************************************)
EXTENDS TrackerLifecycle, FiniteSetTheorems, WellFoundedInduction, TLAPS

LEMMA NameTypes == \A b \in Benchmarks : NameOf[b] \in Names
  BY LivesAssumption

LEMMA FinalizerFacts ==
    ASSUME NEW p \in {"idle", "jobs", "remove"}, NEW c \in Benchmarks \cup {None},
           finalizer \in [pc : {"idle", "jobs", "remove"},
                          b : Benchmarks \cup {None}]
    PROVE  /\ [pc |-> p, b |-> c] \in [pc : {"idle", "jobs", "remove"},
                                       b : Benchmarks \cup {None}]
           /\ [finalizer EXCEPT !.pc = p] \in
                [pc : {"idle", "jobs", "remove"}, b : Benchmarks \cup {None}]
           /\ [finalizer EXCEPT !.pc = p].pc = p
           /\ [finalizer EXCEPT !.pc = p].b = finalizer.b
  OBVIOUS

\* A tracker's set gains an element, or loses one.
LEMMA OneMore ==
    ASSUME NEW S, NEW f \in [Trackers -> SUBSET S], NEW t, NEW x \in S
    PROVE  [f EXCEPT ![t] = @ \cup {x}] \in [Trackers -> SUBSET S]
  OBVIOUS

LEMMA OneLess ==
    ASSUME NEW S, NEW f \in [Trackers -> SUBSET S], NEW t, NEW x
    PROVE  [f EXCEPT ![t] = @ \ {x}] \in [Trackers -> SUBSET S]
  OBVIOUS

\* One list of one tracker changes.
LEMMA WaitingUpdate ==
    ASSUME waiting = [u \in Trackers |-> [m \in Names |-> waiting[u][m]]],
           NEW t \in Trackers, NEW n, NEW w,
           waiting' = [waiting EXCEPT ![t][n] = w]
    PROVE  /\ waiting' = [u \in Trackers |-> [m \in Names |-> waiting'[u][m]]]
           /\ \A u \in Trackers, m \in Names :
                waiting'[u][m] = IF u = t /\ m = n THEN w ELSE waiting[u][m]
<1>1. /\ DOMAIN waiting = Trackers
      /\ \A u \in Trackers : waiting[u] = [m \in Names |-> waiting[u][m]]
  OBVIOUS
<1>2. [waiting[t] EXCEPT ![n] = w]
        = [m \in Names |-> IF m = n THEN w ELSE waiting[t][m]]
  <2>1. waiting[t] = [m \in Names |-> waiting[t][m]]
    BY <1>1
  <2>2. DOMAIN waiting[t] = Names
    BY <2>1
  <2>3. [waiting[t] EXCEPT ![n] = w]
          = [m \in DOMAIN waiting[t] |-> IF m = n THEN w ELSE waiting[t][m]]
    BY Zenon
  <2> QED
    BY <2>2, <2>3
<1>3. waiting' = [u \in Trackers |-> IF u = t
                   THEN [m \in Names |-> IF m = n THEN w ELSE waiting[t][m]]
                   ELSE waiting[u]]
  <2>1. waiting' = [waiting EXCEPT ![t] = [waiting[t] EXCEPT ![n] = w]]
    OBVIOUS
  <2> QED
    BY <1>1, <1>2, <2>1
<1>4. \A u \in Trackers :
         waiting'[u] = [m \in Names |-> IF u = t /\ m = n THEN w ELSE waiting[u][m]]
  BY <1>1, <1>3
<1>5. \A u \in Trackers : waiting'[u] = [m \in Names |-> waiting'[u][m]]
  BY <1>4
<1>6. waiting' = [u \in Trackers |-> waiting'[u]]
  BY <1>3
<1>7. [u \in Trackers |-> waiting'[u]]
        = [u \in Trackers |-> [m \in Names |-> waiting'[u][m]]]
  BY <1>5, Zenon
<1>8. waiting' = [u \in Trackers |-> [m \in Names |-> waiting'[u][m]]]
  BY <1>6, <1>7, Zenon
<1> QED
  BY <1>4, <1>8

-----------------------------------------------------------------------------
(***************************************************************************)
(* The jobs a scan leaves waiting are a fold over the benchmark's jobs: it *)
(* is defined, and it is a sequence of some of them.                       *)
(***************************************************************************)

\* The least-number principle, for sets.
LEMMA LeastNatural ==
    ASSUME NEW T, T \subseteq Nat, T # {}
    PROVE  \E x \in T : \A y \in T : x <= y
<1> DEFINE Less == {ss \in Nat \X Nat : ss[1] < ss[2]}
<1>1. IsWellFoundedOn(Less, Nat)
  BY NatLessThanWellFounded DEF OpToRel
<1>2. PICK x \in T : \A y \in T : ~(<<y, x>> \in Less)
  BY <1>1, WFMin
<1>3. \A y \in T : ~(y < x)
  BY <1>2
<1> QED
  BY <1>3

\* Induction, for sets.
LEMMA AllNaturals ==
    ASSUME NEW S, 0 \in S, \A n \in Nat : n \in S => n + 1 \in S
    PROVE  Nat \subseteq S
<1>1. SUFFICES ASSUME Nat \ S # {} PROVE FALSE
  OBVIOUS
<1>2. PICK x \in Nat \ S : \A y \in Nat \ S : x <= y
  BY <1>1, LeastNatural
<1>3. x # 0 /\ x - 1 \in Nat
  BY <1>2
<1>4. x - 1 \in S
  BY <1>2, <1>3
<1>5. (x - 1) + 1 \in S
  BY <1>3, <1>4
<1> QED
  BY <1>2, <1>5

LEMMA LastPosition ==
    ASSUME NEW k \in Nat, NEW s \in SUBSET (1..k), s # {}
    PROVE  Max(s) \in s /\ \A y \in s : Max(s) >= y
<1> DEFINE FromEnd == {k - y : y \in s}
<1>0. \A y \in s : y \in Int /\ y <= k /\ k - y \in Nat
  OBVIOUS
<1>1. FromEnd \subseteq Nat /\ FromEnd # {}
  BY <1>0
<1>2. PICK d \in FromEnd : \A e \in FromEnd : d <= e
  BY <1>1, LeastNatural
<1>3. PICK x \in s : d = k - x
  BY <1>2
<1>4. ASSUME NEW y \in s PROVE x >= y
  <2>1. k - x <= k - y
    BY <1>2, <1>3
  <2> QED
    BY <1>0, <2>1
<1> QED
  BY <1>4 DEF Max

\* One more job: it is left if it has no object.
LeaveOne(left, j) == IF jobs[j] = "absent" THEN Append(left, j) ELSE left

LeftOf(list) == FoldLeft(LeaveOne, <<>>, list)

\* The function FoldLeft iterates.
LeftStep(list, g, s) ==
    IF s = {} THEN <<>> ELSE LeaveOne(g[s \ {Max(s)}], list[Max(s)])

\* g is the function that FoldLeft iterates over the first n jobs of list.
Iterates(g, list, n) == g = [s \in SUBSET (1..n) |-> LeftStep(list, g, s)]

LEMMA LeaveOneType ==
    ASSUME NEW S, NEW left \in Seq(S), NEW j \in S
    PROVE  LeaveOne(left, j) \in Seq(S)
  BY DEF LeaveOne

LEMMA LeftIsDefined ==
    ASSUME NEW S, NEW n \in Nat, NEW list \in [1..n -> S]
    PROVE  \E g : Iterates(g, list, n)
<1> DEFINE Exists(k) == \E g \in [SUBSET (1..k) -> Seq(S)] :
              \A s \in SUBSET (1..k) : g[s] = LeftStep(list, g, s)
           Holds(k) == k <= n => Exists(k)
<1>1. Exists(0)
  <2> DEFINE g == [s \in SUBSET (1..0) |-> <<>>]
  <2>1. \A s \in SUBSET (1..0) : s = {}
    OBVIOUS
  <2>2. g \in [SUBSET (1..0) -> Seq(S)]
    OBVIOUS
  <2>3. \A s \in SUBSET (1..0) : g[s] = LeftStep(list, g, s)
    BY <2>1 DEF LeftStep
  <2> QED
    BY <2>2, <2>3
<1>2. ASSUME NEW k \in Nat, k + 1 <= n, Exists(k) PROVE Exists(k + 1)
  <2>1. PICK g \in [SUBSET (1..k) -> Seq(S)] :
          \A s \in SUBSET (1..k) : g[s] = LeftStep(list, g, s)
    BY <1>2
  <2> DEFINE h == [s \in SUBSET (1..(k + 1)) |->
                     IF k + 1 \in s THEN LeaveOne(g[s \ {k + 1}], list[k + 1])
                                    ELSE g[s]]
  <2>2. \A s \in SUBSET (1..(k + 1)) : s \ {k + 1} \in SUBSET (1..k)
    OBVIOUS
  <2>3. list[k + 1] \in S
    BY <1>2
  <2>4. h \in [SUBSET (1..(k + 1)) -> Seq(S)]
    <3> SUFFICES ASSUME NEW s \in SUBSET (1..(k + 1)) PROVE h[s] \in Seq(S)
      OBVIOUS
    <3>1. CASE k + 1 \in s
      BY <2>2, <2>3, <3>1, LeaveOneType
    <3>2. CASE k + 1 \notin s
      <4>1. s \in SUBSET (1..k)
        BY <2>2, <3>2
      <4> QED
        BY <3>2, <4>1
    <3> QED
      BY <3>1, <3>2
  <2>5. ASSUME NEW s \in SUBSET (1..(k + 1))
        PROVE  h[s] = LeftStep(list, h, s)
    <3>1. CASE k + 1 \in s
      <4>1. Max(s) = k + 1
        <5>1. k + 1 \in Nat
          OBVIOUS
        <5>2. PICK x \in 1..(k + 1) : x = Max(s) /\ \A y \in s : x >= y
          BY <3>1, <5>1, LastPosition
        <5> QED
          BY <3>1, <5>2
      <4>2. h[s \ {k + 1}] = g[s \ {k + 1}]
        BY <2>2
      <4>3. h[s] = LeaveOne(g[s \ {k + 1}], list[k + 1])
        BY <3>1
      <4> HIDE DEF h
      <4> QED
        BY <3>1, <4>1, <4>2, <4>3 DEF LeftStep
    <3>2. CASE k + 1 \notin s
      <4>1. s \in SUBSET (1..k)
        BY <2>2, <3>2
      <4>2. h[s] = g[s] /\ g[s] = LeftStep(list, g, s)
        BY <2>1, <3>2, <4>1
      <4>3. s # {} => Max(s) \in s
        BY <4>1, LastPosition
      <4>4. s # {} => h[s \ {Max(s)}] = g[s \ {Max(s)}]
        BY <3>2, <4>1
      <4> HIDE DEF h
      <4> QED
        BY <4>2, <4>4 DEF LeftStep
    <3> QED
      BY <3>1, <3>2
  <2> HIDE DEF h
  <2> QED
    BY <2>4, <2>5
<1>3. Exists(n)
  <2> HIDE DEF Exists
  <2>1. Holds(0) /\ \A k \in Nat : Holds(k) => Holds(k + 1)
    BY <1>1, <1>2
  <2> DEFINE P == {k \in Nat : Holds(k)}
  <2>2. n \in P
    <3> HIDE DEF Holds
    <3>1. 0 \in P /\ \A k \in Nat : k \in P => k + 1 \in P
      BY <2>1
    <3> HIDE DEF P
    <3> QED
      BY <3>1, AllNaturals
  <2> QED
    BY <2>2
<1>4. PICK g \in [SUBSET (1..n) -> Seq(S)] :
        \A s \in SUBSET (1..n) : g[s] = LeftStep(list, g, s)
  BY <1>3
<1>5. Iterates(g, list, n)
  BY <1>4 DEF Iterates
<1> QED
  BY <1>5

LEMMA LeftType ==
    ASSUME NEW S, NEW list \in Seq(S)
    PROVE  LeftOf(list) \in Seq(S)
<1>1. PICK n \in Nat : /\ n = Len(list) /\ list \in [1..n -> S]
                       /\ DOMAIN list = 1..n
  OBVIOUS
<1> DEFINE it == CHOOSE g : Iterates(g, list, n)
           AllLeft(k) == \A s \in SUBSET (1..k) : it[s] \in Seq(S)
           Holds(k) == k <= n => AllLeft(k)
<1>2. LeftOf(list) = it[1..n]
  BY <1>1, Zenon DEF LeftOf, FoldLeft, MapThenFoldSet, LeftStep, Iterates
<1>3. it = [s \in SUBSET (1..n) |-> LeftStep(list, it, s)]
  <2>1. \E g : Iterates(g, list, n)
    BY <1>1, LeftIsDefined, Zenon
  <2> QED
    BY <2>1, Zenon DEF Iterates
<1> HIDE DEF it
<1>4. \A s \in SUBSET (1..n) : it[s] = LeftStep(list, it, s)
  BY <1>3, Zenon
<1>5. it[{}] = <<>> /\ it[{}] \in Seq(S)
  <2>1. it[{}] = <<>>
    BY <1>4 DEF LeftStep
  <2> QED
    BY <2>1
<1>6. AllLeft(0)
  <2> SUFFICES ASSUME NEW s \in SUBSET (1..0) PROVE it[s] \in Seq(S)
    OBVIOUS
  <2>1. s = {}
    OBVIOUS
  <2> QED
    BY <1>5, <2>1
<1>7. ASSUME NEW k \in Nat, k + 1 <= n, AllLeft(k),
             NEW s \in SUBSET (1..(k + 1))
      PROVE  it[s] \in Seq(S)
  <2>1. s \in SUBSET (1..n)
    BY <1>1, <1>7
  <2>2. CASE s = {}
    BY <1>5, <2>2
  <2>3. CASE s # {}
    <3>1. Max(s) \in s /\ \A y \in s : Max(s) >= y
      <4>1. k + 1 \in Nat
        OBVIOUS
      <4> QED
        BY <2>3, <4>1, LastPosition
    <3>2. PICK x \in 1..(k + 1) : x = Max(s)
      BY <3>1
    <3>3. \A y \in s \ {x} : y \in 1..k
      BY <3>1, <3>2
    <3>4. list[x] \in S
      BY <1>1, <1>7, <3>2
    <3>5. it[s \ {x}] \in Seq(S)
      BY <1>7, <3>3
    <3>6. it[s] = LeaveOne(it[s \ {x}], list[x])
      BY <1>4, <2>1, <2>3, <3>2 DEF LeftStep
    <3> QED
      BY <3>4, <3>5, <3>6, LeaveOneType
  <2> QED
    BY <2>2, <2>3
<1>8. AllLeft(n)
  <2>1. ASSUME NEW k \in Nat, k + 1 <= n, AllLeft(k) PROVE AllLeft(k + 1)
    BY <1>7, <2>1
  <2> HIDE DEF AllLeft
  <2>2. Holds(0) /\ \A k \in Nat : Holds(k) => Holds(k + 1)
    BY <1>6, <2>1
  <2> DEFINE P == {k \in Nat : Holds(k)}
  <2>3. n \in P
    <3> HIDE DEF Holds
    <3>1. 0 \in P /\ \A k \in Nat : k \in P => k + 1 \in P
      BY <2>2
    <3> HIDE DEF P
    <3> QED
      BY <3>1, AllNaturals
  <2> QED
    BY <2>3
<1>9. it[1..n] \in Seq(S)
  BY <1>8
<1> QED
  BY <1>2, <1>9

-----------------------------------------------------------------------------
(***************************************************************************)
(* Jobs and their benchmark.                                               *)
(***************************************************************************)
LEMMA JobsOfType ==
    ASSUME NEW b \in Benchmarks
    PROVE  /\ JobsOf[b] \in Seq(Jobs) /\ JobsOf[b] # <<>>
           /\ Range(JobsOf[b]) \subseteq Jobs
           /\ JobsOf[b] \in Seq(Range(JobsOf[b]))
<1>1. JobsOf[b] \in Seq(Jobs) /\ JobsOf[b] # <<>>
  BY LivesAssumption
<1> QED
  BY <1>1 DEF Range

\* A job of b has b for its benchmark, and every job has one.
LEMMA BenchmarkOfJob ==
    /\ \A j \in Jobs : /\ BenchmarkOf(j) \in Benchmarks
                       /\ j \in Range(JobsOf[BenchmarkOf(j)])
    /\ \A b \in Benchmarks : \A j \in Range(JobsOf[b]) :
         j \in Jobs /\ BenchmarkOf(j) = b
<1>1. ASSUME NEW j \in Jobs
      PROVE  /\ BenchmarkOf(j) \in Benchmarks
             /\ j \in Range(JobsOf[BenchmarkOf(j)])
  BY LivesAssumption DEF BenchmarkOf
<1>2. ASSUME NEW b \in Benchmarks, NEW j \in Range(JobsOf[b])
      PROVE  j \in Jobs /\ BenchmarkOf(j) = b
  <2>1. j \in Jobs
    BY <1>2, JobsOfType
  <2>2. PICK i \in 1..Len(JobsOf[b]) : JobsOf[b][i] = j
    BY JobsOfType DEF Range
  <2>3. PICK c \in Benchmarks : c = BenchmarkOf(j) /\ j \in Range(JobsOf[c])
    BY <1>1, <2>1
  <2>4. PICK k \in 1..Len(JobsOf[c]) : JobsOf[c][k] = j
    BY <2>3, JobsOfType DEF Range
  <2>5. b = c
    BY <2>2, <2>4, LivesAssumption
  <2> QED
    BY <2>1, <2>3, <2>5
<1> QED
  BY <1>1, <1>2

\* The job that the scan counts as new is one of the benchmark's.
LEMMA FirstNewPlace ==
    ASSUME NEW b \in Benchmarks, FirstNew(b) # 0
    PROVE  /\ FirstNew(b) \in 1..Len(JobsOf[b])
           /\ JobsOf[b][FirstNew(b)] \in Range(JobsOf[b])
<1> DEFINE I == {i \in 1..Len(JobsOf[b]) : ~Done(JobsOf[b][i])}
<1>0. JobsOf[b] \in Seq(Jobs)
  BY JobsOfType
<1>1. FirstNew(b) = IF I # {} THEN Min(I) ELSE 0
  BY Zenon DEF FirstNew, SelectInSeq
<1>2. I # {} /\ FirstNew(b) = Min(I)
  BY <1>1
<1>3. I \subseteq Nat
  BY <1>0
<1> HIDE DEF I
<1>4. PICK x \in I : \A y \in I : x <= y
  BY <1>2, <1>3, LeastNatural
<1>5. Min(I) \in I
  BY <1>4 DEF Min
<1>6. FirstNew(b) \in 1..Len(JobsOf[b])
  BY <1>2, <1>5 DEF I
<1> QED
  BY <1>0, <1>6 DEF Range

\* What is left waiting are jobs of the benchmark.
LEMMA LeftWaitingType ==
    ASSUME NEW b \in Benchmarks, FirstNew(b) # 0
    PROVE  LeftWaiting(b) \in Seq(Range(JobsOf[b]))
<1> DEFINE list == SubSeq(JobsOf[b], FirstNew(b) + 1, Len(JobsOf[b]))
<1>1. FirstNew(b) \in 1..Len(JobsOf[b]) /\ JobsOf[b] \in Seq(Range(JobsOf[b]))
  BY FirstNewPlace, JobsOfType
<1>2. list \in Seq(Range(JobsOf[b]))
  <2>1. PICK s, S, k, n : /\ s = JobsOf[b] /\ S = Range(JobsOf[b])
                          /\ k = FirstNew(b) /\ n = Len(s)
    OBVIOUS
  <2>2. s \in Seq(S) /\ k \in 1..n /\ n = Len(s)
    BY <1>1, <2>1
  <2>3. SubSeq(s, k + 1, n) \in Seq(S)
    BY <2>2
  <2> QED
    BY <2>1, <2>3
<1> HIDE DEF list
<1>3. LeftWaiting(b) = LeftOf(list)
  BY Zenon DEF LeftWaiting, LeftOf, LeaveOne, list
<1> QED
  BY <1>2, <1>3, LeftType

-----------------------------------------------------------------------------
(***************************************************************************)
(* Types.                                                                  *)
(***************************************************************************)

\* Every job that a queue holds is a job; what is left of it is a queue.
LEMMA QueueFacts ==
    ASSUME NEW S, NEW s \in Seq(S), s # <<>>
    PROVE  /\ Head(s) \in S /\ Head(s) = s[1] /\ Tail(s) \in Seq(S)
           /\ Len(s) \in Nat \ {0} /\ Len(Tail(s)) = Len(s) - 1
           /\ \A i \in 1..Len(Tail(s)) : /\ i + 1 \in 1..Len(s)
                                         /\ Tail(s)[i] = s[i + 1]
  OBVIOUS

\* The places of a worker that is to hand on the turn of the job it has.
Hands == {"sleep", "read", "store", "create"}

\* A worker that is not waiting for a job has one in hand, and the next one
\* once it has read the list.
InHand ==
    \A t \in Trackers :
        /\ worker[t].pc \in Hands \cup {"forget", "tidy"} => worker[t].job \in Jobs
        /\ worker[t].pc \in {"store", "create"} => worker[t].next \in Jobs

TypeInv == TypeOK /\ InHand

LEMMA IdleWorkerType ==
    /\ IdleWorker \in WorkerStates
    /\ IdleWorker.pc = "between" /\ IdleWorker.dr = "nil"
<1>1. <<>> \in Seq(Jobs)
  OBVIOUS
<1> QED
  BY <1>1 DEF IdleWorker, WorkerStates

\* One worker changes.
LEMMA WorkerChanged ==
    ASSUME TypeOK, NEW t \in Trackers, NEW w,
           worker' = [worker EXCEPT ![t] = w]
    PROVE  /\ worker'[t] = w
           /\ \A u \in Trackers \ {t} : worker'[u] = worker[u]
           /\ w \in WorkerStates => worker' \in [Trackers -> WorkerStates]
  BY DEF TypeOK

\* What the worker of t holds after a step that takes no completion: the job
\* stays the same, and is laid down after the next one has been created.
LEMMA HandSteps ==
    ASSUME TypeOK, InHand, NEW t \in Trackers,
           \/ RunLooksAtQuit(t) \/ WorkerLooks(t) \/ WorkerReads(t)
           \/ WorkerStores(t) \/ WorkerCreate(t) \/ WorkerTidies(t)
           \/ WorkerForgets(t)
    PROVE  /\ \A u \in Trackers \ {t} : worker'[u] = worker[u]
           /\ worker' \in [Trackers -> WorkerStates]
           /\ worker'[t].pc \in Hands \cup {"forget", "tidy"} =>
                /\ worker[t].pc \in Hands
                /\ worker'[t].job = worker[t].job /\ worker'[t].dr = worker[t].dr
                /\ worker'[t].done = worker[t].done
           /\ worker'[t].pc \in {"store", "create"} => worker'[t].next \in Jobs
           /\ WorkerCreate(t) => worker'[t].pc \notin Hands
           /\ WorkerReads(t) /\ worker'[t].pc \in {"store", "create"} =>
                /\ waiting[t][NameInHand(t)] # <<>>
                /\ worker'[t].next = Head(waiting[t][NameInHand(t)])
                /\ worker'[t].tail = Tail(waiting[t][NameInHand(t)])
           /\ ~WorkerReads(t) /\ worker'[t].pc \in {"store", "create"} =>
                /\ worker[t].pc = "store" /\ worker'[t].next = worker[t].next
                /\ worker'[t].tail = <<>>
<1>0. /\ worker \in [Trackers -> WorkerStates] /\ worker[t] \in WorkerStates
      /\ worker = [u \in Trackers |-> worker[u]]
  BY DEF TypeOK
<1>p. ASSUME NEW p \in {"blocked", "read", "forget", "tidy", "gone"},
             worker' = [worker EXCEPT ![t].pc = p]
      PROVE  /\ worker' = [worker EXCEPT ![t] = [worker[t] EXCEPT !.pc = p]]
             /\ worker'[t] \in WorkerStates /\ worker'[t].pc = p
             /\ worker'[t].job = worker[t].job /\ worker'[t].dr = worker[t].dr
             /\ worker'[t].done = worker[t].done
             /\ \A u \in Trackers \ {t} : worker'[u] = worker[u]
             /\ worker' \in [Trackers -> WorkerStates]
  <2>1. worker' = [worker EXCEPT ![t] = [worker[t] EXCEPT !.pc = p]]
    BY <1>p
  <2>2. worker'[t] = [worker[t] EXCEPT !.pc = p]
    BY <1>0, <2>1
  <2>3. PICK w, v : w = worker[t] /\ v = [w EXCEPT !.pc = p]
    OBVIOUS
  <2>4. p \in {"between", "blocked", "sleep", "read", "store", "create",
               "forget", "tidy", "gone"}
    OBVIOUS
  <2>5. w \in WorkerStates
    BY <1>0, <2>3
  <2>6. /\ v \in WorkerStates /\ v.pc = p /\ v.job = w.job /\ v.dr = w.dr
        /\ v.done = w.done
    BY <2>3, <2>4, <2>5 DEF WorkerStates
  <2>7. worker' = [worker EXCEPT ![t] = v] /\ worker'[t] = v
    BY <2>1, <2>2, <2>3
  <2>8. /\ \A u \in Trackers \ {t} : worker'[u] = worker[u]
        /\ worker' \in [Trackers -> WorkerStates]
    BY <1>0, <2>6, <2>7
  <2> QED
    BY <2>1, <2>3, <2>6, <2>7, <2>8
<1>i. ASSUME worker' = [worker EXCEPT ![t] = IdleWorker]
      PROVE  /\ worker'[t].pc = "between"
             /\ \A u \in Trackers \ {t} : worker'[u] = worker[u]
             /\ worker' \in [Trackers -> WorkerStates]
  BY <1>0, <1>i, WorkerChanged, IdleWorkerType
<1>1. CASE RunLooksAtQuit(t)
  <2>1. PICK p \in {"blocked", "gone"} : worker' = [worker EXCEPT ![t].pc = p]
    BY <1>1 DEF RunLooksAtQuit
  <2>2. worker[t].pc = "between"
    BY <1>1 DEF RunLooksAtQuit
  <2>3. ~WorkerReads(t) /\ ~WorkerCreate(t)
    BY <2>2 DEF WorkerReads, WorkerCreate
  <2> QED
    BY <1>p, <2>1, <2>3 DEF Hands
<1>2. CASE WorkerLooks(t)
  <2>1. PICK p \in {"read", "forget"} : worker' = [worker EXCEPT ![t].pc = p]
    BY <1>2 DEF WorkerLooks
  <2>2. worker[t].pc = "sleep"
    BY <1>2 DEF WorkerLooks
  <2>3. ~WorkerReads(t) /\ ~WorkerCreate(t)
    BY <2>2 DEF WorkerReads, WorkerCreate
  <2> QED
    BY <1>p, <2>1, <2>2, <2>3 DEF Hands
<1>3. CASE WorkerReads(t)
  <2>1. /\ worker[t].pc = "read" /\ worker[t].job \in Jobs
        /\ ~WorkerCreate(t)
    BY <1>3 DEF WorkerReads, WorkerCreate, InHand, Hands
  <2>2. PICK n \in Names : n = NameInHand(t)
    BY <2>1, BenchmarkOfJob, NameTypes DEF NameInHand
  <2>3. waiting[t][n] \in Seq(Jobs)
    BY DEF TypeOK
  <2>4. CASE waiting[t][n] = <<>>
    <3>1. worker' = worker
      BY <1>3, <2>2, <2>4 DEF WorkerReads
    <3> QED
      BY <1>0, <1>3, <2>1, <3>1 DEF Hands
  <2>5. CASE waiting[t][n] # <<>>
    <3>1. PICK j \in Jobs, r \in Seq(Jobs) :
            j = Head(waiting[t][n]) /\ r = Tail(waiting[t][n])
      BY <2>3, <2>5, QueueFacts
    <3>2. worker' = [worker EXCEPT ![t].pc = "store", ![t].next = j, ![t].tail = r]
      BY <1>3, <2>2, <2>5, <3>1 DEF WorkerReads
    <3>3. worker'[t] = [worker[t] EXCEPT !.pc = "store", !.next = j, !.tail = r]
      BY <1>0, <3>2
    <3>4. /\ worker'[t] \in WorkerStates /\ worker'[t].pc = "store"
          /\ worker'[t].next = j /\ worker'[t].tail = r
          /\ worker'[t].job = worker[t].job /\ worker'[t].dr = worker[t].dr
          /\ worker'[t].done = worker[t].done
      BY <1>0, <3>3 DEF WorkerStates
    <3>5. /\ \A u \in Trackers \ {t} : worker'[u] = worker[u]
          /\ worker' = [u \in Trackers |-> worker'[u]]
      BY <1>0, <3>2
    <3>6. worker' \in [Trackers -> WorkerStates]
      BY <1>0, <3>4, <3>5
    <3> QED
      BY <1>3, <2>1, <2>2, <2>5, <3>1, <3>4, <3>5, <3>6 DEF Hands
  <2> QED
    BY <2>4, <2>5
<1>4. CASE WorkerStores(t)
  <2>1. /\ worker[t].pc = "store" /\ worker[t].next \in Jobs
        /\ ~WorkerReads(t) /\ ~WorkerCreate(t)
    BY <1>4 DEF WorkerStores, WorkerReads, WorkerCreate, InHand
  <2>2. CASE worker' = [worker EXCEPT ![t] = IdleWorker]
    BY <1>i, <2>1, <2>2 DEF Hands
  <2>3. CASE worker' = [worker EXCEPT ![t] = [worker[t] EXCEPT !.pc = "create",
                                                              !.tail = <<>>]]
    <3>1. worker'[t] = [worker[t] EXCEPT !.pc = "create", !.tail = <<>>]
      BY <1>0, <2>3
    <3>2. <<>> \in Seq(Jobs)
      OBVIOUS
    <3>3. /\ worker'[t] \in WorkerStates /\ worker'[t].pc = "create"
          /\ worker'[t].next = worker[t].next /\ worker'[t].tail = <<>>
          /\ worker'[t].job = worker[t].job /\ worker'[t].dr = worker[t].dr
          /\ worker'[t].done = worker[t].done
      BY <1>0, <3>1, <3>2 DEF WorkerStates
    <3>4. /\ \A u \in Trackers \ {t} : worker'[u] = worker[u]
          /\ worker' \in [Trackers -> WorkerStates]
      BY <1>0, <2>3, <3>1, <3>3
    <3> QED
      BY <2>1, <3>3, <3>4 DEF Hands
  <2> QED
    BY <1>4, <2>2, <2>3 DEF WorkerStores
<1>5. CASE WorkerCreate(t)
  <2>1. /\ worker' = [worker EXCEPT ![t].pc = "tidy"] /\ worker[t].pc = "create"
        /\ ~WorkerReads(t)
    BY <1>5 DEF WorkerCreate, WorkerReads
  <2> QED
    BY <1>p, <2>1 DEF Hands
<1>6. CASE WorkerTidies(t) \/ WorkerForgets(t)
  <2>1. /\ worker' = [worker EXCEPT ![t] = IdleWorker]
        /\ ~WorkerReads(t) /\ ~WorkerCreate(t)
    BY <1>6 DEF WorkerTidies, WorkerForgets, WorkerReads, WorkerCreate
  <2> QED
    BY <1>i, <2>1 DEF Hands
<1> QED
  BY <1>1, <1>2, <1>3, <1>4, <1>5, <1>6

LEMMA TypeInit == Init => TypeInv
<1> SUFFICES ASSUME Init PROVE TypeInv
  OBVIOUS
<1>1. TypeOK
  <2>1. /\ MaxLives \in [Benchmarks -> Nat] /\ MaxTrackers \in Nat
        /\ <<>> \in Seq(Jobs)
    BY LivesAssumption
  <2>2. /\ lives \in [Benchmarks -> Nat]
        /\ \A b \in Benchmarks : lives[b] <= MaxLives[b]
        /\ res \in [Benchmarks -> {"absent", "new", "live", "deleting"}]
        /\ results \subseteq Jobs /\ unfinalized \subseteq Names
        /\ jobs \in [Jobs -> {"absent", "active", "complete"}]
    BY <2>1 DEF Init
  <2>3. /\ finalizer \in [pc : {"idle", "jobs", "remove"},
                          b : Benchmarks \cup {None}]
        /\ finalizer.pc = "idle"
    BY DEF Init, IdleFinalizer
  <2>4. /\ started \in 0..MaxTrackers /\ registered \in 0..started
        /\ quit \subseteq 1..started /\ panicked \in BOOLEAN
    <3>1. started = 0 /\ registered = 0 /\ quit = {}
      BY DEF Init, NoTracker
    <3>2. panicked \in BOOLEAN
      BY Zenon DEF Init
    <3> QED
      BY <2>1, <3>1, <3>2
  <2>5. /\ subscribers \in [Trackers -> SUBSET Names]
        /\ waiting \in [Trackers -> [Names -> Seq(Jobs)]]
        /\ waitingKeys \in [Trackers -> SUBSET Names]
        /\ drMap \in [Trackers -> SUBSET Names]
        /\ jobOptMap \in [Trackers -> SUBSET Jobs]
    BY <2>1 DEF Init
  <2>6. /\ updates \in [Trackers -> Seq(Jobs)]
        /\ jobQueue \in [Trackers -> Seq(Jobs)]
        /\ worker \in [Trackers -> WorkerStates]
    BY <2>1, IdleWorkerType DEF Init
  <2> QED
    BY <2>2, <2>3, <2>4, <2>5, <2>6 DEF TypeOK
<1>2. InHand
  BY IdleWorkerType DEF Init, InHand, Hands
<1> QED
  BY <1>1, <1>2 DEF TypeInv

\* Users, the cluster and the reconciler's own steps.
LEMMA EnvironmentTypes ==
    ASSUME TypeInv,
           \/ \E b \in Benchmarks :
                \/ UserCreates(b) \/ UserDeletes(b) \/ AddFinalizer(b)
                \/ FinalizeWithoutOperator(b)
           \/ \E j \in Jobs : JobCompletes(j)
           \/ DeleteFromOperator \/ RemoveFinalizer
    PROVE  TypeInv'
<1>0. TypeOK
  BY DEF TypeInv
<1>1. UNCHANGED <<trackers, maps, jobQueue, worker, panicked>>
  BY DEF UserCreates, UserDeletes, AddFinalizer, FinalizeWithoutOperator,
         JobCompletes, DeleteFromOperator, RemoveFinalizer, queues
<1>2. /\ res' \in [Benchmarks -> {"absent", "new", "live", "deleting"}]
      /\ lives' \in [Benchmarks -> Nat]
      /\ \A b \in Benchmarks : lives'[b] <= MaxLives[b]
      /\ results' \subseteq Jobs
      /\ jobs' \in [Jobs -> {"absent", "active", "complete"}]
      /\ finalizer' \in [pc : {"idle", "jobs", "remove"},
                         b : Benchmarks \cup {None}]
      /\ finalizer'.pc # "idle" => /\ finalizer'.b \in Benchmarks
                                   /\ res'[finalizer'.b] = "deleting"
      /\ updates' \in [Trackers -> Seq(Jobs)]
      /\ unfinalized' \subseteq Names
  <2>1. ASSUME NEW b \in Benchmarks, UserCreates(b) PROVE <1>2
    <3>1. /\ lives' \in [Benchmarks -> Nat]
          /\ \A c \in Benchmarks : lives'[c] <= MaxLives[c]
      <4>1. MaxLives \in [Benchmarks -> Nat]
        BY LivesAssumption
      <4>2. /\ lives \in [Benchmarks -> Nat]
            /\ \A c \in Benchmarks : lives[c] <= MaxLives[c]
        BY <1>0 DEF TypeOK
      <4>3. lives[b] < MaxLives[b] /\ lives' = [lives EXCEPT ![b] = @ + 1]
        BY <2>1 DEF UserCreates
      <4> QED
        BY <4>1, <4>2, <4>3
    <3> QED
      BY <1>0, <2>1, <3>1 DEF UserCreates, TypeOK, queues
  <2>2. ASSUME NEW b \in Benchmarks, UserDeletes(b) PROVE <1>2
    BY <1>0, <2>2 DEF UserDeletes, TypeOK, queues
  <2>3. ASSUME NEW b \in Benchmarks, AddFinalizer(b) PROVE <1>2
    BY <1>0, <2>3 DEF AddFinalizer, TypeOK, queues
  <2>4. ASSUME NEW b \in Benchmarks, FinalizeWithoutOperator(b) PROVE <1>2
    BY <1>0, <2>4, NameTypes DEF FinalizeWithoutOperator, TypeOK, queues, cluster
  <2>5. ASSUME NEW j \in Jobs, JobCompletes(j) PROVE <1>2
    <3>1. updates' \in [Trackers -> Seq(Jobs)]
      BY <1>0, <2>5 DEF JobCompletes, TypeOK
    <3>2. jobs' \in [Jobs -> {"absent", "active", "complete"}]
      BY <1>0, <2>5 DEF JobCompletes, TypeOK
    <3> QED
      BY <1>0, <2>5, <3>1, <3>2 DEF JobCompletes, TypeOK
  <2>6. CASE DeleteFromOperator
    <3>1. jobs' \in [Jobs -> {"absent", "active", "complete"}]
      BY <1>0, <2>6 DEF DeleteFromOperator, TypeOK
    <3> QED
      BY <1>0, <2>6, <3>1, FinalizerFacts DEF DeleteFromOperator, TypeOK, queues
  <2>7. CASE RemoveFinalizer
    BY <1>0, <2>7 DEF RemoveFinalizer, TypeOK, queues, IdleFinalizer
  <2> QED
    BY <2>1, <2>2, <2>3, <2>4, <2>5, <2>6, <2>7
<1>3. TypeOK'
  BY <1>0, <1>1, <1>2 DEF TypeOK, trackers, maps, lists
<1>4. InHand'
  BY <1>1 DEF TypeInv, InHand
<1> QED
  BY <1>3, <1>4 DEF TypeInv

\* One list of one tracker is replaced.
LEMMA WaitingType ==
    ASSUME waiting \in [Trackers -> [Names -> Seq(Jobs)]],
           NEW t \in Trackers, NEW n \in Names, NEW w \in Seq(Jobs),
           waiting' = [waiting EXCEPT ![t][n] = w]
    PROVE  waiting' \in [Trackers -> [Names -> Seq(Jobs)]]
  OBVIOUS

LEMMA CreateTypes ==
    ASSUME TypeInv, NEW b \in Benchmarks, CreateFromOperator(b)
    PROVE  TypeInv'
<1>0. TypeOK /\ NameOf[b] \in Names
  BY NameTypes DEF TypeInv
<1>1. PICK t, left :
        /\ left \in Seq(Range(JobsOf[b]))
        /\ t = IF registered = NoTracker THEN started + 1 ELSE registered
        /\ t <= MaxTrackers /\ registered' = t
        /\ started' = IF registered = NoTracker THEN t ELSE started
        /\ Subscribe(t, b, left)
  <2>1. FirstNew(b) # 0 => LeftWaiting(b) \in Seq(Range(JobsOf[b]))
    BY LeftWaitingType
  <2>2. (IF FirstNew(b) = 0 THEN <<>> ELSE LeftWaiting(b)) \in Seq(Range(JobsOf[b]))
    <3>1. <<>> \in Seq(Range(JobsOf[b]))
      OBVIOUS
    <3> QED
      BY <2>1, <3>1, Zenon
  <2> QED
    BY <2>2 DEF CreateFromOperator
<1>2. UNCHANGED <<res, lives, results, finalizer, quit, queues, worker,
                  unfinalized, panicked>>
  BY DEF CreateFromOperator
<1>3. /\ t \in Trackers /\ t \in 1..started' /\ started' \in 0..MaxTrackers
      /\ quit \subseteq 1..started'
  <2>1. /\ MaxTrackers \in Nat /\ started \in 0..MaxTrackers
        /\ registered \in 0..started /\ quit \subseteq 1..started
    BY <1>0, LivesAssumption DEF TypeOK
  <2> QED
    BY <1>1, <2>1 DEF NoTracker, Trackers
<1>4. left \in Seq(Jobs) /\ Range(JobsOf[b]) \subseteq Jobs
  <2>1. \A S : S \subseteq Jobs => Seq(S) \subseteq Seq(Jobs)
    OBVIOUS
  <2> QED
    BY <1>1, <2>1, JobsOfType
<1>5. jobs' \in [Jobs -> {"absent", "active", "complete"}]
  BY <1>0 DEF CreateFromOperator, TypeOK
<1>6. waiting' \in [Trackers -> [Names -> Seq(Jobs)]]
  <2>1. CASE waiting' = waiting
    BY <1>0, <2>1 DEF TypeOK
  <2>2. CASE waiting' = [waiting EXCEPT ![t][NameOf[b]] = left]
    BY <1>0, <1>3, <1>4, <2>2, WaitingType DEF TypeOK
  <2> QED
    BY <1>1, <2>1, <2>2 DEF Subscribe, lists
<1>7. /\ subscribers' \in [Trackers -> SUBSET Names]
      /\ waitingKeys' \in [Trackers -> SUBSET Names]
      /\ drMap' \in [Trackers -> SUBSET Names]
      /\ jobOptMap' \in [Trackers -> SUBSET Jobs]
  <2>1. CASE left = <<>>
    BY <1>0, <1>1, <1>3, <2>1 DEF Subscribe, TypeOK, lists
  <2>2. CASE left # <<>>
    <3>1. /\ subscribers' = [subscribers EXCEPT ![t] = @ \cup {NameOf[b]}]
          /\ waitingKeys' = [waitingKeys EXCEPT ![t] = @ \cup {NameOf[b]}]
          /\ drMap' = [drMap EXCEPT ![t] = @ \cup {NameOf[b]}]
          /\ jobOptMap' = [jobOptMap EXCEPT ![t] = @ \cup Range(JobsOf[b])]
      BY <1>1, <2>2 DEF Subscribe
    <3>2. jobOptMap' \in [Trackers -> SUBSET Jobs]
      BY <1>0, <1>3, <1>4, <3>1 DEF TypeOK
    <3>3. /\ subscribers \in [Trackers -> SUBSET Names]
          /\ waitingKeys \in [Trackers -> SUBSET Names]
          /\ drMap \in [Trackers -> SUBSET Names]
      BY <1>0 DEF TypeOK
    <3> QED
      BY <1>0, <3>1, <3>2, <3>3, OneMore
  <2> QED
    BY <2>1, <2>2
<1>8. TypeOK'
  BY <1>0, <1>1, <1>2, <1>3, <1>5, <1>6, <1>7 DEF TypeOK, queues
<1>9. InHand'
  BY <1>2 DEF TypeInv, InHand
<1> QED
  BY <1>8, <1>9 DEF TypeInv

LEMMA DeleteTypes ==
    ASSUME TypeInv, NEW b \in Benchmarks, FinalizeBenchmark(b)
    PROVE  TypeInv'
<1>0. TypeOK /\ NameOf[b] \in Names /\ DeleteTracker(NameOf[b])
  BY NameTypes DEF TypeInv, FinalizeBenchmark
<1>1. /\ UNCHANGED <<cluster, queues, worker, unfinalized, panicked>>
      /\ finalizer' = [pc |-> "jobs", b |-> b] /\ res[b] = "deleting"
  BY DEF FinalizeBenchmark
<1>2. /\ registered' \in 0..started' /\ started' = started
      /\ quit' \subseteq 1..started'
      /\ subscribers' \in [Trackers -> SUBSET Names]
      /\ waiting' \in [Trackers -> [Names -> Seq(Jobs)]]
      /\ waitingKeys' \in [Trackers -> SUBSET Names]
      /\ drMap' \in [Trackers -> SUBSET Names]
      /\ jobOptMap' = jobOptMap
  <2>1. CASE registered = NoTracker
    BY <1>0, <2>1 DEF DeleteTracker, TypeOK, trackers, maps, lists
  <2>2. CASE registered # NoTracker
    <3>1. registered \in Trackers /\ registered \in 1..started
      BY <1>0, <2>2, LivesAssumption DEF TypeOK, NoTracker, Trackers
    <3>2. Unsubscribe(registered, NameOf[b])
      BY <1>0, <2>2 DEF DeleteTracker
    <3>3. waiting' \in [Trackers -> [Names -> Seq(Jobs)]]
      <4>1. CASE waiting' = waiting
        BY <1>0, <4>1 DEF TypeOK
      <4>2. CASE waiting' = [waiting EXCEPT ![registered][NameOf[b]] = <<>>]
        <5>1. <<>> \in Seq(Jobs)
          OBVIOUS
        <5> QED
          BY <1>0, <3>1, <4>2, <5>1, WaitingType DEF TypeOK
      <4> QED
        BY <3>2, <4>1, <4>2 DEF Unsubscribe, lists
    <3>4. /\ waitingKeys' \in [Trackers -> SUBSET Names]
          /\ drMap' \in [Trackers -> SUBSET Names]
      <4>1. /\ waitingKeys \in [Trackers -> SUBSET Names]
            /\ drMap \in [Trackers -> SUBSET Names]
        BY <1>0 DEF TypeOK
      <4> QED
        BY <3>2, <4>1, OneLess DEF Unsubscribe, lists
    <3>5. subscribers' \in [Trackers -> SUBSET Names]
      BY <1>0, <3>1, <3>2 DEF Unsubscribe, TypeOK
    <3>6. /\ registered' \in {NoTracker, registered}
          /\ quit' \subseteq quit \cup {registered}
          /\ UNCHANGED <<started, jobOptMap>>
      BY <1>0, <2>2 DEF DeleteTracker
    <3> QED
      BY <1>0, <3>1, <3>3, <3>4, <3>5, <3>6 DEF TypeOK, NoTracker
  <2> QED
    BY <2>1, <2>2
<1>3. TypeOK'
  BY <1>0, <1>1, <1>2 DEF TypeOK, cluster, queues
<1>4. InHand'
  BY <1>1 DEF TypeInv, InHand
<1> QED
  BY <1>3, <1>4 DEF TypeInv

\* The goroutines of tracker t.
LEMMA GoroutineTypes ==
    ASSUME TypeInv, NEW t \in Trackers, Informer(t) \/ Worker(t)
    PROVE  TypeInv'
<1>0. TypeOK /\ InHand
  BY DEF TypeInv
<1>1. UNCHANGED <<res, lives, finalizer, trackers, subscribers, unfinalized>>
  BY DEF Informer, Worker, UpdateFunc, InformerStops, RunLooksAtQuit, WorkerTake,
         WorkerLooks, WorkerReads, WorkerStores, WorkerCreate, WorkerTidies,
         WorkerForgets, cluster, maps
<1>2. CASE Informer(t)
  <2>1. UNCHANGED <<cluster, maps, worker>>
    BY <1>2 DEF Informer, UpdateFunc, InformerStops
  <2>2. /\ updates' \in [Trackers -> Seq(Jobs)]
        /\ jobQueue' \in [Trackers -> Seq(Jobs)]
        /\ panicked' \in BOOLEAN
    <3>1. CASE UpdateFunc(t)
      <4>1. /\ updates[t] \in Seq(Jobs) /\ updates[t] # <<>>
            /\ jobQueue[t] \in Seq(Jobs)
        BY <1>0, <3>1 DEF UpdateFunc, TypeOK
      <4>2. Tail(updates[t]) \in Seq(Jobs) /\ Head(updates[t]) \in Jobs
        BY <4>1, QueueFacts
      <4>3. Append(jobQueue[t], Head(updates[t])) \in Seq(Jobs)
        BY <4>1, <4>2
      <4>4. panicked' \in BOOLEAN
        BY <3>1 DEF UpdateFunc, Closed
      <4>5. updates' \in [Trackers -> Seq(Jobs)]
        BY <1>0, <3>1, <4>2 DEF UpdateFunc, TypeOK
      <4>6. jobQueue' \in [Trackers -> Seq(Jobs)]
        BY <1>0, <3>1, <4>1, <4>3 DEF UpdateFunc, TypeOK
      <4> QED
        BY <4>4, <4>5, <4>6
    <3>2. CASE InformerStops(t)
      <4>1. <<>> \in Seq(Jobs)
        OBVIOUS
      <4> QED
        BY <1>0, <3>2, <4>1 DEF InformerStops, TypeOK
    <3> QED
      BY <1>2, <3>1, <3>2 DEF Informer
  <2>3. TypeOK'
    BY <1>0, <1>1, <2>1, <2>2 DEF TypeOK, trackers, cluster, maps, lists
  <2>4. InHand'
    BY <1>0, <2>1 DEF InHand
  <2> QED
    BY <2>3, <2>4 DEF TypeInv
<1>3. CASE WorkerTake(t)
  <2>1. jobQueue[t] \in Seq(Jobs) /\ jobQueue[t] # <<>>
    BY <1>0, <1>3 DEF WorkerTake, TypeOK
  <2>2. PICK j \in Jobs : j = Head(jobQueue[t])
    BY <2>1, QueueFacts
  <2>3. Tail(jobQueue[t]) \in Seq(Jobs)
    BY <2>1, QueueFacts
  <2>4. results' \subseteq Jobs
    BY <1>0, <1>3, <2>2 DEF WorkerTake, TypeOK
  <2>5. jobQueue' \in [Trackers -> Seq(Jobs)]
    BY <1>0, <1>3, <2>3 DEF WorkerTake, TypeOK
  <2>6. PICK d \in {"nil", "ok"}, e \in SUBSET Jobs :
          \/ worker' = [worker EXCEPT ![t] = IdleWorker]
          \/ worker' = [worker EXCEPT ![t] =
                          [pc |-> "sleep", job |-> j, next |-> None, tail |-> <<>>,
                           done |-> e, dr |-> d]]
    <3>1. Range(JobsOf[BenchmarkOf(j)]) \subseteq Jobs
      BY BenchmarkOfJob
    <3> QED
      BY <1>3, <2>2, <3>1 DEF WorkerTake
  <2>7. worker' \in [Trackers -> WorkerStates] /\ InHand'
    <3>1. CASE worker' = [worker EXCEPT ![t] = IdleWorker]
      BY <1>0, <3>1, WorkerChanged, IdleWorkerType DEF InHand, Hands
    <3>2. CASE worker' = [worker EXCEPT ![t] =
                            [pc |-> "sleep", job |-> j, next |-> None,
                             tail |-> <<>>, done |-> e, dr |-> d]]
      <4>1. <<>> \in Seq(Jobs)
        OBVIOUS
      <4>2. [pc |-> "sleep", job |-> j, next |-> None, tail |-> <<>>,
             done |-> e, dr |-> d] \in WorkerStates
        BY <4>1 DEF WorkerStates
      <4>3. /\ worker'[t] = [pc |-> "sleep", job |-> j, next |-> None,
                             tail |-> <<>>, done |-> e, dr |-> d]
            /\ \A u \in Trackers \ {t} : worker'[u] = worker[u]
            /\ worker' \in [Trackers -> WorkerStates]
        BY <1>0, <3>2, <4>2, WorkerChanged
      <4> QED
        BY <1>0, <4>3 DEF InHand
    <3> QED
      BY <2>6, <3>1, <3>2
  <2>8. UNCHANGED <<jobs, maps, updates, panicked>>
    BY <1>3 DEF WorkerTake
  <2>9. TypeOK'
    BY <1>0, <1>1, <2>4, <2>5, <2>7, <2>8 DEF TypeOK, trackers, maps, lists
  <2> QED
    BY <2>7, <2>9 DEF TypeInv
<1>4. CASE \/ RunLooksAtQuit(t) \/ WorkerLooks(t) \/ WorkerReads(t)
           \/ WorkerStores(t) \/ WorkerCreate(t) \/ WorkerTidies(t)
           \/ WorkerForgets(t)
  <2>1. worker' \in [Trackers -> WorkerStates]
    BY <1>0, <1>4, HandSteps
  <2>2. InHand'
    BY <1>0, <1>4, HandSteps DEF InHand
  <2>3. UNCHANGED <<results, updates>>
    BY <1>4 DEF RunLooksAtQuit, WorkerLooks, WorkerReads, WorkerStores,
                WorkerCreate, WorkerTidies, WorkerForgets, cluster, queues
  <2>4. panicked' \in BOOLEAN
    <3>1. panicked \in BOOLEAN
      BY <1>0 DEF TypeOK
    <3>2. CASE WorkerCreate(t)
      BY <3>2 DEF WorkerCreate
    <3>3. CASE panicked' = panicked \/ panicked' = TRUE
      BY <3>1, <3>3
    <3> QED
      BY <1>4, <3>2, <3>3 DEF RunLooksAtQuit, WorkerLooks, WorkerReads,
         WorkerStores, WorkerTidies, WorkerForgets
  <2>5. jobs' \in [Jobs -> {"absent", "active", "complete"}]
    <3>1. jobs' = jobs \/ jobs' = [jobs EXCEPT ![worker[t].next] = "active"]
      BY <1>4 DEF RunLooksAtQuit, WorkerLooks, WorkerReads, WorkerStores,
                  WorkerCreate, WorkerTidies, WorkerForgets, cluster
    <3> QED
      BY <1>0, <3>1 DEF TypeOK
  <2>6. jobQueue' \in [Trackers -> Seq(Jobs)]
    <3>1. jobQueue' = jobQueue \/ jobQueue' = [jobQueue EXCEPT ![t] = <<>>]
      BY <1>4 DEF RunLooksAtQuit, WorkerLooks, WorkerReads, WorkerStores,
                  WorkerCreate, WorkerTidies, WorkerForgets, queues
    <3>2. <<>> \in Seq(Jobs)
      OBVIOUS
    <3> QED
      BY <1>0, <3>1, <3>2 DEF TypeOK
  <2>7. waiting' \in [Trackers -> [Names -> Seq(Jobs)]]
    <3>1. CASE waiting' = waiting
      BY <1>0, <3>1 DEF TypeOK
    <3>2. CASE WorkerStores(t)
      <4>1. worker[t].job \in Jobs /\ worker[t].tail \in Seq(Jobs)
        BY <1>0, <3>2 DEF WorkerStores, InHand, Hands, TypeOK, WorkerStates
      <4>2. NameInHand(t) \in Names
        BY <4>1, BenchmarkOfJob, NameTypes DEF NameInHand
      <4> QED
        BY <1>0, <3>2, <4>1, <4>2, WaitingType DEF WorkerStores, TypeOK
    <3> QED
      BY <1>4, <3>1, <3>2 DEF RunLooksAtQuit, WorkerLooks, WorkerReads,
         WorkerCreate, WorkerTidies, WorkerForgets, maps, lists
  <2>8. /\ waitingKeys' \in [Trackers -> SUBSET Names]
        /\ drMap' \in [Trackers -> SUBSET Names]
        /\ jobOptMap' \in [Trackers -> SUBSET Jobs]
    <3>t. /\ waitingKeys \in [Trackers -> SUBSET Names]
          /\ drMap \in [Trackers -> SUBSET Names]
          /\ jobOptMap \in [Trackers -> SUBSET Jobs]
      BY <1>0 DEF TypeOK
    <3>1. CASE WorkerStores(t)
      <4>1. worker[t].job \in Jobs
        BY <1>0, <3>1 DEF WorkerStores, InHand, Hands
      <4>2. NameInHand(t) \in Names
        BY <4>1, BenchmarkOfJob, NameTypes DEF NameInHand
      <4> QED
        BY <1>0, <3>1, <4>2 DEF WorkerStores, TypeOK
    <3>2. CASE RunLooksAtQuit(t) \/ WorkerReads(t) \/ WorkerCreate(t)
      <4>1. UNCHANGED <<waitingKeys, drMap, jobOptMap>>
        BY <3>2 DEF RunLooksAtQuit, WorkerReads, WorkerCreate, maps, lists
      <4> QED
        BY <1>0, <4>1 DEF TypeOK
    <3>3. CASE WorkerLooks(t) \/ WorkerForgets(t)
      <4>1. /\ drMap' = drMap \/ drMap' = [drMap EXCEPT ![t] = @ \ {NameInHand(t)}]
            /\ \/ jobOptMap' = jobOptMap
               \/ jobOptMap' = [jobOptMap EXCEPT ![t] = @ \ {worker[t].job}]
            /\ waitingKeys' = waitingKeys
        BY <3>3 DEF WorkerLooks, WorkerForgets, lists
      <4> QED
        BY <3>t, <4>1, OneLess
    <3>4. CASE WorkerTidies(t)
      <4>1. /\ drMap' = drMap \/ drMap' = [drMap EXCEPT ![t] = @ \ {NameInHand(t)}]
            /\ \/ waitingKeys' = waitingKeys
               \/ waitingKeys' = [waitingKeys EXCEPT ![t] = @ \ {NameInHand(t)}]
            /\ jobOptMap' = jobOptMap
        BY <3>4 DEF WorkerTidies
      <4> QED
        BY <3>t, <4>1, OneLess
    <3> QED
      BY <1>4, <3>1, <3>2, <3>3, <3>4
  <2>9. TypeOK'
    BY <1>0, <1>1, <2>1, <2>3, <2>4, <2>5, <2>6, <2>7, <2>8 DEF TypeOK, trackers
  <2> QED
    BY <2>2, <2>9 DEF TypeInv
<1> QED
  BY <1>2, <1>3, <1>4 DEF Worker

LEMMA TypeNext == TypeInv /\ [Next]_vars => TypeInv'
<1> SUFFICES ASSUME TypeInv, [Next]_vars PROVE TypeInv'
  OBVIOUS
<1>1. CASE UNCHANGED vars
  BY <1>1 DEF vars, cluster, trackers, maps, lists, queues, TypeInv, TypeOK, InHand
<1>2. CASE Next
  BY <1>2, EnvironmentTypes, CreateTypes, DeleteTypes, GoroutineTypes
     DEF Next, Environment, Reconciler
<1> QED
  BY <1>1, <1>2

\* Every variable keeps its type, for any number of lives and trackers; the
\* jobs that a scan leaves waiting and that a worker takes off are jobs of the
\* cluster, and the benchmark being finalized is being deleted.
THEOREM TypeCorrect == Spec => []TypeOK
<1>1. TypeInv => TypeOK
  BY DEF TypeInv
<1> QED
  BY <1>1, TypeInit, TypeNext, PTL DEF Spec

-----------------------------------------------------------------------------
(***************************************************************************)
(* Trackers and their subscribers.                                         *)
(***************************************************************************)
RegisteredOK ==
    registered # NoTracker => /\ registered \notin quit
                              /\ subscribers[registered] # {}

Wanted(n) ==
    \/ n \in unfinalized
    \/ \E b \in Benchmarks : NameOf[b] = n /\ res[b] \in {"live", "deleting"}

SubscribersOK ==
    \A t \in Trackers, n \in Names : n \in subscribers[t] =>
        t = registered /\ Wanted(n)

\* Where there is an interface there is a list, which Unsubscribe would find.
DrOK ==
    \A t \in Trackers, n \in Names : n \in drMap[t] =>
        \/ n \in subscribers[t] /\ n \in waitingKeys[t]
        \/ worker[t].pc = "forget" /\ NameInHand(t) = n

\* The benchmark under way has its finalizer yet, and either was given up or
\* has unsubscribed; no one can subscribe before the reconciler is done.
FinalizerOK ==
    finalizer.pc # "idle" =>
        /\ finalizer.b \in Benchmarks /\ res[finalizer.b] = "deleting"
        /\ \/ NameOf[finalizer.b] \in unfinalized
           \/ \A t \in Trackers : NameOf[finalizer.b] \notin subscribers[t]

FollowInv ==
    TypeInv /\ RegisteredOK /\ SubscribersOK /\ DrOK /\ FinalizerOK

LEMMA InitFollow == Init => FollowInv
<1> SUFFICES ASSUME Init PROVE FollowInv
  OBVIOUS
<1>1. finalizer = [pc |-> "idle", b |-> None]
  BY DEF Init, IdleFinalizer
<1>2. RegisteredOK /\ SubscribersOK /\ DrOK /\ FinalizerOK
  BY <1>1 DEF Init, RegisteredOK, SubscribersOK, DrOK, FinalizerOK
<1> QED
  BY <1>2, TypeInit DEF FollowInv

-----------------------------------------------------------------------------
(***************************************************************************)
(* Most steps subscribe no one, begin no finalization and remove no        *)
(* resource that has its finalizer.                                        *)
(***************************************************************************)
LEMMA Kept ==
    ASSUME FollowInv, TypeInv', DrOK',
           UNCHANGED <<registered, quit, subscribers, unfinalized>>,
           \A b \in Benchmarks : res[b] \in {"live", "deleting"} =>
                                 res'[b] \in {"live", "deleting"},
           \A b \in Benchmarks : res[b] = "deleting" => res'[b] = "deleting",
           \/ finalizer' = finalizer
           \/ finalizer'.pc = "idle"
           \/ finalizer.pc # "idle" /\ finalizer'.b = finalizer.b
    PROVE  FollowInv'
<1>1. RegisteredOK /\ SubscribersOK /\ FinalizerOK
  BY DEF FollowInv
<1>2. RegisteredOK'
  BY <1>1 DEF RegisteredOK
<1>3. SubscribersOK'
  BY <1>1 DEF SubscribersOK, Wanted
<1>4. FinalizerOK'
  BY <1>1 DEF FinalizerOK
<1> QED
  BY <1>2, <1>3, <1>4 DEF FollowInv

\* The interfaces that are left have their list and their subscriber, or a
\* worker about to take them off.
LEMMA DrKept ==
    ASSUME DrOK,
           \A t \in Trackers, n \in Names : n \in drMap'[t] =>
              /\ n \in drMap[t]
              /\ n \in subscribers[t] /\ n \in waitingKeys[t] =>
                   n \in subscribers'[t] /\ n \in waitingKeys'[t]
              /\ worker[t].pc = "forget" /\ NameInHand(t) = n =>
                   worker'[t] = worker[t]
    PROVE  DrOK'
  BY DEF DrOK, NameInHand

\* The environment and the reconciler's steps that leave the trackers as they
\* are.
LEMMA QuietFollow ==
    ASSUME FollowInv, TypeInv',
           \/ UNCHANGED vars
           \/ \E b \in Benchmarks :
                UserCreates(b) \/ UserDeletes(b) \/ AddFinalizer(b)
           \/ \E j \in Jobs : JobCompletes(j)
           \/ DeleteFromOperator
    PROVE  FollowInv'
<1>s. TypeOK /\ DrOK
  BY DEF FollowInv, TypeInv
<1>1. UNCHANGED <<trackers, maps, worker, unfinalized>>
  BY DEF vars, UserCreates, UserDeletes, AddFinalizer, JobCompletes,
         DeleteFromOperator
<1>2. DrOK'
  BY <1>s, <1>1 DEF DrOK, maps, lists, NameInHand
<1>3. /\ \A b \in Benchmarks : res[b] \in {"live", "deleting"} =>
                               res'[b] \in {"live", "deleting"}
      /\ \A b \in Benchmarks : res[b] = "deleting" => res'[b] = "deleting"
  BY <1>s DEF TypeOK, vars, UserCreates, UserDeletes, AddFinalizer, JobCompletes,
         DeleteFromOperator, cluster
<1>4. \/ finalizer' = finalizer
      \/ finalizer.pc # "idle" /\ finalizer'.b = finalizer.b
  <2>1. CASE DeleteFromOperator
    <3>1. finalizer.pc = "jobs" /\ finalizer' = [finalizer EXCEPT !.pc = "remove"]
      BY <2>1 DEF DeleteFromOperator
    <3> QED
      BY <1>s, <3>1, FinalizerFacts DEF TypeOK
  <2>2. CASE ~DeleteFromOperator
    BY <2>2 DEF vars, UserCreates, UserDeletes, AddFinalizer, JobCompletes
  <2> QED
    BY <2>1, <2>2
<1> QED
  BY <1>1, <1>2, <1>3, <1>4, Kept DEF trackers, maps

\* The goroutines of a tracker: an interface is taken off together with the
\* list, or by the worker that found none.
LEMMA GoroutineFollow ==
    ASSUME FollowInv, TypeInv', NEW t \in Trackers, Informer(t) \/ Worker(t)
    PROVE  FollowInv'
<1>s. TypeInv /\ TypeOK /\ InHand /\ DrOK
  BY DEF FollowInv, TypeInv
<1>1. UNCHANGED <<res, finalizer, trackers, subscribers, unfinalized>>
  BY DEF Informer, Worker, UpdateFunc, InformerStops, RunLooksAtQuit, WorkerTake,
         WorkerLooks, WorkerReads, WorkerStores, WorkerCreate, WorkerTidies,
         WorkerForgets, cluster, maps
<1>2. DrOK'
  <2>1. CASE \/ Informer(t) \/ RunLooksAtQuit(t) \/ WorkerTake(t)
             \/ WorkerLooks(t) \/ WorkerReads(t) \/ WorkerCreate(t)
    <3>1. UNCHANGED <<waitingKeys, drMap>>
      BY <2>1 DEF Informer, UpdateFunc, InformerStops, RunLooksAtQuit, WorkerTake,
             WorkerLooks, WorkerReads, WorkerCreate, maps, lists
    <3>2. \A u \in Trackers : worker[u].pc = "forget" => worker'[u] = worker[u]
      <4>1. CASE Informer(t)
        BY <4>1 DEF Informer, UpdateFunc, InformerStops
      <4>2. CASE ~Informer(t)
        <5>1. \A u \in Trackers \ {t} : worker'[u] = worker[u]
          <6>1. PICK w : worker' = [worker EXCEPT ![t] = w] \/ worker' = worker
            BY <2>1, <4>2 DEF RunLooksAtQuit, WorkerTake,
               WorkerLooks, WorkerReads, WorkerCreate
          <6> QED
            BY <1>s, <6>1 DEF TypeOK
        <5>2. worker[t].pc # "forget"
          BY <2>1, <4>2 DEF RunLooksAtQuit, WorkerTake, WorkerLooks,
             WorkerReads, WorkerCreate
        <5> QED
          BY <5>1, <5>2
      <4> QED
        BY <4>1, <4>2
    <3> QED
      BY <1>s, <1>1, <3>1, <3>2, DrKept
  <2>2. CASE WorkerStores(t) \/ WorkerTidies(t) \/ WorkerForgets(t)
    <3>1. \A u \in Trackers \ {t} : worker'[u] = worker[u]
      BY <1>s, <2>2, HandSteps
    <3>2. PICK n : n = NameInHand(t)
      OBVIOUS
    <3>3. \A u \in Trackers \ {t} :
            drMap'[u] = drMap[u] /\ waitingKeys'[u] = waitingKeys[u]
      BY <1>s, <2>2 DEF TypeOK, WorkerStores, WorkerTidies, WorkerForgets, lists
    <3>4. /\ \A m \in drMap'[t] : /\ m \in drMap[t]
                                  /\ m \in waitingKeys[t] => m \in waitingKeys'[t]
          /\ WorkerForgets(t) => n \notin drMap'[t]
      <4>0. /\ drMap = [u \in Trackers |-> drMap[u]]
            /\ waitingKeys = [u \in Trackers |-> waitingKeys[u]]
        BY <1>s DEF TypeOK
      <4>1. CASE WorkerStores(t)
        BY <3>2, <4>0, <4>1 DEF WorkerStores, WorkerForgets
      <4>2. CASE WorkerTidies(t)
        <5>1. ~WorkerForgets(t)
          BY <4>2 DEF WorkerTidies, WorkerForgets
        <5>2. \/ drMap' = drMap /\ waitingKeys' = waitingKeys
              \/ /\ drMap' = [drMap EXCEPT ![t] = @ \ {n}]
                 /\ waitingKeys' = [waitingKeys EXCEPT ![t] = @ \ {n}]
          BY <3>2, <4>2 DEF WorkerTidies
        <5> QED
          BY <4>0, <5>1, <5>2
      <4>3. CASE WorkerForgets(t)
        <5>1. /\ drMap' = [drMap EXCEPT ![t] = @ \ {n}]
              /\ waitingKeys' = waitingKeys
          BY <3>2, <4>3 DEF WorkerForgets, lists
        <5> QED
          BY <4>0, <5>1
      <4> QED
        BY <2>2, <4>1, <4>2, <4>3
    <3>5. worker[t].pc = "forget" => WorkerForgets(t)
      BY <2>2 DEF WorkerStores, WorkerTidies
    <3>6. \A u \in Trackers, m \in Names : m \in drMap'[u] =>
            /\ m \in drMap[u]
            /\ m \in subscribers[u] /\ m \in waitingKeys[u] =>
                 m \in subscribers'[u] /\ m \in waitingKeys'[u]
            /\ worker[u].pc = "forget" /\ NameInHand(u) = m =>
                 worker'[u] = worker[u]
      <4> SUFFICES ASSUME NEW u \in Trackers, NEW m \in Names, m \in drMap'[u]
                   PROVE  /\ m \in drMap[u]
                          /\ m \in waitingKeys[u] => m \in waitingKeys'[u]
                          /\ worker[u].pc = "forget" /\ NameInHand(u) = m =>
                               worker'[u] = worker[u]
        BY <1>1
      <4>1. CASE u = t
        BY <3>2, <3>4, <3>5, <4>1
      <4>2. CASE u # t
        BY <3>1, <3>3, <4>2
      <4> QED
        BY <4>1, <4>2
    <3> QED
      BY <1>s, <3>6, DrKept
  <2> QED
    BY <2>1, <2>2 DEF Worker
<1> QED
  BY <1>1, <1>2, Kept DEF trackers

-----------------------------------------------------------------------------
\* A benchmark subscribes to the registered tracker or to a new one.
LEMMA CreateFollow ==
    ASSUME FollowInv, TypeInv', NEW b \in Benchmarks, CreateFromOperator(b)
    PROVE  FollowInv'
<1>s. TypeOK /\ RegisteredOK /\ SubscribersOK /\ DrOK
  BY DEF FollowInv, TypeInv
<1>1. PICK t, left :
        /\ t = IF registered = NoTracker THEN started + 1 ELSE registered
        /\ t <= MaxTrackers /\ registered' = t
        /\ started' = IF registered = NoTracker THEN t ELSE started
        /\ Subscribe(t, b, left)
  BY DEF CreateFromOperator
<1>2. /\ finalizer.pc = "idle" /\ res[b] = "live" /\ NameOf[b] \in Names
      /\ UNCHANGED <<res, finalizer, quit, unfinalized, worker>>
  BY NameTypes DEF CreateFromOperator
<1>3. t \in Trackers /\ t \notin quit
  BY <1>s, <1>1, LivesAssumption DEF TypeOK, RegisteredOK, NoTracker, Trackers
<1>4. /\ subscribers'[t] = subscribers[t] \cup {NameOf[b]}
      /\ \A u \in Trackers \ {t} : subscribers'[u] = subscribers[u]
  BY <1>s, <1>1, <1>2, <1>3 DEF TypeOK, Subscribe
<1>5. RegisteredOK'
  BY <1>1, <1>2, <1>3, <1>4 DEF RegisteredOK
<1>6. SubscribersOK'
  <2> SUFFICES ASSUME NEW u \in Trackers, NEW n \in Names, n \in subscribers'[u]
               PROVE  u = t /\ Wanted(n)'
    BY <1>1 DEF SubscribersOK
  <2>1. CASE u = t /\ n = NameOf[b]
    BY <1>2, <2>1 DEF Wanted
  <2>2. CASE u # t \/ n # NameOf[b]
    <3>1. n \in subscribers[u]
      BY <1>4, <2>2
    <3>2. u = registered /\ Wanted(n)
      BY <1>s, <3>1 DEF SubscribersOK
    <3>3. u # NoTracker
      BY DEF Trackers, NoTracker
    <3> QED
      BY <1>1, <1>2, <3>2, <3>3 DEF Wanted
  <2> QED
    BY <2>1, <2>2
<1>7. DrOK'
  <2>1. CASE left = <<>>
    <3>1. UNCHANGED <<waitingKeys, drMap>>
      BY <1>1, <2>1 DEF Subscribe, lists
    <3> QED
      BY <1>s, <1>2, <1>4, <3>1 DEF DrOK, NameInHand
  <2>2. CASE left # <<>>
    <3>1. /\ waitingKeys' = [waitingKeys EXCEPT ![t] = @ \cup {NameOf[b]}]
          /\ drMap' = [drMap EXCEPT ![t] = @ \cup {NameOf[b]}]
      BY <1>1, <2>2 DEF Subscribe
    <3>2. /\ waitingKeys = [u \in Trackers |-> waitingKeys[u]]
          /\ drMap = [u \in Trackers |-> drMap[u]]
      BY <1>s DEF TypeOK
    <3>3. /\ waitingKeys'[t] = waitingKeys[t] \cup {NameOf[b]}
          /\ drMap'[t] = drMap[t] \cup {NameOf[b]}
          /\ \A u \in Trackers \ {t} :
                drMap'[u] = drMap[u] /\ waitingKeys'[u] = waitingKeys[u]
      BY <1>3, <3>1, <3>2
    <3> QED
      BY <1>s, <1>2, <1>4, <3>3 DEF DrOK, NameInHand
  <2> QED
    BY <2>1, <2>2
<1>8. FinalizerOK'
  BY <1>2 DEF FinalizerOK
<1> QED
  BY <1>5, <1>6, <1>7, <1>8 DEF FollowInv

\* The last subscriber takes the tracker away with it; where it leaves an
\* interface behind, there was no list to find.
LEMMA DeleteFollow ==
    ASSUME FollowInv, TypeInv', NEW b \in Benchmarks, FinalizeBenchmark(b)
    PROVE  FollowInv'
<1> DEFINE n == NameOf[b]
<1>s. TypeOK /\ RegisteredOK /\ SubscribersOK /\ DrOK
  BY DEF FollowInv, TypeInv
<1>1. /\ res[b] = "deleting" /\ n \in Names
      /\ UNCHANGED <<res, unfinalized, worker>>
      /\ finalizer' = [pc |-> "jobs", b |-> b]
      /\ DeleteTracker(n)
  BY NameTypes DEF FinalizeBenchmark, cluster
<1>2. finalizer'.b = b
  BY <1>1
<1> HIDE DEF n
<1>3. CASE registered = NoTracker
  <2>1. UNCHANGED <<trackers, maps>>
    BY <1>1, <1>3 DEF DeleteTracker
  <2>2. \A t \in Trackers : n \notin subscribers[t]
    BY <1>s, <1>1, <1>3 DEF SubscribersOK, Trackers, NoTracker
  <2>3. RegisteredOK' /\ DrOK'
    BY <1>s, <1>1, <2>1 DEF RegisteredOK, DrOK, trackers, maps, lists, NameInHand
  <2>4. SubscribersOK'
    BY <1>s, <1>1, <2>1 DEF SubscribersOK, Wanted, trackers, maps
  <2>5. FinalizerOK'
    BY <1>1, <1>2, <2>1, <2>2 DEF FinalizerOK, n, maps
  <2> QED
    BY <2>3, <2>4, <2>5 DEF FollowInv
<1>4. CASE registered # NoTracker
  <2>1. /\ Unsubscribe(registered, n)
        /\ \/ /\ subscribers[registered] \subseteq {n}
              /\ registered' = NoTracker /\ quit' = quit \cup {registered}
           \/ /\ ~(subscribers[registered] \subseteq {n})
              /\ registered' = registered /\ quit' = quit
    BY <1>1, <1>4 DEF DeleteTracker
  <2>2. registered \in Trackers
    BY <1>s, <1>4, LivesAssumption DEF TypeOK, NoTracker, Trackers
  <2>3. /\ subscribers'[registered] = subscribers[registered] \ {n}
        /\ \A u \in Trackers \ {registered} : subscribers'[u] = subscribers[u]
    BY <1>s, <2>1, <2>2 DEF TypeOK, Unsubscribe
  <2>4. RegisteredOK'
    BY <1>s, <2>1, <2>3 DEF RegisteredOK
  <2>5. SubscribersOK'
    <3> SUFFICES ASSUME NEW u \in Trackers, NEW m \in Names, m \in subscribers'[u]
                 PROVE  u = registered' /\ Wanted(m)'
      BY DEF SubscribersOK
    <3>1. u = registered /\ Wanted(m) /\ m # n
      BY <1>s, <2>3 DEF SubscribersOK
    <3>2. registered' = registered
      BY <2>1, <2>3, <3>1
    <3> QED
      BY <1>1, <3>1, <3>2 DEF Wanted
  <2>6. DrOK'
    <3>1. CASE n \in subscribers[registered] /\ n \in waitingKeys[registered]
      <4>1. /\ waitingKeys' = [waitingKeys EXCEPT ![registered] = @ \ {n}]
            /\ drMap' = [drMap EXCEPT ![registered] = @ \ {n}]
        BY <2>1, <3>1 DEF Unsubscribe
      <4>2. /\ waitingKeys = [u \in Trackers |-> waitingKeys[u]]
            /\ drMap = [u \in Trackers |-> drMap[u]]
        BY <1>s DEF TypeOK
      <4>3. /\ waitingKeys'[registered] = waitingKeys[registered] \ {n}
            /\ drMap'[registered] = drMap[registered] \ {n}
            /\ \A u \in Trackers \ {registered} :
                  drMap'[u] = drMap[u] /\ waitingKeys'[u] = waitingKeys[u]
        BY <2>2, <4>1, <4>2
      <4> QED
        BY <1>s, <1>1, <2>3, <4>3 DEF DrOK, NameInHand
    <3>2. CASE ~(n \in subscribers[registered] /\ n \in waitingKeys[registered])
      <4>1. UNCHANGED <<waitingKeys, drMap>>
        BY <2>1, <3>2 DEF Unsubscribe, lists
      <4> QED
        BY <1>s, <1>1, <2>3, <3>2, <4>1 DEF DrOK, NameInHand
    <3> QED
      BY <3>1, <3>2
  <2>7. FinalizerOK'
    <3>1. \A u \in Trackers : n \notin subscribers'[u]
      BY <1>s, <1>1, <2>3 DEF SubscribersOK
    <3> QED
      BY <1>1, <1>2, <3>1 DEF FinalizerOK, n
  <2> QED
    BY <2>4, <2>5, <2>6, <2>7 DEF FollowInv
<1> QED
  BY <1>3, <1>4

\* The benchmark is given up: its name stays wanted.
LEMMA GiveUpFollow ==
    ASSUME FollowInv, TypeInv', NEW b \in Benchmarks, FinalizeWithoutOperator(b)
    PROVE  FollowInv'
<1>s. RegisteredOK /\ SubscribersOK /\ DrOK
  BY DEF FollowInv
<1>1. /\ res[b] = "deleting" /\ NameOf[b] \in Names
      /\ UNCHANGED <<res, trackers, maps, worker>>
      /\ finalizer' = [pc |-> "remove", b |-> b]
      /\ unfinalized' = unfinalized \cup {NameOf[b]}
  BY NameTypes DEF FinalizeWithoutOperator, cluster
<1>2. finalizer'.b = b
  BY <1>1
<1>3. RegisteredOK' /\ DrOK'
  BY <1>s, <1>1 DEF RegisteredOK, DrOK, trackers, maps, lists, NameInHand
<1>4. SubscribersOK'
  BY <1>s, <1>1 DEF SubscribersOK, Wanted, trackers, maps
<1>5. FinalizerOK'
  BY <1>1, <1>2 DEF FinalizerOK
<1> QED
  BY <1>3, <1>4, <1>5 DEF FollowInv

\* The resource goes; no tracker has its name, unless it was given up.
LEMMA RemoveFollow ==
    ASSUME FollowInv, TypeInv', RemoveFinalizer
    PROVE  FollowInv'
<1>s. TypeOK /\ RegisteredOK /\ SubscribersOK /\ DrOK /\ FinalizerOK
  BY DEF FollowInv, TypeInv
<1>1. /\ finalizer.pc = "remove"
      /\ res' = [res EXCEPT ![finalizer.b] = "absent"]
      /\ finalizer' = [pc |-> "idle", b |-> None]
      /\ UNCHANGED <<trackers, maps, worker, unfinalized>>
  BY DEF RemoveFinalizer, IdleFinalizer
<1>2. finalizer'.pc = "idle"
  BY <1>1
<1>3. \A b \in Benchmarks : b # finalizer.b => res'[b] = res[b]
  BY <1>s, <1>1 DEF TypeOK
<1>4. RegisteredOK' /\ DrOK' /\ FinalizerOK'
  BY <1>s, <1>1, <1>2
     DEF RegisteredOK, DrOK, FinalizerOK, trackers, maps, lists, NameInHand
<1>5. SubscribersOK'
  <2> SUFFICES ASSUME NEW t \in Trackers, NEW n \in Names, n \in subscribers[t]
               PROVE  t = registered /\ Wanted(n)'
    BY <1>1 DEF SubscribersOK, trackers, maps
  <2>1. t = registered /\ Wanted(n)
    BY <1>s DEF SubscribersOK
  <2>2. n = NameOf[finalizer.b] => n \in unfinalized
    BY <1>s, <1>1 DEF FinalizerOK
  <2> QED
    BY <1>1, <1>3, <2>1, <2>2 DEF Wanted
<1> QED
  BY <1>4, <1>5 DEF FollowInv

LEMMA FollowInductive == FollowInv /\ [Next]_vars => FollowInv'
<1> SUFFICES ASSUME FollowInv, [Next]_vars PROVE FollowInv'
  OBVIOUS
<1>0. TypeInv'
  BY TypeNext DEF FollowInv
<1>1. CASE UNCHANGED vars
  BY <1>0, <1>1, QuietFollow
<1>2. CASE Environment
  BY <1>0, <1>2, QuietFollow DEF Environment
<1>3. CASE Reconciler
  BY <1>0, <1>3, QuietFollow, CreateFollow, GiveUpFollow, DeleteFollow,
     RemoveFollow DEF Reconciler
<1>4. ASSUME NEW t \in Trackers, Informer(t) \/ Worker(t) PROVE FollowInv'
  BY <1>0, <1>4, GoroutineFollow
<1> QED
  BY <1>1, <1>2, <1>3, <1>4 DEF Next

(***************************************************************************)
(* Trackers follow their subscribers: the registered one runs and has some *)
(* and no other has, whoever comes and goes, for benchmarks that share     *)
(* names, and with goroutines that outlive their tracker.  A list may stay *)
(* behind, but no worker finds the interface to create its jobs through    *)
(* once it has handed on the turn it has.                                  *)
(***************************************************************************)
THEOREM TrackerFollows == Spec => []TrackerFollowsSubscribers
<1>1. Init => FollowInv
  BY InitFollow
<1>2. FollowInv /\ [Next]_vars => FollowInv'
  BY FollowInductive
<1>3. FollowInv => TrackerFollowsSubscribers
  BY DEF FollowInv, RegisteredOK, SubscribersOK, DrOK, Wanted,
         TrackerFollowsSubscribers
<1> QED
  BY <1>1, <1>2, <1>3, PTL DEF Spec

-----------------------------------------------------------------------------
(***************************************************************************)
(* What a worker holds of a benchmark when its life ends.  A worker finds  *)
(* the interface to create jobs through only in the registered tracker and *)
(* for a subscriber, and creates one job through it, so one life leaves    *)
(* at most one job to one more worker.                                     *)
(***************************************************************************)

\* The workers that may create a job of b, and the jobs of b that exist.
Holds(w, b) == w.pc \in Hands /\ w.dr = "ok" /\ BenchmarkOf(w.job) = b
Holding(b) == {t \in Trackers : Holds(worker[t], b)}
Present(b) == {j \in Range(JobsOf[b]) : jobs[j] # "absent"}

\* A list under a name is one of a benchmark with that name, and so is what a
\* worker has read off it.
WaitingNamed ==
    \A t \in Trackers, n \in Names : \A i \in 1..Len(waiting[t][n]) :
        NameOf[BenchmarkOf(waiting[t][n][i])] = n
HandsNamed ==
    \A t \in Trackers : worker[t].pc \in {"store", "create"} =>
        /\ NameOf[BenchmarkOf(worker[t].next)] = NameInHand(t)
        /\ \A i \in 1..Len(worker[t].tail) :
              NameOf[BenchmarkOf(worker[t].tail[i])] = NameInHand(t)
ListsOK == WaitingNamed /\ HandsNamed

Cleared(b) == \/ res[b] = "absent"
              \/ finalizer.pc = "remove" /\ finalizer.b = b

\* The registered tracker's worker counts for the life that is under way.
HoldersOK(b) ==
    /\ IsExist(b) => Cardinality(Holding(b) \ {registered}) < lives[b]
    /\ ~IsExist(b) => Cardinality(Holding(b)) <= lives[b]
    /\ ~IsExist(b) /\ res[b] \in {"new", "live"} =>
         Cardinality(Holding(b)) < lives[b]

\* What exists after the jobs have been deleted was in a worker's hands.
OrphansOK(b) ==
    /\ Cleared(b) =>
         Cardinality(Present(b)) + Cardinality(Holding(b)) <= lives[b]
    /\ res[b] = "new" =>
         Cardinality(Present(b)) + Cardinality(Holding(b)) < lives[b]

OrphanInv ==
    /\ FollowInv /\ TypeInv /\ ListsOK
    /\ UniqueNames =>
         \A b \in Benchmarks : NameOf[b] \notin unfinalized =>
             HoldersOK(b) /\ OrphansOK(b)

-----------------------------------------------------------------------------
LEMMA ListReplaced ==
    ASSUME TypeInv, WaitingNamed, NEW t \in Trackers, NEW n \in Names, NEW w,
           waiting' = [waiting EXCEPT ![t][n] = w],
           \A i \in 1..Len(w) : NameOf[BenchmarkOf(w[i])] = n
    PROVE  WaitingNamed'
<1>1. waiting = [u \in Trackers |-> [m \in Names |-> waiting[u][m]]]
  <2>1. waiting \in [Trackers -> [Names -> Seq(Jobs)]]
    BY DEF TypeInv, TypeOK
  <2> QED
    BY <2>1
<1>2. \A u \in Trackers, m \in Names :
         waiting'[u][m] = IF u = t /\ m = n THEN w ELSE waiting[u][m]
  BY <1>1, WaitingUpdate
<1> SUFFICES ASSUME NEW u \in Trackers, NEW m \in Names,
                    NEW i \in 1..Len(waiting'[u][m])
             PROVE  NameOf[BenchmarkOf(waiting'[u][m][i])] = m
  BY DEF WaitingNamed
<1>3. CASE u = t /\ m = n
  BY <1>2, <1>3
<1>4. CASE ~(u = t /\ m = n)
  <2>1. waiting'[u][m] = waiting[u][m]
    BY <1>2, <1>4
  <2> QED
    BY <2>1 DEF WaitingNamed
<1> QED
  BY <1>3, <1>4

\* The registered tracker is one of the trackers.
LEMMA RegisteredType ==
    ASSUME TypeInv
    PROVE  registered = NoTracker \/ registered \in Trackers
<1>1. /\ MaxTrackers \in Nat /\ started \in 0..MaxTrackers
      /\ registered \in 0..started
  BY LivesAssumption DEF TypeInv, TypeOK
<1> QED
  BY <1>1 DEF NoTracker, Trackers

LEMMA WaitingNamedNext ==
    ASSUME TypeInv, ListsOK, [Next]_vars
    PROVE  WaitingNamed'
<1>0. /\ waiting \in [Trackers -> [Names -> Seq(Jobs)]] /\ InHand
      /\ WaitingNamed /\ HandsNamed
  BY DEF TypeInv, TypeOK, ListsOK
<1>1. ASSUME NEW b \in Benchmarks, CreateFromOperator(b) PROVE WaitingNamed'
  <2>1. PICK t, left :
          /\ left \in Seq(Range(JobsOf[b]))
          /\ t = IF registered = NoTracker THEN started + 1 ELSE registered
          /\ t <= MaxTrackers
          /\ \/ waiting' = waiting
             \/ waiting' = [waiting EXCEPT ![t][NameOf[b]] = left]
    <3>1. <<>> \in Seq(Range(JobsOf[b]))
      OBVIOUS
    <3>2. (IF FirstNew(b) = 0 THEN <<>> ELSE LeftWaiting(b)) \in Seq(Range(JobsOf[b]))
      BY <3>1, LeftWaitingType, Zenon
    <3> QED
      BY <1>1, <3>2 DEF CreateFromOperator, Subscribe, lists
  <2>2. t \in Trackers
    <3>1. /\ MaxTrackers \in Nat /\ started \in 0..MaxTrackers
          /\ registered \in 0..started
      BY LivesAssumption DEF TypeInv, TypeOK
    <3> QED
      BY <2>1, <3>1 DEF NoTracker, Trackers
  <2>3. PICK n \in Names : n = NameOf[b]
    BY NameTypes
  <2>4. \A i \in 1..Len(left) : NameOf[BenchmarkOf(left[i])] = n
    <3>1. \A i \in 1..Len(left) : left[i] \in Range(JobsOf[b])
      BY <2>1
    <3>2. \A i \in 1..Len(left) : BenchmarkOf(left[i]) = b
      BY <3>1, BenchmarkOfJob
    <3> QED
      BY <2>3, <3>2
  <2>5. CASE waiting' = waiting
    BY <1>0, <2>5 DEF WaitingNamed
  <2>6. CASE waiting' = [waiting EXCEPT ![t][n] = left]
    BY <1>0, <2>2, <2>4, <2>6, ListReplaced
  <2> QED
    BY <2>1, <2>3, <2>5, <2>6
<1>2. ASSUME NEW b \in Benchmarks, FinalizeBenchmark(b) PROVE WaitingNamed'
  <2>1. PICK n \in Names :
          \/ waiting' = waiting
          \/ /\ registered # NoTracker
             /\ waiting' = [waiting EXCEPT ![registered][n] = <<>>]
    BY <1>2, NameTypes DEF FinalizeBenchmark, DeleteTracker, Unsubscribe, maps, lists
  <2>2. CASE waiting' = waiting
    BY <1>0, <2>2 DEF WaitingNamed
  <2>3. CASE /\ registered # NoTracker
             /\ waiting' = [waiting EXCEPT ![registered][n] = <<>>]
    <3>1. registered \in Trackers
      BY <2>3, RegisteredType
    <3>2. PICK w : w = <<>> /\ waiting' = [waiting EXCEPT ![registered][n] = w]
      BY <2>3
    <3>3. \A i \in 1..Len(w) : NameOf[BenchmarkOf(w[i])] = n
      BY <3>2
    <3> QED
      BY <1>0, <3>1, <3>2, <3>3, ListReplaced
  <2> QED
    BY <2>1, <2>2, <2>3
<1>3. ASSUME NEW t \in Trackers, WorkerStores(t) PROVE WaitingNamed'
  <2>1. worker[t].pc = "store" /\ worker[t].job \in Jobs
    BY <1>0, <1>3 DEF WorkerStores, InHand, Hands
  <2>2. PICK n, w :
          /\ n \in Names /\ n = NameInHand(t) /\ w = worker[t].tail
          /\ waiting' = [waiting EXCEPT ![t][n] = w]
    <3>1. NameInHand(t) \in Names
      BY <2>1, BenchmarkOfJob, NameTypes DEF NameInHand
    <3> QED
      BY <1>3, <3>1 DEF WorkerStores
  <2>3. \A i \in 1..Len(w) : NameOf[BenchmarkOf(w[i])] = n
    BY <1>0, <2>1, <2>2 DEF HandsNamed
  <2> QED
    BY <1>0, <2>2, <2>3, ListReplaced
<1>4. ASSUME waiting' = waiting PROVE WaitingNamed'
  BY <1>0, <1>4 DEF WaitingNamed
<1>5. ASSUME NEW t \in Trackers,
             \/ Informer(t) \/ RunLooksAtQuit(t) \/ WorkerTake(t)
             \/ WorkerLooks(t) \/ WorkerReads(t) \/ WorkerCreate(t)
             \/ WorkerTidies(t) \/ WorkerForgets(t)
      PROVE  waiting' = waiting
  BY <1>5 DEF Informer, UpdateFunc, InformerStops, RunLooksAtQuit, WorkerTake,
              WorkerLooks, WorkerReads, WorkerCreate, WorkerTidies, WorkerForgets,
              maps, lists
<1>6. ASSUME \/ Environment
             \/ \E b \in Benchmarks : AddFinalizer(b) \/ FinalizeWithoutOperator(b)
             \/ DeleteFromOperator \/ RemoveFinalizer
             \/ UNCHANGED vars
      PROVE  waiting' = waiting
  BY <1>6 DEF Environment, UserCreates, UserDeletes, AddFinalizer, JobCompletes,
              FinalizeWithoutOperator, DeleteFromOperator, RemoveFinalizer, maps,
              lists, vars
<1> QED
  BY <1>1, <1>2, <1>3, <1>4, <1>5, <1>6 DEF Next, Reconciler, Worker

LEMMA HandsNamedNext ==
    ASSUME TypeInv, ListsOK, [Next]_vars
    PROVE  HandsNamed'
<1>0. /\ waiting \in [Trackers -> [Names -> Seq(Jobs)]] /\ InHand /\ TypeOK
      /\ worker \in [Trackers -> WorkerStates]
      /\ WaitingNamed /\ HandsNamed
  BY DEF TypeInv, TypeOK, ListsOK
<1>1. CASE worker' = worker
  BY <1>0, <1>1 DEF HandsNamed, NameInHand
<1>2. ASSUME NEW t \in Trackers, \A u \in Trackers \ {t} : worker'[u] = worker[u],
             worker'[t].pc \in {"store", "create"} =>
                /\ NameOf[BenchmarkOf(worker'[t].next)]
                      = NameOf[BenchmarkOf(worker'[t].job)]
                /\ \A i \in 1..Len(worker'[t].tail) :
                      NameOf[BenchmarkOf(worker'[t].tail[i])]
                        = NameOf[BenchmarkOf(worker'[t].job)]
      PROVE  HandsNamed'
  BY <1>0, <1>2 DEF HandsNamed, NameInHand
<1>3. ASSUME NEW t \in Trackers, WorkerTake(t) PROVE HandsNamed'
  <2>1. PICK w : worker' = [worker EXCEPT ![t] = w] /\ w.pc \in {"between", "sleep"}
    <3>1. PICK j, d, e :
            \/ worker' = [worker EXCEPT ![t] = IdleWorker]
            \/ worker' = [worker EXCEPT ![t] =
                            [pc |-> "sleep", job |-> j, next |-> None, tail |-> <<>>,
                             done |-> e, dr |-> d]]
      BY <1>3 DEF WorkerTake
    <3> QED
      BY <3>1, IdleWorkerType
  <2>2. /\ \A u \in Trackers \ {t} : worker'[u] = worker[u]
        /\ worker'[t].pc \notin {"store", "create"}
    BY <1>0, <2>1
  <2> QED
    BY <1>2, <2>2
<1>4. ASSUME NEW t \in Trackers,
             \/ RunLooksAtQuit(t) \/ WorkerLooks(t) \/ WorkerReads(t)
             \/ WorkerStores(t) \/ WorkerCreate(t) \/ WorkerTidies(t)
             \/ WorkerForgets(t)
      PROVE  HandsNamed'
  <2>1. \A u \in Trackers \ {t} : worker'[u] = worker[u]
    BY <1>0, <1>4, HandSteps
  <2> SUFFICES ASSUME worker'[t].pc \in {"store", "create"}
               PROVE  HandsNamed'
    BY <1>2, <2>1
  <2>2. worker[t].pc \in Hands /\ worker'[t].job = worker[t].job
    BY <1>0, <1>4, HandSteps DEF Hands
  <2>3. PICK n \in Names : n = NameOf[BenchmarkOf(worker[t].job)]
    BY <1>0, <2>2, BenchmarkOfJob, NameTypes DEF InHand
  <2>4. CASE WorkerReads(t)
    <3>1. /\ waiting[t][n] # <<>> /\ worker'[t].next = Head(waiting[t][n])
          /\ worker'[t].tail = Tail(waiting[t][n])
      BY <1>0, <1>4, <2>3, <2>4, HandSteps DEF NameInHand
    <3>2. /\ 1 \in 1..Len(waiting[t][n]) /\ worker'[t].next = waiting[t][n][1]
          /\ \A i \in 1..Len(worker'[t].tail) :
                /\ i + 1 \in 1..Len(waiting[t][n])
                /\ worker'[t].tail[i] = waiting[t][n][i + 1]
      BY <1>0, <3>1, QueueFacts
    <3>3. /\ NameOf[BenchmarkOf(worker'[t].next)] = n
          /\ \A i \in 1..Len(worker'[t].tail) :
                NameOf[BenchmarkOf(worker'[t].tail[i])] = n
      BY <1>0, <3>2 DEF WaitingNamed
    <3> QED
      BY <1>2, <2>1, <2>2, <2>3, <3>3
  <2>5. CASE ~WorkerReads(t)
    <3>1. /\ worker[t].pc = "store" /\ worker'[t].next = worker[t].next
          /\ worker'[t].tail = <<>>
      BY <1>0, <1>4, <2>5, HandSteps
    <3>2. NameOf[BenchmarkOf(worker'[t].next)] = n
      BY <1>0, <2>3, <3>1 DEF HandsNamed, NameInHand
    <3> QED
      BY <1>2, <2>1, <2>2, <2>3, <3>1, <3>2
  <2> QED
    BY <2>4, <2>5
<1>5. ASSUME NEW t \in Trackers, Informer(t) PROVE worker' = worker
  BY <1>5 DEF Informer, UpdateFunc, InformerStops
<1>6. ASSUME Environment \/ Reconciler \/ UNCHANGED vars
      PROVE  worker' = worker
  BY <1>6 DEF Environment, UserCreates, UserDeletes, JobCompletes, Reconciler,
              AddFinalizer, CreateFromOperator, FinalizeBenchmark,
              FinalizeWithoutOperator, DeleteFromOperator, RemoveFinalizer, vars
<1> QED
  BY <1>1, <1>3, <1>4, <1>5, <1>6 DEF Next, Worker

LEMMA ListsNext ==
    ASSUME TypeInv, ListsOK, [Next]_vars
    PROVE  ListsOK'
  BY WaitingNamedNext, HandsNamedNext DEF ListsOK

\* Of two names that are equal there is one benchmark.
LEMMA SameBenchmark ==
    ASSUME TypeInv, ListsOK, UniqueNames, NEW t \in Trackers,
           worker[t].pc \in {"store", "create"}
    PROVE  /\ worker[t].next \in Jobs /\ worker[t].job \in Jobs
           /\ BenchmarkOf(worker[t].next) = BenchmarkOf(worker[t].job)
<1>1. worker[t].next \in Jobs /\ worker[t].job \in Jobs
  BY DEF TypeInv, InHand, Hands
<1>2. NameOf[BenchmarkOf(worker[t].next)] = NameOf[BenchmarkOf(worker[t].job)]
  BY DEF ListsOK, HandsNamed, NameInHand
<1> QED
  BY <1>1, <1>2, BenchmarkOfJob DEF UniqueNames

-----------------------------------------------------------------------------
(***************************************************************************)
(* Sizes of sets of trackers and of jobs of a benchmark.                   *)
(***************************************************************************)
LEMMA FiniteSets ==
    /\ IsFiniteSet(Trackers)
    /\ \A b \in Benchmarks : IsFiniteSet(Range(JobsOf[b]))
<1>1. IsFiniteSet(Trackers)
  BY LivesAssumption, FS_Interval DEF Trackers
<1>2. ASSUME NEW b \in Benchmarks PROVE IsFiniteSet(Range(JobsOf[b]))
  <2>1. JobsOf[b] \in Seq(Jobs)
    BY JobsOfType
  <2>2. PICK n \in Nat : n = Len(JobsOf[b]) /\ DOMAIN JobsOf[b] = 1..n
    BY <2>1
  <2>3. JobsOf[b] \in Surjection(1..n, Range(JobsOf[b]))
    BY <2>1, <2>2 DEF Surjection, Range
  <2>4. IsFiniteSet(1..n)
    BY FS_Interval
  <2> QED
    BY <2>3, <2>4, FS_Surjection
<1> QED
  BY <1>1, <1>2

\* Part of a finite set.
LEMMA PartSize ==
    ASSUME NEW S, IsFiniteSet(S), NEW T, T \subseteq S
    PROVE  /\ IsFiniteSet(T) /\ Cardinality(T) \in Nat
           /\ Cardinality(S) \in Nat /\ Cardinality(T) <= Cardinality(S)
  BY FS_Subset, FS_CardinalityType

\* A set without one element.
LEMMA WithoutSize ==
    ASSUME NEW S, IsFiniteSet(S), NEW x
    PROVE  /\ Cardinality(S) \in Nat /\ Cardinality(S \ {x}) \in Nat
           /\ Cardinality(S \ {x}) <= Cardinality(S)
           /\ Cardinality(S) <= Cardinality(S \ {x}) + 1
           /\ x \in S => Cardinality(S \ {x}) + 1 = Cardinality(S)
<1>1. /\ IsFiniteSet(S \ {x})
      /\ Cardinality(S \ {x}) =
           IF x \in S THEN Cardinality(S) - 1 ELSE Cardinality(S)
  BY FS_RemoveElement
<1>2. Cardinality(S) \in Nat /\ Cardinality(S \ {x}) \in Nat
  BY <1>1, FS_CardinalityType
<1> QED
  BY <1>1, <1>2

\* A set with one more element.
LEMMA WithSize ==
    ASSUME NEW S, IsFiniteSet(S), NEW x
    PROVE  /\ IsFiniteSet(S \cup {x})
           /\ Cardinality(S \cup {x}) \in Nat /\ Cardinality(S) \in Nat
           /\ Cardinality(S \cup {x}) <= Cardinality(S) + 1
<1>1. /\ IsFiniteSet(S \cup {x})
      /\ Cardinality(S \cup {x}) =
           IF x \in S THEN Cardinality(S) ELSE Cardinality(S) + 1
  BY FS_AddElement
<1>2. Cardinality(S) \in Nat /\ Cardinality(S \cup {x}) \in Nat
  BY <1>1, FS_CardinalityType
<1> QED
  BY <1>1, <1>2

LEMMA HoldersFinite ==
    ASSUME NEW b \in Benchmarks
    PROVE  /\ IsFiniteSet(Holding(b)) /\ IsFiniteSet(Present(b))
           /\ IsFiniteSet(Holding(b)') /\ IsFiniteSet(Present(b)')
<1>1. Holding(b) \subseteq Trackers /\ Holding(b)' \subseteq Trackers
  BY DEF Holding
<1>2. /\ Present(b) \subseteq Range(JobsOf[b])
      /\ Present(b)' \subseteq Range(JobsOf[b])
  BY DEF Present
<1> QED
  BY <1>1, <1>2, FiniteSets, PartSize

-----------------------------------------------------------------------------
\* A step that begins no life of b, subscribes b to nothing and unsubscribes
\* it from nothing, and gives nothing of it to a worker.
LEMMA CalmStep ==
    ASSUME NEW b \in Benchmarks, HoldersOK(b), OrphansOK(b),
           lives' = lives, lives[b] \in Nat,
           IsExist(b)' <=> IsExist(b),
           IsExist(b) => registered' = registered,
           Holding(b)' \subseteq Holding(b),
           \/ Present(b)' \subseteq Present(b)
           \/ Cardinality(Present(b)') + Cardinality(Holding(b)')
                <= Cardinality(Present(b)) + Cardinality(Holding(b)),
           Cleared(b)' => Cleared(b) \/ res[b] = "new",
           res'[b] = "new" => res[b] = "new",
           res'[b] = "live" => res[b] \in {"new", "live"}
    PROVE  HoldersOK(b)' /\ OrphansOK(b)'
<1>1. PICK h \in Nat, i \in Nat, p \in Nat, q \in Nat, l \in Nat :
        /\ h = Cardinality(Holding(b)) /\ i = Cardinality(Holding(b)')
        /\ p = Cardinality(Present(b)) /\ q = Cardinality(Present(b)')
        /\ l = lives[b]
  BY HoldersFinite, FS_CardinalityType
<1>2. i <= h /\ q + i <= p + h
  <2>1. i <= h
    BY <1>1, HoldersFinite, PartSize
  <2>2. Present(b)' \subseteq Present(b) => q <= p
    BY <1>1, HoldersFinite, PartSize
  <2> QED
    BY <1>1, <2>1, <2>2
<1>3. HoldersOK(b)'
  <2>1. IsExist(b) => Cardinality(Holding(b)' \ {registered'}) < l
    <3> SUFFICES ASSUME IsExist(b)
                 PROVE  Cardinality(Holding(b)' \ {registered'}) < l
      OBVIOUS
    <3>1. /\ Holding(b)' \ {registered'} \subseteq Holding(b) \ {registered}
          /\ IsFiniteSet(Holding(b) \ {registered})
      BY HoldersFinite, FS_RemoveElement
    <3>2. PICK m \in Nat, n \in Nat :
            /\ m = Cardinality(Holding(b)' \ {registered'})
            /\ n = Cardinality(Holding(b) \ {registered}) /\ m <= n
      BY <3>1, PartSize
    <3>3. n < l
      BY <1>1, <3>2 DEF HoldersOK
    <3> QED
      BY <3>2, <3>3
  <2>2. ~IsExist(b) => i <= l
    BY <1>1, <1>2 DEF HoldersOK
  <2>3. ~IsExist(b) /\ res'[b] \in {"new", "live"} => i < l
    BY <1>1, <1>2 DEF HoldersOK
  <2> QED
    BY <1>1, <2>1, <2>2, <2>3 DEF HoldersOK
<1>4. OrphansOK(b)'
  <2>1. Cleared(b)' => q + i <= l
    BY <1>1, <1>2 DEF OrphansOK
  <2>2. res'[b] = "new" => q + i < l
    BY <1>1, <1>2 DEF OrphansOK
  <2> QED
    BY <1>1, <2>1, <2>2 DEF OrphansOK
<1> QED
  BY <1>3, <1>4

\* The scan of one benchmark leaves the jobs of the others.
LEMMA NotOfOther ==
    ASSUME TypeOK, NEW b \in Benchmarks, NEW c \in Benchmarks, c # b,
           CreateFromOperator(c)
    PROVE  \A j \in Range(JobsOf[b]) : jobs'[j] = jobs[j]
<1> SUFFICES ASSUME NEW j \in Range(JobsOf[b]) PROVE jobs'[j] = jobs[j]
  OBVIOUS
<1>1. j \in Jobs /\ BenchmarkOf(j) = b
  BY BenchmarkOfJob
<1>2. FirstNew(c) # 0 => j # JobsOf[c][FirstNew(c)]
  BY <1>1, FirstNewPlace, BenchmarkOfJob
<1> QED
  BY <1>1, <1>2 DEF CreateFromOperator

\* What OrphanInv says of one benchmark, whose name is its own and which has
\* not gone without DeleteTracker.
OrphanOf(b) ==
    /\ FollowInv /\ TypeInv /\ ListsOK
    /\ UniqueNames /\ NameOf[b] \notin unfinalized
    /\ HoldersOK(b) /\ OrphansOK(b)

\* Two benchmarks have two names.
LEMMA OtherName ==
    ASSUME UniqueNames, NEW b \in Benchmarks, NEW c \in Benchmarks, c # b
    PROVE  NameOf[c] # NameOf[b]
  BY DEF UniqueNames

\* The subscribers of a step that touches no tracker.
LEMMA SameSubscribers ==
    ASSUME UNCHANGED <<registered, subscribers>>, NEW b
    PROVE  IsExist(b)' <=> IsExist(b)
  BY DEF IsExist

LEMMA EnvironmentOrphans ==
    ASSUME NEW b \in Benchmarks, OrphanOf(b), Environment
    PROVE  HoldersOK(b)' /\ OrphansOK(b)'
<1>0. /\ TypeOK /\ HoldersOK(b) /\ OrphansOK(b)
      /\ res \in [Benchmarks -> {"absent", "new", "live", "deleting"}]
      /\ lives \in [Benchmarks -> Nat]
  BY DEF OrphanOf, TypeInv, TypeOK
<1>1. /\ UNCHANGED <<finalizer, registered, subscribers, worker>>
      /\ IsExist(b)' <=> IsExist(b)
  <2>1. UNCHANGED <<finalizer, registered, subscribers, worker>>
    BY DEF Environment, UserCreates, UserDeletes, JobCompletes, trackers, maps
  <2> QED
    BY <2>1, SameSubscribers
<1>2. Holding(b)' = Holding(b)
  BY <1>1 DEF Holding
<1>3. ASSUME NEW c \in Benchmarks, UserCreates(c)
      PROVE  HoldersOK(b)' /\ OrphansOK(b)'
  <2>1. Present(b)' = Present(b)
    BY <1>3 DEF UserCreates, Present
  <2>2. CASE c = b
    <3>1. /\ res[b] = "absent" /\ res'[b] = "new"
          /\ lives[b] \in Nat /\ lives'[b] = lives[b] + 1
      BY <1>0, <1>3, <2>2 DEF UserCreates
    <3>2. PICK h \in Nat, p \in Nat :
            /\ h = Cardinality(Holding(b)) /\ p = Cardinality(Present(b))
      BY HoldersFinite, FS_CardinalityType
    <3>3. p + h <= lives[b]
      BY <1>0, <3>1, <3>2 DEF OrphansOK, Cleared
    <3>4. Cardinality(Holding(b) \ {registered}) \in Nat
          /\ Cardinality(Holding(b) \ {registered}) <= h
      BY <3>2, HoldersFinite, WithoutSize
    <3>5. HoldersOK(b)'
      BY <1>1, <1>2, <3>1, <3>2, <3>3, <3>4 DEF HoldersOK
    <3>6. OrphansOK(b)'
      <4>1. p + h <= lives'[b] /\ p + h < lives'[b]
        BY <3>1, <3>2, <3>3
      <4> QED
        BY <1>2, <2>1, <3>2, <4>1 DEF OrphansOK
    <3> QED
      BY <3>5, <3>6
  <2>3. CASE c # b
    <3>1. res'[b] = res[b] /\ lives'[b] = lives[b]
      BY <1>0, <1>3, <2>3 DEF UserCreates
    <3>2. Cleared(b)' <=> Cleared(b)
      BY <1>1, <3>1 DEF Cleared
    <3>3. HoldersOK(b)'
      BY <1>0, <1>1, <1>2, <3>1 DEF HoldersOK
    <3> QED
      BY <1>0, <1>2, <2>1, <3>1, <3>2, <3>3 DEF OrphansOK
  <2> QED
    BY <2>2, <2>3
<1>4. ASSUME NEW c \in Benchmarks, UserDeletes(c)
      PROVE  HoldersOK(b)' /\ OrphansOK(b)'
  <2>1. Present(b)' = Present(b) /\ lives' = lives
    BY <1>4 DEF UserDeletes, Present
  <2>2. /\ res'[b] = "new" => res[b] = "new"
        /\ res'[b] = "live" => res[b] = "live"
        /\ res'[b] = "absent" => res[b] \in {"absent", "new"}
    BY <1>0, <1>4 DEF UserDeletes
  <2>3. Cleared(b)' => Cleared(b) \/ res[b] = "new"
    BY <1>1, <2>2 DEF Cleared
  <2> QED
    BY <1>0, <1>1, <1>2, <2>1, <2>2, <2>3, CalmStep
<1>5. ASSUME NEW j \in Jobs, JobCompletes(j)
      PROVE  HoldersOK(b)' /\ OrphansOK(b)'
  <2>1. lives' = lives /\ res' = res
    BY <1>5 DEF JobCompletes
  <2>2. Present(b)' \subseteq Present(b)
    <3>1. Range(JobsOf[b]) \subseteq Jobs
      BY JobsOfType
    <3> QED
      BY <1>0, <1>5, <3>1 DEF JobCompletes, Present, TypeOK
  <2>3. Cleared(b)' => Cleared(b)
    BY <1>1, <2>1 DEF Cleared
  <2> QED
    BY <1>0, <1>1, <1>2, <2>1, <2>2, <2>3, CalmStep
<1> QED
  BY <1>3, <1>4, <1>5 DEF Environment

\* The scan subscribes a benchmark to a tracker none of whose workers counts
\* for its life yet.
LEMMA CreateOrphans ==
    ASSUME NEW b \in Benchmarks, OrphanOf(b),
           NEW c \in Benchmarks, CreateFromOperator(c)
    PROVE  HoldersOK(b)' /\ OrphansOK(b)'
<1>0. /\ TypeOK /\ HoldersOK(b) /\ OrphansOK(b) /\ lives[b] \in Nat
      /\ SubscribersOK /\ UniqueNames
  BY DEF OrphanOf, TypeInv, TypeOK, FollowInv
<1>1. /\ UNCHANGED <<res, lives, finalizer, worker>>
      /\ finalizer.pc = "idle" /\ res[c] = "live" /\ ~IsExist(c)
  BY DEF CreateFromOperator
<1>2. PICK t : /\ t = IF registered = NoTracker THEN started + 1 ELSE registered
               /\ t <= MaxTrackers /\ registered' = t
               /\ subscribers' = [subscribers EXCEPT ![t] = @ \cup {NameOf[c]}]
  BY DEF CreateFromOperator, Subscribe
<1>3. t \in Trackers /\ subscribers \in [Trackers -> SUBSET Names]
  <2>1. /\ MaxTrackers \in Nat /\ started \in 0..MaxTrackers
        /\ registered \in 0..started
    BY <1>0, LivesAssumption DEF TypeOK
  <2> QED
    BY <1>0, <1>2, <2>1 DEF NoTracker, Trackers, TypeOK
<1>4. Holding(b)' = Holding(b)
  BY <1>1 DEF Holding
<1>5. Cleared(b)' <=> Cleared(b)
  BY <1>1 DEF Cleared
<1>6. CASE c = b
  <2>1. ~IsExist(b) /\ res[b] = "live" /\ ~Cleared(b)
    BY <1>1, <1>6 DEF Cleared
  <2>2. Cardinality(Holding(b)) < lives[b]
    BY <1>0, <2>1 DEF HoldersOK
  <2>3. IsExist(b)'
    <3>1. NameOf[b] \in subscribers'[t] /\ t # NoTracker
      BY <1>2, <1>3, <1>6 DEF NoTracker, Trackers
    <3> QED
      BY <1>2, <3>1 DEF IsExist
  <2>4. Cardinality(Holding(b)' \ {registered'}) < lives[b]
    <3>1. PICK x : x = registered'
      OBVIOUS
    <3>2. /\ Cardinality(Holding(b) \ {x}) \in Nat /\ Cardinality(Holding(b)) \in Nat
          /\ Cardinality(Holding(b) \ {x}) <= Cardinality(Holding(b))
      BY HoldersFinite, WithoutSize
    <3> QED
      BY <1>0, <1>4, <2>2, <3>1, <3>2
  <2>5. HoldersOK(b)'
    BY <1>1, <2>3, <2>4 DEF HoldersOK
  <2>6. OrphansOK(b)'
    BY <1>1, <1>5, <2>1 DEF OrphansOK
  <2> QED
    BY <2>5, <2>6
<1>7. CASE c # b
  <2>1. NameOf[c] # NameOf[b] /\ NameOf[b] \in Names
    BY <1>0, <1>7, OtherName, NameTypes
  <2>2. \A u \in Trackers : NameOf[b] \in subscribers'[u] <=> NameOf[b] \in subscribers[u]
    BY <1>2, <1>3, <2>1
  <2>3. CASE registered = NoTracker
    <3>1. NameOf[b] \notin subscribers[t]
      BY <1>0, <1>3, <2>1, <2>3 DEF SubscribersOK, NoTracker, Trackers
    <3>2. ~IsExist(b) /\ ~IsExist(b)'
      BY <1>2, <1>3, <2>2, <2>3, <3>1 DEF IsExist
    <3>3. Present(b)' = Present(b)
      BY <1>0, <1>7, NotOfOther DEF Present
    <3> QED
      BY <1>0, <1>1, <1>4, <1>5, <3>2, <3>3, CalmStep
  <2>4. CASE registered # NoTracker
    <3>1. registered' = registered /\ registered \in Trackers
      BY <1>2, <1>3, <2>4
    <3>2. IsExist(b)' <=> IsExist(b)
      BY <2>2, <3>1 DEF IsExist
    <3>3. Present(b)' = Present(b)
      BY <1>0, <1>7, NotOfOther DEF Present
    <3> QED
      BY <1>0, <1>1, <1>4, <1>5, <3>1, <3>2, <3>3, CalmStep
  <2> QED
    BY <2>3, <2>4
<1> QED
  BY <1>6, <1>7

\* Steps of the reconciler that leave the trackers alone.  The jobs go while
\* no tracker has the benchmark among its subscribers.
LEMMA ReconcilerOrphans ==
    ASSUME NEW b \in Benchmarks, OrphanOf(b), NameOf[b] \notin unfinalized',
           \/ \E c \in Benchmarks : AddFinalizer(c) \/ FinalizeWithoutOperator(c)
           \/ DeleteFromOperator
           \/ RemoveFinalizer
    PROVE  HoldersOK(b)' /\ OrphansOK(b)'
<1>0. /\ TypeOK /\ HoldersOK(b) /\ OrphansOK(b) /\ lives[b] \in Nat
      /\ FinalizerOK /\ SubscribersOK /\ NameOf[b] \notin unfinalized
      /\ res \in [Benchmarks -> {"absent", "new", "live", "deleting"}]
      /\ finalizer \in [pc : {"idle", "jobs", "remove"},
                        b : Benchmarks \cup {None}]
  BY DEF OrphanOf, TypeInv, TypeOK, FollowInv
<1>1. /\ UNCHANGED <<lives, registered, subscribers, worker>>
      /\ IsExist(b)' <=> IsExist(b)
  <2>1. UNCHANGED <<lives, registered, subscribers, worker>>
    BY DEF AddFinalizer, FinalizeWithoutOperator, DeleteFromOperator,
           RemoveFinalizer, cluster, trackers, maps
  <2> QED
    BY <2>1, SameSubscribers
<1>2. Holding(b)' = Holding(b)
  BY <1>1 DEF Holding
<1>3. ASSUME NEW c \in Benchmarks, AddFinalizer(c)
      PROVE  HoldersOK(b)' /\ OrphansOK(b)'
  <2>1. /\ UNCHANGED <<jobs, finalizer>>
        /\ res'[b] = res[b] \/ (res[b] = "new" /\ res'[b] = "live")
    BY <1>0, <1>3 DEF AddFinalizer
  <2>2. Present(b)' = Present(b) /\ (Cleared(b)' => Cleared(b))
    BY <2>1 DEF Present, Cleared
  <2> QED
    BY <1>0, <1>1, <1>2, <2>1, <2>2, CalmStep
<1>4. ASSUME NEW c \in Benchmarks, FinalizeWithoutOperator(c)
      PROVE  HoldersOK(b)' /\ OrphansOK(b)'
  <2>1. /\ UNCHANGED <<res, jobs>> /\ finalizer' = [pc |-> "remove", b |-> c]
        /\ c # b
    BY <1>4 DEF FinalizeWithoutOperator, cluster
  <2>2. Present(b)' = Present(b) /\ (Cleared(b)' => Cleared(b))
    BY <2>1 DEF Present, Cleared
  <2> QED
    BY <1>0, <1>1, <1>2, <2>1, <2>2, CalmStep
<1>5. CASE RemoveFinalizer
  <2>1. /\ finalizer.pc = "remove" /\ finalizer' = [pc |-> "idle", b |-> None]
        /\ jobs' = jobs /\ res' = [res EXCEPT ![finalizer.b] = "absent"]
    BY <1>5 DEF RemoveFinalizer, IdleFinalizer
  <2>2. finalizer.b \in Benchmarks
    BY <1>0, <2>1 DEF FinalizerOK
  <2>3. \/ res'[b] = res[b]
        \/ res'[b] = "absent" /\ finalizer.b = b
    BY <1>0, <2>1, <2>2
  <2>4. Present(b)' = Present(b) /\ (Cleared(b)' => Cleared(b))
    BY <2>1, <2>3 DEF Present, Cleared
  <2> QED
    BY <1>0, <1>1, <1>2, <2>3, <2>4, CalmStep
<1>6. CASE DeleteFromOperator
  <2>1. /\ finalizer.pc = "jobs" /\ finalizer'.pc = "remove"
        /\ finalizer'.b = finalizer.b /\ res' = res
        /\ jobs' = [j \in Jobs |-> IF j \in Range(JobsOf[finalizer.b])
                                   THEN "absent" ELSE jobs[j]]
    BY <1>0, <1>6, FinalizerFacts DEF DeleteFromOperator
  <2>2. finalizer.b \in Benchmarks /\ res[finalizer.b] = "deleting"
    BY <1>0, <2>1 DEF FinalizerOK
  <2>3. CASE finalizer.b # b
    <3>1. \A j \in Range(JobsOf[b]) : j \in Jobs /\ j \notin Range(JobsOf[finalizer.b])
      BY <2>2, <2>3, BenchmarkOfJob
    <3>2. Present(b)' = Present(b) /\ (Cleared(b)' => Cleared(b))
      BY <2>1, <2>3, <3>1 DEF Present, Cleared
    <3> QED
      BY <1>0, <1>1, <1>2, <2>1, <3>2, CalmStep
  <2>4. CASE finalizer.b = b
    <3>1. \A j \in Range(JobsOf[b]) : jobs'[j] = "absent"
      BY <2>1, <2>4, BenchmarkOfJob
    <3>2. Present(b)' = {}
      BY <3>1 DEF Present
    <3>3. ~IsExist(b)
      <4>1. registered = NoTracker \/ registered \in Trackers
        BY RegisteredType DEF OrphanOf
      <4>2. \A t \in Trackers : NameOf[b] \notin subscribers[t]
        BY <1>0, <2>1, <2>4 DEF FinalizerOK
      <4> QED
        BY <4>1, <4>2 DEF IsExist
    <3>4. HoldersOK(b)'
      BY <1>0, <1>1, <1>2, <2>1 DEF HoldersOK, IsExist
    <3>5. PICK h \in Nat : h = Cardinality(Holding(b))
      BY HoldersFinite, FS_CardinalityType
    <3>6. Cardinality(Present(b)') + Cardinality(Holding(b)') <= lives'[b]
      BY <1>0, <1>1, <1>2, <3>2, <3>3, <3>5, FS_EmptySet DEF HoldersOK
    <3>7. OrphansOK(b)'
      BY <2>1, <2>2, <2>4, <3>6 DEF OrphansOK
    <3> QED
      BY <3>4, <3>7
  <2> QED
    BY <2>3, <2>4
<1> QED
  BY <1>3, <1>4, <1>5, <1>6

\* Of the other benchmarks the finalizer leaves the subscription.
LEMMA OtherFinalized ==
    ASSUME TypeInv, UniqueNames, NEW b \in Benchmarks, NEW c \in Benchmarks,
           c # b, FinalizeBenchmark(c)
    PROVE  /\ IsExist(b)' <=> IsExist(b)
           /\ IsExist(b) => registered' = registered
<1>0. /\ subscribers \in [Trackers -> SUBSET Names]
      /\ registered = NoTracker \/ registered \in Trackers
  BY RegisteredType DEF TypeInv, TypeOK
<1>1. NameOf[c] # NameOf[b]
  BY OtherName
<1>2. \/ /\ registered = NoTracker /\ registered' = registered
         /\ subscribers' = subscribers
      \/ /\ registered # NoTracker /\ registered' = NoTracker
         /\ subscribers[registered] \subseteq {NameOf[c]}
      \/ /\ registered # NoTracker /\ registered' = registered
         /\ subscribers' =
              [subscribers EXCEPT ![registered] = @ \ {NameOf[c]}]
  BY DEF FinalizeBenchmark, DeleteTracker, Unsubscribe, trackers, maps
<1>3. CASE registered' = registered /\ registered = NoTracker
  BY <1>3 DEF IsExist
<1>4. CASE registered # NoTracker /\ registered' = NoTracker
  <2>1. NameOf[b] \notin subscribers[registered]
    BY <1>2, <1>1, <1>4
  <2> QED
    BY <1>4, <2>1 DEF IsExist
<1>5. CASE /\ registered # NoTracker /\ registered' = registered
           /\ subscribers' =
                [subscribers EXCEPT ![registered] = @ \ {NameOf[c]}]
  <2>1. NameOf[b] \in subscribers'[registered]
          <=> NameOf[b] \in subscribers[registered]
    BY <1>0, <1>1, <1>5
  <2> QED
    BY <1>5, <2>1 DEF IsExist
<1> QED
  BY <1>2, <1>3, <1>4, <1>5

\* When b unsubscribes, the worker of the registered tracker may be left
\* with a job of it.
LEMMA FinalizeOrphans ==
    ASSUME NEW b \in Benchmarks, OrphanOf(b),
           NEW c \in Benchmarks, FinalizeBenchmark(c)
    PROVE  HoldersOK(b)' /\ OrphansOK(b)'
<1>0. /\ TypeOK /\ HoldersOK(b) /\ OrphansOK(b) /\ lives[b] \in Nat
      /\ UniqueNames /\ subscribers \in [Trackers -> SUBSET Names]
      /\ registered = NoTracker \/ registered \in Trackers
  BY RegisteredType DEF OrphanOf, TypeInv, TypeOK
<1>1. /\ UNCHANGED <<res, lives, jobs, worker>> /\ res[c] = "deleting"
      /\ finalizer' = [pc |-> "jobs", b |-> c]
  BY DEF FinalizeBenchmark, cluster
<1>2. Holding(b)' = Holding(b) /\ Present(b)' = Present(b)
  BY <1>1 DEF Holding, Present
<1>3. Cleared(b)' <=> res[b] = "absent"
  BY <1>1 DEF Cleared
<1>4. \/ /\ registered = NoTracker /\ registered' = registered
         /\ subscribers' = subscribers
      \/ /\ registered # NoTracker /\ registered' = NoTracker
         /\ subscribers[registered] \subseteq {NameOf[c]}
      \/ /\ registered # NoTracker /\ registered' = registered
         /\ subscribers' =
              [subscribers EXCEPT ![registered] = @ \ {NameOf[c]}]
  BY DEF FinalizeBenchmark, DeleteTracker, Unsubscribe, trackers, maps
<1>5. CASE c = b
  <2>1. ~IsExist(b)'
    BY <1>0, <1>4, <1>5 DEF IsExist
  <2>2. Cardinality(Holding(b)) <= lives[b]
    <3>1. PICK h \in Nat, i \in Nat, l \in Nat :
            /\ h = Cardinality(Holding(b)) /\ l = lives[b]
            /\ i = Cardinality(Holding(b) \ {registered}) /\ h <= i + 1
      BY <1>0, HoldersFinite, WithoutSize
    <3>2. i < l \/ h <= l
      BY <1>0, <3>1 DEF HoldersOK
    <3> QED
      BY <3>1, <3>2
  <2>3. HoldersOK(b)'
    BY <1>1, <1>2, <1>5, <2>1, <2>2 DEF HoldersOK
  <2>4. OrphansOK(b)'
    BY <1>1, <1>3, <1>5 DEF OrphansOK
  <2> QED
    BY <2>3, <2>4
<1>6. CASE c # b
  <2>1. /\ IsExist(b)' <=> IsExist(b)
        /\ IsExist(b) => registered' = registered
    BY <1>0, <1>6, OtherFinalized DEF OrphanOf
  <2> QED
    BY <1>0, <1>1, <1>2, <1>3, <2>1, CalmStep DEF Cleared
<1> QED
  BY <1>5, <1>6

\* One worker steps.
LEMMA OneWorker ==
    ASSUME NEW b \in Benchmarks, NEW t \in Trackers,
           \A u \in Trackers \ {t} : worker'[u] = worker[u]
    PROVE  /\ ~Holds(worker'[t], b) => Holding(b)' = Holding(b) \ {t}
           /\ Holding(b)' \subseteq Holding(b) \cup {t}
<1>1. \A u \in Trackers \ {t} : u \in Holding(b)' <=> u \in Holding(b)
  BY DEF Holding
<1>2. /\ t \in Holding(b)' <=> Holds(worker'[t], b)
      /\ Holding(b) \subseteq Trackers /\ Holding(b)' \subseteq Trackers
  BY DEF Holding
<1> QED
  BY <1>1, <1>2

\* The worker creates the job that it holds, or one of another benchmark.
LEMMA WorkerCreateOrphans ==
    ASSUME NEW b \in Benchmarks, OrphanOf(b),
           NEW t \in Trackers, WorkerCreate(t)
    PROVE  HoldersOK(b)' /\ OrphansOK(b)'
<1>0. /\ TypeInv /\ TypeOK /\ InHand /\ HoldersOK(b) /\ OrphansOK(b)
      /\ lives[b] \in Nat /\ ListsOK /\ UniqueNames
      /\ jobs \in [Jobs -> {"absent", "active", "complete"}]
  BY DEF OrphanOf, TypeInv, TypeOK
<1>1. /\ UNCHANGED <<res, lives, finalizer, registered, subscribers>>
      /\ worker[t].pc = "create" /\ worker[t].next \in Jobs
      /\ \/ jobs' = jobs
         \/ /\ worker[t].dr = "ok"
            /\ jobs' = [jobs EXCEPT ![worker[t].next] = "active"]
  BY <1>0 DEF WorkerCreate, trackers, maps, InHand
<1>2. /\ IsExist(b)' <=> IsExist(b)
      /\ Cleared(b)' <=> Cleared(b)
  BY <1>1, SameSubscribers DEF Cleared
<1>3. Holding(b)' = Holding(b) \ {t}
  <2>1. /\ \A u \in Trackers \ {t} : worker'[u] = worker[u]
        /\ worker'[t].pc \notin Hands
    BY <1>0, HandSteps
  <2> QED
    BY <2>1, OneWorker DEF Holds
<1>4. /\ \A j \in Jobs : j # worker[t].next => jobs'[j] = jobs[j]
      /\ Range(JobsOf[b]) \subseteq Jobs
  BY <1>0, <1>1, JobsOfType
<1>5. CASE jobs' = jobs \/ BenchmarkOf(worker[t].next) # b
  <2>1. Present(b)' = Present(b)
    <3>1. CASE jobs' = jobs
      BY <3>1 DEF Present
    <3>2. CASE BenchmarkOf(worker[t].next) # b
      <4>1. worker[t].next \notin Range(JobsOf[b])
        BY <3>2, BenchmarkOfJob
      <4> QED
        BY <1>4, <4>1 DEF Present
    <3> QED
      BY <1>5, <3>1, <3>2
  <2> QED
    BY <1>0, <1>1, <1>2, <1>3, <2>1, CalmStep
<1>6. CASE worker[t].dr = "ok" /\ BenchmarkOf(worker[t].next) = b
  <2>1. t \in Holding(b)
    <3>1. BenchmarkOf(worker[t].job) = b
      BY <1>0, <1>1, <1>6, SameBenchmark
    <3> QED
      BY <1>1, <1>6, <3>1 DEF Holding, Holds, Hands
  <2>2. Present(b)' \subseteq Present(b) \cup {worker[t].next}
    BY <1>4 DEF Present
  <2>3. PICK h \in Nat, i \in Nat, p \in Nat, q \in Nat :
          /\ h = Cardinality(Holding(b)) /\ i = Cardinality(Holding(b)')
          /\ p = Cardinality(Present(b)) /\ q = Cardinality(Present(b)')
    BY HoldersFinite, FS_CardinalityType
  <2>4. i + 1 = h
    BY <1>3, <2>1, <2>3, HoldersFinite, WithoutSize
  <2>5. q <= p + 1
    <3>1. PICK x : x = worker[t].next
      OBVIOUS
    <3>2. /\ IsFiniteSet(Present(b) \cup {x})
          /\ Cardinality(Present(b) \cup {x}) \in Nat
          /\ Cardinality(Present(b) \cup {x}) <= p + 1
      BY <2>3, HoldersFinite, WithSize
    <3>3. q <= Cardinality(Present(b) \cup {x})
      BY <2>2, <2>3, <3>1, <3>2, PartSize
    <3> QED
      BY <2>3, <3>2, <3>3
  <2>6. /\ Cardinality(Present(b)') + Cardinality(Holding(b)')
             <= Cardinality(Present(b)) + Cardinality(Holding(b))
        /\ Holding(b)' \subseteq Holding(b)
    BY <1>3, <2>3, <2>4, <2>5
  <2> QED
    BY <1>0, <1>1, <1>2, <2>6, CalmStep
<1> QED
  BY <1>1, <1>5, <1>6

\* A worker finds an interface for b only while b subscribes, and only in the
\* registered tracker.
LEMMA TakenForSubscriber ==
    ASSUME NEW b \in Benchmarks, OrphanOf(b), NEW t \in Trackers,
           worker[t].pc = "blocked", NameOf[b] \in drMap[t]
    PROVE  t = registered /\ IsExist(b) /\ ~Cleared(b) /\ res[b] # "new"
<1>0. /\ UniqueNames /\ NameOf[b] \in Names /\ NameOf[b] \notin unfinalized
      /\ SubscribersOK /\ DrOK /\ FinalizerOK
  BY NameTypes DEF OrphanOf, FollowInv
<1>1. NameOf[b] \in subscribers[t]
  BY <1>0 DEF DrOK
<1>2. t = registered /\ Wanted(NameOf[b])
  BY <1>0, <1>1 DEF SubscribersOK
<1>3. res[b] \in {"live", "deleting"}
  BY <1>0, <1>2 DEF Wanted, UniqueNames
<1>4. IsExist(b)
  BY <1>1, <1>2 DEF IsExist, Trackers, NoTracker
<1>5. ~(finalizer.pc = "remove" /\ finalizer.b = b)
  BY <1>0, <1>1 DEF FinalizerOK
<1> QED
  BY <1>2, <1>3, <1>4, <1>5 DEF Cleared

\* The worker takes a completion, and may find an interface.
LEMMA WorkerTakeOrphans ==
    ASSUME NEW b \in Benchmarks, OrphanOf(b),
           NEW t \in Trackers, WorkerTake(t)
    PROVE  HoldersOK(b)' /\ OrphansOK(b)'
<1>0. /\ HoldersOK(b) /\ OrphansOK(b) /\ lives[b] \in Nat
      /\ worker \in [Trackers -> WorkerStates]
  BY DEF OrphanOf, TypeInv, TypeOK
<1>1. /\ UNCHANGED <<res, lives, jobs, finalizer, registered, subscribers>>
      /\ worker[t].pc = "blocked"
  BY DEF WorkerTake, trackers, maps
<1>2. /\ IsExist(b)' <=> IsExist(b)
      /\ Cleared(b)' <=> Cleared(b)
      /\ Present(b)' = Present(b)
  BY <1>1, SameSubscribers DEF Cleared, Present
<1>3. /\ \A u \in Trackers \ {t} : worker'[u] = worker[u]
      /\ Holds(worker'[t], b) => NameOf[b] \in drMap[t]
  <2>1. PICK j, d, e :
          /\ \/ worker' = [worker EXCEPT ![t] = IdleWorker]
             \/ worker' = [worker EXCEPT ![t] =
                             [pc |-> "sleep", job |-> j, next |-> None, tail |-> <<>>,
                              done |-> e, dr |-> d]]
          /\ d = IF NameOf[BenchmarkOf(j)] \in drMap[t] THEN "ok" ELSE "nil"
    BY DEF WorkerTake
  <2>2. CASE worker' = [worker EXCEPT ![t] = IdleWorker]
    BY <1>0, <2>2, IdleWorkerType DEF Holds, Hands
  <2>3. CASE worker' = [worker EXCEPT ![t] =
                          [pc |-> "sleep", job |-> j, next |-> None, tail |-> <<>>,
                           done |-> e, dr |-> d]]
    BY <1>0, <2>1, <2>3 DEF Holds
  <2> QED
    BY <2>1, <2>2, <2>3
<1>4. CASE ~Holds(worker'[t], b)
  <2>1. Holding(b)' \subseteq Holding(b)
    BY <1>3, <1>4, OneWorker
  <2> QED
    BY <1>0, <1>1, <1>2, <2>1, CalmStep
<1>5. CASE Holds(worker'[t], b)
  <2>1. t = registered /\ IsExist(b) /\ ~Cleared(b) /\ res[b] # "new"
    BY <1>1, <1>3, <1>5, TakenForSubscriber
  <2>2. Cardinality(Holding(b)' \ {registered}) < lives[b]
    <3>1. Holding(b)' \ {registered} \subseteq Holding(b) \ {registered}
      BY <1>3, <2>1, OneWorker
    <3>2. IsFiniteSet(Holding(b) \ {registered})
      BY HoldersFinite, FS_RemoveElement
    <3>3. PICK m \in Nat, k \in Nat :
            /\ m = Cardinality(Holding(b)' \ {registered})
            /\ k = Cardinality(Holding(b) \ {registered}) /\ m <= k
      BY <3>1, <3>2, PartSize
    <3>4. k < lives[b]
      BY <1>0, <2>1, <3>3 DEF HoldersOK
    <3> QED
      BY <1>0, <3>3, <3>4
  <2>3. HoldersOK(b)'
    BY <1>1, <1>2, <2>1, <2>2 DEF HoldersOK
  <2>4. OrphansOK(b)'
    BY <1>1, <1>2, <2>1 DEF OrphansOK
  <2> QED
    BY <2>3, <2>4
<1> QED
  BY <1>4, <1>5

\* The other steps of the goroutines give no worker anything to create.
LEMMA GoroutineOrphans ==
    ASSUME NEW b \in Benchmarks, OrphanOf(b), NEW t \in Trackers,
           \/ Informer(t) \/ RunLooksAtQuit(t) \/ WorkerLooks(t) \/ WorkerReads(t)
           \/ WorkerStores(t) \/ WorkerTidies(t) \/ WorkerForgets(t)
    PROVE  HoldersOK(b)' /\ OrphansOK(b)'
<1>0. /\ HoldersOK(b) /\ OrphansOK(b) /\ lives[b] \in Nat /\ TypeOK /\ InHand
  BY DEF OrphanOf, TypeInv, TypeOK
<1>1. UNCHANGED <<res, lives, jobs, finalizer, registered, subscribers>>
  BY DEF Informer, UpdateFunc, InformerStops, RunLooksAtQuit, WorkerLooks,
         WorkerReads, WorkerStores, WorkerTidies, WorkerForgets, cluster,
         trackers, maps
<1>2. /\ IsExist(b)' <=> IsExist(b)
      /\ Cleared(b)' <=> Cleared(b)
      /\ Present(b)' = Present(b)
  BY <1>1, SameSubscribers DEF Cleared, Present
<1>3. Holding(b)' \subseteq Holding(b)
  <2>1. CASE Informer(t)
    BY <2>1 DEF Informer, UpdateFunc, InformerStops, Holding
  <2>2. CASE ~Informer(t)
    <3>1. /\ \A u \in Trackers \ {t} : worker'[u] = worker[u]
          /\ worker'[t].pc \in Hands =>
               /\ worker[t].pc \in Hands
               /\ worker'[t].job = worker[t].job /\ worker'[t].dr = worker[t].dr
      BY <1>0, <2>2, HandSteps
    <3> QED
      BY <3>1 DEF Holding, Holds
  <2> QED
    BY <2>1, <2>2
<1> QED
  BY <1>0, <1>1, <1>2, <1>3, CalmStep

LEMMA OrphanInit == Init => OrphanInv
<1> SUFFICES ASSUME Init PROVE OrphanInv
  OBVIOUS
<1>1. FollowInv /\ TypeInv
  BY InitFollow, TypeInit
<1>2. ListsOK
  <2>1. HandsNamed
    BY IdleWorkerType DEF Init, HandsNamed
  <2>2. \A t \in Trackers, n \in Names : waiting[t][n] = <<>>
    BY DEF Init
  <2>3. WaitingNamed
    BY <2>2 DEF WaitingNamed
  <2> QED
    BY <2>1, <2>3 DEF ListsOK
<1>3. ASSUME NEW b \in Benchmarks PROVE HoldersOK(b) /\ OrphansOK(b)
  <2>1. /\ res[b] = "absent" /\ lives[b] = 0 /\ registered = NoTracker
        /\ \A t \in Trackers : worker[t].pc = "between"
        /\ \A j \in Jobs : jobs[j] = "absent"
    BY <1>3 DEF Init, IdleWorker
  <2>2. Range(JobsOf[b]) \subseteq Jobs
    BY JobsOfType
  <2>3. Holding(b) = {} /\ Present(b) = {} /\ ~IsExist(b)
    BY <2>1, <2>2 DEF Holding, Holds, Hands, Present, IsExist
  <2> QED
    BY <2>1, <2>3, FS_EmptySet DEF HoldersOK, OrphansOK
<1> QED
  BY <1>1, <1>2, <1>3 DEF OrphanInv

LEMMA OrphanNext == OrphanInv /\ [Next]_vars => OrphanInv'
<1> SUFFICES ASSUME OrphanInv, [Next]_vars PROVE OrphanInv'
  OBVIOUS
<1>1. FollowInv' /\ TypeInv' /\ ListsOK'
  BY FollowInductive, TypeNext, ListsNext DEF OrphanInv
<1>2. ASSUME UniqueNames, NEW b \in Benchmarks, NameOf[b] \notin unfinalized'
      PROVE  HoldersOK(b)' /\ OrphansOK(b)'
  <2>1. NameOf[b] \notin unfinalized
    <3>1. Environment => unfinalized' = unfinalized
      BY DEF Environment, UserCreates, UserDeletes, JobCompletes
    <3>2. Reconciler => unfinalized \subseteq unfinalized'
      BY DEF Reconciler, AddFinalizer, CreateFromOperator, FinalizeBenchmark,
             FinalizeWithoutOperator, DeleteFromOperator, RemoveFinalizer
    <3>3. ASSUME NEW t \in Trackers, Informer(t) \/ Worker(t)
          PROVE  unfinalized' = unfinalized
      BY <3>3 DEF Informer, UpdateFunc, InformerStops, Worker, RunLooksAtQuit,
                  WorkerTake, WorkerLooks, WorkerReads, WorkerStores, WorkerCreate,
                  WorkerTidies, WorkerForgets
    <3>4. UNCHANGED vars => unfinalized' = unfinalized
      BY DEF vars
    <3> QED
      BY <1>2, <3>1, <3>2, <3>3, <3>4 DEF Next
  <2>2. OrphanOf(b)
    BY <1>2, <2>1 DEF OrphanInv, OrphanOf
  <2>3. CASE Environment
    BY <2>2, <2>3, EnvironmentOrphans
  <2>4. CASE Reconciler
    <3>1. ASSUME NEW c \in Benchmarks, CreateFromOperator(c)
          PROVE  HoldersOK(b)' /\ OrphansOK(b)'
      BY <2>2, <3>1, CreateOrphans
    <3>2. ASSUME NEW c \in Benchmarks, FinalizeBenchmark(c)
          PROVE  HoldersOK(b)' /\ OrphansOK(b)'
      BY <2>2, <3>2, FinalizeOrphans
    <3>3. CASE \/ \E c \in Benchmarks :
                    AddFinalizer(c) \/ FinalizeWithoutOperator(c)
               \/ DeleteFromOperator
               \/ RemoveFinalizer
      BY <1>2, <2>2, <3>3, ReconcilerOrphans
    <3> QED
      BY <2>4, <3>1, <3>2, <3>3 DEF Reconciler
  <2>5. ASSUME NEW t \in Trackers, Informer(t) \/ Worker(t)
        PROVE  HoldersOK(b)' /\ OrphansOK(b)'
    BY <2>2, <2>5, WorkerCreateOrphans, WorkerTakeOrphans, GoroutineOrphans
       DEF Worker
  <2>6. CASE UNCHANGED vars
    <3>1. Holding(b)' = Holding(b) /\ Present(b)' = Present(b)
      BY <2>6 DEF Holding, Present, vars, cluster
    <3> QED
      BY <2>2, <2>6, <3>1
         DEF OrphanOf, HoldersOK, OrphansOK, Cleared, IsExist, vars, cluster,
             trackers, maps
  <2> QED
    BY <2>3, <2>4, <2>5, <2>6 DEF Next
<1> QED
  BY <1>1, <1>2 DEF OrphanInv, UniqueNames

(***************************************************************************)
(* However often benchmarks come and go, a benchmark that was finalized    *)
(* leaves at most one job behind for each of its lives: those its workers  *)
(* were to create when DeleteTracker unsubscribed it (job_tracker.go:      *)
(* 105-123 and 206-213).                                                   *)
(***************************************************************************)
THEOREM OrphansAreFew == Spec => []OrphansBounded
<1>1. OrphanInv => OrphansBounded
  <2> SUFFICES ASSUME OrphanInv, UniqueNames, NEW b \in Benchmarks,
                      res[b] = "absent", NameOf[b] \notin unfinalized
               PROVE  Cardinality(Present(b)) <= lives[b]
    BY DEF OrphansBounded, Present
  <2>1. PICK h \in Nat, p \in Nat, l \in Nat :
          /\ h = Cardinality(Holding(b)) /\ p = Cardinality(Present(b))
          /\ l = lives[b]
    BY HoldersFinite, FS_CardinalityType DEF OrphanInv, TypeInv, TypeOK
  <2>2. p + h <= l
    BY <2>1 DEF OrphanInv, OrphansOK, Cleared
  <2> QED
    BY <2>1, <2>2
<1> QED
  BY <1>1, OrphanInit, OrphanNext, PTL DEF Spec

-----------------------------------------------------------------------------
(***************************************************************************)
(* The turn of a benchmark in its first life: a running job, a completion  *)
(* on its way to a worker, or a worker that is about to hand it on.  The   *)
(* scan gives out the first one, to a benchmark that has none; every other *)
(* step of an actor takes a turn away from the one that has it.            *)
(***************************************************************************)
Places(b, list) == {i \in 1..Len(list) : BenchmarkOf(list[i]) = b}

Informed(b) == {t \in Trackers : Places(b, updates[t]) # {}}
Queued(b) == {t \in Trackers : Places(b, jobQueue[t]) # {}}
Handing(b) == {t \in Trackers : /\ worker[t].pc \in Hands
                                /\ BenchmarkOf(worker[t].job) = b}

NoTurn(b) ==
    Running(b) = {} /\ Informed(b) = {} /\ Queued(b) = {} /\ Handing(b) = {}

AtMostOne(S) == \A x \in S, y \in S : x = y

Single(b) == \A t \in Trackers : /\ AtMostOne(Places(b, updates[t]))
                                 /\ AtMostOne(Places(b, jobQueue[t]))

OneTurn(b) ==
    /\ AtMostOne(Running(b)) /\ AtMostOne(Informed(b))
    /\ AtMostOne(Queued(b)) /\ AtMostOne(Handing(b))
    /\ Single(b)
    /\ \/ Informed(b) = {} /\ Queued(b) = {} /\ Handing(b) = {}
       \/ Running(b) = {} /\ Queued(b) = {} /\ Handing(b) = {}
       \/ Running(b) = {} /\ Informed(b) = {} /\ Handing(b) = {}
       \/ Running(b) = {} /\ Informed(b) = {} /\ Queued(b) = {}

\* No scan has given out a turn of b yet.
NotBegun(b) ==
    \/ lives[b] = 0
    \/ lives[b] = 1 /\ res[b] \in {"new", "live"} /\ ~IsExist(b)

TurnOK(b) ==
    /\ lives[b] = 0 => res[b] = "absent"
    /\ NotBegun(b) => NoTurn(b)
    /\ lives[b] <= 1 => OneTurn(b)

TurnInv ==
    /\ TypeInv /\ ListsOK /\ FollowInv
    /\ UniqueNames => \A b \in Benchmarks : TurnOK(b)

\* What TurnInv says of one benchmark, whose name is its own.
TurnOf(b) == TypeInv /\ ListsOK /\ FollowInv /\ UniqueNames /\ TurnOK(b)

LEMMA TailPlaces ==
    ASSUME NEW b, NEW s \in Seq(Jobs), s # <<>>
    PROVE  /\ Places(b, Tail(s)) # {} => Places(b, s) # {}
           /\ AtMostOne(Places(b, s)) => AtMostOne(Places(b, Tail(s)))
           /\ BenchmarkOf(Head(s)) = b =>
                /\ Places(b, s) # {}
                /\ AtMostOne(Places(b, s)) => Places(b, Tail(s)) = {}
<1>1. /\ Len(s) \in Nat \ {0} /\ 1 \in 1..Len(s) /\ Head(s) = s[1]
      /\ Len(Tail(s)) \in Nat
      /\ \A i \in 1..Len(Tail(s)) : /\ i \in Nat /\ i + 1 \in 1..Len(s)
                                    /\ Tail(s)[i] = s[i + 1]
  BY QueueFacts
<1>2. \A i \in Places(b, Tail(s)) : i \in Nat \ {0} /\ i + 1 \in Places(b, s)
  BY <1>1 DEF Places
<1>3. BenchmarkOf(Head(s)) = b => 1 \in Places(b, s)
  BY <1>1 DEF Places
<1>4. ASSUME AtMostOne(Places(b, s)), NEW i \in Places(b, Tail(s)),
             NEW k \in Places(b, Tail(s))
      PROVE  i = k
  <2>1. i + 1 = k + 1
    BY <1>2, <1>4 DEF AtMostOne
  <2> QED
    BY <1>2, <2>1
<1>5. ASSUME AtMostOne(Places(b, s)), NEW i \in Places(b, Tail(s))
      PROVE  1 \notin Places(b, s)
  <2>1. i + 1 # 1
    BY <1>2
  <2> QED
    BY <1>2, <1>5, <2>1 DEF AtMostOne
<1> QED
  BY <1>2, <1>3, <1>4, <1>5 DEF AtMostOne

LEMMA AppendPlaces ==
    ASSUME NEW b, NEW s \in Seq(Jobs), NEW j \in Jobs
    PROVE  /\ Places(b, Append(s, j)) # {} =>
                Places(b, s) # {} \/ BenchmarkOf(j) = b
           /\ /\ AtMostOne(Places(b, s))
              /\ Places(b, s) = {} \/ BenchmarkOf(j) # b
              => AtMostOne(Places(b, Append(s, j)))
<1>1. PICK n \in Nat : n = Len(s)
  OBVIOUS
<1>2. /\ Len(Append(s, j)) = n + 1 /\ Append(s, j)[n + 1] = j
      /\ \A i \in 1..n : Append(s, j)[i] = s[i]
  BY <1>1
<1>3. \A i \in Places(b, Append(s, j)) :
         i \in Places(b, s) \/ (i = n + 1 /\ BenchmarkOf(j) = b)
  BY <1>1, <1>2 DEF Places
<1> QED
  BY <1>3 DEF AtMostOne

\* No turn of b goes from one list, job or worker to another.
LEMMA FewerTurns ==
    ASSUME NEW b,
           Running(b)' \subseteq Running(b), Informed(b)' \subseteq Informed(b),
           Queued(b)' \subseteq Queued(b), Handing(b)' \subseteq Handing(b),
           Single(b) => Single(b)'
    PROVE  /\ NoTurn(b) => NoTurn(b)'
           /\ OneTurn(b) => OneTurn(b)'
  BY DEF NoTurn, OneTurn, AtMostOne

\* The benchmark neither begins a life nor becomes ready for a scan.
LEMMA TurnKept ==
    ASSUME NEW b, TurnOK(b), lives'[b] = lives[b],
           res[b] = "absent" => res'[b] = "absent",
           NotBegun(b)' => NotBegun(b),
           NoTurn(b) => NoTurn(b)', OneTurn(b) => OneTurn(b)'
    PROVE  TurnOK(b)'
  BY DEF TurnOK

LEMMA SteadyTurn ==
    ASSUME NEW b, TurnOK(b), UNCHANGED <<res, lives, registered, subscribers>>,
           NoTurn(b) => NoTurn(b)', OneTurn(b) => OneTurn(b)'
    PROVE  TurnOK(b)'
<1>1. NotBegun(b)' <=> NotBegun(b)
  BY SameSubscribers DEF NotBegun
<1> QED
  BY <1>1, TurnKept

\* A step that moves no turn, and gives out none.
LEMMA LeaveTurns ==
    ASSUME NEW b, TurnOK(b), lives'[b] = lives[b],
           res[b] = "absent" => res'[b] = "absent",
           NotBegun(b)' => NotBegun(b),
           UNCHANGED <<updates, jobQueue, worker>>,
           Running(b)' \subseteq Running(b)
    PROVE  TurnOK(b)'
<1>1. /\ Informed(b)' = Informed(b) /\ Queued(b)' = Queued(b)
      /\ Handing(b)' = Handing(b) /\ (Single(b)' <=> Single(b))
  BY DEF Informed, Queued, Handing, Single
<1>2. /\ NoTurn(b) => NoTurn(b)'
      /\ OneTurn(b) => OneTurn(b)'
  BY <1>1, FewerTurns
<1> QED
  BY <1>2, TurnKept

\* The running job is done, and the informer has the turn.
LEMMA CompleteTurn ==
    ASSUME NEW b \in Benchmarks, TurnOf(b), NEW j \in Jobs, JobCompletes(j)
    PROVE  TurnOK(b)'
<1>0. /\ TurnOK(b) /\ updates \in [Trackers -> Seq(Jobs)]
      /\ jobs \in [Jobs -> {"absent", "active", "complete"}]
      /\ Range(JobsOf[b]) \subseteq Jobs
  BY JobsOfType DEF TurnOf, TypeInv, TypeOK
<1>1. /\ UNCHANGED <<res, lives, registered, subscribers, jobQueue, worker>>
      /\ jobs[j] = "active" /\ jobs' = [jobs EXCEPT ![j] = "complete"]
      /\ updates' = [t \in Trackers |-> IF t = registered
                                        THEN Append(updates[t], j) ELSE updates[t]]
  BY DEF JobCompletes, trackers, maps
<1>2. /\ Running(b)' = Running(b) \ {j}
      /\ Queued(b)' = Queued(b) /\ Handing(b)' = Handing(b)
  BY <1>0, <1>1 DEF Running, Queued, Handing
<1>3. \A t \in Trackers :
        \/ updates'[t] = updates[t]
        \/ t = registered /\ updates'[t] = Append(updates[t], j)
  BY <1>1
<1>4. CASE BenchmarkOf(j) # b
  <2>1. ASSUME NEW t \in Trackers
        PROVE  /\ Places(b, updates'[t]) # {} => Places(b, updates[t]) # {}
               /\ AtMostOne(Places(b, updates[t])) => AtMostOne(Places(b, updates'[t]))
    BY <1>0, <1>3, <1>4, AppendPlaces
  <2>2. Informed(b)' \subseteq Informed(b) /\ (Single(b) => Single(b)')
    BY <1>1, <2>1 DEF Informed, Single
  <2>3. /\ NoTurn(b) => NoTurn(b)'
        /\ OneTurn(b) => OneTurn(b)'
    BY <1>2, <2>2, FewerTurns
  <2> QED
    BY <1>0, <1>1, <2>3, SteadyTurn
<1>5. CASE BenchmarkOf(j) = b
  <2>1. j \in Running(b)
    BY <1>1, <1>5, BenchmarkOfJob DEF Running
  <2>2. Informed(b)' \subseteq Informed(b) \cup {registered}
    BY <1>3 DEF Informed
  <2>3. ASSUME OneTurn(b) PROVE OneTurn(b)'
    <3>1. /\ Informed(b) = {} /\ Queued(b) = {} /\ Handing(b) = {}
          /\ Running(b)' = {} /\ Single(b)
      BY <1>2, <2>1, <2>3 DEF OneTurn, AtMostOne
    <3>2. Single(b)'
      <4> SUFFICES ASSUME NEW t \in Trackers
                   PROVE  /\ AtMostOne(Places(b, updates'[t]))
                          /\ AtMostOne(Places(b, jobQueue'[t]))
        BY DEF Single
      <4>1. /\ Places(b, updates[t]) = {} /\ AtMostOne(Places(b, updates[t]))
            /\ AtMostOne(Places(b, jobQueue[t]))
        BY <3>1 DEF Informed, Single
      <4>2. AtMostOne(Places(b, updates'[t]))
        BY <1>0, <1>3, <4>1, AppendPlaces
      <4> QED
        BY <1>1, <4>1, <4>2
    <3> QED
      BY <1>2, <2>2, <3>1, <3>2 DEF OneTurn, AtMostOne
  <2>4. ~NoTurn(b)
    BY <2>1 DEF NoTurn
  <2> QED
    BY <1>0, <1>1, <2>3, <2>4, SteadyTurn
<1> QED
  BY <1>4, <1>5

\* The informer hands its completion over, or drops what it has.
LEMMA InformerTurn ==
    ASSUME NEW b \in Benchmarks, TurnOf(b), NEW t \in Trackers, Informer(t)
    PROVE  TurnOK(b)'
<1>0. /\ TurnOK(b) /\ updates \in [Trackers -> Seq(Jobs)]
      /\ jobQueue \in [Trackers -> Seq(Jobs)]
  BY DEF TurnOf, TypeInv, TypeOK
<1>1. /\ UNCHANGED <<res, lives, jobs, registered, subscribers, worker>>
      /\ updates[t] # <<>>
  BY DEF Informer, UpdateFunc, InformerStops, cluster, trackers, maps
<1>2. Running(b)' = Running(b) /\ Handing(b)' = Handing(b)
  BY <1>1 DEF Running, Handing
<1>3. PICK j \in Jobs, w \in Seq(Jobs) :
        j = Head(updates[t]) /\ w = Tail(updates[t])
  BY <1>0, <1>1, QueueFacts
<1>4. /\ Places(b, w) # {} => Places(b, updates[t]) # {}
      /\ AtMostOne(Places(b, updates[t])) => AtMostOne(Places(b, w))
      /\ BenchmarkOf(j) = b =>
           /\ Places(b, updates[t]) # {}
           /\ AtMostOne(Places(b, updates[t])) => Places(b, w) = {}
  BY <1>0, <1>1, <1>3, TailPlaces
<1>5. CASE \/ InformerStops(t)
           \/ UpdateFunc(t) /\ (BenchmarkOf(j) # b \/ Closed(t))
  <2>1. ASSUME NEW u \in Trackers
        PROVE  /\ Places(b, updates'[u]) # {} => Places(b, updates[u]) # {}
               /\ AtMostOne(Places(b, updates[u])) => AtMostOne(Places(b, updates'[u]))
    <3>1. \/ updates'[u] = updates[u]
          \/ u = t /\ (updates'[u] = w \/ updates'[u] = <<>>)
      BY <1>0, <1>3, <1>5 DEF InformerStops, UpdateFunc
    <3>2. Places(b, <<>>) = {} /\ AtMostOne({})
      BY DEF Places, AtMostOne
    <3> QED
      BY <1>4, <3>1, <3>2
  <2>2. ASSUME NEW u \in Trackers
        PROVE  /\ Places(b, jobQueue'[u]) # {} => Places(b, jobQueue[u]) # {}
               /\ AtMostOne(Places(b, jobQueue[u])) => AtMostOne(Places(b, jobQueue'[u]))
    <3>1. \/ jobQueue'[u] = jobQueue[u]
          \/ BenchmarkOf(j) # b /\ jobQueue'[u] = Append(jobQueue[u], j)
      BY <1>0, <1>3, <1>5 DEF InformerStops, UpdateFunc
    <3> QED
      BY <1>0, <3>1, AppendPlaces
  <2>3. /\ Informed(b)' \subseteq Informed(b) /\ Queued(b)' \subseteq Queued(b)
        /\ Single(b) => Single(b)'
    BY <2>1, <2>2 DEF Informed, Queued, Single
  <2>4. /\ NoTurn(b) => NoTurn(b)'
        /\ OneTurn(b) => OneTurn(b)'
    BY <1>2, <2>3, FewerTurns
  <2> QED
    BY <1>0, <1>1, <2>4, SteadyTurn
<1>6. CASE UpdateFunc(t) /\ BenchmarkOf(j) = b /\ ~Closed(t)
  <2>1. /\ updates' = [updates EXCEPT ![t] = w]
        /\ jobQueue' = [jobQueue EXCEPT ![t] = Append(@, j)]
    BY <1>3, <1>6 DEF UpdateFunc
  <2>2. t \in Informed(b)
    BY <1>4, <1>6 DEF Informed
  <2>3. ASSUME OneTurn(b) PROVE OneTurn(b)'
    <3>1. /\ Running(b) = {} /\ Queued(b) = {} /\ Handing(b) = {}
          /\ Informed(b) = {t} /\ Single(b)
      BY <2>2, <2>3 DEF OneTurn, AtMostOne
    <3>2. Places(b, w) = {}
      BY <1>4, <1>6, <3>1 DEF Single
    <3>3. Informed(b)' = {}
      BY <1>0, <2>1, <3>1, <3>2 DEF Informed
    <3>4. Queued(b)' \subseteq {t}
      BY <1>0, <2>1, <3>1 DEF Queued
    <3>5. Single(b)'
      <4> SUFFICES ASSUME NEW u \in Trackers
                   PROVE  /\ AtMostOne(Places(b, updates'[u]))
                          /\ AtMostOne(Places(b, jobQueue'[u]))
        BY DEF Single
      <4>1. AtMostOne(Places(b, updates'[u]))
        BY <3>3 DEF Informed, AtMostOne
      <4>2. Places(b, jobQueue[u]) = {}
        BY <3>1 DEF Queued
      <4>3. jobQueue'[u] = jobQueue[u] \/ jobQueue'[u] = Append(jobQueue[u], j)
        BY <1>0, <2>1
      <4>4. AtMostOne(Places(b, jobQueue'[u]))
        BY <1>0, <4>2, <4>3, AppendPlaces DEF AtMostOne
      <4> QED
        BY <4>1, <4>4
    <3> QED
      BY <1>2, <3>1, <3>3, <3>4, <3>5 DEF OneTurn, AtMostOne
  <2>4. ~NoTurn(b)
    BY <2>2 DEF NoTurn
  <2> QED
    BY <1>0, <1>1, <2>3, <2>4, SteadyTurn
<1> QED
  BY <1>5, <1>6 DEF Informer

\* The worker takes a completion off its queue.
LEMMA TakeTurn ==
    ASSUME NEW b \in Benchmarks, TurnOf(b), NEW t \in Trackers, WorkerTake(t)
    PROVE  TurnOK(b)'
<1>0. /\ TurnOK(b) /\ jobQueue \in [Trackers -> Seq(Jobs)]
      /\ worker \in [Trackers -> WorkerStates]
  BY DEF TurnOf, TypeInv, TypeOK
<1>1. /\ UNCHANGED <<res, lives, jobs, registered, subscribers, updates>>
      /\ jobQueue[t] # <<>> /\ worker[t].pc = "blocked"
  BY DEF WorkerTake, trackers, maps
<1>2. Running(b)' = Running(b) /\ Informed(b)' = Informed(b)
  BY <1>1 DEF Running, Informed
<1>3. PICK j \in Jobs, w \in Seq(Jobs) :
        j = Head(jobQueue[t]) /\ w = Tail(jobQueue[t])
  BY <1>0, <1>1, QueueFacts
<1>4. /\ Places(b, w) # {} => Places(b, jobQueue[t]) # {}
      /\ AtMostOne(Places(b, jobQueue[t])) => AtMostOne(Places(b, w))
      /\ BenchmarkOf(j) = b =>
           /\ Places(b, jobQueue[t]) # {}
           /\ AtMostOne(Places(b, jobQueue[t])) => Places(b, w) = {}
  BY <1>0, <1>1, <1>3, TailPlaces
<1>5. jobQueue' = [jobQueue EXCEPT ![t] = w]
  BY <1>3 DEF WorkerTake
<1>6. /\ \A u \in Trackers \ {t} : worker'[u] = worker[u]
      /\ worker'[t].pc \in Hands => worker'[t].job = j
  <2>1. PICK d, e : \/ worker' = [worker EXCEPT ![t] = IdleWorker]
                    \/ worker' = [worker EXCEPT ![t] =
                          [pc |-> "sleep", job |-> j, next |-> None, tail |-> <<>>,
                           done |-> e, dr |-> d]]
    BY <1>3 DEF WorkerTake
  <2> QED
    BY <1>0, <2>1, IdleWorkerType DEF Hands
<1>7. /\ t \notin Handing(b) /\ Handing(b)' \subseteq Handing(b) \cup {t}
      /\ BenchmarkOf(j) # b => Handing(b)' \subseteq Handing(b)
  BY <1>1, <1>6 DEF Handing, Hands
<1>8. /\ Queued(b)' \subseteq Queued(b) /\ (Single(b) => Single(b)')
  <2>1. \A u \in Trackers : jobQueue'[u] = IF u = t THEN w ELSE jobQueue[u]
    BY <1>0, <1>5
  <2>2. Queued(b)' \subseteq Queued(b)
    BY <1>4, <2>1 DEF Queued
  <2>3. Single(b) => Single(b)'
    BY <1>1, <1>4, <2>1 DEF Single
  <2> QED
    BY <2>2, <2>3
<1>9. CASE BenchmarkOf(j) # b
  <2>1. /\ NoTurn(b) => NoTurn(b)'
        /\ OneTurn(b) => OneTurn(b)'
    BY <1>2, <1>7, <1>8, <1>9, FewerTurns
  <2> QED
    BY <1>0, <1>1, <2>1, SteadyTurn
<1>10. CASE BenchmarkOf(j) = b
  <2>1. t \in Queued(b)
    BY <1>4, <1>10 DEF Queued
  <2>2. ASSUME OneTurn(b) PROVE OneTurn(b)'
    <3>1. /\ Running(b) = {} /\ Informed(b) = {} /\ Handing(b) = {}
          /\ Queued(b) = {t} /\ Single(b)
      BY <2>1, <2>2 DEF OneTurn, AtMostOne
    <3>2. Places(b, w) = {}
      BY <1>4, <1>10, <3>1 DEF Single
    <3>3. Queued(b)' = {}
      BY <1>0, <1>5, <1>8, <3>1, <3>2 DEF Queued
    <3> QED
      BY <1>2, <1>7, <1>8, <3>1, <3>3 DEF OneTurn, AtMostOne
  <2>3. ~NoTurn(b)
    BY <2>1 DEF NoTurn
  <2> QED
    BY <1>0, <1>1, <2>2, <2>3, SteadyTurn
<1> QED
  BY <1>9, <1>10

\* The worker goes on with the job whose turn it has, or comes to the end of it.
LEMMA KeepTurn ==
    ASSUME NEW b \in Benchmarks, TurnOf(b), NEW t \in Trackers,
           \/ RunLooksAtQuit(t) \/ WorkerLooks(t) \/ WorkerReads(t)
           \/ WorkerStores(t) \/ WorkerTidies(t) \/ WorkerForgets(t)
    PROVE  TurnOK(b)'
<1>0. /\ TurnOK(b) /\ InHand /\ TypeOK
      /\ jobQueue \in [Trackers -> Seq(Jobs)]
  BY DEF TurnOf, TypeInv, TypeOK
<1>1. UNCHANGED <<res, lives, jobs, registered, subscribers, updates>>
  BY DEF RunLooksAtQuit, WorkerLooks, WorkerReads, WorkerStores, WorkerTidies,
         WorkerForgets, cluster, trackers, maps, queues
<1>2. Running(b)' = Running(b) /\ Informed(b)' = Informed(b)
  BY <1>1 DEF Running, Informed
<1>3. Queued(b)' \subseteq Queued(b) /\ (Single(b) => Single(b)')
  <2>1. \A u \in Trackers : jobQueue'[u] = jobQueue[u] \/ jobQueue'[u] = <<>>
    <3>1. jobQueue' = jobQueue \/ jobQueue' = [jobQueue EXCEPT ![t] = <<>>]
      BY DEF RunLooksAtQuit, WorkerLooks, WorkerReads, WorkerStores, WorkerTidies,
             WorkerForgets, queues
    <3> QED
      BY <1>0, <3>1
  <2>2. Places(b, <<>>) = {} /\ AtMostOne({})
    BY DEF Places, AtMostOne
  <2> QED
    BY <1>1, <2>1, <2>2 DEF Queued, Single
<1>4. Handing(b)' \subseteq Handing(b)
  <2>1. /\ \A u \in Trackers \ {t} : worker'[u] = worker[u]
        /\ worker'[t].pc \in Hands =>
             worker[t].pc \in Hands /\ worker'[t].job = worker[t].job
    BY <1>0, HandSteps
  <2> QED
    BY <2>1 DEF Handing
<1>5. /\ NoTurn(b) => NoTurn(b)'
      /\ OneTurn(b) => OneTurn(b)'
  BY <1>2, <1>3, <1>4, FewerTurns
<1> QED
  BY <1>0, <1>1, <1>5, SteadyTurn

\* The job that the worker holds becomes the running one.
LEMMA HandOn ==
    ASSUME NEW b \in Benchmarks, TurnOf(b), NEW t \in Trackers, WorkerCreate(t)
    PROVE  TurnOK(b)'
<1>0. /\ TurnOK(b) /\ TypeInv /\ TypeOK /\ InHand /\ ListsOK /\ UniqueNames
      /\ jobs \in [Jobs -> {"absent", "active", "complete"}]
  BY DEF TurnOf, TypeInv, TypeOK
<1>1. /\ UNCHANGED <<res, lives, registered, subscribers, updates, jobQueue>>
      /\ worker[t].pc = "create" /\ worker[t].next \in Jobs
      /\ jobs' = jobs \/ jobs' = [jobs EXCEPT ![worker[t].next] = "active"]
  BY <1>0 DEF WorkerCreate, trackers, maps, queues, InHand
<1>2. /\ Informed(b)' = Informed(b) /\ Queued(b)' = Queued(b)
      /\ Single(b)' <=> Single(b)
  BY <1>1 DEF Informed, Queued, Single
<1>3. Handing(b)' = Handing(b) \ {t}
  <2>1. /\ \A u \in Trackers \ {t} : worker'[u] = worker[u]
        /\ worker'[t].pc \notin Hands
    BY <1>0, HandSteps
  <2> QED
    BY <2>1 DEF Handing
<1>4. /\ \A j \in Jobs : j # worker[t].next => jobs'[j] = jobs[j]
      /\ Range(JobsOf[b]) \subseteq Jobs
  BY <1>0, <1>1, JobsOfType
<1>5. CASE BenchmarkOf(worker[t].next) # b
  <2>1. worker[t].next \notin Range(JobsOf[b])
    BY <1>5, BenchmarkOfJob
  <2>2. Running(b)' = Running(b)
    BY <1>4, <2>1 DEF Running
  <2>3. /\ NoTurn(b) => NoTurn(b)'
        /\ OneTurn(b) => OneTurn(b)'
    BY <1>2, <1>3, <2>2, FewerTurns
  <2> QED
    BY <1>0, <1>1, <2>3, SteadyTurn
<1>6. CASE BenchmarkOf(worker[t].next) = b
  <2>1. t \in Handing(b) /\ ~NoTurn(b)
    <3>1. BenchmarkOf(worker[t].job) = b
      BY <1>0, <1>1, <1>6, SameBenchmark
    <3> QED
      BY <1>1, <3>1 DEF Handing, Hands, NoTurn
  <2>2. Running(b)' \subseteq Running(b) \cup {worker[t].next}
    BY <1>4 DEF Running
  <2>3. ASSUME OneTurn(b) PROVE OneTurn(b)'
    <3>1. /\ Running(b) = {} /\ Informed(b) = {} /\ Queued(b) = {}
          /\ Handing(b) = {t}
      BY <2>1, <2>3 DEF OneTurn, AtMostOne
    <3> QED
      BY <1>2, <1>3, <2>2, <2>3, <3>1 DEF OneTurn, AtMostOne
  <2> QED
    BY <1>0, <1>1, <2>1, <2>3, SteadyTurn
<1> QED
  BY <1>5, <1>6

\* A new life has no turn yet; a second one promises nothing.
LEMMA UserTurn ==
    ASSUME NEW b \in Benchmarks, TurnOf(b),
           NEW c \in Benchmarks, UserCreates(c) \/ UserDeletes(c)
    PROVE  TurnOK(b)'
<1>0. /\ TurnOK(b) /\ lives \in [Benchmarks -> Nat]
      /\ res \in [Benchmarks -> {"absent", "new", "live", "deleting"}]
  BY DEF TurnOf, TypeInv, TypeOK
<1>1. /\ UNCHANGED <<jobs, registered, subscribers, updates, jobQueue, worker>>
      /\ IsExist(b)' <=> IsExist(b)
  <2>1. UNCHANGED <<jobs, registered, subscribers, updates, jobQueue, worker>>
    BY DEF UserCreates, UserDeletes, trackers, maps, queues
  <2> QED
    BY <2>1, SameSubscribers
<1>2. Running(b)' = Running(b)
  BY <1>1 DEF Running
<1>3. CASE UserCreates(b)
  <2>1. /\ lives'[b] = lives[b] + 1 /\ lives[b] \in Nat
    BY <1>0, <1>3 DEF UserCreates
  <2>2. /\ NoTurn(b)' <=> NoTurn(b)
        /\ OneTurn(b)' <=> OneTurn(b)
    BY <1>1, <1>2 DEF NoTurn, OneTurn, Single, Informed, Queued, Handing
  <2>3. CASE lives[b] = 0
    <3>1. NoTurn(b)' /\ OneTurn(b)'
      BY <1>0, <2>2, <2>3 DEF TurnOK, NotBegun
    <3>2. lives'[b] = 1
      BY <2>1, <2>3
    <3> QED
      BY <3>1, <3>2 DEF TurnOK
  <2>4. CASE lives[b] # 0
    <3>1. lives'[b] # 0 /\ lives'[b] # 1 /\ ~(lives'[b] <= 1)
      BY <2>1, <2>4
    <3> QED
      BY <3>1 DEF TurnOK, NotBegun
  <2> QED
    BY <2>3, <2>4
<1>4. CASE c # b \/ UserDeletes(c)
  <2>1. /\ lives'[b] = lives[b]
        /\ res'[b] = res[b] \/ (res[b] # "absent" /\ res'[b] \in {"absent", "deleting"})
    BY <1>0, <1>4 DEF UserCreates, UserDeletes
  <2>2. NotBegun(b)' => NotBegun(b)
    BY <1>1, <2>1 DEF NotBegun
  <2> QED
    BY <1>0, <1>1, <1>2, <2>1, <2>2, LeaveTurns
<1> QED
  BY <1>3, <1>4

\* The scan gives out one turn, of a benchmark that has none.
LEMMA ScanTurn ==
    ASSUME NEW b \in Benchmarks, TurnOf(b),
           NEW c \in Benchmarks, CreateFromOperator(c)
    PROVE  TurnOK(b)'
<1>0. /\ TypeOK /\ TurnOK(b) /\ lives[b] \in Nat /\ UniqueNames
      /\ subscribers \in [Trackers -> SUBSET Names] /\ NameOf[c] \in Names
  BY NameTypes DEF TurnOf, TypeInv, TypeOK
<1>1. /\ UNCHANGED <<res, lives, updates, jobQueue, worker>>
      /\ res[c] = "live" /\ ~IsExist(c)
  BY DEF CreateFromOperator, queues
<1>2. PICK t : /\ t = IF registered = NoTracker THEN started + 1 ELSE registered
               /\ t <= MaxTrackers /\ registered' = t
               /\ subscribers' = [subscribers EXCEPT ![t] = @ \cup {NameOf[c]}]
  BY DEF CreateFromOperator, Subscribe
<1>3. t \in Trackers
  <2>1. /\ MaxTrackers \in Nat /\ started \in 0..MaxTrackers
        /\ registered \in 0..started
    BY <1>0, LivesAssumption DEF TypeOK
  <2> QED
    BY <1>2, <2>1 DEF NoTracker, Trackers
<1>4. \A u \in Trackers : /\ subscribers[u] \subseteq subscribers'[u]
                          /\ NameOf[c] \in subscribers'[t]
  BY <1>0, <1>2, <1>3
<1>5. CASE c # b
  <2>1. IsExist(b) => IsExist(b)'
    BY <1>2, <1>3, <1>4 DEF IsExist
  <2>2. NotBegun(b)' => NotBegun(b)
    BY <1>1, <2>1 DEF NotBegun
  <2>3. Running(b)' = Running(b)
    BY <1>0, <1>5, NotOfOther DEF Running
  <2> QED
    BY <1>0, <1>1, <2>2, <2>3, LeaveTurns
<1>6. CASE c = b
  <2>1. IsExist(b)'
    BY <1>2, <1>3, <1>4, <1>6 DEF IsExist, NoTracker, Trackers
  <2>2. lives[b] # 0
    BY <1>0, <1>1, <1>6 DEF TurnOK
  <2>3. lives[b] <= 1 => OneTurn(b)'
    <3> SUFFICES ASSUME lives[b] <= 1 PROVE OneTurn(b)'
      OBVIOUS
    <3>1. lives[b] = 1
      BY <1>0, <2>2
    <3>2. NoTurn(b) /\ OneTurn(b)
      BY <1>0, <1>1, <1>6, <3>1 DEF TurnOK, NotBegun
    <3>3. \A j \in Range(JobsOf[b]) :
             j # JobsOf[b][FirstNew(b)] => jobs'[j] = jobs[j]
      BY <1>6, JobsOfType DEF CreateFromOperator
    <3>4. Running(b)' \subseteq {JobsOf[b][FirstNew(b)]}
      BY <3>2, <3>3 DEF NoTurn, Running
    <3>5. /\ Informed(b)' = {} /\ Queued(b)' = {} /\ Handing(b)' = {}
          /\ Single(b)'
      BY <1>1, <3>2 DEF NoTurn, OneTurn, Informed, Queued, Handing, Single
    <3> QED
      BY <3>4, <3>5 DEF OneTurn, AtMostOne
  <2> QED
    BY <1>1, <2>1, <2>2, <2>3 DEF TurnOK, NotBegun
<1> QED
  BY <1>5, <1>6

\* The rest of the reconciler makes no benchmark ready for a first scan.
LEMMA ReconcilerTurn ==
    ASSUME NEW b \in Benchmarks, TurnOf(b),
           \/ \E c \in Benchmarks : \/ AddFinalizer(c) \/ FinalizeBenchmark(c)
                                    \/ FinalizeWithoutOperator(c)
           \/ DeleteFromOperator
           \/ RemoveFinalizer
    PROVE  TurnOK(b)'
<1>0. /\ TypeInv /\ TurnOK(b) /\ FinalizerOK /\ UniqueNames
      /\ res \in [Benchmarks -> {"absent", "new", "live", "deleting"}]
      /\ Range(JobsOf[b]) \subseteq Jobs
      /\ jobs \in [Jobs -> {"absent", "active", "complete"}]
  BY JobsOfType DEF TurnOf, TypeInv, TypeOK, FollowInv
<1>1. UNCHANGED <<lives, updates, jobQueue, worker>>
  BY DEF AddFinalizer, FinalizeBenchmark, FinalizeWithoutOperator,
         DeleteFromOperator, RemoveFinalizer, cluster, queues
<1>2. Running(b)' \subseteq Running(b)
  <2>1. \A j \in Jobs : jobs'[j] = jobs[j] \/ jobs'[j] = "absent"
    BY DEF AddFinalizer, FinalizeBenchmark, FinalizeWithoutOperator,
           DeleteFromOperator, RemoveFinalizer, cluster
  <2> QED
    BY <1>0, <2>1 DEF Running
<1>3. /\ res[b] = "absent" => res'[b] = "absent"
      /\ NotBegun(b)' => NotBegun(b)
  <2>1. ASSUME UNCHANGED <<registered, subscribers>>,
               \/ res'[b] = res[b] \/ res'[b] = "absent"
               \/ res[b] = "new" /\ res'[b] = "live"
        PROVE  <1>3
    BY <1>1, <2>1, SameSubscribers DEF NotBegun
  <2>2. ASSUME NEW c \in Benchmarks, FinalizeBenchmark(c) PROVE <1>3
    <3>1. res' = res /\ res[c] = "deleting"
      BY <2>2 DEF FinalizeBenchmark, cluster
    <3>2. c # b => (IsExist(b)' <=> IsExist(b))
      BY <1>0, <2>2, OtherFinalized
    <3> QED
      BY <1>1, <3>1, <3>2 DEF NotBegun
  <2>3. ASSUME NEW c \in Benchmarks, AddFinalizer(c) \/ FinalizeWithoutOperator(c)
        PROVE  <1>3
    <3>1. /\ UNCHANGED <<registered, subscribers>>
          /\ res'[b] = res[b] \/ (res[b] = "new" /\ res'[b] = "live")
      BY <1>0, <2>3 DEF AddFinalizer, FinalizeWithoutOperator, cluster, trackers, maps
    <3> QED
      BY <2>1, <3>1
  <2>4. CASE DeleteFromOperator
    <3>1. UNCHANGED <<registered, subscribers, res>>
      BY <2>4 DEF DeleteFromOperator, trackers, maps
    <3> QED
      BY <2>1, <3>1
  <2>5. CASE RemoveFinalizer
    <3>1. finalizer.b \in Benchmarks
      BY <1>0, <2>5 DEF RemoveFinalizer, FinalizerOK
    <3>2. /\ UNCHANGED <<registered, subscribers>>
          /\ res'[b] = res[b] \/ res'[b] = "absent"
      BY <1>0, <2>5, <3>1 DEF RemoveFinalizer, trackers, maps
    <3> QED
      BY <2>1, <3>2
  <2> QED
    BY <2>2, <2>3, <2>4, <2>5
<1> QED
  BY <1>0, <1>1, <1>2, <1>3, LeaveTurns

LEMMA TurnInit == Init => TurnInv
<1> SUFFICES ASSUME Init PROVE TurnInv
  OBVIOUS
<1>1. TypeInv /\ ListsOK /\ FollowInv
  BY OrphanInit DEF OrphanInv
<1>2. ASSUME NEW b \in Benchmarks PROVE TurnOK(b)
  <2>1. /\ \A t \in Trackers : /\ worker[t].pc = "between"
                               /\ updates[t] = <<>> /\ jobQueue[t] = <<>>
        /\ \A j \in Jobs : jobs[j] = "absent"
        /\ res[b] = "absent"
    BY DEF Init, IdleWorker
  <2>2. Places(b, <<>>) = {}
    BY DEF Places
  <2>3. NoTurn(b) /\ Single(b)
    BY <2>1, <2>2, JobsOfType
       DEF Hands, NoTurn, Single, Running, Informed, Queued, Handing, AtMostOne
  <2> QED
    BY <2>1, <2>3 DEF TurnOK, NoTurn, OneTurn, AtMostOne
<1> QED
  BY <1>1, <1>2 DEF TurnInv

LEMMA TurnNext == TurnInv /\ [Next]_vars => TurnInv'
<1> SUFFICES ASSUME TurnInv, [Next]_vars PROVE TurnInv'
  OBVIOUS
<1>1. FollowInv' /\ TypeInv' /\ ListsOK'
  BY FollowInductive, TypeNext, ListsNext DEF TurnInv
<1>2. ASSUME UniqueNames, NEW b \in Benchmarks PROVE TurnOK(b)'
  <2>1. TurnOf(b)
    BY <1>2 DEF TurnInv, TurnOf
  <2>2. CASE Environment
    BY <2>1, <2>2, UserTurn, CompleteTurn DEF Environment
  <2>3. CASE Reconciler
    <3>1. ASSUME NEW c \in Benchmarks, CreateFromOperator(c) PROVE TurnOK(b)'
      BY <2>1, <3>1, ScanTurn
    <3>2. CASE \/ \E c \in Benchmarks :
                    \/ AddFinalizer(c) \/ FinalizeBenchmark(c)
                    \/ FinalizeWithoutOperator(c)
               \/ DeleteFromOperator
               \/ RemoveFinalizer
      BY <2>1, <3>2, ReconcilerTurn
    <3> QED
      BY <2>3, <3>1, <3>2 DEF Reconciler
  <2>4. ASSUME NEW t \in Trackers, Informer(t) \/ Worker(t) PROVE TurnOK(b)'
    BY <2>1, <2>4, InformerTurn, TakeTurn, KeepTurn, HandOn DEF Worker
  <2>5. CASE UNCHANGED vars
    <3>1. UNCHANGED <<res, lives, jobs, registered, subscribers, updates,
                      jobQueue, worker>>
      BY <2>5 DEF vars, cluster, trackers, maps, queues
    <3>2. Running(b)' = Running(b) /\ (NotBegun(b)' <=> NotBegun(b))
      BY <3>1, SameSubscribers DEF Running, NotBegun
    <3> QED
      BY <2>1, <3>1, <3>2, LeaveTurns DEF TurnOf
  <2> QED
    BY <2>2, <2>3, <2>4, <2>5 DEF Next
<1> QED
  BY <1>1, <1>2 DEF TurnInv, UniqueNames

(***************************************************************************)
(* A benchmark in its first life never has two jobs running, however many  *)
(* trackers, ended or not, still have goroutines with its jobs in hand     *)
(* (job_tracker.go:163-213).                                               *)
(***************************************************************************)
THEOREM FirstLifeSequential == Spec => []SequentialUnlessRecreated
<1>1. ASSUME NEW S, AtMostOne(S)
      PROVE  Cardinality(S) <= 1
  <2>1. CASE S = {}
    BY <2>1, FS_EmptySet
  <2>2. CASE S # {}
    <3>1. PICK x : S = {x}
      BY <1>1, <2>2 DEF AtMostOne
    <3> QED
      BY <3>1, FS_Singleton
  <2> QED
    BY <2>1, <2>2
<1>2. TurnInv => SequentialUnlessRecreated
  BY <1>1 DEF TurnInv, TurnOK, OneTurn, SequentialUnlessRecreated
<1> QED
  BY <1>2, TurnInit, TurnNext, PTL DEF Spec

===============================================================================
