------------------------ MODULE BenchmarkStatusProofs ------------------------
(***************************************************************************)
(* Theorems about BenchmarkStatus, for any number of combinations, builds  *)
(* and restarts, with or without another benchmark on the same tracker.    *)
(***************************************************************************)
EXTENDS BenchmarkStatus, FiniteSetTheorems, TLAPS

-----------------------------------------------------------------------------
(***************************************************************************)
(* Facts about data.                                                       *)
(***************************************************************************)

\* What a list becomes when an element is appended to it.
LEMMA AppendFacts ==
    ASSUME NEW S, NEW s \in Seq(S), NEW e \in S
    PROVE  /\ Append(s, e) \in Seq(S)
           /\ Len(s) \in Nat /\ Len(Append(s, e)) = Len(s) + 1
           /\ Range(Append(s, e)) = Range(s) \cup {e}
           /\ IsPrefix(s, Append(s, e))
<1> DEFINE t == Append(s, e)
<1>1. /\ t \in Seq(S) /\ Len(s) \in Nat /\ Len(t) = Len(s) + 1
      /\ t[Len(s) + 1] = e
      /\ \A i \in 1..Len(s) : t[i] = s[i]
  OBVIOUS
<1>2. DOMAIN s = 1..Len(s) /\ DOMAIN t = 1..(Len(s) + 1)
  BY <1>1
<1> HIDE DEF t
<1>3. Range(t) = Range(s) \cup {e}
  <2>1. Range(t) \subseteq Range(s) \cup {e}
    BY <1>1, <1>2 DEF Range
  <2>2. e \in Range(t)
    BY <1>1, <1>2 DEF Range
  <2>3. Range(s) \subseteq Range(t)
    BY <1>1, <1>2 DEF Range
  <2> QED
    BY <2>1, <2>2, <2>3
<1>4. IsPrefix(s, t)
  BY <1>1 DEF IsPrefix
<1> QED
  BY <1>1, <1>3, <1>4 DEF t

\* A list is a prefix of itself.
LEMMA PrefixSelf ==
    ASSUME NEW S, NEW s \in Seq(S)
    PROVE  IsPrefix(s, s)
  BY DEF IsPrefix

\* What is left of a queue once its head is taken.
LEMMA TailFacts ==
    ASSUME NEW S, NEW s \in Seq(S), s # <<>>
    PROVE  /\ Head(s) \in S /\ Head(s) \in Range(s)
           /\ Tail(s) \in Seq(S)
           /\ Range(Tail(s)) \subseteq Range(s)
           /\ IsInjective(s) =>
                IsInjective(Tail(s)) /\ Head(s) \notin Range(Tail(s))
<1>1. /\ Head(s) = s[1] /\ Tail(s) \in Seq(S) /\ Len(Tail(s)) = Len(s) - 1
      /\ Len(s) \in Nat \ {0}
      /\ \A i \in 1..Len(Tail(s)) : i + 1 \in 1..Len(s)
                                    /\ Tail(s)[i] = s[i + 1]
  OBVIOUS
<1>2. DOMAIN s = 1..Len(s) /\ DOMAIN Tail(s) = 1..Len(Tail(s))
  BY <1>1
<1>3. Head(s) \in S /\ Head(s) \in Range(s)
  BY <1>1, <1>2 DEF Range
<1>4. Range(Tail(s)) \subseteq Range(s)
  BY <1>1, <1>2 DEF Range
<1>5. ASSUME IsInjective(s)
      PROVE  IsInjective(Tail(s)) /\ Head(s) \notin Range(Tail(s))
  <2>1. IsInjective(Tail(s))
    BY <1>1, <1>2, <1>5 DEF IsInjective
  <2>2. Head(s) \notin Range(Tail(s))
    BY <1>1, <1>2, <1>5 DEF IsInjective, Range
  <2> QED
    BY <2>1, <2>2
<1> QED
  BY <1>1, <1>3, <1>4, <1>5

\* A job that is not in the queue can be appended without repeating one.
LEMMA AppendNew ==
    ASSUME NEW S, NEW s \in Seq(S), NEW e \in S, IsInjective(s),
           e \notin Range(s)
    PROVE  IsInjective(Append(s, e))
<1>1. /\ Len(s) \in Nat /\ DOMAIN s = 1..Len(s)
      /\ DOMAIN Append(s, e) = 1..(Len(s) + 1)
      /\ Append(s, e)[Len(s) + 1] = e
      /\ \A i \in 1..Len(s) : Append(s, e)[i] = s[i]
  OBVIOUS
<1>2. \A i \in 1..Len(s) : s[i] # e
  BY <1>1 DEF Range
<1> SUFFICES ASSUME NEW i \in DOMAIN Append(s, e),
                    NEW k \in DOMAIN Append(s, e),
                    Append(s, e)[i] = Append(s, e)[k]
             PROVE  i = k
  BY DEF IsInjective
<1>3. CASE i \in 1..Len(s) /\ k \in 1..Len(s)
  BY <1>1, <1>3 DEF IsInjective
<1>4. CASE i = Len(s) + 1 \/ k = Len(s) + 1
  BY <1>1, <1>2, <1>4
<1> QED
  BY <1>1, <1>3, <1>4

\* A record with the fields of a status is one.
LEMMA StatusRecord ==
    ASSUME NEW v \in Nat, NEW h \in Seq(Jobs),
           NEW r \in [Jobs -> {"none", "own", "empty"}],
           NEW t \in Seq(Builds), NEW c \in Nat \X Nat
    PROVE  [version |-> v, hash |-> h, results |-> r, trackedBuilds |-> t,
            jobCompleted |-> c] \in Statuses
  BY DEF Statuses

\* The fields of a status.
LEMMA StatusFields ==
    ASSUME NEW s \in Statuses
    PROVE  /\ s.version \in Nat /\ s.hash \in Seq(Jobs)
           /\ s.results \in [Jobs -> {"none", "own", "empty"}]
           /\ s.trackedBuilds \in Seq(Builds) /\ s.jobCompleted \in Nat \X Nat
           /\ s = [version |-> s.version, hash |-> s.hash,
                   results |-> s.results, trackedBuilds |-> s.trackedBuilds,
                   jobCompleted |-> s.jobCompleted]
  BY DEF Statuses

\* A status after one of its fields is replaced.
LEMMA StatusExcept ==
    ASSUME NEW s \in Statuses, NEW x
    PROVE  /\ [s EXCEPT !.version = x] =
                [version |-> x, hash |-> s.hash, results |-> s.results,
                 trackedBuilds |-> s.trackedBuilds,
                 jobCompleted |-> s.jobCompleted]
           /\ [s EXCEPT !.hash = x] =
                [version |-> s.version, hash |-> x, results |-> s.results,
                 trackedBuilds |-> s.trackedBuilds,
                 jobCompleted |-> s.jobCompleted]
           /\ [s EXCEPT !.results = x] =
                [version |-> s.version, hash |-> s.hash, results |-> x,
                 trackedBuilds |-> s.trackedBuilds,
                 jobCompleted |-> s.jobCompleted]
           /\ [s EXCEPT !.trackedBuilds = x] =
                [version |-> s.version, hash |-> s.hash,
                 results |-> s.results, trackedBuilds |-> x,
                 jobCompleted |-> s.jobCompleted]
           /\ [s EXCEPT !.jobCompleted = x] =
                [version |-> s.version, hash |-> s.hash,
                 results |-> s.results, trackedBuilds |-> s.trackedBuilds,
                 jobCompleted |-> x]
<1>1. PICK v, h, r, t, c :
        /\ v = s.version /\ h = s.hash /\ r = s.results
        /\ t = s.trackedBuilds /\ c = s.jobCompleted
  OBVIOUS
<1>2. s = [version |-> v, hash |-> h, results |-> r, trackedBuilds |-> t,
           jobCompleted |-> c]
  BY <1>1, StatusFields
<1>3. /\ [s EXCEPT !.version = x] =
           [version |-> x, hash |-> h, results |-> r, trackedBuilds |-> t,
            jobCompleted |-> c]
      /\ [s EXCEPT !.hash = x] =
           [version |-> v, hash |-> x, results |-> r, trackedBuilds |-> t,
            jobCompleted |-> c]
      /\ [s EXCEPT !.results = x] =
           [version |-> v, hash |-> h, results |-> x, trackedBuilds |-> t,
            jobCompleted |-> c]
      /\ [s EXCEPT !.trackedBuilds = x] =
           [version |-> v, hash |-> h, results |-> r, trackedBuilds |-> x,
            jobCompleted |-> c]
      /\ [s EXCEPT !.jobCompleted = x] =
           [version |-> v, hash |-> h, results |-> r, trackedBuilds |-> t,
            jobCompleted |-> x]
  BY <1>2
<1> QED
  BY <1>1, <1>3, Zenon

\* There are finitely many jobs.
LEMMA JobsFinite == IsFiniteSet(Jobs)
<1>1. IsFiniteSet(Range(Labels))
  <2>1. Labels \in Seq(Range(Labels)) /\ DOMAIN Labels = 1..Len(Labels)
    BY StatusAssumption
  <2>2. \A e \in Range(Labels) : \E n \in 1..Len(Labels) : Labels[n] = e
    BY <2>1 DEF Range
  <2> QED
    BY <2>1, <2>2, Zenon DEF IsFiniteSet
<1>2. IsFiniteSet(Builds \cup {InitBuild})
  BY StatusAssumption, FS_AddElement
<1> QED
  BY <1>1, <1>2, FS_Product DEF Jobs

\* The count shown next to the lists is a pair of numbers.
LEMMA CompletedType ==
    ASSUME NEW s \in Statuses
    PROVE  GetJobCompletedStatus(s) \in Nat \X Nat
<1> DEFINE D == {j \in Jobs : s.results[j] # "none"}
<1>1. IsFiniteSet(D)
  BY JobsFinite, FS_Subset
<1>2. Cardinality(D) \in Nat
  BY <1>1, FS_CardinalityType
<1>3. Len(s.hash) \in Nat
  BY StatusFields
<1> QED
  BY <1>2, <1>3 DEF GetJobCompletedStatus

\* The status without anything in it.
LEMMA EmptyType == Empty \in Statuses /\ Empty.version = 0
<1>1. <<>> \in Seq(Jobs) /\ <<>> \in Seq(Builds)
  OBVIOUS
<1>2. [j \in Jobs |-> "none"] \in [Jobs -> {"none", "own", "empty"}]
  OBVIOUS
<1>3. <<0, 0>> \in Nat \X Nat
  OBVIOUS
<1>4. Empty \in Statuses
  BY <1>1, <1>2, <1>3, StatusRecord DEF Empty
<1> QED
  BY <1>4 DEF Empty

-----------------------------------------------------------------------------
(***************************************************************************)
(* What the writers submit.                                                *)
(***************************************************************************)

\* s2 has every hash, result and build of s1; it is a copy of s1 to which some
\* were added.
Keeps(s1, s2) ==
    /\ IsPrefix(s1.hash, s2.hash) /\ Range(s1.hash) \subseteq Range(s2.hash)
    /\ IsPrefix(s1.trackedBuilds, s2.trackedBuilds)
    /\ \A j \in Jobs : s1.results[j] # "none" => s2.results[j] = s1.results[j]

Extends(s1, s2) ==
    /\ s2 \in Statuses /\ s2.version = s1.version
    /\ Keeps(s1, s2)

\* The two properties of a status that FiledIsListed and CompletedAgrees state.
Filed(s)   == \A j \in Jobs : s.results[j] = "own" => j \in Range(s.hash)
Counted(s) == s.jobCompleted = GetJobCompletedStatus(s)

\* Only results and hashes count.
LEMMA CountedSame ==
    ASSUME NEW s1, NEW s2, s1.results = s2.results, s1.hash = s2.hash
    PROVE  GetJobCompletedStatus(s1) = GetJobCompletedStatus(s2)
  BY DEF GetJobCompletedStatus

\* The scan adds a hash.
LEMMA PatchExtends ==
    ASSUME NEW s \in Statuses, NEW j \in Jobs
    PROVE  /\ Extends(s, patchBenchmarkStatus(s, j))
           /\ Filed(s) => Filed(patchBenchmarkStatus(s, j))
           /\ Counted(s) => Counted(patchBenchmarkStatus(s, j))
<1>1. CASE j \in Range(s.hash)
  BY <1>1, StatusFields, PrefixSelf
     DEF patchBenchmarkStatus, Extends, Keeps
<1>2. CASE j \notin Range(s.hash)
  <2> DEFINE h == Append(s.hash, j)
             new == [s EXCEPT !.hash = h]
  <2>1. new = [version |-> s.version, hash |-> h, results |-> s.results,
               trackedBuilds |-> s.trackedBuilds,
               jobCompleted |-> s.jobCompleted]
    BY StatusExcept
  <2>2. h \in Seq(Jobs) /\ IsPrefix(s.hash, h)
        /\ Range(s.hash) \subseteq Range(h)
    BY StatusFields, AppendFacts
  <2> HIDE DEF h
  <2>3. new \in Statuses
    BY <2>1, <2>2, StatusFields, StatusRecord
  <2> DEFINE c == GetJobCompletedStatus(new)
             p == [new EXCEPT !.jobCompleted = c]
  <2>4. c \in Nat \X Nat
    BY <2>3, CompletedType
  <2> HIDE DEF c, new
  <2>5. p = [version |-> new.version, hash |-> new.hash,
             results |-> new.results, trackedBuilds |-> new.trackedBuilds,
             jobCompleted |-> c]
    BY <2>3, StatusExcept
  <2>6. p \in Statuses
    BY <2>3, <2>4, <2>5, StatusFields, StatusRecord
  <2>7. /\ p.version = s.version /\ p.hash = h
        /\ p.results = s.results /\ p.trackedBuilds = s.trackedBuilds
    BY <2>1, <2>5
  <2>7a. Counted(p)
    <3>1. p.results = new.results /\ p.hash = new.hash /\ p.jobCompleted = c
      BY <2>5
    <3> QED
      BY <3>1, CountedSame DEF Counted, c
  <2>8. patchBenchmarkStatus(s, j) = p
    BY <1>2 DEF patchBenchmarkStatus, c, new, h
  <2> HIDE DEF p
  <2>9. Extends(s, p)
    BY <2>2, <2>6, <2>7, StatusFields, PrefixSelf DEF Extends, Keeps
  <2>10. Filed(s) => Filed(p)
    BY <2>2, <2>7 DEF Filed
  <2> QED
    BY <2>7a, <2>8, <2>9, <2>10
<1> QED
  BY <1>1, <1>2

\* The scan's write touches no result.
LEMMA PatchResults ==
    ASSUME NEW s \in Statuses, NEW j \in Jobs
    PROVE  patchBenchmarkStatus(s, j).results = s.results
<1> DEFINE new == [s EXCEPT !.hash = Append(@, j)]
<1>1. new.results = s.results
  BY StatusExcept
<1>2. \A x : [new EXCEPT !.jobCompleted = x].results = new.results
  <2>1. new = [version |-> s.version, hash |-> Append(s.hash, j),
               results |-> s.results, trackedBuilds |-> s.trackedBuilds,
               jobCompleted |-> s.jobCompleted]
    BY StatusExcept
  <2> QED
    BY <2>1
<1> QED
  BY <1>1, <1>2 DEF patchBenchmarkStatus

\* The worker adds a result.
Recorded(s, j) ==
    LET new == [s EXCEPT !.results[j] = GetDetailFromJobName(s, j)]
    IN  [new EXCEPT !.jobCompleted = GetJobCompletedStatus(new)]

LEMMA RecordedExtends ==
    ASSUME NEW s \in Statuses, NEW j \in Jobs
    PROVE  /\ Recorded(s, j) \in Statuses
           /\ Recorded(s, j).version = s.version
           /\ s.results[j] = "none" => Extends(s, Recorded(s, j))
           /\ Filed(s) => Filed(Recorded(s, j))
           /\ Counted(Recorded(s, j))
           /\ \A k \in Jobs \ {j} : Recorded(s, j).results[k] = s.results[k]
<1> DEFINE g == GetDetailFromJobName(s, j)
           r == [s.results EXCEPT ![j] = g]
           new == [s EXCEPT !.results = r]
<1>1. g \in {"own", "empty"} /\ (g = "own" => j \in Range(s.hash))
  BY DEF GetDetailFromJobName
<1> HIDE DEF g
<1>2. /\ r \in [Jobs -> {"none", "own", "empty"}] /\ r[j] = g
      /\ \A k \in Jobs \ {j} : r[k] = s.results[k]
  BY <1>1, StatusFields
<1>3. new = [version |-> s.version, hash |-> s.hash, results |-> r,
             trackedBuilds |-> s.trackedBuilds,
             jobCompleted |-> s.jobCompleted]
  BY StatusExcept
<1>4. [s EXCEPT !.results[j] = g] = new
  OBVIOUS
<1> HIDE DEF r
<1>5. new \in Statuses
  BY <1>2, <1>3, StatusFields, StatusRecord
<1> DEFINE c == GetJobCompletedStatus(new)
           p == [new EXCEPT !.jobCompleted = c]
<1>6. c \in Nat \X Nat
  BY <1>5, CompletedType
<1> HIDE DEF c, new
<1>7. p = [version |-> new.version, hash |-> new.hash,
           results |-> new.results, trackedBuilds |-> new.trackedBuilds,
           jobCompleted |-> c]
  BY <1>5, StatusExcept
<1>8. p \in Statuses
  <2>1. /\ new.version \in Nat /\ new.hash \in Seq(Jobs)
        /\ new.results \in [Jobs -> {"none", "own", "empty"}]
        /\ new.trackedBuilds \in Seq(Builds)
    BY <1>5, StatusFields
  <2> HIDE DEF p
  <2> QED
    BY <2>1, <1>6, <1>7, StatusRecord
<1>9. /\ p.version = s.version /\ p.hash = s.hash /\ p.results = r
      /\ p.trackedBuilds = s.trackedBuilds
  BY <1>3, <1>7
<1>10. Counted(p)
  <2>1. p.results = new.results /\ p.hash = new.hash /\ p.jobCompleted = c
    BY <1>7
  <2> QED
    BY <2>1, CountedSame DEF Counted, c
<1>11. Recorded(s, j) = p
  BY <1>4 DEF Recorded, c, g
<1> HIDE DEF p
<1>12. s.results[j] = "none" => Extends(s, p)
  BY <1>2, <1>8, <1>9, StatusFields, PrefixSelf DEF Extends, Keeps
<1>13. Filed(s) => Filed(p)
  BY <1>1, <1>2, <1>9 DEF Filed
<1> QED
  BY <1>2, <1>8, <1>9, <1>10, <1>11, <1>12, <1>13

\* The build watcher adds a build.
LEMMA BuildExtends ==
    ASSUME NEW s \in Statuses, NEW b \in Builds, NEW p,
           p = [s EXCEPT !.trackedBuilds = Append(@, b)]
    PROVE  /\ Extends(s, p)
           /\ Filed(s) => Filed(p)
           /\ Counted(s) => Counted(p)
<1> DEFINE t == Append(s.trackedBuilds, b)
<1>1. t \in Seq(Builds) /\ IsPrefix(s.trackedBuilds, t)
  BY StatusFields, AppendFacts
<1>2. p = [version |-> s.version, hash |-> s.hash, results |-> s.results,
           trackedBuilds |-> t, jobCompleted |-> s.jobCompleted]
  BY StatusExcept
<1> HIDE DEF t
<1>3. p \in Statuses
  <2>1. /\ s.version \in Nat /\ s.hash \in Seq(Jobs)
        /\ s.results \in [Jobs -> {"none", "own", "empty"}]
        /\ s.jobCompleted \in Nat \X Nat
    BY StatusFields
  <2>2. [version |-> s.version, hash |-> s.hash, results |-> s.results,
         trackedBuilds |-> t, jobCompleted |-> s.jobCompleted] \in Statuses
    BY <2>1, <1>1, StatusRecord
  <2> QED
    BY <2>2, <1>2
<1>4. /\ p.version = s.version /\ p.hash = s.hash /\ p.results = s.results
      /\ p.trackedBuilds = t /\ p.jobCompleted = s.jobCompleted
  BY <1>2
<1>5. Extends(s, p)
  BY <1>1, <1>3, <1>4, StatusFields, PrefixSelf DEF Extends, Keeps
<1>6. Filed(s) => Filed(p)
  BY <1>4 DEF Filed
<1>7. Counted(s) => Counted(p)
  BY <1>4, CountedSame DEF Counted
<1> QED
  BY <1>5, <1>6, <1>7
-----------------------------------------------------------------------------
(***************************************************************************)
(* A write.                                                                *)
(***************************************************************************)

\* A copy is of an earlier version of the status, or is the status.
FreshIn(copy, status) ==
    /\ copy.version <= status.version
    /\ copy.version = status.version => copy = status

\* The copy p made of s is submitted.  If it is accepted, s was the status;
\* either way nothing is lost and every copy taken before stays a copy.
LEMMA UpdateStep ==
    ASSUME api \in Statuses, NEW s \in Statuses, FreshIn(s, api),
           NEW p \in Statuses, p.version = s.version,
           s = api => Extends(s, p), Update(p)
    PROVE  /\ api' \in Statuses /\ Submitted(p) \in Statuses
           /\ FreshIn(Submitted(p), api')
           /\ \A c \in Statuses : FreshIn(c, api) => FreshIn(c, api')
           /\ Keeps(api, api')
           /\ \/ api' = api
              \/ /\ s = api
                 /\ api'.hash = p.hash /\ api'.results = p.results
                 /\ api'.trackedBuilds = p.trackedBuilds
                 /\ api'.jobCompleted = p.jobCompleted
<1>1. /\ api.version \in Nat /\ p.version \in Nat
      /\ \A c \in Statuses : c.version \in Nat
  BY StatusFields
<1>2. CASE Accepts(p)
  <2>1. s = api
    BY <1>2 DEF Accepts, FreshIn
  <2> DEFINE v == api.version + 1
             q == [p EXCEPT !.version = v]
  <2>2. v \in Nat /\ v > api.version
    BY <1>1
  <2> HIDE DEF v
  <2>3. q = [version |-> v, hash |-> p.hash, results |-> p.results,
             trackedBuilds |-> p.trackedBuilds,
             jobCompleted |-> p.jobCompleted]
    BY StatusExcept
  <2>4. api' = q /\ Submitted(p) = q
    BY <1>2 DEF Update, Submitted, v
  <2> HIDE DEF q
  <2>5. /\ q.version = v /\ q.hash = p.hash /\ q.results = p.results
        /\ q.trackedBuilds = p.trackedBuilds
        /\ q.jobCompleted = p.jobCompleted
    BY <2>3
  <2>6. q \in Statuses
    <3>1. /\ p.hash \in Seq(Jobs) /\ p.trackedBuilds \in Seq(Builds)
          /\ p.results \in [Jobs -> {"none", "own", "empty"}]
          /\ p.jobCompleted \in Nat \X Nat
      BY StatusFields
    <3> QED
      BY <3>1, <2>2, <2>3, StatusRecord
  <2>7. FreshIn(q, q)
    BY <2>2, <2>5 DEF FreshIn
  <2>8. \A c \in Statuses : FreshIn(c, api) => FreshIn(c, q)
    BY <1>1, <2>2, <2>5 DEF FreshIn
  <2>9. Keeps(api, q)
    BY <2>1, <2>5 DEF Extends, Keeps
  <2> QED
    BY <2>1, <2>4, <2>5, <2>6, <2>7, <2>8, <2>9
<1>3. CASE ~Accepts(p)
  <2>1. api' = api /\ Submitted(p) = p
    BY <1>3 DEF Update, Submitted
  <2>2. FreshIn(p, api)
    BY <1>1, <1>3 DEF Accepts, FreshIn
  <2>3. Keeps(api, api)
    BY StatusFields, PrefixSelf DEF Keeps
  <2> QED
    BY <2>1, <2>2, <2>3
<1> QED
  BY <1>2, <1>3
-----------------------------------------------------------------------------
(***************************************************************************)
(* The inductive invariant.                                                *)
(***************************************************************************)

\* Every writer's copy is of an earlier version of the status, or is it.
CopiesFresh ==
    /\ FreshIn(cache, api) /\ FreshIn(scan.copy, api)
    /\ FreshIn(worker.copy, api) /\ FreshIn(watcher.copy, api)
    /\ FreshIn(Empty, api)

\* A job in the queue, or in the worker's hands, waits to be collected.
QueuedComplete ==
    /\ \A j \in Range(jobQueue) : jobs[j] = "complete"
    /\ worker.job # None => /\ jobs[worker.job] = "complete"
                            /\ worker.job \notin Range(jobQueue)

\* Only a collected job has a result.
RecordedCollected ==
    \A j \in Jobs : api.results[j] # "none" => jobs[j] = "collected"

IInv == /\ TypeOK /\ CopiesFresh /\ QueuedComplete /\ RecordedCollected
        /\ Filed(api) /\ Counted(api)

\* The parts of the records of the three writers.
LEMMA WriterFields ==
    ASSUME TypeOK
    PROVE  /\ scan.pc \in {"idle", "busy"} /\ scan.copy \in Statuses
           /\ scan.builds \in Seq(Builds \cup {InitBuild})
           /\ scan.b \in Nat \ {0} /\ scan.l \in DOMAIN Labels
           /\ scan.b <= Len(scan.builds) + 1
           /\ scan = [pc |-> scan.pc, copy |-> scan.copy,
                      builds |-> scan.builds, b |-> scan.b, l |-> scan.l]
           /\ worker.job \in Jobs \cup {None} /\ worker.copy \in Statuses
           /\ watcher.build \in Builds \cup {None}
           /\ watcher.copy \in Statuses
  BY DEF TypeOK, Scans, Workers, Watchers

\* Writers at rest.
LEMMA IdleType ==
    /\ IdleScan \in Scans /\ IdleScan.copy = Empty
    /\ IdleScan.b <= Len(IdleScan.builds) + 1
    /\ IdleWorker \in Workers /\ IdleWorker.copy = Empty
    /\ IdleWorker.job = None
    /\ IdleWatcher \in Watchers /\ IdleWatcher.copy = Empty
    /\ IdleWatcher.build = None
<1>1. Empty \in Statuses
  BY EmptyType
<1>2. <<>> \in Seq(Builds \cup {InitBuild}) /\ 1 \in DOMAIN Labels
  <2>1. Labels \in Seq(Range(Labels)) /\ Labels # <<>>
    BY StatusAssumption
  <2> QED
    BY <2>1
<1> QED
  BY <1>1, <1>2 DEF IdleScan, IdleWorker, IdleWatcher, Scans, Workers, Watchers

LEMMA InitIInv == Init => IInv
<1> SUFFICES ASSUME Init
             PROVE  IInv
  OBVIOUS
<1>1. /\ api = Empty /\ cache = Empty /\ scan.copy = Empty
      /\ worker.copy = Empty /\ watcher.copy = Empty
  BY IdleType DEF Init
<1>2. CopiesFresh
  BY <1>1, EmptyType DEF CopiesFresh, FreshIn
<1>3. Range(<<>>) = {} /\ IsInjective(<<>>) /\ <<>> \in Seq(Jobs)
  BY DEF Range, IsInjective
<1>4. TypeOK
  <2>1. api \in Statuses /\ cache \in Statuses
    BY <1>1, EmptyType
  <2>2. /\ scan \in Scans /\ scan.b <= Len(scan.builds) + 1
        /\ worker \in Workers /\ watcher \in Watchers
    BY IdleType DEF Init
  <2>3. jobs \in [Jobs -> {"absent", "active", "complete", "collected"}]
    BY DEF Init
  <2>4. restarts \in 0..MaxRestarts
    BY StatusAssumption DEF Init
  <2>5. jobQueue \in Seq(Jobs) /\ IsInjective(jobQueue)
    BY <1>3 DEF Init
  <2>6. builds \subseteq Builds /\ tracked \in BOOLEAN
    BY DEF Init
  <2> QED
    BY <2>1, <2>2, <2>3, <2>4, <2>5, <2>6 DEF TypeOK
<1>5. QueuedComplete
  BY <1>3, IdleType DEF Init, QueuedComplete
<1>6. \A j \in Jobs : api.results[j] = "none"
  BY <1>1 DEF Empty
<1>7. RecordedCollected /\ Filed(api)
  BY <1>6 DEF RecordedCollected, Filed
<1>8. Counted(api)
  <2> DEFINE D == {j \in Jobs : Empty.results[j] # "none"}
  <2>1. D = {}
    BY <1>1, <1>6
  <2>2. Cardinality(D) = 0
    BY <2>1, FS_EmptySet
  <2>3. Len(Empty.hash) = 0 /\ Empty.jobCompleted = <<0, 0>>
    BY DEF Empty
  <2>4. GetJobCompletedStatus(Empty) = <<Cardinality(D), Len(Empty.hash)>>
    BY DEF GetJobCompletedStatus
  <2> HIDE DEF D
  <2> QED
    BY <1>1, <2>2, <2>3, <2>4 DEF Counted
<1> QED
  BY <1>2, <1>4, <1>5, <1>7, <1>8 DEF IInv

-----------------------------------------------------------------------------
(***************************************************************************)
(* One lemma for each action.                                              *)
(***************************************************************************)

LEMMA ScanStartStep == IInv /\ ScanStart => IInv'
<1> SUFFICES ASSUME IInv, ScanStart
             PROVE  IInv'
  OBVIOUS
<1>1. TypeOK /\ cache \in Statuses
  BY DEF IInv, TypeOK
<1>2. BuildsOf(cache) \in Seq(Builds \cup {InitBuild})
  <2>1. cache.trackedBuilds \in Seq(Builds)
    BY <1>1, StatusFields
  <2>2. cache.trackedBuilds \in Seq(Builds \cup {InitBuild})
    BY <2>1
  <2>3. <<InitBuild>> \in Seq(Builds \cup {InitBuild})
    OBVIOUS
  <2> QED
    BY <2>2, <2>3 DEF BuildsOf
<1>3. 1 \in DOMAIN Labels
  <2>1. Labels \in Seq(Range(Labels)) /\ Labels # <<>>
    BY StatusAssumption
  <2> QED
    BY <2>1
<1> DEFINE bs == BuildsOf(cache)
<1> HIDE DEF bs
<1>4. scan' = [pc |-> "busy", copy |-> cache, builds |-> bs,
               b |-> 1, l |-> 1]
  BY DEF ScanStart, bs
<1>5. scan' \in Scans /\ scan'.copy = cache
      /\ scan'.b <= Len(scan'.builds) + 1
  BY <1>1, <1>2, <1>3, <1>4 DEF Scans, bs
<1>6. TypeOK'
  BY <1>1, <1>5 DEF ScanStart, TypeOK
<1>7. CopiesFresh'
  BY <1>5 DEF IInv, CopiesFresh, FreshIn, ScanStart
<1> QED
  BY <1>6, <1>7 DEF IInv, ScanStart, QueuedComplete, RecordedCollected

LEMMA NewTrackerStep == IInv /\ NewTracker => IInv'
<1> SUFFICES ASSUME IInv, NewTracker
             PROVE  IInv'
  OBVIOUS
<1>1. TypeOK
  BY DEF IInv
<1>2. PICK c, bs, b, l : /\ c = scan.copy /\ bs = scan.builds
                         /\ b = scan.b /\ l = scan.l
  OBVIOUS
<1>3. scan = [pc |-> scan.pc, copy |-> c, builds |-> bs, b |-> b, l |-> l]
  BY <1>1, <1>2, WriterFields
<1>4. scan' = [pc |-> "idle", copy |-> c, builds |-> bs, b |-> b, l |-> l]
  BY <1>3 DEF NewTracker
<1>5. scan' \in Scans /\ scan'.copy = scan.copy
      /\ scan'.b <= Len(scan'.builds) + 1
  BY <1>1, <1>2, <1>4, WriterFields DEF Scans
<1>6. TypeOK'
  BY <1>1, <1>5 DEF NewTracker, TypeOK
<1>7. CopiesFresh'
  BY <1>5 DEF IInv, CopiesFresh, FreshIn, NewTracker
<1> QED
  BY <1>6, <1>7 DEF IInv, NewTracker, QueuedComplete, RecordedCollected

\* A completed job is queued, if it is, for the first time.
LEMMA JobCompletesStep ==
    ASSUME NEW j \in Jobs
    PROVE  IInv /\ JobCompletes(j) => IInv'
<1> SUFFICES ASSUME IInv, JobCompletes(j)
             PROVE  IInv'
  OBVIOUS
<1>1. /\ TypeOK /\ jobQueue \in Seq(Jobs) /\ IsInjective(jobQueue)
      /\ jobs \in [Jobs -> {"absent", "active", "complete", "collected"}]
  BY DEF IInv, TypeOK
<1>2. jobs[j] = "active" /\ jobs' = [jobs EXCEPT ![j] = "complete"]
  BY DEF JobCompletes
<1>3. /\ jobs' \in [Jobs -> {"absent", "active", "complete", "collected"}]
      /\ jobs'[j] = "complete" /\ \A k \in Jobs \ {j} : jobs'[k] = jobs[k]
  BY <1>1, <1>2
<1>4. j \notin Range(jobQueue) /\ worker.job # j
  BY <1>2, StatusAssumption DEF IInv, QueuedComplete
<1>5. jobQueue' = jobQueue \/ jobQueue' = Append(jobQueue, j)
  BY DEF JobCompletes
<1>6. /\ jobQueue' \in Seq(Jobs) /\ IsInjective(jobQueue')
      /\ Range(jobQueue') \subseteq Range(jobQueue) \cup {j}
  <2>1. CASE jobQueue' = jobQueue
    BY <2>1, <1>1
  <2>2. CASE jobQueue' = Append(jobQueue, j)
    BY <2>2, <1>1, <1>4, AppendFacts, AppendNew
  <2> QED
    BY <1>5, <2>1, <2>2
<1>7. TypeOK'
  BY <1>1, <1>3, <1>6 DEF JobCompletes, TypeOK
<1>8. CopiesFresh' /\ Filed(api)' /\ Counted(api)'
  BY DEF IInv, CopiesFresh, FreshIn, JobCompletes
<1>9. Range(jobQueue) \subseteq Jobs
  BY <1>1 DEF Range
<1>10. QueuedComplete'
  BY <1>1, <1>3, <1>4, <1>6, <1>9, WriterFields
     DEF IInv, QueuedComplete, JobCompletes
<1>11. RecordedCollected'
  BY <1>2, <1>3 DEF IInv, RecordedCollected, JobCompletes
<1> QED
  BY <1>7, <1>8, <1>10, <1>11 DEF IInv

LEMMA WorkerTakeStep == IInv /\ WorkerTake => IInv'
<1> SUFFICES ASSUME IInv, WorkerTake
             PROVE  IInv'
  OBVIOUS
<1>1. /\ TypeOK /\ jobQueue \in Seq(Jobs) /\ IsInjective(jobQueue)
      /\ jobQueue # <<>> /\ cache \in Statuses
  BY DEF IInv, TypeOK, WorkerTake
<1> DEFINE j == Head(jobQueue)
<1>2. /\ j \in Jobs /\ j \in Range(jobQueue) /\ Tail(jobQueue) \in Seq(Jobs)
      /\ Range(Tail(jobQueue)) \subseteq Range(jobQueue)
      /\ IsInjective(Tail(jobQueue)) /\ j \notin Range(Tail(jobQueue))
  BY <1>1, TailFacts
<1>3. worker' = [job |-> j, copy |-> cache] /\ jobQueue' = Tail(jobQueue)
  BY DEF WorkerTake
<1> HIDE DEF j
<1>4. worker' \in Workers /\ worker'.job = j /\ worker'.copy = cache
  BY <1>1, <1>2, <1>3 DEF Workers
<1>5. TypeOK'
  BY <1>1, <1>2, <1>3, <1>4 DEF WorkerTake, TypeOK
<1>6. CopiesFresh'
  BY <1>4 DEF IInv, CopiesFresh, FreshIn, WorkerTake
<1>7. QueuedComplete'
  BY <1>2, <1>3, <1>4 DEF IInv, QueuedComplete, WorkerTake
<1> QED
  BY <1>5, <1>6, <1>7 DEF IInv, WorkerTake, RecordedCollected

LEMMA BuildTakeStep ==
    ASSUME NEW b \in Builds
    PROVE  IInv /\ BuildTake(b) => IInv'
<1> SUFFICES ASSUME IInv, BuildTake(b)
             PROVE  IInv'
  OBVIOUS
<1>1. TypeOK /\ cache \in Statuses
  BY DEF IInv, TypeOK
<1>2. watcher' = [build |-> b, copy |-> cache]
  BY DEF BuildTake
<1>3. watcher' \in Watchers /\ watcher'.copy = cache
  BY <1>1, <1>2 DEF Watchers
<1>4. TypeOK'
  BY <1>1, <1>3 DEF BuildTake, TypeOK
<1>5. CopiesFresh'
  BY <1>3 DEF IInv, CopiesFresh, FreshIn, BuildTake
<1> QED
  BY <1>4, <1>5 DEF IInv, BuildTake, QueuedComplete, RecordedCollected

LEMMA CacheSyncStep == IInv /\ CacheSync => IInv'
<1> SUFFICES ASSUME IInv, CacheSync
             PROVE  IInv'
  OBVIOUS
<1>1. TypeOK'
  BY DEF IInv, TypeOK, CacheSync, processes
<1>2. CopiesFresh'
  <2>1. api.version \in Nat
    BY StatusFields DEF IInv, TypeOK
  <2> QED
    BY <2>1 DEF IInv, CopiesFresh, FreshIn, CacheSync, processes
<1> QED
  BY <1>1, <1>2
     DEF IInv, CacheSync, processes, QueuedComplete, RecordedCollected

\* A new process starts from copies of the benchmark as it was created.
LEMMA RestartStep == IInv /\ Restart => IInv'
<1> SUFFICES ASSUME IInv, Restart
             PROVE  IInv'
  OBVIOUS
<1>1. Range(<<>>) = {} /\ IsInjective(<<>>) /\ <<>> \in Seq(Jobs)
  BY DEF Range, IsInjective
<1>2. restarts' \in 0..MaxRestarts
  BY StatusAssumption DEF IInv, TypeOK, Restart
<1>3. TypeOK'
  <2>1. /\ scan' \in Scans /\ scan'.b <= Len(scan'.builds) + 1
        /\ worker' \in Workers /\ watcher' \in Watchers
    BY IdleType DEF Restart
  <2>2. jobQueue' \in Seq(Jobs) /\ IsInjective(jobQueue')
    BY <1>1 DEF Restart
  <2> QED
    BY <1>2, <2>1, <2>2 DEF IInv, TypeOK, Restart
<1>4. CopiesFresh'
  <2>1. api.version \in Nat
    BY StatusFields DEF IInv, TypeOK
  <2> QED
    BY <2>1, IdleType DEF IInv, CopiesFresh, FreshIn, Restart
<1>5. QueuedComplete'
  BY <1>1, IdleType DEF QueuedComplete, Restart
<1> QED
  BY <1>3, <1>4, <1>5 DEF IInv, Restart, RecordedCollected

\* What a write leaves in the status is filed and counted if the copy was.
LEMMA WriteCorrect ==
    ASSUME NEW s, NEW p,
           Filed(api), Counted(api),
           s = api => (Filed(s) => Filed(p)) /\ (Counted(s) => Counted(p)),
           \/ api' = api
           \/ /\ s = api
              /\ api'.hash = p.hash /\ api'.results = p.results
              /\ api'.trackedBuilds = p.trackedBuilds
              /\ api'.jobCompleted = p.jobCompleted
    PROVE  Filed(api)' /\ Counted(api)'
<1>1. CASE api' = api
  BY <1>1 DEF Filed, Counted, GetJobCompletedStatus
<1>2. CASE /\ s = api
           /\ api'.hash = p.hash /\ api'.results = p.results
           /\ api'.jobCompleted = p.jobCompleted
  <2>1. Filed(p) /\ Counted(p)
    BY <1>2
  <2>2. Filed(api)'
    BY <1>2, <2>1 DEF Filed
  <2>3. Counted(api)'
    BY <1>2, <2>1 DEF Counted, GetJobCompletedStatus
  <2> QED
    BY <2>2, <2>3
<1> QED
  BY <1>1, <1>2

\* The scan's write, and whether it creates the job.
LEMMA ScanJobStep == IInv /\ ScanJob => IInv' /\ Keeps(api, api')
<1> SUFFICES ASSUME IInv, ScanJob
             PROVE  IInv' /\ Keeps(api, api')
  OBVIOUS
<1>1. /\ TypeOK /\ api \in Statuses /\ FreshIn(scan.copy, api)
      /\ jobs \in [Jobs -> {"absent", "active", "complete", "collected"}]
      /\ Filed(api) /\ Counted(api)
  BY DEF IInv, TypeOK, CopiesFresh
<1> DEFINE s == scan.copy
           bs == scan.builds
           b == scan.b
           l == scan.l
           j == <<Labels[l], bs[b]>>
           p == patchBenchmarkStatus(s, j)
           last == l = Len(Labels)
           listed == j \in Range(s.hash)
           c == IF listed THEN s ELSE Submitted(p)
           nb == IF last THEN b + 1 ELSE b
           nl == IF last THEN 1 ELSE l + 1
<1>2. /\ s \in Statuses /\ bs \in Seq(Builds \cup {InitBuild})
      /\ b \in Nat \ {0} /\ l \in DOMAIN Labels /\ b <= Len(bs)
      /\ scan.pc = "busy"
      /\ scan = [pc |-> "busy", copy |-> s, builds |-> bs, b |-> b, l |-> l]
  BY <1>1, WriterFields DEF ScanJob
<1>3. /\ scan' = [scan EXCEPT !.copy = c, !.b = nb, !.l = nl]
      /\ IF listed THEN api' = api ELSE Update(p)
      /\ jobs' = IF s.results[j] = "none" /\ jobs[j] = "absent"
                 THEN [jobs EXCEPT ![j] = "active"] ELSE jobs
      /\ UNCHANGED <<cache, builds, tracked, jobQueue, worker, watcher,
                     restarts>>
  BY DEF ScanJob
<1>4. j \in Jobs
  <2>1. Labels[l] \in Range(Labels)
    BY <1>2 DEF Range
  <2>2. bs[b] \in Builds \cup {InitBuild}
    BY <1>2
  <2> QED
    BY <2>1, <2>2 DEF Jobs
<1>5. nb \in Nat \ {0} /\ nl \in DOMAIN Labels /\ nb <= Len(bs) + 1
  <2>1. Labels \in Seq(Range(Labels)) /\ Labels # <<>>
    BY StatusAssumption
  <2>2. DOMAIN Labels = 1..Len(Labels) /\ Len(Labels) \in Nat \ {0}
    BY <2>1
  <2>3. Len(bs) \in Nat
    BY <1>2
  <2> QED
    BY <1>2, <2>2, <2>3
<1> HIDE DEF j, p, s, nb, nl, bs, b, l
<1>6. /\ Extends(s, p) /\ p \in Statuses /\ p.version = s.version
      /\ Filed(s) => Filed(p)
      /\ Counted(s) => Counted(p)
  BY <1>2, <1>4, PatchExtends DEF Extends, p
<1>7. FreshIn(s, api)
  BY <1>1 DEF s
<1>8. /\ api' \in Statuses /\ c \in Statuses /\ FreshIn(c, api')
      /\ \A d \in Statuses : FreshIn(d, api) => FreshIn(d, api')
      /\ Keeps(api, api') /\ Filed(api)' /\ Counted(api)'
      /\ \A k \in Jobs : api'.results[k] = api.results[k]
  <2>1. CASE listed
    <3>1. api' = api /\ c = s
      BY <1>3, <2>1
    <3>2. Keeps(api, api)
      BY <1>1, StatusFields, PrefixSelf DEF Keeps
    <3>3. Filed(api)' /\ Counted(api)'
      BY <3>1, <1>1 DEF Filed, Counted, GetJobCompletedStatus
    <3> HIDE DEF c
    <3> QED
      BY <3>1, <3>2, <3>3, <1>1, <1>2, <1>7
  <2>2. CASE ~listed
    <3>1. Update(p) /\ c = Submitted(p)
      BY <1>3, <2>2
    <3> HIDE DEF c, listed
    <3>2. /\ api' \in Statuses /\ Submitted(p) \in Statuses
          /\ FreshIn(Submitted(p), api')
          /\ \A d \in Statuses : FreshIn(d, api) => FreshIn(d, api')
          /\ Keeps(api, api')
          /\ \/ api' = api
             \/ /\ s = api
                /\ api'.hash = p.hash /\ api'.results = p.results
                /\ api'.trackedBuilds = p.trackedBuilds
                /\ api'.jobCompleted = p.jobCompleted
      BY <1>1, <1>2, <1>6, <1>7, <3>1, UpdateStep
    <3>3. Filed(api)' /\ Counted(api)'
      BY <1>1, <1>6, <3>2, WriteCorrect
    <3>4. p.results = s.results
      BY <1>2, <1>4, PatchResults DEF p
    <3>5. \A k \in Jobs : api'.results[k] = api.results[k]
      BY <3>2, <3>4
    <3> QED
      BY <3>1, <3>2, <3>3, <3>5
  <2> QED
    BY <2>1, <2>2
<1>9. scan' = [pc |-> "busy", copy |-> c, builds |-> bs, b |-> nb, l |-> nl]
  <2> HIDE DEF c
  <2> QED
    BY <1>2, <1>3
<1> HIDE DEF c, listed
<1>10. scan' \in Scans /\ scan'.copy = c /\ scan'.b <= Len(scan'.builds) + 1
  BY <1>2, <1>5, <1>8, <1>9 DEF Scans
<1>11. /\ jobs' \in [Jobs -> {"absent", "active", "complete", "collected"}]
       /\ \A k \in Jobs : jobs[k] # "absent" => jobs'[k] = jobs[k]
  BY <1>1, <1>3, <1>4
<1>12. TypeOK'
  BY <1>1, <1>3, <1>8, <1>10, <1>11 DEF TypeOK
<1>13. CopiesFresh'
  <2>1. /\ cache \in Statuses /\ worker.copy \in Statuses
        /\ watcher.copy \in Statuses /\ Empty \in Statuses
    BY <1>1, WriterFields, EmptyType DEF TypeOK
  <2> QED
    BY <2>1, <1>3, <1>8, <1>10 DEF IInv, CopiesFresh
<1>14. QueuedComplete'
  <2>1. Range(jobQueue) \subseteq Jobs
    BY <1>1 DEF TypeOK, Range
  <2> QED
    BY <2>1, <1>1, <1>3, <1>11, WriterFields DEF IInv, QueuedComplete
<1>15. RecordedCollected'
  BY <1>8, <1>11 DEF IInv, RecordedCollected
<1> QED
  BY <1>8, <1>12, <1>13, <1>14, <1>15 DEF IInv

\* The worker's write.  The job it holds has no result yet, whatever its copy
\* is of.
LEMMA UpdateBenchmarkStatusStep ==
    IInv /\ updateBenchmarkStatus => IInv' /\ Keeps(api, api')
<1> SUFFICES ASSUME IInv, updateBenchmarkStatus
             PROVE  IInv' /\ Keeps(api, api')
  OBVIOUS
<1>1. /\ TypeOK /\ api \in Statuses /\ FreshIn(worker.copy, api)
      /\ jobs \in [Jobs -> {"absent", "active", "complete", "collected"}]
      /\ Filed(api) /\ Counted(api)
  BY DEF IInv, TypeOK, CopiesFresh
<1> DEFINE s == worker.copy
           j == worker.job
           p == Recorded(s, j)
<1>2. /\ s \in Statuses /\ j \in Jobs
      /\ jobs[j] = "complete" /\ j \notin Range(jobQueue)
  BY <1>1, WriterFields DEF updateBenchmarkStatus, IInv, QueuedComplete
<1>3. /\ Update(p) /\ worker' = IdleWorker
      /\ jobs' = [jobs EXCEPT ![j] = "collected"]
      /\ UNCHANGED <<cache, builds, tracked, scan, jobQueue, watcher,
                     restarts>>
  BY DEF updateBenchmarkStatus, Recorded
<1> HIDE DEF s, j
<1>4. /\ p \in Statuses /\ p.version = s.version
      /\ s.results[j] = "none" => Extends(s, p)
      /\ Filed(s) => Filed(p)
      /\ Counted(p)
      /\ \A k \in Jobs \ {j} : p.results[k] = s.results[k]
  BY <1>2, RecordedExtends
<1> HIDE DEF p
<1>5. api.results[j] = "none"
  BY <1>2 DEF IInv, RecordedCollected
<1>6. FreshIn(s, api)
  BY <1>1 DEF s
<1>7. /\ api' \in Statuses
      /\ \A d \in Statuses : FreshIn(d, api) => FreshIn(d, api')
      /\ Keeps(api, api')
      /\ \/ api' = api
         \/ /\ s = api
            /\ api'.hash = p.hash /\ api'.results = p.results
            /\ api'.trackedBuilds = p.trackedBuilds
            /\ api'.jobCompleted = p.jobCompleted
  BY <1>1, <1>2, <1>3, <1>4, <1>5, <1>6, UpdateStep
<1>8. Filed(api)' /\ Counted(api)'
  BY <1>1, <1>4, <1>7, WriteCorrect
<1>9. \A k \in Jobs \ {j} : api'.results[k] = api.results[k]
  BY <1>4, <1>7
<1>10. /\ jobs' \in [Jobs -> {"absent", "active", "complete", "collected"}]
       /\ jobs'[j] = "collected"
       /\ \A k \in Jobs \ {j} : jobs'[k] = jobs[k]
  BY <1>1, <1>2, <1>3
<1>11. TypeOK'
  BY <1>1, <1>3, <1>7, <1>10, IdleType DEF TypeOK
<1>12. CopiesFresh'
  <2>1. /\ cache \in Statuses /\ scan.copy \in Statuses
        /\ watcher.copy \in Statuses /\ Empty \in Statuses
    BY <1>1, WriterFields, EmptyType DEF TypeOK
  <2> QED
    BY <2>1, <1>3, <1>7, IdleType DEF IInv, CopiesFresh
<1>13. QueuedComplete'
  <2>1. Range(jobQueue) \subseteq Jobs
    BY <1>1 DEF TypeOK, Range
  <2> QED
    BY <2>1, <1>2, <1>3, <1>10, IdleType DEF IInv, QueuedComplete
<1>14. RecordedCollected'
  BY <1>9, <1>10 DEF IInv, RecordedCollected
<1> QED
  BY <1>7, <1>8, <1>11, <1>12, <1>13, <1>14 DEF IInv

\* The build watcher's write.
LEMMA ProcessBuildQueueStep ==
    IInv /\ ProcessBuildQueue => IInv' /\ Keeps(api, api')
<1> SUFFICES ASSUME IInv, ProcessBuildQueue
             PROVE  IInv' /\ Keeps(api, api')
  OBVIOUS
<1>1. /\ TypeOK /\ api \in Statuses /\ FreshIn(watcher.copy, api)
      /\ Filed(api) /\ Counted(api)
  BY DEF IInv, TypeOK, CopiesFresh
<1> DEFINE s == watcher.copy
           p == [s EXCEPT !.trackedBuilds = Append(@, watcher.build)]
<1>2. s \in Statuses /\ watcher.build \in Builds
  BY <1>1, WriterFields DEF ProcessBuildQueue
<1>3. /\ Update(p) /\ watcher' = IdleWatcher
      /\ UNCHANGED <<cache, jobs, builds, tracked, scan, jobQueue, worker,
                     restarts>>
  BY DEF ProcessBuildQueue
<1> HIDE DEF s
<1>4. /\ Extends(s, p) /\ p \in Statuses /\ p.version = s.version
      /\ Filed(s) => Filed(p)
      /\ Counted(s) => Counted(p)
  BY <1>2, BuildExtends DEF Extends
<1>5. p.results = s.results
  BY <1>2, StatusExcept
<1> HIDE DEF p
<1>6. FreshIn(s, api)
  BY <1>1 DEF s
<1>7. /\ api' \in Statuses
      /\ \A d \in Statuses : FreshIn(d, api) => FreshIn(d, api')
      /\ Keeps(api, api')
      /\ \/ api' = api
         \/ /\ s = api
            /\ api'.hash = p.hash /\ api'.results = p.results
            /\ api'.trackedBuilds = p.trackedBuilds
            /\ api'.jobCompleted = p.jobCompleted
  BY <1>1, <1>2, <1>3, <1>4, <1>6, UpdateStep
<1>8. Filed(api)' /\ Counted(api)'
  BY <1>1, <1>4, <1>7, WriteCorrect
<1>9. TypeOK'
  BY <1>1, <1>3, <1>7, IdleType DEF TypeOK
<1>10. CopiesFresh'
  <2>1. /\ cache \in Statuses /\ scan.copy \in Statuses
        /\ worker.copy \in Statuses /\ Empty \in Statuses
    BY <1>1, WriterFields, EmptyType DEF TypeOK
  <2> QED
    BY <2>1, <1>3, <1>7, IdleType DEF IInv, CopiesFresh
<1>11. RecordedCollected'
  BY <1>3, <1>5, <1>7 DEF IInv, RecordedCollected
<1> QED
  BY <1>3, <1>7, <1>8, <1>9, <1>10, <1>11 DEF IInv, QueuedComplete

\* Whatever happens, the invariant is kept and nothing is lost.
LEMMA StepIInv == IInv /\ [Next]_vars => IInv' /\ Keeps(api, api')
<1> SUFFICES ASSUME IInv, [Next]_vars
             PROVE  IInv' /\ Keeps(api, api')
  OBVIOUS
<1>1. Keeps(api, api)
  <2>1. api \in Statuses
    BY DEF IInv, TypeOK
  <2> QED
    BY <2>1, StatusFields, PrefixSelf DEF Keeps
<1>2. CASE ScanStart
  BY <1>1, <1>2, ScanStartStep DEF ScanStart
<1>3. CASE ScanJob
  BY <1>3, ScanJobStep
<1>4. CASE NewTracker
  BY <1>1, <1>4, NewTrackerStep DEF NewTracker
<1>5. ASSUME NEW j \in Jobs, JobCompletes(j)
      PROVE  IInv' /\ Keeps(api, api')
  BY <1>1, <1>5, JobCompletesStep DEF JobCompletes
<1>6. CASE WorkerTake
  BY <1>1, <1>6, WorkerTakeStep DEF WorkerTake
<1>7. CASE updateBenchmarkStatus
  BY <1>7, UpdateBenchmarkStatusStep
<1>8. ASSUME NEW b \in Builds, BuildTake(b)
      PROVE  IInv' /\ Keeps(api, api')
  BY <1>1, <1>8, BuildTakeStep DEF BuildTake
<1>9. CASE ProcessBuildQueue
  BY <1>9, ProcessBuildQueueStep
<1>10. CASE CacheSync
  BY <1>1, <1>10, CacheSyncStep DEF CacheSync
<1>11. CASE Restart
  BY <1>1, <1>11, RestartStep DEF Restart
<1>12. CASE UNCHANGED vars
  BY <1>1, <1>12
     DEF IInv, TypeOK, CopiesFresh, FreshIn, QueuedComplete,
         RecordedCollected, Filed, Counted, GetJobCompletedStatus, vars,
         processes
<1> QED
  BY <1>2, <1>3, <1>4, <1>5, <1>6, <1>7, <1>8, <1>9, <1>10, <1>11, <1>12
     DEF Next

-----------------------------------------------------------------------------
(***************************************************************************)
(* Theorems.                                                               *)
(***************************************************************************)

\* The three writers keep copies of earlier versions of the status, or of the
\* status itself, whatever is restarted (Accepts, and the caches it protects).
THEOREM Invariance == Spec => []IInv
<1>1. Init => IInv
  BY InitIInv
<1>2. IInv /\ [Next]_vars => IInv'
  BY StepIInv
<1> QED
  BY <1>1, <1>2, PTL DEF Spec

\* Every variable stays in its type, and no job is queued twice.
THEOREM TypeCorrect == Spec => []TypeOK
<1>1. IInv => TypeOK
  BY DEF IInv
<1> QED
  BY <1>1, Invariance, PTL

\* A result filed under its scenario and build belongs to a job whose hash the
\* status lists (GetDetailFromJobName, patchBenchmarkStatus).
THEOREM ResultsAreListed == Spec => []FiledIsListed
<1>1. IInv => FiledIsListed
  BY DEF IInv, Filed, FiledIsListed
<1> QED
  BY <1>1, Invariance, PTL

\* The count shown is that of the results and the hashes shown with it, in
\* every version of the status (GetJobCompletedStatus).
THEOREM CountAgrees == Spec => []CompletedAgrees
<1>1. IInv => CompletedAgrees
  BY DEF IInv, Counted, CompletedAgrees
<1> QED
  BY <1>1, Invariance, PTL

\* No writer takes a hash, a result or a build out of the status, however old
\* the copy it works on (the optimistic concurrency of Status().Update).
THEOREM NothingIsForgotten == Spec => NothingForgotten
<1> DEFINE A == /\ IsPrefix(api.hash, api'.hash)
                /\ IsPrefix(api.trackedBuilds, api'.trackedBuilds)
                /\ \A j \in Jobs : api.results[j] # "none" =>
                                       api'.results[j] = api.results[j]
<1>1. IInv /\ [Next]_vars => [A]_vars
  BY StepIInv DEF Keeps
<1> QED
  BY <1>1, Invariance, PTL DEF Spec, NothingForgotten
=============================================================================
