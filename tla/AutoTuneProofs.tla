--------------------------- MODULE AutoTuneProofs ---------------------------
(***************************************************************************)
(* Theorems about AutoTune, for any jobs, rounds, values and sizes of the  *)
(* channels, under each kind of fault.                                     *)
(***************************************************************************)
EXTENDS AutoTune, FiniteSetTheorems, SequenceTheorems, TLAPS

-----------------------------------------------------------------------------
(***************************************************************************)
(* The inductive invariant.                                                *)
(***************************************************************************)

\* What the process before has left running, if anything, is the first job of
\* the scan, and is not tuned: its turn is then the one that the scan would
\* give away.
FirstRuns == \A j \in Running : j = Scanned[1] /\ j \notin Tuned

Creating   == {"create", "take", "apply"}
Collecting == {"collect", "send", "record", "deploy", "pop"}

\* The scan is under way, perhaps inside CreateIfNotExists.
InScan == \/ thread.pc = "scan"
          \/ thread.pc \in Creating /\ thread.from = "scan"

\* The thread has a job in its hands.
Busy == thread.pc \in Creating \cup Collecting

\* The kind of the thread's steps fits the job it has.
ThreadOK ==
    /\ Busy => thread.job \in Jobs
    /\ thread.pc \in {"take", "apply", "send"} => thread.job \in Tuned
    /\ thread.pc \in {"create", "take"} =>
         thread.job \notin Tuned \cap applied
    /\ thread.pc \in Creating /\ thread.from = "retune" => thread.job \in Tuned

\* At most one job of the benchmark has the turn: it runs, its completion is
\* queued, or the thread has it in its hands.
TurnOK ==
    /\ \A j, k \in Jobs : jobs[j] = "active" /\ jobs[k] = "active" => j = k
    /\ jobQueue # <<>> => \A j \in Jobs : jobs[j] # "active"
    /\ Len(jobQueue) <= 1
    /\ Busy => /\ jobQueue = <<>>
               /\ \A j \in Jobs : jobs[j] = "active" =>
                    /\ thread.pc = "create" /\ InScan
                    /\ j = thread.job /\ j \notin Tuned
    /\ thread.pc = "scan" => \A j \in Jobs : jobs[j] = "active" =>
         j = Scanned[1] /\ (thread.i = 1 => j \notin Tuned)

\* The scan gives the turn to its first job; before it ends nothing has been
\* measured or stored in the maps.
ScanOK ==
    /\ thread.pc = "scan" => /\ thread.isNew <=> thread.i > 1
                             /\ thread.from = "scan"
    /\ InScan => /\ jobQueue = <<>> /\ jobOptMap = {}
                 /\ thread.dr
                 /\ \A j \in Jobs : /\ results[j] = None /\ bestPod[j] = None
                                    /\ measured[j] = {}
                                    /\ jobs[j] # "complete"
    /\ thread.pc \in Creating /\ InScan =>
         /\ thread.i = 1 /\ Len(Scanned) >= 1
         /\ thread.job = Scanned[1] /\ waiting = <<>>
    /\ ~InScan => thread.i = Len(Scanned) + 1
    /\ \A n \in 1..Len(Scanned) :
         IF n > thread.i \/ (n = thread.i /\ thread.pc = "scan")
         THEN opt[Scanned[n]] = Unborn
         ELSE opt[Scanned[n]].pc # "unborn"

\* A job that waits has not been touched since it was scanned.
WaitOK ==
    /\ \A m, n \in 1..Len(waiting) : waiting[m] = waiting[n] => m = n
    /\ \A m \in 1..Len(waiting) :
         /\ jobs[waiting[m]] = "absent"
         /\ waiting[m] \notin Tuned \cap applied
         /\ Busy => thread.job # waiting[m]
         /\ jobQueue # <<>> => jobQueue[1][1] # waiting[m]
         /\ ~InScan => waiting[m] \in jobOptMap
    /\ thread.pc = "scan" =>
         /\ \A m \in 1..Len(waiting) :
              \E n \in 2..(thread.i - 1) : waiting[m] = Scanned[n]
         /\ thread.i > 2 => waiting # <<>>
    /\ Len(Scanned) > 1 /\ ~InScan => Jobs \ jobOptMap \subseteq applied

\* j runs, or its completion is queued, or the thread is busy with it.
Holding(j) == \/ jobs[j] = "active"
              \/ jobQueue # <<>> /\ jobQueue[1][1] = j
              \/ Busy /\ thread.job = j

\* The maps have what the job with the turn, and those that wait, need.
KeyOK ==
    /\ ~InScan /\ ~(thread.pc \in Creating /\ thread.from = "deploy") =>
         (waitingKey <=> waiting # <<>>)
    /\ ~InScan /\ waiting # <<>> => drKey
    /\ ~InScan => \A j \in jobOptMap \ applied : Holding(j) => drKey
    /\ thread.pc \in Creating => thread.dr
    /\ thread.pc = "deploy" /\ thread.job \in jobOptMap \ applied => thread.dr
    /\ thread.pc \in {"deploy", "pop"} /\ waiting # <<>> => thread.dr

\* The round of j that the worker or the cluster has in its hands.
Held(j) ==
    \/ thread.pc = "apply" /\ thread.job = j
    \/ jobs[j] = "active"
    \/ jobQueue # <<>> /\ jobQueue[1][1] = j
    \/ thread.pc \in {"collect", "send"} /\ thread.job = j

\* ... is round r, whose value, once there is one, was measured under r.
HeldRound(j, r) ==
    /\ thread.pc = "apply" /\ thread.job = j => thread.profile = r
    /\ jobs[j] = "active" => profile[j] = r
    /\ jobQueue # <<>> /\ jobQueue[1][1] = j =>
         <<r, jobQueue[1][2]>> \in measured[j]
    /\ thread.pc \in {"collect", "send"} /\ thread.job = j =>
         <<r, thread.value>> \in measured[j]

\* What may keep the rounds of an optimizer from being measured.
Stuck == Len(Scanned) <= 1 \/ fault \in {"profile", "create"}

NoSample(j) == opt[j].SampleQueue = <<>>
NoResult(j) == opt[j].ResultQueue = <<>>

\* The rounds of j in its channels, and the one in somebody's hands.
InHand(j) == IF Held(j) THEN 1 ELSE 0
InFlight(j) ==
    Len(opt[j].ResultQueue) + InHand(j) + Len(opt[j].SampleQueue)

\* Every result that waits for the optimizer is of a run under its profile.
Received(j) == \A i \in 1..Len(opt[j].ResultQueue) :
    <<opt[j].submitted[i], opt[j].ResultQueue[i]>> \in measured[j]

\* The profiles sent are, in their order, those of the results that wait, that
\* of the round in somebody's hands, and those that have not been taken.
Whole(j) ==
    /\ InFlight(j) = Len(opt[j].submitted)
    /\ Held(j) => HeldRound(j, opt[j].submitted[Len(opt[j].ResultQueue) + 1])
    /\ \A i \in 1..Len(opt[j].SampleQueue) :
         opt[j].SampleQueue[i] =
           opt[j].submitted[Len(opt[j].ResultQueue) + InHand(j) + i]

\* A round of j is lost, and j is never run again.
Over(j) ==
    /\ Stuck /\ ~Held(j)
    /\ \A m \in 1..Len(waiting) : waiting[m] # j
    /\ thread.job = j =>
         /\ thread.pc \notin Creating \cup {"collect", "send"}
         /\ thread.pc \in {"record", "deploy"} => j \notin jobOptMap

\* The state of the optimizer of j.
RoundOK(j) ==
    /\ IsFiniteSet(opt[j].awaiting) /\ opt[j].awaiting \subseteq 1..opt[j].round
    /\ Cardinality(opt[j].awaiting) = Len(opt[j].submitted)
    /\ opt[j].pc = "tune" =>
         /\ InFlight(j) <= Len(opt[j].submitted)
         /\ fault # "nosend" => Received(j) /\ (Whole(j) \/ Over(j))
    /\ opt[j].pc # "tune" => NoSample(j) /\ NoResult(j)
    /\ opt[j].pc = "unborn" => ~Held(j)
    /\ thread.pc = "send" /\ thread.job = j => opt[j].pc = "tune"
    /\ j \in applied => SampleClosed(j)

\* A job that is not tuned has an optimizer that is closed from the start.
UntunedOK == \A j \in Jobs \ Tuned :
    opt[j].pc # "unborn" => opt[j].pc = "closed" /\ j \in applied

RoundsOK == \A j \in Tuned : RoundOK(j)

\* The worker is about to record v as a value of j.
IsPending(j, v) ==
    \/ jobQueue # <<>> /\ jobQueue[1] = <<j, v>>
    \/ /\ thread.pc \in {"collect", "send", "record"}
       /\ thread.job = j /\ thread.value = v

\* j may yet be measured again.
Live(j) == \/ jobs[j] = "active"
           \/ jobQueue # <<>> /\ jobQueue[1][1] = j
           \/ thread.pc \in {"collect", "send", "record", "take", "apply"}
              /\ thread.job = j

\* v is a value of j, and no value but a pending one is better.
IsBestOf(j, v) ==
    /\ \E p \in measured[j] : p[2] = v
    /\ \A p \in measured[j] : isBetterResult(v, p[2]) => IsPending(j, p[2])

\* What is kept of the values of a tuned job.
BestOK(j) ==
    /\ \A p \in measured[j] : p[2] \in Values
    /\ \A v \in Measures : IsPending(j, v) => \E p \in measured[j] : p[2] = v
    /\ results[j] = None /\ bestPod[j] = None =>
         \A p \in measured[j] : IsPending(j, p[2])
    /\ results[j] = None /\ bestPod[j] # None =>
         IsBestOf(j, bestPod[j]) /\ j \in jobOptMap
    /\ results[j] # None => IsBestOf(j, results[j]) /\ ~Live(j)
    /\ thread.job = j => /\ thread.pc = "pop" => results[j] # None
                         /\ thread.pc = "deploy" =>
                              results[j] # None \/ j \in jobOptMap \ applied
    /\ jobs[j] # "absent" /\ results[j] = None => Holding(j)

BestsOK == Harmless => \A j \in Tuned : BestOK(j)

\* The last run is under the best profile measured, or under the empty one if
\* the optimizer fails.
MayEnd == fault \in {None, "optimize"}
FinalOK(j) ==
    /\ FinalizedReady(j) =>
         IF opt[j].round = Rounds
         THEN \E p \in Best(opt[j].log) : opt[j].finalized = p[1]
         ELSE fault = "optimize" /\ opt[j].finalized = NoProfile
    /\ opt[j].log = {} => opt[j].awaiting = 1..opt[j].round \/ FinalizedReady(j)
    /\ j \in applied => IF thread.pc = "apply" /\ thread.job = j
                        THEN thread.profile = opt[j].finalized
                        ELSE profile[j] = opt[j].finalized
    /\ Len(Scanned) > 1 /\ results[j] # None => j \in applied

FinalsOK == MayEnd => \A j \in Tuned : FinalOK(j)

IInv == /\ TypeOK /\ ~panicked
        /\ ThreadOK /\ TurnOK /\ ScanOK /\ WaitOK /\ KeyOK
        /\ UntunedOK /\ RoundsOK /\ BestsOK /\ FinalsOK

USE DEF Harmless, MayEnd

-----------------------------------------------------------------------------
(***************************************************************************)
(* Facts about channels and about the jobs of the scan.                    *)
(***************************************************************************)

\* The head and the rest of a channel that is not empty.
LEMMA TailFacts ==
    ASSUME NEW S, NEW s \in Seq(S), s # <<>>
    PROVE  /\ Head(s) \in S /\ Head(s) = s[1]
           /\ Tail(s) \in Seq(S) /\ Len(Tail(s)) = Len(s) - 1
           /\ Len(s) \in Nat \ {0}
           /\ \A i \in 1..Len(Tail(s)) : i + 1 \in 1..Len(s)
                                         /\ Tail(s)[i] = s[i + 1]
  OBVIOUS

\* A channel after a send.
LEMMA AppendFacts ==
    ASSUME NEW S, NEW s \in Seq(S), NEW e \in S
    PROVE  /\ Append(s, e) \in Seq(S)
           /\ Len(s) \in Nat /\ Len(Append(s, e)) = Len(s) + 1
           /\ Append(s, e)[Len(s) + 1] = e
           /\ \A i \in 1..Len(s) : Append(s, e)[i] = s[i]
  OBVIOUS

\* A send on an empty channel, and the receive of the only element.
LEMMA OneFacts ==
    ASSUME NEW e
    PROVE  /\ Append(<<>>, e) = <<e>> /\ <<e>> # <<>> /\ <<e>>[1] = e
           /\ Head(<<e>>) = e /\ Tail(<<e>>) = <<>>
           /\ Len(<<e>>) = 1 /\ Len(<<>>) = 0
           /\ DOMAIN <<e>> = {1}
  OBVIOUS

\* A channel of at most one element has it at its head, or is empty.
LEMMA ShortFacts ==
    ASSUME NEW S, NEW s \in Seq(S), Len(s) <= 1, s # <<>>
    PROVE  s = <<s[1]>> /\ s[1] \in S /\ Tail(s) = <<>> /\ Head(s) = s[1]
<1>1. Len(s) = 1
  <2>1. Len(s) \in Nat \ {0}
    BY TailFacts
  <2> QED
    BY <2>1
<1>2. s[1] \in S
  BY <1>1
<1>3. <<s[1]>> \in Seq(S) /\ Len(<<s[1]>>) = 1 /\ <<s[1]>>[1] = s[1]
  BY <1>2
<1>4. s = <<s[1]>>
  BY <1>1, <1>3, SeqEqual
<1>5. Tail(s) \in Seq(S) /\ Len(Tail(s)) = 0
  BY <1>1, TailFacts
<1>6. Tail(s) = <<>>
  BY <1>5
<1> QED
  BY <1>2, <1>4, <1>6

\* The jobs of the scan.
LEMMA ScannedFacts ==
    /\ Len(Scanned) \in Nat
    /\ \A n \in 1..Len(Scanned) : Scanned[n] \in Jobs
    /\ \A j \in Jobs : \E n \in 1..Len(Scanned) : j = Scanned[n]
    /\ \A m, n \in 1..Len(Scanned) : Scanned[m] = Scanned[n] => m = n
<1>1. Scanned \in Seq(Jobs) /\ DOMAIN Scanned = 1..Len(Scanned)
      /\ Len(Scanned) \in Nat
  BY TuneAssumption
<1>2. \A m, n \in DOMAIN Scanned : Scanned[m] = Scanned[n] => m = n
  BY TuneAssumption DEF IsInjective
<1> QED
  BY <1>1, <1>2 DEF Jobs, Range

\* A step that leaves the optimizer of a job alone, and the round that is in
\* somebody's hands in somebody's hands, keeps what is said of its rounds.
LEMMA SameRound ==
    ASSUME NEW k \in Tuned, RoundOK(k), opt'[k] = opt[k], Held(k)' <=> Held(k),
           Held(k) => \A r : HeldRound(k, r) => HeldRound(k, r)',
           measured[k] \subseteq measured'[k], k \in applied' <=> k \in applied,
           thread'.pc = "send" /\ thread'.job = k => opt[k].pc = "tune",
           opt[k].pc = "tune" /\ Over(k) => Over(k)', UNCHANGED fault
    PROVE  RoundOK(k)'
<1>1. InHand(k)' = InHand(k) /\ InFlight(k)' = InFlight(k)
  BY DEF InHand, InFlight
<1>2. Received(k) => Received(k)'
  BY DEF Received
<1>3. Whole(k) => Whole(k)'
  BY <1>1 DEF Whole
<1> QED
  BY <1>1, <1>2, <1>3 DEF RoundOK, NoSample, NoResult, SampleClosed

\* A round in somebody's hands is not measured, or its value not sent: it has
\* not been the round of an optimizer that still tunes, or it is lost.
LEMMA LostRound ==
    ASSUME NEW k \in Tuned, RoundOK(k), opt[k] \in Optimizers, opt'[k] = opt[k],
           Held(k), ~Held(k)',
           measured[k] \subseteq measured'[k], k \in applied' <=> k \in applied,
           thread'.pc # "send",
           opt[k].pc = "tune" => fault = "nosend" \/ Over(k)', UNCHANGED fault
    PROVE  RoundOK(k)'
<1>1. /\ Len(opt[k].ResultQueue) \in Nat /\ Len(opt[k].SampleQueue) \in Nat
      /\ Len(opt[k].submitted) \in Nat
  BY DEF Optimizers
<1>2. InFlight(k)' <= InFlight(k) /\ InFlight(k) \in Nat /\ InFlight(k)' \in Nat
  <2>1. InHand(k) = 1 /\ InHand(k)' = 0
    BY DEF InHand
  <2>2. PICK m \in Nat, n \in Nat :
          m = Len(opt[k].ResultQueue) /\ n = Len(opt[k].SampleQueue)
    BY <1>1
  <2>3. InFlight(k) = m + 1 + n /\ InFlight(k)' = m + 0 + n
    BY <2>1, <2>2 DEF InFlight
  <2> QED
    BY <2>3
<1>3. Received(k) => Received(k)'
  BY DEF Received
<1>4. InFlight(k) <= Len(opt[k].submitted) => InFlight(k)' <= Len(opt'[k].submitted)
  BY <1>1, <1>2
<1> QED
  BY <1>3, <1>4 DEF RoundOK, NoSample, NoResult, SampleClosed

-----------------------------------------------------------------------------
(***************************************************************************)
(* The initial state.                                                      *)
(***************************************************************************)
LEMMA InitIInv ==
    ASSUME FirstRuns, Init
    PROVE  IInv
<1>1. TypeOK
  <2>1. thread \in Threads
    BY TuneAssumption, ScannedFacts DEF Init, Threads, Measures, Profiles, NoProfile
  <2>2. Unborn \in Optimizers /\ Unborn.SampleQueue = <<>>
        /\ Unborn.ResultQueue = <<>>
    BY TuneAssumption DEF Unborn, Optimizers, Profiles, NoProfile
  <2>3. opt \in [Jobs -> Optimizers]
        /\ \A j \in Jobs : Len(opt[j].SampleQueue) <= QSize
                         /\ Len(opt[j].ResultQueue) <= QSize
    BY <2>2, TuneAssumption DEF Init
  <2>4. profile \in [Jobs -> Profiles] /\ measured \in [Jobs -> {{}}]
    BY TuneAssumption DEF Init, Profiles, NoProfile
  <2>5. jobs \in [Jobs -> {"absent", "active", "complete"}]
    BY DEF Init
  <2>6. results \in [Jobs -> {None}] /\ bestPod \in [Jobs -> {None}]
    BY DEF Init
  <2>7. waiting \in Seq(Jobs) /\ jobQueue \in Seq(Jobs \X Measures)
    BY DEF Init
  <2>8. measured \in [Jobs -> SUBSET (Profiles \X Measures)]
    BY <2>4
  <2>9. /\ applied = {} /\ jobOptMap = {} /\ waitingKey \in BOOLEAN
        /\ drKey \in BOOLEAN /\ panicked \in BOOLEAN
        /\ fault \in Faults \cup {None}
    BY DEF Init
  <2> QED
    BY <2>1, <2>3, <2>4, <2>5, <2>6, <2>7, <2>8, <2>9 DEF TypeOK
<1>5. ASSUME NEW j \in Jobs
      PROVE  /\ opt[j] = Unborn /\ opt[j].pc = "unborn" /\ opt[j].round = 0
             /\ opt[j].log = {} /\ NoSample(j) /\ NoResult(j)
             /\ opt[j].awaiting = {} /\ opt[j].submitted = <<>>
             /\ (j \in Tuned => ~Held(j)) /\ j \notin applied
             /\ results[j] = None /\ bestPod[j] = None /\ measured[j] = {}
             /\ \A v : ~IsPending(j, v)
             /\ (j \in Tuned => jobs[j] = "absent") /\ thread.job = None
             /\ thread.pc = "scan"
  BY DEF Init, Unborn, NoSample, NoResult, Held, FirstRuns, IsPending, NoProfile
<1>2. ~panicked /\ ThreadOK /\ TurnOK
  <2>1. \A j \in Jobs : jobs[j] = "active" => j = Scanned[1] /\ j \notin Tuned
    BY DEF Init, FirstRuns
  <2>2. thread.pc = "scan" /\ jobQueue = <<>> /\ ~panicked /\ ~Busy
    BY DEF Init, Busy, Creating, Collecting
  <2> QED
    BY <2>1, <2>2 DEF ThreadOK, TurnOK, Busy, Creating
<1>3. ScanOK /\ WaitOK
  <2>1. /\ thread.pc = "scan" /\ thread.i = 1 /\ ~thread.isNew /\ thread.dr
        /\ thread.from = "scan"
        /\ waiting = <<>> /\ jobQueue = <<>> /\ jobOptMap = {} /\ InScan
        /\ thread.pc \notin Creating
        /\ \A j \in Jobs : jobs[j] # "complete"
    BY DEF Init, InScan, Creating
  <2>2. ASSUME NEW n \in 1..Len(Scanned)
        PROVE  opt[Scanned[n]] = Unborn /\ (n > 1 \/ n = 1)
    BY <1>5, ScannedFacts
  <2>4. ScanOK
    BY <1>5, <2>1, <2>2 DEF ScanOK
  <2>3. WaitOK
    BY <2>1 DEF WaitOK
  <2> QED
    BY <2>3, <2>4
<1>4. KeyOK
  BY DEF Init, KeyOK, InScan, Creating
<1>6. UntunedOK /\ RoundsOK
  <2>1. ASSUME NEW j \in Tuned PROVE RoundOK(j)
    <3>1. j \in Jobs
      BY TuneAssumption
    <3>2. /\ IsFiniteSet(opt[j].awaiting) /\ opt[j].awaiting \subseteq 1..opt[j].round
          /\ Cardinality(opt[j].awaiting) = Len(opt[j].submitted)
      BY <1>5, <3>1, FS_EmptySet
    <3> QED
      BY <1>5, <3>1, <3>2 DEF RoundOK
  <2> QED
    BY <1>5, <2>1 DEF UntunedOK, RoundsOK
<1>7. BestsOK
  BY <1>5, TuneAssumption DEF BestsOK, BestOK, IsBestOf
<1>8. FinalsOK
  <2>1. ASSUME NEW j \in Tuned PROVE FinalOK(j)
    <3>1. j \in Jobs /\ 1..0 = {}
      BY TuneAssumption
    <3> QED
      BY <1>5, <3>1 DEF FinalOK, FinalizedReady
  <2> QED
    BY <2>1 DEF FinalsOK
<1> QED
  BY <1>1, <1>2, <1>3, <1>4, <1>6, <1>7, <1>8 DEF IInv


-----------------------------------------------------------------------------
(***************************************************************************)
(* Steps of the optimizers.                                                *)
(***************************************************************************)

\* A step that changes the optimizer of one tuned job keeps what is said of
\* everything else.
LEMMA OptimizerFrame ==
    ASSUME IInv, NEW j \in Tuned, NEW o \in Optimizers,
           opt[j].pc # "unborn", o.pc # "unborn",
           Len(o.SampleQueue) <= QSize, Len(o.ResultQueue) <= QSize,
           opt' = [opt EXCEPT ![j] = o],
           UNCHANGED <<cluster, results, applied, maps, bestPod, jobQueue,
                       thread, panicked, fault>>,
           RoundOK(j)', MayEnd => FinalOK(j)'
    PROVE  IInv'
<1> USE DEF cluster, maps
<1>1. j \in Jobs /\ opt \in [Jobs -> Optimizers]
  BY TuneAssumption DEF IInv, TypeOK
<1>2. /\ opt' \in [Jobs -> Optimizers] /\ opt'[j] = o
      /\ \A k \in Jobs \ {j} : opt'[k] = opt[k]
  BY <1>1
<1>3. TypeOK' /\ ~panicked'
  BY <1>2 DEF IInv, TypeOK
<1>4. ThreadOK' /\ TurnOK' /\ KeyOK' /\ WaitOK' /\ (InScan' <=> InScan)
  BY DEF IInv, ThreadOK, TurnOK, KeyOK, WaitOK, InScan, Busy, Holding
<1>5. ScanOK'
  <2>1. ASSUME NEW n \in 1..Len(Scanned)
        PROVE  IF n > thread.i \/ (n = thread.i /\ thread.pc = "scan")
               THEN opt'[Scanned[n]] = Unborn
               ELSE opt'[Scanned[n]].pc # "unborn"
    <3>1. CASE Scanned[n] = j
      BY <1>2, <3>1 DEF IInv, ScanOK, Unborn
    <3>2. CASE Scanned[n] # j
      BY <1>2, <3>2, ScannedFacts DEF IInv, ScanOK
    <3> QED
      BY <3>1, <3>2
  <2>2. /\ UNCHANGED <<thread, jobQueue, jobOptMap, results, bestPod, measured,
                       jobs, waiting>>
    OBVIOUS
  <2> QED
    BY <1>4, <2>1, <2>2 DEF IInv, ScanOK
<1>6. UntunedOK'
  BY <1>2 DEF IInv, UntunedOK
<1>7. RoundsOK'
  <2>1. ASSUME NEW k \in Tuned, k # j PROVE RoundOK(k)'
    <3>1. opt'[k] = opt[k] /\ RoundOK(k)
      BY <1>2, <2>1, TuneAssumption DEF IInv, RoundsOK
    <3>2. /\ (Held(k)' <=> Held(k)) /\ (\A r : HeldRound(k, r)' <=> HeldRound(k, r))
          /\ (Over(k)' <=> Over(k))
      BY DEF Held, HeldRound, Over, Stuck
    <3>3. thread'.pc = "send" /\ thread'.job = k => opt[k].pc = "tune"
      BY <3>1 DEF RoundOK
    <3>4. UNCHANGED <<measured, applied, fault>>
      OBVIOUS
    <3> QED
      BY <3>1, <3>2, <3>3, <3>4, SameRound
  <2> QED
    BY <2>1 DEF RoundsOK
<1>8. BestsOK'
  BY DEF IInv, BestsOK, BestOK, IsBestOf, IsPending, Live, Holding, Busy
<1>9. FinalsOK'
  <2>1. ASSUME NEW k \in Tuned, k # j, FinalOK(k) PROVE FinalOK(k)'
    <3>1. opt'[k] = opt[k]
      BY <1>2, <2>1, TuneAssumption
    <3> QED
      BY <2>1, <3>1 DEF FinalOK, FinalizedReady
  <2> QED
    BY <2>1 DEF IInv, FinalsOK
<1> QED
  BY <1>3, <1>4, <1>5, <1>6, <1>7, <1>8, <1>9 DEF IInv

\* The types of the parts of the optimizer of j.
OptimizerOK(j) ==
    /\ opt[j].round \in Profiles /\ opt[j].finalized \in Profiles
    /\ opt[j].awaiting \subseteq Profiles
    /\ opt[j].log \subseteq Profiles \X Measures
    /\ opt[j].SampleQueue \in Seq(Profiles)
    /\ opt[j].ResultQueue \in Seq(Measures)
    /\ opt[j].submitted \in Seq(Profiles)
    /\ Len(opt[j].SampleQueue) <= QSize
    /\ Len(opt[j].ResultQueue) <= QSize

LEMMA OptimizerType ==
    ASSUME TypeOK, NEW j \in Jobs
    PROVE  OptimizerOK(j) /\ opt[j] \in Optimizers /\ opt \in [Jobs -> Optimizers]
<1>1. opt[j] \in Optimizers /\ opt \in [Jobs -> Optimizers]
  BY DEF TypeOK
<1> QED
  BY <1>1 DEF TypeOK, Optimizers, OptimizerOK

\* Only a tuned job has an optimizer that takes steps.
LEMMA OptimizerFacts ==
    ASSUME IInv, NEW j \in Jobs, opt[j].pc \notin {"unborn", "closed"}
    PROVE  /\ j \in Tuned /\ RoundOK(j) /\ (MayEnd => FinalOK(j))
           /\ OptimizerOK(j) /\ opt \in [Jobs -> Optimizers]
<1>1. j \in Tuned
  BY DEF IInv, UntunedOK
<1> QED
  BY <1>1, OptimizerType DEF IInv, RoundsOK, FinalsOK

\* What a step of the optimizer of j leaves alone.
Beside(j) == UNCHANGED <<cluster, results, applied, maps, bestPod, jobQueue,
                         thread, panicked>>

\* ... so that the rounds in somebody's hands stay there.
LEMMA BesideFacts ==
    ASSUME NEW j, Beside(j), UNCHANGED fault
    PROVE  /\ (Held(j)' <=> Held(j)) /\ InHand(j)' = InHand(j)
           /\ \A r : HeldRound(j, r)' <=> HeldRound(j, r)
           /\ Over(j)' <=> Over(j)
           /\ UNCHANGED <<measured, applied, thread, profile, results>>
<1>1. Held(j)' <=> Held(j)
  BY DEF Beside, cluster, Held
<1>2. \A r : HeldRound(j, r)' <=> HeldRound(j, r)
  BY DEF Beside, cluster, HeldRound
<1>3. Over(j)' <=> Over(j)
  BY <1>1 DEF Beside, maps, Over, Stuck
<1> QED
  BY <1>1, <1>2, <1>3 DEF Beside, cluster, InHand

\* The optimizer starts a round: its profile is sent, and awaits a result.
LEMMA ProposeIInv ==
    ASSUME IInv, NEW j \in Jobs, Propose(j), UNCHANGED fault
    PROVE  IInv'
<1> DEFINE r == opt[j].round + 1
           o == [opt[j] EXCEPT !.round = r,
                               !.awaiting = opt[j].awaiting \cup {r},
                               !.SampleQueue = Append(opt[j].SampleQueue, r),
                               !.submitted = Append(opt[j].submitted, r)]
<1>1. /\ opt[j].pc = "tune" /\ opt[j].round < Rounds
      /\ Len(opt[j].SampleQueue) < QSize /\ Beside(j)
      /\ opt' = [opt EXCEPT ![j].round = @ + 1,
                          ![j].awaiting = @ \cup {opt[j].round + 1},
                          ![j].SampleQueue = Append(@, opt[j].round + 1),
                          ![j].submitted = Append(@, opt[j].round + 1)]
  BY DEF Propose, Beside
<1>2. /\ j \in Tuned /\ RoundOK(j) /\ (MayEnd => FinalOK(j))
      /\ OptimizerOK(j) /\ opt \in [Jobs -> Optimizers]
  BY <1>1, OptimizerFacts
<1>3. r \in Profiles /\ r \in Nat \ {0} /\ opt[j].round \in Nat
      /\ r = opt[j].round + 1
  BY <1>1, <1>2, TuneAssumption DEF Profiles, OptimizerOK
<1>4. /\ o \in Optimizers /\ o.pc = "tune" /\ o.round = r /\ o.log = opt[j].log
      /\ o.awaiting = opt[j].awaiting \cup {r}
      /\ o.SampleQueue = Append(opt[j].SampleQueue, r)
      /\ o.ResultQueue = opt[j].ResultQueue
      /\ o.submitted = Append(opt[j].submitted, r)
      /\ o.finalized = opt[j].finalized
  <2>1. /\ opt[j] \in Optimizers /\ opt[j].awaiting \cup {r} \in SUBSET Profiles
        /\ Append(opt[j].SampleQueue, r) \in Seq(Profiles)
        /\ Append(opt[j].submitted, r) \in Seq(Profiles)
    BY <1>2, <1>3 DEF OptimizerOK
  <2>2. PICK q, a, s, t, n :
          /\ q = r /\ a = opt[j].awaiting \cup {r}
          /\ s = Append(opt[j].SampleQueue, r) /\ t = Append(opt[j].submitted, r)
          /\ n = [opt[j] EXCEPT !.round = q, !.awaiting = a, !.SampleQueue = s,
                                !.submitted = t]
    BY Zenon
  <2>3. /\ n \in Optimizers /\ n.pc = opt[j].pc /\ n.round = q
        /\ n.awaiting = a /\ n.SampleQueue = s
        /\ n.ResultQueue = opt[j].ResultQueue /\ n.log = opt[j].log
        /\ n.finalized = opt[j].finalized /\ n.submitted = t
    <3>1. q \in Profiles /\ a \in SUBSET Profiles /\ s \in Seq(Profiles)
          /\ t \in Seq(Profiles)
      BY <1>3, <2>1, <2>2
    <3>2. n = [opt[j] EXCEPT !.round = q, !.awaiting = a, !.SampleQueue = s,
                             !.submitted = t]
      BY Zenon, <2>2
    <3>3. opt[j] \in Optimizers
      BY <2>1
    <3> QED
      BY <3>1, <3>2, <3>3 DEF Optimizers
  <2>4. o = n
    BY <2>2
  <2> HIDE DEF o
  <2> QED
    BY <1>1, <2>2, <2>3, <2>4
<1>5. opt' = [opt EXCEPT ![j] = o] /\ opt'[j] = o
  BY <1>1, <1>2
<1> HIDE DEF o, r
<1>6. /\ Len(o.SampleQueue) = Len(opt[j].SampleQueue) + 1
      /\ Len(o.submitted) = Len(opt[j].submitted) + 1
      /\ Len(opt[j].SampleQueue) \in Nat /\ Len(opt[j].submitted) \in Nat
      /\ Len(opt[j].ResultQueue) \in Nat /\ Len(o.ResultQueue) <= QSize
      /\ \A i \in 1..Len(opt[j].SampleQueue) :
           o.SampleQueue[i] = opt[j].SampleQueue[i]
      /\ \A i \in 1..Len(opt[j].submitted) : o.submitted[i] = opt[j].submitted[i]
      /\ o.SampleQueue[Len(opt[j].SampleQueue) + 1] = r
      /\ o.submitted[Len(opt[j].submitted) + 1] = r
  BY <1>2, <1>3, <1>4, AppendFacts DEF OptimizerOK
<1>7. /\ (Held(j)' <=> Held(j)) /\ InHand(j)' = InHand(j)
      /\ \A q : HeldRound(j, q)' <=> HeldRound(j, q)
      /\ Over(j)' <=> Over(j)
      /\ UNCHANGED <<measured, applied, thread, profile, results>>
  BY <1>1, BesideFacts
<1>8. RoundOK(j)'
  <2>1. PICK h \in {0, 1}, s \in Nat, q \in Nat, t \in Nat :
          /\ h = InHand(j) /\ s = Len(opt[j].SampleQueue)
          /\ q = Len(opt[j].ResultQueue) /\ t = Len(opt[j].submitted)
    BY <1>6 DEF InHand
  <2>2. /\ Len(o.SampleQueue) = s + 1 /\ Len(o.ResultQueue) = q
        /\ Len(o.submitted) = t + 1
        /\ \A i \in 1..s : o.SampleQueue[i] = opt[j].SampleQueue[i]
        /\ \A i \in 1..t : o.submitted[i] = opt[j].submitted[i]
        /\ o.SampleQueue[s + 1] = r /\ o.submitted[t + 1] = r
        /\ InFlight(j) = q + h + s /\ InFlight(j)' = q + h + (s + 1)
    BY <1>4, <1>5, <1>6, <1>7, <2>1 DEF InFlight
  <2>3. /\ IsFiniteSet(o.awaiting) /\ o.awaiting \subseteq 1..o.round
        /\ Cardinality(o.awaiting) = Len(o.submitted)
    <3>1. r \notin opt[j].awaiting /\ opt[j].awaiting \subseteq 1..r
      BY <1>2, <1>3 DEF RoundOK
    <3>2. /\ IsFiniteSet(opt[j].awaiting \cup {r})
          /\ Cardinality(opt[j].awaiting \cup {r}) = Cardinality(opt[j].awaiting) + 1
      BY <1>2, <3>1, FS_AddElement DEF RoundOK
    <3> QED
      BY <1>2, <1>3, <1>4, <1>6, <3>1, <3>2 DEF RoundOK
  <2>4. q + h + s <= t
    BY <1>1, <1>2, <2>1, <2>2 DEF RoundOK
  <2>5. ASSUME Received(j) PROVE Received(j)'
    <3>1. ASSUME NEW i \in 1..q
          PROVE  <<o.submitted[i], o.ResultQueue[i]>> \in measured[j]
      <4>1. i \in 1..t
        BY <2>4
      <4> QED
        BY <1>4, <2>1, <2>2, <2>5, <4>1 DEF Received
    <3> QED
      BY <1>5, <1>7, <2>2, <3>1 DEF Received
  <2>6. ASSUME Whole(j) PROVE Whole(j)'
    <3>1. q + h + s = t
      BY <2>1, <2>2, <2>6 DEF Whole
    <3>2. ASSUME Held(j) PROVE HeldRound(j, o.submitted[q + 1])
      <4>1. h = 1
        BY <2>1, <3>2 DEF InHand
      <4>2. q + 1 \in 1..t
        BY <3>1, <4>1
      <4>3. o.submitted[q + 1] = opt[j].submitted[q + 1]
        BY <2>2, <4>2
      <4> QED
        BY <2>1, <2>6, <3>2, <4>3 DEF Whole
    <3>3. ASSUME NEW i \in 1..(s + 1)
          PROVE  o.SampleQueue[i] = o.submitted[q + h + i]
      <4>1. CASE i \in 1..s
        <5>1. q + h + i \in 1..t
          BY <3>1, <4>1
        <5>2. opt[j].SampleQueue[i] = opt[j].submitted[q + h + i]
          BY <2>1, <2>6, <4>1 DEF Whole
        <5> QED
          BY <2>2, <4>1, <5>1, <5>2
      <4>2. CASE i = s + 1
        <5>1. q + h + i = t + 1
          BY <3>1, <4>2
        <5> QED
          BY <2>2, <4>2, <5>1
      <4> QED
        BY <4>1, <4>2
    <3>4. InFlight(j)' = t + 1
      BY <2>2, <3>1
    <3>5. InHand(j)' = h
      BY <1>7, <2>1
    <3> QED
      BY <1>5, <1>7, <2>2, <3>2, <3>3, <3>4, <3>5 DEF Whole
  <2>7. InFlight(j)' <= Len(o.submitted)
    BY <2>2, <2>4
  <2> QED
    BY <1>1, <1>2, <1>4, <1>5, <1>7, <2>3, <2>5, <2>6, <2>7
    DEF RoundOK, SampleClosed
<1>9. MayEnd => FinalOK(j)'
  <2>1. opt[j].awaiting = 1..opt[j].round => o.awaiting = 1..o.round
    BY <1>3, <1>4
  <2>2. j \notin applied
    BY <1>1, <1>2 DEF RoundOK, SampleClosed
  <2> QED
    BY <1>1, <1>2, <1>4, <1>5, <1>7, <2>1, <2>2 DEF FinalOK, FinalizedReady
<1>10. /\ Len(o.SampleQueue) <= QSize /\ Len(o.ResultQueue) <= QSize
       /\ UNCHANGED <<cluster, results, applied, maps, bestPod, jobQueue,
                      thread, panicked, fault>>
  <2>1. PICK s \in Nat : s = Len(opt[j].SampleQueue)
    BY <1>6
  <2>2. s < QSize /\ QSize \in Nat
    BY <1>1, <2>1, TuneAssumption
  <2>3. Len(o.SampleQueue) <= QSize
    BY <1>6, <2>1, <2>2
  <2> QED
    BY <1>1, <1>6, <2>3 DEF Beside
<1> QED
  BY <1>1, <1>2, <1>4, <1>5, <1>8, <1>9, <1>10, OptimizerFrame

\* A proposal that is refused leaves the channels alone.
LEMMA ProposeInvalidIInv ==
    ASSUME IInv, NEW j \in Jobs, ProposeInvalid(j), UNCHANGED fault
    PROVE  IInv'
<1> DEFINE o == [opt[j] EXCEPT !.round = opt[j].round + 1]
<1>1. /\ opt[j].pc = "tune" /\ opt[j].round < Rounds /\ Beside(j)
      /\ opt' = [opt EXCEPT ![j].round = @ + 1]
      /\ fault = "invalid"
  BY DEF ProposeInvalid, May, Beside
<1>2. /\ j \in Tuned /\ RoundOK(j) /\ OptimizerOK(j)
      /\ opt \in [Jobs -> Optimizers]
  BY <1>1, OptimizerFacts
<1>3. opt[j].round + 1 \in Profiles /\ opt[j].round \in Nat
  BY <1>1, <1>2, TuneAssumption DEF Profiles, OptimizerOK
<1>4. /\ o \in Optimizers /\ o.pc = "tune" /\ o.round = opt[j].round + 1
      /\ o.log = opt[j].log /\ o.awaiting = opt[j].awaiting
      /\ o.SampleQueue = opt[j].SampleQueue
      /\ o.ResultQueue = opt[j].ResultQueue
      /\ o.submitted = opt[j].submitted
  BY <1>1, <1>2, <1>3 DEF Optimizers, OptimizerOK
<1>5. opt' = [opt EXCEPT ![j] = o] /\ opt'[j] = o
  BY <1>1, <1>2
<1> HIDE DEF o
<1>6. /\ (Held(j)' <=> Held(j)) /\ InHand(j)' = InHand(j)
      /\ \A q : HeldRound(j, q)' <=> HeldRound(j, q)
      /\ Over(j)' <=> Over(j)
      /\ UNCHANGED <<measured, applied, thread, profile, results>>
  BY <1>1, BesideFacts
<1>7. RoundOK(j)'
  <2>1. InFlight(j)' = InFlight(j) /\ (Received(j)' <=> Received(j))
        /\ (Whole(j) => Whole(j)')
    BY <1>4, <1>5, <1>6 DEF InFlight, Received, Whole
  <2>2. o.awaiting \subseteq 1..o.round
    BY <1>2, <1>3, <1>4 DEF RoundOK
  <2> QED
    BY <1>1, <1>2, <1>4, <1>5, <1>6, <2>1, <2>2 DEF RoundOK, SampleClosed
<1>8. ~MayEnd
  BY <1>1, TuneAssumption DEF FaultKinds
<1> QED
  BY <1>1, <1>2, <1>4, <1>5, <1>7, <1>8, OptimizerFrame DEF Beside, OptimizerOK

\* A result is received: the first profile sent that had none has one.
LEMMA ReceiveIInv ==
    ASSUME IInv, NEW j \in Jobs, Receive(j), UNCHANGED fault
    PROVE  IInv'
<1> DEFINE v == Head(opt[j].ResultQueue)
<1>1. PICK r \in opt[j].awaiting :
        opt' = [opt EXCEPT
                  ![j].awaiting = @ \ {r}, ![j].ResultQueue = Tail(@),
                  ![j].log = @ \cup {<<r, v>>}, ![j].submitted = Tail(@)]
  BY Zenon DEF Receive
<1>2. /\ opt[j].pc = "tune" /\ opt[j].ResultQueue # <<>> /\ Beside(j)
  BY DEF Receive, Beside
<1>3. /\ j \in Tuned /\ RoundOK(j) /\ (MayEnd => FinalOK(j))
      /\ OptimizerOK(j) /\ opt \in [Jobs -> Optimizers]
  BY <1>2, OptimizerFacts
<1> DEFINE o == [opt[j] EXCEPT !.awaiting = opt[j].awaiting \ {r},
                               !.ResultQueue = Tail(opt[j].ResultQueue),
                               !.log = opt[j].log \cup {<<r, v>>},
                               !.submitted = Tail(opt[j].submitted)]
<1>4. PICK h \in {0, 1} : h = InHand(j)
  BY DEF InHand
<1>5. /\ Len(opt[j].SampleQueue) \in Nat /\ Len(opt[j].submitted) \in Nat
      /\ Len(opt[j].ResultQueue) \in Nat \ {0}
      /\ v \in Measures /\ Tail(opt[j].ResultQueue) \in Seq(Measures)
      /\ Len(Tail(opt[j].ResultQueue)) = Len(opt[j].ResultQueue) - 1
      /\ \A i \in 1..Len(Tail(opt[j].ResultQueue)) :
           /\ i + 1 \in 1..Len(opt[j].ResultQueue)
           /\ Tail(opt[j].ResultQueue)[i] = opt[j].ResultQueue[i + 1]
  BY <1>2, <1>3, TailFacts DEF OptimizerOK
<1>6. /\ InFlight(j) = Len(opt[j].ResultQueue) + h + Len(opt[j].SampleQueue)
      /\ InFlight(j) <= Len(opt[j].submitted)
  BY <1>2, <1>3, <1>4 DEF InFlight, RoundOK
<1>7. /\ opt[j].submitted # <<>> /\ Tail(opt[j].submitted) \in Seq(Profiles)
      /\ Len(Tail(opt[j].submitted)) = Len(opt[j].submitted) - 1
      /\ \A i \in 1..Len(Tail(opt[j].submitted)) :
           /\ i + 1 \in 1..Len(opt[j].submitted)
           /\ Tail(opt[j].submitted)[i] = opt[j].submitted[i + 1]
  <2>1. opt[j].submitted # <<>>
    BY <1>4, <1>5, <1>6
  <2> QED
    BY <1>3, <2>1, TailFacts DEF OptimizerOK
<1>8. r \in Profiles /\ <<r, v>> \in Profiles \X Measures
  BY <1>3, <1>5 DEF OptimizerOK
<1>9. /\ o \in Optimizers /\ o.pc = "tune" /\ o.round = opt[j].round
      /\ o.log = opt[j].log \cup {<<r, v>>} /\ o.awaiting = opt[j].awaiting \ {r}
      /\ o.SampleQueue = opt[j].SampleQueue
      /\ o.ResultQueue = Tail(opt[j].ResultQueue)
      /\ o.submitted = Tail(opt[j].submitted) /\ o.finalized = opt[j].finalized
  <2>1. /\ opt[j] \in Optimizers /\ opt[j].awaiting \ {r} \in SUBSET Profiles
        /\ opt[j].log \cup {<<r, v>>} \in SUBSET (Profiles \X Measures)
    BY <1>3, <1>8 DEF OptimizerOK
  <2>2. PICK a, q, l, t, n :
          /\ a = opt[j].awaiting \ {r} /\ q = Tail(opt[j].ResultQueue)
          /\ l = opt[j].log \cup {<<r, v>>} /\ t = Tail(opt[j].submitted)
          /\ n = [opt[j] EXCEPT !.awaiting = a, !.ResultQueue = q, !.log = l,
                                !.submitted = t]
    BY Zenon
  <2>3. /\ n \in Optimizers /\ n.pc = opt[j].pc /\ n.round = opt[j].round
        /\ n.awaiting = a /\ n.SampleQueue = opt[j].SampleQueue
        /\ n.ResultQueue = q /\ n.log = l
        /\ n.finalized = opt[j].finalized /\ n.submitted = t
    <3>1. /\ a \in SUBSET Profiles /\ q \in Seq(Measures)
          /\ l \in SUBSET (Profiles \X Measures) /\ t \in Seq(Profiles)
      BY <1>5, <1>7, <2>1, <2>2
    <3>2. n = [opt[j] EXCEPT !.awaiting = a, !.ResultQueue = q, !.log = l,
                             !.submitted = t]
      BY Zenon, <2>2
    <3>3. opt[j] \in Optimizers
      BY <2>1
    <3> QED
      BY <3>1, <3>2, <3>3 DEF Optimizers
  <2>4. o = n
    BY <2>2
  <2> HIDE DEF o
  <2> QED
    BY <1>2, <2>2, <2>3, <2>4
<1>10. opt' = [opt EXCEPT ![j] = o] /\ opt'[j] = o
  BY <1>1, <1>3
<1> HIDE DEF o
<1>11. /\ (Held(j)' <=> Held(j)) /\ InHand(j)' = InHand(j)
       /\ \A q : HeldRound(j, q)' <=> HeldRound(j, q)
       /\ Over(j)' <=> Over(j)
       /\ UNCHANGED <<measured, applied, thread, profile, results>>
  BY <1>2, BesideFacts
<1>12. PICK s \in Nat, q \in Nat, t \in Nat :
         /\ s = Len(o.SampleQueue) /\ q = Len(o.ResultQueue)
         /\ t = Len(o.submitted) /\ Len(opt[j].SampleQueue) = s
         /\ Len(opt[j].ResultQueue) = q + 1 /\ Len(opt[j].submitted) = t + 1
         /\ InFlight(j) = q + 1 + h + s /\ InFlight(j)' = q + h + s
         /\ q + 1 + h + s <= t + 1
         /\ \A i \in 1..q : /\ i + 1 \in 1..(q + 1)
                            /\ o.ResultQueue[i] = opt[j].ResultQueue[i + 1]
         /\ \A i \in 1..t : o.submitted[i] = opt[j].submitted[i + 1]
  <2>1. PICK s \in Nat, q \in Nat, t \in Nat :
          /\ s = Len(opt[j].SampleQueue) /\ q + 1 = Len(opt[j].ResultQueue)
          /\ t + 1 = Len(opt[j].submitted)
    <3>1. Len(opt[j].submitted) \in Nat \ {0}
      BY <1>3, <1>7, TailFacts DEF OptimizerOK
    <3>2. PICK s \in Nat, a \in Nat \ {0}, b \in Nat \ {0} :
            /\ s = Len(opt[j].SampleQueue) /\ a = Len(opt[j].ResultQueue)
            /\ b = Len(opt[j].submitted)
      BY <1>5, <3>1
    <3>3. a - 1 \in Nat /\ b - 1 \in Nat /\ a - 1 + 1 = a /\ b - 1 + 1 = b
      BY <3>2
    <3> QED
      BY <3>2, <3>3
  <2>2. s = Len(o.SampleQueue) /\ q = Len(o.ResultQueue) /\ t = Len(o.submitted)
    BY <1>5, <1>7, <1>9, <2>1
  <2>3. InFlight(j) = q + 1 + h + s
    BY <1>6, <2>1
  <2>4. InFlight(j)' = q + h + s
    BY <1>4, <1>10, <1>11, <2>2 DEF InFlight
  <2>5. q + 1 + h + s <= t + 1
    BY <1>6, <2>1
  <2>6. ASSUME NEW i \in 1..q
        PROVE  i + 1 \in 1..(q + 1) /\ o.ResultQueue[i] = opt[j].ResultQueue[i + 1]
    BY <1>5, <1>9, <2>1, <2>2
  <2>7. ASSUME NEW i \in 1..t PROVE o.submitted[i] = opt[j].submitted[i + 1]
    BY <1>7, <1>9, <2>2
  <2> QED
    BY <2>1, <2>2, <2>3, <2>4, <2>5, <2>6, <2>7
<1>13. RoundOK(j)'
  <2>1. /\ IsFiniteSet(o.awaiting) /\ o.awaiting \subseteq 1..o.round
        /\ Cardinality(o.awaiting) = Len(o.submitted)
    <3>1. /\ IsFiniteSet(opt[j].awaiting \ {r})
          /\ Cardinality(opt[j].awaiting \ {r}) = Cardinality(opt[j].awaiting) - 1
      BY <1>3, FS_RemoveElement DEF RoundOK
    <3> QED
      BY <1>3, <1>7, <1>9, <3>1 DEF RoundOK
  <2>2. InFlight(j)' <= Len(o.submitted)
    BY <1>12
  <2>3. ASSUME Received(j) PROVE Received(j)'
    <3>1. ASSUME NEW i \in 1..q
          PROVE  <<o.submitted[i], o.ResultQueue[i]>> \in measured[j]
      <4>1. i + 1 \in 1..(q + 1) /\ i \in 1..t
        <5>1. q + 1 + h + s <= t + 1 /\ h \in {0, 1}
          BY <1>4, <1>12
        <5> QED
          BY <5>1
      <4>2. /\ o.ResultQueue[i] = opt[j].ResultQueue[i + 1]
            /\ o.submitted[i] = opt[j].submitted[i + 1]
        BY <1>12, <4>1
      <4> QED
        BY <1>12, <2>3, <4>1, <4>2 DEF Received
    <3> QED
      BY <1>10, <1>11, <1>12, <3>1 DEF Received
  <2>4. ASSUME Whole(j) PROVE Whole(j)'
    <3>1. InFlight(j)' = t /\ q + h + s = t
      <4>1. q + 1 + h + s = t + 1
        BY <1>12, <2>4 DEF Whole
      <4>2. q + h + s = t
        BY <1>4, <4>1
      <4> QED
        BY <1>12, <4>2
    <3>2. ASSUME Held(j) PROVE HeldRound(j, o.submitted[q + 1])
      <4>1. h = 1
        BY <1>4, <3>2 DEF InHand
      <4>2. q + 1 \in 1..t
        BY <3>1, <4>1
      <4>3. o.submitted[q + 1] = opt[j].submitted[q + 1 + 1]
        BY <1>12, <4>2
      <4> QED
        BY <1>12, <2>4, <3>2, <4>3 DEF Whole
    <3>3. ASSUME NEW i \in 1..s
          PROVE  o.SampleQueue[i] = o.submitted[q + h + i]
      <4>1. q + h + i \in 1..t /\ q + h + i + 1 = q + 1 + h + i
        BY <3>1
      <4>2. o.submitted[q + h + i] = opt[j].submitted[q + 1 + h + i]
        BY <1>12, <4>1
      <4> QED
        BY <1>4, <1>9, <1>12, <2>4, <4>2 DEF Whole
    <3>4. InHand(j)' = h
      BY <1>4, <1>11
    <3> QED
      BY <1>10, <1>11, <1>12, <3>1, <3>2, <3>3, <3>4 DEF Whole
  <2> QED
    BY <1>2, <1>3, <1>9, <1>10, <1>11, <2>1, <2>2, <2>3, <2>4
    DEF RoundOK, SampleClosed
<1>14. MayEnd => FinalOK(j)'
  <2>1. j \notin applied /\ o.log # {}
    BY <1>2, <1>3, <1>9 DEF RoundOK, SampleClosed
  <2> QED
    BY <1>2, <1>3, <1>9, <1>10, <1>11, <2>1 DEF FinalOK, FinalizedReady
<1>15. /\ Len(o.SampleQueue) <= QSize /\ Len(o.ResultQueue) <= QSize
       /\ UNCHANGED <<cluster, results, applied, maps, bestPod, jobQueue,
                      thread, panicked, fault>>
  <2>1. s <= QSize /\ q + 1 <= QSize /\ QSize \in Nat
    BY <1>3, <1>12, TuneAssumption DEF OptimizerOK
  <2>2. q <= QSize
    BY <2>1
  <2> QED
    BY <1>2, <1>12, <2>1, <2>2 DEF Beside
<1> QED
  BY <1>2, <1>3, <1>9, <1>10, <1>13, <1>14, <1>15, OptimizerFrame

\* The end of the tuning, right or wrong: no round awaits a result, so that
\* nothing is under way.
LEMMA EndFacts ==
    ASSUME IInv, NEW j \in Jobs, opt[j].pc = "tune", opt[j].awaiting = {},
           NEW f \in Profiles, Beside(j), UNCHANGED fault,
           opt' = [opt EXCEPT ![j].pc = "settled", ![j].finalized = f]
    PROVE  /\ j \in Tuned /\ j \notin applied /\ ~Held(j)
           /\ opt' = [opt EXCEPT ![j] = opt'[j]] /\ opt'[j] \in Optimizers
           /\ opt'[j].pc = "settled" /\ opt'[j].finalized = f
           /\ opt'[j].round = opt[j].round /\ opt'[j].log = opt[j].log
           /\ opt'[j].SampleQueue = <<>> /\ opt'[j].ResultQueue = <<>>
           /\ RoundOK(j)'
<1>2. /\ j \in Tuned /\ RoundOK(j) /\ OptimizerOK(j)
      /\ opt \in [Jobs -> Optimizers] /\ opt[j] \in Optimizers
  BY OptimizerFacts
<1> DEFINE o == [opt[j] EXCEPT !.pc = "settled", !.finalized = f]
<1>3. /\ o \in Optimizers /\ o.pc = "settled" /\ o.round = opt[j].round
      /\ o.log = opt[j].log /\ o.awaiting = opt[j].awaiting
      /\ o.SampleQueue = opt[j].SampleQueue
      /\ o.ResultQueue = opt[j].ResultQueue
      /\ o.submitted = opt[j].submitted /\ o.finalized = f
  BY <1>2 DEF Optimizers
<1>4. opt' = [opt EXCEPT ![j] = o] /\ opt'[j] = o
  BY <1>2
<1> HIDE DEF o
<1>5. /\ (Held(j)' <=> Held(j))
      /\ UNCHANGED <<measured, applied, thread, profile, results>>
  BY BesideFacts
<1>6. PICK h \in {0, 1} : h = InHand(j)
  BY DEF InHand
<1>7. h = 0 /\ opt[j].SampleQueue = <<>> /\ opt[j].ResultQueue = <<>>
  <2>1. Len(opt[j].submitted) = 0
    BY <1>2, FS_EmptySet DEF RoundOK
  <2>2. Len(opt[j].ResultQueue) + h + Len(opt[j].SampleQueue) <= 0
    BY <1>2, <1>6, <2>1 DEF RoundOK, InFlight
  <2>3. Len(opt[j].ResultQueue) \in Nat /\ Len(opt[j].SampleQueue) \in Nat
    BY <1>2 DEF OptimizerOK
  <2>4. h = 0 /\ Len(opt[j].ResultQueue) = 0 /\ Len(opt[j].SampleQueue) = 0
    BY <2>2, <2>3
  <2> QED
    BY <1>2, <2>4 DEF OptimizerOK
<1>8. ~Held(j) /\ j \notin applied
  BY <1>2, <1>6, <1>7 DEF InHand, RoundOK, SampleClosed
<1>9. RoundOK(j)'
  BY <1>2, <1>3, <1>4, <1>5, <1>7, <1>8
  DEF RoundOK, NoSample, NoResult, Held
<1> QED
  BY <1>2, <1>3, <1>4, <1>7, <1>8, <1>9

LEMMA SettleIInv ==
    ASSUME IInv, NEW j \in Jobs, Settle(j), UNCHANGED fault
    PROVE  IInv'
<1>1. PICK p \in IF opt[j].log = {} THEN {<<NoProfile, NoResponse>>}
                 ELSE Best(opt[j].log) :
        opt' = [opt EXCEPT ![j].pc = "settled", ![j].finalized = p[1]]
  BY DEF Settle
<1>2. /\ opt[j].pc = "tune" /\ opt[j].round = Rounds /\ opt[j].awaiting = {}
      /\ Beside(j)
  BY DEF Settle, Beside
<1>3. (MayEnd => FinalOK(j)) /\ OptimizerOK(j)
  BY <1>2, OptimizerFacts
<1>4. p[1] \in Profiles
  <2>1. CASE opt[j].log = {}
    BY <1>1, <2>1, TuneAssumption DEF Profiles, NoProfile
  <2>2. CASE opt[j].log # {}
    BY <1>1, <1>3, <2>2 DEF Best, OptimizerOK
  <2> QED
    BY <2>1, <2>2
<1>5. /\ j \in Tuned /\ j \notin applied /\ ~Held(j)
      /\ opt' = [opt EXCEPT ![j] = opt'[j]] /\ opt'[j] \in Optimizers
      /\ opt'[j].pc = "settled" /\ opt'[j].finalized = p[1]
      /\ opt'[j].round = opt[j].round /\ opt'[j].log = opt[j].log
      /\ opt'[j].SampleQueue = <<>> /\ opt'[j].ResultQueue = <<>>
      /\ RoundOK(j)'
  BY <1>1, <1>2, <1>4, EndFacts
<1>6. ASSUME MayEnd PROVE FinalOK(j)'
  <2>1. opt[j].log # {}
    <3>1. 1 \in 1..opt[j].round
      BY <1>2, TuneAssumption
    <3> QED
      BY <1>2, <1>3, <1>6, <3>1 DEF FinalOK, FinalizedReady
  <2>2. p \in Best(opt[j].log)
    BY <1>1, <2>1
  <2> QED
    BY <1>2, <1>3, <1>5, <1>6, <2>1, <2>2 DEF FinalOK, FinalizedReady, Beside, cluster
<1>7. 0 <= QSize /\ Len(<<>>) = 0
  BY TuneAssumption
<1> QED
  BY <1>2, <1>5, <1>6, <1>7, OptimizerFrame DEF Beside

LEMMA OptimizeFailsIInv ==
    ASSUME IInv, NEW j \in Jobs, OptimizeFails(j), UNCHANGED fault
    PROVE  IInv'
<1>1. /\ opt[j].pc = "tune" /\ opt[j].awaiting = {} /\ fault = "optimize"
      /\ RandomRounds <= opt[j].round /\ opt[j].round < Rounds /\ Beside(j)
      /\ opt' = [opt EXCEPT ![j].pc = "settled", ![j].finalized = NoProfile]
  BY DEF OptimizeFails, May, Beside
<1>2. (MayEnd => FinalOK(j)) /\ OptimizerOK(j) /\ NoProfile \in Profiles
      /\ Rounds \in Nat /\ opt[j].round \in Nat
  BY <1>1, OptimizerFacts, TuneAssumption DEF Profiles, NoProfile, OptimizerOK
<1>3. /\ j \in Tuned /\ j \notin applied /\ ~Held(j)
      /\ opt' = [opt EXCEPT ![j] = opt'[j]] /\ opt'[j] \in Optimizers
      /\ opt'[j].pc = "settled" /\ opt'[j].finalized = NoProfile
      /\ opt'[j].round = opt[j].round /\ opt'[j].log = opt[j].log
      /\ opt'[j].SampleQueue = <<>> /\ opt'[j].ResultQueue = <<>>
      /\ RoundOK(j)'
  BY <1>1, <1>2, EndFacts
<1>4. opt[j].round # Rounds
  BY <1>1, <1>2
<1>5. MayEnd => FinalOK(j)'
  BY <1>1, <1>2, <1>3, <1>4 DEF FinalOK, FinalizedReady, Beside, cluster
<1>6. 0 <= QSize /\ Len(<<>>) = 0
  BY TuneAssumption
<1> QED
  BY <1>1, <1>3, <1>5, <1>6, OptimizerFrame DEF Beside

LEMMA CloseQueuesIInv ==
    ASSUME IInv, NEW j \in Jobs, CloseQueues(j), UNCHANGED fault
    PROVE  IInv'
<1>1. PICK pc \in {"sampleClosed", "closed"} :
        opt' = [opt EXCEPT ![j] = [opt[j] EXCEPT !.pc = pc]]
  <2>1. opt \in [Jobs -> Optimizers]
    BY DEF IInv, TypeOK
  <2> QED
    BY <2>1 DEF CloseQueues
<1> DEFINE o == [opt[j] EXCEPT !.pc = pc]
<1>2. opt[j].pc \in {"settled", "sampleClosed"} /\ Beside(j)
  BY DEF CloseQueues, Beside
<1>3. /\ j \in Tuned /\ RoundOK(j) /\ (MayEnd => FinalOK(j))
      /\ OptimizerOK(j) /\ opt \in [Jobs -> Optimizers]
  BY <1>2, OptimizerFacts
<1>4. /\ o \in Optimizers /\ o.pc = pc /\ o.round = opt[j].round
      /\ o.log = opt[j].log /\ o.awaiting = opt[j].awaiting
      /\ o.SampleQueue = opt[j].SampleQueue
      /\ o.ResultQueue = opt[j].ResultQueue
      /\ o.submitted = opt[j].submitted /\ o.finalized = opt[j].finalized
  BY <1>3 DEF Optimizers
<1>5. opt'[j] = o
  BY <1>1, <1>3
<1> HIDE DEF o
<1>6. /\ (Held(j)' <=> Held(j))
      /\ UNCHANGED <<measured, applied, thread, profile, results>>
  BY <1>2, BesideFacts
<1>7. RoundOK(j)'
  BY <1>2, <1>3, <1>4, <1>5, <1>6
  DEF RoundOK, NoSample, NoResult, SampleClosed
<1>8. MayEnd => FinalOK(j)'
  BY <1>2, <1>3, <1>4, <1>5, <1>6 DEF FinalOK, FinalizedReady
<1>9. opt' = [opt EXCEPT ![j] = o]
  BY <1>1 DEF o
<1> QED
  BY <1>2, <1>3, <1>4, <1>5, <1>7, <1>8, <1>9, OptimizerFrame
  DEF Beside, OptimizerOK

\* No step of an optimizer breaks the invariant.
LEMMA OptimizerIInv ==
    ASSUME IInv, NEW j \in Jobs, Optimizer(j), UNCHANGED fault
    PROVE  IInv'
  BY ProposeIInv, ProposeInvalidIInv, ReceiveIInv, SettleIInv,
     OptimizeFailsIInv, CloseQueuesIInv
  DEF Optimizer

-----------------------------------------------------------------------------
(***************************************************************************)
(* Steps of the cluster.                                                   *)
(***************************************************************************)

\* While a job runs, once the scan is over, nothing else has the turn.
LEMMA RunningFacts ==
    ASSUME IInv, NEW j \in Jobs, jobs[j] = "active", ~InScan
    PROVE  /\ thread.pc = "idle" /\ ~Busy /\ jobQueue = <<>>
           /\ \A k \in Jobs : jobs[k] = "active" => k = j
<1>1. thread.pc \in {"scan", "create", "take", "apply", "idle", "collect",
                     "send", "record", "deploy", "pop"}
  BY DEF IInv, TypeOK, Threads
<1>2. ~Busy /\ thread.pc # "scan"
  BY DEF IInv, TurnOK, InScan
<1>3. thread.pc = "idle"
  BY <1>1, <1>2 DEF Busy, Creating, Collecting
<1> QED
  BY <1>2, <1>3 DEF IInv, TurnOK

LEMMA JobCompletesIInv ==
    ASSUME IInv, NEW j \in Jobs, JobCompletes(j), UNCHANGED fault
    PROVE  IInv'
<1>1. PICK value \in Parsed :
        /\ measured' = [measured EXCEPT ![j] = @ \cup {<<profile[j], value>>}]
        /\ jobQueue' = Append(jobQueue, <<j, value>>)
  BY DEF JobCompletes
<1>2. /\ jobs[j] = "active" /\ thread.i > Len(Scanned) /\ thread.pc # "scan"
      /\ jobs' = [jobs EXCEPT ![j] = "complete"]
      /\ UNCHANGED <<profile, results, opt, applied, jobOptMap, waiting,
                     waitingKey, drKey, bestPod, thread, panicked>>
  BY DEF JobCompletes, maps
<1>3. ~InScan /\ (InScan' <=> InScan) /\ (Busy' <=> Busy)
  BY <1>2, ScannedFacts DEF InScan, IInv, ScanOK, Busy, TypeOK, Threads
<1>4. /\ thread.pc = "idle" /\ ~Busy /\ jobQueue = <<>>
      /\ \A k \in Jobs : jobs[k] = "active" => k = j
  BY <1>2, <1>3, RunningFacts
<1>5. /\ value \in Measures /\ <<j, value>> \in Jobs \X Measures
      /\ jobQueue' = << <<j, value>> >> /\ jobQueue' # <<>>
      /\ jobQueue'[1] = <<j, value>> /\ jobQueue'[1][1] = j
      /\ jobQueue'[1][2] = value /\ Len(jobQueue') = 1
      /\ (Harmless => value \in Values)
  <2>1. value \in Measures /\ (Harmless => value \in Values)
    BY TuneAssumption DEF Parsed, Measures, May, FaultKinds
  <2> QED
    BY <1>1, <1>4, <2>1, OneFacts
<1>6. /\ jobs \in [Jobs -> {"absent", "active", "complete"}]
      /\ profile \in [Jobs -> Profiles]
      /\ measured \in [Jobs -> SUBSET (Profiles \X Measures)]
  BY DEF IInv, TypeOK
<1>7. /\ jobs'[j] = "complete"
      /\ \A k \in Jobs \ {j} : jobs'[k] = jobs[k]
      /\ \A k \in Jobs : jobs'[k] # "active"
  BY <1>2, <1>4, <1>6
<1>8. /\ measured'[j] = measured[j] \cup {<<profile[j], value>>}
      /\ \A k \in Jobs \ {j} : measured'[k] = measured[k]
      /\ measured' \in [Jobs -> SUBSET (Profiles \X Measures)]
  <2>1. <<profile[j], value>> \in Profiles \X Measures
    BY <1>5, <1>6
  <2> QED
    BY <1>1, <1>6, <2>1
<1>9. TypeOK' /\ ~panicked' /\ ThreadOK'
  <2>1. jobQueue' \in Seq(Jobs \X Measures)
    BY <1>5
  <2>2. jobs' \in [Jobs -> {"absent", "active", "complete"}]
    BY <1>2, <1>6
  <2>3. TypeOK'
    BY <1>2, <1>8, <2>1, <2>2 DEF IInv, TypeOK
  <2> QED
    BY <1>2, <2>3 DEF IInv, ThreadOK, Busy
<1>10. TurnOK' /\ ScanOK' /\ UntunedOK'
  <2>1. TurnOK'
    BY <1>2, <1>3, <1>4, <1>5, <1>7 DEF TurnOK
  <2>2. ScanOK'
    BY <1>2, <1>3 DEF IInv, ScanOK
  <2>3. UntunedOK'
    BY <1>2 DEF IInv, UntunedOK
  <2> QED
    BY <2>1, <2>2, <2>3
<1>11. WaitOK'
  <2>1. ASSUME NEW m \in 1..Len(waiting)
        PROVE  waiting[m] \in Jobs /\ waiting[m] # j
    BY <1>2 DEF IInv, WaitOK, TypeOK
  <2> QED
    BY <1>2, <1>3, <1>4, <1>5, <1>7, <2>1 DEF IInv, WaitOK
<1>12. KeyOK'
  <2>1. Holding(j)
    BY <1>2 DEF Holding
  <2>2. \A k \in Jobs : Holding(k)' => Holding(k)
    BY <1>2, <1>3, <1>4, <1>5, <1>7, <2>1 DEF Holding
  <2> QED
    BY <1>2, <1>3, <1>4, <2>2 DEF IInv, KeyOK, TypeOK
<1>13. ASSUME NEW k \in Tuned PROVE RoundOK(k)'
  <2>1. RoundOK(k) /\ k \in Jobs
    BY TuneAssumption DEF IInv, RoundsOK
  <2>2. CASE k = j
    <3>1. Held(k) /\ Held(k)'
      BY <1>2, <1>5, <2>2 DEF Held
    <3>2. \A r : HeldRound(k, r) => HeldRound(k, r)'
      BY <1>2, <1>4, <1>5, <1>7, <1>8, <2>2 DEF HeldRound
    <3>3. ~Over(k) /\ measured[k] \subseteq measured'[k] /\ thread'.pc # "send"
      BY <1>2, <1>4, <1>8, <2>2, <3>1 DEF Over
    <3> QED
      BY <1>2, <2>1, <3>1, <3>2, <3>3, SameRound
  <2>3. CASE k # j
    <3>1. ~Held(k) /\ ~Held(k)' /\ measured'[k] = measured[k]
      BY <1>2, <1>4, <1>5, <1>7, <1>8, <2>1, <2>3 DEF Held
    <3>2. (Over(k) => Over(k)') /\ thread'.pc # "send"
      BY <1>2, <1>4, <3>1 DEF Over, Stuck
    <3> QED
      BY <1>2, <2>1, <3>1, <3>2, SameRound
  <2> QED
    BY <2>2, <2>3
<1>14. ASSUME NEW k \in Tuned, BestOK(k), Harmless
       PROVE  BestOK(k)'
  <2>1. k \in Jobs
    BY TuneAssumption
  <2>2. CASE k = j
    <3>1. /\ \A v : ~IsPending(k, v)
          /\ \A v : IsPending(k, v)' <=> v = value
          /\ Live(k) /\ Holding(k)'
      BY <1>2, <1>4, <1>5, <2>2 DEF IsPending, Live, Holding
    <3>2. results[k] = None /\ results'[k] = None
      BY <1>2, <1>14, <3>1 DEF BestOK
    <3>3. /\ measured'[k] = measured[k] \cup {<<profile[j], value>>}
          /\ <<profile[j], value>>[2] = value /\ value \in Values
          /\ thread'.pc = "idle" /\ bestPod'[k] = bestPod[k]
          /\ jobOptMap' = jobOptMap
      BY <1>2, <1>4, <1>5, <1>8, <1>14, <2>2
    <3>4. ASSUME NEW q \in measured'[k]
          PROVE  q \in measured[k] \/ q[2] = value
      BY <3>3
    <3>5. \E q \in measured'[k] : q[2] = value
      BY <3>3
    <3>6. bestPod[k] = None => \A q \in measured'[k] : IsPending(k, q[2])'
      BY <1>14, <3>1, <3>2, <3>4 DEF BestOK
    <3>7. bestPod[k] # None => IsBestOf(k, bestPod[k])' /\ k \in jobOptMap
      BY <1>14, <3>1, <3>2, <3>3, <3>4 DEF BestOK, IsBestOf
    <3>8. \A q \in measured'[k] : q[2] \in Values
      BY <1>14, <3>3, <3>4 DEF BestOK
    <3> QED
      BY <3>1, <3>2, <3>3, <3>5, <3>6, <3>7, <3>8 DEF BestOK
  <2>3. CASE k # j
    <3>1. /\ \A v : IsPending(k, v)' <=> IsPending(k, v)
          /\ (Live(k)' <=> Live(k)) /\ (Holding(k)' <=> Holding(k))
          /\ measured'[k] = measured[k] /\ jobs'[k] = jobs[k]
      BY <1>2, <1>3, <1>4, <1>5, <1>7, <1>8, <2>1, <2>3
      DEF IsPending, Live, Holding
    <3> QED
      BY <1>2, <1>14, <3>1 DEF BestOK, IsBestOf
  <2> QED
    BY <2>2, <2>3
<1>15. RoundsOK' /\ BestsOK' /\ FinalsOK'
  <2>1. FinalsOK'
    BY <1>2 DEF IInv, FinalsOK, FinalOK, FinalizedReady
  <2> QED
    BY <1>13, <1>14, <2>1 DEF IInv, RoundsOK, BestsOK
<1> QED
  BY <1>9, <1>10, <1>11, <1>12, <1>15 DEF IInv

-----------------------------------------------------------------------------
(***************************************************************************)
(* Steps of CreateIfNotExists.                                             *)
(***************************************************************************)

\* The thread's fields.
LEMMA ThreadType ==
    ASSUME TypeOK
    PROVE  /\ thread \in Threads
           /\ thread.pc \in {"scan", "create", "take", "apply", "idle",
                             "collect", "send", "record", "deploy", "pop"}
           /\ thread.from \in {"scan", "retune", "deploy"}
           /\ thread.i \in 1..(Len(Scanned) + 1)
           /\ thread.isNew \in BOOLEAN /\ thread.dr \in BOOLEAN
           /\ thread.profile \in Profiles /\ thread.value \in Measures
  BY DEF TypeOK, Threads

\* Where the caller goes on.
LEMMA ReturnFacts ==
    ASSUME TypeOK, ThreadOK, ScanOK, thread.pc \in Creating,
           NEW isNew \in BOOLEAN, NEW err, Return(isNew, err)
    PROVE  /\ thread' \in Threads
           /\ thread'.job = thread.job /\ thread'.dr = thread.dr
           /\ thread'.from = thread.from
           /\ UNCHANGED <<jobOptMap, waiting>>
           /\ thread.from = "scan" =>
                /\ thread'.pc = "scan" /\ thread'.i = thread.i + 1
                /\ (thread'.isNew <=> isNew) /\ UNCHANGED <<waitingKey, drKey>>
           /\ thread.from # "scan" => thread'.i = thread.i
           /\ thread.from = "retune" =>
                /\ thread'.pc = IF isNew /\ ~err THEN "idle" ELSE "pop"
                /\ UNCHANGED <<waitingKey, drKey>>
           /\ thread.from = "deploy" =>
                /\ thread'.pc = "idle" /\ (waitingKey' <=> waiting # <<>>)
                /\ (drKey' <=> drKey /\ ~(waiting = <<>> /\ thread.job \in applied'))
                /\ waitingKey' \in BOOLEAN /\ drKey' \in BOOLEAN
<1>1. thread \in Threads /\ thread.from \in {"scan", "retune", "deploy"}
  BY ThreadType
<1>2. CASE thread.from = "scan"
  <2>1. thread.i = 1 /\ Len(Scanned) >= 1
    BY <1>2 DEF ScanOK, InScan
  <2>2. thread' = [thread EXCEPT !.pc = "scan", !.isNew = isNew, !.i = @ + 1]
        /\ UNCHANGED maps
    BY <1>2 DEF Return
  <2>3. thread.i + 1 \in 1..(Len(Scanned) + 1)
    BY <2>1, ScannedFacts
  <2>4. PICK w : w = [thread EXCEPT !.pc = "scan", !.isNew = isNew,
                                    !.i = thread.i + 1]
    OBVIOUS
  <2>5. /\ w \in Threads /\ w.pc = "scan" /\ w.i = thread.i + 1
        /\ (w.isNew <=> isNew) /\ w.job = thread.job /\ w.dr = thread.dr
        /\ w.from = thread.from
    BY <1>1, <2>3, <2>4 DEF Threads
  <2>6. thread' = w
    BY <1>1, <2>2, <2>4 DEF Threads
  <2> QED
    BY <1>2, <2>2, <2>5, <2>6 DEF maps
<1>3. CASE thread.from = "retune"
  <2>1. /\ thread' = [thread EXCEPT !.pc = IF isNew /\ ~err THEN "idle" ELSE "pop"]
        /\ UNCHANGED maps
    BY <1>3 DEF Return
  <2> QED
    BY <1>1, <1>3, <2>1 DEF Threads, maps
<1>4. CASE thread.from = "deploy"
  <2>1. /\ thread' = [thread EXCEPT !.pc = "idle"]
        /\ waitingKey' = (waiting # <<>>)
        /\ drKey' = (drKey /\ ~(waiting = <<>> /\ thread.job \in applied'))
        /\ UNCHANGED <<jobOptMap, waiting>>
    BY <1>4 DEF Return
  <2> QED
    BY <1>1, <1>4, <2>1 DEF Threads
<1> QED
  BY <1>1, <1>2, <1>3, <1>4

\* A step that leaves alone all that is kept of a job, and that the thread
\* does on another job, keeps what is said of it.
LEMMA OtherJob ==
    ASSUME NEW k \in Tuned,
           RoundOK(k), Harmless => BestOK(k),
           MayEnd => FinalOK(k),
           Busy => thread.job # k, Busy' => thread'.job # k,
           \/ UNCHANGED jobQueue
           \/ /\ jobQueue # <<>> => jobQueue[1][1] # k
              /\ jobQueue' # <<>> => jobQueue'[1][1] # k,
           opt'[k] = opt[k], jobs'[k] = jobs[k], profile'[k] = profile[k],
           measured'[k] = measured[k], results'[k] = results[k],
           bestPod'[k] = bestPod[k], k \in applied' <=> k \in applied,
           k \in jobOptMap => k \in jobOptMap', UNCHANGED fault,
           \/ UNCHANGED waiting
           \/ \A m \in 1..Len(waiting') :
                \/ m \in 1..Len(waiting) /\ waiting'[m] = waiting[m]
                \/ opt[k].pc = "tune" => waiting'[m] # k
    PROVE  /\ RoundOK(k)'
           /\ Harmless => BestOK(k)'
           /\ MayEnd => FinalOK(k)'
<1>1. /\ thread.job = k => thread.pc \notin Creating \cup Collecting
      /\ thread'.job = k => thread'.pc \notin Creating \cup Collecting
  BY DEF Busy
<1>2. /\ Held(k)' <=> Held(k)
      /\ \A r : HeldRound(k, r)' <=> HeldRound(k, r)
      /\ \A v : IsPending(k, v)' <=> IsPending(k, v)
      /\ Live(k)' <=> Live(k)
      /\ Holding(k)' <=> Holding(k)
  BY <1>1 DEF Held, HeldRound, IsPending, Live, Holding, Busy, Creating, Collecting
<1>3. RoundOK(k)'
  <2>1. opt[k].pc = "tune" /\ Over(k) => Over(k)'
    BY <1>1, <1>2 DEF Over, Stuck, Collecting
  <2>2. ~(thread'.pc = "send" /\ thread'.job = k)
    BY <1>1 DEF Collecting
  <2> QED
    BY <1>2, <2>1, <2>2, SameRound
<1>4. ASSUME Harmless PROVE BestOK(k)'
  <2>1. BestOK(k)
    BY <1>4
  <2>2. \A v : IsBestOf(k, v)' <=> IsBestOf(k, v)
    BY <1>2 DEF IsBestOf
  <2> QED
    BY <1>1, <1>2, <2>1, <2>2 DEF BestOK, Creating, Collecting
<1>5. ASSUME MayEnd PROVE FinalOK(k)'
  <2>1. FinalOK(k)
    BY <1>5
  <2>2. /\ ~(thread.pc = "apply" /\ thread.job = k)
        /\ ~(thread'.pc = "apply" /\ thread'.job = k)
    BY <1>1 DEF Creating, Collecting
  <2> QED
    BY <2>1, <2>2 DEF FinalOK, FinalizedReady
<1> QED
  BY <1>3, <1>4, <1>5

\* What the invariant says of one tuned job.
LEMMA TunedFacts ==
    ASSUME IInv, NEW k \in Tuned
    PROVE  /\ k \in Jobs /\ RoundOK(k)
           /\ Harmless => BestOK(k)
           /\ MayEnd => FinalOK(k)
  BY TuneAssumption DEF IInv, RoundsOK, BestsOK, FinalsOK

\* The end of CreateIfNotExists keeps what is said of the turn, the scan, the
\* jobs that wait and the maps.
LEMMA ReturnIInv ==
    ASSUME IInv, thread.pc \in Creating,
           NEW isNew \in BOOLEAN, NEW err \in BOOLEAN,
           NEW s \in {"absent", "active", "complete"},
           Return(isNew, err), jobs' = [jobs EXCEPT ![thread.job] = s],
           profile' \in [Jobs -> Profiles],
           UNCHANGED <<measured, results, opt, applied, bestPod, jobQueue,
                       panicked, fault>>,
           InScan => isNew /\ s # "complete",
           s = "active" /\ ~InScan => isNew /\ ~err
    PROVE  /\ TypeOK' /\ ~panicked' /\ ThreadOK' /\ TurnOK' /\ ScanOK'
           /\ WaitOK' /\ KeyOK' /\ UntunedOK'
<1> DEFINE j == thread.job
<1>1. /\ TypeOK /\ ~panicked /\ ThreadOK /\ TurnOK /\ ScanOK /\ WaitOK /\ KeyOK
      /\ UntunedOK
  BY DEF IInv
<1>2. /\ thread' \in Threads
      /\ thread'.job = j /\ thread'.dr = thread.dr /\ thread'.from = thread.from
      /\ UNCHANGED <<jobOptMap, waiting>>
      /\ thread.from = "scan" =>
           /\ thread'.pc = "scan" /\ thread'.i = thread.i + 1
           /\ (thread'.isNew <=> isNew) /\ UNCHANGED <<waitingKey, drKey>>
      /\ thread.from # "scan" => thread'.i = thread.i
      /\ thread.from = "retune" =>
           /\ thread'.pc = IF isNew /\ ~err THEN "idle" ELSE "pop"
           /\ UNCHANGED <<waitingKey, drKey>>
      /\ thread.from = "deploy" =>
           /\ thread'.pc = "idle" /\ (waitingKey' <=> waiting # <<>>)
           /\ (drKey' <=> drKey /\ ~(waiting = <<>> /\ j \in applied))
           /\ waitingKey' \in BOOLEAN /\ drKey' \in BOOLEAN
  BY <1>1, ReturnFacts
<1>3. /\ thread.from \in {"scan", "retune", "deploy"} /\ Busy
      /\ (InScan <=> thread.from = "scan") /\ (InScan' <=> InScan)
      /\ thread'.pc \notin Creating /\ (Busy' <=> thread'.pc = "pop")
      /\ thread'.pc \in {"scan", "idle", "pop"}
      /\ thread'.pc = "scan" <=> thread.from = "scan"
  BY <1>1, <1>2, ThreadType DEF InScan, Busy, Creating, Collecting
<1>4. /\ j \in Jobs /\ jobQueue = <<>>
      /\ \A k \in Jobs : jobs[k] = "active" => k = j
  BY <1>1, <1>3 DEF ThreadOK, TurnOK
<1>5. /\ jobs' \in [Jobs -> {"absent", "active", "complete"}]
      /\ jobs'[j] = s /\ \A k \in Jobs \ {j} : jobs'[k] = jobs[k]
      /\ \A k \in Jobs : jobs'[k] = "active" => k = j
  BY <1>1, <1>4 DEF TypeOK
<1>6. TypeOK' /\ ~panicked'
  <2>1. waitingKey' \in BOOLEAN /\ drKey' \in BOOLEAN
    BY <1>1, <1>2, <1>3 DEF TypeOK
  <2> QED
    BY <1>1, <1>2, <1>5, <2>1 DEF TypeOK
<1>7. ThreadOK'
  BY <1>2, <1>3, <1>4 DEF ThreadOK, Creating
<1>8. thread'.pc = "pop" => s # "active"
  BY <1>2, <1>3
<1>9. TurnOK'
  <2>1. thread'.pc = "scan" => thread'.i # 1 /\ j = Scanned[1]
    BY <1>1, <1>2, <1>3 DEF ScanOK
  <2> QED
    BY <1>3, <1>4, <1>5, <1>8, <2>1 DEF TurnOK
<1>10. thread.from = "scan" => thread.i = 1 /\ thread'.i = 2 /\ waiting = <<>>
  BY <1>1, <1>2, <1>3 DEF ScanOK
<1>11. ScanOK'
  <2>1. thread'.pc = "scan" => /\ thread'.isNew <=> thread'.i > 1
                               /\ thread'.from = "scan"
    BY <1>2, <1>3, <1>10
  <2>2. InScan' => \A k \in Jobs : jobs'[k] # "complete"
    BY <1>1, <1>3, <1>5 DEF ScanOK
  <2>3. ~InScan' => thread'.i = Len(Scanned) + 1
    BY <1>1, <1>2, <1>3 DEF ScanOK
  <2>4. ASSUME NEW n \in 1..Len(Scanned)
        PROVE  IF n > thread'.i \/ (n = thread'.i /\ thread'.pc = "scan")
               THEN opt'[Scanned[n]] = Unborn
               ELSE opt'[Scanned[n]].pc # "unborn"
    <3>1. opt'[Scanned[n]] = opt[Scanned[n]]
      OBVIOUS
    <3>2. CASE thread.from = "scan"
      <4>1. thread.i = 1 /\ thread'.i = 2 /\ thread.pc # "scan" /\ thread'.pc = "scan"
        BY <1>2, <1>10, <3>2 DEF Creating
      <4>2. (n > 1 \/ n = 1) /\ (n > 1 <=> n > 2 \/ n = 2) /\ ~(n = 1 /\ n > 1)
        OBVIOUS
      <4> QED
        BY <1>1, <3>1, <4>1, <4>2 DEF ScanOK
    <3>3. CASE thread.from # "scan"
      <4>1. thread'.i = thread.i /\ thread.pc # "scan" /\ thread'.pc # "scan"
        BY <1>2, <1>3, <3>3 DEF Creating
      <4> QED
        BY <1>1, <3>1, <4>1 DEF ScanOK
    <3> QED
      BY <3>2, <3>3
  <2> QED
    BY <1>1, <1>2, <1>3, <1>4, <2>1, <2>2, <2>3, <2>4 DEF ScanOK
<1>12. WaitOK'
  <2>1. ASSUME NEW m \in 1..Len(waiting)
        PROVE  /\ waiting[m] \in Jobs /\ waiting[m] # j
               /\ jobs'[waiting[m]] = "absent"
    BY <1>1, <1>3, <1>5 DEF WaitOK, TypeOK
  <2>2. thread'.pc = "scan" => waiting = <<>> /\ ~(thread'.i > 2)
    BY <1>3, <1>10
  <2> QED
    BY <1>1, <1>2, <1>3, <1>4, <2>1, <2>2 DEF WaitOK
<1>13. KeyOK'
  <2>1. ASSUME ~InScan, NEW k \in jobOptMap \ applied, Holding(k)' PROVE drKey'
    <3>1. k = j
      BY <1>2, <1>3, <1>4, <1>5, <2>1 DEF Holding, TypeOK, IInv
    <3>2. Holding(j)
      BY <1>3 DEF Holding
    <3>3. drKey
      BY <1>1, <2>1, <3>1, <3>2 DEF KeyOK
    <3> QED
      BY <1>2, <1>3, <2>1, <3>1, <3>3
  <2>2. ~InScan => (waitingKey' <=> waiting # <<>>)
    BY <1>1, <1>2, <1>3 DEF KeyOK
  <2>3. ASSUME ~InScan, waiting # <<>> PROVE drKey'
    <3>1. drKey
      BY <1>1, <2>3 DEF KeyOK
    <3>2. thread.from \in {"retune", "deploy"}
      BY <1>3, <2>3
    <3> QED
      BY <1>2, <2>3, <3>1, <3>2
  <2>4. thread'.dr
    BY <1>1, <1>2 DEF KeyOK
  <2> QED
    BY <1>2, <1>3, <2>1, <2>2, <2>3, <2>4 DEF KeyOK
<1>14. UntunedOK'
  BY <1>1 DEF UntunedOK
<1> QED
  BY <1>6, <1>7, <1>9, <1>11, <1>12, <1>13, <1>14

LEMMA CreateUntunedIInv ==
    ASSUME IInv, CreateUntuned, UNCHANGED fault
    PROVE  IInv'
<1> DEFINE j == thread.job
           create == results[j] = None /\ jobs[j] = "absent"
<1>1. PICK err \in {FALSE, create /\ May("create")} :
        /\ jobs' = IF create /\ ~err THEN [jobs EXCEPT ![j] = "active"] ELSE jobs
        /\ Return(results[j] = None /\ jobs[j] # "complete", err)
  BY DEF CreateUntuned
<1> DEFINE s == IF create /\ ~err THEN "active" ELSE jobs[j]
           isNew == results[j] = None /\ jobs[j] # "complete"
<1>2. /\ thread.pc = "create" /\ thread.pc \in Creating /\ Busy
      /\ results[j] # None \/ jobs[j] = "active" \/ j \notin Tuned
      /\ panicked' = (results[j] = None /\ ~thread.dr)
      /\ UNCHANGED <<profile, measured, results, opt, applied, bestPod, jobQueue>>
  BY DEF CreateUntuned, Lookup, Creating, Busy
<1>3. /\ TypeOK /\ ThreadOK /\ TurnOK /\ ScanOK /\ KeyOK /\ j \in Jobs
      /\ jobs \in [Jobs -> {"absent", "active", "complete"}]
      /\ profile \in [Jobs -> Profiles]
      /\ panicked \in BOOLEAN /\ ~panicked /\ thread.dr
  BY <1>2 DEF IInv, ThreadOK, TypeOK, KeyOK
<1>4. UNCHANGED panicked
  BY <1>2, <1>3
<1>5. jobs' = [jobs EXCEPT ![j] = s] /\ s \in {"absent", "active", "complete"}
  BY <1>1, <1>3
<1>6. isNew \in BOOLEAN /\ err \in BOOLEAN /\ Return(isNew, err)
  BY <1>1
<1>7. InScan => isNew /\ s # "complete"
  BY <1>3 DEF ScanOK
<1>8. s = "active" /\ ~InScan => isNew /\ ~err
  BY <1>2, <1>3 DEF TurnOK
<1>9. /\ TypeOK' /\ ~panicked' /\ ThreadOK' /\ TurnOK' /\ ScanOK'
      /\ WaitOK' /\ KeyOK' /\ UntunedOK'
  <2>1. profile' \in [Jobs -> Profiles]
    BY <1>2, <1>3
  <2> HIDE DEF s, isNew
  <2> QED
    BY <1>2, <1>4, <1>5, <1>6, <1>7, <1>8, <2>1, ReturnIInv
<1>10. /\ thread'.job = j /\ UNCHANGED <<jobOptMap, waiting>>
       /\ thread'.pc \in {"scan", "idle", "pop"}
       /\ jobQueue = <<>>
  <2>1. thread.from \in {"scan", "retune", "deploy"}
    BY <1>3, ThreadType
  <2> QED
    BY <1>2, <1>3, <1>6, <2>1, ReturnFacts DEF TurnOK
<1>11. ASSUME NEW k \in Tuned
       PROVE  /\ RoundOK(k)'
              /\ Harmless => BestOK(k)'
              /\ MayEnd => FinalOK(k)'
  <2>1. /\ k \in Jobs /\ RoundOK(k)
        /\ Harmless => BestOK(k)
        /\ MayEnd => FinalOK(k)
    BY TunedFacts
  <2>2. CASE k # j
    <3>1. jobs'[k] = jobs[k]
      BY <1>3, <1>5, <2>1, <2>2
    <3> QED
      BY <1>2, <1>10, <2>1, <2>2, <3>1, OtherJob
  <2>3. CASE k = j
    <3>1. jobs[k] # "active" /\ results[k] # None
      BY <1>2, <1>3, <2>3 DEF TurnOK
    <3>2. UNCHANGED jobs
      BY <1>1, <2>3, <3>1
    <3>3. /\ ~Held(k) /\ ~Held(k)' /\ ~Live(k)'
          /\ \A v : IsPending(k, v)' <=> IsPending(k, v)
      BY <1>2, <1>10, <3>1, <3>2 DEF Held, IsPending, Live
    <3>4. RoundOK(k)'
      <4>1. ~Over(k) /\ thread'.pc # "send"
        BY <1>2, <1>10, <2>3 DEF Over
      <4> QED
        BY <1>2, <2>1, <3>3, <4>1, SameRound
    <3>5. ASSUME BestOK(k) PROVE BestOK(k)'
      BY <1>2, <1>10, <3>1, <3>2, <3>3, <3>5 DEF BestOK, IsBestOf
    <3>6. ASSUME FinalOK(k) PROVE FinalOK(k)'
      BY <1>2, <1>10, <3>6 DEF FinalOK, FinalizedReady
    <3> QED
      BY <2>1, <3>4, <3>5, <3>6
  <2> QED
    BY <2>2, <2>3
<1> QED
  BY <1>9, <1>11 DEF IInv, RoundsOK, BestsOK, FinalsOK

LEMMA CreateTunedIInv ==
    ASSUME IInv, CreateTuned, UNCHANGED fault
    PROVE  IInv'
<1> DEFINE j == thread.job
<1>1. /\ thread.pc = "create" /\ thread' = [thread EXCEPT !.pc = "take"]
      /\ results[j] = None /\ jobs[j] # "active" /\ j \in Tuned
      /\ panicked' = (results[j] = None /\ ~thread.dr)
      /\ UNCHANGED <<jobs, profile, measured, results, opt, applied, jobOptMap,
                     waiting, waitingKey, drKey, bestPod, jobQueue>>
  BY DEF CreateTuned, Lookup, cluster, maps
<1>2. /\ TypeOK /\ ~panicked /\ ThreadOK /\ TurnOK /\ ScanOK /\ WaitOK /\ KeyOK
      /\ UntunedOK /\ j \in Jobs
  BY <1>1 DEF IInv, ThreadOK, Busy, Creating
<1>3. /\ thread' \in Threads /\ thread'.pc = "take" /\ thread'.job = j
      /\ thread'.from = thread.from /\ thread'.i = thread.i
      /\ thread'.dr = thread.dr /\ thread'.value = thread.value
      /\ thread'.isNew = thread.isNew
  BY <1>1, <1>2, ThreadType DEF Threads
<1>4. Busy /\ Busy' /\ (InScan' <=> InScan) /\ ~panicked'
  BY <1>1, <1>2, <1>3 DEF Busy, InScan, Creating, KeyOK
<1>5. TypeOK' /\ ThreadOK'
  <2>1. TypeOK'
    BY <1>1, <1>2, <1>3 DEF TypeOK
  <2>2. ThreadOK'
    BY <1>1, <1>2, <1>3 DEF ThreadOK, Creating
  <2> QED
    BY <2>1, <2>2
<1>6. jobQueue = <<>> /\ \A k \in Jobs : jobs[k] # "active"
  BY <1>1, <1>2, <1>4 DEF TurnOK
<1>7. TurnOK' /\ ScanOK' /\ WaitOK' /\ UntunedOK'
  <2>1. TurnOK'
    BY <1>1, <1>3, <1>4, <1>6 DEF TurnOK
  <2>2. ScanOK'
    BY <1>1, <1>2, <1>3, <1>4 DEF ScanOK, Creating
  <2>3. WaitOK'
    BY <1>1, <1>2, <1>3, <1>4 DEF WaitOK
  <2>4. UntunedOK'
    BY <1>1, <1>2 DEF UntunedOK
  <2> QED
    BY <2>1, <2>2, <2>3, <2>4
<1>8. KeyOK'
  <2>1. \A k : Holding(k)' <=> Holding(k)
    BY <1>1, <1>3, <1>4 DEF Holding
  <2> QED
    BY <1>1, <1>2, <1>3, <1>4, <2>1 DEF KeyOK, Creating
<1>9. ASSUME NEW k \in Tuned
       PROVE  /\ RoundOK(k)'
              /\ Harmless => BestOK(k)'
              /\ MayEnd => FinalOK(k)'
  <2>1. /\ k \in Jobs /\ RoundOK(k)
        /\ Harmless => BestOK(k)
        /\ MayEnd => FinalOK(k)
    BY TunedFacts
  <2>3. /\ Held(k)' <=> Held(k)
        /\ \A r : HeldRound(k, r)' <=> HeldRound(k, r)
        /\ \A v : IsPending(k, v)' <=> IsPending(k, v)
        /\ Holding(k)' <=> Holding(k)
        /\ Live(k)' => Live(k) \/ k = j
    BY <1>1, <1>3, <1>4 DEF Held, HeldRound, IsPending, Holding, Live
  <2>4. RoundOK(k)'
    <3>1. (Over(k) => Over(k)') /\ thread'.pc # "send"
      BY <1>1, <1>3, <2>3 DEF Over, Stuck, Creating
    <3> QED
      BY <1>1, <2>1, <2>3, <3>1, SameRound
  <2>5. ASSUME BestOK(k) PROVE BestOK(k)'
    BY <1>1, <1>3, <2>3, <2>5 DEF BestOK, IsBestOf
  <2>6. ASSUME FinalOK(k) PROVE FinalOK(k)'
    BY <1>1, <1>3, <2>6 DEF FinalOK, FinalizedReady
  <2> QED
    BY <2>1, <2>4, <2>5, <2>6
<1> QED
  BY <1>4, <1>5, <1>7, <1>8, <1>9 DEF IInv, RoundsOK, BestsOK, FinalsOK

\* The round and the end of the tuning of the thread's job.
TakerOK == RoundOK(thread.job) /\ (MayEnd => FinalOK(thread.job))

\* The thread receives a profile from the optimizer: what changes is where the
\* thread is, and perhaps the optimizer's state.
LEMMA TakeFrame ==
    ASSUME IInv, thread.pc = "take", thread' \in Threads, thread'.pc = "apply",
           thread'.job = thread.job, thread'.from = thread.from,
           thread'.i = thread.i, thread'.dr = thread.dr,
           opt' \in [Jobs -> Optimizers],
           \A k \in Jobs \ {thread.job} : opt'[k] = opt[k],
           Len(opt'[thread.job].SampleQueue) <= QSize,
           Len(opt'[thread.job].ResultQueue) <= QSize,
           opt[thread.job].pc # "unborn", opt'[thread.job].pc # "unborn",
           applied' \in {applied, applied \cup {thread.job}},
           UNCHANGED <<cluster, results, maps, bestPod, jobQueue, panicked,
                       fault>>,
           TakerOK'
    PROVE  IInv'
<1> DEFINE j == thread.job
<1>1. UNCHANGED <<jobs, profile, measured, results, jobOptMap, waiting,
                  waitingKey, drKey, bestPod, jobQueue, panicked, fault>>
  BY DEF cluster, maps
<1>2. /\ TypeOK /\ ~panicked /\ ThreadOK /\ TurnOK /\ ScanOK /\ WaitOK /\ KeyOK
      /\ UntunedOK /\ j \in Tuned /\ j \in Jobs
  BY TuneAssumption DEF IInv, ThreadOK
<1>3. /\ thread' \in Threads /\ thread'.pc = "apply" /\ thread'.job = j
      /\ thread'.from = thread.from /\ thread'.i = thread.i
      /\ thread'.dr = thread.dr
  OBVIOUS
<1>4. Busy /\ Busy' /\ (InScan' <=> InScan) /\ ~panicked'
  BY <1>1, <1>2, <1>3 DEF Busy, InScan, Creating
<1>5. /\ opt \in [Jobs -> Optimizers] /\ opt' \in [Jobs -> Optimizers]
      /\ opt'[j].pc # "unborn" /\ \A k \in Jobs \ {j} : opt'[k] = opt[k]
  BY <1>2 DEF TypeOK
<1>6. TypeOK' /\ ThreadOK'
  <2>1. \A k \in Jobs : Len(opt'[k].SampleQueue) <= QSize
                        /\ Len(opt'[k].ResultQueue) <= QSize
    BY <1>2, <1>5 DEF TypeOK
  <2>2. applied' \subseteq Jobs
    BY <1>2 DEF TypeOK
  <2>3. TypeOK'
    BY <1>1, <1>2, <1>3, <1>5, <2>1, <2>2 DEF TypeOK
  <2>4. ThreadOK'
    BY <1>2, <1>3 DEF ThreadOK, Creating
  <2> QED
    BY <2>3, <2>4
<1>7. jobQueue = <<>> /\ \A k \in Jobs : jobs[k] # "active"
  BY <1>2, <1>4 DEF TurnOK
<1>8. TurnOK' /\ ScanOK' /\ WaitOK' /\ UntunedOK'
  <2>1. TurnOK'
    BY <1>1, <1>3, <1>4, <1>7 DEF TurnOK
  <2>2. ScanOK'
    <3>1. ASSUME NEW n \in 1..Len(Scanned)
          PROVE  /\ opt[Scanned[n]] = Unborn => opt'[Scanned[n]] = Unborn
                 /\ opt[Scanned[n]].pc # "unborn" => opt'[Scanned[n]].pc # "unborn"
      BY <1>5, ScannedFacts DEF Unborn
    <3> QED
      BY <1>1, <1>2, <1>3, <1>4, <3>1 DEF ScanOK, Creating
  <2>3. WaitOK'
    <3>1. ASSUME NEW m \in 1..Len(waiting)
          PROVE  /\ jobs[waiting[m]] = "absent"
                 /\ waiting[m] \notin Tuned \cap applied'
                 /\ j # waiting[m]
                 /\ ~InScan => waiting[m] \in jobOptMap
      BY <1>2, <1>4 DEF WaitOK
    <3>2. Len(Scanned) > 1 /\ ~InScan => Jobs \ jobOptMap \subseteq applied'
      BY <1>2 DEF WaitOK
    <3>3. \A m, n \in 1..Len(waiting) : waiting[m] = waiting[n] => m = n
      BY <1>2 DEF WaitOK
    <3> QED
      BY <1>1, <1>3, <1>4, <1>7, <3>1, <3>2, <3>3 DEF WaitOK
  <2>4. UntunedOK'
    BY <1>2, <1>5 DEF UntunedOK
  <2> QED
    BY <2>1, <2>2, <2>3, <2>4
<1>9. KeyOK'
  <2>1. \A k : Holding(k)' <=> Holding(k)
    BY <1>1, <1>3, <1>4 DEF Holding
  <2>2. jobOptMap' \ applied' \subseteq jobOptMap \ applied
    BY <1>1
  <2> QED
    BY <1>1, <1>2, <1>3, <1>4, <2>1, <2>2 DEF KeyOK, Creating
<1>10. ASSUME NEW k \in Tuned
       PROVE  /\ RoundOK(k)'
              /\ Harmless => BestOK(k)'
              /\ MayEnd => FinalOK(k)'
  <2>1. /\ k \in Jobs /\ RoundOK(k)
        /\ Harmless => BestOK(k)
        /\ MayEnd => FinalOK(k)
    BY TunedFacts
  <2>2. CASE k # j
    <3>1. opt'[k] = opt[k] /\ (k \in applied' <=> k \in applied)
      BY <1>5, <2>1, <2>2
    <3> QED
      BY <1>1, <1>3, <2>1, <2>2, <3>1, OtherJob
  <2>3. CASE k = j
    <3>1. /\ \A v : IsPending(k, v)' <=> IsPending(k, v)
          /\ Holding(k)' <=> Holding(k)
          /\ Live(k)' <=> Live(k)
      BY <1>1, <1>3, <1>4, <2>3 DEF IsPending, Holding, Live
    <3>2. ASSUME BestOK(k) PROVE BestOK(k)'
      BY <1>1, <1>3, <3>1, <3>2 DEF BestOK, IsBestOf
    <3>3. RoundOK(k)' /\ (MayEnd => FinalOK(k)')
      BY <1>3, <2>3 DEF TakerOK
    <3> QED
      BY <2>1, <3>2, <3>3
  <2> QED
    BY <2>2, <2>3
<1> QED
  BY <1>4, <1>6, <1>8, <1>9, <1>10 DEF IInv, RoundsOK, BestsOK, FinalsOK

LEMMA TakeSampleIInv ==
    ASSUME IInv, TakeSample, UNCHANGED fault
    PROVE  IInv'
<1>0. PICK j \in Tuned : thread.job = j
  BY DEF IInv, ThreadOK, TakeSample
<1>14. PICK r : r = Head(opt[j].SampleQueue)
  OBVIOUS
<1> DEFINE o == [opt[j] EXCEPT !.SampleQueue = Tail(opt[j].SampleQueue)]
<1>1. /\ thread.pc = "take" /\ opt[j].SampleQueue # <<>>
      /\ thread' = [thread EXCEPT !.pc = "apply", !.profile = r]
      /\ opt' = [opt EXCEPT ![j].SampleQueue = Tail(@)]
      /\ UNCHANGED <<jobs, profile, measured, results, applied, jobOptMap,
                     waiting, waitingKey, drKey, bestPod, jobQueue, panicked>>
  BY <1>0, <1>14 DEF TakeSample, cluster, maps
<1>2. /\ j \in Tuned /\ j \in Jobs /\ RoundOK(j) /\ (MayEnd => FinalOK(j))
      /\ Busy /\ j \notin applied
      /\ opt \in [Jobs -> Optimizers] /\ OptimizerOK(j)
      /\ opt[j] \in Optimizers
  <2>1. j \notin applied
    BY <1>0, <1>1 DEF IInv, ThreadOK
  <2> QED
    BY <1>1, <2>1, TunedFacts, OptimizerType DEF IInv, TypeOK, Busy, Creating
<1>3. jobQueue = <<>> /\ \A k \in Jobs : jobs[k] # "active"
  BY <1>1, <1>2 DEF IInv, TurnOK
<1>4. /\ opt[j].pc = "tune" /\ ~Held(j) /\ ~Over(j)
      /\ InFlight(j) <= Len(opt[j].submitted)
  BY <1>0, <1>1, <1>2, <1>3 DEF RoundOK, NoSample, Held, Over, Creating
<1>5. /\ r \in Profiles /\ r = opt[j].SampleQueue[1]
      /\ Tail(opt[j].SampleQueue) \in Seq(Profiles)
      /\ Len(opt[j].SampleQueue) \in Nat \ {0}
      /\ Len(opt[j].ResultQueue) \in Nat /\ Len(opt[j].submitted) \in Nat
      /\ Len(Tail(opt[j].SampleQueue)) = Len(opt[j].SampleQueue) - 1
      /\ \A i \in 1..Len(Tail(opt[j].SampleQueue)) :
           /\ i + 1 \in 1..Len(opt[j].SampleQueue)
           /\ Tail(opt[j].SampleQueue)[i] = opt[j].SampleQueue[i + 1]
  BY <1>1, <1>2, <1>14, TailFacts DEF OptimizerOK
<1>6. /\ o \in Optimizers /\ o.SampleQueue = Tail(opt[j].SampleQueue)
      /\ o.pc = "tune" /\ o.round = opt[j].round
      /\ o.ResultQueue = opt[j].ResultQueue
      /\ o.log = opt[j].log /\ o.finalized = opt[j].finalized
      /\ o.awaiting = opt[j].awaiting /\ o.submitted = opt[j].submitted
  BY <1>2, <1>4, <1>5 DEF Optimizers, OptimizerOK
<1>7. opt' = [opt EXCEPT ![j] = o] /\ opt'[j] = o
  BY <1>1, <1>2
<1>8. /\ thread' \in Threads /\ thread'.pc = "apply" /\ thread'.job = j
      /\ thread'.profile = r /\ thread'.from = thread.from
      /\ thread'.i = thread.i /\ thread'.dr = thread.dr
  BY <1>0, <1>1, <1>5, ThreadType DEF IInv, Threads
<1> HIDE DEF o
<1>9. RoundOK(j)'
  <2>1. Held(j)' /\ HeldRound(j, r)'
    <3>1. /\ thread'.pc = "apply" /\ thread'.job = j /\ thread'.profile = r
          /\ jobs'[j] # "active" /\ jobQueue' = <<>>
      BY <1>1, <1>2, <1>3, <1>8
    <3>2. Held(j)'
      BY <3>1 DEF Held
    <3>3. HeldRound(j, r)'
      BY <3>1 DEF HeldRound
    <3> QED
      BY <3>2, <3>3
  <2>2. InHand(j) = 0 /\ InHand(j)' = 1
    BY <1>4, <2>1 DEF InHand
  <2>3. PICK s \in Nat, q \in Nat, t \in Nat :
          /\ s = Len(o.SampleQueue) /\ Len(opt[j].SampleQueue) = s + 1
          /\ q = Len(opt[j].ResultQueue) /\ t = Len(opt[j].submitted)
    <3>1. PICK a \in Nat \ {0} : a = Len(opt[j].SampleQueue)
      BY <1>5
    <3>2. a - 1 \in Nat /\ Len(o.SampleQueue) = a - 1 /\ a - 1 + 1 = a
      BY <1>5, <1>6, <3>1
    <3> QED
      BY <1>5, <3>1, <3>2
  <2>6. InFlight(j) = q + 0 + (s + 1) /\ InFlight(j)' = q + 1 + s
    BY <1>6, <1>7, <2>2, <2>3 DEF InFlight
  <2>7. InFlight(j)' = InFlight(j)
    BY <2>6
  <2>4. Received(j) => Received(j)'
    BY <1>1, <1>6, <1>7 DEF Received
  <2>5. ASSUME Whole(j) PROVE Whole(j)'
    <3>0. ASSUME NEW i \in 1..(s + 1)
          PROVE  opt[j].SampleQueue[i] = o.submitted[q + i]
      <4>1. opt[j].SampleQueue[i] = opt[j].submitted[q + 0 + i]
        BY <2>2, <2>3, <2>5 DEF Whole
      <4>2. q + 0 + i = q + i
        OBVIOUS
      <4> QED
        BY <1>6, <4>1, <4>2
    <3>1. r = o.submitted[q + 1]
      BY <1>5, <3>0
    <3>2. ASSUME NEW i \in 1..s
          PROVE  o.SampleQueue[i] = o.submitted[q + 1 + i]
      <4>1. i + 1 \in 1..(s + 1) /\ q + (i + 1) = q + 1 + i
        OBVIOUS
      <4>2. o.SampleQueue[i] = opt[j].SampleQueue[i + 1]
        BY <1>5, <1>6, <2>3
      <4> QED
        BY <3>0, <4>1, <4>2
    <3>3. InFlight(j)' = Len(o.submitted)
      BY <1>6, <2>7, <2>5 DEF Whole
    <3> QED
      <4>1. /\ opt'[j].SampleQueue = o.SampleQueue
            /\ opt'[j].submitted = o.submitted /\ Len(opt'[j].ResultQueue) = q
        BY <1>6, <1>7, <2>3
      <4>2. PICK x : x = opt'[j].submitted[Len(opt'[j].ResultQueue) + 1]
        OBVIOUS
      <4>3. x = r
        BY <3>1, <4>1, <4>2
      <4>4. HeldRound(j, x)'
        BY <2>1, <4>3 DEF HeldRound
      <4>5. (Held(j) => HeldRound(j, opt[j].submitted[Len(opt[j].ResultQueue) + 1]))'
        BY <4>2, <4>4 DEF HeldRound
      <4> QED
        BY <2>2, <2>3, <3>2, <3>3, <4>1, <4>5 DEF Whole
  <2> QED
    BY <1>1, <1>2, <1>4, <1>6, <1>7, <1>8, <2>4, <2>5, <2>7 DEF RoundOK
<1>10. MayEnd => FinalOK(j)'
  BY <1>1, <1>2, <1>4, <1>6, <1>7, <1>8 DEF FinalOK, FinalizedReady
<1>11. /\ UNCHANGED <<cluster, results, maps, bestPod, jobQueue, panicked, fault>>
       /\ applied' \in {applied, applied \cup {j}}
       /\ opt[j].pc # "unborn" /\ opt'[j].pc # "unborn"
  BY <1>1, <1>4, <1>6, <1>7 DEF cluster, maps
<1>12. TakerOK'
  BY <1>8, <1>9, <1>10 DEF TakerOK
<1>13. /\ opt' \in [Jobs -> Optimizers]
       /\ \A k \in Jobs \ {thread.job} : opt'[k] = opt[k]
       /\ Len(opt'[thread.job].SampleQueue) <= QSize
       /\ Len(opt'[thread.job].ResultQueue) <= QSize
  <2>1. Len(o.SampleQueue) <= QSize /\ Len(o.ResultQueue) <= QSize
    BY <1>2, <1>5, <1>6, TuneAssumption DEF OptimizerOK
  <2> QED
    BY <1>0, <1>2, <1>6, <1>7, <2>1
<1> QED
  BY <1>0, <1>1, <1>8, <1>11, <1>12, <1>13, TakeFrame

LEMMA TakeFinalIInv ==
    ASSUME IInv, TakeFinal, UNCHANGED fault
    PROVE  IInv'
<1>0. PICK j \in Tuned : thread.job = j
  BY DEF IInv, ThreadOK, TakeFinal
<1>1. /\ thread.pc = "take" /\ SampleClosed(j) /\ applied' = applied \cup {j}
      /\ UNCHANGED <<jobs, profile, measured, results, opt, bestPod, jobQueue,
                     panicked>>
  BY <1>0 DEF TakeFinal, cluster
<1>2. /\ j \in Tuned /\ j \in Jobs /\ RoundOK(j) /\ (MayEnd => FinalOK(j))
      /\ Busy /\ j \notin applied
      /\ opt \in [Jobs -> Optimizers] /\ opt[j] \in Optimizers
      /\ Len(opt[j].ResultQueue) <= QSize /\ Len(opt[j].SampleQueue) <= QSize
  <2>1. j \notin applied
    BY <1>0, <1>1 DEF IInv, ThreadOK
  <2> QED
    BY <1>1, <2>1, TunedFacts DEF IInv, TypeOK, Busy, Creating
<1>3. /\ thread' = [thread EXCEPT !.pc = "apply", !.profile = opt[j].finalized]
      /\ UNCHANGED <<jobOptMap, waiting, waitingKey, drKey>>
  BY <1>0, <1>1, <1>2 DEF TakeFinal, maps
<1>4. /\ thread' \in Threads /\ thread'.pc = "apply" /\ thread'.job = j
      /\ thread'.profile = opt[j].finalized /\ thread'.from = thread.from
      /\ thread'.i = thread.i /\ thread'.dr = thread.dr
  BY <1>0, <1>2, <1>3, ThreadType DEF IInv, Threads, Optimizers
<1>5. /\ opt[j].pc \in {"sampleClosed", "closed"} /\ opt[j].finalized \in Profiles
  BY <1>1, <1>2 DEF SampleClosed, Optimizers
<1>6. RoundOK(j)'
  BY <1>1, <1>2, <1>4, <1>5 DEF RoundOK, SampleClosed, NoSample, NoResult
<1>7. MayEnd => FinalOK(j)'
  BY <1>1, <1>2, <1>4, <1>5 DEF FinalOK, FinalizedReady
<1>8. /\ opt' \in [Jobs -> Optimizers]
      /\ \A k \in Jobs \ {thread.job} : opt'[k] = opt[k]
      /\ Len(opt'[thread.job].SampleQueue) <= QSize
      /\ Len(opt'[thread.job].ResultQueue) <= QSize
  BY <1>0, <1>1, <1>2
<1>9. /\ UNCHANGED <<cluster, results, maps, bestPod, jobQueue, panicked, fault>>
      /\ applied' \in {applied, applied \cup {j}}
      /\ opt[j].pc # "unborn" /\ opt'[j].pc # "unborn"
  BY <1>1, <1>3, <1>5 DEF cluster, maps
<1>10. TakerOK'
  BY <1>4, <1>6, <1>7 DEF TakerOK
<1> QED
  BY <1>0, <1>1, <1>4, <1>8, <1>9, <1>10, TakeFrame

LEMMA ApplyProfileIInv ==
    ASSUME IInv, ApplyProfile, UNCHANGED fault
    PROVE  IInv'
<1> DEFINE j == thread.job
           made == /\ jobs' = [jobs EXCEPT ![j] = "active"]
                   /\ profile' = [profile EXCEPT ![j] = thread.profile]
                   /\ Return(TRUE, FALSE)
           lost == /\ fault = "create" /\ jobs' = [jobs EXCEPT ![j] = "absent"]
                   /\ UNCHANGED profile /\ Return(TRUE, TRUE)
           left == /\ fault = "profile" /\ UNCHANGED <<jobs, profile>>
                   /\ Return(TRUE, TRUE)
<1>1. /\ thread.pc = "apply" /\ thread.pc \in Creating /\ Busy
      /\ UNCHANGED <<measured, results, opt, applied, bestPod, jobQueue, panicked>>
      /\ made \/ lost \/ left
  BY DEF ApplyProfile, May, Creating, Busy
<1>2. /\ TypeOK /\ ThreadOK /\ TurnOK /\ ScanOK /\ KeyOK /\ j \in Jobs /\ j \in Tuned
      /\ jobs \in [Jobs -> {"absent", "active", "complete"}]
      /\ profile \in [Jobs -> Profiles] /\ thread.profile \in Profiles
  BY <1>1, ThreadType DEF IInv, ThreadOK, TypeOK
<1>3. jobQueue = <<>> /\ \A k \in Jobs : jobs[k] # "active"
  BY <1>1, <1>2 DEF TurnOK
<1>4. /\ TypeOK' /\ ~panicked' /\ ThreadOK' /\ TurnOK' /\ ScanOK'
      /\ WaitOK' /\ KeyOK' /\ UntunedOK'
      /\ thread'.job = j /\ UNCHANGED <<jobOptMap, waiting>>
      /\ thread'.pc \in {"scan", "idle", "pop"}
      /\ (made => thread'.pc \in {"scan", "idle"})
  <2>1. thread.from \in {"scan", "retune", "deploy"}
    BY <1>2, ThreadType
  <2>2. CASE made
    <3>1. profile' \in [Jobs -> Profiles] /\ "active" # "complete"
      BY <1>2, <2>2
    <3> QED
      BY <1>1, <1>2, <2>1, <2>2, <3>1, ReturnIInv, ReturnFacts
  <2>3. CASE lost
    <3>1. profile' \in [Jobs -> Profiles] /\ "absent" # "complete" /\ "absent" # "active"
      BY <1>2, <2>3
    <3>2. ~made
      BY <1>2, <2>3
    <3> QED
      BY <1>1, <1>2, <2>1, <2>3, <3>1, <3>2, ReturnIInv, ReturnFacts
  <2>4. CASE left
    <3> DEFINE s == jobs[j]
    <3>1. /\ profile' \in [Jobs -> Profiles] /\ s \in {"absent", "active", "complete"}
          /\ s # "active" /\ (InScan => s # "complete")
          /\ jobs' = [jobs EXCEPT ![j] = s]
      BY <1>2, <1>3, <2>4 DEF ScanOK
    <3>2. ~made
      BY <1>2, <1>3, <2>4
    <3> HIDE DEF s
    <3> QED
      BY <1>1, <1>2, <2>1, <2>4, <3>1, <3>2, ReturnIInv, ReturnFacts
  <2> QED
    BY <1>1, <2>2, <2>3, <2>4
<1>5. ASSUME NEW k \in Tuned
      PROVE  /\ RoundOK(k)'
             /\ Harmless => BestOK(k)'
             /\ MayEnd => FinalOK(k)'
  <2>1. /\ k \in Jobs /\ RoundOK(k)
        /\ Harmless => BestOK(k)
        /\ MayEnd => FinalOK(k)
    BY TunedFacts
  <2>2. CASE k # j
    <3>1. jobs'[k] = jobs[k] /\ profile'[k] = profile[k]
      BY <1>1, <1>2, <2>1, <2>2
    <3> QED
      BY <1>1, <1>4, <2>1, <2>2, <3>1, OtherJob
  <2>3. CASE k = j
    <3>1. /\ Held(k) /\ ~Over(k) /\ thread'.pc # "send"
          /\ (Held(k)' <=> jobs'[k] = "active")
      BY <1>1, <1>3, <1>4, <2>1, <2>3 DEF Held, Over
    <3>2. CASE made
      <4>1. /\ jobs'[k] = "active" /\ profile'[k] = thread.profile
            /\ profile' \in [Jobs -> Profiles]
        BY <1>2, <2>3, <3>2
      <4>2. RoundOK(k)'
        <5>1. \A r : HeldRound(k, r) => HeldRound(k, r)'
          BY <1>1, <1>3, <1>4, <2>3, <4>1 DEF HeldRound
        <5> QED
          BY <1>1, <2>1, <3>1, <4>1, <5>1, SameRound
      <4>3. ASSUME BestOK(k) PROVE BestOK(k)'
        <5>1. /\ \A v : IsPending(k, v)' <=> IsPending(k, v)
              /\ Holding(k)' /\ Live(k)
          BY <1>1, <1>3, <1>4, <2>3, <4>1 DEF IsPending, Holding, Live
        <5> QED
          BY <1>1, <1>4, <3>2, <4>1, <4>3, <5>1 DEF BestOK, IsBestOf
      <4>4. ASSUME FinalOK(k) PROVE FinalOK(k)'
        <5>1. k \in applied => thread.profile = opt[k].finalized
          BY <1>1, <2>3, <4>4 DEF FinalOK
        <5> QED
          BY <1>1, <1>4, <4>1, <4>4, <5>1 DEF FinalOK, FinalizedReady
      <4> QED
        BY <2>1, <4>2, <4>3, <4>4
    <3>3. CASE lost \/ left
      <4>1. jobs'[k] # "active" /\ UNCHANGED profile /\ Stuck'
            /\ ~Harmless /\ ~MayEnd
        BY <1>2, <1>3, <2>3, <3>3, TuneAssumption DEF Stuck, FaultKinds
      <4>2. \A m \in 1..Len(waiting) : waiting[m] # k
        BY <1>1, <2>3 DEF IInv, WaitOK
      <4>3. Over(k)' /\ opt[k] \in Optimizers
        BY <1>2, <1>4, <2>1, <3>1, <4>1, <4>2 DEF Over, Creating, TypeOK
      <4>4. RoundOK(k)'
        BY <1>1, <2>1, <3>1, <4>1, <4>3, LostRound
      <4> QED
        BY <4>1, <4>4
    <3> QED
      BY <1>1, <3>2, <3>3
  <2> QED
    BY <2>2, <2>3
<1> QED
  BY <1>4, <1>5 DEF IInv, RoundsOK, BestsOK, FinalsOK

\* No step of CreateIfNotExists breaks the invariant.
LEMMA CreateIInv ==
    ASSUME IInv, CreateIfNotExists, UNCHANGED fault
    PROVE  IInv'
  BY CreateUntunedIInv, CreateTunedIInv, TakeSampleIInv, TakeFinalIInv,
     ApplyProfileIInv
  DEF CreateIfNotExists

-----------------------------------------------------------------------------
(***************************************************************************)
(* Steps of the scan.                                                      *)
(***************************************************************************)

LEMMA ScanJobIInv ==
    ASSUME IInv, ScanJob, UNCHANGED fault
    PROVE  IInv'
<1> DEFINE i == thread.i
           j == Scanned[thread.i]
           pc == IF j \in Tuned THEN "tune" ELSE "closed"
<1>1. /\ thread.pc = "scan" /\ i <= Len(Scanned)
      /\ opt' = [opt EXCEPT ![j].pc = pc]
      /\ applied' = applied \cup ({j} \ Tuned)
      /\ UNCHANGED <<jobs, profile, measured, results, jobOptMap, waitingKey,
                     drKey, bestPod, jobQueue, panicked>>
  BY DEF ScanJob, cluster
<1>2. /\ TypeOK /\ ~panicked /\ ThreadOK /\ TurnOK /\ ScanOK /\ WaitOK /\ KeyOK
      /\ UntunedOK
  BY DEF IInv
<1>3. /\ i \in 1..Len(Scanned) /\ i \in Nat /\ j \in Jobs /\ Len(Scanned) \in Nat
      /\ i + 1 \in 1..(Len(Scanned) + 1)
      /\ \A n \in 1..Len(Scanned) : Scanned[n] = j => n = i
  BY <1>1, <1>2, ThreadType, ScannedFacts
<1>4. /\ InScan /\ ~Busy /\ (thread.isNew <=> i > 1) /\ thread.from = "scan"
      /\ jobQueue = <<>> /\ jobOptMap = {} /\ thread.dr
      /\ \A k \in Jobs : /\ results[k] = None /\ bestPod[k] = None
                         /\ measured[k] = {} /\ jobs[k] # "complete"
      /\ opt[j] = Unborn
  BY <1>1, <1>2, <1>3 DEF InScan, ScanOK, Busy, Creating, Collecting
<1>5. /\ opt' \in [Jobs -> Optimizers] /\ opt'[j] = [Unborn EXCEPT !.pc = pc]
      /\ \A k \in Jobs \ {j} : opt'[k] = opt[k]
  <2>1. opt \in [Jobs -> Optimizers]
    BY <1>2 DEF TypeOK
  <2>2. opt' = [opt EXCEPT ![j] = [Unborn EXCEPT !.pc = pc]]
    BY <1>1, <1>3, <1>4, <2>1
  <2>3. Unborn \in Optimizers
    BY <1>3, <1>4, <2>1
  <2>4. [Unborn EXCEPT !.pc = pc] \in Optimizers
    BY <2>3 DEF Optimizers, Unborn
  <2> QED
    BY <1>3, <2>1, <2>2, <2>4
<1>6. /\ opt'[j].pc = pc /\ opt'[j].round = 0 /\ opt'[j].log = {}
      /\ opt'[j].SampleQueue = <<>> /\ opt'[j].ResultQueue = <<>>
      /\ opt'[j].awaiting = {} /\ opt'[j].submitted = <<>>
  BY <1>5 DEF Unborn, NoProfile
<1>7. /\ \A k \in Jobs : Len(opt'[k].SampleQueue) <= QSize
                         /\ Len(opt'[k].ResultQueue) <= QSize
      /\ applied' \subseteq Jobs
      /\ j \in Tuned => j \notin applied /\ j \notin applied'
  <2>1. j \in Tuned => j \notin applied
    BY <1>4, TunedFacts DEF RoundOK, SampleClosed, Unborn
  <2> QED
    BY <1>1, <1>2, <1>3, <1>5, <1>6, <2>1, OneFacts, TuneAssumption DEF TypeOK
<1>8. UntunedOK'
  BY <1>1, <1>2, <1>5, <1>6 DEF UntunedOK
<1>9. ASSUME NEW n \in 1..Len(Scanned)
      PROVE  IF n > i THEN opt'[Scanned[n]] = Unborn
             ELSE opt'[Scanned[n]].pc # "unborn"
  <2>1. Scanned[n] \in Jobs
    BY ScannedFacts
  <2>2. CASE n > i
    BY <1>1, <1>2, <1>3, <1>5, <2>1, <2>2 DEF ScanOK
  <2>3. CASE n = i
    BY <1>3, <1>6, <2>3
  <2>4. CASE n < i
    <3>1. ~(n > i) /\ n # i /\ Scanned[n] # j
      BY <1>3, <2>4
    <3> QED
      BY <1>1, <1>2, <1>5, <2>1, <3>1 DEF ScanOK
  <2> QED
    BY <1>3, <2>2, <2>3, <2>4
<1>10. ASSUME Busy' => thread'.job = j, jobs[j] = "active" => j \notin Tuned,
              thread'.pc \in {"create", "scan"},
              \A m \in 1..Len(waiting') :
                \/ waiting'[m] = j
                \/ m \in 1..Len(waiting) /\ waiting'[m] = waiting[m]
       PROVE  RoundsOK' /\ BestsOK' /\ FinalsOK'
  <2>1. ASSUME NEW k \in Tuned
        PROVE  /\ RoundOK(k)'
               /\ Harmless => BestOK(k)'
               /\ MayEnd => FinalOK(k)'
    <3>1. /\ k \in Jobs /\ RoundOK(k)
          /\ Harmless => BestOK(k)
          /\ MayEnd => FinalOK(k)
      BY TunedFacts
    <3>2. CASE k # j
      <4>1. /\ opt'[k] = opt[k] /\ (k \in applied' <=> k \in applied)
            /\ (k \in jobOptMap => k \in jobOptMap')
            /\ \A m \in 1..Len(waiting') :
                 \/ m \in 1..Len(waiting) /\ waiting'[m] = waiting[m]
                 \/ waiting'[m] # k
        BY <1>1, <1>5, <1>10, <3>1, <3>2
      <4> QED
        BY <1>1, <1>4, <1>10, <3>1, <3>2, <4>1, OtherJob
    <3>3. CASE k = j
      <4>1. ~Held(k)' /\ k \notin applied'
        BY <1>1, <1>4, <1>7, <1>10, <3>3 DEF Held
      <4>2. RoundOK(k)'
        <5>1. /\ InFlight(k)' = 0 /\ Len(<<>>) = 0 /\ 1..0 = {}
          <6>1. InHand(k)' = 0
            BY <4>1 DEF InHand
          <6>2. Len(<<>>) = 0 /\ 1..0 = {} /\ 0 + 0 + 0 = 0
            OBVIOUS
          <6>3. InFlight(k)' = 0 + 0 + 0
            BY <1>6, <3>3, <6>1, <6>2 DEF InFlight
          <6> QED
            BY <6>2, <6>3
        <5>2. Received(k)' /\ Whole(k)'
          BY <1>6, <3>3, <4>1, <5>1 DEF Received, Whole
        <5>3. /\ IsFiniteSet(opt'[k].awaiting) /\ opt'[k].awaiting \subseteq 1..0
              /\ Cardinality(opt'[k].awaiting) = 0
          BY <1>6, <3>3, FS_EmptySet
        <5> QED
          BY <1>6, <1>10, <3>3, <4>1, <5>1, <5>2, <5>3 DEF RoundOK
      <4>3. BestOK(k)'
        <5>1. /\ jobs'[k] = "absent" /\ results'[k] = None /\ bestPod'[k] = None
              /\ measured'[k] = {} /\ (\A v : ~IsPending(k, v)')
          BY <1>1, <1>2, <1>4, <1>10, <3>1, <3>3 DEF IsPending, TypeOK
        <5> QED
          BY <1>10, <5>1 DEF BestOK
      <4>4. FinalOK(k)'
        <5>1. 1..0 = {}
          OBVIOUS
        <5>2. ~FinalizedReady(k)'
          BY <1>3, <1>6, <3>1, <3>3 DEF FinalizedReady
        <5>3. opt'[k].awaiting = 1..opt'[k].round /\ results'[k] = None
          BY <1>1, <1>4, <1>6, <3>1, <3>3, <5>1
        <5> QED
          BY <4>1, <5>2, <5>3 DEF FinalOK
      <4> QED
        BY <4>2, <4>3, <4>4
    <3> QED
      BY <3>2, <3>3
  <2> QED
    BY <2>1 DEF RoundsOK, BestsOK, FinalsOK
<1>11. ~panicked'
  BY <1>1, <1>2
<1>12. CASE ~thread.isNew
  <2>1. /\ i = 1 /\ j = Scanned[1] /\ waiting = <<>>
    <3>1. i = 1
      BY <1>3, <1>4, <1>12
    <3>2. \A m \in 1..Len(waiting) : \E n \in 2..0 : waiting[m] = Scanned[n]
      BY <1>1, <1>2, <3>1 DEF WaitOK
    <3>3. waiting \in Seq(Jobs)
      BY <1>2 DEF TypeOK
    <3>4. Len(waiting) = 0
      <4>1. Len(waiting) \in Nat
        BY <3>3
      <4>2. Len(waiting) # 0 => 1 \in 1..Len(waiting)
        BY <4>1
      <4>3. 2..0 = {}
        OBVIOUS
      <4> QED
        BY <3>2, <4>2, <4>3
    <3> QED
      BY <3>1, <3>3, <3>4
  <2>2. /\ thread' = [thread EXCEPT !.pc = "create", !.job = j]
        /\ UNCHANGED waiting
    BY <1>12 DEF ScanJob
  <2>3. /\ thread' \in Threads /\ thread'.pc = "create" /\ thread'.job = j
        /\ thread'.from = "scan" /\ thread'.i = 1 /\ thread'.dr
    BY <1>2, <1>3, <1>4, <2>1, <2>2, ThreadType DEF Threads
  <2>4. Busy' /\ InScan' /\ thread'.pc \in Creating
    BY <2>3 DEF Busy, InScan, Creating
  <2>5. TypeOK' /\ ThreadOK'
    <3>1. TypeOK'
      BY <1>1, <1>2, <1>5, <1>7, <2>2, <2>3 DEF TypeOK
    <3>2. ThreadOK'
      BY <1>3, <1>7, <2>3 DEF ThreadOK
    <3> QED
      BY <3>1, <3>2
  <2>6. /\ \A k \in Jobs : jobs[k] = "active" => k = j /\ k \notin Tuned
    BY <1>1, <1>2, <2>1 DEF TurnOK
  <2>7. TurnOK'
    BY <1>1, <1>4, <2>3, <2>4, <2>6, OneFacts DEF TurnOK
  <2>8. ScanOK'
    <3>1. ASSUME NEW n \in 1..Len(Scanned)
          PROVE IF n > thread'.i \/ (n = thread'.i /\ thread'.pc = "scan")
                THEN opt'[Scanned[n]] = Unborn
                ELSE opt'[Scanned[n]].pc # "unborn"
      BY <1>9, <2>1, <2>3
    <3> QED
      BY <1>1, <1>3, <1>4, <2>1, <2>2, <2>3, <2>4, <3>1 DEF ScanOK
  <2>9. WaitOK' /\ KeyOK'
    <3>1. WaitOK'
      BY <2>1, <2>2, <2>3, <2>4, OneFacts DEF WaitOK
    <3>2. KeyOK'
      BY <2>3, <2>4 DEF KeyOK
    <3> QED
      BY <3>1, <3>2
  <2>10. RoundsOK' /\ BestsOK' /\ FinalsOK'
    BY <1>3, <1>10, <2>2, <2>3, <2>6
  <2> QED
    BY <1>8, <1>11, <2>5, <2>7, <2>8, <2>9, <2>10 DEF IInv
<1>13. CASE thread.isNew
  <2>1. /\ thread' = [thread EXCEPT !.i = i + 1]
        /\ waiting' = IF jobs[j] = "absent" THEN Append(waiting, j) ELSE waiting
    BY <1>13 DEF ScanJob
  <2>2. /\ thread' \in Threads /\ thread'.pc = "scan" /\ thread'.i = i + 1
        /\ thread'.from = "scan" /\ thread'.dr /\ thread'.isNew /\ i > 1
    BY <1>1, <1>2, <1>3, <1>4, <1>13, <2>1, ThreadType DEF Threads
  <2>3. InScan' /\ ~Busy' /\ thread'.pc \notin Creating
    BY <2>2 DEF InScan, Busy, Creating, Collecting
  <2>4. jobs[j] = "absent"
    <3>1. 1 \in 1..Len(Scanned) /\ j # Scanned[1]
      BY <1>3, <2>2
    <3> QED
      BY <1>1, <1>2, <1>3, <1>4, <3>1 DEF TurnOK, TypeOK
  <2>5. /\ waiting \in Seq(Jobs) /\ waiting' = Append(waiting, j)
        /\ waiting' \in Seq(Jobs) /\ Len(waiting) \in Nat
        /\ Len(waiting') = Len(waiting) + 1
        /\ waiting'[Len(waiting) + 1] = j
        /\ \A m \in 1..Len(waiting) : waiting'[m] = waiting[m]
    BY <1>2, <1>3, <2>1, <2>4, AppendFacts DEF TypeOK
  <2>6. TypeOK' /\ ThreadOK'
    <3>1. TypeOK'
      BY <1>1, <1>2, <1>5, <1>7, <2>2, <2>5 DEF TypeOK
    <3>2. ThreadOK'
      BY <2>2, <2>3 DEF ThreadOK
    <3> QED
      BY <3>1, <3>2
  <2>7. TurnOK' /\ ScanOK' /\ KeyOK'
    <3>1. TurnOK'
      BY <1>1, <1>2, <1>3, <2>2, <2>3 DEF TurnOK
    <3>2. ASSUME NEW n \in 1..Len(Scanned)
          PROVE IF n > thread'.i \/ (n = thread'.i /\ thread'.pc = "scan")
                THEN opt'[Scanned[n]] = Unborn
                ELSE opt'[Scanned[n]].pc # "unborn"
      <4>1. (n > thread'.i \/ (n = thread'.i /\ thread'.pc = "scan")) <=> n > i
        BY <1>3, <2>2
      <4> QED
        BY <1>9, <4>1
    <3>3. ScanOK'
      BY <1>1, <1>3, <1>4, <2>2, <2>3, <3>2 DEF ScanOK
    <3>4. KeyOK'
      BY <2>2, <2>3 DEF KeyOK, Creating
    <3> QED
      BY <3>1, <3>3, <3>4
  <2>8. ASSUME NEW m \in 1..Len(waiting)
        PROVE  /\ waiting[m] # j /\ jobs[waiting[m]] = "absent"
               /\ waiting[m] \notin Tuned \cap applied'
               /\ \E n \in 2..i : waiting[m] = Scanned[n]
    <3>1. PICK n \in 2..(i - 1) : waiting[m] = Scanned[n]
      BY <1>1, <1>2 DEF WaitOK
    <3>2. n \in 2..i /\ n \in 1..Len(Scanned) /\ n # i
      <4>1. PICK a \in Nat, b \in Nat : a = thread.i /\ b = Len(Scanned) /\ a <= b
        <5>1. thread.i <= Len(Scanned) /\ thread.i \in Nat /\ Len(Scanned) \in Nat
          BY <1>1, <1>3
        <5> QED
          BY <5>1
      <4>2. n \in 2..(a - 1)
        BY <4>1
      <4>3. n \in 2..a /\ n \in 1..b /\ n # a
        BY <4>1, <4>2
      <4> QED
        BY <4>1, <4>3
    <3> QED
      BY <1>1, <1>2, <1>3, <3>1, <3>2 DEF WaitOK
  <2>9. ASSUME NEW m \in 1..Len(waiting')
        PROVE  /\ jobs[waiting'[m]] = "absent"
               /\ waiting'[m] \notin Tuned \cap applied'
               /\ \E n \in 2..i : waiting'[m] = Scanned[n]
    <3>1. CASE m \in 1..Len(waiting)
      BY <2>5, <2>8, <3>1
    <3>2. CASE m = Len(waiting) + 1
      <4>1. i \in 2..i
        BY <1>3, <2>2
      <4> QED
        BY <1>7, <2>4, <2>5, <3>2, <4>1
    <3> QED
      BY <2>5, <3>1, <3>2
  <2>10. WaitOK'
    <3>1. \A m, n \in 1..Len(waiting') : waiting'[m] = waiting'[n] => m = n
      <4>1. \A m, n \in 1..Len(waiting) : waiting[m] = waiting[n] => m = n
        BY <1>2 DEF WaitOK
      <4>2. \A m \in 1..Len(waiting') : m \in 1..Len(waiting) \/ m = Len(waiting) + 1
        BY <2>5
      <4> QED
        BY <2>5, <2>8, <4>1, <4>2
    <3>2. thread'.i - 1 = i /\ waiting' # <<>>
      BY <1>3, <2>2, <2>5, OneFacts
    <3> QED
      BY <1>1, <1>4, <2>2, <2>3, <2>9, <3>1, <3>2 DEF WaitOK
  <2>11. RoundsOK' /\ BestsOK' /\ FinalsOK'
    <3>1. \A m \in 1..Len(waiting') :
            \/ waiting'[m] = j
            \/ m \in 1..Len(waiting) /\ waiting'[m] = waiting[m]
      BY <2>5
    <3> QED
      BY <1>10, <2>2, <2>3, <2>4, <3>1
  <2> QED
    BY <1>8, <1>11, <2>6, <2>7, <2>10, <2>11 DEF IInv
<1> QED
  BY <1>12, <1>13

LEMMA SubscribeIInv ==
    ASSUME IInv, Subscribe, UNCHANGED fault
    PROVE  IInv'
<1>1. /\ thread.pc = "scan" /\ thread.i > Len(Scanned)
      /\ waitingKey' = (waiting # <<>>) /\ drKey' = (waiting # <<>>)
      /\ jobOptMap' = IF waiting # <<>> THEN Jobs ELSE {}
      /\ thread' = [thread EXCEPT !.pc = "idle"]
      /\ UNCHANGED <<jobs, profile, measured, results, opt, applied, waiting,
                     bestPod, jobQueue, panicked>>
  BY DEF Subscribe, cluster
<1>2. /\ TypeOK /\ ~panicked /\ ThreadOK /\ TurnOK /\ ScanOK /\ WaitOK /\ KeyOK
      /\ UntunedOK
  BY DEF IInv
<1>3. /\ thread' \in Threads /\ thread'.pc = "idle" /\ thread'.i = thread.i
      /\ thread.i = Len(Scanned) + 1 /\ Len(Scanned) \in Nat
  BY <1>1, <1>2, ThreadType, ScannedFacts DEF Threads
<1>4. /\ InScan /\ ~InScan' /\ ~Busy /\ ~Busy' /\ jobQueue = <<>>
      /\ jobOptMap = {}
  BY <1>1, <1>2, <1>3 DEF InScan, Busy, Creating, Collecting, ScanOK
<1>5. TypeOK' /\ ThreadOK'
  <2>1. waitingKey' \in BOOLEAN /\ drKey' \in BOOLEAN /\ jobOptMap' \subseteq Jobs
    BY <1>1
  <2>2. TypeOK'
    BY <1>1, <1>2, <1>3, <2>1 DEF TypeOK
  <2>3. ThreadOK'
    BY <1>3, <1>4 DEF ThreadOK, Creating
  <2> QED
    BY <2>2, <2>3
<1>6. TurnOK' /\ ScanOK' /\ UntunedOK'
  <2>1. TurnOK'
    BY <1>1, <1>2, <1>3, <1>4 DEF TurnOK
  <2>2. ASSUME NEW n \in 1..Len(Scanned)
        PROVE  n # thread.i /\ ~(n > thread.i) /\ opt[Scanned[n]].pc # "unborn"
    <3>1. n # thread.i /\ ~(n > thread.i)
      BY <1>3
    <3> QED
      BY <1>2, <3>1 DEF ScanOK
  <2>3. ScanOK'
    BY <1>1, <1>3, <1>4, <2>2 DEF ScanOK, Creating
  <2>4. UntunedOK'
    BY <1>1, <1>2 DEF UntunedOK
  <2> QED
    BY <2>1, <2>3, <2>4
<1>7. WaitOK'
  <2>1. ASSUME NEW m \in 1..Len(waiting) PROVE waiting[m] \in jobOptMap'
    <3>1. waiting \in Seq(Jobs) /\ waiting # <<>>
      BY <1>2, OneFacts DEF TypeOK
    <3> QED
      BY <1>1, <3>1
  <2>2. Len(Scanned) > 1 => waiting # <<>>
    BY <1>1, <1>2, <1>3 DEF WaitOK
  <2> QED
    BY <1>1, <1>2, <1>3, <1>4, <2>1, <2>2 DEF WaitOK
<1>8. KeyOK'
  BY <1>1, <1>3, <1>4 DEF KeyOK, Creating
<1>9. ASSUME NEW k \in Tuned
      PROVE  /\ RoundOK(k)'
             /\ Harmless => BestOK(k)'
             /\ MayEnd => FinalOK(k)'
  <2>1. /\ k \in Jobs /\ RoundOK(k)
        /\ Harmless => BestOK(k)
        /\ MayEnd => FinalOK(k)
    BY TunedFacts
  <2> QED
    BY <1>1, <1>4, <2>1, OtherJob
<1> QED
  BY <1>1, <1>2, <1>5, <1>6, <1>7, <1>8, <1>9 DEF IInv, RoundsOK, BestsOK, FinalsOK

-----------------------------------------------------------------------------
(***************************************************************************)
(* Steps of the tracker's worker.                                          *)
(***************************************************************************)

\* A thread that has a completed run in its hands: the scan is over, no other
\* job has the turn, and every optimizer was started.
LEMMA CollectingFacts ==
    ASSUME IInv, thread.pc \in Collecting
    PROVE  /\ Busy /\ ~InScan /\ jobQueue = <<>> /\ thread.pc \notin Creating
           /\ thread.job \in Jobs /\ thread.i = Len(Scanned) + 1
           /\ \A k \in Jobs : jobs[k] # "active" /\ opt[k].pc # "unborn"
           /\ \A k \in Jobs \ Tuned : k \in applied /\ opt[k].pc = "closed"
<1>1. thread.pc \in {"collect", "send", "record", "deploy", "pop"}
      /\ thread.pc \notin Creating /\ Busy /\ ~InScan
  BY DEF Collecting, Creating, Busy, InScan
<1>2. jobQueue = <<>> /\ \A k \in Jobs : jobs[k] # "active"
  BY <1>1 DEF IInv, TurnOK
<1>3. thread.job \in Jobs /\ thread.i = Len(Scanned) + 1
  BY <1>1 DEF IInv, ThreadOK, ScanOK
<1>4. ASSUME NEW k \in Jobs PROVE opt[k].pc # "unborn"
  <2>1. PICK n \in 1..Len(Scanned) : k = Scanned[n]
    BY ScannedFacts
  <2>2. n # thread.i /\ ~(n > thread.i)
    BY <1>3, ScannedFacts
  <2> QED
    BY <2>1, <2>2 DEF IInv, ScanOK
<1> QED
  BY <1>1, <1>2, <1>3, <1>4 DEF IInv, UntunedOK

LEMMA WorkerTakeIInv ==
    ASSUME IInv, WorkerTake, UNCHANGED fault
    PROVE  IInv'
<1>1. /\ thread.pc = "idle" /\ jobQueue # <<>>
      /\ thread' = [thread EXCEPT !.pc = "collect", !.job = Head(jobQueue)[1],
                                  !.value = Head(jobQueue)[2]]
      /\ jobQueue' = Tail(jobQueue)
      /\ UNCHANGED <<jobs, profile, measured, results, opt, applied, jobOptMap,
                     waiting, waitingKey, drKey, bestPod, panicked>>
  BY DEF WorkerTake, cluster, maps
<1>2. /\ TypeOK /\ ~panicked /\ ThreadOK /\ TurnOK /\ ScanOK /\ WaitOK /\ KeyOK
      /\ UntunedOK
  BY DEF IInv
<1>3. PICK j \in Jobs, value \in Measures : jobQueue = << <<j, value>> >>
  <2>1. jobQueue \in Seq(Jobs \X Measures) /\ Len(jobQueue) <= 1
    BY <1>2 DEF TypeOK, TurnOK
  <2>2. jobQueue = <<jobQueue[1]>> /\ jobQueue[1] \in Jobs \X Measures
    BY <1>1, <2>1, ShortFacts
  <2> QED
    BY <2>2
<1>4. /\ jobQueue' = <<>> /\ jobQueue[1] = <<j, value>> /\ jobQueue[1][1] = j
      /\ jobQueue[1][2] = value /\ Head(jobQueue) = <<j, value>>
  BY <1>1, <1>3, OneFacts
<1>5. /\ thread' \in Threads /\ thread'.pc = "collect" /\ thread'.job = j
      /\ thread'.value = value /\ thread'.from = thread.from
      /\ thread'.i = thread.i
  BY <1>1, <1>2, <1>4, ThreadType DEF Threads
<1>6. /\ ~InScan /\ ~InScan' /\ ~Busy /\ Busy' /\ thread.pc \notin Creating
      /\ thread'.pc \notin Creating
      /\ \A k \in Jobs : jobs[k] # "active"
  BY <1>1, <1>2, <1>5 DEF InScan, Busy, Creating, Collecting, TurnOK
<1>7. TypeOK' /\ ThreadOK' /\ TurnOK' /\ ScanOK' /\ UntunedOK'
  <2>1. TypeOK'
    BY <1>1, <1>2, <1>4, <1>5 DEF TypeOK
  <2>2. ThreadOK'
    BY <1>5, <1>6 DEF ThreadOK
  <2>3. TurnOK'
    <3>1. Len(jobQueue') <= 1
      BY <1>4, OneFacts
    <3> QED
      BY <1>1, <1>4, <1>5, <1>6, <3>1 DEF TurnOK
  <2>4. ScanOK'
    BY <1>1, <1>2, <1>5, <1>6 DEF ScanOK
  <2>5. UntunedOK'
    BY <1>1, <1>2 DEF UntunedOK
  <2> QED
    BY <2>1, <2>2, <2>3, <2>4, <2>5
<1>8. WaitOK'
  BY <1>1, <1>2, <1>4, <1>5, <1>6 DEF WaitOK
<1>9. KeyOK'
  <2>1. \A k : Holding(k)' => Holding(k)
    BY <1>1, <1>4, <1>5, <1>6 DEF Holding
  <2> QED
    BY <1>1, <1>2, <1>5, <1>6, <2>1 DEF KeyOK
<1>10. ASSUME NEW k \in Tuned
       PROVE  /\ RoundOK(k)'
              /\ Harmless => BestOK(k)'
              /\ MayEnd => FinalOK(k)'
  <2>1. /\ k \in Jobs /\ RoundOK(k)
        /\ Harmless => BestOK(k)
        /\ MayEnd => FinalOK(k)
    BY TunedFacts
  <2>2. CASE k # j
    BY <1>1, <1>4, <1>5, <1>6, <2>1, <2>2, OtherJob
  <2>3. CASE k = j
    <3>1. /\ Held(k) /\ Held(k)' /\ Holding(k)' /\ Live(k) /\ Live(k)'
          /\ \A v : IsPending(k, v)' <=> IsPending(k, v)
          /\ \A r : HeldRound(k, r) => HeldRound(k, r)'
      <4>1. Held(k) /\ Held(k)' /\ Holding(k)' /\ Live(k) /\ Live(k)'
        BY <1>1, <1>4, <1>5, <1>6, <2>3 DEF Held, Holding, Live
      <4>2. ASSUME NEW v PROVE IsPending(k, v)' <=> IsPending(k, v)
        BY <1>1, <1>4, <1>5, <2>3 DEF IsPending
      <4>3. ASSUME NEW r, HeldRound(k, r) PROVE HeldRound(k, r)'
        BY <1>1, <1>4, <1>5, <1>6, <2>1, <2>3, <4>3 DEF HeldRound
      <4> QED
        BY <4>1, <4>2, <4>3
    <3>2. RoundOK(k)'
      <4>1. ~Over(k) /\ thread'.pc # "send"
        BY <1>5, <3>1 DEF Over
      <4> QED
        BY <1>1, <2>1, <3>1, <4>1, SameRound
    <3>3. ASSUME BestOK(k) PROVE BestOK(k)'
      BY <1>1, <1>5, <3>1, <3>3 DEF BestOK, IsBestOf
    <3>4. ASSUME FinalOK(k) PROVE FinalOK(k)'
      BY <1>1, <1>5, <3>4 DEF FinalOK, FinalizedReady
    <3> QED
      BY <2>1, <3>2, <3>3, <3>4
  <2> QED
    BY <2>2, <2>3
<1> QED
  BY <1>1, <1>2, <1>7, <1>8, <1>9, <1>10 DEF IInv, RoundsOK, BestsOK, FinalsOK

\* A step of the worker on the run in its hands that changes neither the turn
\* nor the maps keeps what is said of them.
LEMMA CollectingIInv ==
    ASSUME IInv, thread.pc \in Collecting \ {"pop"},
           thread' \in Threads,
           thread'.pc \in {"send", "record", "deploy"},
           thread'.job = thread.job, thread'.i = thread.i,
           thread'.pc = "send" => thread.job \in Tuned,
           thread'.pc = "deploy" => (thread'.dr <=> drKey),
           UNCHANGED <<jobs, applied, maps, jobQueue, fault>>,
           \A k \in Jobs : opt'[k].pc = opt[k].pc
    PROVE  ThreadOK' /\ TurnOK' /\ ScanOK' /\ WaitOK' /\ KeyOK' /\ UntunedOK'
<1>1. /\ TypeOK /\ ThreadOK /\ TurnOK /\ ScanOK /\ WaitOK /\ KeyOK /\ UntunedOK
  BY DEF IInv
<1>2. /\ Busy /\ ~InScan /\ jobQueue = <<>> /\ thread.job \in Jobs
      /\ thread.pc \notin Creating /\ thread.i = Len(Scanned) + 1
      /\ \A k \in Jobs : jobs[k] # "active" /\ opt[k].pc # "unborn"
      /\ \A k \in Jobs \ Tuned : k \in applied /\ opt[k].pc = "closed"
  BY CollectingFacts
<1>3. Busy' /\ ~InScan' /\ thread'.pc \notin Creating
  BY DEF Busy, InScan, Creating, Collecting
<1>4. ThreadOK'
  BY <1>2, <1>3 DEF ThreadOK, Creating
<1>5. TurnOK'
  BY <1>2, <1>3, OneFacts DEF TurnOK
<1>6. ScanOK'
  <2>1. ASSUME NEW n \in 1..Len(Scanned)
        PROVE  /\ n # thread.i /\ ~(n > thread.i)
               /\ opt'[Scanned[n]].pc # "unborn"
    BY <1>2, ScannedFacts
  <2> QED
    BY <1>2, <1>3, <2>1 DEF ScanOK
<1>7. WaitOK'
  BY <1>1, <1>2, <1>3 DEF WaitOK, maps
<1>8. KeyOK'
  <2>1. \A k : Holding(k)' <=> Holding(k)
    BY <1>2, <1>3 DEF Holding
  <2>2. Holding(thread.job)
    BY <1>2 DEF Holding
  <2>3. thread'.pc = "deploy" /\ thread.job \in jobOptMap \ applied => thread'.dr
    BY <1>1, <1>2, <2>2 DEF KeyOK
  <2>4. thread'.pc \in {"deploy", "pop"} /\ waiting # <<>> => thread'.dr
    BY <1>1, <1>2 DEF KeyOK
  <2> QED
    BY <1>1, <1>2, <1>3, <2>1, <2>3, <2>4 DEF KeyOK, maps
<1>9. UntunedOK'
  BY <1>2 DEF UntunedOK
<1> QED
  BY <1>4, <1>5, <1>6, <1>7, <1>8, <1>9

LEMMA WorkerCollectIInv ==
    ASSUME IInv, WorkerCollect, UNCHANGED fault
    PROVE  IInv'
<1> DEFINE j == thread.job
           pc == IF j \in jobOptMap /\ ~FinalizedReady(j) THEN "send" ELSE "record"
<1>1. /\ thread.pc = "collect" /\ thread' = [thread EXCEPT !.pc = pc]
      /\ UNCHANGED <<jobs, profile, measured, results, opt, applied, jobOptMap,
                     waiting, waitingKey, drKey, bestPod, jobQueue, panicked>>
  BY DEF WorkerCollect, cluster, maps
<1>2. /\ TypeOK /\ ~panicked /\ WaitOK
  BY DEF IInv
<1>3. /\ thread' \in Threads /\ thread'.pc = pc /\ thread'.job = j
      /\ thread'.from = thread.from /\ thread'.i = thread.i
      /\ thread'.value = thread.value
  BY <1>1, <1>2, ThreadType DEF Threads
<1>4. /\ Busy /\ ~InScan /\ jobQueue = <<>> /\ j \in Jobs
      /\ \A k \in Jobs : jobs[k] # "active" /\ opt[k].pc # "unborn"
      /\ \A k \in Jobs \ Tuned : k \in applied /\ opt[k].pc = "closed"
  BY <1>1, CollectingFacts DEF Collecting
<1>5. pc = "send" => j \in Tuned
  BY <1>4 DEF FinalizedReady
<1>6. /\ pc \in {"send", "record"} /\ thread.pc \in Collecting \ {"pop"}
      /\ UNCHANGED <<jobs, applied, maps, jobQueue, fault>>
      /\ \A k \in Jobs : opt'[k].pc = opt[k].pc
  BY <1>1 DEF Collecting, maps
<1>7. ThreadOK' /\ TurnOK' /\ ScanOK' /\ WaitOK' /\ KeyOK' /\ UntunedOK'
  <2> HIDE DEF pc
  <2> QED
    BY <1>3, <1>5, <1>6, CollectingIInv
<1>8. TypeOK' /\ ~panicked'
  BY <1>1, <1>2, <1>3 DEF TypeOK
<1>9. ASSUME NEW k \in Tuned
      PROVE  /\ RoundOK(k)'
             /\ Harmless => BestOK(k)'
             /\ MayEnd => FinalOK(k)'
  <2>1. /\ k \in Jobs /\ RoundOK(k)
        /\ Harmless => BestOK(k)
        /\ MayEnd => FinalOK(k)
    BY TunedFacts
  <2>2. CASE k # j
    BY <1>1, <1>3, <2>1, <2>2, OtherJob
  <2>3. CASE k = j
    <3>1. Held(k) /\ ~Over(k) /\ opt[k].pc # "unborn" /\ opt[k] \in Optimizers
      BY <1>1, <1>2, <2>1, <2>3 DEF Held, RoundOK, Over, TypeOK
    <3>2. /\ \A v : IsPending(k, v)' <=> IsPending(k, v)
          /\ Live(k) /\ Live(k)' /\ Holding(k)'
      BY <1>1, <1>3, <1>4, <2>3, <3>1 DEF IsPending, Live, Holding, Busy, Collecting
    <3>3. ASSUME pc = "send" PROVE RoundOK(k)'
      <4>1. opt[k].pc = "tune"
        BY <2>3, <3>1, <3>3 DEF FinalizedReady, Optimizers
      <4>2. /\ Held(k)'
            /\ \A r : HeldRound(k, r) => HeldRound(k, r)'
        BY <1>1, <1>3, <1>4, <2>1, <2>3, <3>3 DEF Held, HeldRound
      <4> QED
        BY <1>1, <2>1, <3>1, <4>1, <4>2, SameRound
    <3>4. ASSUME pc = "record" PROVE RoundOK(k)'
      <4>1. ~Held(k)' /\ ~(thread'.pc = "send")
        BY <1>1, <1>3, <1>4, <2>1, <2>3, <3>4 DEF Held
      <4>2. ASSUME opt[k].pc = "tune" PROVE Over(k)'
        <5>1. k \notin jobOptMap /\ Stuck
          BY <1>2, <1>4, <2>1, <2>3, <3>4, <4>2, ScannedFacts
          DEF FinalizedReady, WaitOK, Stuck, RoundOK, SampleClosed
        <5>2. \A m \in 1..Len(waiting) : waiting[m] # k
          BY <1>2, <1>4, <2>3 DEF WaitOK
        <5> QED
          BY <1>1, <1>3, <3>4, <4>1, <5>1, <5>2 DEF Over, Stuck, Creating
      <4> QED
        BY <1>1, <2>1, <3>1, <4>1, <4>2, LostRound
    <3>5. RoundOK(k)'
      BY <1>6, <3>3, <3>4
    <3>6. ASSUME BestOK(k) PROVE BestOK(k)'
      <4> HIDE DEF pc
      <4> QED
        BY <1>1, <1>3, <1>6, <3>2, <3>6 DEF BestOK, IsBestOf
    <3>7. ASSUME FinalOK(k) PROVE FinalOK(k)'
      <4> HIDE DEF pc
      <4> QED
        BY <1>1, <1>3, <1>6, <3>7 DEF FinalOK, FinalizedReady
    <3> QED
      BY <2>1, <3>5, <3>6, <3>7
  <2> QED
    BY <2>2, <2>3
<1> QED
  BY <1>7, <1>8, <1>9 DEF IInv, RoundsOK, BestsOK, FinalsOK

LEMMA WorkerSkipIInv ==
    ASSUME IInv, WorkerSkip, UNCHANGED fault
    PROVE  IInv'
<1> DEFINE j == thread.job
<1>1. /\ thread.pc = "collect" /\ fault = "nosend"
      /\ thread' = [thread EXCEPT !.pc = "deploy", !.dr = drKey]
      /\ UNCHANGED <<jobs, profile, measured, results, opt, applied, jobOptMap,
                     waiting, waitingKey, drKey, bestPod, jobQueue, panicked>>
  BY DEF WorkerSkip, May, cluster, maps
<1>2. TypeOK /\ ~panicked /\ drKey \in BOOLEAN
  BY DEF IInv, TypeOK
<1>3. /\ thread' \in Threads /\ thread'.pc = "deploy" /\ thread'.job = j
      /\ thread'.i = thread.i /\ (thread'.dr <=> drKey)
  BY <1>1, <1>2, ThreadType DEF Threads
<1>4. /\ jobQueue = <<>> /\ j \in Jobs /\ \A k \in Jobs : jobs[k] # "active"
  BY <1>1, CollectingFacts DEF Collecting
<1>5. /\ thread.pc \in Collecting \ {"pop"}
      /\ UNCHANGED <<jobs, applied, maps, jobQueue, fault>>
      /\ \A k \in Jobs : opt'[k].pc = opt[k].pc
  BY <1>1 DEF Collecting, maps
<1>6. ThreadOK' /\ TurnOK' /\ ScanOK' /\ WaitOK' /\ KeyOK' /\ UntunedOK'
  BY <1>3, <1>5, CollectingIInv
<1>7. TypeOK' /\ ~panicked'
  BY <1>1, <1>2, <1>3 DEF TypeOK
<1>8. ASSUME NEW k \in Tuned PROVE RoundOK(k)'
  <2>1. k \in Jobs /\ RoundOK(k)
    BY TunedFacts
  <2>2. ~Held(k)' /\ thread'.pc # "send" /\ opt[k] \in Optimizers
    BY <1>1, <1>2, <1>3, <1>4, <2>1 DEF Held, TypeOK
  <2>3. CASE Held(k)
    BY <1>1, <2>1, <2>2, <2>3, LostRound
  <2>4. CASE ~Held(k)
    <3>1. ~Over(k) \/ Over(k)'
      BY <1>1, <1>3, <1>4, <2>1, <2>2, <2>4 DEF Over, Stuck, Held
    <3>2. (Held(k)' <=> Held(k)) /\ measured'[k] = measured[k] /\ opt'[k] = opt[k]
          /\ (k \in applied' <=> k \in applied)
      BY <1>1, <2>2, <2>4
    <3>3. k # thread.job
      BY <1>1, <2>4 DEF Held
    <3>4. Over(k) => Over(k)'
      BY <3>1
    <3>5. ~(thread'.pc = "send" /\ thread'.job = k)
      BY <2>2
    <3> QED
      BY <2>1, <2>4, <3>2, <3>4, <3>5, SameRound
  <2> QED
    BY <2>3, <2>4
<1>9. ~Harmless' /\ ~MayEnd'
  BY <1>1, TuneAssumption DEF FaultKinds
<1> QED
  BY <1>6, <1>7, <1>8, <1>9 DEF IInv, RoundsOK, BestsOK, FinalsOK

LEMMA WorkerSendIInv ==
    ASSUME IInv, WorkerSend, UNCHANGED fault
    PROVE  IInv'
<1>0. PICK j \in Tuned : thread.job = j
  BY DEF IInv, ThreadOK, WorkerSend
<1>1. /\ thread.pc = "send" /\ panicked' = ResultClosed(j)
      /\ opt' = [opt EXCEPT ![j].ResultQueue = Append(@, thread.value)]
      /\ thread' = [thread EXCEPT !.pc = "record"]
      /\ UNCHANGED <<jobs, profile, measured, results, applied, jobOptMap,
                     waiting, waitingKey, drKey, bestPod, jobQueue>>
  BY <1>0 DEF WorkerSend, cluster, maps
<1>2. /\ TypeOK /\ j \in Jobs /\ RoundOK(j) /\ thread.value \in Measures
      /\ OptimizerOK(j) /\ opt[j] \in Optimizers /\ opt \in [Jobs -> Optimizers]
  BY <1>0, TunedFacts, ThreadType, OptimizerType DEF IInv
<1>3. /\ thread' \in Threads /\ thread'.pc = "record" /\ thread'.job = j
      /\ thread'.i = thread.i /\ thread'.value = thread.value
  BY <1>0, <1>1, <1>2, ThreadType DEF Threads
<1>4. /\ Busy /\ jobQueue = <<>> /\ \A k \in Jobs : jobs[k] # "active"
  BY <1>1, CollectingFacts DEF Collecting
<1>5. opt[j].pc = "tune" /\ ~ResultClosed(j) /\ Held(j) /\ ~Over(j)
      /\ Len(opt[j].ResultQueue) < QSize
  <2>1. opt[j].pc = "tune" /\ Held(j)
    BY <1>0, <1>1, <1>2 DEF RoundOK, Held
  <2> QED
    BY <1>0, <2>1 DEF ResultClosed, WorkerSend, Over
<1> DEFINE o == [opt[j] EXCEPT
                   !.ResultQueue = Append(opt[j].ResultQueue, thread.value)]
<1>6. /\ o \in Optimizers /\ o.pc = "tune" /\ o.round = opt[j].round
      /\ o.log = opt[j].log /\ o.finalized = opt[j].finalized
      /\ o.awaiting = opt[j].awaiting /\ o.submitted = opt[j].submitted
      /\ o.SampleQueue = opt[j].SampleQueue
      /\ o.ResultQueue = Append(opt[j].ResultQueue, thread.value)
  <2>1. opt[j] \in Optimizers /\ thread.value \in Measures
    BY <1>2, OptimizerType, ThreadType
  <2>2. PICK q : q = Append(opt[j].ResultQueue, thread.value)
    OBVIOUS
  <2>3. q \in Seq(Measures)
    BY <2>1, <2>2, AppendFacts DEF Optimizers
  <2>4. PICK n : n = [opt[j] EXCEPT !.ResultQueue = q]
    OBVIOUS
  <2>5. /\ n \in Optimizers /\ n.pc = opt[j].pc /\ n.round = opt[j].round
        /\ n.log = opt[j].log /\ n.finalized = opt[j].finalized
        /\ n.awaiting = opt[j].awaiting /\ n.submitted = opt[j].submitted
        /\ n.SampleQueue = opt[j].SampleQueue /\ n.ResultQueue = q
    BY <2>1, <2>3, <2>4 DEF Optimizers
  <2>6. o = n
    BY <2>2, <2>4
  <2> HIDE DEF o
  <2> QED
    BY <1>5, <2>2, <2>5, <2>6
<1>7. opt' = [opt EXCEPT ![j] = o] /\ opt'[j] = o
  BY <1>1, <1>2
<1> HIDE DEF o
<1>8. /\ \A k \in Jobs \ {j} : opt'[k] = opt[k]
      /\ Len(o.ResultQueue) = Len(opt[j].ResultQueue) + 1
      /\ Len(opt[j].ResultQueue) \in Nat /\ Len(opt[j].SampleQueue) \in Nat
      /\ Len(opt[j].submitted) \in Nat
      /\ o.ResultQueue[Len(opt[j].ResultQueue) + 1] = thread.value
      /\ \A i \in 1..Len(opt[j].ResultQueue) :
           o.ResultQueue[i] = opt[j].ResultQueue[i]
  BY <1>2, <1>6, <1>7, AppendFacts DEF OptimizerOK
<1>9. TypeOK' /\ ~panicked'
  <2>1. opt' \in [Jobs -> Optimizers] /\ opt'[j] = o
    BY <1>2, <1>6, <1>7
  <2>2. \A k \in Jobs : Len(opt'[k].SampleQueue) <= QSize
                        /\ Len(opt'[k].ResultQueue) <= QSize
    <3>1. Len(o.ResultQueue) <= QSize
      BY <1>5, <1>8, TuneAssumption
    <3> QED
      BY <1>2, <1>6, <1>8, <2>1, <3>1 DEF TypeOK
  <2>3. panicked' = FALSE
    BY <1>1, <1>5 DEF ResultClosed
  <2> QED
    BY <1>1, <1>2, <1>3, <2>1, <2>2, <2>3 DEF TypeOK
<1>10. ThreadOK' /\ TurnOK' /\ ScanOK' /\ WaitOK' /\ KeyOK' /\ UntunedOK'
  <2>1. /\ thread.pc \in Collecting \ {"pop"} /\ thread'.job = thread.job
        /\ UNCHANGED <<jobs, applied, maps, jobQueue, fault>>
        /\ \A k \in Jobs : opt'[k].pc = opt[k].pc
    BY <1>0, <1>1, <1>3, <1>5, <1>6, <1>7, <1>8 DEF Collecting, maps
  <2> QED
    BY <1>3, <2>1, CollectingIInv
<1>11. ASSUME NEW k \in Tuned
       PROVE  /\ RoundOK(k)'
              /\ Harmless => BestOK(k)'
              /\ MayEnd => FinalOK(k)'
  <2>1. /\ k \in Jobs /\ RoundOK(k)
        /\ Harmless => BestOK(k)
        /\ MayEnd => FinalOK(k)
    BY TunedFacts
  <2>2. CASE k # j
    <3>1. opt'[k] = opt[k]
      BY <1>8, <2>1, <2>2
    <3> QED
      BY <1>0, <1>1, <1>3, <2>1, <2>2, <3>1, OtherJob
  <2>3. CASE k = j
    <3>1. ~Held(k)' /\ thread'.pc # "send"
      BY <1>1, <1>3, <1>4, <2>1 DEF Held
    <3>2. InHand(k) = 1 /\ InHand(k)' = 0
      BY <1>5, <2>3, <3>1 DEF InHand
    <3>3. RoundOK(k)'
      <4>1. /\ InFlight(j)' = InFlight(j) /\ InFlight(j) <= Len(opt[j].submitted)
        <5>1. PICK m \in Nat, s \in Nat :
                m = Len(opt[j].ResultQueue) /\ s = Len(opt[j].SampleQueue)
          BY <1>8
        <5>2. InFlight(j) = m + 1 + s /\ InFlight(j)' = m + 1 + 0 + s
          BY <1>6, <1>7, <1>8, <2>3, <3>2, <5>1 DEF InFlight
        <5>3. InFlight(j) <= Len(opt[j].submitted)
          BY <1>5, <2>1, <2>3 DEF RoundOK
        <5> QED
          BY <5>2, <5>3
      <4>2. ASSUME Received(j), Whole(j) PROVE Received(j)'
        <5>1. <<opt[j].submitted[Len(opt[j].ResultQueue) + 1], thread.value>>
                \in measured[j]
          BY <1>0, <1>1, <1>5, <4>2 DEF Whole, HeldRound
        <5>2. ASSUME NEW i \in 1..Len(o.ResultQueue)
              PROVE  <<o.submitted[i], o.ResultQueue[i]>> \in measured[j]
          <6>1. CASE i \in 1..Len(opt[j].ResultQueue)
            BY <1>6, <1>8, <4>2, <6>1 DEF Received
          <6>2. CASE i = Len(opt[j].ResultQueue) + 1
            BY <1>6, <1>8, <5>1, <6>2
          <6> QED
            BY <1>8, <6>1, <6>2
        <5> QED
          BY <1>1, <1>7, <5>2 DEF Received
      <4>3. ASSUME Whole(j) PROVE Whole(j)'
        <5>1. ASSUME NEW i \in 1..Len(o.SampleQueue)
              PROVE  o.SampleQueue[i] = o.submitted[Len(o.ResultQueue) + 0 + i]
          <6>1. o.SampleQueue[i] = opt[j].submitted[Len(opt[j].ResultQueue) + 1 + i]
            BY <1>6, <2>3, <3>2, <4>3 DEF Whole
          <6>2. Len(o.ResultQueue) + 0 + i = Len(opt[j].ResultQueue) + 1 + i
            BY <1>6, <1>8
          <6> QED
            BY <1>6, <6>1, <6>2
        <5> QED
          BY <1>6, <1>7, <2>3, <3>1, <3>2, <4>1, <4>3, <5>1 DEF Whole
      <4> QED
        BY <1>1, <1>5, <1>6, <1>7, <2>1, <2>3, <3>1, <4>1, <4>2, <4>3
        DEF RoundOK, SampleClosed
    <3>4. /\ \A v : IsPending(k, v)' <=> IsPending(k, v)
          /\ Live(k) /\ Live(k)' /\ Holding(k)'
      BY <1>0, <1>1, <1>3, <1>4, <2>3 DEF IsPending, Live, Holding, Busy, Collecting
    <3>5. ASSUME BestOK(k) PROVE BestOK(k)'
      BY <1>1, <1>3, <3>4, <3>5 DEF BestOK, IsBestOf
    <3>6. ASSUME FinalOK(k) PROVE FinalOK(k)'
      BY <1>1, <1>3, <1>5, <1>6, <1>7, <2>3, <3>6 DEF FinalOK, FinalizedReady
    <3> QED
      BY <2>1, <3>3, <3>5, <3>6
  <2> QED
    BY <2>2, <2>3
<1> QED
  BY <1>9, <1>10, <1>11 DEF IInv, RoundsOK, BestsOK, FinalsOK

\* Which of two values is better is a strict order on the values that a run
\* without a failure has.
LEMMA BetterFacts ==
    ASSUME NEW u \in Values, NEW v \in Values, NEW w \in Values
    PROVE  /\ ~isBetterResult(u, u)
           /\ isBetterResult(u, v) /\ isBetterResult(v, w) => isBetterResult(u, w)
  BY TuneAssumption DEF isBetterResult

\* What is recorded of the thread's job, u, when its run has value w.
RecordedOf(j, prev, w) ==
    IF j \in jobOptMap /\ prev # None /\ ~isBetterResult(PrevValue(prev), w)
    THEN prev ELSE w

\* ... is the best of its values so far, for a tuned job and without failures.
LEMMA RecordBest ==
    ASSUME IInv, thread.pc = "record", Harmless,
           NEW j \in Tuned, thread.job = j, NEW prev \in Previous(j)
    PROVE  LET w == thread.value
               v == RecordedOf(j, prev, w)
           IN  /\ results[j] = None /\ w # NoResponse /\ v \in Values
               /\ \E p \in measured[j] : p[2] = v
               /\ \A p \in measured[j] : ~isBetterResult(v, p[2])
               /\ prev # None => prev = bestPod[j] /\ j \in jobOptMap
               /\ prev = None => v = w
<1> DEFINE w == thread.value
<1>0. PICK v : v = RecordedOf(j, prev, w)
  OBVIOUS
<1>1. BestOK(j) /\ j \in Jobs /\ jobQueue = <<>> /\ TypeOK
  BY TunedFacts, CollectingFacts DEF Collecting, IInv
<1>2. /\ IsPending(j, w) /\ Live(j)
      /\ \A u : IsPending(j, u) => u = w
  BY <1>1 DEF IsPending, Live
<1>3. results[j] = None
  BY <1>1, <1>2 DEF BestOK
<1>4. w \in Measures /\ \E p \in measured[j] : p[2] = w
  BY <1>1, <1>2, ThreadType DEF BestOK
<1>5. /\ w \in Values /\ w # NoResponse /\ w # None /\ None \notin Values
      /\ \A p \in measured[j] : p[2] \in Values
  BY <1>1, <1>4, TuneAssumption DEF BestOK, Measures, NoResponse
<1>6. bestPod[j] # None => /\ IsBestOf(j, bestPod[j]) /\ bestPod[j] \in Values
                           /\ bestPod[j] # NoResponse /\ bestPod[j] # Error
                           /\ j \in jobOptMap
  BY <1>1, <1>3, <1>5, TuneAssumption
  DEF BestOK, IsBestOf, NoResponse, Error
<1>7. prev = bestPod[j]
  <2>1. ~May("call")
    BY TuneAssumption DEF May, FaultKinds
  <2>2. bestPod[j] # NoResponse
    BY <1>6, TuneAssumption DEF Measures
  <2> QED
    BY <2>1, <2>2 DEF Previous
<1>8. CASE prev = None
  <2>1. v = w
    BY <1>0, <1>8 DEF RecordedOf
  <2>2. \A p \in measured[j] : IsPending(j, p[2])
    BY <1>1, <1>3, <1>7, <1>8 DEF BestOK
  <2>3. \A p \in measured[j] : ~isBetterResult(v, p[2])
    BY <1>2, <1>5, <2>1, <2>2, BetterFacts
  <2> QED
    BY <1>0, <1>3, <1>4, <1>5, <1>8, <2>1, <2>3
<1>9. CASE prev # None
  <2>1. /\ PrevValue(prev) = prev /\ prev \in Values /\ j \in jobOptMap
        /\ \E p \in measured[j] : p[2] = prev
        /\ \A p \in measured[j] : isBetterResult(prev, p[2]) => p[2] = w
    BY <1>2, <1>6, <1>7, <1>9 DEF PrevValue, IsBestOf
  <2>2. CASE isBetterResult(prev, w)
    <3>1. v = w
      BY <1>0, <2>1, <2>2 DEF RecordedOf
    <3>2. \A p \in measured[j] : ~isBetterResult(w, p[2])
      BY <1>5, <2>1, <2>2, BetterFacts
    <3> QED
      BY <1>0, <1>3, <1>4, <1>5, <1>7, <1>9, <2>1, <3>1, <3>2
  <2>3. CASE ~isBetterResult(prev, w)
    <3>1. v = prev
      BY <1>0, <1>9, <2>1, <2>3 DEF RecordedOf
    <3>2. \A p \in measured[j] : ~isBetterResult(prev, p[2])
      BY <2>1, <2>3
    <3> QED
      BY <1>0, <1>3, <1>5, <1>7, <1>9, <2>1, <3>1, <3>2
  <2> QED
    BY <2>2, <2>3
<1> QED
  BY <1>8, <1>9

LEMMA WorkerRecordIInv ==
    ASSUME IInv, WorkerRecord, UNCHANGED fault
    PROVE  IInv'
<1> DEFINE final(j) == thread.value # NoResponse /\ (j \in jobOptMap => j \in applied)
           kept(j, prev) == /\ j \in jobOptMap /\ prev # None
                            /\ ~isBetterResult(PrevValue(prev), thread.value)
<1>0. PICK j \in Jobs : thread.job = j
  BY CollectingFacts DEF WorkerRecord, Collecting
<1>1. PICK prev \in Previous(j) :
        /\ results' = IF final(j)
                      THEN [results EXCEPT ![j] = RecordedOf(j, prev, thread.value)]
                      ELSE results
        /\ bestPod' = [bestPod EXCEPT ![j] =
                         IF final(j) THEN None
                         ELSE IF j \in jobOptMap /\ ~kept(j, prev)
                              THEN thread.value ELSE @]
  BY <1>0 DEF WorkerRecord, RecordedOf
<1>2. /\ thread.pc = "record"
      /\ thread' = [thread EXCEPT !.pc = "deploy", !.dr = drKey]
      /\ UNCHANGED <<jobs, profile, measured, opt, applied, jobOptMap,
                     waiting, waitingKey, drKey, jobQueue, panicked>>
  BY DEF WorkerRecord, cluster, maps
<1>3. /\ TypeOK /\ ~panicked /\ drKey \in BOOLEAN /\ thread.value \in Measures
      /\ results \in [Jobs -> Measures \cup {None}]
      /\ bestPod \in [Jobs -> Measures \cup {None}]
  BY ThreadType DEF IInv, TypeOK
<1>4. /\ thread' \in Threads /\ thread'.pc = "deploy" /\ thread'.job = j
      /\ thread'.i = thread.i /\ (thread'.dr <=> drKey)
  BY <1>0, <1>2, <1>3, ThreadType DEF Threads
<1>5. /\ jobQueue = <<>> /\ \A k \in Jobs : jobs[k] # "active"
      /\ Busy /\ ~InScan
  BY <1>2, CollectingFacts DEF Collecting
<1>6. /\ thread.pc \in Collecting \ {"pop"}
      /\ UNCHANGED <<jobs, applied, maps, jobQueue, fault>>
      /\ \A k \in Jobs : opt'[k].pc = opt[k].pc
  BY <1>2 DEF Collecting, maps
<1>7. ThreadOK' /\ TurnOK' /\ ScanOK' /\ WaitOK' /\ KeyOK' /\ UntunedOK'
  BY <1>0, <1>4, <1>6, CollectingIInv
<1>8. RecordedOf(j, prev, thread.value) \in Measures
  <2>1. prev \in Measures \cup {None}
    BY <1>1, <1>3 DEF Previous, Parsed, Measures
  <2> QED
    BY <1>3, <2>1 DEF RecordedOf
<1>9. TypeOK' /\ ~panicked'
  <2>1. results' \in [Jobs -> Measures \cup {None}]
    BY <1>1, <1>3, <1>8
  <2>2. bestPod' \in [Jobs -> Measures \cup {None}]
    BY <1>1, <1>3
  <2> QED
    BY <1>2, <1>3, <1>4, <2>1, <2>2 DEF TypeOK
<1>10. ASSUME NEW k \in Tuned
       PROVE  /\ RoundOK(k)'
              /\ Harmless => BestOK(k)'
              /\ MayEnd => FinalOK(k)'
  <2>1. /\ k \in Jobs /\ RoundOK(k)
        /\ Harmless => BestOK(k)
        /\ MayEnd => FinalOK(k)
    BY TunedFacts
  <2>2. CASE k # j
    <3>1. results'[k] = results[k] /\ bestPod'[k] = bestPod[k]
      BY <1>1, <1>3, <2>1, <2>2
    <3> QED
      BY <1>0, <1>2, <1>4, <2>1, <2>2, <3>1, OtherJob
  <2>3. CASE k = j
    <3>1. /\ ~Held(k) /\ ~Held(k)' /\ Holding(k)' /\ ~Live(k)'
          /\ \A v : ~IsPending(k, v)'
          /\ thread.pc # "send" /\ thread'.pc # "send"
      BY <1>0, <1>2, <1>4, <1>5, <2>1, <2>3
      DEF Held, Holding, Live, IsPending, Busy, Collecting
    <3>2. Over(k) => Over(k)'
      BY <1>0, <1>2, <1>4, <2>3, <3>1 DEF Over, Stuck, Creating
    <3>3. RoundOK(k)'
      BY <1>2, <2>1, <3>1, <3>2, SameRound
    <3>4. ASSUME Harmless PROVE BestOK(k)'
      <4>0. PICK v : v = RecordedOf(j, prev, thread.value)
        OBVIOUS
      <4>1. /\ results[k] = None /\ thread.value # NoResponse /\ v \in Values
            /\ \E p \in measured[k] : p[2] = v
            /\ \A p \in measured[k] : ~isBetterResult(v, p[2])
            /\ prev # None => prev = bestPod[k] /\ k \in jobOptMap
            /\ prev = None => v = thread.value
        BY <1>0, <1>1, <1>2, <2>3, <3>4, <4>0, RecordBest
      <4>2. BestOK(k) /\ v # None
        BY <2>1, <3>4, <4>1, TuneAssumption DEF Measures
      <4>3. CASE final(j)
        <5>1. results'[k] = v /\ bestPod'[k] = None
          BY <1>1, <1>3, <2>3, <4>0, <4>3
        <5>2. IsBestOf(k, v)'
          BY <1>2, <3>1, <4>1 DEF IsBestOf
        <5>3. results'[k] # None /\ IsBestOf(k, results[k])'
          BY <4>2, <5>1, <5>2 DEF IsBestOf
        <5> QED
          BY <1>2, <1>4, <2>3, <3>1, <4>2, <5>1, <5>3 DEF BestOK
      <4>4. CASE ~final(j)
        <5>1. /\ results'[k] = None /\ j \in jobOptMap \ applied
              /\ bestPod'[k] = v
          <6>1. /\ results'[k] = None /\ j \in jobOptMap \ applied
                /\ bestPod'[k] = IF kept(j, prev) THEN bestPod[k] ELSE thread.value
            BY <1>1, <1>3, <2>3, <4>1, <4>4
          <6>2. v = IF kept(j, prev) THEN prev ELSE thread.value
            BY <4>0 DEF RecordedOf
          <6> QED
            BY <4>1, <6>1, <6>2
        <5>2. IsBestOf(k, v)'
          BY <1>2, <3>1, <4>1 DEF IsBestOf
        <5>3. bestPod'[k] # None /\ IsBestOf(k, bestPod[k])'
          BY <4>2, <5>1, <5>2 DEF IsBestOf
        <5> QED
          BY <1>2, <1>4, <2>3, <3>1, <4>2, <5>1, <5>3 DEF BestOK
      <4> QED
        BY <4>3, <4>4
    <3>5. ASSUME MayEnd PROVE FinalOK(k)'
      <4>1. FinalOK(k)
        BY <2>1, <3>5
      <4>2. Len(Scanned) > 1 /\ results'[k] # None => k \in applied
        <5>1. final(j) => (k \in jobOptMap => k \in applied)
          BY <2>3
        <5>2. Len(Scanned) > 1 /\ k \notin jobOptMap => k \in applied
          BY <1>5, <2>1 DEF IInv, WaitOK
        <5>3. results'[k] # None => final(j) \/ results[k] # None
          BY <1>1
        <5> QED
          BY <4>1, <5>1, <5>2, <5>3 DEF FinalOK
      <4> QED
        BY <1>2, <1>4, <4>1, <4>2 DEF FinalOK, FinalizedReady
    <3> QED
      BY <3>3, <3>4, <3>5
  <2> QED
    BY <2>2, <2>3
<1> QED
  BY <1>7, <1>9, <1>10 DEF IInv, RoundsOK, BestsOK, FinalsOK

LEMMA WorkerDeployIInv ==
    ASSUME IInv, WorkerDeploy, UNCHANGED fault
    PROVE  IInv'
<1> DEFINE j == thread.job
<1>1. PICK from \in {"retune", thread.from},
           pc \in {"idle", "pop", "create"} :
        /\ thread' = [thread EXCEPT !.from = from, !.pc = pc]
        /\ from = IF j \in jobOptMap \ applied THEN "retune" ELSE thread.from
        /\ pc = IF j \notin jobOptMap THEN "idle"
                ELSE IF j \in applied THEN "pop" ELSE "create"
  BY DEF WorkerDeploy
<1>2. /\ thread.pc = "deploy"
      /\ UNCHANGED <<jobs, profile, measured, results, opt, applied, jobOptMap,
                     waiting, waitingKey, drKey, bestPod, jobQueue, panicked>>
  BY DEF WorkerDeploy, cluster, maps
<1>3. /\ TypeOK /\ ~panicked /\ ThreadOK /\ TurnOK /\ ScanOK /\ WaitOK /\ KeyOK
      /\ UntunedOK
  BY DEF IInv
<1>4. /\ thread' \in Threads /\ thread'.pc = pc /\ thread'.job = j
      /\ thread'.from = from /\ thread'.i = thread.i
      /\ (thread'.dr <=> thread.dr)
  BY <1>1, <1>3, ThreadType DEF Threads
<1>5. /\ Busy /\ ~InScan /\ jobQueue = <<>> /\ j \in Jobs
      /\ thread.pc \notin Creating /\ thread.i = Len(Scanned) + 1
      /\ \A k \in Jobs : jobs[k] # "active" /\ opt[k].pc # "unborn"
      /\ \A k \in Jobs \ Tuned : k \in applied /\ opt[k].pc = "closed"
  BY <1>2, CollectingFacts DEF Collecting
<1>6. /\ pc = "create" => from = "retune" /\ j \in jobOptMap \ applied /\ j \in Tuned
      /\ pc = "create" <=> thread'.pc \in Creating
      /\ pc = "pop" => j \in applied
      /\ thread'.pc # "scan" /\ ~InScan' /\ (Busy' <=> pc # "idle")
  BY <1>1, <1>4, <1>5 DEF Creating, Collecting, InScan, Busy
<1>7. TypeOK' /\ ThreadOK' /\ TurnOK' /\ ~panicked'
  <2>1. TypeOK'
    BY <1>2, <1>3, <1>4 DEF TypeOK
  <2>2. ThreadOK'
    BY <1>1, <1>2, <1>4, <1>5, <1>6 DEF ThreadOK
  <2>3. TurnOK'
    BY <1>2, <1>3, <1>5, <1>6 DEF TurnOK
  <2> QED
    BY <1>2, <1>3, <2>1, <2>2, <2>3
<1>8. ScanOK' /\ WaitOK' /\ UntunedOK'
  <2>1. ASSUME NEW n \in 1..Len(Scanned)
        PROVE  /\ n # thread.i /\ ~(n > thread.i) /\ opt[Scanned[n]].pc # "unborn"
    BY <1>5, ScannedFacts
  <2>2. ScanOK'
    BY <1>2, <1>4, <1>5, <1>6, <2>1 DEF ScanOK
  <2>3. WaitOK'
    BY <1>2, <1>3, <1>4, <1>5, <1>6 DEF WaitOK
  <2>4. UntunedOK'
    BY <1>2, <1>3 DEF UntunedOK
  <2> QED
    BY <2>2, <2>3, <2>4
<1>9. KeyOK'
  <2>1. \A k : Holding(k)' => Holding(k)
    BY <1>2, <1>4, <1>5, <1>6 DEF Holding
  <2>2. waitingKey <=> waiting # <<>>
    BY <1>3, <1>5 DEF KeyOK
  <2>3. pc = "create" => thread'.dr
    BY <1>2, <1>3, <1>4, <1>6 DEF KeyOK
  <2>4. waiting # <<>> => thread'.dr
    BY <1>2, <1>3, <1>4 DEF KeyOK
  <2> QED
    BY <1>2, <1>3, <1>4, <1>5, <1>6, <2>1, <2>2, <2>3, <2>4 DEF KeyOK
<1>10. ASSUME NEW k \in Tuned
       PROVE  /\ RoundOK(k)'
              /\ Harmless => BestOK(k)'
              /\ MayEnd => FinalOK(k)'
  <2>1. /\ k \in Jobs /\ RoundOK(k)
        /\ Harmless => BestOK(k)
        /\ MayEnd => FinalOK(k)
    BY TunedFacts
  <2>2. CASE k # j
    BY <1>2, <1>4, <2>1, <2>2, OtherJob
  <2>3. CASE k = j
    <3>1. /\ ~Held(k) /\ ~Held(k)' /\ ~Live(k)'
          /\ \A v : ~IsPending(k, v) /\ ~IsPending(k, v)'
          /\ thread.pc # "send" /\ thread'.pc # "send"
          /\ (pc # "idle" => Holding(k)')
      BY <1>2, <1>4, <1>5, <1>6, <2>1, <2>3 DEF Held, Live, IsPending, Holding
    <3>2. Over(k) => Over(k)'
      BY <1>1, <1>2, <1>4, <2>3, <3>1 DEF Over, Stuck, Creating
    <3>3. RoundOK(k)'
      BY <1>2, <2>1, <3>1, <3>2, SameRound
    <3>4. ASSUME BestOK(k) PROVE BestOK(k)'
      <4>1. results[k] # None \/ k \in jobOptMap \ applied
        BY <1>2, <2>3, <3>4 DEF BestOK
      <4>2. /\ pc = "idle" => results[k] # None
            /\ pc = "pop" => results[k] # None
        BY <1>1, <2>3, <4>1
      <4> QED
        BY <1>2, <1>4, <3>1, <3>4, <4>2 DEF BestOK, IsBestOf
    <3>5. ASSUME FinalOK(k) PROVE FinalOK(k)'
      BY <1>2, <1>4, <3>5 DEF FinalOK, FinalizedReady
    <3> QED
      BY <2>1, <3>3, <3>4, <3>5
  <2> QED
    BY <2>2, <2>3
<1> QED
  BY <1>7, <1>8, <1>9, <1>10 DEF IInv, RoundsOK, BestsOK, FinalsOK

LEMMA WorkerPopIInv ==
    ASSUME IInv, WorkerPop, UNCHANGED fault
    PROVE  IInv'
<1> DEFINE j == thread.job
           opts == jobOptMap \ ({j} \cap applied)
<1>1. /\ thread.pc = "pop" /\ jobOptMap' = opts
      /\ panicked' = (waitingKey /\ waiting = <<>>)
      /\ UNCHANGED <<jobs, profile, measured, results, opt, applied,
                     waitingKey, bestPod, jobQueue>>
  BY DEF WorkerPop, cluster
<1>2. /\ TypeOK /\ ~panicked /\ ThreadOK /\ TurnOK /\ ScanOK /\ WaitOK /\ KeyOK
      /\ UntunedOK /\ waiting \in Seq(Jobs) /\ waitingKey \in BOOLEAN
  BY DEF IInv, TypeOK
<1>3. /\ Busy /\ ~InScan /\ jobQueue = <<>> /\ j \in Jobs
      /\ thread.pc \notin Creating /\ thread.i = Len(Scanned) + 1
      /\ \A k \in Jobs : jobs[k] # "active" /\ opt[k].pc # "unborn"
      /\ \A k \in Jobs \ Tuned : k \in applied /\ opt[k].pc = "closed"
  BY <1>1, CollectingFacts DEF Collecting
<1>4. (waitingKey <=> waiting # <<>>) /\ panicked' = FALSE
  BY <1>1, <1>2, <1>3 DEF KeyOK
<1>5. /\ opts \subseteq Jobs
      /\ Len(Scanned) > 1 => Jobs \ opts \subseteq applied
  BY <1>2, <1>3 DEF TypeOK, WaitOK
<1>6. UntunedOK'
  BY <1>1, <1>2 DEF UntunedOK
<1>7. \A n \in 1..Len(Scanned) :
         n # thread.i /\ ~(n > thread.i) /\ opt[Scanned[n]].pc # "unborn"
  BY <1>3, ScannedFacts
<1>8. ASSUME thread'.pc \in {"create", "idle"},
             \A k \in Tuned : thread'.job = k => k = j \/ thread'.pc = "create",
             \A m \in 1..Len(waiting') : \E n \in 1..Len(waiting) :
               waiting'[m] = waiting[n],
             thread'.pc = "create" => \E n \in 1..Len(waiting) :
               thread'.job = waiting[n]
      PROVE  RoundsOK' /\ BestsOK' /\ FinalsOK'
  <2>1. ASSUME NEW k \in Tuned
        PROVE  /\ RoundOK(k)'
               /\ Harmless => BestOK(k)'
               /\ MayEnd => FinalOK(k)'
    <3>1. /\ k \in Jobs /\ RoundOK(k)
          /\ Harmless => BestOK(k)
          /\ MayEnd => FinalOK(k)
      BY TunedFacts
    <3>2. /\ ~Held(k) /\ ~Held(k)' /\ ~Live(k)'
          /\ \A v : ~IsPending(k, v) /\ ~IsPending(k, v)'
          /\ thread.pc # "send" /\ thread'.pc # "send"
          /\ Holding(k) => k = j
      BY <1>1, <1>3, <1>8, <3>1 DEF Held, Live, IsPending, Holding
    <3>3. Over(k) => Over(k)'
      BY <1>1, <1>8, <3>2 DEF Over, Stuck, Creating
    <3>4. RoundOK(k)'
      BY <1>1, <3>1, <3>2, <3>3, SameRound
    <3>5. ASSUME BestOK(k) PROVE BestOK(k)'
      <4>1. k = j => results[k] # None
        BY <1>1, <3>5 DEF BestOK
      <4>2. k # j => (k \in jobOptMap => k \in opts)
        OBVIOUS
      <4>3. thread'.pc \notin {"pop", "deploy"}
        BY <1>8
      <4> QED
        BY <1>1, <3>2, <3>5, <4>1, <4>2, <4>3 DEF BestOK, IsBestOf
    <3>6. ASSUME FinalOK(k) PROVE FinalOK(k)'
      <4>1. thread.pc # "apply" /\ thread'.pc # "apply"
        BY <1>1, <1>8
      <4> QED
        BY <1>1, <3>6, <4>1 DEF FinalOK, FinalizedReady
    <3> QED
      BY <3>1, <3>4, <3>5, <3>6
  <2> QED
    BY <2>1 DEF RoundsOK, BestsOK, FinalsOK
<1>9. CASE waiting # <<>>
  <2> DEFINE h == Head(waiting)
  <2>1. /\ h \in Jobs /\ h = waiting[1] /\ Tail(waiting) \in Seq(Jobs)
        /\ Len(waiting) \in Nat \ {0}
        /\ Len(Tail(waiting)) = Len(waiting) - 1
        /\ \A i \in 1..Len(Tail(waiting)) : i + 1 \in 1..Len(waiting)
                                     /\ Tail(waiting)[i] = waiting[i + 1]
    BY <1>2, <1>9, TailFacts
  <2>2. /\ h # j /\ h \in opts /\ h \notin Tuned \cap applied
        /\ jobs[h] = "absent"
    BY <1>2, <1>3, <2>1 DEF WaitOK
  <2>3. /\ waiting' = Tail(waiting) /\ UNCHANGED drKey
        /\ thread' = [thread EXCEPT !.pc = "create", !.from = "deploy", !.job = h]
    BY <1>1, <1>4, <1>9, <2>2 DEF WorkerPop
  <2>4. /\ thread' \in Threads /\ thread'.pc = "create" /\ thread'.job = h
        /\ thread'.from = "deploy" /\ thread'.i = thread.i
        /\ (thread'.dr <=> thread.dr)
    BY <1>2, <2>1, <2>3, ThreadType DEF Threads
  <2>5. ~InScan' /\ Busy' /\ thread'.pc \in Creating
    BY <2>4 DEF InScan, Busy, Creating
  <2>6. TypeOK' /\ ThreadOK' /\ TurnOK' /\ ScanOK'
    <3>1. TypeOK'
      BY <1>1, <1>2, <1>4, <1>5, <2>1, <2>3, <2>4 DEF TypeOK
    <3>2. ThreadOK'
      BY <1>1, <2>1, <2>2, <2>4 DEF ThreadOK
    <3>3. TurnOK'
      BY <1>1, <1>2, <1>3, <2>4 DEF TurnOK
    <3>4. ScanOK'
      BY <1>1, <1>3, <1>7, <2>4, <2>5 DEF ScanOK
    <3> QED
      BY <3>1, <3>2, <3>3, <3>4
  <2>7. WaitOK'
    <3>1. ASSUME NEW m \in 1..Len(waiting')
          PROVE  /\ jobs[waiting'[m]] = "absent" /\ waiting'[m] # h
                 /\ waiting'[m] \notin Tuned \cap applied
                 /\ waiting'[m] \in opts
      <4>1. m + 1 \in 1..Len(waiting) /\ waiting'[m] = waiting[m + 1]
            /\ 1 \in 1..Len(waiting) /\ m + 1 # 1
        BY <2>1, <2>3
      <4>2. /\ waiting[m + 1] # waiting[1] /\ waiting[m + 1] # j
            /\ jobs[waiting[m + 1]] = "absent"
            /\ waiting[m + 1] \notin Tuned \cap applied
            /\ waiting[m + 1] \in jobOptMap
        BY <1>2, <1>3, <4>1 DEF WaitOK
      <4> QED
        BY <2>1, <4>1, <4>2
    <3>2. ASSUME NEW m \in 1..Len(waiting'), NEW n \in 1..Len(waiting'),
                 waiting'[m] = waiting'[n]
          PROVE  m = n
      <4>1. m + 1 \in 1..Len(waiting) /\ waiting'[m] = waiting[m + 1]
            /\ n + 1 \in 1..Len(waiting) /\ waiting'[n] = waiting[n + 1]
        BY <2>1, <2>3
      <4>2. m + 1 = n + 1
        BY <1>2, <3>2, <4>1 DEF WaitOK
      <4> QED
        BY <4>2
    <3> QED
      BY <1>1, <1>3, <1>5, <2>4, <2>5, <3>1, <3>2 DEF WaitOK
  <2>8. KeyOK'
    <3>1. drKey /\ thread.dr
      BY <1>1, <1>2, <1>3, <1>9 DEF KeyOK
    <3> QED
      BY <2>3, <2>4, <2>5, <3>1 DEF KeyOK
  <2>9. /\ \A m \in 1..Len(waiting') : \E n \in 1..Len(waiting) :
             waiting'[m] = waiting[n]
        /\ \E n \in 1..Len(waiting) : thread'.job = waiting[n]
    BY <2>1, <2>3, <2>4
  <2> QED
    BY <1>4, <1>6, <1>8, <2>4, <2>6, <2>7, <2>8, <2>9 DEF IInv
<1>10. CASE waiting = <<>>
  <2>1. /\ UNCHANGED waiting /\ drKey' = FALSE
        /\ thread' = [thread EXCEPT !.pc = "idle"]
    BY <1>1, <1>4, <1>10 DEF WorkerPop
  <2>2. /\ thread' \in Threads /\ thread'.pc = "idle" /\ thread'.job = j
        /\ thread'.from = thread.from /\ thread'.i = thread.i
    BY <1>2, <2>1, ThreadType DEF Threads
  <2>3. ~InScan' /\ ~Busy' /\ thread'.pc \notin Creating
    BY <2>2 DEF InScan, Busy, Creating, Collecting
  <2>4. TypeOK' /\ ThreadOK' /\ TurnOK' /\ ScanOK'
    <3>1. TypeOK'
      BY <1>1, <1>2, <1>4, <1>5, <2>1, <2>2 DEF TypeOK
    <3>2. ThreadOK'
      BY <2>2, <2>3 DEF ThreadOK
    <3>3. TurnOK'
      BY <1>1, <1>2, <1>3, <2>2, <2>3 DEF TurnOK
    <3>4. ScanOK'
      BY <1>1, <1>3, <1>7, <2>2, <2>3 DEF ScanOK
    <3> QED
      BY <3>1, <3>2, <3>3, <3>4
  <2>5. WaitOK' /\ KeyOK'
    <3>1. Len(waiting') = 0
      BY <1>10, <2>1, OneFacts
    <3>2. WaitOK'
      BY <1>1, <1>5, <2>2, <2>3, <3>1 DEF WaitOK
    <3>3. \A k \in Jobs : ~Holding(k)'
      BY <1>1, <1>3, <2>3 DEF Holding
    <3>4. KeyOK'
      BY <1>1, <1>4, <1>5, <1>10, <2>1, <2>2, <2>3, <3>3 DEF KeyOK
    <3> QED
      BY <3>2, <3>4
  <2> QED
    BY <1>4, <1>6, <1>8, <2>1, <2>2, <2>4, <2>5 DEF IInv
<1> QED
  BY <1>9, <1>10

-----------------------------------------------------------------------------
(***************************************************************************)
(* The invariant holds, and what follows from it.                          *)
(***************************************************************************)

LEMMA WorkerIInv ==
    ASSUME IInv, Worker, UNCHANGED fault
    PROVE  IInv'
  BY WorkerTakeIInv, WorkerCollectIInv, WorkerSkipIInv, WorkerSendIInv,
     WorkerRecordIInv, WorkerDeployIInv, WorkerPopIInv
  DEF Worker

LEMMA ThreadIInv ==
    ASSUME IInv, Thread, UNCHANGED fault
    PROVE  IInv'
  BY ScanJobIInv, SubscribeIInv, CreateIInv, WorkerIInv DEF Thread

LEMMA StutterIInv ==
    ASSUME IInv, UNCHANGED vars
    PROVE  IInv'
<1> USE DEF vars, cluster, maps
<1>1. TypeOK' /\ ~panicked'
  BY DEF IInv, TypeOK
<1>2. ThreadOK' /\ TurnOK' /\ ScanOK' /\ WaitOK' /\ KeyOK' /\ UntunedOK'
  BY DEF IInv, ThreadOK, TurnOK, ScanOK, WaitOK, KeyOK, UntunedOK, InScan, Busy,
         Holding
<1>3. ASSUME NEW k \in Tuned
      PROVE  /\ RoundOK(k)'
             /\ Harmless => BestOK(k)'
             /\ MayEnd => FinalOK(k)'
  <2>1. /\ k \in Jobs /\ RoundOK(k)
        /\ Harmless => BestOK(k)
        /\ MayEnd => FinalOK(k)
    BY TunedFacts
  <2>2. RoundOK(k)'
    <3>1. /\ (Held(k)' <=> Held(k)) /\ (Over(k) => Over(k)')
          /\ \A r : HeldRound(k, r) => HeldRound(k, r)'
      BY DEF Held, HeldRound, Over, Stuck
    <3>2. thread'.pc = "send" /\ thread'.job = k => opt[k].pc = "tune"
      BY <2>1 DEF RoundOK
    <3> QED
      BY <2>1, <3>1, <3>2, SameRound
  <2>3. ASSUME BestOK(k) PROVE BestOK(k)'
    BY <2>3 DEF BestOK, IsBestOf, IsPending, Live, Holding, Busy
  <2>4. ASSUME FinalOK(k) PROVE FinalOK(k)'
    BY <2>4 DEF FinalOK, FinalizedReady
  <2> QED
    BY <2>1, <2>2, <2>3, <2>4
<1> QED
  BY <1>1, <1>2, <1>3 DEF IInv, RoundsOK, BestsOK, FinalsOK

LEMMA NextIInv ==
    ASSUME IInv, [Next]_vars
    PROVE  IInv'
<1>1. CASE On(Thread)
  BY <1>1, ThreadIInv DEF On
<1>2. CASE \E j \in Jobs : On(Optimizer(j)) \/ On(JobCompletes(j))
  BY <1>2, OptimizerIInv, JobCompletesIInv DEF On
<1>3. CASE UNCHANGED vars
  BY <1>3, StutterIInv
<1> QED
  BY <1>1, <1>2, <1>3 DEF Next

LEMMA Invariance ==
    ASSUME FirstRuns
    PROVE  Spec => []IInv
<1>1. Init => IInv
  BY InitIInv
<1>2. IInv /\ [Next]_vars => IInv'
  BY NextIInv
<1> QED
  BY <1>1, <1>2, PTL DEF Spec

\* The channels never hold more than their size, and the state of scan,
\* worker, optimizers and maps is one that the declarations allow.
THEOREM TypeCorrect ==
    ASSUME FirstRuns
    PROVE  Spec => []TypeOK
<1>1. IInv => TypeOK
  BY DEF IInv
<1> QED
  BY <1>1, Invariance, PTL

\* ProcessJobQueue never sends on the ResultQueue that Finalize has closed, the
\* worker never indexes an empty waiting list, and CreateIfNotExists never runs
\* without the dynamic interface: under every kind of fault and every
\* interleaving of optimizers, worker and cluster.
THEOREM NoPanics ==
    ASSUME FirstRuns
    PROVE  Spec => []NoPanic
<1>1. IInv => NoPanic
  BY DEF IInv, NoPanic
<1> QED
  BY <1>1, Invariance, PTL

\* Several rounds may be under way, and CreateIfNotExists and ProcessJobQueue
\* serve them by the order of two channels only.  Still the optimizer receives
\* the results in the order in which it has sent the profiles: the n-th was
\* measured in a run under the n-th, whatever fails but the sending itself.
THEOREM SamplesMeasured ==
    ASSUME FirstRuns
    PROVE  Spec => []ResultsOfSamples
<1>1. ASSUME IInv PROVE ResultsOfSamples
  <2>1. SUFFICES ASSUME fault # "nosend", NEW j \in Tuned,
                        NEW n \in DOMAIN opt[j].ResultQueue
                 PROVE  <<opt[j].submitted[n], opt[j].ResultQueue[n]>>
                          \in measured[j]
    BY DEF ResultsOfSamples
  <2>2. RoundOK(j) /\ OptimizerOK(j)
    BY <1>1, TunedFacts, OptimizerType DEF IInv
  <2>3. n \in 1..Len(opt[j].ResultQueue) /\ opt[j].ResultQueue # <<>>
    BY <2>1, <2>2 DEF OptimizerOK
  <2>4. Received(j)
    BY <2>1, <2>2, <2>3 DEF RoundOK, NoResult
  <2> QED
    BY <2>3, <2>4 DEF Received
<1> QED
  BY <1>1, Invariance, PTL

\* A job with the turn has its round in one place only.
LEMMA HeldOnce ==
    ASSUME IInv, NEW j \in Tuned,
           NEW queued, queued = Cardinality({i \in DOMAIN jobQueue :
                                               jobQueue[i][1] = j})
    PROVE    One(thread.pc = "apply" /\ thread.job = j) + One(jobs[j] = "active")
           + queued + One(thread.pc \in {"collect", "send"} /\ thread.job = j)
           = InHand(j)
<1>1. /\ TurnOK /\ j \in Jobs /\ jobQueue \in Seq(Jobs \X Measures)
      /\ Len(jobQueue) <= 1
  BY TuneAssumption DEF IInv, TypeOK, TurnOK
<1>2. queued = One(jobQueue # <<>> /\ jobQueue[1][1] = j)
  <2>1. CASE jobQueue = <<>>
    <3>1. {i \in DOMAIN jobQueue : jobQueue[i][1] = j} = {}
      BY <2>1
    <3> QED
      BY <2>1, <3>1, FS_EmptySet DEF One
  <2>2. CASE jobQueue # <<>>
    <3>1. DOMAIN jobQueue = {1}
      <4>1. jobQueue = <<jobQueue[1]>>
        BY <1>1, <2>2, ShortFacts
      <4> QED
        BY <4>1, OneFacts
    <3>2. CASE jobQueue[1][1] = j
      <4>1. {i \in DOMAIN jobQueue : jobQueue[i][1] = j} = {1}
        BY <3>1, <3>2
      <4> QED
        BY <2>2, <3>2, <4>1, FS_Singleton DEF One
    <3>3. CASE jobQueue[1][1] # j
      <4>1. {i \in DOMAIN jobQueue : jobQueue[i][1] = j} = {}
        BY <3>1, <3>3
      <4> QED
        BY <3>3, <4>1, FS_EmptySet DEF One
    <3> QED
      BY <3>2, <3>3
  <2> QED
    BY <2>1, <2>2
<1> DEFINE A == thread.pc = "apply" /\ thread.job = j
           B == jobs[j] = "active"
           C == jobQueue # <<>> /\ jobQueue[1][1] = j
           D == thread.pc \in {"collect", "send"} /\ thread.job = j
<1>3. /\ ~(A /\ B) /\ ~(A /\ C) /\ ~(A /\ D) /\ ~(B /\ C) /\ ~(B /\ D) /\ ~(C /\ D)
  BY <1>1 DEF TurnOK, Busy, Creating, Collecting
<1>4. Held(j) <=> A \/ B \/ C \/ D
  BY DEF Held
<1> HIDE DEF A, B, C, D
<1>5. One(A) + One(B) + One(C) + One(D) = InHand(j)
  <2>1. InHand(j) = IF A \/ B \/ C \/ D THEN 1 ELSE 0
    BY <1>4 DEF InHand
  <2>2. CASE A
    BY <1>3, <2>1, <2>2 DEF One
  <2>3. CASE B
    BY <1>3, <2>1, <2>3 DEF One
  <2>4. CASE C
    BY <1>3, <2>1, <2>4 DEF One
  <2>5. CASE D
    BY <1>3, <2>1, <2>5 DEF One
  <2>6. CASE ~A /\ ~B /\ ~C /\ ~D
    BY <2>1, <2>6 DEF One
  <2> QED
    BY <2>2, <2>3, <2>4, <2>5, <2>6
<1> QED
  BY <1>2, <1>5 DEF A, B, C, D

\* Between the goroutines of the optimizers, the scan, the worker and the
\* cluster no round is counted twice, and none is lost unless it is not created
\* or its value not sent: as many rounds are in a channel, in somebody's hands
\* or running as await a result.  A benchmark of one job stores no optimizer:
\* then the worker sends no result.
THEOREM RoundsAccounted ==
    ASSUME FirstRuns, Len(Scanned) > 1
    PROVE  Spec => []RoundsBalance
<1>1. ASSUME IInv PROVE RoundsBalance
  <2>1. SUFFICES ASSUME NEW j \in Tuned, opt[j].pc = "tune"
                 PROVE  /\ RoundsUnderWay(j) <= Cardinality(opt[j].awaiting)
                        /\ fault \notin {"profile", "create", "nosend"} =>
                             RoundsUnderWay(j) = Cardinality(opt[j].awaiting)
    BY DEF RoundsBalance
  <2>2. fault \notin {"profile", "create", "nosend"} => ~Stuck
    BY ScannedFacts DEF Stuck
  <2>3. RoundOK(j)
    BY <1>1 DEF IInv, RoundsOK
  <2>4. PICK queued : queued = Cardinality({i \in DOMAIN jobQueue :
                                              jobQueue[i][1] = j})
    OBVIOUS
  <2>5. queued \in Nat
    <3>1. IsFiniteSet(1..Len(jobQueue))
      BY <1>1, FS_Interval DEF IInv, TypeOK
    <3>2. {i \in DOMAIN jobQueue : jobQueue[i][1] = j} \subseteq 1..Len(jobQueue)
      BY <1>1 DEF IInv, TypeOK
    <3> QED
      BY <2>4, <3>1, <3>2, FS_Subset, FS_CardinalityType
  <2>6. RoundsUnderWay(j) = InFlight(j)
    <3> DEFINE A == One(thread.pc = "apply" /\ thread.job = j)
               B == One(jobs[j] = "active")
               D == One(thread.pc \in {"collect", "send"} /\ thread.job = j)
    <3>1. A + B + queued + D = InHand(j)
      BY <1>1, <2>4, HeldOnce
    <3>2. RoundsUnderWay(j) = Len(opt[j].SampleQueue) + Len(opt[j].ResultQueue)
                              + A + B + queued + D
      BY <2>4 DEF RoundsUnderWay
    <3>3. /\ Len(opt[j].SampleQueue) \in Nat /\ Len(opt[j].ResultQueue) \in Nat
          /\ A \in Nat /\ B \in Nat /\ D \in Nat
      BY <1>1, TunedFacts, OptimizerType DEF IInv, OptimizerOK, One
    <3>4. PICK a \in Nat, b \in Nat, d \in Nat, l \in Nat, m \in Nat :
            /\ a = A /\ b = B /\ d = D
            /\ l = Len(opt[j].SampleQueue) /\ m = Len(opt[j].ResultQueue)
      BY <3>3
    <3>5. a + b + queued + d = InHand(j)
      BY <3>1, <3>4
    <3>6. RoundsUnderWay(j) = l + m + a + b + queued + d
      BY <3>2, <3>4
    <3>7. InFlight(j) = m + InHand(j) + l /\ InHand(j) \in Nat
      BY <3>4 DEF InFlight, InHand
    <3>8. l + m + a + b + queued + d = m + (a + b + queued + d) + l
      BY <2>5
    <3> QED
      BY <3>5, <3>6, <3>7, <3>8
  <2> QED
    BY <2>1, <2>2, <2>3, <2>6 DEF RoundOK, Whole, Over
<1> QED
  BY <1>1, Invariance, PTL

\* ProcessJobQueue records for a tuned job the best value of all its runs,
\* although it compares two values at a time, across the tuning rounds and
\* with the run of the final profile; with an optimizer stored (more than one
\* job), it records that only after the run under the best profile of all
\* rounds, or under the empty one that is left when the optimizer fails.
THEOREM RecordedBest ==
    ASSUME FirstRuns
    PROVE  Spec => [](RecordedIsBest /\ (Len(Scanned) > 1 => RecordedRight))
<1>1. ASSUME IInv PROVE RecordedIsBest
  <2>1. SUFFICES ASSUME Harmless, NEW j \in Tuned,
                        results[j] # None
                 PROVE  /\ \E p \in measured[j] : p[2] = results[j]
                        /\ \A p \in measured[j] :
                             ~isBetterResult(results[j], p[2])
    BY DEF RecordedIsBest
  <2>2. IsBestOf(j, results[j]) /\ ~Live(j)
    BY <1>1, <2>1 DEF IInv, BestsOK, BestOK
  <2>3. \A v : ~IsPending(j, v)
    BY <2>2 DEF IsPending, Live
  <2> QED
    BY <2>2, <2>3 DEF IsBestOf
<1>2. ASSUME IInv, Len(Scanned) > 1 PROVE RecordedAfterFinal
  <2>1. SUFFICES ASSUME MayEnd, NEW j \in Tuned, results[j] # None
                 PROVE  IF opt[j].round = Rounds
                        THEN profile[j] \in {p[1] : p \in Best(opt[j].log)}
                        ELSE fault = "optimize" /\ profile[j] = NoProfile
    BY DEF RecordedAfterFinal
  <2>2. FinalOK(j) /\ RoundOK(j) /\ ~Live(j)
    BY <1>2, <2>1 DEF IInv, FinalsOK, RoundsOK, BestsOK, BestOK
  <2>3. j \in applied /\ FinalizedReady(j)
    BY <1>2, <2>1, <2>2 DEF FinalOK, RoundOK, SampleClosed, FinalizedReady
  <2>4. profile[j] = opt[j].finalized
    BY <2>2, <2>3 DEF FinalOK, Live
  <2> QED
    BY <2>2, <2>3, <2>4 DEF FinalOK
<1>3. IInv => RecordedIsBest /\ (Len(Scanned) > 1 => RecordedRight)
  BY <1>1, <1>2 DEF RecordedRight
<1> QED
  BY <1>3, Invariance, PTL

\* Between two runs of a job that is being tuned, ProcessJobQueue makes no
\* other job run: its rounds come before the jobs that wait, so that a node is
\* never tuned for two jobs at once.
THEOREM NotInterrupted ==
    ASSUME FirstRuns
    PROVE  Spec => TuningNotInterrupted
<1> DEFINE Step == Harmless => \A j \in Jobs, k \in Tuned :
                     jobs[j] # "active" /\ jobs'[j] = "active" /\ j # k =>
                        jobs[k] = "absent" \/ results[k] # None
<1>1. ASSUME IInv, Next PROVE Step
  <2>1. SUFFICES ASSUME Harmless, NEW j \in Jobs, NEW k \in Tuned,
                        jobs[j] # "active", jobs'[j] = "active", j # k
                 PROVE  jobs[k] = "absent" \/ results[k] # None
    OBVIOUS
  <2>2. jobs \in [Jobs -> {"absent", "active", "complete"}] /\ k \in Jobs
    BY <1>1, TuneAssumption DEF IInv, TypeOK
  <2>3. CreateUntuned \/ ApplyProfile
    <3>1. jobs' # jobs
      BY <2>1
    <3>2. ASSUME NEW i \in Jobs, JobCompletes(i) PROVE FALSE
      <4>1. jobs' = [jobs EXCEPT ![i] = "complete"]
        BY <3>2 DEF JobCompletes
      <4> QED
        BY <2>1, <2>2, <4>1
    <3>3. ASSUME NEW i \in Jobs, Optimizer(i) PROVE FALSE
      <4>1. CASE Propose(i)
        BY <3>1, <4>1 DEF Propose, cluster
      <4>2. CASE ProposeInvalid(i)
        BY <3>1, <4>2 DEF ProposeInvalid, cluster
      <4>3. CASE Receive(i)
        BY <3>1, <4>3 DEF Receive, cluster
      <4>4. CASE Settle(i) \/ OptimizeFails(i) \/ CloseQueues(i)
        BY <3>1, <4>4 DEF Settle, OptimizeFails, CloseQueues, cluster
      <4> QED
        BY <3>3, <4>1, <4>2, <4>3, <4>4 DEF Optimizer
    <3>4. Thread
      BY <1>1, <3>2, <3>3 DEF Next, On
    <3>5. ~ScanJob /\ ~Subscribe
      BY <3>1 DEF ScanJob, Subscribe, cluster
    <3>6. ~CreateTuned /\ ~TakeSample /\ ~TakeFinal
      BY <3>1 DEF CreateTuned, TakeSample, TakeFinal, cluster
    <3>7. ~WorkerTake /\ ~WorkerCollect /\ ~WorkerSkip /\ ~WorkerSend
      BY <3>1 DEF WorkerTake, WorkerCollect, WorkerSkip, WorkerSend, cluster
    <3>8. ~WorkerRecord /\ ~WorkerDeploy /\ ~WorkerPop
      BY <3>1 DEF WorkerRecord, WorkerDeploy, WorkerPop, cluster
    <3> QED
      BY <3>4, <3>5, <3>6, <3>7, <3>8 DEF Thread, CreateIfNotExists, Worker
  <2>4. Busy /\ jobs' = [jobs EXCEPT ![thread.job] = "active"]
    BY <2>1, <2>3, TuneAssumption
    DEF CreateUntuned, ApplyProfile, Busy, Creating, May, FaultKinds
  <2>5. j = thread.job
    BY <2>1, <2>2, <2>4
  <2>6. ~Holding(k)
    <3>1. CASE jobs[k] = "active"
      <4>1. k = thread.job
        BY <1>1, <2>2, <2>4, <3>1 DEF IInv, TurnOK
      <4> QED
        BY <2>1, <2>5, <4>1
    <3>2. CASE jobs[k] # "active"
      BY <1>1, <2>1, <2>4, <2>5, <3>2 DEF IInv, TurnOK, Holding
    <3> QED
      BY <3>1, <3>2
  <2>7. BestOK(k)
    BY <1>1, <2>1 DEF IInv, BestsOK
  <2> QED
    BY <2>6, <2>7 DEF BestOK
<1>2. IInv /\ [Next]_vars => [Step]_vars
  BY <1>1
<1>3. Spec => [][Step]_vars
  BY <1>2, Invariance, PTL DEF Spec
<1> QED
  BY <1>3 DEF TuningNotInterrupted
=============================================================================
