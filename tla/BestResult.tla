----------------------------- MODULE BestResult -----------------------------
(***************************************************************************)
(* How the tracker keeps Status.Results and Status.BestResults of one      *)
(* benchmark and build: updateBenchmarkStatus, called once for each job,   *)
(* in the order in which the jobs complete.  Performance values are        *)
(* integers; averages are compared as fractions, so that the rounding of   *)
(* the six decimals kept in the status is abstracted.                      *)
(***************************************************************************)
EXTENDS Integers, SequencesExt

CONSTANTS
    Scenarios,    \* iterationID
    Configs,      \* configurationID
    Repetitions,  \* spec.repetition
    Values,       \* values the parser returns
    Minimize,     \* spec.iterationSpec.minimize
    MayFail       \* whether the parser service may answer with an error

ASSUME BestAssumption ==
    /\ Repetitions \in Nat \ {0}
    /\ Values \subseteq Int
    /\ Minimize \in BOOLEAN /\ MayFail \in BOOLEAN

\* The parser's performance key, and the empty one of an error response.
Key   == "pkey"
NoKey == ""
Keys  == {Key, NoKey}

\* The value in the parser service's error response.
Error == -1

VARIABLES
    results,      \* Items of a BenchmarkResult: [Scenarios \X Configs -> Seq]
    bestResults   \* [Scenarios \X Keys -> an entry, or NoEntry]

vars == <<results, bestResults>>

NoEntry == [count |-> 0]

\* An entry is the configuration with the average (a fraction) it had.
Entries == [config : Configs, sum : Int, count : 1..Repetitions]

TypeOK ==
    /\ results \in [Scenarios \X Configs -> Seq(Int)]
    /\ \A k \in Scenarios \X Configs : Len(results[k]) <= Repetitions
    /\ bestResults \in [Scenarios \X Keys -> Entries \cup {NoEntry}]

Sum(items) == FoldLeft(+, 0, items)

\* The average of a configuration that has a result.
Average(c, items) == [config |-> c, sum |-> Sum(items), count |-> Len(items)]

\* Is average val2 better than val1?
isBetterResult(val1, val2) ==
    IF Minimize THEN val2.sum * val1.count < val1.sum * val2.count
                ELSE val2.sum * val1.count > val1.sum * val2.count

\* What the parser service answers; an error still carries a value.
Responses ==
    [key : {Key}, value : Values]
      \cup IF MayFail THEN {[key |-> NoKey, value |-> Error]} ELSE {}

Init ==
    /\ results = [k \in Scenarios \X Configs |-> <<>>]
    /\ bestResults = [k \in Scenarios \X Keys |-> NoEntry]

\* Seeded fault: the last average replaces the best one.
KeepLast(s, c, response) ==
    /\ Len(results[<<s, c>>]) < Repetitions
    /\ results' = [results EXCEPT ![<<s, c>>] = Append(@, response.value)]
    /\ bestResults' = [bestResults EXCEPT
                         ![<<s, response.key>>] = Average(c, results'[<<s, c>>])]

\* Seeded fault: the sum with the new value is divided by the old count.
DivideByOldCount(s, c, response) ==
    LET items     == Append(results[<<s, c>>], response.value)
        candidate == [Average(c, items) EXCEPT
                        !.count = IF @ = 1 THEN 1 ELSE @ - 1]
        old       == bestResults[<<s, response.key>>]
    IN
    /\ Len(results[<<s, c>>]) < Repetitions
    /\ results' = [results EXCEPT ![<<s, c>>] = items]
    /\ bestResults' =
         IF old = NoEntry \/ isBetterResult(old, candidate)
         THEN [bestResults EXCEPT ![<<s, response.key>>] = candidate]
         ELSE bestResults

\* A job of scenario s and configuration c, one for each repetition, is
\* collected with this response.
updateBenchmarkStatus(s, c, response) ==
    LET items     == Append(results[<<s, c>>], response.value)
        candidate == Average(c, items)
        old       == bestResults[<<s, response.key>>]
    IN
    /\ Len(results[<<s, c>>]) < Repetitions
    /\ results' = [results EXCEPT ![<<s, c>>] = items]
    /\ bestResults' =
         IF old = NoEntry \/ isBetterResult(old, candidate)
         THEN [bestResults EXCEPT ![<<s, response.key>>] = candidate]
         ELSE bestResults

Next == \E s \in Scenarios, c \in Configs, response \in Responses :
            updateBenchmarkStatus(s, c, response)

Spec == Init /\ [][Next]_vars

-----------------------------------------------------------------------------
\* Reference: fraction a is better than fraction b.
Beats(a, b) == LET diff == a.sum * b.count - b.sum * a.count
               IN  IF Minimize THEN diff < 0 ELSE diff > 0

\* The configurations that have runs, none of which the parser failed to read.
Measured(s) == {c \in Configs : results[<<s, c>>] # <<>>
                                  /\ Error \notin Range(results[<<s, c>>])}

\* No configuration's average over its runs so far is better than the best
\* result shown for its scenario, whose update compares with one entry only.
NothingBetter ==
    \A s \in Scenarios : \A c \in Measured(s) :
        /\ bestResults[<<s, Key>>] # NoEntry
        /\ ~Beats(Average(c, results[<<s, c>>]), bestResults[<<s, Key>>])

\* The best result was the average of its configuration over the first runs
\* of it that completed: it is made of that configuration's runs alone.
BestWasMeasured ==
    \A s \in Scenarios :
        LET best == bestResults[<<s, Key>>] IN
        best # NoEntry =>
            LET runs == results[<<s, best.config>>] IN
            /\ best.count <= Len(runs)
            /\ best = Average(best.config, SubSeq(runs, 1, best.count))

\* The best result shown is one that was measured, and no average is better.
BestIsRight == TypeOK /\ NothingBetter /\ BestWasMeasured

\* The documented result: the configuration whose average over all its runs
\* is best, with that average.
BestIsBestAverage ==
    \A s \in Scenarios :
        LET best == bestResults[<<s, Key>>] IN
        Measured(s) # {} =>
            \E c \in Measured(s) :
                /\ best = Average(c, results[<<s, c>>])
                /\ \A d \in Measured(s) :
                     ~Beats(Average(d, results[<<s, d>>]), best)

\* A best result is only replaced by a better one, of the same scenario, and
\* of the configuration whose run has just been collected.
BestOnlyImproves ==
    [][\A k \in Scenarios \X Keys :
          bestResults[k] # NoEntry /\ bestResults'[k] # bestResults[k] =>
              /\ Beats(bestResults'[k], bestResults[k])
              /\ results'[<<k[1], bestResults'[k].config>>]
                   # results[<<k[1], bestResults'[k].config>>]]_vars
=============================================================================
