--------------------------- MODULE ResultCollector ---------------------------
(***************************************************************************)
(* The gauge that shows the results of all benchmarks.  The metrics        *)
(* registry calls Collect for every scrape, for two at once when they      *)
(* overlap; each call lists the benchmarks, clears the one gauge they      *)
(* share, fills it item by item and sends what is in it.                   *)
(***************************************************************************)
EXTENDS Integers, FiniteSets

CONSTANTS
    Benchmarks,  \* Benchmark resources
    NameOf,      \* their names: a resource of another namespace may share one
    Items,       \* result items that may be recorded
    OwnerOf,     \* the benchmark of an item
    LabelsOf,    \* its build, configuration, scenario, job and pod
    ValuesOf,    \* what its parser made of the log, or Unreadable
    GaugeKeyOf,  \* relabelKey
    Scrapes,     \* scrapes that may happen
    Unreadable   \* the text of an error instead of values

\* What a parser makes of a key: a kind, and its numbers with their labels.
Kinds == {"float64", "[]float64", "[]ValueWithLabels", "[]ValuesWithLabels"}

ASSUME CollectorAssumption ==
    /\ OwnerOf \in [Items -> Benchmarks]
    /\ DOMAIN NameOf = Benchmarks /\ DOMAIN LabelsOf = Items
    /\ DOMAIN ValuesOf = Items

VARIABLES
    recorded,  \* items in the status of some benchmark
    present,   \* benchmarks that exist
    gauge,     \* resultVectors: a set of (series, value)
    scrape,    \* the scrapes: see ScrapeStates
    listed,    \* what each scrape has listed
    todo,      \* what of that it has still to set
    shown,     \* what it has sent
    seen,      \* history: items listed by it or by scrapes it overlapped
    alone,     \* history: scrapes that no other one has overlapped
    panicked

scraping == <<gauge, scrape, listed, todo, shown, seen, alone>>
collectorVars     == <<recorded, present, scraping, panicked>>

ScrapeStates == {"none", "reset", "fill", "sent"}
Running == {s \in Scrapes : scrape[s] \in {"reset", "fill"}}

-----------------------------------------------------------------------------
(***************************************************************************)
(* From what a parser made of a log to the series of the gauge.            *)
(***************************************************************************)

\* json.Unmarshal: objects, with their labels, are not turned back into the
\* types they had, and a list that was never appended to is null.
Unmarshal(v) ==
    [kind    |-> CASE v.kind = "float64"  -> "number"
                   [] v.numbers = {}      -> "null"
                   [] v.kind = "[]float64" -> "numbers"
                   [] OTHER               -> "objects",
     numbers |-> v.numbers]

Series(item, key, attrbs) ==
    <<NameOf[OwnerOf[item]], LabelsOf[item], GaugeKeyOf[key], attrbs>>

\* updateGaugeVec sets a number, and the numbers of a list by their index.
SeriesOf(item, key) ==
    LET v == Unmarshal(ValuesOf[item][key]) IN
    IF v.kind \in {"number", "numbers"}
    THEN {<<Series(item, key, n.attrbs), n.value>> : n \in v.numbers} ELSE {}

Exports(item) ==
    IF ValuesOf[item] = Unreadable THEN {}
    ELSE UNION {SeriesOf(item, key) : key \in DOMAIN ValuesOf[item]}

\* reflect.TypeOf(nil) is nil, and so has no Kind.
HasNull(item) ==
    /\ ValuesOf[item] # Unreadable
    /\ \E key \in DOMAIN ValuesOf[item] :
         Unmarshal(ValuesOf[item][key]).kind = "null"

SeriesIn(pairs) == {p[1] : p \in pairs}

\* The gauge after pairs are set, the last one of each series.
Set(pairs) == {p \in gauge : p[1] \notin SeriesIn(pairs)} \cup pairs

-----------------------------------------------------------------------------
CollectorInit ==
    /\ recorded = {} /\ present = Benchmarks
    /\ gauge = {} /\ alone = {} /\ panicked = FALSE
    /\ scrape = [s \in Scrapes |-> "none"]
    /\ listed = [s \in Scrapes |-> {}] /\ todo = [s \in Scrapes |-> {}]
    /\ shown = [s \in Scrapes |-> {}] /\ seen = [s \in Scrapes |-> {}]

\* The tracker records a result.
RecordResult(item) ==
    /\ OwnerOf[item] \in present /\ item \notin recorded
    /\ recorded' = recorded \cup {item}
    /\ UNCHANGED <<present, scraping>>

DeleteBenchmark(b) ==
    /\ b \in present
    /\ present' = present \ {b}
    /\ recorded' = {item \in recorded : OwnerOf[item] # b}
    /\ UNCHANGED scraping

\* Collect lists the benchmarks; nobody looks at the error if it cannot.
List(s) ==
    /\ scrape[s] = "none"
    /\ \E items \in {recorded, {}} :
         /\ listed' = [listed EXCEPT ![s] = items]
         /\ todo' = [todo EXCEPT ![s] = items]
         /\ seen' = [t \in Scrapes |->
                       IF t = s THEN items \cup UNION {listed[r] : r \in Running}
                       ELSE IF t \in Running THEN seen[t] \cup items
                       ELSE seen[t]]
    /\ scrape' = [scrape EXCEPT ![s] = "reset"]
    /\ alone' = IF Running = {} THEN alone \cup {s} ELSE alone \ Running
    /\ UNCHANGED <<recorded, present, gauge, shown>>

\* Mutant: the gauge is not cleared.
KeepGauge(s) ==
    /\ scrape[s] = "reset"
    /\ scrape' = [scrape EXCEPT ![s] = "fill"]
    /\ UNCHANGED <<recorded, present, gauge, listed, todo, shown, seen, alone>>

Reset(s) ==
    /\ scrape[s] = "reset"
    /\ gauge' = {}
    /\ scrape' = [scrape EXCEPT ![s] = "fill"]
    /\ UNCHANGED <<recorded, present, listed, todo, shown, seen, alone>>

\* The keys of an item come in any order: of two that the gauge does not tell
\* apart, either may be the last.
Fill(s, item) ==
    /\ scrape[s] = "fill" /\ item \in todo[s]
    /\ ~HasNull(item)
    /\ \E pairs \in SUBSET Exports(item) :
         /\ \A p \in Exports(item) : \E q \in pairs : q[1] = p[1]
         /\ \A p, q \in pairs : p[1] = q[1] => p = q
         /\ gauge' = Set(pairs)
    /\ todo' = [todo EXCEPT ![s] = @ \ {item}]
    /\ UNCHANGED <<recorded, present, scrape, listed, shown, seen, alone>>

FillPanics(s, item) ==
    /\ scrape[s] = "fill" /\ item \in todo[s]
    /\ HasNull(item)
    /\ panicked' = TRUE
    /\ UNCHANGED <<recorded, present, scraping>>

\* Mutant: the gauge is sent while it is being filled.
SendEarly(s) ==
    /\ scrape[s] = "fill"
    /\ shown' = [shown EXCEPT ![s] = gauge]
    /\ scrape' = [scrape EXCEPT ![s] = "sent"]
    /\ UNCHANGED <<recorded, present, gauge, listed, todo, seen, alone>>

Send(s) ==
    /\ scrape[s] = "fill" /\ todo[s] = {}
    /\ shown' = [shown EXCEPT ![s] = gauge]
    /\ scrape' = [scrape EXCEPT ![s] = "sent"]
    /\ UNCHANGED <<recorded, present, gauge, listed, todo, seen, alone>>

Cluster == \/ \E item \in Items : RecordResult(item)
           \/ \E b \in Benchmarks : DeleteBenchmark(b)

Collect(s) == \/ List(s) \/ Reset(s) \/ Send(s)
              \/ \E item \in Items : Fill(s, item)

CollectorNext ==
    /\ ~panicked
    /\ \/ Cluster /\ UNCHANGED panicked
       \/ \E s \in Scrapes : Collect(s) /\ UNCHANGED panicked
       \/ \E s \in Scrapes, item \in Items : FillPanics(s, item)

CollectorSpec == CollectorInit /\ [][CollectorNext]_collectorVars

-----------------------------------------------------------------------------
(***************************************************************************)
(* Properties.                                                             *)
(***************************************************************************)

\* A series has one value in the gauge, and what scrapes hold was recorded.
GaugeTypeOK ==
    /\ recorded \subseteq Items /\ present \subseteq Benchmarks
    /\ \A p, q \in gauge : p[1] = q[1] => p = q
    /\ scrape \in [Scrapes -> ScrapeStates]
    /\ \A f \in {listed, todo, seen} : f \in [Scrapes -> SUBSET Items]
    /\ DOMAIN shown = Scrapes /\ alone \subseteq Scrapes /\ panicked \in BOOLEAN

\* A scrape that no other one overlaps sends every series of what it listed,
\* and nothing else: nothing of a benchmark that is gone.
AloneIsExact ==
    \A s \in alone : scrape[s] = "sent" =>
        SeriesIn(shown[s]) = UNION {SeriesIn(Exports(item)) : item \in listed[s]}

\* Two scrapes that overlap may lose series, but show no value that neither of
\* them, nor another one that overlapped them, has listed.
OnlyListed ==
    \A s \in Scrapes : scrape[s] = "sent" =>
        shown[s] \subseteq UNION {Exports(item) : item \in seen[s]}

\* Whatever a parser returns for a key is shown: of numbers and of numbers with
\* labels there is a series at least.
EveryKeyShown ==
    \A s \in alone : scrape[s] = "sent" => \A item \in listed[s] :
        ValuesOf[item] # Unreadable =>
            \A key \in DOMAIN ValuesOf[item] : \E p \in shown[s] :
                p[1][1] = NameOf[OwnerOf[item]] /\ p[1][3] = GaugeKeyOf[key]
=============================================================================
