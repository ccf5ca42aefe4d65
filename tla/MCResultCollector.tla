-------------------------- MODULE MCResultCollector --------------------------
(***************************************************************************)
(* Two benchmarks of one name and a third one; items with a number, with   *)
(* two keys that the gauge does not tell apart, a list and labels, with an *)
(* error, and with a list that is empty.                                   *)
(***************************************************************************)
EXTENDS ResultCollector, TLC

CONSTANTS b1, b2, b3, i1, i2, i3, i4, s1, s2

Number(n) == [kind |-> "float64", numbers |-> {[attrbs |-> "", value |-> n]}]
List2(m, n) == [kind |-> "[]float64",
                numbers |-> {[attrbs |-> 0, value |-> m], [attrbs |-> 1, value |-> n]}]
Labelled(n) == [kind |-> "[]ValueWithLabels",
                numbers |-> {[attrbs |-> "size", value |-> n]}]
NoLabelled == [kind |-> "[]ValueWithLabels", numbers |-> {}]

MCNameOf == b1 :> "name" @@ b2 :> "name" @@ b3 :> "other"
MCOwnerOf == i1 :> b1 @@ i2 :> b2 @@ i3 :> b3 @@ i4 :> b3
MCLabelsOf == i1 :> "job" @@ i2 :> "job" @@ i3 :> "job" @@ i4 :> "job2"
MCGaugeKeyOf ==
    "ops/s" :> "ops_per_s" @@ "ops_per_s" :> "ops_per_s" @@ "latency" :> "latency"
    @@ "time" :> "time"
MCValuesOf ==
    i1 :> ("ops/s" :> Number(1))
    @@ i2 :> ("ops/s" :> Number(2) @@ "ops_per_s" :> Number(3)
              @@ "latency" :> List2(1, 2) @@ "time" :> Labelled(1))
    @@ i3 :> Unreadable
    @@ i4 :> ("latency" :> NoLabelled)
=============================================================================
