------------------------ MODULE MCBenchmarkOperator ------------------------
EXTENDS BenchmarkOperator, TLC
CONSTANTS n1, n2, o1, o2, c1, c2, g, g1, g2, m1, shared, r

Definitions == o1 :> {c1} @@ o2 :> {c1, c2}
DefinitionGroups == c1 :> g1 @@ c2 :> g2
Jobs == o1 :> g @@ o2 :> g2
Paths == o1 :> {m1, shared} @@ o2 :> {shared}
Releases == o1 :> r @@ o2 :> r

=============================================================================
