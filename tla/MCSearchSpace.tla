---------------------------- MODULE MCSearchSpace ----------------------------
(***************************************************************************)
(* Directories: integers with ranges that begin at a multiple of the step, *)
(* between two or below zero, and sets; a name in two files of one type, a *)
(* file without a type; an error in a line, in a type or in a kind of      *)
(* parameter after good ones; a fraction, and a range smaller than a step. *)
(***************************************************************************)
EXTENDS SearchSpace

CONSTANTS always, never

Line(n, as) == [name |-> n, args |-> as]
File(t, k, ls) == [twoParts |-> TRUE, tuneType |-> t, paramType |-> k,
                   lines |-> ls]
Other == [File("README", "int", <<>>) EXCEPT !.twoParts = FALSE]

\* netdev_max_backlog=1000,250000,2000 of config/tuned/nw_ss.yaml, smaller.
Backlog == Line("backlog", <<1, 5, 2>>)
Below   == Line("below", <<-3, 1, 2>>)
Ratio   == Line("ratio", <<0, 2>>)
Pages   == Line("pages", <<always, never>>)

Good == <<File("sysctl", "int", <<Backlog, Below>>), File("vm", "set", <<Pages>>)>>
Twice == <<Other, File("sysctl", "int", <<Ratio, Backlog>>),
           File("sysctl", "set", <<Line("ratio", <<always, never>>)>>)>>
BadLine == <<File("sysctl", "int", <<Ratio>>),
             File("vm", "set", <<Line("ratio", <<never>>), Line("x", <<>>)>>),
             File("vm", "int", <<Backlog>>)>>
BadType == <<File("sysctl", "set", <<Pages>>), File("unknown", "int", <<Ratio>>)>>
BadKind == <<File("vm", "int", <<Below>>), File("vm", "yaml", <<Ratio>>)>>
Fraction == <<File("cpu", "float", <<Ratio>>), File("vm", "set", <<Pages>>)>>
Narrow == <<File("sysctl", "int", <<Line("narrow", <<0, 1, 2>>)>>)>>

MCDirs == {Good, Twice, BadLine, BadType, BadKind, Fraction, Narrow}
ShippedDirs == {<<File("sysctl", "int", <<Backlog, Ratio>>)>>}
MCRefused == -1
MCResults == {-1, 1}
MCExplored == {-8, -6, -1, 0, 1, 2, 3, 4, 5, 7, 10}
=============================================================================
