--------------------------- MODULE MCJobDeployment ---------------------------
(***************************************************************************)
(* Four benchmarks, one for each adaptor: scenarios with and without       *)
(* configurations and node selection, locations that go through maps, an   *)
(* index and a condition, templates with and without a node selector, and  *)
(* one that fails for a choice of values and gives no object for another;  *)
(* two nodes.  And benchmarks of which the code makes nothing good: an     *)
(* item without values, a selector with a label that has no dot, a         *)
(* template that fails for the first choice, one that gives no object to   *)
(* write labels into.                                                      *)
(***************************************************************************)
EXTENDS JobDeployment, TLC

CONSTANTS n1, n2

Item(n, vs) == [name |-> n, values |-> vs]
Size == Item("size", <<"s1", "s2">>)
Threads == Item("threads", <<"t1", "t2">>)
Type == <<"beta", "kubernetes", "io/type">>
Arch == <<"arch">>

MCNodeLabels == (n1 :> (Type :> "big" @@ Arch :> "amd64"))
                @@ (n2 :> (Type :> "small" @@ Arch :> "amd64"))

Select(location, values, selector) ==
    <<[location |-> location, tunedValues |-> values, selector |-> selector]>>

Plain == Map(<<"template">> :> Map(<<"spec">> :> Map(<<>>)))
InArch == Map(Arch :> Scalar("amd64"))
Tasks == Map(<<"tasks">> :> List(<<
            Map(<<"name">> :> Scalar("driver")),
            Map(<<"name">> :> Scalar("main") @@ <<"nodeSelector">> :> InArch)>>))
Launcher == Map(<<"workers">> :> List(<<Map(<<>>)>>))
InTemplate == Parts(<<"template", "spec", "nodeSelector">>)
InTask == <<[Part("tasks") EXCEPT !.type = "MAP", !.sub = <<"name">>,
                                  !.want = "main"], Part("nodeSelector")>>
InList == <<[Part("workers") EXCEPT !.type = "LIST"], Part("nodeSelector")>>

Bench(its, confs, sel, reps, adaptor, template) ==
    [iteration |-> its, configuration |-> confs, nodeSelection |-> sel,
     sequential |-> TRUE, repetition |-> reps, adaptor |-> adaptor,
     template |-> template, fails |-> {}, undecoded |-> {}]

Choice(s, t) == "size" :> s @@ "threads" :> t

Configured ==
    [Bench(<<Size>>, <<Threads>>, <<>>, 0, "default", Plain)
       EXCEPT !.fails = {Choice("s2", "t1")}, !.undecoded = {Choice("s1", "t2")}]
Labelled == Bench(<<Size>>, <<>>,
    Select(InTemplate, <<DEFAULT, "p1">>, Type :> "big"), 1, "mpi", Plain)
Built == Bench(<<>>, <<>>,
    Select(InTask, <<"p1", DEFAULT>>, <<>>), 1, "ripsaw", Tasks)
Listed == Bench(<<Threads>>, <<>>,
    Select(InList, <<"p1">>, Type :> "small"), 2, "kubeflow", Launcher)

Emptied == Bench(<<Size, Item("threads", <<>>)>>, <<>>, <<>>, 0, "none", Plain)

Undotted == Bench(<<>>, <<>>,
    Select(InTemplate, <<DEFAULT, "p1">>, Type :> "big" @@ Arch :> "amd64"),
    1, "default", Plain)
FirstFails == [Bench(<<Size>>, <<>>, <<>>, 0, "default", Plain)
                 EXCEPT !.fails = {"size" :> "s1"}]
Undecoded == [Bench(<<>>, <<>>, Select(InTemplate, <<DEFAULT, "p1">>, <<>>), 1,
                    "default", Plain)
                EXCEPT !.undecoded = {PROFILE :> DEFAULT, PROFILE :> "p1"}]

MCSpecs == {Configured, Labelled, Built, Listed, Emptied, Undotted, FirstFails,
            Undecoded}
MCBuilds == [s \in MCSpecs |-> IF s = Built THEN <<"b1", "b2">>
                               ELSE IF s = Listed THEN <<"b1">> ELSE <<>>]
=============================================================================
