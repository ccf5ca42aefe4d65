--------------------------- MODULE MCJobPipeline ---------------------------
(***************************************************************************)
(* Instances of JobPipeline: two sequential benchmarks, and one that runs  *)
(* two labels in parallel for each of two repetitions.                     *)
(***************************************************************************)
EXTENDS JobPipeline, TLC

CONSTANTS b1, b2, s1, s2, s3, t1, p1, p2, p3, p4

\* A sequential benchmark beside a parallel one, sharing the tracker: the
\* first job of a repetition takes its turn, the second is created at once.
MixedJobsOf == (b1 :> <<s1, s2, s3>>) @@ (b2 :> <<p1, p2, p3, p4>>)
MixedEager == {p2, p4}

\* Two sequential benchmarks sharing the tracker, one of a single job.
TwoJobsOf == (b1 :> <<s1, s2, s3>>) @@ (b2 :> <<t1>>)

\* A sequential benchmark alone.
OneJobsOf == (b1 :> <<s1, s2, s3>>)
=============================================================================
