-------------------------- MODULE OperatorAdaptors --------------------------
(***************************************************************************)
(* How the operator reads the jobs of each kind of job operator: when a    *)
(* job is complete and which pods are its own.  A job's status has         *)
(* conditions, or for ripsaw a state; a pod has the job it belongs to, its *)
(* role and its phase.                                                     *)
(***************************************************************************)
EXTENDS Naturals, Sequences, SequencesExt

Adaptors == {"default", "ripsaw", "mpi", "kubeflow"}

\* An adaptor the operator does not know is the default one.
AdaptorOf(name) == IF name \in Adaptors THEN name ELSE "default"

DefaultComplete(st) ==
    \E i \in 1..Len(st.conditions) :
       st.conditions[i].type = "Complete" /\ st.conditions[i].status = "True"

RipsawComplete(st) == st.state = "Complete"

\* mpi and kubeflow; "...JobSucceeded" of every kind of job is one reason.
ReasonComplete(st) ==
    \E i \in 1..Len(st.conditions) :
       st.conditions[i].reason = "JobSucceeded" /\ st.conditions[i].status = "True"

CheckComplete(adaptor, st) ==
    CASE adaptor = "default" -> DefaultComplete(st)
      [] adaptor = "ripsaw" -> RipsawComplete(st)
      [] OTHER -> ReasonComplete(st)

\* By the label job-name.
PodsByLabel(job, pods) == SelectSeq(pods, LAMBDA p : p.job = job)

\* By the identifier that ripsaw gives each job, and its workload's name.
PodsOfRipsaw(job, pods) == SelectSeq(pods, LAMBDA p : p.job = job)

\* By a name that contains the job's and "-launcher".
PodsOfMPI(job, pods) ==
    SelectSeq(pods, LAMBDA p : p.job = job /\ p.role = "launcher")

GetPodList(adaptor, job, pods) ==
    CASE adaptor = "mpi" -> PodsOfMPI(job, pods)
      [] adaptor = "ripsaw" -> PodsOfRipsaw(job, pods)
      [] OTHER -> PodsByLabel(job, pods)
=============================================================================
