------------------------------- MODULE Nomad -------------------------------
(***************************************************************************)
(* The one Nomad job of a service, as the deployer sees it through the     *)
(* HTTP API.  Everything here is external: what Nomad may do between two   *)
(* requests of the deployer.                                               *)
(*                                                                         *)
(* The i-th registration of the job creates job version i, evaluation i    *)
(* and job modify index i.  Registrations wait as pending evaluations for  *)
(* the scheduler, which always works from the newest version.              *)
(***************************************************************************)
EXTENDS Naturals, Sequences, FiniteSets

CONSTANTS
    Handlers,   \* messages for the service, each with a bundle of its own
    Nodes,      \* client nodes
    MaxResends, \* bound on the requests that the HTTP client sends again
    JobTypes    \* the kinds of job considered: Job.Type, where "periodic"
                \* stands for a batch job that has a Periodic block

ASSUME HandlersAssumption ==
    /\ IsFiniteSet(Handlers) /\ Handlers # {}
    /\ "old" \notin Handlers /\ "none" \notin Handlers
ASSUME MaxResendsAssumption == MaxResends \in Nat
ASSUME JobTypesAssumption ==
    JobTypes \subseteq {"service", "system", "batch", "periodic"}

VARIABLES
    jobType,   \* the kind of this job, the same in every bundle of a service
    jobs,      \* the bundle that each registration came from
    pending,   \* evaluations that the scheduler has still to process
    allocs,    \* the allocations that the API lists for the job
    deploys    \* status of the Nomad deployment of each job version

nomadVars == <<jobType, jobs, pending, allocs, deploys>>

MaxJobs == Cardinality(Handlers) + MaxResends + 1
Indexes == 1 .. MaxJobs

Allocations ==
    [node : Nodes, version : Indexes, eval : Indexes,
     desired : {"run", "stop"},
     client : {"pending", "running", "complete", "failed"}]

NomadTypeOK ==
    /\ jobType \in JobTypes
    /\ jobs \in Seq(Handlers \cup {"old"})
    /\ Len(jobs) <= MaxJobs
    /\ pending \subseteq Indexes
    /\ allocs \subseteq Allocations
    /\ deploys \in [Indexes ->
                      {"none", "running", "successful", "failed", "cancelled"}]

Placed(n, v, e, c) ==
    [node |-> n, version |-> v, eval |-> e, desired |-> "run", client |-> c]

(* The service is new, or runs (or ran) a version of some time ago.        *)
NomadInit ==
    /\ jobType \in JobTypes
    /\ pending = {}
    /\ \/ jobs = <<>> /\ allocs = {} /\ deploys = [i \in Indexes |-> "none"]
       \/ /\ jobs = <<"old">>
          /\ \E c \in {"running", "complete"} :
               allocs = IF jobType = "service" THEN {}
                        ELSE {Placed(n, 1, 1, c) : n \in Nodes}
          /\ deploys = [i \in Indexes |->
                          IF i = 1 /\ jobType = "service" THEN "successful"
                                                          ELSE "none"]

(* POST /v1/jobs with the job of bundle b.                                 *)
Accept(b) ==
    /\ jobs' = Append(jobs, b)
    /\ pending' = pending \cup {Len(jobs) + 1}
    /\ UNCHANGED <<jobType, allocs, deploys>>

Terminal(a) == a.client \in {"complete", "failed"}

(* The scheduler processes an evaluation of a job without deployments: on  *)
(* some nodes it stops what older versions have going and places the       *)
(* newest.  Until it has reached every node the evaluation may come back.  *)
Schedule(e) ==
    /\ jobType # "service"
    /\ e \in pending
    /\ \E N \in SUBSET Nodes :
         LET v == Len(jobs)
             old == {a \in allocs : a.node \in N /\ a.version < v /\ ~Terminal(a)}
             has == {a.node : a \in {b \in allocs : b.version = v}}
         IN  /\ allocs' = (allocs \ old)
                            \cup {[a EXCEPT !.desired = "stop"] : a \in old}
                            \cup {Placed(n, v, e, "pending") : n \in N \ has}
             /\ \/ pending' = pending \ {e}
                \/ N # Nodes /\ UNCHANGED pending
    /\ UNCHANGED <<jobType, jobs, deploys>>

(* The same for a service job: its deployment starts, older ones end.      *)
ScheduleService(e) ==
    /\ jobType = "service"
    /\ e \in pending
    /\ pending' = pending \ {e}
    /\ deploys' = [i \in Indexes |->
                     IF i = Len(jobs) /\ deploys[i] = "none" THEN "running"
                     ELSE IF i < Len(jobs) /\ deploys[i] = "running"
                          THEN "cancelled" ELSE deploys[i]]
    /\ UNCHANGED <<jobType, jobs, allocs>>

DeploymentEnds(i) ==
    /\ deploys[i] = "running"
    /\ \E s \in {"successful", "failed"} : deploys' = [deploys EXCEPT ![i] = s]
    /\ UNCHANGED <<jobType, jobs, pending, allocs>>

(* A client node moves an allocation on.                                   *)
ClientMoves(a) ==
    /\ \E c \in {"running", "complete", "failed"} :
         /\ \/ a.client = "pending" /\ a.desired = "run" /\ c # "complete"
            \/ a.client = "pending" /\ a.desired = "stop" /\ c = "complete"
            \/ a.client = "running" /\ c = "failed"
            \/ /\ a.client = "running" /\ c = "complete"
               /\ jobType \in {"batch", "periodic"} \/ a.desired = "stop"
         /\ allocs' = (allocs \ {a}) \cup {[a EXCEPT !.client = c]}
    /\ UNCHANGED <<jobType, jobs, pending, deploys>>

(* Nomad forgets an allocation that has ended.                             *)
Collect(a) ==
    /\ Terminal(a)
    /\ allocs' = allocs \ {a}
    /\ UNCHANGED <<jobType, jobs, pending, deploys>>

NomadStep ==
    \/ \E e \in pending : Schedule(e) \/ ScheduleService(e)
    \/ \E i \in Indexes : DeploymentEnds(i)
    \/ \E a \in allocs : ClientMoves(a) \/ Collect(a)
=============================================================================
