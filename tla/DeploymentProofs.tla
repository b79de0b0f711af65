-------------------------- MODULE DeploymentProofs --------------------------
(***************************************************************************)
(* Proofs about module Deployment, for any number of messages, requests    *)
(* sent again, nodes and any kind of job.                                  *)
(***************************************************************************)
EXTENDS Deployment, FiniteSetTheorems, TLAPS

LEMMA HandlersFinite == IsFiniteSet(Handlers)
BY HandlersAssumption

USE HandlersFinite, MaxResendsAssumption

-----------------------------------------------------------------------------
(* The inductive invariant.                                                *)

(* A handler registers the job at most once, but for the requests sent     *)
(* again, so there are versions enough.                                    *)
MayHaveRegistered == {h \in Handlers : hpc[h] \in {"info", "check", "done"}}
RegistersOnce == Len(jobs) <= Cardinality(MayHaveRegistered) + 1 + resends

PendingAreJobs == pending \subseteq 1 .. Len(jobs)

(* Whoever waits for a registration, or has a verdict on it, has one.      *)
Waits(h) == hpc[h] \in {"info", "check"}
HasVerdict(h) == result[h] \in {"ok", "aborted"}
EvalIsJob ==
    \A h \in Handlers : Waits(h) \/ HasVerdict(h) => eval[h] \in 1 .. Len(jobs)

ResultIsFinal == \A h \in Handlers : result[h] # "none" => At(h, "done")

(* The version is read after the registration.                             *)
VersionIsNoOlder ==
    \A h \in Handlers : At(h, "check") => eval[h] <= version[h]

(* What a handler may come upon after it has opened the specification to   *)
(* write it is not of one that was over when it began.                     *)
Stale(h) == before[h] \cup {"old"}
BeforeIsOver == \A h \in Handlers : before[h] \subseteq Over
DirIsFresh ==
    \A h \in Handlers : hpc[h] \in {"write", "plan", "run"} => dir \notin Stale(h)
BodyIsFresh ==
    \A h \in Handlers : At(h, "register") => body[h] \notin Stale(h)

(* So is what it has registered, and what has been registered since.       *)
BeyondRun(h) == Waits(h) \/ result[h] = "ok"
RegisteredIsFresh ==
    \A h \in Handlers : BeyondRun(h) => jobs[eval[h]] \notin Stale(h)
NewestIsFresh ==
    \A h \in Handlers : BeyondRun(h) =>
        \E k \in Handlers \ before[h] : Begun(k) /\ jobs[Len(jobs)] \notin Stale(k)

Freshness ==
    /\ BeforeIsOver
    /\ DirIsFresh
    /\ BodyIsFresh
    /\ RegisteredIsFresh
    /\ NewestIsFresh

Shape == TypeOK /\ RegistersOnce /\ PendingAreJobs /\ EvalIsJob /\ ResultIsFinal

IInv ==
    /\ Shape
    /\ VersionIsNoOlder
    /\ ServiceResultIsTrue
    /\ Freshness

-----------------------------------------------------------------------------
(* What Nomad does between two requests, and what a handler does.          *)

LEMMA MaxJobsType == MaxJobs \in Nat /\ MaxJobs >= 1
<1>1. Cardinality(Handlers) \in Nat
  BY FS_CardinalityType
<1>2. QED
  BY <1>1 DEF MaxJobs

Ended == {"successful", "failed", "cancelled"}

(* Nomad registers nothing itself and takes back no verdict.               *)
LEMMA NomadEffect ==
  ASSUME NomadTypeOK, PendingAreJobs, NomadStep
  PROVE  /\ NomadTypeOK'
         /\ jobs' = jobs /\ jobType' = jobType /\ pending' \subseteq pending
         /\ \A i \in Indexes : deploys[i] \in Ended => deploys'[i] = deploys[i]
<1> USE MaxJobsType DEF NomadTypeOK, Indexes
<1>1. ASSUME NEW e \in pending, Schedule(e)
      PROVE  allocs' \subseteq Allocations
  <2>1. e \in Indexes /\ Len(jobs) \in Indexes
    BY DEF PendingAreJobs
  <2>2. \A a \in allocs : [a EXCEPT !.desired = "stop"] \in Allocations
    BY DEF Allocations
  <2>3. \A n \in Nodes : Placed(n, Len(jobs), e, "pending") \in Allocations
    BY <2>1 DEF Placed, Allocations
  <2>4. QED
    BY <1>1, <2>2, <2>3 DEF Schedule
<1>2. ASSUME NEW e \in pending, Schedule(e) PROVE NomadTypeOK' /\ pending' \subseteq pending
  BY <1>1, <1>2 DEF Schedule
<1>3. ASSUME NEW e \in pending, ScheduleService(e)
      PROVE  /\ NomadTypeOK' /\ pending' \subseteq pending
             /\ \A i \in Indexes : deploys[i] \in Ended => deploys'[i] = deploys[i]
  BY <1>3 DEF ScheduleService, Ended
<1>4. ASSUME NEW i \in Indexes, DeploymentEnds(i)
      PROVE  /\ NomadTypeOK'
             /\ \A j \in Indexes : deploys[j] \in Ended => deploys'[j] = deploys[j]
  BY <1>4 DEF DeploymentEnds, Ended
<1>5. ASSUME NEW a \in allocs, ClientMoves(a) \/ Collect(a) PROVE NomadTypeOK'
  <2>1. \A c \in {"running", "complete", "failed"} :
            [a EXCEPT !.client = c] \in Allocations
    BY DEF Allocations
  <2>2. QED
    BY <1>5, <2>1 DEF ClientMoves, Collect
<1>6. QED
  BY <1>2, <1>3, <1>4, <1>5
     DEF NomadStep, Schedule, ScheduleService, DeploymentEnds, ClientMoves, Collect

HandlerTypeOK ==
    /\ dir \in Specifications
    /\ ctxDone \in BOOLEAN
    /\ hpc \in [Handlers -> {"fetch", "extract", "write", "plan", "run",
                             "register", "info", "check", "done"}]
    /\ body \in [Handlers -> Specifications]
    /\ eval \in [Handlers -> 0 .. MaxJobs]
    /\ version \in [Handlers -> 0 .. MaxJobs]
    /\ result \in [Handlers -> {"none", "ok", "error", "aborted", "timeout"}]
    /\ resends \in 0 .. MaxResends
    /\ before \in [Handlers -> SUBSET Handlers]

LEMMA VerdictType ==
  ASSUME NomadTypeOK, NEW h \in Handlers
  PROVE  Verdict(h) \in {"ok", "aborted", "retest"}
<1>1. SystemVerdict(h) \in {"ok", "aborted", "retest"}
  BY DEF SystemVerdict
<1>2. VerdictForBatchJobs(h) \in {"ok", "aborted", "retest"}
  BY DEF VerdictForBatchJobs, BatchVerdict
<1>3. ServiceVerdict(h) \in {"ok", "aborted", "retest"}
  BY DEF ServiceVerdict
<1>4. jobType \in {"service", "system", "batch", "periodic"}
  BY JobTypesAssumption DEF NomadTypeOK
<1>5. QED
  BY <1>1, <1>2, <1>3, <1>4 DEF Verdict

(* The handler's steps that register a job: the answer comes, or is lost,  *)
(* or the request is sent again.                                           *)
Registers(h) ==
    /\ At(h, "register")
    /\ body[h] # "none"
    /\ Accept(body[h])
    /\ UNCHANGED <<dir, ctxDone, version, before>>
    /\ \/ /\ hpc' = [hpc EXCEPT ![h] = "info"]
          /\ eval' = [eval EXCEPT ![h] = Len(jobs) + 1]
          /\ body' = [body EXCEPT ![h] = "none"]
          /\ UNCHANGED <<result, resends>>
       \/ /\ Return(h, "error")
          /\ body' = [body EXCEPT ![h] = "none"]
          /\ UNCHANGED <<eval, resends>>
       \/ /\ resends < MaxResends /\ resends' = resends + 1
          /\ UNCHANGED <<hpc, body, eval, result>>

LEMMA RegistersOrNot ==
  ASSUME TypeOK, NEW h \in Handlers, HandlerStep(h)
  PROVE  UNCHANGED nomadVars \/ Registers(h)
<1>1. CASE Run(h)
  <2>1. Accept(body[h]) => Len(jobs') = Len(jobs) + 1
    BY DEF Accept, TypeOK, NomadTypeOK
  <2>2. QED
    BY <1>1, <2>1 DEF Run, Registers, GoTo
<1>2. CASE Resend(h) \/ RunFails(h)
  BY <1>2 DEF Resend, RunFails, Registers
<1>3. QED
  BY <1>1, <1>2 DEF HandlerStep, Fetch, FetchFails, ExtractBegins, Extract,
     ExtractFails, Plan, PlanFails, ReadSpecification, ReadInfo, InfoFails,
     CheckConcludes, CheckFails, CheckTimesOut, CheckAborts

LEMMA RegistersShape ==
  ASSUME Shape, NEW h \in Handlers, Registers(h)
  PROVE  /\ Shape'
         /\ Len(jobs') = Len(jobs) + 1 /\ jobs'[Len(jobs) + 1] = body[h]
         /\ \A i \in 1 .. Len(jobs) : jobs'[i] = jobs[i]
<1> USE DEF Shape, TypeOK, NomadTypeOK, Accept
<1>0. body[h] \in Handlers \cup {"old"}
  BY DEF Registers, Specifications
<1>1. /\ jobs' \in Seq(Handlers \cup {"old"})
      /\ Len(jobs') = Len(jobs) + 1 /\ jobs'[Len(jobs) + 1] = body[h]
      /\ \A i \in 1 .. Len(jobs) : jobs'[i] = jobs[i]
  BY <1>0 DEF Registers
<1>2. /\ h \notin MayHaveRegistered
      /\ \/ MayHaveRegistered' = MayHaveRegistered \cup {h} /\ resends' = resends
         \/ MayHaveRegistered' = MayHaveRegistered /\ resends' = resends + 1
      /\ resends' \in 0 .. MaxResends
  BY DEF Registers, MayHaveRegistered, At, Return
<1>3. IsFiniteSet(MayHaveRegistered) /\ MayHaveRegistered \subseteq Handlers
  BY FS_Subset DEF MayHaveRegistered
<1>4. /\ Cardinality(MayHaveRegistered') + resends'
             = Cardinality(MayHaveRegistered) + resends + 1
      /\ Cardinality(MayHaveRegistered) \in Nat
      /\ Cardinality(MayHaveRegistered') \in Nat
  <2>1. Cardinality(MayHaveRegistered) \in Nat /\ resends \in Nat
    BY <1>3, FS_CardinalityType
  <2>2. Cardinality(MayHaveRegistered \cup {h}) = Cardinality(MayHaveRegistered) + 1
    BY <1>2, <1>3, FS_AddElement
  <2>3. CASE MayHaveRegistered' = MayHaveRegistered \cup {h} /\ resends' = resends
    <3>1. Cardinality(MayHaveRegistered') = Cardinality(MayHaveRegistered) + 1
      BY <2>2, <2>3
    <3>2. \A n, r \in Nat : (n + 1) + r = n + r + 1 /\ n + 1 \in Nat
      OBVIOUS
    <3>3. QED
      BY <2>1, <2>3, <3>1, <3>2, Zenon
  <2>4. CASE MayHaveRegistered' = MayHaveRegistered /\ resends' = resends + 1
    BY <2>1, <2>4
  <2>5. QED
    BY <1>2, <2>3, <2>4
<1>5. Cardinality(MayHaveRegistered') <= Cardinality(Handlers)
  BY <1>2, <1>3, FS_Subset
<1>6. Len(jobs) \in Nat /\ Cardinality(Handlers) \in Nat
  BY FS_CardinalityType
<1>7. RegistersOnce' /\ Len(jobs') <= MaxJobs
  <2> DEFINE n == Cardinality(MayHaveRegistered)
             m == Cardinality(MayHaveRegistered')
  <2>1. resends \in Nat /\ resends' \in Nat /\ resends' <= MaxResends
    BY <1>2
  <2>2. Len(jobs) <= n + 1 + resends
    BY DEF RegistersOnce
  <2>3. Len(jobs') <= m + 1 + resends'
    BY <1>1, <1>4, <1>6, <2>1, <2>2
  <2>4. QED
    BY <1>1, <1>4, <1>5, <1>6, <2>1, <2>3 DEF RegistersOnce, MaxJobs
<1>8. PendingAreJobs' /\ pending' \subseteq Indexes
  <2>1. pending' = pending \cup {Len(jobs) + 1} /\ pending \subseteq 1 .. Len(jobs)
    BY DEF PendingAreJobs, Registers
  <2>2. pending' \subseteq 1 .. Len(jobs')
    <3> SUFFICES ASSUME NEW e \in pending' PROVE e \in 1 .. Len(jobs')
      OBVIOUS
    <3> HIDE DEF Accept
    <3>1. e \in 1 .. Len(jobs) \/ e = Len(jobs) + 1
      BY <2>1
    <3>2. QED
      BY <1>1, <1>6, <3>1
  <2>3. 1 .. Len(jobs') \subseteq Indexes
    BY <1>1, <1>6, <1>7, MaxJobsType DEF Indexes
  <2>4. QED
    BY <2>2, <2>3 DEF PendingAreJobs
<1>9. TypeOK'
  <2>1. NomadTypeOK'
    BY <1>1, <1>7, <1>8 DEF Registers
  <2>2. HandlerTypeOK'
    <3>1. Len(jobs) + 1 \in 0 .. MaxJobs
      BY <1>1, <1>6, <1>7, MaxJobsType
    <3>2. eval' \in [Handlers -> 0 .. MaxJobs]
      BY <3>1 DEF Registers
    <3>3. hpc' \in [Handlers -> {"fetch", "extract", "write", "plan", "run",
                                 "register", "info", "check", "done"}]
      BY DEF Registers, Return
    <3>4. result' \in [Handlers -> {"none", "ok", "error", "aborted", "timeout"}]
      BY DEF Registers, Return
    <3>5. body' \in [Handlers -> Specifications]
      BY DEF Registers, Specifications
    <3>6. QED
      BY <1>2, <3>2, <3>3, <3>4, <3>5 DEF HandlerTypeOK, Registers
  <2>3. QED
    BY <2>1, <2>2 DEF HandlerTypeOK
<1>10. EvalIsJob'
  <2> SUFFICES ASSUME NEW g \in Handlers, Waits(g)' \/ HasVerdict(g)'
               PROVE  eval'[g] \in 1 .. Len(jobs')
    BY DEF EvalIsJob
  <2>1. \/ (Waits(g) \/ HasVerdict(g)) /\ eval'[g] = eval[g]
        \/ eval'[g] = Len(jobs) + 1
    BY DEF ResultIsFinal, Waits, HasVerdict, Registers, Return, At
  <2>2. QED
    BY <1>1, <1>6, <2>1 DEF EvalIsJob
<1>11. ResultIsFinal'
  BY DEF ResultIsFinal, Registers, Return, At
<1>12. QED
  BY <1>1, <1>7, <1>8, <1>9, <1>10, <1>11

(* All its other steps: the way to the registration, which changes the     *)
(* directory at one place only, and from it to the result.                 *)
Approaches(h) ==
    /\ result'[h] = "none"
    /\ version'[h] = version[h]
    /\ \/ /\ hpc[h] = "fetch" /\ hpc'[h] = "extract"
          /\ before'[h] = Over /\ UNCHANGED <<dir, body>>
       \/ /\ hpc[h] = "extract" /\ hpc'[h] = "write"
          /\ dir' = "none" /\ UNCHANGED <<body, before>>
       \/ /\ hpc[h] = "write" /\ hpc'[h] = "plan"
          /\ dir' \in Written(h) /\ UNCHANGED <<body, before>>
       \/ /\ hpc[h] = "plan" /\ hpc'[h] = "run"
          /\ UNCHANGED <<dir, body, before>>
       \/ /\ hpc[h] = "run" /\ hpc'[h] = "register"
          /\ body'[h] = dir /\ UNCHANGED <<dir, before>>

Concludes(h) ==
    /\ UNCHANGED before
    /\ \/ /\ hpc[h] = "info" /\ hpc'[h] = "check"
          /\ version'[h] = Len(jobs) /\ result'[h] = "none" /\ UNCHANGED dir
       \/ /\ hpc[h] # "done" /\ hpc'[h] = "done"
          /\ result'[h] \in {"error", "timeout"}
          /\ \/ UNCHANGED dir
             \/ hpc[h] = "write" /\ dir' \in Written(h)
       \/ /\ hpc[h] = "check" /\ hpc'[h] = "done"
          /\ \/ result'[h] = Verdict(h) /\ Verdict(h) \in {"ok", "aborted"}
             \/ result'[h] = "aborted" /\ ctxDone
          /\ UNCHANGED dir

Quiet(h) ==
    /\ UNCHANGED <<nomadVars, ctxDone, eval, resends>>
    /\ \A g \in Handlers \ {h} :
          /\ hpc'[g] = hpc[g] /\ result'[g] = result[g]
          /\ version'[g] = version[g] /\ body'[g] = body[g] /\ before'[g] = before[g]
    /\ result[h] = "none"
    /\ Approaches(h) \/ Concludes(h)

LEMMA QuietStep ==
  ASSUME TypeOK, ResultIsFinal, NEW h \in Handlers, HandlerStep(h), UNCHANGED nomadVars
  PROVE  Quiet(h)
<1>0. ~Run(h) /\ ~Resend(h)
  BY DEF Run, Resend, Accept, TypeOK, NomadTypeOK, nomadVars
<1>1. Verdict(h) \in {"ok", "aborted", "retest"}
  BY VerdictType DEF TypeOK
<1>2. hpc[h] # "done" => result[h] = "none"
  BY DEF ResultIsFinal, TypeOK, At
<1> USE DEF At, GoTo, Return, TypeOK, Quiet, nomadVars
<1>3. CASE Fetch(h) \/ ExtractBegins(h) \/ Extract(h)
  BY <1>2, <1>3 DEF Fetch, ExtractBegins, Extract, Approaches
<1>4. CASE Plan(h) \/ ReadSpecification(h)
  BY <1>2, <1>4 DEF Plan, ReadSpecification, Approaches
<1>5. CASE ReadInfo(h)
  BY <1>2, <1>5 DEF ReadInfo, Concludes
<1>6. CASE CheckConcludes(h) \/ CheckAborts(h)
  BY <1>1, <1>2, <1>6 DEF CheckConcludes, CheckAborts, Concludes
<1>7. CASE FetchFails(h) \/ ExtractFails(h) \/ PlanFails(h) \/ RunFails(h)
  BY <1>2, <1>7 DEF FetchFails, ExtractFails, PlanFails, RunFails, Concludes
<1>8. CASE InfoFails(h) \/ CheckFails(h) \/ CheckTimesOut(h)
  BY <1>2, <1>8 DEF InfoFails, CheckFails, CheckTimesOut, Concludes
<1>9. QED
  BY <1>0, <1>3, <1>4, <1>5, <1>6, <1>7, <1>8 DEF HandlerStep

LEMMA QuietTypes ==
  ASSUME TypeOK, NEW h \in Handlers, HandlerStep(h), UNCHANGED nomadVars
  PROVE  TypeOK'
<1> USE DEF nomadVars, Specifications
<1>0. ~Run(h) /\ ~Resend(h)
  BY DEF Run, Resend, Accept, TypeOK, NomadTypeOK
<1>1. NomadTypeOK'
  BY DEF TypeOK, NomadTypeOK
<1>2. CASE ReadInfo(h)
  BY <1>1, <1>2 DEF ReadInfo, TypeOK, GoTo, NomadTypeOK
<1>3. CASE CheckConcludes(h)
  BY <1>1, <1>3, VerdictType DEF CheckConcludes, TypeOK, Return
<1>4. CASE Fetch(h)
  BY <1>1, <1>4 DEF Fetch, TypeOK, GoTo, Over
<1>5. CASE ExtractBegins(h) \/ Extract(h) \/ ExtractFails(h)
  BY <1>1, <1>5
     DEF ExtractBegins, Extract, ExtractFails, TypeOK, GoTo, Return, Written
<1>6. QED
  BY <1>0, <1>1, <1>2, <1>3, <1>4, <1>5
     DEF TypeOK, HandlerStep, FetchFails, Plan, PlanFails, ReadSpecification,
         RunFails, InfoFails, CheckFails, CheckTimesOut, CheckAborts, GoTo, Return

LEMMA QuietShape ==
  ASSUME Shape, NEW h \in Handlers, HandlerStep(h), UNCHANGED nomadVars
  PROVE  Shape'
<1> USE DEF Shape, nomadVars
<1>1. Quiet(h)
  BY QuietStep
<1>2. RegistersOnce'
  <2>1. MayHaveRegistered \subseteq MayHaveRegistered' /\ MayHaveRegistered' \subseteq Handlers
    BY <1>1 DEF MayHaveRegistered, Quiet, Approaches, Concludes
  <2>2. IsFiniteSet(MayHaveRegistered') /\ IsFiniteSet(MayHaveRegistered)
    BY <2>1, FS_Subset
  <2>3. /\ Cardinality(MayHaveRegistered) <= Cardinality(MayHaveRegistered')
        /\ Cardinality(MayHaveRegistered) \in Nat
        /\ Cardinality(MayHaveRegistered') \in Nat
    BY <2>1, <2>2, FS_Subset, FS_CardinalityType
  <2>4. QED
    BY <1>1, <2>3 DEF RegistersOnce, TypeOK, NomadTypeOK, Quiet
<1>3. EvalIsJob'
  BY <1>1 DEF Quiet, Approaches, Concludes, EvalIsJob, Waits, HasVerdict
<1>4. ResultIsFinal'
  BY <1>1 DEF Quiet, Approaches, Concludes, ResultIsFinal, At
<1>5. QED
  BY <1>2, <1>3, <1>4, QuietTypes DEF PendingAreJobs

LEMMA InitIInv == Init => IInv
<1> SUFFICES ASSUME Init PROVE IInv
  OBVIOUS
<1> USE MaxJobsType DEF Init, NomadInit
<1>0. Len(jobs) = 0 \/ Len(jobs) = 1
  <2>1. CASE jobs = <<>>
    BY <2>1
  <2>2. CASE jobs = <<"old">>
    BY <2>2
  <2>3. QED
    BY <2>1, <2>2
<1>1. jobs \in Seq(Handlers \cup {"old"})
  <2>1. CASE jobs = <<>>
    BY <2>1
  <2>2. CASE jobs = <<"old">>
    BY <2>2
  <2>3. QED
    BY <2>1, <2>2
<1>2. allocs \subseteq Allocations
  <2>1. \A n \in Nodes, c \in {"running", "complete"} : Placed(n, 1, 1, c) \in Allocations
    BY DEF Allocations, Placed, Indexes
  <2>2. QED
    BY <2>1
<1>3. deploys \in [Indexes -> {"none", "running", "successful", "failed", "cancelled"}]
  OBVIOUS
<1>4. NomadTypeOK
  <2>1. Len(jobs) <= MaxJobs
    <3> HIDE DEF Init, NomadInit
    <3> QED
      BY <1>0
  <2>2. QED
    BY <1>1, <1>2, <1>3, <2>1 DEF NomadTypeOK
<1>5. HandlerTypeOK
  <2>1. /\ eval \in [Handlers -> 0 .. MaxJobs] /\ version \in [Handlers -> 0 .. MaxJobs]
        /\ resends \in 0 .. MaxResends
    OBVIOUS
  <2>2. /\ dir \in Specifications /\ body \in [Handlers -> Specifications]
        /\ before \in [Handlers -> SUBSET Handlers]
    BY DEF Specifications
  <2>3. /\ hpc \in [Handlers -> {"fetch", "extract", "write", "plan", "run",
                                 "register", "info", "check", "done"}]
        /\ result \in [Handlers -> {"none", "ok", "error", "aborted", "timeout"}]
        /\ ctxDone \in BOOLEAN
    OBVIOUS
  <2>4. QED
    BY <2>1, <2>2, <2>3 DEF HandlerTypeOK
<1>6. TypeOK
  BY <1>4, <1>5 DEF TypeOK, HandlerTypeOK
<1>7. RegistersOnce
  <2>1. MayHaveRegistered \subseteq Handlers /\ IsFiniteSet(MayHaveRegistered)
    BY FS_Subset DEF MayHaveRegistered
  <2>2. QED
    <3>1. Cardinality(MayHaveRegistered) \in Nat /\ resends = 0
      BY <2>1, FS_CardinalityType
    <3>2. \A n \in Nat : 0 <= n + 1 + 0 /\ 1 <= n + 1 + 0
      OBVIOUS
    <3>3. QED
      BY <1>0, <3>1, <3>2 DEF RegistersOnce
<1>8. EvalIsJob /\ ResultIsFinal /\ PendingAreJobs
  BY DEF EvalIsJob, ResultIsFinal, PendingAreJobs, Waits, HasVerdict
<1>9. VersionIsNoOlder /\ ServiceResultIsTrue /\ Freshness
  BY DEF VersionIsNoOlder, ServiceResultIsTrue, Freshness, BeforeIsOver, DirIsFresh,
     BodyIsFresh, RegisteredIsFresh, NewestIsFresh, BeyondRun, Waits, At
<1>10. QED
  BY <1>6, <1>7, <1>8, <1>9 DEF IInv, Shape

LEMMA ShapeStep == Shape /\ [Next]_vars => Shape'
<1> SUFFICES ASSUME Shape, [Next]_vars PROVE Shape'
  OBVIOUS
<1>1. ASSUME NEW h \in Handlers, HandlerStep(h) PROVE Shape'
  BY <1>1, RegistersOrNot, RegistersShape, QuietShape DEF Shape
<1>2. CASE NomadStep /\ UNCHANGED handlerVars
  <2> USE <1>2 DEF Shape, handlerVars
  <2>1. /\ NomadTypeOK' /\ jobs' = jobs /\ pending' \subseteq pending
    BY NomadEffect DEF TypeOK
  <2>2. TypeOK'
    BY <2>1 DEF TypeOK
  <2>3. RegistersOnce' /\ PendingAreJobs' /\ EvalIsJob' /\ ResultIsFinal'
    BY <2>1 DEF RegistersOnce, MayHaveRegistered, PendingAreJobs, EvalIsJob,
       ResultIsFinal, Waits, HasVerdict, At
  <2>4. QED
    BY <2>2, <2>3
<1>3. CASE Cancel \/ UNCHANGED vars
  BY <1>3 DEF Cancel, vars, nomadVars, Shape, TypeOK, NomadTypeOK, RegistersOnce,
     MayHaveRegistered, PendingAreJobs, EvalIsJob, ResultIsFinal, Waits, HasVerdict, At
<1>4. QED
  BY <1>1, <1>2, <1>3 DEF Next, AllReturned

-----------------------------------------------------------------------------
(* The verdicts.                                                           *)

(* Neither Cancel nor a stuttering step.                                   *)
Still == UNCHANGED <<nomadVars, dir, hpc, body, eval, version, result, before>>

LEMMA StepKinds ==
  ASSUME Shape, [Next]_vars
  PROVE  \/ \E h \in Handlers : Quiet(h)
         \/ \E h \in Handlers : Registers(h)
         \/ NomadStep /\ UNCHANGED handlerVars
         \/ Still /\ (ctxDone => ctxDone')
<1>1. ASSUME NEW h \in Handlers, HandlerStep(h) PROVE Quiet(h) \/ Registers(h)
  BY <1>1, RegistersOrNot, QuietStep DEF Shape
<1>2. CASE Cancel \/ AllReturned \/ UNCHANGED vars
  BY <1>2 DEF Cancel, AllReturned, vars, nomadVars, Still
<1>3. QED
  BY <1>1, <1>2 DEF Next

LEMMA VersionStep == Shape /\ VersionIsNoOlder /\ [Next]_vars => VersionIsNoOlder'
<1> SUFFICES ASSUME Shape, VersionIsNoOlder, [Next]_vars,
                    NEW g \in Handlers, hpc'[g] = "check"
             PROVE  eval'[g] <= version'[g]
  BY DEF VersionIsNoOlder, At
<1> USE DEF At
<1>1. ASSUME NEW h \in Handlers, Quiet(h) PROVE eval'[g] <= version'[g]
  <2>1. CASE h = g
    <3>1. hpc[g] = "info" /\ version'[g] = Len(jobs) /\ eval'[g] = eval[g]
      BY <1>1, <2>1 DEF Quiet, Approaches, Concludes
    <3>2. eval[g] \in 1 .. Len(jobs) /\ Len(jobs) \in Nat
      BY <3>1 DEF Shape, EvalIsJob, Waits, TypeOK, NomadTypeOK
    <3>3. QED
      BY <3>1, <3>2
  <2>2. CASE h # g
    BY <1>1, <2>2 DEF Quiet, VersionIsNoOlder
  <2>3. QED
    BY <2>1, <2>2
<1>2. ASSUME NEW h \in Handlers, Registers(h) PROVE eval'[g] <= version'[g]
  BY <1>2 DEF Registers, Return, Shape, TypeOK, VersionIsNoOlder
<1>3. CASE NomadStep /\ UNCHANGED handlerVars
  BY <1>3 DEF handlerVars, VersionIsNoOlder
<1>4. CASE Still
  BY <1>4 DEF Still, VersionIsNoOlder
<1>5. QED
  BY <1>1, <1>2, <1>3, <1>4, StepKinds

LEMMA ServiceStep ==
  Shape /\ ServiceResultIsTrue /\ [Next]_vars => ServiceResultIsTrue'
<1> SUFFICES ASSUME Shape, ServiceResultIsTrue, [Next]_vars,
                    NEW g \in Handlers, jobType' = "service"
             PROVE  /\ result'[g] = "ok" => deploys'[eval'[g]] = "successful"
                    /\ result'[g] = "aborted" /\ ~ctxDone' =>
                           deploys'[eval'[g]] \in {"failed", "cancelled"}
  BY DEF ServiceResultIsTrue
<1>1. CASE \E h \in Handlers : Quiet(h)
  <2>1. PICK h \in Handlers : Quiet(h)
    BY <1>1
  <2>2. CASE h = g
    BY <2>1, <2>2 DEF Quiet, Approaches, Concludes, nomadVars, Verdict, ServiceVerdict
  <2>3. CASE h # g
    BY <2>1, <2>3 DEF Quiet, nomadVars, ServiceResultIsTrue
  <2>4. QED
    BY <2>2, <2>3
<1>2. CASE \E h \in Handlers : Registers(h)
  <2>1. PICK h \in Handlers : Registers(h)
    BY <1>2
  <2>2. jobType' = jobType /\ deploys' = deploys /\ ctxDone' = ctxDone
    BY <2>1 DEF Registers, Accept
  <2>3. CASE h = g
    BY <2>1, <2>3 DEF Registers, Return, At, Shape, TypeOK, ResultIsFinal
  <2>4. CASE h # g
    <3>1. result'[g] = result[g] /\ eval'[g] = eval[g]
      BY <2>1, <2>4 DEF Registers, Return, Shape, TypeOK
    <3>2. QED
      BY <2>2, <3>1 DEF ServiceResultIsTrue
  <2>5. QED
    BY <2>3, <2>4
<1>3. CASE NomadStep /\ UNCHANGED handlerVars
  <2>1. /\ jobType' = jobType
        /\ \A i \in Indexes : deploys[i] \in Ended => deploys'[i] = deploys[i]
    BY <1>3, NomadEffect DEF Shape, TypeOK
  <2>2. HasVerdict(g) => eval[g] \in Indexes
    BY MaxJobsType DEF Shape, EvalIsJob, TypeOK, NomadTypeOK, Indexes
  <2>3. QED
    BY <1>3, <2>1, <2>2 DEF handlerVars, HasVerdict, Ended, ServiceResultIsTrue
<1>4. CASE Still /\ (ctxDone => ctxDone')
  BY <1>4 DEF Still, nomadVars, ServiceResultIsTrue, Shape, TypeOK
<1>5. QED
  BY <1>1, <1>2, <1>3, <1>4, StepKinds

-----------------------------------------------------------------------------
(* Which bundle is deployed.                                               *)

(* A step of handler h that registers nothing.  It is not over, so that    *)
(* what it writes to the directory is stale for nobody.                    *)
LEMMA QuietFresh ==
  ASSUME Shape, Freshness, NEW h \in Handlers, Quiet(h)
  PROVE  Freshness'
<1> USE DEF Shape, TypeOK, At, Stale
<1>1. hpc[h] # "done" /\ jobs' = jobs /\ eval' = eval
  BY DEF Quiet, Approaches, Concludes, nomadVars
<1>2. \A g \in Handlers : h \notin before[g]
  BY <1>1 DEF Freshness, BeforeIsOver, Over
<1>3. Over \subseteq Over'
  BY <1>1 DEF Over, Quiet
<1>4. \A g \in Handlers :
          before'[g] = before[g] \/ (g = h /\ hpc[h] = "fetch" /\ before'[g] = Over)
  BY DEF Quiet, Approaches, Concludes
<1>5. BeforeIsOver'
  BY <1>3, <1>4 DEF Freshness, BeforeIsOver
<1>6. DirIsFresh'
  <2> SUFFICES ASSUME NEW g \in Handlers, hpc'[g] \in {"write", "plan", "run"}
               PROVE  dir' \notin Stale(g)'
    BY DEF DirIsFresh
  <2>1. before'[g] = before[g]
    BY <1>4 DEF Quiet, Approaches, Concludes
  <2>2. dir' = dir \/ dir' = "none" \/ dir' = h
    BY DEF Quiet, Approaches, Concludes, Written
  <2>3. "none" \notin Stale(g) /\ h \notin Stale(g)
    BY <1>2, HandlersAssumption
  <2>4. dir' = dir => hpc[g] \in {"write", "plan", "run"} \/ dir' = "none"
    BY DEF Quiet, Approaches, Concludes
  <2>5. QED
    BY <2>1, <2>2, <2>3, <2>4 DEF Freshness, DirIsFresh
<1>7. BodyIsFresh'
  <2> SUFFICES ASSUME NEW g \in Handlers, hpc'[g] = "register"
               PROVE  body'[g] \notin Stale(g)'
    BY DEF BodyIsFresh
  <2>1. before'[g] = before[g]
    BY <1>4 DEF Quiet, Approaches, Concludes
  <2>2. CASE g = h
    BY <2>1, <2>2 DEF Quiet, Approaches, Concludes, Freshness, DirIsFresh
  <2>3. CASE g # h
    BY <2>1, <2>3 DEF Quiet, Freshness, BodyIsFresh
  <2>4. QED
    BY <2>2, <2>3
<1>8. \A g \in Handlers : BeyondRun(g)' => BeyondRun(g) /\ before'[g] = before[g]
  BY <1>4 DEF Quiet, Approaches, Concludes, BeyondRun, Waits
<1>9. RegisteredIsFresh'
  BY <1>1, <1>8 DEF Freshness, RegisteredIsFresh
<1>10. NewestIsFresh'
  <2> SUFFICES ASSUME NEW g \in Handlers, BeyondRun(g)'
               PROVE  \E k \in Handlers \ before'[g] :
                         Begun(k)' /\ jobs'[Len(jobs')] \notin Stale(k)'
    BY DEF NewestIsFresh
  <2>1. PICK k \in Handlers \ before[g] :
                Begun(k) /\ jobs[Len(jobs)] \notin Stale(k)
    BY <1>8 DEF Freshness, NewestIsFresh
  <2>2. before'[k] = before[k] /\ Begun(k)'
    BY <1>4, <2>1 DEF Begun, Quiet, Approaches, Concludes
  <2>3. QED
    BY <1>1, <1>8, <2>1, <2>2
<1>11. QED
  BY <1>5, <1>6, <1>7, <1>9, <1>10 DEF Freshness

(* A registration by h: what it has read is stale neither for itself nor,  *)
(* as h is not over, beyond what others have to bear.                      *)
LEMMA RegistersFresh ==
  ASSUME Shape, Freshness, NEW h \in Handlers, Registers(h)
  PROVE  Freshness'
<1> USE DEF Shape, TypeOK, At, Stale
<1>1. hpc[h] = "register" /\ before' = before /\ dir' = dir
  BY DEF Registers
<1>2. \A g \in Handlers : h \notin before[g]
  BY <1>1 DEF Freshness, BeforeIsOver, Over
<1>3. BeforeIsOver'
  BY <1>1 DEF Freshness, BeforeIsOver, Over, Registers, Return
<1>4. DirIsFresh'
  BY <1>1 DEF Freshness, DirIsFresh, Registers, Return
<1>5. BodyIsFresh'
  BY <1>1 DEF Freshness, BodyIsFresh, Registers, Return
<1>6. /\ Len(jobs) \in Nat
      /\ Len(jobs') = Len(jobs) + 1 /\ jobs'[Len(jobs) + 1] = body[h]
      /\ \A i \in 1 .. Len(jobs) : jobs'[i] = jobs[i]
  BY RegistersShape DEF NomadTypeOK
<1>7. body[h] \notin Stale(h)
  BY <1>1 DEF Freshness, BodyIsFresh
<1>8. RegisteredIsFresh'
  <2> SUFFICES ASSUME NEW g \in Handlers, BeyondRun(g)'
               PROVE  jobs'[eval'[g]] \notin Stale(g)'
    BY DEF RegisteredIsFresh
  <2>1. CASE BeyondRun(g) /\ eval'[g] = eval[g]
    <3>1. eval[g] \in 1 .. Len(jobs)
      BY <2>1 DEF EvalIsJob, BeyondRun, HasVerdict
    <3>2. QED
      BY <1>1, <1>6, <2>1, <3>1 DEF Freshness, RegisteredIsFresh
  <2>2. CASE g = h /\ eval'[g] = Len(jobs) + 1
    BY <1>1, <1>6, <1>7, <2>2
  <2>3. QED
    BY <1>1, <2>1, <2>2 DEF Registers, Return, BeyondRun, Waits, ResultIsFinal
<1>9. NewestIsFresh'
  <2>1. Begun(h)' /\ jobs'[Len(jobs')] \notin Stale(h)'
    BY <1>1, <1>6, <1>7 DEF Begun, Registers, Return
  <2>2. \A g \in Handlers : h \in Handlers \ before'[g]
    BY <1>1, <1>2
  <2>3. QED
    BY <2>1, <2>2 DEF NewestIsFresh
<1>10. QED
  BY <1>3, <1>4, <1>5, <1>8, <1>9 DEF Freshness

LEMMA FreshStep == Shape /\ Freshness /\ [Next]_vars => Freshness'
<1> SUFFICES ASSUME Shape, Freshness, [Next]_vars PROVE Freshness'
  OBVIOUS
<1> USE DEF Freshness, BeforeIsOver, DirIsFresh, BodyIsFresh, RegisteredIsFresh,
            NewestIsFresh, BeyondRun, Waits, Stale, Begun, Over, At
<1>1. CASE NomadStep /\ UNCHANGED handlerVars
  <2>1. jobs' = jobs
    BY <1>1, NomadEffect DEF Shape, TypeOK
  <2>2. QED
    BY <1>1, <2>1 DEF handlerVars
<1>2. CASE Still
  BY <1>2 DEF Still, nomadVars
<1>3. QED
  BY <1>1, <1>2, StepKinds, QuietFresh, RegistersFresh

-----------------------------------------------------------------------------
(* The theorems.                                                           *)

(* The invariant from which all that follows is read off.                  *)
THEOREM Inductive == Spec => []IInv
<1>1. IInv /\ [Next]_vars => IInv'
  BY ShapeStep, VersionStep, ServiceStep, FreshStep DEF IInv
<1>2. QED
  BY InitIInv, <1>1, PTL DEF Spec

(* Every variable keeps its type: in particular there are never more       *)
(* versions of the job than handlers to register them, requests sent       *)
(* again, and the one before.                                              *)
THEOREM DeploymentTypeCorrect == Spec => []TypeOK
<1>1. IInv => TypeOK
  BY DEF IInv, Shape
<1>2. QED
  BY Inductive, <1>1, PTL

(* What is reported of a service is what became of the registration that   *)
(* was made for the message.                                               *)
THEOREM ServiceResult == Spec => []ServiceResultIsTrue
<1>1. IInv => ServiceResultIsTrue
  BY DEF IInv
<1>2. QED
  BY Inductive, <1>1, PTL

(* What is reported deployed is not the bundle of a handler that was over  *)
(* when the one that reports it began.                                     *)
THEOREM ReportedNotStale == Spec => []ReportedIsNotStale
<1>1. IInv => ReportedIsNotStale
  BY DEF IInv, Freshness, RegisteredIsFresh, BeyondRun, Stale, ReportedIsNotStale
<1>2. QED
  BY Inductive, <1>1, PTL

(* What is newest after a nil is older than what was deployed only if the  *)
(* handlers in between overlap.                                            *)
THEOREM NewestRecent == Spec => []NewestIsRecent
<1>1. IInv => NewestIsRecent
  BY DEF IInv, Freshness, NewestIsFresh, BeyondRun, Stale, NewestIsRecent
<1>2. QED
  BY Inductive, <1>1, PTL

(* A system job that is reported deployed runs nowhere in a version older  *)
(* than the one registered for the message.                                *)
THEOREM SystemOk == Spec => SystemOkLeavesNothingOlder
<1>1. ASSUME IInv, NEW h \in Handlers, jobType = "system", CheckConcludes(h),
             result'[h] = "ok", NEW a \in allocs, a.client = "running"
      PROVE  a.version >= eval[h]
  <2>1. SystemVerdict(h) = "ok"
    BY <1>1 DEF CheckConcludes, Return, Verdict, IInv, Shape, TypeOK
  <2>2. ~StoppingStillRuns /\ (a.desired = "run" => a.version = version[h])
    BY <2>1 DEF SystemVerdict
  <2>3. a.version = version[h]
    BY <1>1, <2>2 DEF StoppingStillRuns
  <2>4. eval[h] <= version[h]
    BY <1>1 DEF IInv, VersionIsNoOlder, CheckConcludes
  <2>5. QED
    BY <2>3, <2>4
<1>2. IInv /\ [Next]_vars =>
        [\A h \in Handlers :
            jobType = "system" /\ CheckConcludes(h) /\ result'[h] = "ok" =>
                \A a \in allocs : a.client = "running" => a.version >= eval[h]]_vars
  BY <1>1
<1>3. QED
  BY Inductive, <1>2, PTL DEF Spec, SystemOkLeavesNothingOlder
=============================================================================
