----------------------------- MODULE Deployment -----------------------------
(***************************************************************************)
(* Package handler/deployment: Deployment.Handler, here for several        *)
(* messages of the same service at once, each in its own goroutine.  The   *)
(* handlers share the Nomad job and the directory <root>/<service> that a  *)
(* bundle is extracted to.  (NewHandler, which the second queue runs, has  *)
(* nothing to register: module Job.)                                       *)
(*                                                                         *)
(* A handler is named by its message, and so is the bundle it fetches,     *)
(* which holds a specification <service>.nomad.                            *)
(***************************************************************************)
EXTENDS Nomad

VARIABLES
    dir,       \* whose specification is in the directory; "none" if there is
               \* none that parses; "old" if it is of an earlier process
    ctxDone,   \* the context of the handlers is cancelled
    hpc,       \* where each handler is
    body,      \* the specification that run has read, until it is answered
    eval,      \* the EvalID and JobModifyIndex of its registration, or 0
    version,   \* the Version in its jobInfo, or 0
    result,    \* what Handler returned: nil, an AbortedError, a
               \* TimeoutError, or any other error
    resends,   \* requests sent again so far
    before     \* auxiliary: the handlers that were over when it began

handlerVars == <<dir, ctxDone, hpc, body, eval, version, result, resends, before>>
vars == <<jobType, jobs, pending, allocs, deploys,
          dir, ctxDone, hpc, body, eval, version, result, resends, before>>

Specifications == Handlers \cup {"none", "old"}

TypeOK ==
    /\ NomadTypeOK
    /\ dir \in Specifications
    /\ ctxDone \in BOOLEAN
    /\ hpc \in [Handlers -> {"fetch", "extract", "write", "plan", "run",
                             "register", "info", "check", "done"}]
    /\ body \in [Handlers -> Specifications]
    /\ eval \in [Handlers -> 0 .. MaxJobs]
    /\ version \in [Handlers -> 0 .. MaxJobs]
    /\ result \in [Handlers -> {"none", "ok", "error", "aborted", "timeout"}]
    /\ resends \in 0 .. MaxResends
    /\ before \in [Handlers -> SUBSET Handlers]

Init ==
    /\ NomadInit
    /\ dir \in {"none", "old"}
    /\ ctxDone = FALSE
    /\ hpc = [h \in Handlers |-> "fetch"]
    /\ body = [h \in Handlers |-> "none"]
    /\ eval = [h \in Handlers |-> 0]
    /\ version = [h \in Handlers |-> 0]
    /\ result = [h \in Handlers |-> "none"]
    /\ resends = 0
    /\ before = [h \in Handlers |-> {}]

-----------------------------------------------------------------------------

At(h, pc) == hpc[h] = pc
GoTo(h, pc) == hpc' = [hpc EXCEPT ![h] = pc] /\ UNCHANGED result

Return(h, r) ==
    /\ hpc' = [hpc EXCEPT ![h] = "done"]
    /\ result' = [result EXCEPT ![h] = r]

Over == {h \in Handlers : At(h, "done")}

(* jsonFormat: the specification now in the directory.  When it cannot be  *)
(* read or parsed the error is only logged and an empty body is posted,    *)
(* which Nomad refuses.                                                    *)
Specified == dir # "none"

(* What is in the file when h closes it.  Another handler that has opened  *)
(* it since h did may have written it as well, or part of it, or put       *)
(* another file in its place.                                              *)
Written(h) == {h, "none", dir}

-----------------------------------------------------------------------------
(* Mutants: the program with one plausible mistake each.                   *)

(* A file that is there is not written again.                              *)
ExtractBeginsKeeping(h) ==
    /\ At(h, "extract")
    /\ UNCHANGED dir
    /\ GoTo(h, IF dir = "none" THEN "write" ELSE "plan")
    /\ UNCHANGED <<nomadVars, ctxDone, body, eval, version, resends, before>>

(* plan and run come before the bundle has been fetched.                   *)
FetchLater(h) ==
    /\ At(h, "fetch")
    /\ before' = [before EXCEPT ![h] = Over]
    /\ \E next \in {"extract", "plan"} : GoTo(h, next)
    /\ UNCHANGED <<nomadVars, dir, ctxDone, body, eval, version, resends>>

(* The index is taken for that of the registration after this one.         *)
RunCountsAhead(h) ==
    /\ At(h, "register")
    /\ body[h] # "none"
    /\ Accept(body[h])
    /\ eval' = [eval EXCEPT ![h] = Len(jobs') + 1]
    /\ GoTo(h, "info")
    /\ UNCHANGED <<dir, ctxDone, body, version, resends, before>>

(* Allocations that are to be stopped are not looked at.                   *)
SystemVerdictIgnoresStop(h) ==
    CASE allocs = {} -> "aborted"
      [] /\ allocs # {}
         /\ \A a \in allocs : a.desired = "run" =>
                a.version = version[h] /\ a.client = "running" -> "ok"
      [] OTHER -> "retest"

(* The first deployment in the answer is taken for this registration's.    *)
ServiceVerdictOfAny(h) ==
    CASE \E i \in Indexes : deploys[i] = "successful" -> "ok"
      [] \E i \in Indexes : deploys[i] \in {"failed", "cancelled"} -> "aborted"
      [] OTHER -> "retest"

(* The timer fires and the loop goes on.                                   *)
CheckOutlivesTimeout(h) ==
    /\ At(h, "check")
    /\ UNCHANGED vars

-----------------------------------------------------------------------------
(* s3Client.Get.                                                           *)
Fetch(h) ==
    /\ At(h, "fetch")
    /\ before' = [before EXCEPT ![h] = Over]
    /\ GoTo(h, "extract")
    /\ UNCHANGED <<nomadVars, dir, ctxDone, body, eval, version, resends>>

FetchFails(h) ==
    /\ At(h, "fetch")
    /\ Return(h, "error")
    /\ UNCHANGED <<nomadVars, dir, ctxDone, body, eval, version, resends, before>>

(* untargz.Extract comes to the specification, which until then is the     *)
(* earlier one, and opens it to write it anew.                             *)
ExtractBegins(h) ==
    /\ At(h, "extract")
    /\ dir' = "none"
    /\ GoTo(h, "write")
    /\ UNCHANGED <<nomadVars, ctxDone, body, eval, version, resends, before>>

Extract(h) ==
    /\ At(h, "write")
    /\ dir' \in Written(h)
    /\ GoTo(h, "plan")
    /\ UNCHANGED <<nomadVars, ctxDone, body, eval, version, resends, before>>

(* Before, in or after the specification.                                  *)
ExtractFails(h) ==
    /\ \/ At(h, "extract") /\ UNCHANGED dir
       \/ At(h, "write") /\ dir' \in Written(h)
    /\ Return(h, "error")
    /\ UNCHANGED <<nomadVars, ctxDone, body, eval, version, resends, before>>

(* plan: no warning and no failed task group, else an error.  What it has  *)
(* read and posted is not used again.                                      *)
Plan(h) ==
    /\ At(h, "plan")
    /\ Specified
    /\ GoTo(h, "run")
    /\ UNCHANGED <<nomadVars, dir, ctxDone, body, eval, version, resends, before>>

PlanFails(h) ==
    /\ At(h, "plan")
    /\ Return(h, "error")
    /\ UNCHANGED <<nomadVars, dir, ctxDone, body, eval, version, resends, before>>

(* run reads the directory anew and will post what is there now.           *)
ReadSpecification(h) ==
    /\ At(h, "run")
    /\ body' = [body EXCEPT ![h] = dir]
    /\ GoTo(h, "register")
    /\ UNCHANGED <<nomadVars, dir, ctxDone, eval, version, resends, before>>

Run(h) ==
    /\ At(h, "register")
    /\ body[h] # "none"
    /\ Accept(body[h])
    /\ eval' = [eval EXCEPT ![h] = Len(jobs')]
    /\ body' = [body EXCEPT ![h] = "none"]
    /\ GoTo(h, "info")
    /\ UNCHANGED <<dir, ctxDone, version, resends, before>>

(* The HTTP client sends a request again that may have had its effect.     *)
Resend(h) ==
    /\ At(h, "register")
    /\ body[h] # "none"
    /\ resends < MaxResends
    /\ Accept(body[h])
    /\ resends' = resends + 1
    /\ UNCHANGED <<dir, ctxDone, hpc, body, eval, version, result, before>>

(* The answer may be lost after Nomad has accepted the job.                *)
RunFails(h) ==
    /\ At(h, "register")
    /\ UNCHANGED nomadVars \/ (body[h] # "none" /\ Accept(body[h]))
    /\ body' = [body EXCEPT ![h] = "none"]
    /\ Return(h, "error")
    /\ UNCHANGED <<dir, ctxDone, eval, version, resends, before>>

(* deploymentSuccessCheck: the version is the job's newest, which another  *)
(* registration may have made since.                                       *)
ReadInfo(h) ==
    /\ At(h, "info")
    /\ version' = [version EXCEPT ![h] = Len(jobs)]
    /\ GoTo(h, "check")
    /\ UNCHANGED <<nomadVars, dir, ctxDone, body, eval, resends, before>>

InfoFails(h) ==
    /\ At(h, "info")
    /\ Return(h, "error")
    /\ UNCHANGED <<nomadVars, dir, ctxDone, body, eval, version, resends, before>>

-----------------------------------------------------------------------------
(* The success checks: what one answer of the API comes to.                *)

(* An allocation that Nomad wants stopped and that still runs.             *)
StoppingStillRuns ==
    \E a \in allocs : a.desired # "run" /\ a.client = "running"

(* successCheckByAllocations.                                              *)
SystemVerdict(h) ==
    CASE allocs = {} -> "aborted"
      [] /\ allocs # {}
         /\ ~StoppingStillRuns
         /\ \A a \in allocs : a.desired = "run" =>
                a.version = version[h] /\ a.client = "running" -> "ok"
      [] OTHER -> "retest"

(* successCheckByAllocationsBatch, for a job that is not periodic.         *)
BatchVerdict(h) ==
    CASE allocs = {} -> "aborted"
      [] /\ allocs # {}
         /\ ~StoppingStillRuns
         /\ \A a \in allocs : a.desired = "run" /\ a.eval = eval[h] =>
                a.version = version[h] /\ a.client = "complete" -> "ok"
      [] OTHER -> "retest"

(* successCheckByDeployment.                                               *)
ServiceVerdict(h) ==
    CASE deploys[eval[h]] = "successful" -> "ok"
      [] deploys[eval[h]] \in {"failed", "cancelled"} -> "aborted"
      [] OTHER -> "retest"

(* successCheckForBatchJobs: a periodic job is not looked at.              *)
VerdictForBatchJobs(h) ==
    IF jobType = "periodic" THEN "ok" ELSE BatchVerdict(h)

(* deploymentSuccessCheck: the switch on *jobInfo.Type.                    *)
Verdict(h) ==
    CASE jobType = "system" -> SystemVerdict(h)
      [] jobType \in {"batch", "periodic"} -> VerdictForBatchJobs(h)
      [] jobType = "service" -> ServiceVerdict(h)

(* The select of a check: the ticker, ctx.Done and the timeout, of which   *)
(* any that is ready is taken.  A tick whose answer is not conclusive      *)
(* changes nothing.                                                        *)
CheckConcludes(h) ==
    /\ At(h, "check")
    /\ Verdict(h) # "retest"
    /\ Return(h, Verdict(h))
    /\ UNCHANGED <<nomadVars, dir, ctxDone, body, eval, version, resends, before>>

CheckFails(h) ==
    /\ At(h, "check")
    /\ Return(h, "error")
    /\ UNCHANGED <<nomadVars, dir, ctxDone, body, eval, version, resends, before>>

CheckTimesOut(h) ==
    /\ At(h, "check")
    /\ Return(h, "timeout")
    /\ UNCHANGED <<nomadVars, dir, ctxDone, body, eval, version, resends, before>>

CheckAborts(h) ==
    /\ At(h, "check")
    /\ ctxDone
    /\ Return(h, "aborted")
    /\ UNCHANGED <<nomadVars, dir, ctxDone, body, eval, version, resends, before>>

HandlerStep(h) ==
    \/ Fetch(h) \/ FetchFails(h)
    \/ ExtractBegins(h) \/ Extract(h) \/ ExtractFails(h)
    \/ Plan(h) \/ PlanFails(h)
    \/ ReadSpecification(h) \/ Run(h) \/ Resend(h) \/ RunFails(h)
    \/ ReadInfo(h) \/ InfoFails(h)
    \/ CheckConcludes(h) \/ CheckFails(h) \/ CheckTimesOut(h) \/ CheckAborts(h)

(* main cancels the context that every handler was started with.           *)
Cancel ==
    /\ ~ctxDone
    /\ ctxDone' = TRUE
    /\ UNCHANGED <<nomadVars, dir, hpc, body, eval, version, result, resends, before>>

(* The engine has its results; nothing is left to do.                      *)
AllReturned ==
    /\ \A h \in Handlers : At(h, "done")
    /\ UNCHANGED vars

Next ==
    \/ \E h \in Handlers : HandlerStep(h)
    \/ NomadStep /\ UNCHANGED handlerVars
    \/ Cancel
    \/ AllReturned

(* Each request and each extraction ends; the timer of a check, once it    *)
(* has fired, stays ready until the select takes it.                       *)
Fairness ==
    \A h \in Handlers :
        /\ WF_vars(~At(h, "check") /\ HandlerStep(h))
        /\ SF_vars(CheckTimesOut(h))

Spec == Init /\ [][Next]_vars
FairSpec == Spec /\ Fairness

-----------------------------------------------------------------------------
(* Properties.                                                             *)

(* What the engine reports of a service is what became of this very        *)
(* registration, whatever other handlers registered meanwhile: nil means   *)
(* that its Nomad deployment succeeded; an AbortedError with the context   *)
(* alive, that it failed or was cancelled.                                 *)
ServiceResultIsTrue ==
    \A h \in Handlers : jobType = "service" =>
        /\ result[h] = "ok" => deploys[eval[h]] = "successful"
        /\ result[h] = "aborted" /\ ~ctxDone =>
               deploys[eval[h]] \in {"failed", "cancelled"}

(* When a system job is reported deployed, no allocation of a version      *)
(* older than the one registered for the message still runs anywhere: the  *)
(* version that run reads back may be newer than that, never older.        *)
SystemOkLeavesNothingOlder ==
    [][\A h \in Handlers :
          jobType = "system" /\ CheckConcludes(h) /\ result'[h] = "ok" =>
              \A a \in allocs : a.client = "running" => a.version >= eval[h]]_vars

(* A handler may deploy the bundle of another that shares its directory.   *)
(* But what is reported deployed is never the bundle of a handler that was *)
(* over when this one began: not of an older message, of a run that failed *)
(* half way, nor of an earlier process.                                    *)
ReportedIsNotStale ==
    \A h \in Handlers :
        result[h] = "ok" => jobs[eval[h]] \notin before[h] \cup {"old"}

(* And what is newest after that may be older than what h has deployed,    *)
(* for another may register late what it has read early; but only by an    *)
(* overlap: the newest version is of a bundle that was not over when some  *)
(* handler began that itself was not over when h began.  A handler that    *)
(* has the service for itself so leaves its own bundle as the newest.      *)
Begun(h) == ~At(h, "fetch")
NewestIsRecent ==
    \A h \in Handlers : result[h] = "ok" =>
        \E k \in Handlers \ before[h] :
            Begun(k) /\ jobs[Len(jobs)] \notin before[k] \cup {"old"}

(* Every handler returns, whatever Nomad does and however many others      *)
(* there are: the engine gets its slot and its wait group back.            *)
EveryHandlerReturns == \A h \in Handlers : <>At(h, "done")

(* An AbortedError has "ids of the aborted evaluation" (errors.go): with    *)
(* the context alive, of an evaluation that Nomad is done with.            *)
AbortedMeansEvaluationEnded ==
    [][\A h \in Handlers :
          CheckConcludes(h) /\ result'[h] = "aborted" => eval[h] \notin pending]_vars
=============================================================================
