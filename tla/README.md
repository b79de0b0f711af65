# A verification project for dp-deployer

dp-deployer takes signed deployment and secret messages from an SQS queue, acts
on them (registers jobs with Nomad, writes secrets to Vault), reports each
result on another queue and removes the message. This directory holds TLA+
models of it, their TLC configurations and TLAPS proofs. Line numbers are those
of the repository at the commit it is kept beside; `PROJECT.json` maps every
definition to its lines.

## Inventory

| Component | Source | State | Operations | Talks to |
|---|---|---|---|---|
| SQS consumer | `ssqs/ssqs.go` | channels `finish`, `Errors`, `Messages` (capacity 1), the response being looped over | `Start`, `receive`, `Delete`, `Close` | SQS; the engine through its channels |
| engine | `engine/engine.go` | semaphore, wait group, run loop, one goroutine per message | `Start`, `run`, `handle`, `postHandle`, `reply`, `delete`, `Close` | consumer, handlers, producer queue |
| queue | `queue/queue.go` | as the engine, one handler | as the engine; `Close` is never called | as the engine |
| deployment handler | `handler/deployment` | directory `<root>/<service>`, shared by handlers | `Handler`, `plan`, `run`, three success checks; `NewHandler`, `planNew`, `runNew` | S3, file system, Nomad |
| secret handler | `handler/secret` | none of its own | `Handler` over the artifacts of a message | S3, Vault |
| job translation | `nomad/*.go` | none | `CreateJob` and helpers | called by `NewHandler` |
| process | `cmd/dp-deployer/main.go` | context, shutdown context, HTTP server | start-up, signal, shutdown sequence, exit code | everything |
| configuration, message types, S3 mock | `config`, `message`, `s3` | read once | | |

What is hard here, and what makes each part correct:

* **consumer and engine**: a message moves through two channels, a blocked run
  loop and a goroutine, any of which may be cut off by a crash, a cancelled
  context or a visibility timeout. Correct means: no message is lost unhandled,
  none is worked on twice without a reason, responses match removals, the
  semaphore bounds the work, the counters survive every exit path, and the
  shutdown ends without waiting for ever and without leaving work behind.
* **deployment handler**: polls a scheduler that changes under it, with other
  handlers of the same service extracting and registering meanwhile. Correct
  means: what is reported is true of the message's own registration, what was over
  before a message came is not deployed in its place, and every handler ends.
* **secret handler**: several writes under one result, with others writing the
  same paths, while what is to be written changes. Correct means that a message
  reported done has replaced everything older, that what failed or was killed
  half way is made good by the next success, and that no late or repeated
  message brings an old value back.
* **job translation**: correct means that the job is what the message asks for,
  that no group gets what belongs to another, and that the job reaches Nomad.
* **process**: starts two consumers, or none, and shuts down against a deadline
  with parts that may hang. Correct means that it always exits, and says
  "gracefully" only when the work has ended.

`PROJECT.json` lists the hazards one by one under `hazards`, each at its line.

## Modules

| Module | What it is |
|---|---|
| `Ssqs` | the consumer goroutine, its channels, and the part of SQS it relies on |
| `Engine` | extends `Ssqs`: run loop, semaphore, wait group, handling goroutines, `Close`, cancellation, crash and restart |
| `Delivery` | the abstract promise about messages that `Engine` implements |
| `EngineProofs` | the inductive invariant of `Engine` and the theorems about its counters |
| `MessageProofs` | theorems about what becomes of a message in `Engine`, on top of it |
| `ResponseProofs` | theorems about the responses `Engine` writes, on top of that |
| `RefinementProofs` | `Engine` implements `Delivery` |
| `Nomad` | one Nomad job as the HTTP API shows it (external) |
| `Deployment` | extends `Nomad`: several `Handler`s for one service |
| `Process` | `main`: composes two instances of `Engine` (the engine and the queue), the HTTP server and the shutdown |
| `ProcessProofs` | how the process starts and ends, on top of what is proved of `Engine`'s steps |
| `Secret` | several handlers of secret messages, S3 and Vault |
| `Job` | `CreateJob`, and `NewHandler`, which posts something else |
| `DeploymentProofs`, `SecretProofs`, `JobProofs` | the invariants and action properties of these three |
| `MCEngine`, `MCDeployment`, `MCProcess`, `MCSecret`, `MCJob` | the instances TLC checks |

### Ssqs and Engine

A *delivery* `<<m, n>>` is the n-th time SQS hands out message `m`; `n` stands
for the receipt handle. A message is visible, in flight or deleted; a delivery
is in the consumer's loop (`batch`), in the channel (`msgChan`), in the run
loop's call of `handle` before it has a slot (`cur`), or has a goroutine, whose
place in `handle`/`postHandle` is `hpc[d]`:

    verify -> handle -> reply <-> replyWait -> delete <-> deleteWait -> finish -> release -> gone

`finish` is the point before `wg.Done()`, `release` the one before
`<-e.semaphore`; they are two steps in the deferred function and so here. The
body of a message matters in one way: it passes `verifyMessage`, unmarshalling
and the handler look-up (`Valid`), or its error is posted. `result[d]` is the
outcome passed to `postHandle`, `outbound[d]` how many copies of the response
are on the producer queue.

Disturbances are counted in `faults` and bounded by `MaxFaults`: a failed send
or delete (which may have taken effect), a crash, a shutdown signal, and, if
`HandledInTime` is FALSE, a visibility timeout that runs out on a message still
being handled. Failing receives are free. Once the context is done sends fail
at no cost, because `sendMessage` passes the context on, while `Delete` does
not: it can still succeed. A result that `json.Marshal` refuses (`engine.go:239`)
fails in `ReplyFails` like a send, at the cost of a disturbance, although nothing
outside the program caused it. `Restart` is both the end that `main` brings about
after cancellation and a crash; memory is lost, SQS and the producer queue are
not.

RetryNotify is modelled by what it does: at least one attempt; after an error
either another attempt, if the context is alive, or the error is returned (the
context is done, or 300 seconds have passed). Go's select takes any ready branch.

### Nomad and Deployment

The i-th registration of the job is version i, evaluation i and modify index i.
The scheduler processes pending evaluations later, against the newest version,
node by node, so that a roll-out may be seen half done; clients start, finish
and fail allocations; ended allocations are forgotten. The three success checks
are the operators `SystemVerdict`, `BatchVerdict` and `ServiceVerdict`, evaluated
on the answer of one tick.

A handler is named by its message, as is its bundle. The handlers of one service
share a directory, of which only `<service>.nomad` matters: `dir` says whose
specification is in it, or that there is none that parses, or one of an earlier
process. Extraction is two steps. Until `ExtractBegins` opens the file, the
earlier specification can still be read there; when `Extract` closes it, the file
may be of this handler, or broken, or what another handler has written meanwhile
(`Written`). `plan` and `run` each read the directory. A missing or half written
specification makes `jsonFormat` fail, which is only logged; Nomad refuses the
empty body, so the step fails. In `run` the reading (`deployment.go:159`,
`ReadSpecification`, into `body[h]`) and the POST (`:163`, `Run`) are two steps,
with anything of the other handlers in between. The HTTP client may send a request
again that has already had its effect (`Resend`, at most `MaxResends` of them), and
a POST may take effect though it is reported as failed (`RunFails`).
`before[h]` is a history variable: the handlers that were over when `h` began.

Two assumptions are in this. A request that the client has given up has had its
effect by then or never has it. And every bundle holds a `<service>.nomad`: with
one that does not, the specification of an earlier bundle stays and is deployed,
which nothing in the code notices (a hazard in `PROJECT.json`).

`NewHandler` is not here. What it posts is `job.Payload`, which is nil, so that it
registers no job that this module could follow; all of it, with the request's
outcome and its success check, is in `Job`.

### Process

`Process` takes `Engine` twice: as `E`, and as `Q` with the variables that begin
with `q`. Package `queue` is a copy of package `engine` but for the handler, one
function in place of a table, so that `Q`'s `Valid` asks for less. The two share
`ctxDone` and nothing else; `CancelContext` cancels both. `mpc` is where `main`
is: `config`, `clients`, `handlers`, `engine`, `queue`, `health` while it builds,
each step with the settings it needs (`Needs`, from the checks of `engine.New`,
`queue.New` and `secret.New`), then `select`, `shutdown`, `exited`. `env` is the
set of settings with a usable value. `down` is the shutdown goroutine: `server`
(in `httpServer.Shutdown`), `close` and `closing` (before and in `e.Close`),
`cancel`, `done`. `sctx` is the shutdown context, which its cancel function or
its deadline ends, the first of the two deciding the exit code. Nothing is
restarted here: what follows the exit is `Restart` in `Engine`.

### Secret

A handler is one delivery of one message. It looks at the context at the head
of its loop only; then `Get`, `Decode` (decrypt, find the path, unmarshal) and
`Write` are steps of their own, between which uploads, other handlers, a cancel
and the end of the process may come. Artifact names are sequences of segments of
sequences of parts, so that `PathFor` does what `pathFor` does: the second
segment up to its first dot, and a panic if there is none. `before[h]` is a
history variable: the handlers that were over when `h` began. `vault[p]` records
who wrote what. What a handler no longer reads is reset.

### Job

`Messages` is a set of records of type `MessageSQS`. `CreateJob` and its helpers
are operators of the same names; names joined with dashes are sequences of
words. Everything of a group that the code reads goes into the task group: count,
arguments, volumes, user namespace, CPU, memory, constraints. Left out are what is
the same for every message, and the fields that no code reads (`Go`, `Mount`,
`HeapMemory`). The state machine around them is `NewHandler`: it creates the job
or panics, and posts `job.Payload`, to be planned and to be registered. Nomad
refuses an empty body; the HTTP server of `deployment_test.go` takes it.
`BodyOptional` says which of the two the endpoint is. If it takes it, the check
that follows waits for a registration of which nothing is known, and may end in
any way (`SuccessCheck`).

## Runs

| Run | Question | Instance |
|---|---|---|
| `engine_safety` | counters, handler limit, one holder per message, Close awaits handlers; `Engine` implements `Delivery` | 2 messages, 2 faults, 1 slot, responses of up to 2 messages |
| `engine_expiry` | deliveries, responses and removals when visibility timeouts may be missed | 2 messages, 2 faults, 2 slots |
| `engine_live` | every message is removed in the end; the run loop returns; Close returns unless the consumer is blocked | 2 messages, 1 fault, process restarted |
| `engine_unreplied` | *violated*: removed only if replied | |
| `deployment_service` | what is reported of a service is true; stale bundles are not deployed; every handler returns | 2 handlers, a service job, 1 request sent again |
| `deployment_allocations` | the same of what is deployed, and of the scan of allocations | 2 handlers, system, batch and periodic jobs, 1 node |
| `deployment_aborted_claim` | *violated*: an AbortedError is for an evaluation that has ended | |
| `process_exit` | a signal ends the process; exit 0 means the engine is closed | 1 engine message, 1 request, all sets of settings |
| `process_parts` | a failed start takes no message; nothing that is cut off is lost | 1 queue message, 2 faults, all sets of settings |
| `secret_safety` | ok replaces all that is older; older values only by concurrent handlers | 3 handlers, 3 artifacts, two of them with one path and one with none, 2 versions, 1 fault |
| `job_translation` | the job is what is asked for; policies are apart | groups that differ from each other in any one field, every kind of health check, 3 names |
| `job_not_posted` | *violated*: what is posted is the job | |

**Why the bounds are enough.** Two messages with one slot are what it takes for
the run loop to block in `handle`, for the consumer to block on a full channel,
and for a handler to start late. Two faults combine any two of a failed send, a
failed delete, a crash, a shutdown and a missed timeout; a message can be
delivered three times. `MaxFaults` bounds `receives` in a guard of
`BecomeVisible`; theorem `RedeliveryPaid` shows that the guard never decides
anything. `maxConcurrentHandlers` is 50 in the code and 1 or 2 here; the proofs
cover all values. `BatchMax` is 10 in a comment of `ssqs.go` and 1 by the
default of SQS; 1 and 2 are checked. Two handlers of one service give every
ordering of two extractions, reads and registrations, and one request sent again
lets each of them register late. One node is all that fits a run of two handlers;
roll-outs that are half done over several nodes are covered by theorem `SystemOk`,
which holds for any set of nodes. In `Process` one message on one of the queues is
enough, as the queues share only the context; the theorems cover all messages and
limits. One disturbance of each part
is kept for the cancellation (`EngineStep`, `QueueStep`). `MaxRequests` is the
number of requests that may be served at once. Three handlers in `Secret` are
one that is over and two that overlap; two versions (`MaxUploads`) are what an
older value needs.

**Fairness.** Weak fairness of every goroutine. Strong fairness of the branches
of `run`'s select and of the timer branch of a check: Go chooses among ready
branches at random, so a branch that is ready again and again is taken. Strong
fairness of receiving a message that is visible again and again, which is what
SQS offers. The process is ended and started again, but fairness asks for that
only once Close has returned or never will (`ShutdownSettled`): the deadline of
`main` may come sooner and need not, so a Close that hangs is not excused by the
kill that follows. Nomad is given no fairness at all. `process_exit` asks for the
least: that `main` goes on when it can and that its deadline comes; engine,
queue, server and shutdown goroutine may stop anywhere.

## What the runs show of the code

Three statements of the repository do not hold, each a `violation` run and a
finding in `PROJECT.json`:

1. `engine.go:134-136` says that a message is removed if its result is written.
   `postHandle` drops the error of the first RetryNotify and deletes anyway; when
   the context is done, the send cannot succeed and the delete can.
2. `CreateJob` "creates the Nomad job structure for an application deployment"
   (`job.go:15`): `planNew` and `runNew` post another field, which is empty.
3. An `AbortedError` is of an "aborted evaluation" (`errors.go:3`): with no
   allocation at all in the list a system or batch job is reported aborted while
   its evaluation is pending, and is deployed afterwards.

The models have more of this kind. Where a property that holds says exactly how
far the code goes, that property is what is checked:

* `Close` "closes a consumer" (`ssqs.go:54`), except when the consumer is blocked
  on a channel and the run loop has returned (`CloseReturnsUnlessBlocked`).
* `Engine.Close` waits for handlers (`engine.go:150`): for those that have been
  started (`CloseAwaitsHandlers`). The run loop is in no wait group and may still
  start one (`StartHandler` after `CloseReturns`).
* A handler may register the bundle of another message for the same service, but
  never reports ok for one of a handler that was over when it began
  (`ReportedIsNotStale`).
* Of two messages handled at once the older may win: a handler that has read the
  specification at `deployment.go:159` and posts it at `:163` after another has
  extracted and registered makes the older bundle the newest version, and both
  report ok. It takes an overlap, and chains of overlaps reach no further than
  `NewestIsRecent` says; a handler that has the service to itself leaves its own
  bundle as the newest.
* A new system job counts as deployed when all its allocations run, also if the
  scheduler has reached one node only so far. What an ok does mean is that nothing
  older runs (`SystemOkLeavesNothingOlder`).
* What is held of a message is one delivery, its newest (`OneHolderPerMessage`), only
  while it is handled within its visibility timeout; `engine_expiry` says what is
  left without that.
* "done shutdown gracefully" (`main.go:165`) is logged with handlers of the
  second queue at work, as nobody calls its `Close`. What is cut off is still in
  its queue (`NothingLostAtExit`).

Others are steps of the models that no property is about: `httpServer.Shutdown`
is given the cancelled context and waits for no request (`ShutdownServer`); the
second queue "has not been implemented" (`queue.go:2`) but its settings are
needed to start (`Needs`); a non-periodic batch job is checked "for a complete
allocation" (`deployment.go:227`), but before the scheduler has placed one for this
evaluation the scan finds nothing to wait for and reports success
(`BatchVerdict`), so that nothing stronger than `ReportedIsNotStale` is promised of
a batch job; a message may omit `healthcheck` (`message.go:10`),
which ends the process (`Panics`).

## Proofs

`EngineProofs` proves, for every finite set of messages, every `MaxFaults`,
`BatchMax`, number of slots and choice of valid messages:

* `TypeCorrect`: `Spec => []TypeOK`, in which `sem` and `wg` are natural numbers:
  the wait group's counter never goes below zero, `<-e.semaphore` never blocks for
  want of a token. (The other panic of a wait group, of an `Add` that meets the last
  `Done` during `Wait`, is not modelled: `StartHandler` may come after `Close` has
  returned, and does no more than count.)
* `CountersCorrect`, `HandlersLimited`: the counters count, the limit holds.
* `CloseIsQuiet`: the action property of `Close`.

All follow from `Inductive`: `Spec => []IInv`. Types and counters are not
inductive alone. `StartHandler` adds one to the counters, which is right only
if the delivery has no goroutine yet; that needs `InTransitIsFresh`, which a
receive preserves only because the receipt is new (`StartedWasReceived`), because
a delivery is in one place (`InTransitIsApart`) and because the receipt is within
bounds (`RoomToReceive`). Counting down needs the counters to be exact. The step
is proved in three lemmas, `TypeStep`, `CountersStep` and `TracedStep`, with one
case per action; `MoveEnters`, `MoveLeaves` and `MoveKeepsSet` say what one move
does to the cardinality of a set of goroutines. The assumptions are those named
in the modules: finitely many messages, natural bounds, at least one slot.

`MessageProofs` adds three theorems, each with an invariant of its own beside
`IInv`:

* `OneHolder`, for `HandledInTime` TRUE: what is held is the newest delivery. The
  invariant is `HeldIsHidden`: it is also not visible, so that no receive can
  overtake it, and only the expiry that `HandledInTime` rules out breaks it.
* `RemovedHandled`: what has been removed has a result. `ResultBeforeReply` says
  that the goroutine which deletes has one, and results are never taken back.
* `RedeliveryPaid`: `receives[m] <= 1 + faults`. This is not inductive: a delivery
  is lost at one step and handed out again at a later one. `DeliveriesPaid` counts
  the loss when it happens: a message is `Owed` a delivery when it is visible,
  when nobody holds its newest delivery, or when its delete has failed; a
  cancelled context counts as well, since the restart to come drops what is
  held. `OneAtATime` says that no step overwrites a delivery in a channel. The same
  invariant gives that the bound in the guard of `BecomeVisible` never binds:
  at `receives[m] = MaxFaults + 1` nothing is owed, so only one more disturbance
  could make the message visible, and none is left.

`ResponseProofs` goes on from there:

* `RemovedIsTold`: what was removed undisturbed was answered. The invariant,
  `Undisturbed`, says what no step but a disturbance changes: no goroutine is in a
  retry, one that deletes has written one copy, the context is alive.
* `RepliesArePaid`: the copies of the responses to a message, over all its
  deliveries, are at most `1 + faults`. As with redelivery, a copy is paid for
  before it is written. `RepliesPaid` counts besides the copies those still to
  come (`Pending`: the deliveries in transit or before the end of their reply) and
  what is `Owed`. A reply that fails and is retried turns one pending copy into
  one written and one pending, at the cost of its disturbance; a receive turns
  what is owed into what is pending. `OneAtATime` is needed for that: a delivery
  that a step overwrote would be pending no more. Copies are counted as the
  cardinality of a set of pairs, so that the library's theorems on finite sets
  apply to it; `CopiesAdd` is what one more copy does to it.

`RefinementProofs` proves `Refinement`: under `HandledInTime`, `Spec =>
ImplementsDelivery`. `OthersFrame` shows that all steps but those of handling
goroutines keep results, responses and removals, and `HandlerEffect` sorts the
steps of goroutines into reaching a result (`WorkStep`), writing a response
(`ReportStep`), removing (`RemoveStep`) and the rest, which `Delivery` does not
see. A result must be reached before it is written (`ResultIsFirst`) and nothing
is worked on once it is removed (`RemovedIsDone`); the latter needs
`HeldIsHidden`, and so the assumption. Without it a message may be removed by the
older of two deliveries while the newer is handled, which `Delivery` rules out.

`ProcessProofs` proves four properties of the whole process from one inductive
invariant. `Process` runs the actions of `Engine` on two sets of variables, so that
its parts do what `Engine` allows by construction; what has to be shown is that
`main` starts, cancels and ends them at the right moments. `EngineKeepsContext` and
`QueueKeepsContext` say that a part's own steps leave the shared context and the
other part alone; `MainOnParts` sorts the steps of `main` into three: both parts
unchanged, both cancelled, the engine being closed. What is proved of `Engine` comes
in through two instances of `MessageProofs`, `EP` and `QP`, whose lemmas about one
step hold of both parts; `EngineNext` and `QueueNext` say that these instances
define the next-state relation as `E` and `Q` do. (Only such lemmas are used
through the instances; the induction is done again, over the steps of `Process`.)

* `ProcessTypeCorrect`, with `MainTypeOK` for what `main` adds.
* `GracefulExit`: `ClosedInOrder` follows the shutdown goroutine from `Close` to the
  cancelled shutdown context and from there to exit code 0; `ClosedIsStopped`
  says that a consumer which `Close` has stopped does not start again.
* `FailedStart`: as long as there is no server `main` has not come to its select,
  before which no part runs (`Running`): neither queue has been touched
  (`NothingTakenYet`).
* `NothingLost`: the `RemovedOnlyIfHandled` of both parts, whatever cuts them off.

`SecretProofs` holds for any handlers, lists of artifacts, uploads and failures:

* `SecretTypeCorrect`: no handler reads past its list.
* `OkReplaces`. A handler returns ok after the last of its writes, but what it
  wrote first may be overwritten before. `DoneIsFresh` says of the artifacts it
  has been through that their paths hold nothing of the handlers that were over
  when it began; who overwrites them was not over, as `BeforeIsOver` says that
  those never write again. Two artifacts with one path do not disturb this.
* `OlderConcurrent`. `GotIsNewer`: between its read and its write, what a handler
  has read of an artifact is at least as new as what the handlers before it have
  written of that artifact. It is established by the read, since all that is in
  Vault was in S3, where versions go up (`VaultWasUploaded`), and is kept because
  the handlers before it do not write.

`DeploymentProofs` holds for any finite and non-empty set of handlers, any number
of requests sent again, any nodes and any type of job:

* `DeploymentTypeCorrect`: `MaxJobs` versions are enough, as a handler that registers
  moves on, and each request sent again is counted.
* `ServiceResult`. The scheduler and the clients go on between the ticks of a check;
  `NomadEffect` says that they register nothing and take back no verdict on a
  registration.
* `ReportedNotStale` and `NewestRecent`. `Freshness` follows what a handler that is
  over may have left behind through the places it can be in. `BeforeIsOver`: who was
  over when `h` began never writes again. So once `h` has opened the file, nothing
  of theirs is in the directory (`DirIsFresh`), nor in what `h` has read of it
  (`BodyIsFresh`), nor in what was registered of that (`RegisteredIsFresh`); each
  needs the one before it. `NewestIsFresh` adds that whoever registers later was
  not over when `h` began, and that the bundle it registers was
  not over when it began itself.
* `SystemOk`, an action property of the tick that returns nil. `VersionIsNoOlder`: the
  version a handler waits for, read after it registered, is its own or a later one.

`JobProofs` holds for any set of messages whose fields have their Go types
(`MessagesAssumption`): `AsAsked` and `PoliciesKeptApart`. `AsAsked` compares the job
with that of any other message for the service: `GroupsOfJob` says that the list of
groups holds each group the message has once, `GroupTellsDetails` that every field
of a group that is read has a place of its own, so that different details make
different task groups, and `ChecksTell` the same of the health check. The other
theorem rests on `NamesApart`, that job and group can be told from a name whose
last word is the group.

The assumptions are those named in the modules: finite sets of messages and
handlers, natural bounds, at least one slot and one handler, Go types.

Only model-checked: what needs fairness or ENABLED, which the prover does not
reach: `EveryMessageRemoved`, `RunReturns`, `CloseReturnsUnlessBlocked`,
`EveryHandlerReturns`, `SignalEndsProcess`. All other properties of the passing
runs are theorems. `Refinement` and `OneHolder` assume `HandledInTime`, as the
runs that check them do.

## Plan

1. done: `Ssqs`, `Engine`, `Delivery`, `Nomad`, `Deployment`; first theorems.
2. done: `Process` with the second queue, `Secret`, `Job` with `NewHandler`.
3. done: proofs of every safety and action property of the passing runs, and of
   the refinement of `Delivery`.
4. Left: the parts of the liveness properties that are safety, as theorems (what
   keeps a disturbed message within reach of the next receive; that a consumer
   which blocks does so only with the run loop gone); an abstract specification of
   what a deployment promises, refined by `Deployment`.

## Not modelled, and why

Log lines and error texts; the cryptography of `verifyMessage` and the secret
decryption (a message verifies or not); HTTP details of Nomad requests (a call
succeeds, fails, or fails having succeeded); the values of the configuration,
read once; the health checks, which only read; the S3 interface and its generated
mock, which have no behaviour. Time is abstracted to timeouts that may run out at
any moment. A panic in a handler ends the process: in `Engine` it is one of the
crashes, in `Secret` and `Job` a step of its own. That a message which panics
comes back after each restart and ends the process again is not modelled beyond
the bound on crashes. The branches of `runNew` for system and batch jobs cannot
be reached with a job made by `CreateJob`. The three clients that `main` creates
may fail to be created (`BuildFails`); what they do is in the modules of the
handlers that use them.
