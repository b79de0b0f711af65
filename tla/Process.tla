------------------------------- MODULE Process -------------------------------
(***************************************************************************)
(* cmd/dp-deployer/main.go: one process from its start to os.Exit.  It     *)
(* builds its parts, runs the engine, the queue and an HTTP server under   *)
(* one context, and shuts down within a time limit.                        *)
(*                                                                         *)
(* Package queue is a copy of package engine with one handler for all      *)
(* messages in place of one per Type; engine and queue are here two        *)
(* instances of module Engine, E and Q, that share nothing but the         *)
(* context.  The variables of Q are those with a q in front.               *)
(***************************************************************************)
EXTENDS Naturals, FiniteSets

CONSTANTS
    EngineMessages,         \* the messages of CONSUMER_QUEUE
    QueueMessages,          \* the messages of CONSUMER_QUEUE_NEW
    Valid,                  \* those that verify, unmarshal, have a handler
    MaxFaults,              \* bound on the disturbances of each part
    BatchMax,               \* most messages that one ReceiveMessage returns
    MaxConcurrentHandlers,  \* maxConcurrentHandlers, of each part
    MaxRequests             \* bound on the requests being served at once

ASSUME MessagesFinite == IsFiniteSet(EngineMessages) /\ IsFiniteSet(QueueMessages)
ASSUME BoundsAssumption == MaxFaults \in Nat /\ MaxRequests \in Nat
ASSUME LimitsAssumption == BatchMax \in Nat \ {0} /\ MaxConcurrentHandlers \in Nat \ {0}

VARIABLES
    sqs, receives, faults, cpc, batch, msgChan, errChan, finishChan,
    rpc, cur, sem, wg, hpc, result, outbound, closer,
    qsqs, qreceives, qfaults, qcpc, qbatch, qmsgChan, qerrChan, qfinishChan,
    qrpc, qcur, qsem, qwg, qhpc, qresult, qoutbound, qcloser,
    ctxDone,    \* ctx is cancelled
    env,        \* the settings that config.Get returns a usable value for
    mpc,        \* where main is
    sigC,       \* the channel of signals holds one
    server,     \* the HTTP server
    requests,   \* requests it is serving
    down,       \* the goroutine that shuts down
    sctx,       \* shutdownContext
    exit        \* the code passed to os.Exit

E == INSTANCE Engine WITH
    Messages <- EngineMessages, Valid <- Valid \cap EngineMessages,
    HandledInTime <- TRUE

Q == INSTANCE Engine WITH
    Messages <- QueueMessages, Valid <- Valid \cap QueueMessages,
    HandledInTime <- TRUE,
    sqs <- qsqs, receives <- qreceives, faults <- qfaults, cpc <- qcpc,
    batch <- qbatch, msgChan <- qmsgChan, errChan <- qerrChan,
    finishChan <- qfinishChan, rpc <- qrpc, cur <- qcur, sem <- qsem,
    wg <- qwg, hpc <- qhpc, result <- qresult, outbound <- qoutbound,
    closer <- qcloser

engineVars == <<sqs, receives, faults, cpc, batch, msgChan, errChan, finishChan,
                rpc, cur, sem, wg, hpc, result, outbound, closer>>
queueVars == <<qsqs, qreceives, qfaults, qcpc, qbatch, qmsgChan, qerrChan,
               qfinishChan, qrpc, qcur, qsem, qwg, qhpc, qresult, qoutbound,
               qcloser>>
partVars == <<engineVars, queueVars>>
mainVars == <<env, mpc, sigC, server, requests, down, sctx, exit>>
vars == <<partVars, ctxDone, mainVars>>

-----------------------------------------------------------------------------
(* Mutants: the program with one plausible mistake each.                   *)

(* The engine is started as soon as it is built.                           *)
RunningEarly == mpc \in {"queue", "health", "select", "shutdown"}

(* The goroutine does not wait for Close before it ends the wait of main.  *)
CloseNotAwaited ==
    /\ mpc = "shutdown"
    /\ down = "close"
    /\ E!CloseBegins
    /\ down' = "cancel"
    /\ UNCHANGED <<queueVars, env, mpc, sigC, server, requests, sctx, exit>>

(* shutdownContext without a deadline.                                     *)
NoDeadline ==
    /\ mpc = "shutdown"
    /\ sctx = "expired"
    /\ UNCHANGED vars

-----------------------------------------------------------------------------
(* Building the parts.                                                     *)

EngineSettings == {"CONSUMER_QUEUE", "CONSUMER_QUEUE_URL", "PRODUCER_QUEUE",
                   "AWS_REGION", "VERIFICATION_KEY"}
QueueSettings == {"CONSUMER_QUEUE_NEW", "CONSUMER_QUEUE_URL_NEW",
                  "PRODUCER_QUEUE", "AWS_REGION", "VERIFICATION_KEY"}
HandlerSettings == {"PRIVATE_KEY"}

(* What each step of main needs of the configuration, and the next step.   *)
Needs == [config |-> {}, clients |-> {}, handlers |-> HandlerSettings,
          engine |-> EngineSettings, queue |-> QueueSettings, health |-> {}]
After == [config |-> "clients", clients |-> "handlers", handlers |-> "engine",
          engine |-> "queue", queue |-> "health", health |-> "select"]

Building == mpc \in DOMAIN Needs
Running == mpc \in {"select", "shutdown"}

TypeOK ==
    /\ E!TypeOK /\ Q!TypeOK
    /\ env \subseteq EngineSettings \cup QueueSettings \cup HandlerSettings
    /\ mpc \in DOMAIN Needs \cup {"select", "shutdown", "exited"}
    /\ sigC \in BOOLEAN
    /\ server \in {"none", "serving", "closed"}
    /\ requests \in 0 .. MaxRequests
    /\ down \in {"none", "server", "close", "closing", "cancel", "done"}
    /\ sctx \in {"alive", "cancelled", "expired"}
    /\ exit \in {"none", "0", "1"}

Init ==
    /\ E!Init /\ Q!Init
    /\ env \in SUBSET (EngineSettings \cup QueueSettings \cup HandlerSettings)
    /\ mpc = "config"
    /\ sigC = FALSE
    /\ server = "none"
    /\ requests = 0
    /\ down = "none"
    /\ sctx = "alive"
    /\ exit = "none"

Exit(code) ==
    /\ mpc' = "exited"
    /\ exit' = code

(* A step succeeds; after the last one main starts engine, queue and HTTP  *)
(* server, a goroutine each.                                               *)
Build ==
    /\ Building
    /\ Needs[mpc] \subseteq env
    /\ mpc' = After[mpc]
    /\ server' = IF mpc = "health" THEN "serving" ELSE server
    /\ UNCHANGED <<partVars, ctxDone, env, sigC, requests, down, sctx, exit>>

(* A step fails, for want of a setting or for another reason.              *)
BuildFails ==
    /\ Building
    /\ Exit("1")
    /\ UNCHANGED <<partVars, ctxDone, env, sigC, server, requests, down, sctx>>

-----------------------------------------------------------------------------
(* The engine and the queue, each in its goroutines.  Of the disturbances  *)
(* that bound a behaviour one is kept for the cancellation.                *)

EngineStep ==
    /\ Running
    /\ \/ E!Consume \/ E!ConsumerStops
       \/ E!RunError \/ E!RunMessage \/ E!RunDone
       \/ \E d \in E!Deliveries : E!StartHandler(d) \/ E!HandlerStep(d)
       \/ \E m \in EngineMessages : E!VisibilityTimeout(m)
    /\ ctxDone \/ faults' < MaxFaults
    /\ UNCHANGED <<queueVars, mainVars>>

(* Queue.Start: the consumer and the run loop.                             *)
QueueConsumes == Q!Consume \/ Q!ConsumerStops
QueueRuns == Q!RunError \/ Q!RunMessage \/ Q!RunDone

(* Queue.handle with postHandle, reply, delete and verifyMessage.          *)
QueueHandles == \E d \in Q!Deliveries : Q!StartHandler(d) \/ Q!HandlerStep(d)

QueueStep ==
    /\ Running
    /\ \/ QueueConsumes \/ QueueRuns \/ QueueHandles
       \/ \E m \in QueueMessages : Q!VisibilityTimeout(m)
    /\ ctxDone \/ qfaults' < MaxFaults
    /\ UNCHANGED <<engineVars, mainVars>>

-----------------------------------------------------------------------------
(* The HTTP server, signals and cancel.                                    *)

RequestBegins ==
    /\ Running
    /\ server = "serving"
    /\ requests < MaxRequests
    /\ requests' = requests + 1
    /\ UNCHANGED <<partVars, ctxDone, env, mpc, sigC, server, down, sctx, exit>>

RequestEnds ==
    /\ Running
    /\ requests > 0
    /\ requests' = requests - 1
    /\ UNCHANGED <<partVars, ctxDone, env, mpc, sigC, server, down, sctx, exit>>

(* signal.Notify; a signal that main no longer reads changes nothing.      *)
Signal ==
    /\ mpc = "select"
    /\ ~sigC
    /\ sigC' = TRUE
    /\ UNCHANGED <<partVars, ctxDone, env, mpc, server, requests, down, sctx, exit>>

(* cancel(), which does nothing the second time.                           *)
CancelContext ==
    \/ E!Cancel /\ Q!Cancel
    \/ ctxDone /\ UNCHANGED <<partVars, ctxDone>>

(* ListenAndServe returns an error.                                        *)
ServerFails ==
    /\ Running
    /\ server = "serving"
    /\ server' = "closed"
    /\ CancelContext
    /\ UNCHANGED <<env, mpc, sigC, requests, down, sctx, exit>>

(* The two branches of the select in main, and what follows it: the        *)
(* shutdown context and the goroutine that shuts down.                     *)
SelectSignal ==
    /\ mpc = "select"
    /\ sigC
    /\ CancelContext
    /\ sigC' = FALSE
    /\ mpc' = "shutdown"
    /\ down' = "server"
    /\ UNCHANGED <<env, server, requests, sctx, exit>>

SelectDone ==
    /\ mpc = "select"
    /\ ctxDone
    /\ mpc' = "shutdown"
    /\ down' = "server"
    /\ UNCHANGED <<partVars, ctxDone, env, sigC, server, requests, sctx, exit>>

-----------------------------------------------------------------------------
(* The goroutine that shuts down.                                          *)

(* httpServer.Shutdown(ctx): the listener is closed; requests still being  *)
(* served are waited for as long as ctx lives, and ctx is cancelled.       *)
ShutdownServer ==
    /\ mpc = "shutdown"
    /\ down = "server"
    /\ requests = 0 \/ ctxDone
    /\ server' = "closed"
    /\ down' = "close"
    /\ UNCHANGED <<partVars, ctxDone, env, mpc, sigC, requests, sctx, exit>>

(* e.Close(); nobody calls q.Close().                                      *)
CloseEngine ==
    /\ mpc = "shutdown"
    /\ \/ down = "close" /\ E!CloseBegins /\ down' = "closing"
       \/ down = "closing" /\ E!CloseReturns /\ down' = "cancel"
    /\ UNCHANGED <<queueVars, env, mpc, sigC, server, requests, sctx, exit>>

(* shutdownCtxCancel(): the first to end a context decides its Err.        *)
CancelShutdown ==
    /\ mpc = "shutdown"
    /\ down = "cancel"
    /\ down' = "done"
    /\ sctx' = IF sctx = "alive" THEN "cancelled" ELSE sctx
    /\ UNCHANGED <<partVars, ctxDone, env, mpc, sigC, server, requests, exit>>

Deadline ==
    /\ mpc = "shutdown"
    /\ sctx = "alive"
    /\ sctx' = "expired"
    /\ UNCHANGED <<partVars, ctxDone, env, mpc, sigC, server, requests, down, exit>>

(* <-shutdownContext.Done(), and os.Exit.                                  *)
MainExits ==
    /\ mpc = "shutdown"
    /\ sctx # "alive"
    /\ Exit(IF sctx = "expired" THEN "1" ELSE "0")
    /\ UNCHANGED <<partVars, ctxDone, env, sigC, server, requests, down, sctx>>

Exited ==
    /\ mpc = "exited"
    /\ UNCHANGED vars

MainStep ==
    \/ Build \/ BuildFails
    \/ SelectSignal \/ SelectDone
    \/ MainExits

Next ==
    \/ MainStep
    \/ EngineStep \/ QueueStep
    \/ RequestBegins \/ RequestEnds
    \/ Signal \/ ServerFails
    \/ ShutdownServer \/ CloseEngine \/ CancelShutdown
    \/ Deadline
    \/ Exited

Spec == Init /\ [][Next]_vars

(* main goes on whenever it can; time passes.  Nothing is asked of the     *)
(* engine, the queue, the server, or the goroutine that shuts down.        *)
FairSpec == Spec /\ WF_vars(MainStep) /\ WF_vars(Deadline)

-----------------------------------------------------------------------------
(* Properties.                                                             *)

(* Exit code 0 is for a shutdown in which the engine's Close has returned: *)
(* its consumer has stopped, and what it had started has ended.            *)
GracefulMeansEngineClosed == exit = "0" => closer = "closed" /\ cpc = "stopped"

(* Whatever hangs - Close on a blocked consumer, a handler, a request - a  *)
(* signal or a failing server ends the process.                            *)
SignalEndsProcess == (sigC \/ ctxDone) ~> mpc = "exited"

(* A start that fails has taken no message from either queue: nothing is   *)
(* received that nobody will handle until its visibility timeout runs out. *)
FailedStartTakesNothing ==
    exit # "none" /\ server = "none" =>
        /\ \A m \in EngineMessages : sqs[m] = "visible"
        /\ \A m \in QueueMessages : qsqs[m] = "visible"

(* However a process ends - main closes the engine but not the queue, and  *)
(* its deadline may cut off both - no message of either has then been      *)
(* removed that no handler came to a result about: what os.Exit cuts off   *)
(* is still in its queue.                                                  *)
NothingLostAtExit ==
    exit # "none" => E!RemovedOnlyIfHandled /\ Q!RemovedOnlyIfHandled
=============================================================================
