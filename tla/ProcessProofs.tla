---------------------------- MODULE ProcessProofs ----------------------------
(***************************************************************************)
(* Proofs about module Process, for every value of the constants: main     *)
(* starts engine and queue only when all is built and ends them in order,  *)
(* and what is proved of a step of Engine is true of both of them.         *)
(***************************************************************************)
EXTENDS Process, TLAPS

USE MessagesFinite, BoundsAssumption, LimitsAssumption

(* No step of a part's own changes the context the parts share.            *)
LEMMA EngineKeepsContext ==
  ASSUME EngineStep
  PROVE  E!Next /\ ctxDone' = ctxDone /\ UNCHANGED queueVars
<1>1. CASE E!Consume \/ E!ConsumerStops \/ E!RunError \/ E!RunMessage \/ E!RunDone
  BY <1>1, EngineStep DEF EngineStep, E!Next, E!Consume, E!ConsumerStops, E!RunError,
     E!RunMessage, E!RunDone, E!engineVars
<1>2. CASE \E d \in E!Deliveries : E!StartHandler(d) \/ E!HandlerStep(d)
  <2>1. PICK d \in E!Deliveries : E!StartHandler(d) \/ E!HandlerStep(d)
    BY <1>2
  <2>2. ctxDone' = ctxDone
    BY <2>1 DEF E!StartHandler, E!HandlerStep, E!Verify, E!HandlerReturns,
       E!ReplySucceeds, E!ReplyFails, E!RetryReply, E!AbandonReply, E!DeleteSucceeds,
       E!DeleteFails, E!RetryDelete, E!AbandonDelete, E!LeaveWaitGroup,
       E!LeaveSemaphore
  <2>3. QED
    BY <2>1, <2>2, EngineStep DEF EngineStep, E!Next
<1>3. CASE \E m \in EngineMessages : E!VisibilityTimeout(m)
  BY <1>3, EngineStep DEF EngineStep, E!Next, E!VisibilityTimeout, E!engineVars
<1>4. QED
  BY <1>1, <1>2, <1>3 DEF EngineStep

LEMMA QueueKeepsContext ==
  ASSUME QueueStep
  PROVE  Q!Next /\ ctxDone' = ctxDone /\ UNCHANGED engineVars
<1>1. CASE Q!Consume \/ Q!ConsumerStops \/ Q!RunError \/ Q!RunMessage \/ Q!RunDone
  BY <1>1, QueueStep DEF QueueStep, Q!Next, Q!Consume, Q!ConsumerStops, Q!RunError,
     Q!RunMessage, Q!RunDone, Q!engineVars
<1>2. CASE \E d \in Q!Deliveries : Q!StartHandler(d) \/ Q!HandlerStep(d)
  <2>1. PICK d \in Q!Deliveries : Q!StartHandler(d) \/ Q!HandlerStep(d)
    BY <1>2
  <2>2. ctxDone' = ctxDone
    BY <2>1 DEF Q!StartHandler, Q!HandlerStep, Q!Verify, Q!HandlerReturns,
       Q!ReplySucceeds, Q!ReplyFails, Q!RetryReply, Q!AbandonReply, Q!DeleteSucceeds,
       Q!DeleteFails, Q!RetryDelete, Q!AbandonDelete, Q!LeaveWaitGroup,
       Q!LeaveSemaphore
  <2>3. QED
    BY <2>1, <2>2, QueueStep DEF QueueStep, Q!Next
<1>3. CASE \E m \in QueueMessages : Q!VisibilityTimeout(m)
  BY <1>3, QueueStep DEF QueueStep, Q!Next, Q!VisibilityTimeout, Q!engineVars
<1>4. QED
  BY <1>1, <1>2, <1>3 DEF QueueStep, QueueConsumes, QueueRuns, QueueHandles

(* What main does to the parts: nothing, cancel both, or close the engine. *)
LEMMA MainOnParts ==
  ASSUME \/ MainStep \/ RequestBegins \/ RequestEnds \/ Signal \/ ServerFails
         \/ ShutdownServer \/ CloseEngine \/ CancelShutdown \/ Deadline \/ Exited
  PROVE  \/ UNCHANGED <<partVars, ctxDone>>
         \/ E!Cancel /\ Q!Cancel
         \/ /\ E!CloseBegins \/ E!CloseReturns
            /\ UNCHANGED <<queueVars, ctxDone>>
<1>1. CASE MainStep
  BY <1>1 DEF MainStep, Build, BuildFails, SelectSignal, SelectDone, MainExits,
     CancelContext
<1>2. CASE CloseEngine
  BY <1>2 DEF CloseEngine, E!CloseBegins, E!CloseReturns
<1>3. CASE \/ RequestBegins \/ RequestEnds \/ Signal \/ ServerFails
           \/ ShutdownServer \/ CancelShutdown \/ Deadline \/ Exited
  BY <1>3 DEF RequestBegins, RequestEnds, Signal, ServerFails, CancelContext,
     ShutdownServer, CancelShutdown, Deadline, Exited, vars
<1>4. QED
  BY <1>1, <1>2, <1>3

(* Every step of the process is a step of each part, or leaves it alone.   *)
LEMMA PartsStep ==
  ASSUME [Next]_vars
  PROVE  [E!Next]_(E!vars) /\ [Q!Next]_(Q!vars)
<1>1. CASE EngineStep
  BY <1>1, EngineKeepsContext DEF queueVars, Q!vars
<1>2. CASE QueueStep
  BY <1>2, QueueKeepsContext DEF engineVars, E!vars
<1>3. CASE UNCHANGED <<partVars, ctxDone>>
  BY <1>3 DEF partVars, engineVars, queueVars, E!vars, Q!vars
<1>4. CASE E!Cancel /\ Q!Cancel
  BY <1>4 DEF E!Next, Q!Next
<1>5. CASE /\ E!CloseBegins \/ E!CloseReturns
           /\ UNCHANGED <<queueVars, ctxDone>>
  BY <1>5 DEF E!Next, queueVars, Q!vars
<1>6. CASE UNCHANGED vars
  BY <1>3, <1>6 DEF vars
<1>7. QED
  BY <1>1, <1>2, <1>3, <1>4, <1>5, <1>6, MainOnParts DEF Next

-----------------------------------------------------------------------------
(* What is proved of Engine, used here.  EP and QP are E and Q with the    *)
(* proofs about Engine: they define everything as E and Q do.              *)

EP == INSTANCE MessageProofs WITH
    Messages <- EngineMessages, Valid <- Valid \cap EngineMessages,
    HandledInTime <- TRUE

QP == INSTANCE MessageProofs WITH
    Messages <- QueueMessages, Valid <- Valid \cap QueueMessages,
    HandledInTime <- TRUE,
    sqs <- qsqs, receives <- qreceives, faults <- qfaults, cpc <- qcpc,
    batch <- qbatch, msgChan <- qmsgChan, errChan <- qerrChan,
    finishChan <- qfinishChan, rpc <- qrpc, cur <- qcur, sem <- qsem,
    wg <- qwg, hpc <- qhpc, result <- qresult, outbound <- qoutbound,
    closer <- qcloser

LEMMA EngineFinite == EP!IsFiniteSet(EngineMessages)
  BY DEF EP!IsFiniteSet, IsFiniteSet

LEMMA EngineNext == E!Next <=> EP!Next
<1>1. E!Deliveries = EP!Deliveries
  BY DEF E!Deliveries, EP!Deliveries, E!Receipts, EP!Receipts
<1>2. E!Consume <=> EP!Consume
  <2>1. ASSUME NEW S PROVE E!Cardinality(S) = EP!Cardinality(S)
    BY DEF E!Cardinality, EP!Cardinality
  <2>2. QED
    BY <2>1 DEF E!consumerVars, EP!consumerVars, E!queueVars, EP!queueVars, E!ssqsVars,
       EP!ssqsVars, E!engineVars, EP!engineVars, E!Consume, EP!Consume, E!ConsumerStep,
       EP!ConsumerStep, E!Poll, EP!Poll, E!Receive, EP!Receive, E!ReceiveSome,
       EP!ReceiveSome, E!ReceiveError, EP!ReceiveError, E!SendError, EP!SendError,
       E!SendMessage, EP!SendMessage, E!Visible, EP!Visible
<1>3. /\ E!ConsumerStops <=> EP!ConsumerStops
      /\ E!RunError <=> EP!RunError
      /\ E!RunMessage <=> EP!RunMessage
      /\ E!RunDone <=> EP!RunDone
      /\ E!Cancel <=> EP!Cancel
      /\ E!CloseBegins <=> EP!CloseBegins
      /\ E!CloseReturns <=> EP!CloseReturns
      /\ E!Restart <=> EP!Restart
  BY DEF E!consumerVars, EP!consumerVars, E!queueVars, EP!queueVars, E!ssqsVars,
     EP!ssqsVars, E!engineVars, EP!engineVars, E!ConsumerStops, EP!ConsumerStops,
     E!Finish, EP!Finish, E!RunError, EP!RunError, E!RunMessage, EP!RunMessage,
     E!RunDone, EP!RunDone, E!Selecting, EP!Selecting, E!Cancel, EP!Cancel, E!Disturb,
     EP!Disturb, E!CloseBegins, EP!CloseBegins, E!Close, EP!Close, E!CloseReturns,
     EP!CloseReturns, E!Restart, EP!Restart, E!ConsumerReset, EP!ConsumerReset,
     E!Deliveries, EP!Deliveries, E!Receipts, EP!Receipts
<1>4. ASSUME NEW d PROVE E!StartHandler(d) <=> EP!StartHandler(d)
  BY DEF E!consumerVars, EP!consumerVars, E!queueVars, EP!queueVars, E!ssqsVars,
     EP!ssqsVars, E!engineVars, EP!engineVars, E!StartHandler, EP!StartHandler, E!GoTo,
     EP!GoTo
<1>5. ASSUME NEW d PROVE E!HandlerStep(d) <=> EP!HandlerStep(d)
  BY DEF E!consumerVars, EP!consumerVars, E!queueVars, EP!queueVars, E!ssqsVars,
     EP!ssqsVars, E!engineVars, EP!engineVars, E!HandlerStep, EP!HandlerStep, E!At,
     EP!At, E!GoTo, EP!GoTo, E!Accepted, EP!Accepted, E!MayRetry, EP!MayRetry, E!Newest,
     EP!Newest, E!RemoveMessage, EP!RemoveMessage, E!Disturb, EP!Disturb, E!Verify,
     EP!Verify, E!HandlerReturns, EP!HandlerReturns, E!ReplySucceeds, EP!ReplySucceeds,
     E!ReplyFails, EP!ReplyFails, E!RetryReply, EP!RetryReply, E!AbandonReply,
     EP!AbandonReply, E!DeleteSucceeds, EP!DeleteSucceeds, E!DeleteFails,
     EP!DeleteFails, E!RetryDelete, EP!RetryDelete, E!AbandonDelete, EP!AbandonDelete,
     E!LeaveWaitGroup, EP!LeaveWaitGroup, E!LeaveSemaphore, EP!LeaveSemaphore
<1>6. ASSUME NEW m PROVE E!VisibilityTimeout(m) <=> EP!VisibilityTimeout(m)
  BY DEF E!consumerVars, EP!consumerVars, E!queueVars, EP!queueVars, E!ssqsVars,
     EP!ssqsVars, E!engineVars, EP!engineVars, E!VisibilityTimeout,
     EP!VisibilityTimeout, E!BecomeVisible, EP!BecomeVisible, E!Held, EP!Held, E!Newest,
     EP!Newest, E!Disturb, EP!Disturb, E!In, EP!In, E!Working, EP!Working, E!Deliveries,
     EP!Deliveries, E!Receipts, EP!Receipts
<1>7. QED
  BY <1>1, <1>2, <1>3, <1>4, <1>5, <1>6 DEF E!Next, EP!Next

LEMMA QueueFinite == QP!IsFiniteSet(QueueMessages)
  BY DEF QP!IsFiniteSet, IsFiniteSet

LEMMA QueueNext == Q!Next <=> QP!Next
<1>1. Q!Deliveries = QP!Deliveries
  BY DEF Q!Deliveries, QP!Deliveries, Q!Receipts, QP!Receipts
<1>2. Q!Consume <=> QP!Consume
  <2>1. ASSUME NEW S PROVE Q!Cardinality(S) = QP!Cardinality(S)
    BY DEF Q!Cardinality, QP!Cardinality
  <2>2. QED
    BY <2>1 DEF Q!consumerVars, QP!consumerVars, Q!queueVars, QP!queueVars, Q!ssqsVars,
       QP!ssqsVars, Q!engineVars, QP!engineVars, Q!Consume, QP!Consume, Q!ConsumerStep,
       QP!ConsumerStep, Q!Poll, QP!Poll, Q!Receive, QP!Receive, Q!ReceiveSome,
       QP!ReceiveSome, Q!ReceiveError, QP!ReceiveError, Q!SendError, QP!SendError,
       Q!SendMessage, QP!SendMessage, Q!Visible, QP!Visible
<1>3. /\ Q!ConsumerStops <=> QP!ConsumerStops
      /\ Q!RunError <=> QP!RunError
      /\ Q!RunMessage <=> QP!RunMessage
      /\ Q!RunDone <=> QP!RunDone
      /\ Q!Cancel <=> QP!Cancel
      /\ Q!CloseBegins <=> QP!CloseBegins
      /\ Q!CloseReturns <=> QP!CloseReturns
      /\ Q!Restart <=> QP!Restart
  BY DEF Q!consumerVars, QP!consumerVars, Q!queueVars, QP!queueVars, Q!ssqsVars,
     QP!ssqsVars, Q!engineVars, QP!engineVars, Q!ConsumerStops, QP!ConsumerStops,
     Q!Finish, QP!Finish, Q!RunError, QP!RunError, Q!RunMessage, QP!RunMessage,
     Q!RunDone, QP!RunDone, Q!Selecting, QP!Selecting, Q!Cancel, QP!Cancel, Q!Disturb,
     QP!Disturb, Q!CloseBegins, QP!CloseBegins, Q!Close, QP!Close, Q!CloseReturns,
     QP!CloseReturns, Q!Restart, QP!Restart, Q!ConsumerReset, QP!ConsumerReset,
     Q!Deliveries, QP!Deliveries, Q!Receipts, QP!Receipts
<1>4. ASSUME NEW d PROVE Q!StartHandler(d) <=> QP!StartHandler(d)
  BY DEF Q!consumerVars, QP!consumerVars, Q!queueVars, QP!queueVars, Q!ssqsVars,
     QP!ssqsVars, Q!engineVars, QP!engineVars, Q!StartHandler, QP!StartHandler, Q!GoTo,
     QP!GoTo
<1>5. ASSUME NEW d PROVE Q!HandlerStep(d) <=> QP!HandlerStep(d)
  BY DEF Q!consumerVars, QP!consumerVars, Q!queueVars, QP!queueVars, Q!ssqsVars,
     QP!ssqsVars, Q!engineVars, QP!engineVars, Q!HandlerStep, QP!HandlerStep, Q!At,
     QP!At, Q!GoTo, QP!GoTo, Q!Accepted, QP!Accepted, Q!MayRetry, QP!MayRetry, Q!Newest,
     QP!Newest, Q!RemoveMessage, QP!RemoveMessage, Q!Disturb, QP!Disturb, Q!Verify,
     QP!Verify, Q!HandlerReturns, QP!HandlerReturns, Q!ReplySucceeds, QP!ReplySucceeds,
     Q!ReplyFails, QP!ReplyFails, Q!RetryReply, QP!RetryReply, Q!AbandonReply,
     QP!AbandonReply, Q!DeleteSucceeds, QP!DeleteSucceeds, Q!DeleteFails,
     QP!DeleteFails, Q!RetryDelete, QP!RetryDelete, Q!AbandonDelete, QP!AbandonDelete,
     Q!LeaveWaitGroup, QP!LeaveWaitGroup, Q!LeaveSemaphore, QP!LeaveSemaphore
<1>6. ASSUME NEW m PROVE Q!VisibilityTimeout(m) <=> QP!VisibilityTimeout(m)
  BY DEF Q!consumerVars, QP!consumerVars, Q!queueVars, QP!queueVars, Q!ssqsVars,
     QP!ssqsVars, Q!engineVars, QP!engineVars, Q!VisibilityTimeout,
     QP!VisibilityTimeout, Q!BecomeVisible, QP!BecomeVisible, Q!Held, QP!Held, Q!Newest,
     QP!Newest, Q!Disturb, QP!Disturb, Q!In, QP!In, Q!Working, QP!Working, Q!Deliveries,
     QP!Deliveries, Q!Receipts, QP!Receipts
<1>7. QED
  BY <1>1, <1>2, <1>3, <1>4, <1>5, <1>6 DEF Q!Next, QP!Next

(* The inductive invariant of each part.                                   *)
EngineInv == EP!IInv /\ EP!ResultBeforeReply /\ EP!RemovedOnlyIfHandled
QueueInv == QP!IInv /\ QP!ResultBeforeReply /\ QP!RemovedOnlyIfHandled

LEMMA EngineInvInit == E!Init => EngineInv
<1>1. E!Init => EP!Init
  BY DEF E!Init, EP!Init, E!SsqsInit, EP!SsqsInit, E!ConsumerInit, EP!ConsumerInit,
     E!Deliveries, EP!Deliveries, E!Receipts, EP!Receipts
<1>2. EP!Init => EP!IInv
  BY EngineFinite, EP!InitIInv
<1>3. EP!Init => EP!ResultBeforeReply /\ EP!RemovedOnlyIfHandled
  BY DEF EP!Init, EP!SsqsInit, EP!ResultBeforeReply, EP!RemovedOnlyIfHandled
<1>4. QED
  BY <1>1, <1>2, <1>3 DEF EngineInv

LEMMA EngineInvStep == EngineInv /\ [E!Next]_(E!vars) => EngineInv'
<1> SUFFICES ASSUME EngineInv, [E!Next]_(E!vars) PROVE EngineInv'
  OBVIOUS
<1>1. [EP!Next]_(EP!vars)
  BY EngineNext DEF E!vars, EP!vars
<1>2. EP!IInv'
  BY <1>1, EngineFinite, EP!TypeStep, EP!CountersStep, EP!TracedStep
     DEF EngineInv, EP!IInv, EP!Traced
<1>3. EP!ResultBeforeReply' /\ EP!RemovedOnlyIfHandled'
  BY <1>1, EngineFinite, EP!RemovedStep DEF EngineInv
<1>4. QED
  BY <1>2, <1>3 DEF EngineInv

LEMMA QueueInvInit == Q!Init => QueueInv
<1>1. Q!Init => QP!Init
  BY DEF Q!Init, QP!Init, Q!SsqsInit, QP!SsqsInit, Q!ConsumerInit, QP!ConsumerInit,
     Q!Deliveries, QP!Deliveries, Q!Receipts, QP!Receipts
<1>2. QP!Init => QP!IInv
  BY QueueFinite, QP!InitIInv
<1>3. QP!Init => QP!ResultBeforeReply /\ QP!RemovedOnlyIfHandled
  BY DEF QP!Init, QP!SsqsInit, QP!ResultBeforeReply, QP!RemovedOnlyIfHandled
<1>4. QED
  BY <1>1, <1>2, <1>3 DEF QueueInv

LEMMA QueueInvStep == QueueInv /\ [Q!Next]_(Q!vars) => QueueInv'
<1> SUFFICES ASSUME QueueInv, [Q!Next]_(Q!vars) PROVE QueueInv'
  OBVIOUS
<1>1. [QP!Next]_(QP!vars)
  BY QueueNext DEF Q!vars, QP!vars
<1>2. QP!IInv'
  BY <1>1, QueueFinite, QP!TypeStep, QP!CountersStep, QP!TracedStep
     DEF QueueInv, QP!IInv, QP!Traced
<1>3. QP!ResultBeforeReply' /\ QP!RemovedOnlyIfHandled'
  BY <1>1, QueueFinite, QP!RemovedStep DEF QueueInv
<1>4. QED
  BY <1>2, <1>3 DEF QueueInv

-----------------------------------------------------------------------------
(* The inductive invariant of the process.                                 *)

MainTypeOK ==
    /\ env \subseteq EngineSettings \cup QueueSettings \cup HandlerSettings
    /\ mpc \in DOMAIN Needs \cup {"select", "shutdown", "exited"}
    /\ sigC \in BOOLEAN
    /\ server \in {"none", "serving", "closed"}
    /\ requests \in 0 .. MaxRequests
    /\ down \in {"none", "server", "close", "closing", "cancel", "done"}
    /\ sctx \in {"alive", "cancelled", "expired"}
    /\ exit \in {"none", "0", "1"}

(* Only Close gets the goroutine that shuts down to its end, and only      *)
(* there does it cancel the shutdown context.                              *)
ClosedInOrder ==
    /\ down \in {"cancel", "done"} => closer = "closed"
    /\ sctx = "cancelled" => closer = "closed"
    /\ GracefulMeansEngineClosed

(* A consumer that has stopped stays stopped, and Close has waited for it. *)
ClosedIsStopped == closer = "closed" => cpc = "stopped"

(* The parts are not run before the server is.                             *)
NothingTakenYet ==
    server = "none" =>
        /\ mpc \notin {"select", "shutdown"}
        /\ \A m \in EngineMessages : sqs[m] = "visible"
        /\ \A m \in QueueMessages : qsqs[m] = "visible"

IInv ==
    /\ EngineInv /\ QueueInv
    /\ MainTypeOK
    /\ ClosedIsStopped
    /\ ClosedInOrder
    /\ NothingTakenYet

LEMMA InitIInv == Init => IInv
<1> SUFFICES ASSUME Init PROVE IInv
  OBVIOUS
<1> USE DEF Init
<1>1. EngineInv /\ QueueInv
  BY EngineInvInit, QueueInvInit
<1>2. MainTypeOK
  <2>1. "config" \in DOMAIN Needs /\ 0 \in 0 .. MaxRequests
    BY DEF Needs
  <2>2. QED
    BY <2>1 DEF MainTypeOK
<1>3. ClosedInOrder /\ ClosedIsStopped
  BY DEF ClosedInOrder, ClosedIsStopped, GracefulMeansEngineClosed, E!Init
<1>4. NothingTakenYet
  BY DEF NothingTakenYet, E!Init, E!SsqsInit, Q!Init, Q!SsqsInit
<1>5. QED
  BY <1>1, <1>2, <1>3, <1>4 DEF IInv

(* The engine's own steps leave Close alone and start no consumer.         *)
LEMMA EngineKeepsClosed ==
  ASSUME EngineStep
  PROVE  UNCHANGED <<closer, mainVars>> /\ (cpc = "stopped" => cpc' = "stopped")
<1> USE DEF E!ssqsVars, E!engineVars, E!consumerVars, E!queueVars
<1>1. CASE E!Consume
  BY <1>1, EngineStep DEF EngineStep, E!Consume, E!ConsumerStep, E!Poll, E!ReceiveSome,
     E!Receive, E!ReceiveError, E!SendError, E!SendMessage
<1>2. CASE E!ConsumerStops \/ E!RunError \/ E!RunMessage \/ E!RunDone
  BY <1>2, EngineStep DEF EngineStep, E!ConsumerStops, E!Finish, E!RunError,
     E!RunMessage, E!RunDone
<1>3. CASE \E d \in E!Deliveries : E!StartHandler(d) \/ E!HandlerStep(d)
  <2>1. PICK d \in E!Deliveries : E!StartHandler(d) \/ E!HandlerStep(d)
    BY <1>3
  <2>2. UNCHANGED <<closer, cpc>>
    BY <2>1 DEF E!StartHandler, E!HandlerStep, E!Verify, E!HandlerReturns,
       E!ReplySucceeds, E!ReplyFails, E!RetryReply, E!AbandonReply, E!DeleteSucceeds,
       E!DeleteFails, E!RetryDelete, E!AbandonDelete, E!LeaveWaitGroup,
       E!LeaveSemaphore
  <2>3. QED
    BY <2>2, EngineStep DEF EngineStep
<1>4. CASE \E m \in EngineMessages : E!VisibilityTimeout(m)
  BY <1>4, EngineStep DEF EngineStep, E!VisibilityTimeout
<1>5. QED
  BY <1>1, <1>2, <1>3, <1>4 DEF EngineStep

(* wg.Wait returns only when the consumer's goroutine has ended.           *)
LEMMA CloseReturnsStopped ==
  ASSUME EngineInv, E!CloseReturns
  PROVE  cpc' = "stopped"
<1>1. wg = 0 /\ cpc' = cpc
  BY DEF E!CloseReturns, E!ssqsVars
<1>2. /\ wg = EP!Cardinality(EP!In(EP!InWaitGroup)) + (IF cpc = "stopped" THEN 0 ELSE 1)
      /\ EP!Cardinality(EP!In(EP!InWaitGroup)) \in Nat
  BY EngineFinite, EP!InFinite DEF EngineInv, EP!IInv, EP!CountersMatchGoroutines
<1>3. QED
  BY <1>1, <1>2
-----------------------------------------------------------------------------
(* One step of the process keeps each part of IInv.                        *)

(* The stages of main before it waits in its select.                       *)
LEMMA Stages ==
  /\ DOMAIN Needs = {"config", "clients", "handlers", "engine", "queue", "health"}
  /\ \A s \in DOMAIN Needs : /\ After[s] \in DOMAIN Needs \cup {"select"}
                             /\ After[s] = "select" => s = "health"
<1>1. DOMAIN Needs = {"config", "clients", "handlers", "engine", "queue", "health"}
  BY DEF Needs
<1>2. /\ After["config"] = "clients" /\ After["clients"] = "handlers"
      /\ After["handlers"] = "engine" /\ After["engine"] = "queue"
      /\ After["queue"] = "health" /\ After["health"] = "select"
  BY DEF After
<1>3. QED
  BY <1>1, <1>2

LEMMA MainTypeStep == MainTypeOK /\ [Next]_vars => MainTypeOK'
<1> SUFFICES ASSUME MainTypeOK, [Next]_vars PROVE MainTypeOK'
  OBVIOUS
<1> USE DEF MainTypeOK
<1>1. CASE UNCHANGED mainVars
  BY <1>1 DEF mainVars
<1>2. CASE EngineStep \/ QueueStep \/ Exited \/ UNCHANGED vars
  BY <1>1, <1>2 DEF EngineStep, QueueStep, Exited, vars
<1>3. CASE Build
  BY <1>3, Stages DEF Build, Building
<1>4. CASE BuildFails \/ MainExits
  BY <1>4 DEF BuildFails, MainExits, Exit
<1>5. CASE SelectSignal \/ SelectDone \/ Signal \/ ServerFails
  BY <1>5 DEF SelectSignal, SelectDone, Signal, ServerFails
<1>6. CASE RequestBegins \/ RequestEnds
  <2>1. requests' \in 0 .. MaxRequests
    BY <1>6 DEF RequestBegins, RequestEnds
  <2>2. QED
    BY <1>6, <2>1 DEF RequestBegins, RequestEnds
<1>7. CASE ShutdownServer \/ CloseEngine \/ CancelShutdown \/ Deadline
  BY <1>7 DEF ShutdownServer, CloseEngine, CancelShutdown, Deadline
<1>8. QED
  BY <1>2, <1>3, <1>4, <1>5, <1>6, <1>7 DEF Next, MainStep

(* Once Close has returned it stays so, with the consumer stopped.         *)
LEMMA ClosedStays ==
  ASSUME EngineInv, ClosedIsStopped, [Next]_vars
  PROVE  ClosedIsStopped' /\ (closer = "closed" => closer' = "closed")
<1> USE DEF ClosedIsStopped
<1>1. CASE EngineStep
  BY <1>1, EngineKeepsClosed
<1>2. CASE QueueStep
  BY <1>2 DEF QueueStep, engineVars
<1>3. CASE UNCHANGED <<partVars, ctxDone>> \/ UNCHANGED vars
  BY <1>3 DEF partVars, engineVars, vars
<1>4. CASE E!Cancel /\ Q!Cancel
  BY <1>4 DEF E!Cancel, E!consumerVars
<1>5. CASE E!CloseBegins
  BY <1>5 DEF E!CloseBegins
<1>6. CASE E!CloseReturns
  BY <1>6, CloseReturnsStopped DEF E!CloseReturns
<1>7. QED
  BY <1>1, <1>2, <1>3, <1>4, <1>5, <1>6, MainOnParts DEF Next

(* The shutdown context is cancelled, and main exits with 0, only after it.*)
LEMMA OrderStep ==
  ASSUME EngineInv, MainTypeOK, ClosedIsStopped, ClosedInOrder, [Next]_vars
  PROVE  ClosedInOrder'
<1>0. ClosedIsStopped' /\ (closer = "closed" => closer' = "closed")
  BY ClosedStays
<1> USE DEF ClosedInOrder, GracefulMeansEngineClosed
<1>1. CASE UNCHANGED <<down, sctx, exit>>
  BY <1>0, <1>1 DEF ClosedIsStopped
<1>2. CASE EngineStep \/ QueueStep \/ Exited \/ UNCHANGED vars
  BY <1>1, <1>2 DEF EngineStep, QueueStep, Exited, mainVars, vars
<1>3. CASE Build \/ Signal \/ ServerFails \/ RequestBegins \/ RequestEnds
  BY <1>1, <1>3 DEF Build, Signal, ServerFails, RequestBegins, RequestEnds
<1>4. CASE BuildFails \/ SelectSignal \/ SelectDone \/ ShutdownServer \/ Deadline
  BY <1>0, <1>4 DEF BuildFails, Exit, SelectSignal, SelectDone, ShutdownServer,
     Deadline, ClosedIsStopped
<1>5. CASE CloseEngine
  BY <1>0, <1>5 DEF CloseEngine, E!CloseReturns, ClosedIsStopped
<1>6. CASE CancelShutdown
  BY <1>0, <1>6 DEF CancelShutdown, ClosedIsStopped
<1>7. CASE MainExits
  <2>1. exit' = "0" => sctx = "cancelled"
    BY <1>7 DEF MainExits, Exit, MainTypeOK
  <2>2. QED
    BY <1>0, <1>7, <2>1 DEF MainExits, ClosedIsStopped
<1>8. QED
  BY <1>2, <1>3, <1>4, <1>5, <1>6, <1>7 DEF Next, MainStep

(* Neither part takes a step before main has started the server.           *)
LEMMA NothingTakenStep ==
  ASSUME MainTypeOK, NothingTakenYet, [Next]_vars
  PROVE  NothingTakenYet'
<1> USE DEF NothingTakenYet
<1>1. CASE EngineStep \/ QueueStep
  BY <1>1 DEF EngineStep, QueueStep, Running, mainVars
<1>2. CASE Build
  BY <1>2, Stages DEF Build, Building, partVars, engineVars, queueVars
<1>3. CASE BuildFails
  BY <1>3 DEF BuildFails, Exit, partVars, engineVars, queueVars
<1>4. CASE SelectSignal \/ SelectDone \/ MainExits
  BY <1>4 DEF SelectSignal, SelectDone, MainExits
<1>5. CASE RequestBegins \/ RequestEnds \/ Signal \/ ServerFails
  BY <1>5 DEF RequestBegins, RequestEnds, Signal, ServerFails, Running
<1>6. CASE ShutdownServer \/ CloseEngine \/ CancelShutdown \/ Deadline
  BY <1>6 DEF ShutdownServer, CloseEngine, CancelShutdown, Deadline
<1>7. CASE Exited \/ UNCHANGED vars
  BY <1>7 DEF Exited, vars, partVars, engineVars, queueVars, mainVars
<1>8. QED
  BY <1>1, <1>2, <1>3, <1>4, <1>5, <1>6, <1>7 DEF Next, MainStep

LEMMA StepIInv == IInv /\ [Next]_vars => IInv'
<1> SUFFICES ASSUME IInv, [Next]_vars PROVE IInv'
  OBVIOUS
<1>1. EngineInv' /\ QueueInv'
  BY PartsStep, EngineInvStep, QueueInvStep DEF IInv
<1>2. MainTypeOK'
  BY MainTypeStep DEF IInv
<1>3. ClosedIsStopped' /\ ClosedInOrder'
  BY ClosedStays, OrderStep DEF IInv
<1>4. NothingTakenYet'
  BY NothingTakenStep DEF IInv
<1>5. QED
  BY <1>1, <1>2, <1>3, <1>4 DEF IInv

-----------------------------------------------------------------------------
(* The invariance theorems.                                                *)

(* IInv is an inductive invariant of the process.                          *)
THEOREM Inductive == Spec => []IInv
<1>1. Init => IInv
  BY InitIInv
<1>2. IInv /\ [Next]_vars => IInv'
  BY StepIInv
<1>3. QED
  BY <1>1, <1>2, PTL DEF Spec

(* The variables of main and of both parts keep their types, inside the    *)
(* process as it is run.                                                   *)
THEOREM ProcessTypeCorrect == Spec => []TypeOK
<1>1. ASSUME IInv PROVE TypeOK
  <2>1. E!TypeOK
    BY <1>1 DEF IInv, EngineInv, EP!IInv, EP!TypeOK, E!TypeOK, EP!SsqsTypeOK,
       E!SsqsTypeOK, EP!Deliveries, E!Deliveries, EP!Receipts, E!Receipts,
       EP!InSemaphore, E!InSemaphore, EP!InWaitGroup, E!InWaitGroup, EP!Working,
       E!Working
  <2>2. Q!TypeOK
    BY <1>1 DEF IInv, QueueInv, QP!IInv, QP!TypeOK, Q!TypeOK, QP!SsqsTypeOK,
       Q!SsqsTypeOK, QP!Deliveries, Q!Deliveries, QP!Receipts, Q!Receipts,
       QP!InSemaphore, Q!InSemaphore, QP!InWaitGroup, Q!InWaitGroup, QP!Working,
       Q!Working
  <2>3. QED
    BY <1>1, <2>1, <2>2 DEF IInv, MainTypeOK, TypeOK
<1>2. QED
  BY <1>1, Inductive, PTL

(* A process that exits with 0 has closed its engine: the consumer has     *)
(* stopped and Close has waited for what was started.                      *)
THEOREM GracefulExit == Spec => []GracefulMeansEngineClosed
<1>1. IInv => GracefulMeansEngineClosed
  BY DEF IInv, ClosedInOrder
<1>2. QED
  BY <1>1, Inductive, PTL

(* A start that fails has taken no message from either queue.              *)
THEOREM FailedStart == Spec => []FailedStartTakesNothing
<1>1. IInv => FailedStartTakesNothing
  BY DEF IInv, NothingTakenYet, FailedStartTakesNothing
<1>2. QED
  BY <1>1, Inductive, PTL

(* However the process ends, whatever it cut off, no message of either     *)
(* queue is gone that no handler came to a result about.                   *)
THEOREM NothingLost == Spec => []NothingLostAtExit
<1>1. IInv => NothingLostAtExit
  BY DEF IInv, EngineInv, QueueInv, NothingLostAtExit, EP!RemovedOnlyIfHandled,
     E!RemovedOnlyIfHandled, QP!RemovedOnlyIfHandled, Q!RemovedOnlyIfHandled,
     EP!Receipts, E!Receipts, QP!Receipts, Q!Receipts
<1>2. QED
  BY <1>1, Inductive, PTL
=============================================================================
