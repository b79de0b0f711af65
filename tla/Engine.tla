------------------------------- MODULE Engine -------------------------------
(***************************************************************************)
(* Package engine: the run loop takes deliveries from the consumer and     *)
(* starts, under a semaphore, one goroutine for each; the goroutine        *)
(* verifies the message, runs its handler, writes the result to the        *)
(* producer queue and deletes the message, retrying both.  Engine.Close    *)
(* stops the consumer and waits for the handlers; the process around it    *)
(* may be told to stop, may crash, and is started again.                   *)
(***************************************************************************)
EXTENDS Ssqs

CONSTANTS
    MaxConcurrentHandlers,  \* maxConcurrentHandlers
    Valid,                  \* messages whose body verifies and unmarshals
                            \* and whose Type has a registered handler
    HandledInTime           \* no visibility timeout runs out on a delivery
                            \* the program still works on

ASSUME MaxConcurrentHandlersAssumption == MaxConcurrentHandlers \in Nat \ {0}
ASSUME ValidAssumption == Valid \subseteq Messages
ASSUME HandledInTimeAssumption == HandledInTime \in BOOLEAN

VARIABLES
    ctxDone,   \* the context passed to Start is cancelled
    rpc,       \* the goroutine in Engine.run
    cur,       \* the delivery that run is in handle with, before it has a slot
    sem,       \* length of the channel Engine.semaphore
    wg,        \* counter of Engine.wg
    hpc,       \* the goroutine that handles each delivery
    result,    \* the error value that goroutine passed to postHandle
    outbound,  \* how often each delivery's response is on the producer queue
    closer     \* the goroutine in Engine.Close

engineVars == <<ctxDone, rpc, cur, sem, wg, hpc, result, outbound, closer>>
vars == <<sqs, receives, faults, cpc, batch, msgChan, errChan, finishChan,
          ctxDone, rpc, cur, sem, wg, hpc, result, outbound, closer>>

(* A handling goroutine is working, then in its deferred function: after   *)
(* "finish" it has left the wait group, after "release" the semaphore.     *)
Working == {"verify", "handle", "reply", "replyWait", "delete", "deleteWait"}
InWaitGroup == Working \cup {"finish"}
InSemaphore == InWaitGroup \cup {"release"}

In(states) == {d \in Deliveries : hpc[d] \in states}

(* The program has the delivery and has not finished with it.              *)
Held(d) == d \in batch \cup msgChan \cup cur \cup In(Working)

TypeOK ==
    /\ SsqsTypeOK
    /\ ctxDone \in BOOLEAN
    /\ rpc \in {"running", "returned"}
    /\ cur \subseteq Deliveries
    /\ sem \in Nat
    /\ wg \in Nat
    /\ hpc \in [Deliveries -> InSemaphore \cup {"none", "gone"}]
    /\ result \in [Deliveries -> {"none", "ok", "err"}]
    /\ outbound \in [Deliveries -> Nat]
    /\ closer \in {"idle", "waiting", "closed"}

(* New and Start: the consumer's goroutine is in the wait group.           *)
Init ==
    /\ SsqsInit
    /\ ctxDone = FALSE
    /\ rpc = "running"
    /\ cur = {}
    /\ sem = 0
    /\ wg = 1
    /\ closer = "idle"
    /\ hpc = [d \in Deliveries |-> "none"]
    /\ result = [d \in Deliveries |-> "none"]
    /\ outbound = [d \in Deliveries |-> 0]

(* The state of the goroutine that handles delivery d.                     *)
At(d, pc) == hpc[d] = pc
GoTo(d, pc) == hpc' = [hpc EXCEPT ![d] = pc]

-----------------------------------------------------------------------------
(* Mutants: the program with one plausible mistake each, which show that   *)
(* the properties below would notice it.  Next uses none of them.          *)

(* handle without wg.Add(1).                                               *)
StartHandlerUncounted(d) ==
    /\ d \in cur
    /\ sem < MaxConcurrentHandlers
    /\ sem' = sem + 1
    /\ GoTo(d, "verify")
    /\ cur' = {}
    /\ UNCHANGED <<ssqsVars, ctxDone, rpc, wg, result, outbound, closer>>

(* handle with a semaphore that never fills.                               *)
StartHandlerUnlimited(d) ==
    /\ d \in cur
    /\ sem' = sem + 1
    /\ wg' = wg + 1
    /\ GoTo(d, "verify")
    /\ cur' = {}
    /\ UNCHANGED <<ssqsVars, ctxDone, rpc, result, outbound, closer>>

(* A message that does not verify is deleted with no result.               *)
VerifyRemovesRejected(d) ==
    /\ At(d, "verify")
    /\ GoTo(d, IF d[1] \in Valid THEN "handle" ELSE "delete")
    /\ UNCHANGED <<ssqsVars, ctxDone, rpc, cur, sem, wg, result, outbound,
                   closer>>

(* A message that does not verify is deleted with no response.             *)
VerifySilencesRejected(d) ==
    /\ At(d, "verify")
    /\ IF d[1] \in Valid
          THEN GoTo(d, "handle") /\ UNCHANGED result
          ELSE GoTo(d, "delete") /\ result' = [result EXCEPT ![d] = "err"]
    /\ UNCHANGED <<ssqsVars, ctxDone, rpc, cur, sem, wg, outbound, closer>>

(* A handler whose context is cancelled is left, its message deleted.      *)
CancelledHandlerRemoves(d) ==
    /\ At(d, "handle")
    /\ IF ctxDone
          THEN GoTo(d, "delete") /\ UNCHANGED result
          ELSE GoTo(d, "reply") /\ result' = [result EXCEPT ![d] = "ok"]
    /\ UNCHANGED <<ssqsVars, ctxDone, rpc, cur, sem, wg, outbound, closer>>

(* postHandle ends when the response is written.                           *)
ReplySkipsDelete(d) ==
    /\ At(d, "reply")
    /\ ~ctxDone
    /\ outbound' = [outbound EXCEPT ![d] = @ + 1]
    /\ GoTo(d, "finish")
    /\ UNCHANGED <<ssqsVars, ctxDone, rpc, cur, sem, wg, result, closer>>

(* The response is written and taken for not written.                      *)
ReplyTakenForError(d) ==
    /\ At(d, "reply")
    /\ ~ctxDone
    /\ outbound' = [outbound EXCEPT ![d] = IF @ < 3 THEN @ + 1 ELSE @]
    /\ GoTo(d, "replyWait")
    /\ UNCHANGED <<ssqsVars, ctxDone, rpc, cur, sem, wg, result, closer>>

(* The retry of the delete does the whole of postHandle again.             *)
RetryPostHandle(d) ==
    /\ At(d, "deleteWait")
    /\ ~ctxDone
    /\ GoTo(d, "reply")
    /\ UNCHANGED <<ssqsVars, ctxDone, rpc, cur, sem, wg, result, outbound,
                   closer>>

(* The deferred function without wg.Done().                                *)
LeaveWaitGroupForgets(d) ==
    /\ At(d, "finish")
    /\ GoTo(d, "release")
    /\ UNCHANGED <<ssqsVars, ctxDone, rpc, cur, sem, wg, result, outbound,
                   closer>>

(* The deferred function without <-e.semaphore.                            *)
LeaveSemaphoreLeaks(d) ==
    /\ At(d, "release")
    /\ GoTo(d, "gone")
    /\ UNCHANGED <<ssqsVars, ctxDone, rpc, cur, sem, wg, result, outbound,
                   closer>>

-----------------------------------------------------------------------------
(* The consumer's goroutine, as Start runs it.                             *)

Consume == ConsumerStep /\ UNCHANGED engineVars

ConsumerStops ==
    /\ Finish
    /\ wg' = wg - 1
    /\ UNCHANGED <<ctxDone, rpc, cur, sem, hpc, result, outbound, closer>>

-----------------------------------------------------------------------------
(* The run loop.  Among the ready branches of its select Go takes any; with *)
(* none ready it sleeps and looks again.                                   *)

Selecting == rpc = "running" /\ cur = {}

RunError ==
    /\ Selecting
    /\ errChan = 1
    /\ errChan' = 0
    /\ UNCHANGED <<queueVars, faults, cpc, batch, msgChan, finishChan,
                   engineVars>>

RunMessage ==
    /\ Selecting
    /\ msgChan # {}
    /\ cur' = msgChan
    /\ msgChan' = {}
    /\ UNCHANGED <<queueVars, faults, cpc, batch, errChan, finishChan,
                   ctxDone, rpc, sem, wg, hpc, result, outbound, closer>>

RunDone ==
    /\ Selecting
    /\ ctxDone
    /\ rpc' = "returned"
    /\ UNCHANGED <<ssqsVars, ctxDone, cur, sem, wg, hpc, result, outbound,
                   closer>>

(* handle: the send on the semaphore blocks the run loop, and so its look  *)
(* at ctx.Done, until there is a slot.                                     *)
StartHandler(d) ==
    /\ d \in cur
    /\ sem < MaxConcurrentHandlers
    /\ sem' = sem + 1
    /\ wg' = wg + 1
    /\ GoTo(d, "verify")
    /\ cur' = {}
    /\ UNCHANGED <<ssqsVars, ctxDone, rpc, result, outbound, closer>>

-----------------------------------------------------------------------------
(* The goroutine that handles delivery d.                                  *)

(* verifyMessage finds a signature of a known key over the body, the body  *)
(* unmarshals and names a registered handler.                              *)
Accepted(d) == d[1] \in Valid

(* verifyMessage, json.Unmarshal and the look-up of the handler.           *)
Verify(d) ==
    /\ At(d, "verify")
    /\ \/ Accepted(d) /\ GoTo(d, "handle") /\ UNCHANGED result
       \/ /\ ~Accepted(d)
          /\ result' = [result EXCEPT ![d] = "err"]
          /\ GoTo(d, "reply")
    /\ UNCHANGED <<ssqsVars, ctxDone, rpc, cur, sem, wg, outbound, closer>>

HandlerReturns(d) ==
    /\ At(d, "handle")
    /\ \E r \in {"ok", "err"} : result' = [result EXCEPT ![d] = r]
    /\ GoTo(d, "reply")
    /\ UNCHANGED <<ssqsVars, ctxDone, rpc, cur, sem, wg, outbound, closer>>

(* A call in RetryNotify may succeed at any time the context allows.       *)
ReplySucceeds(d) ==
    /\ At(d, "reply")
    /\ ~ctxDone
    /\ outbound' = [outbound EXCEPT ![d] = @ + 1]
    /\ GoTo(d, "delete")
    /\ UNCHANGED <<ssqsVars, ctxDone, rpc, cur, sem, wg, result, closer>>

(* sendMessage returns an error: always so under a cancelled context, else *)
(* a disturbance.  A request that was under way may have had its effect.   *)
ReplyFails(d) ==
    /\ At(d, "reply")
    /\ IF ctxDone THEN UNCHANGED faults ELSE Disturb
    /\ \E written \in BOOLEAN :
         outbound' = IF written THEN [outbound EXCEPT ![d] = @ + 1]
                                ELSE outbound
    /\ GoTo(d, "replyWait")
    /\ UNCHANGED <<queueVars, consumerVars, ctxDone, rpc, cur, sem, wg,
                   result, closer>>

(* backoff.WithContext(BackoffStrategy(), ctx): there is no next attempt    *)
(* once the context is done, nor once MaxElapsedTime has passed, which may *)
(* be so after any failure, as one attempt takes any time.                 *)
MayRetry == ~ctxDone

(* RetryNotify goes on to the next attempt, or returns the error, which    *)
(* postHandle drops.                                                       *)
RetryReply(d) ==
    /\ At(d, "replyWait")
    /\ MayRetry
    /\ GoTo(d, "reply")
    /\ UNCHANGED <<ssqsVars, ctxDone, rpc, cur, sem, wg, result, outbound,
                   closer>>

AbandonReply(d) ==
    /\ At(d, "replyWait")
    /\ GoTo(d, "delete")
    /\ UNCHANGED <<ssqsVars, ctxDone, rpc, cur, sem, wg, result, outbound,
                   closer>>

(* DeleteMessage carries no context.  The newest receipt deletes for sure; *)
(* an older one may be accepted without effect.                            *)
DeleteSucceeds(d) ==
    /\ At(d, "delete")
    /\ \/ RemoveMessage(d[1])
       \/ d # Newest(d[1]) /\ UNCHANGED queueVars
    /\ GoTo(d, "finish")
    /\ UNCHANGED <<faults, consumerVars, ctxDone, rpc, cur, sem, wg, result,
                   outbound, closer>>

DeleteFails(d) ==
    /\ At(d, "delete")
    /\ Disturb
    /\ RemoveMessage(d[1]) \/ UNCHANGED queueVars
    /\ GoTo(d, "deleteWait")
    /\ UNCHANGED <<consumerVars, ctxDone, rpc, cur, sem, wg, result,
                   outbound, closer>>

RetryDelete(d) ==
    /\ At(d, "deleteWait")
    /\ MayRetry
    /\ GoTo(d, "delete")
    /\ UNCHANGED <<ssqsVars, ctxDone, rpc, cur, sem, wg, result, outbound,
                   closer>>

AbandonDelete(d) ==
    /\ At(d, "deleteWait")
    /\ GoTo(d, "finish")
    /\ UNCHANGED <<ssqsVars, ctxDone, rpc, cur, sem, wg, result, outbound,
                   closer>>

(* The deferred function: e.wg.Done(), then <-e.semaphore.                 *)
LeaveWaitGroup(d) ==
    /\ At(d, "finish")
    /\ wg' = wg - 1
    /\ GoTo(d, "release")
    /\ UNCHANGED <<ssqsVars, ctxDone, rpc, cur, sem, result, outbound, closer>>

LeaveSemaphore(d) ==
    /\ At(d, "release")
    /\ sem' = sem - 1
    /\ GoTo(d, "gone")
    /\ UNCHANGED <<ssqsVars, ctxDone, rpc, cur, wg, result, outbound, closer>>

HandlerStep(d) ==
    \/ Verify(d) \/ HandlerReturns(d)
    \/ ReplySucceeds(d) \/ ReplyFails(d) \/ RetryReply(d) \/ AbandonReply(d)
    \/ DeleteSucceeds(d) \/ DeleteFails(d) \/ RetryDelete(d)
    \/ AbandonDelete(d)
    \/ LeaveWaitGroup(d) \/ LeaveSemaphore(d)

-----------------------------------------------------------------------------
(* Close, and the process around the engine.                               *)

(* main calls cancel on SIGINT, SIGTERM or a failing HTTP server.          *)
Cancel ==
    /\ ~ctxDone
    /\ Disturb
    /\ ctxDone' = TRUE
    /\ UNCHANGED <<queueVars, consumerVars, rpc, cur, sem, wg, hpc, result,
                   outbound, closer>>

(* main calls Close after cancel.                                          *)
CloseBegins ==
    /\ closer = "idle"
    /\ ctxDone
    /\ Close
    /\ closer' = "waiting"
    /\ UNCHANGED <<ctxDone, rpc, cur, sem, wg, hpc, result, outbound>>

(* e.wg.Wait() returns.                                                    *)
CloseReturns ==
    /\ closer = "waiting"
    /\ wg = 0
    /\ closer' = "closed"
    /\ UNCHANGED <<ssqsVars, ctxDone, rpc, cur, sem, wg, hpc, result, outbound>>

(* The process ends, and is started again with nothing in memory: by main, *)
(* once the context is done (os.Exit, at the latest when the shutdown      *)
(* context expires), or by a crash, which is a disturbance.                *)
Restart ==
    /\ IF ctxDone THEN UNCHANGED faults ELSE Disturb
    /\ ConsumerReset
    /\ ctxDone' = FALSE
    /\ rpc' = "running"
    /\ cur' = {}
    /\ sem' = 0
    /\ wg' = 1
    /\ closer' = "idle"
    /\ hpc' = [d \in Deliveries |->
                  IF hpc[d] = "none" THEN "none" ELSE "gone"]
    /\ UNCHANGED <<queueVars, result, outbound>>

(* The visibility timeout of m runs out.  When the program still works on  *)
(* the newest delivery this is a disturbance, unless handling is in time.  *)
VisibilityTimeout(m) ==
    /\ BecomeVisible(m)
    /\ IF Held(Newest(m)) THEN ~HandledInTime /\ Disturb ELSE UNCHANGED faults
    /\ UNCHANGED <<consumerVars, engineVars>>

Next ==
    \/ Consume
    \/ ConsumerStops
    \/ RunError
    \/ RunMessage
    \/ RunDone
    \/ \E d \in Deliveries : StartHandler(d)
    \/ \E d \in Deliveries : HandlerStep(d)
    \/ Cancel
    \/ CloseBegins
    \/ CloseReturns
    \/ Restart
    \/ \E m \in Messages : VisibilityTimeout(m)

Spec == Init /\ [][Next]_vars

-----------------------------------------------------------------------------
(* Fairness.  Every goroutine that can go on does.  Two things need more:  *)
(* select takes ready branches at random, so that a branch ready again and *)
(* again is taken; and SQS hands out in the end what it is asked for again *)
(* and again.  Running out of visibility timeouts is time passing.         *)

Fairness ==
    /\ WF_vars(Consume)
    /\ WF_vars(ConsumerStops)
    /\ \A m \in Messages :
         SF_vars(\E B \in SUBSET Visible :
                    m \in B /\ Receive(B) /\ UNCHANGED engineVars)
    /\ SF_vars(RunError)
    /\ SF_vars(RunMessage)
    /\ SF_vars(RunDone)
    /\ WF_vars(\E d \in Deliveries : StartHandler(d))
    /\ \A d \in Deliveries : WF_vars(HandlerStep(d))
    /\ \A m \in Messages : WF_vars(~Held(Newest(m)) /\ VisibilityTimeout(m))
    /\ WF_vars(CloseBegins)
    /\ WF_vars(CloseReturns)

(* Close has returned, or never will.                                     *)
ShutdownSettled ==
    rpc = "returned" /\ (closer = "closed" \/ ConsumerBlocked)

(* Once the shutdown is settled main ends the process, and the platform    *)
(* that runs the deployer starts it again.  The deadline of the shutdown   *)
(* may end it sooner, and nothing below leans on that.                     *)
Supervision == WF_vars(ctxDone /\ ShutdownSettled /\ Restart)

FairSpec == Spec /\ Fairness /\ Supervision

-----------------------------------------------------------------------------
(* Safety.                                                                 *)

(* The semaphore and the wait group count the goroutines they stand for:   *)
(* Acquire, wg.Add, wg.Done and Release at four places of Start and handle *)
(* stay paired through every exit of the handling goroutine.               *)
CountersMatchGoroutines ==
    /\ sem = Cardinality(In(InSemaphore))
    /\ wg = Cardinality(In(InWaitGroup)) + (IF cpc = "stopped" THEN 0 ELSE 1)

(* Never more than maxConcurrentHandlers messages are worked on at once.   *)
HandlerLimit == Cardinality(In(Working)) <= MaxConcurrentHandlers

(* As long as every message is handled within its visibility timeout, the  *)
(* program has one delivery of it at a time, and that is the newest: no    *)
(* two handlers deploy the same message, no receipt is stale when used.    *)
OneHolderPerMessage ==
    \A d \in Deliveries : Held(d) => d = Newest(d[1])

(* A message is handed out a second time only for a reason: each extra     *)
(* delivery is paid for by a crash, a shutdown, a failed call or a missed  *)
(* visibility timeout.                                                     *)
RedeliveryNeedsFault == \A m \in Messages : receives[m] <= 1 + faults

(* The copies of m's response on the producer queue: <<n, k>> is the k-th  *)
(* that the handling of its n-th delivery has written.                     *)
Copies(m) == UNION {{n} \X (1 .. outbound[<<m, n>>]) : n \in Receipts}

(* The producer queue gets one response for a message; each further copy,  *)
(* of a retry or of a second delivery, is paid for by a disturbance.       *)
ExtraRepliesNeedFault ==
    \A m \in Messages : Cardinality(Copies(m)) <= 1 + faults

(* A message leaves the queue only when some handler has come to a result  *)
(* about it: whatever is killed or expires before that is handed out again.*)
RemovedOnlyIfHandled ==
    \A m \in Messages :
        sqs[m] = "deleted" => \E n \in Receipts : result[<<m, n>>] # "none"

(* Undisturbed, a message that has left the queue has had its response.    *)
RemovedUntoldNeedsFault ==
    \A m \in Messages :
        sqs[m] = "deleted" /\ faults = 0 => \E n \in Receipts : outbound[<<m, n>>] = 1

(* When Close returns, the consumer has stopped and no handling goroutine  *)
(* that was started is still at work.                                      *)
CloseAwaitsHandlers ==
    [][CloseReturns => cpc = "stopped" /\ In(InWaitGroup) = {}]_vars

-----------------------------------------------------------------------------
(* The inductive invariant behind the theorems of module EngineProofs.     *)

(* Deliveries between ReceiveMessage and their handling goroutine.         *)
InTransit == batch \cup msgChan \cup cur

(* What can be received has a receipt left within the bound.               *)
RoomToReceive == \A m \in Messages : sqs[m] = "visible" => receives[m] <= MaxFaults

(* A delivery in transit has no goroutine yet: it is started but once.     *)
InTransitIsFresh ==
    \A d \in InTransit : hpc[d] = "none" /\ d[2] <= receives[d[1]]

(* A delivery in transit is at one place only.                             *)
InTransitIsApart ==
    /\ batch \cap msgChan = {}
    /\ batch \cap cur = {}
    /\ msgChan \cap cur = {}

StartedWasReceived ==
    \A d \in Deliveries : hpc[d] # "none" => d[2] <= receives[d[1]]

SlotsBounded == sem <= MaxConcurrentHandlers

IInv ==
    /\ TypeOK
    /\ CountersMatchGoroutines
    /\ RoomToReceive
    /\ InTransitIsFresh
    /\ InTransitIsApart
    /\ StartedWasReceived
    /\ SlotsBounded

(* What module MessageProofs adds to it.                                   *)

(* The channels and the run loop hold one delivery at most, and the loop   *)
(* over a response is left when there is nothing more to send.             *)
OneAtATime ==
    /\ \A d, e \in msgChan : d = e
    /\ \A d, e \in cur : d = e
    /\ batch # {} => cpc = "sendMsg"

(* What is held cannot be received.                                        *)
HeldIsHidden ==
    \A d \in Deliveries : Held(d) => d = Newest(d[1]) /\ sqs[d[1]] # "visible"

(* A goroutine that replies or deletes has come to a result.               *)
ResultBeforeReply ==
    \A d \in Deliveries :
        hpc[d] \in {"reply", "replyWait", "delete", "deleteWait"} => result[d] # "none"

(* SQS will hand m out again unless its newest delivery gets it removed:   *)
(* it is visible, or nobody has it, or its delete has failed.              *)
Owed(m) ==
    \/ sqs[m] = "visible"
    \/ /\ sqs[m] = "inflight"
       /\ ~Held(Newest(m)) \/ Newest(m) \in In({"deleteWait"})

(* Every delivery after the first, also one still owed, and a shutdown     *)
(* still to take its effect are paid for.                                  *)
DeliveriesPaid ==
    \A m \in Messages :
        receives[m] + (IF Owed(m) THEN 1 ELSE 0) + (IF ctxDone THEN 1 ELSE 0)
            <= 1 + faults

-----------------------------------------------------------------------------
(* Liveness.                                                               *)

(* Every message is removed in the end, through every bounded number of    *)
(* crashes, shutdowns and failed calls.                                    *)
EveryMessageRemoved == \A m \in Messages : <>[](sqs[m] = "deleted")

(* The run loop sees a cancelled context even if it was blocked on the     *)
(* semaphore: handlers end and let it through.                             *)
RunReturns == ctxDone ~> rpc = "returned" \/ ~ctxDone

(* Close returns unless the consumer is blocked on a channel that the run  *)
(* loop, which has returned, will never read again.                        *)
CloseReturnsUnlessBlocked ==
    closer = "waiting" ~>
        closer # "waiting" \/ (rpc = "returned" /\ ConsumerBlocked)

-----------------------------------------------------------------------------
(* What a comment says, which the code does not do.                        *)

(* "If the result is written successfully, the message that was originally *)
(* consumed is removed from the queue" (engine.go, Start): removed, then,  *)
(* only after its result was written.                                      *)
RemovedOnlyIfReplied ==
    \A m \in Messages :
        sqs[m] = "deleted" => \E n \in Receipts : outbound[<<m, n>>] > 0

-----------------------------------------------------------------------------
(* The engine implements the promise of module Delivery.                   *)

reachedBy(m) == {result[<<m, n>>] : n \in Receipts} \ {"none"}
reportedFor(m) == {result[d] : d \in {e \in {m} \X Receipts : outbound[e] > 0}}

Promise == INSTANCE Delivery WITH
    reached <- [m \in Messages |-> reachedBy(m)],
    reported <- [m \in Messages |-> reportedFor(m)],
    removed <- {m \in Messages : sqs[m] = "deleted"}

ImplementsDelivery == Promise!Spec
=============================================================================
