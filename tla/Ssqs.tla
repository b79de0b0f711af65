-------------------------------- MODULE Ssqs --------------------------------
(***************************************************************************)
(* Package ssqs: the consumer that polls one SQS queue and hands what it   *)
(* receives to the engine through two channels of capacity one, and the    *)
(* part of SQS itself that the consumer relies on (external: visibility,   *)
(* receipts, deletion).                                                    *)
(*                                                                         *)
(* A delivery is one receive of one message: the n-th time SQS hands out   *)
(* message m it does so under receipt n, so <<m, n>> names the struct      *)
(* ssqs.Message that travels through the program.                          *)
(***************************************************************************)
EXTENDS Naturals, FiniteSets

CONSTANTS
    Messages,    \* the messages ever put on the consumer queue
    MaxFaults,   \* bound on the disturbances of a behaviour
    BatchMax     \* most messages that one ReceiveMessage returns

ASSUME MessagesAssumption == IsFiniteSet(Messages)
ASSUME MaxFaultsAssumption == MaxFaults \in Nat
ASSUME BatchMaxAssumption == BatchMax \in Nat \ {0}

VARIABLES
    sqs,         \* what SQS does with each message
    receives,    \* how often SQS has handed out each message
    faults,      \* the disturbances there have been
    cpc,         \* where the goroutine running Consumer.Start is
    batch,       \* deliveries of the last response not yet sent on
    msgChan,     \* channel Consumer.Messages
    errChan,     \* channel Consumer.Errors: how many errors it holds
    finishChan   \* channel Consumer.finish: how many signals it holds

consumerVars == <<cpc, batch, msgChan, errChan, finishChan>>
queueVars == <<sqs, receives>>
ssqsVars == <<sqs, receives, faults, cpc, batch, msgChan, errChan, finishChan>>

Receipts == 1 .. (MaxFaults + 1)
Deliveries == Messages \X Receipts

SsqsTypeOK ==
    /\ sqs \in [Messages -> {"visible", "inflight", "deleted"}]
    /\ receives \in [Messages -> 0 .. (MaxFaults + 1)]
    /\ faults \in 0 .. MaxFaults
    /\ cpc \in {"poll", "calling", "sendErr", "sendMsg", "stopped"}
    /\ batch \subseteq Deliveries
    /\ msgChan \subseteq Deliveries
    /\ errChan \in 0 .. 1
    /\ finishChan \in 0 .. 1

(* The disturbances a property may have to allow for are counted: a call   *)
(* to SQS that fails, a premature expiry, a crash, a shutdown signal.      *)
Disturb ==
    /\ faults < MaxFaults
    /\ faults' = faults + 1

-----------------------------------------------------------------------------
(* SQS, as the calls in ssqs.go and engine.go see it.                      *)

(* The newest delivery of m: the one whose receipt is sure to delete it.   *)
Newest(m) == <<m, receives[m]>>

Visible == {m \in Messages : sqs[m] = "visible"}

(* The visibility timeout of an undeleted message runs out: SQS will hand  *)
(* it out again.  The bound on receives never binds: see RedeliveryNeeds-  *)
(* Fault in module Engine.                                                 *)
BecomeVisible(m) ==
    /\ sqs[m] = "inflight"
    /\ receives[m] <= MaxFaults
    /\ sqs' = [sqs EXCEPT ![m] = "visible"]
    /\ UNCHANGED receives

(* DeleteMessage took effect.                                              *)
RemoveMessage(m) ==
    /\ sqs' = [sqs EXCEPT ![m] = "deleted"]
    /\ UNCHANGED receives

-----------------------------------------------------------------------------
(* The consumer.                                                           *)

ConsumerInit ==
    /\ cpc = "poll"
    /\ batch = {}
    /\ msgChan = {}
    /\ errChan = 0
    /\ finishChan = 0

(* A new process: nothing of the old consumer is left.                     *)
ConsumerReset ==
    /\ cpc' = "poll"
    /\ batch' = {}
    /\ msgChan' = {}
    /\ errChan' = 0
    /\ finishChan' = 0

SsqsInit ==
    /\ sqs = [m \in Messages |-> "visible"]
    /\ receives = [m \in Messages |-> 0]
    /\ faults = 0
    /\ ConsumerInit

(* The first branch of the select in Start: a signal ends the goroutine.   *)
Finish ==
    /\ cpc = "poll"
    /\ finishChan = 1
    /\ finishChan' = 0
    /\ cpc' = "stopped"
    /\ UNCHANGED <<queueVars, faults, batch, msgChan, errChan>>

(* The default branch: receive is called.                                  *)
Poll ==
    /\ cpc = "poll"
    /\ finishChan = 0
    /\ cpc' = "calling"
    /\ UNCHANGED <<queueVars, faults, batch, msgChan, errChan, finishChan>>

(* Mutant of Receive: no visibility timeout hides what was handed out.     *)
ReceiveUnhidden(B) ==
    /\ cpc = "calling"
    /\ Cardinality(B) <= BatchMax
    /\ \A m \in B : receives[m] <= MaxFaults
    /\ receives' = [m \in Messages |->
                        IF m \in B THEN receives[m] + 1 ELSE receives[m]]
    /\ batch' = {<<m, receives[m] + 1>> : m \in B}
    /\ cpc' = IF B = {} THEN "poll" ELSE "sendMsg"
    /\ UNCHANGED <<sqs, faults, msgChan, errChan, finishChan>>

(* ReceiveMessage answers with the messages B.  SQS may leave any visible  *)
(* message out, so an empty answer proves nothing; it makes the consumer   *)
(* sleep and poll again.                                                   *)
Receive(B) ==
    /\ cpc = "calling"
    /\ Cardinality(B) <= BatchMax
    /\ receives' = [m \in Messages |->
                        IF m \in B THEN receives[m] + 1 ELSE receives[m]]
    /\ sqs' = [m \in Messages |-> IF m \in B THEN "inflight" ELSE sqs[m]]
    /\ batch' = {<<m, receives[m] + 1>> : m \in B}
    /\ cpc' = IF B = {} THEN "poll" ELSE "sendMsg"
    /\ UNCHANGED <<faults, msgChan, errChan, finishChan>>

ReceiveSome == \E B \in SUBSET Visible : Receive(B)

(* ReceiveMessage fails: the error is to be sent on Errors.                *)
ReceiveError ==
    /\ cpc = "calling"
    /\ cpc' = "sendErr"
    /\ UNCHANGED <<queueVars, faults, batch, msgChan, errChan, finishChan>>

(* c.Errors <- err, which blocks while the channel is full.                *)
SendError ==
    /\ cpc = "sendErr"
    /\ errChan = 0
    /\ errChan' = 1
    /\ cpc' = "poll"
    /\ UNCHANGED <<queueVars, faults, batch, msgChan, finishChan>>

(* One turn of the loop over the response: c.Messages <- m, which blocks   *)
(* while the channel is full, and does so without looking at finish.       *)
SendMessage(d) ==
    /\ cpc = "sendMsg"
    /\ d \in batch
    /\ msgChan = {}
    /\ msgChan' = {d}
    /\ batch' = batch \ {d}
    /\ cpc' = IF batch = {d} THEN "poll" ELSE "sendMsg"
    /\ UNCHANGED <<queueVars, faults, errChan, finishChan>>

(* Close: one send on a channel of capacity one.                           *)
Close ==
    /\ finishChan = 0
    /\ finishChan' = 1
    /\ UNCHANGED <<queueVars, faults, cpc, batch, msgChan, errChan>>

ConsumerStep ==
    \/ Poll
    \/ ReceiveSome
    \/ ReceiveError
    \/ SendError
    \/ \E d \in batch : SendMessage(d)

(* The consumer waits for room in a channel that nobody empties.           *)
ConsumerBlocked ==
    \/ cpc = "sendMsg" /\ msgChan # {}
    \/ cpc = "sendErr" /\ errChan = 1
=============================================================================
