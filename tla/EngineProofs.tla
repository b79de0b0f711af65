---------------------------- MODULE EngineProofs ----------------------------
(***************************************************************************)
(* Proofs about module Engine, for every finite set of messages and every  *)
(* value of the other constants.                                           *)
(***************************************************************************)
EXTENDS Engine, FiniteSetTheorems, TLAPS

USE MessagesAssumption, MaxFaultsAssumption, BatchMaxAssumption,
    MaxConcurrentHandlersAssumption, ValidAssumption, HandledInTimeAssumption

(* There are finitely many deliveries, so that sets of them can be counted.*)
LEMMA DeliveriesFinite == IsFiniteSet(Deliveries)
<1>1. IsFiniteSet(Receipts)
  BY FS_Interval DEF Receipts
<1>2. QED
  BY <1>1, FS_Product DEF Deliveries

(* So is every set of deliveries selected by the state of their goroutine. *)
LEMMA InFinite ==
  ASSUME NEW states
  PROVE  /\ IsFiniteSet(In(states))
         /\ Cardinality(In(states)) \in Nat
<1>1. In(states) \in SUBSET Deliveries
  BY DEF In
<1>2. IsFiniteSet(In(states))
  BY <1>1, DeliveriesFinite, FS_Subset
<1>3. QED
  BY <1>2, FS_CardinalityType

(* A goroutine that is in the set makes the set's count positive.          *)
LEMMA CountPositive ==
  ASSUME NEW states, NEW d \in Deliveries, hpc[d] \in states
  PROVE  Cardinality(In(states)) >= 1
<1>1. d \in In(states)
  BY DEF In
<1>2. Cardinality(In(states)) # 0
  BY <1>1, InFinite, FS_EmptySet
<1>3. QED
  BY <1>2, InFinite

(* A goroutine that moves within or outside a set leaves the set alone.    *)
LEMMA MoveKeepsSet ==
  ASSUME NEW states, NEW d \in Deliveries, NEW pc,
         hpc \in [Deliveries -> InSemaphore \cup {"none", "gone"}],
         hpc' = [hpc EXCEPT ![d] = pc],
         hpc[d] \in states <=> pc \in states
  PROVE  In(states)' = In(states)
BY DEF In

(* A goroutine that enters a set adds one to the set's count.              *)
LEMMA MoveEnters ==
  ASSUME NEW states, NEW d \in Deliveries, NEW pc,
         hpc \in [Deliveries -> InSemaphore \cup {"none", "gone"}],
         hpc' = [hpc EXCEPT ![d] = pc],
         hpc[d] \notin states, pc \in states
  PROVE  Cardinality(In(states)') = Cardinality(In(states)) + 1
<1>1. In(states)' = In(states) \cup {d}
  BY DEF In
<1>2. d \notin In(states)
  BY DEF In
<1>3. QED
  BY <1>1, <1>2, InFinite, FS_AddElement

(* A goroutine that leaves a set takes one from the set's count.           *)
LEMMA MoveLeaves ==
  ASSUME NEW states, NEW d \in Deliveries, NEW pc,
         hpc \in [Deliveries -> InSemaphore \cup {"none", "gone"}],
         hpc' = [hpc EXCEPT ![d] = pc],
         hpc[d] \in states, pc \notin states
  PROVE  Cardinality(In(states)') = Cardinality(In(states)) - 1
<1>1. In(states)' = In(states) \ {d}
  BY DEF In
<1>2. d \in In(states)
  BY DEF In
<1>3. QED
  BY <1>1, <1>2, InFinite, FS_RemoveElement

-----------------------------------------------------------------------------

LEMMA InitIInv == Init => IInv
<1> SUFFICES ASSUME Init PROVE IInv
  OBVIOUS
<1> USE DEF Init, SsqsInit, ConsumerInit
<1>1. TypeOK
  <2>1. SsqsTypeOK
    BY DEF SsqsTypeOK
  <2>2. hpc \in [Deliveries -> InSemaphore \cup {"none", "gone"}]
    OBVIOUS
  <2>3. QED
    BY <2>1, <2>2 DEF TypeOK
<1>2. In(InSemaphore) = {} /\ In(InWaitGroup) = {}
  BY DEF In, InSemaphore, InWaitGroup, Working
<1>3. CountersMatchGoroutines
  BY <1>2, FS_EmptySet DEF CountersMatchGoroutines
<1>4. RoomToReceive
  BY DEF RoomToReceive
<1>5. InTransitIsFresh /\ InTransitIsApart /\ StartedWasReceived
  BY DEF InTransitIsFresh, InTransitIsApart, StartedWasReceived, InTransit
<1>6. SlotsBounded
  BY DEF SlotsBounded
<1>7. QED
  BY <1>1, <1>3, <1>4, <1>5, <1>6 DEF IInv

-----------------------------------------------------------------------------
(* One step keeps the types.  The only delicate conjuncts are the counters,*)
(* which count down: CountersMatchGoroutines says that they are positive   *)
(* when they do; and the receipts, which RoomToReceive keeps in bounds.    *)

LEMMA TypeStep == IInv /\ [Next]_vars => TypeOK'
<1> SUFFICES ASSUME IInv, [Next]_vars PROVE TypeOK'
  OBVIOUS
<1> USE DEF TypeOK, SsqsTypeOK
<1>0. TypeOK /\ CountersMatchGoroutines /\ RoomToReceive
  BY DEF IInv
<1>1. CASE Consume
  <2>0. UNCHANGED engineVars
    BY <1>1 DEF Consume
  <2>1. CASE Poll \/ ReceiveError \/ SendError
    BY <1>0, <2>0, <2>1
       DEF Poll, ReceiveError, SendError, engineVars, queueVars
  <2>2. ASSUME NEW B \in SUBSET Visible, Receive(B)
        PROVE  TypeOK'
    <3>1. \A m \in B : m \in Messages /\ receives[m] + 1 \in Receipts
      BY <1>0 DEF Visible, RoomToReceive, Receipts
    <3>2. batch' \subseteq Deliveries
      BY <3>1, <2>2 DEF Receive, Deliveries
    <3>3. receives' \in [Messages -> 0 .. (MaxFaults + 1)]
      BY <1>0, <2>2, <3>1 DEF Receive, Receipts
    <3>4. sqs' \in [Messages -> {"visible", "inflight", "deleted"}]
      BY <1>0, <2>2 DEF Receive
    <3>5. QED
      BY <1>0, <2>0, <2>2, <3>2, <3>3, <3>4 DEF Receive, engineVars
  <2>3. ASSUME NEW d \in batch, SendMessage(d)
        PROVE  TypeOK'
    BY <1>0, <2>0, <2>3 DEF SendMessage, engineVars, queueVars
  <2>4. QED
    BY <1>1, <2>1, <2>2, <2>3 DEF Consume, ConsumerStep, ReceiveSome
<1>2. CASE ConsumerStops
  <2>1. cpc # "stopped" /\ Cardinality(In(InWaitGroup)) \in Nat
    BY <1>2, InFinite DEF ConsumerStops, Finish
  <2>2. wg' \in Nat
    BY <1>0, <1>2, <2>1 DEF ConsumerStops, CountersMatchGoroutines
  <2>3. QED
    BY <1>0, <1>2, <2>2 DEF ConsumerStops, Finish, queueVars
<1>3. CASE RunError \/ RunMessage \/ RunDone
  BY <1>0, <1>3 DEF RunError, RunMessage, RunDone, engineVars, ssqsVars, queueVars
<1>4. ASSUME NEW d \in Deliveries, StartHandler(d)
      PROVE  TypeOK'
  BY <1>0, <1>4 DEF StartHandler, GoTo, ssqsVars, InSemaphore, InWaitGroup, Working
<1>5. ASSUME NEW d \in Deliveries, HandlerStep(d)
      PROVE  TypeOK'
  <2> USE DEF At, GoTo, InSemaphore, InWaitGroup, Working
  <2>1. CASE Verify(d) \/ HandlerReturns(d)
    BY <1>0, <2>1 DEF Verify, HandlerReturns, ssqsVars
  <2>2. CASE ReplySucceeds(d) \/ RetryReply(d) \/ AbandonReply(d)
    BY <1>0, <2>2 DEF ReplySucceeds, RetryReply, AbandonReply, ssqsVars
  <2>3. CASE ReplyFails(d)
    BY <1>0, <2>3 DEF ReplyFails, Disturb, queueVars, consumerVars
  <2>4. CASE DeleteSucceeds(d)
    BY <1>0, <2>4 DEF DeleteSucceeds, RemoveMessage, queueVars, consumerVars, Deliveries
  <2>5. CASE DeleteFails(d)
    BY <1>0, <2>5 DEF DeleteFails, RemoveMessage, Disturb, queueVars, consumerVars, Deliveries
  <2>6. CASE RetryDelete(d) \/ AbandonDelete(d)
    BY <1>0, <2>6 DEF RetryDelete, AbandonDelete, ssqsVars
  <2>7. CASE LeaveWaitGroup(d)
    <3>1. Cardinality(In(InWaitGroup)) >= 1 /\ Cardinality(In(InWaitGroup)) \in Nat
      BY <2>7, CountPositive, InFinite DEF LeaveWaitGroup
    <3>2. wg' \in Nat
      BY <1>0, <2>7, <3>1 DEF LeaveWaitGroup, CountersMatchGoroutines
    <3>3. QED
      BY <1>0, <2>7, <3>2 DEF LeaveWaitGroup, ssqsVars
  <2>8. CASE LeaveSemaphore(d)
    <3>1. Cardinality(In(InSemaphore)) >= 1 /\ Cardinality(In(InSemaphore)) \in Nat
      BY <2>8, CountPositive, InFinite DEF LeaveSemaphore
    <3>2. sem' \in Nat
      BY <1>0, <2>8, <3>1 DEF LeaveSemaphore, CountersMatchGoroutines
    <3>3. QED
      BY <1>0, <2>8, <3>2 DEF LeaveSemaphore, ssqsVars
  <2>9. QED
    BY <1>5, <2>1, <2>2, <2>3, <2>4, <2>5, <2>6, <2>7, <2>8 DEF HandlerStep
<1>6. CASE Cancel
  BY <1>0, <1>6 DEF Cancel, Disturb, queueVars, consumerVars
<1>7. CASE CloseBegins \/ CloseReturns
  BY <1>0, <1>7 DEF CloseBegins, CloseReturns, Close, ssqsVars, queueVars
<1>8. CASE Restart
  <2>1. faults' \in 0 .. MaxFaults
    BY <1>0, <1>8 DEF Restart, Disturb
  <2>2. hpc' \in [Deliveries -> InSemaphore \cup {"none", "gone"}]
    BY <1>8 DEF Restart
  <2>3. /\ sqs' = sqs /\ receives' = receives
        /\ result' = result /\ outbound' = outbound
        /\ ctxDone' = FALSE /\ rpc' = "running" /\ cur' = {}
        /\ sem' = 0 /\ wg' = 1 /\ closer' = "idle"
        /\ cpc' = "poll" /\ batch' = {} /\ msgChan' = {}
        /\ errChan' = 0 /\ finishChan' = 0
    BY <1>8 DEF Restart, ConsumerReset, queueVars
  <2>4. SsqsTypeOK'
    BY <1>0, <2>1, <2>3
  <2>5. /\ ctxDone' \in BOOLEAN /\ rpc' \in {"running", "returned"}
        /\ cur' \subseteq Deliveries /\ sem' \in Nat /\ wg' \in Nat
        /\ closer' \in {"idle", "waiting", "closed"}
    BY <2>3
  <2>6. /\ result' \in [Deliveries -> {"none", "ok", "err"}]
        /\ outbound' \in [Deliveries -> Nat]
    BY <1>0, <2>3
  <2>7. QED
    BY <2>2, <2>4, <2>5, <2>6
<1>9. ASSUME NEW m \in Messages, VisibilityTimeout(m)
      PROVE  TypeOK'
  BY <1>0, <1>9 DEF VisibilityTimeout, BecomeVisible, Disturb, consumerVars, engineVars
<1>10. CASE UNCHANGED vars
  BY <1>0, <1>10 DEF vars
<1>11. QED
  BY <1>1, <1>2, <1>3, <1>4, <1>5, <1>6, <1>7, <1>8, <1>9, <1>10 DEF Next
-----------------------------------------------------------------------------
(* One step keeps the counters equal to the numbers of goroutines.         *)

LEMMA CountersStep == IInv /\ [Next]_vars => CountersMatchGoroutines'
<1> SUFFICES ASSUME IInv, [Next]_vars PROVE CountersMatchGoroutines'
  OBVIOUS
<1>0. /\ sem = Cardinality(In(InSemaphore))
      /\ wg = Cardinality(In(InWaitGroup)) + (IF cpc = "stopped" THEN 0 ELSE 1)
      /\ hpc \in [Deliveries -> InSemaphore \cup {"none", "gone"}]
      /\ Cardinality(In(InSemaphore)) \in Nat
      /\ Cardinality(In(InWaitGroup)) \in Nat
  BY InFinite DEF IInv, CountersMatchGoroutines, TypeOK
<1> DEFINE Quiet == /\ UNCHANGED <<hpc, sem, wg>>
                    /\ cpc = "stopped" <=> cpc' = "stopped"
<1>1. ASSUME Quiet PROVE CountersMatchGoroutines'
  <2>1. In(InSemaphore)' = In(InSemaphore) /\ In(InWaitGroup)' = In(InWaitGroup)
    BY <1>1 DEF In
  <2>2. QED
    BY <1>0, <1>1, <2>1 DEF CountersMatchGoroutines
<1>2. CASE Consume
  <2>1. CASE Poll \/ ReceiveError \/ SendError
    BY <1>1, <1>2, <2>1 DEF Consume, engineVars, Poll, ReceiveError, SendError
  <2>2. CASE ReceiveSome
    BY <1>1, <1>2, <2>2 DEF Consume, engineVars, ReceiveSome, Receive
  <2>3. CASE \E d \in batch : SendMessage(d)
    BY <1>1, <1>2, <2>3 DEF Consume, engineVars, SendMessage
  <2>4. QED
    BY <1>2, <2>1, <2>2, <2>3 DEF Consume, ConsumerStep
<1>3. CASE ConsumerStops
  <2>1. /\ cpc # "stopped" /\ cpc' = "stopped"
        /\ wg' = wg - 1 /\ sem' = sem /\ hpc' = hpc
    BY <1>3 DEF ConsumerStops, Finish
  <2>2. In(InSemaphore)' = In(InSemaphore) /\ In(InWaitGroup)' = In(InWaitGroup)
    BY <2>1 DEF In
  <2>3. QED
    BY <1>0, <2>1, <2>2 DEF CountersMatchGoroutines
<1>4. CASE RunError \/ RunMessage \/ RunDone
  BY <1>1, <1>4 DEF RunError, RunMessage, RunDone, engineVars, ssqsVars
<1>5. ASSUME NEW d \in Deliveries, StartHandler(d)
      PROVE  CountersMatchGoroutines'
  <2>1. /\ hpc[d] = "none" /\ hpc' = [hpc EXCEPT ![d] = "verify"]
        /\ sem' = sem + 1 /\ wg' = wg + 1 /\ cpc' = cpc
    BY <1>5 DEF StartHandler, GoTo, IInv, InTransitIsFresh, InTransit, ssqsVars
  <2>2. Cardinality(In(InSemaphore)') = Cardinality(In(InSemaphore)) + 1
    BY <1>0, <2>1, MoveEnters DEF InSemaphore, InWaitGroup, Working
  <2>3. Cardinality(In(InWaitGroup)') = Cardinality(In(InWaitGroup)) + 1
    BY <1>0, <2>1, MoveEnters DEF InSemaphore, InWaitGroup, Working
  <2>4. QED
    BY <1>0, <2>1, <2>2, <2>3 DEF CountersMatchGoroutines
<1>6. ASSUME NEW d \in Deliveries, HandlerStep(d)
      PROVE  CountersMatchGoroutines'
  <2>1. ASSUME NEW pc \in InWaitGroup, hpc[d] \in Working,
               hpc' = [hpc EXCEPT ![d] = pc],
               sem' = sem, wg' = wg, cpc' = cpc
        PROVE  CountersMatchGoroutines'
    <3>1. In(InSemaphore)' = In(InSemaphore)
      BY <1>0, <2>1, MoveKeepsSet DEF InSemaphore, InWaitGroup
    <3>2. In(InWaitGroup)' = In(InWaitGroup)
      BY <1>0, <2>1, MoveKeepsSet DEF InWaitGroup
    <3>3. QED
      BY <1>0, <2>1, <3>1, <3>2 DEF CountersMatchGoroutines
  <2> USE DEF At, GoTo, ssqsVars, consumerVars
  <2>2. CASE Verify(d) \/ HandlerReturns(d)
    BY <2>1, <2>2 DEF Verify, HandlerReturns, InWaitGroup, Working
  <2>3. CASE ReplySucceeds(d) \/ ReplyFails(d) \/ RetryReply(d) \/ AbandonReply(d)
    BY <2>1, <2>3
       DEF ReplySucceeds, ReplyFails, RetryReply, AbandonReply, InWaitGroup, Working
  <2>4. CASE DeleteSucceeds(d) \/ DeleteFails(d) \/ RetryDelete(d) \/ AbandonDelete(d)
    BY <2>1, <2>4
       DEF DeleteSucceeds, DeleteFails, RetryDelete, AbandonDelete, InWaitGroup, Working
  <2>5. CASE LeaveWaitGroup(d)
    <3>1. /\ hpc[d] = "finish" /\ hpc' = [hpc EXCEPT ![d] = "release"]
          /\ wg' = wg - 1 /\ sem' = sem /\ cpc' = cpc
      BY <2>5 DEF LeaveWaitGroup
    <3>2. In(InSemaphore)' = In(InSemaphore)
      BY <1>0, <3>1, MoveKeepsSet DEF InSemaphore, InWaitGroup
    <3>3. Cardinality(In(InWaitGroup)') = Cardinality(In(InWaitGroup)) - 1
      BY <1>0, <3>1, MoveLeaves DEF InWaitGroup, Working
    <3>4. QED
      BY <1>0, <3>1, <3>2, <3>3 DEF CountersMatchGoroutines
  <2>6. CASE LeaveSemaphore(d)
    <3>1. /\ hpc[d] = "release" /\ hpc' = [hpc EXCEPT ![d] = "gone"]
          /\ sem' = sem - 1 /\ wg' = wg /\ cpc' = cpc
      BY <2>6 DEF LeaveSemaphore
    <3>2. In(InWaitGroup)' = In(InWaitGroup)
      BY <1>0, <3>1, MoveKeepsSet DEF InWaitGroup, Working
    <3>3. Cardinality(In(InSemaphore)') = Cardinality(In(InSemaphore)) - 1
      BY <1>0, <3>1, MoveLeaves DEF InSemaphore, InWaitGroup, Working
    <3>4. QED
      BY <1>0, <3>1, <3>2, <3>3 DEF CountersMatchGoroutines
  <2>7. QED
    BY <1>6, <2>2, <2>3, <2>4, <2>5, <2>6 DEF HandlerStep
<1>7. CASE Cancel \/ CloseBegins \/ CloseReturns
  BY <1>1, <1>7 DEF Cancel, CloseBegins, CloseReturns, Close, ssqsVars, consumerVars
<1>8. CASE Restart
  <2>1. /\ sem' = 0 /\ wg' = 1 /\ cpc' = "poll"
        /\ \A d \in Deliveries : hpc'[d] \in {"none", "gone"}
    BY <1>8 DEF Restart, ConsumerReset
  <2>2. In(InSemaphore)' = {} /\ In(InWaitGroup)' = {}
    BY <2>1 DEF In, InSemaphore, InWaitGroup, Working
  <2>3. QED
    BY <2>1, <2>2, FS_EmptySet DEF CountersMatchGoroutines
<1>9. CASE \E m \in Messages : VisibilityTimeout(m)
  BY <1>1, <1>9 DEF VisibilityTimeout, consumerVars, engineVars
<1>10. CASE UNCHANGED vars
  BY <1>1, <1>10 DEF vars
<1>11. QED
  BY <1>2, <1>3, <1>4, <1>5, <1>6, <1>7, <1>8, <1>9, <1>10 DEF Next
-----------------------------------------------------------------------------
(* One step keeps what IInv says of where deliveries are.                  *)

Traced ==
    /\ RoomToReceive
    /\ InTransitIsFresh
    /\ InTransitIsApart
    /\ StartedWasReceived
    /\ SlotsBounded

LEMMA TracedStep == IInv /\ [Next]_vars => Traced'
<1> SUFFICES ASSUME IInv, [Next]_vars PROVE Traced'
  OBVIOUS
<1> USE DEF Traced, RoomToReceive, InTransitIsFresh, InTransitIsApart,
            StartedWasReceived, SlotsBounded, InTransit
<1>0. TypeOK /\ Traced
  BY DEF IInv
<1>t. /\ receives \in [Messages -> 0 .. (MaxFaults + 1)]
      /\ sqs \in [Messages -> {"visible", "inflight", "deleted"}]
      /\ hpc \in [Deliveries -> InSemaphore \cup {"none", "gone"}]
      /\ batch \subseteq Deliveries /\ msgChan \subseteq Deliveries
      /\ cur \subseteq Deliveries /\ sem \in Nat
  BY <1>0 DEF TypeOK, SsqsTypeOK
<1>1. CASE Consume
  <2>1. CASE Poll \/ ReceiveError \/ SendError
    BY <1>0, <1>1, <2>1
       DEF Consume, engineVars, Poll, ReceiveError, SendError, queueVars
  <2>2. ASSUME NEW B \in SUBSET Visible, Receive(B), UNCHANGED engineVars
        PROVE  Traced'
    <3>1. /\ sem' = sem /\ hpc' = hpc /\ msgChan' = msgChan /\ cur' = cur
          /\ receives' = [m \in Messages |->
                             IF m \in B THEN receives[m] + 1 ELSE receives[m]]
          /\ sqs' = [m \in Messages |-> IF m \in B THEN "inflight" ELSE sqs[m]]
          /\ batch' = {<<m, receives[m] + 1>> : m \in B}
      BY <2>2 DEF Receive, engineVars
    <3>2. \A m \in B : m \in Messages /\ <<m, receives[m] + 1>> \in Deliveries
      BY <1>0, <1>t DEF Visible, Deliveries, Receipts
    <3>3. \A d \in batch' : /\ d \in Deliveries
                            /\ d[2] = receives[d[1]] + 1
                            /\ d[2] = receives'[d[1]]
      BY <3>1, <3>2
    <3>4. \A d \in Deliveries : receives[d[1]] <= receives'[d[1]]
      BY <1>t, <3>1 DEF Deliveries
    <3>5. \A d \in Deliveries : d[2] \in Nat /\ receives[d[1]] \in Nat /\ receives'[d[1]] \in Nat
      BY <1>t, <3>1 DEF Deliveries, Receipts
    <3>6. \A d \in batch' : hpc[d] = "none" /\ d \notin msgChan /\ d \notin cur
      BY <1>0, <1>t, <3>3, <3>5
    <3>7. InTransitIsFresh'
      BY <1>0, <1>t, <3>1, <3>3, <3>4, <3>5, <3>6
    <3>8. StartedWasReceived'
      BY <1>0, <1>t, <3>1, <3>4, <3>5
    <3>9. RoomToReceive'
      BY <1>0, <1>t, <3>1
    <3>10. InTransitIsApart' /\ SlotsBounded'
      BY <1>0, <3>1, <3>6
    <3>11. QED
      BY <3>7, <3>8, <3>9, <3>10
  <2>3. ASSUME NEW d \in batch, SendMessage(d), UNCHANGED engineVars
        PROVE  Traced'
    BY <1>0, <2>3 DEF SendMessage, engineVars, queueVars
  <2>4. QED
    BY <1>1, <2>1, <2>2, <2>3 DEF Consume, ConsumerStep, ReceiveSome
<1>2. CASE ConsumerStops
  BY <1>0, <1>2 DEF ConsumerStops, Finish, queueVars
<1>3. CASE RunError \/ RunMessage \/ RunDone
  BY <1>0, <1>3 DEF RunError, RunMessage, RunDone, engineVars, ssqsVars, queueVars, Selecting
<1>4. ASSUME NEW d \in Deliveries, StartHandler(d)
      PROVE  Traced'
  <2>1. /\ d \in cur /\ cur' = {} /\ hpc' = [hpc EXCEPT ![d] = "verify"]
        /\ sem < MaxConcurrentHandlers /\ sem' = sem + 1
        /\ UNCHANGED <<sqs, receives, batch, msgChan>>
    BY <1>4 DEF StartHandler, GoTo, ssqsVars
  <2>2. RoomToReceive' /\ InTransitIsApart'
    BY <1>0, <2>1
  <2>3. InTransitIsFresh' /\ StartedWasReceived'
    BY <1>0, <1>t, <2>1
  <2>4. SlotsBounded'
    BY <1>0, <1>t, <2>1
  <2>5. QED
    BY <2>2, <2>3, <2>4
<1>5. ASSUME NEW d \in Deliveries, HandlerStep(d)
      PROVE  Traced'
  <2>1. /\ hpc[d] # "none"
        /\ \E pc : hpc' = [hpc EXCEPT ![d] = pc] /\ pc # "none"
        /\ UNCHANGED <<receives, batch, msgChan, cur>>
        /\ sem' = sem \/ sem' = sem - 1
        /\ \A m \in Messages : sqs'[m] = "visible" => sqs[m] = "visible"
    <3> USE DEF At, GoTo, ssqsVars, queueVars, consumerVars
    <3>1. CASE Verify(d) \/ HandlerReturns(d)
      BY <3>1 DEF Verify, HandlerReturns
    <3>2. CASE ReplySucceeds(d) \/ ReplyFails(d) \/ RetryReply(d) \/ AbandonReply(d)
      BY <3>2 DEF ReplySucceeds, ReplyFails, RetryReply, AbandonReply
    <3>3. CASE DeleteSucceeds(d) \/ DeleteFails(d)
      BY <1>t, <3>3 DEF DeleteSucceeds, DeleteFails, RemoveMessage
    <3>4. CASE RetryDelete(d) \/ AbandonDelete(d)
      BY <3>4 DEF RetryDelete, AbandonDelete
    <3>5. CASE LeaveWaitGroup(d) \/ LeaveSemaphore(d)
      BY <3>5 DEF LeaveWaitGroup, LeaveSemaphore
    <3>6. QED
      BY <1>5, <3>1, <3>2, <3>3, <3>4, <3>5 DEF HandlerStep
  <2>2. PICK pc : hpc' = [hpc EXCEPT ![d] = pc] /\ pc # "none"
    BY <2>1
  <2>3. \A e \in Deliveries : hpc'[e] = "none" <=> hpc[e] = "none"
    BY <1>t, <2>1, <2>2
  <2>4. SlotsBounded'
    BY <1>0, <1>t, <2>1
  <2>5. RoomToReceive' /\ InTransitIsApart'
    BY <1>0, <2>1
  <2>6. InTransitIsFresh' /\ StartedWasReceived'
    BY <1>0, <1>t, <2>1, <2>3
  <2>7. QED
    BY <2>4, <2>5, <2>6
<1>6. CASE Cancel \/ CloseBegins \/ CloseReturns
  BY <1>0, <1>6
     DEF Cancel, CloseBegins, CloseReturns, Close, ssqsVars, queueVars, consumerVars
<1>7. CASE Restart
  <2>1. /\ batch' = {} /\ msgChan' = {} /\ cur' = {} /\ sem' = 0
        /\ UNCHANGED <<sqs, receives>>
        /\ \A d \in Deliveries : hpc'[d] # "none" => hpc[d] # "none"
    BY <1>7 DEF Restart, ConsumerReset, queueVars
  <2>2. RoomToReceive' /\ InTransitIsFresh' /\ InTransitIsApart' /\ SlotsBounded'
    BY <1>0, <2>1
  <2>3. StartedWasReceived'
    BY <1>0, <2>1
  <2>4. QED
    BY <2>2, <2>3
<1>8. ASSUME NEW m \in Messages, VisibilityTimeout(m)
      PROVE  Traced'
  <2>1. /\ sqs' = [sqs EXCEPT ![m] = "visible"] /\ receives[m] <= MaxFaults
        /\ UNCHANGED <<receives, batch, msgChan, cur, hpc, sem>>
    BY <1>8 DEF VisibilityTimeout, BecomeVisible, consumerVars, engineVars
  <2>2. RoomToReceive'
    BY <1>0, <1>t, <2>1
  <2>3. QED
    BY <1>0, <2>1, <2>2
<1>9. CASE UNCHANGED vars
  BY <1>0, <1>9 DEF vars
<1>10. QED
  BY <1>1, <1>2, <1>3, <1>4, <1>5, <1>6, <1>7, <1>8, <1>9 DEF Next

-----------------------------------------------------------------------------
(* The invariance theorems.                                                *)

(* IInv is an inductive invariant of the engine.                           *)
THEOREM Inductive == Spec => []IInv
<1>1. Init => IInv
  BY InitIInv
<1>2. IInv /\ [Next]_vars => IInv'
  BY TypeStep, CountersStep, TracedStep DEF IInv, Traced
<1>3. QED
  BY <1>1, <1>2, PTL DEF Spec

(* The variables keep their types.  That sem and wg stay natural numbers   *)
(* is the fact that wg.Done never panics on a negative counter and that    *)
(* no goroutine waits to release a slot it does not have.                  *)
THEOREM TypeCorrect == Spec => []TypeOK
<1>1. IInv => TypeOK
  BY DEF IInv
<1>2. QED
  BY <1>1, Inductive, PTL

(* The semaphore and the wait group count the goroutines they stand for.   *)
THEOREM CountersCorrect == Spec => []CountersMatchGoroutines
<1>1. IInv => CountersMatchGoroutines
  BY DEF IInv
<1>2. QED
  BY <1>1, Inductive, PTL

(* At most MaxConcurrentHandlers messages are worked on at once.           *)
THEOREM HandlersLimited == Spec => []HandlerLimit
<1>1. ASSUME IInv PROVE HandlerLimit
  <2>1. In(Working) \in SUBSET In(InSemaphore)
    BY DEF In, InSemaphore, InWaitGroup
  <2>2. Cardinality(In(Working)) <= Cardinality(In(InSemaphore))
    BY <2>1, InFinite, FS_Subset
  <2>3. Cardinality(In(InSemaphore)) <= MaxConcurrentHandlers
    BY <1>1 DEF IInv, CountersMatchGoroutines, SlotsBounded
  <2>4. QED
    BY <2>2, <2>3, InFinite DEF HandlerLimit
<1>2. QED
  BY <1>1, Inductive, PTL

(* When wg.Wait lets Close return, the consumer has stopped and no         *)
(* goroutine that was started is still at work.                            *)
THEOREM CloseIsQuiet == Spec => CloseAwaitsHandlers
<1>1. ASSUME IInv, CloseReturns
      PROVE  cpc = "stopped" /\ In(InWaitGroup) = {}
  <2>1. /\ wg = 0
        /\ wg = Cardinality(In(InWaitGroup)) + (IF cpc = "stopped" THEN 0 ELSE 1)
        /\ Cardinality(In(InWaitGroup)) \in Nat
    BY <1>1, InFinite DEF IInv, CountersMatchGoroutines, CloseReturns
  <2>2. cpc = "stopped" /\ Cardinality(In(InWaitGroup)) = 0
    BY <2>1
  <2>3. QED
    BY <2>2, InFinite, FS_EmptySet
<1>2. IInv => [CloseReturns => cpc = "stopped" /\ In(InWaitGroup) = {}]_vars
  BY <1>1
<1>3. QED
  BY <1>2, Inductive, PTL DEF CloseAwaitsHandlers
=============================================================================
