--------------------------- MODULE MessageProofs ---------------------------
(***************************************************************************)
(* Proofs about what becomes of a message in module Engine: who holds it,  *)
(* how often it is delivered, and when it may be removed.                  *)
(***************************************************************************)
EXTENDS EngineProofs

(* The types the proofs below need, in one place.                          *)
LEMMA IInvTypes ==
  ASSUME IInv
  PROVE  /\ receives \in [Messages -> 0 .. (MaxFaults + 1)]
         /\ sqs \in [Messages -> {"visible", "inflight", "deleted"}]
         /\ hpc \in [Deliveries -> InSemaphore \cup {"none", "gone"}]
         /\ result \in [Deliveries -> {"none", "ok", "err"}]
         /\ batch \subseteq Deliveries
         /\ msgChan \subseteq Deliveries
         /\ cur \subseteq Deliveries
         /\ faults \in Nat
         /\ ctxDone \in BOOLEAN
BY DEF IInv, TypeOK, SsqsTypeOK

-----------------------------------------------------------------------------
(* One delivery at a time in the channels and in the run loop.             *)

LEMMA OneAtATimeStep == OneAtATime /\ [Next]_vars => OneAtATime'
<1> SUFFICES ASSUME OneAtATime, [Next]_vars PROVE OneAtATime'
  OBVIOUS
<1> USE DEF OneAtATime
<1>1. CASE Consume
  <2>1. CASE Poll \/ ReceiveError \/ SendError
    BY <1>1, <2>1 DEF Consume, engineVars, Poll, ReceiveError, SendError
  <2>2. ASSUME NEW B \in SUBSET Visible, Receive(B), UNCHANGED engineVars
        PROVE  OneAtATime'
    <3>1. batch' # {} => cpc' = "sendMsg"
      BY <2>2 DEF Receive
    <3>2. QED
      BY <2>2, <3>1 DEF Receive, engineVars
  <2>3. ASSUME NEW d \in batch, SendMessage(d), UNCHANGED engineVars
        PROVE  OneAtATime'
    BY <2>3 DEF SendMessage, engineVars
  <2>4. QED
    BY <1>1, <2>1, <2>2, <2>3 DEF Consume, ConsumerStep, ReceiveSome
<1>2. CASE ConsumerStops
  BY <1>2 DEF ConsumerStops, Finish
<1>3. CASE RunError \/ RunMessage \/ RunDone
  BY <1>3 DEF RunError, RunMessage, RunDone, engineVars, ssqsVars
<1>4. ASSUME NEW d \in Deliveries, StartHandler(d)
      PROVE  OneAtATime'
  BY <1>4 DEF StartHandler, ssqsVars
<1>5. ASSUME NEW d \in Deliveries, HandlerStep(d)
      PROVE  OneAtATime'
  BY <1>5 DEF HandlerStep, Verify, HandlerReturns, ReplySucceeds, ReplyFails,
     RetryReply, AbandonReply, DeleteSucceeds, DeleteFails, RetryDelete,
     AbandonDelete, LeaveWaitGroup, LeaveSemaphore, ssqsVars, consumerVars
<1>6. CASE Cancel \/ CloseBegins \/ CloseReturns
  BY <1>6 DEF Cancel, CloseBegins, CloseReturns, Close, ssqsVars, consumerVars
<1>7. CASE Restart
  BY <1>7 DEF Restart, ConsumerReset
<1>8. CASE \E m \in Messages : VisibilityTimeout(m)
  BY <1>8 DEF VisibilityTimeout, consumerVars, engineVars
<1>9. CASE UNCHANGED vars
  BY <1>9 DEF vars
<1>10. QED
  BY <1>1, <1>2, <1>3, <1>4, <1>5, <1>6, <1>7, <1>8, <1>9 DEF Next

-----------------------------------------------------------------------------
(* A step of a handling goroutine, as far as holding is concerned: it does *)
(* not touch what is in transit, and never makes its message visible.      *)
LEMMA HandlerFrame ==
  ASSUME IInv, NEW d \in Deliveries, HandlerStep(d)
  PROVE  /\ UNCHANGED <<receives, batch, msgChan, cur, ctxDone>>
         /\ hpc[d] # "none" /\ hpc[d] # "gone"
         /\ \E pc \in InSemaphore \cup {"gone"} :
               /\ hpc' = [hpc EXCEPT ![d] = pc]
               /\ pc \in Working => hpc[d] \in Working
         /\ \A m \in Messages :
               sqs'[m] = sqs[m] \/ (sqs'[m] = "deleted" /\ m = d[1])
<1> USE DEF At, GoTo, ssqsVars, queueVars, consumerVars
<1>0. sqs \in [Messages -> {"visible", "inflight", "deleted"}] /\ d[1] \in Messages
  BY IInvTypes DEF Deliveries
<1>1. CASE Verify(d) \/ HandlerReturns(d)
  BY <1>1 DEF Verify, HandlerReturns, InSemaphore, InWaitGroup, Working
<1>2. CASE ReplySucceeds(d) \/ ReplyFails(d) \/ RetryReply(d) \/ AbandonReply(d)
  BY <1>2 DEF ReplySucceeds, ReplyFails, RetryReply, AbandonReply, InSemaphore, InWaitGroup, Working
<1>3. CASE DeleteSucceeds(d)
  BY <1>0, <1>3 DEF DeleteSucceeds, RemoveMessage, InSemaphore, InWaitGroup, Working
<1>4. CASE DeleteFails(d)
  BY <1>0, <1>4 DEF DeleteFails, RemoveMessage, InSemaphore, InWaitGroup, Working
<1>5. CASE RetryDelete(d) \/ AbandonDelete(d)
  BY <1>5 DEF RetryDelete, AbandonDelete, InSemaphore, InWaitGroup, Working
<1>6. CASE LeaveWaitGroup(d) \/ LeaveSemaphore(d)
  BY <1>6 DEF LeaveWaitGroup, LeaveSemaphore, InSemaphore, InWaitGroup, Working
<1>7. QED
  BY <1>1, <1>2, <1>3, <1>4, <1>5, <1>6 DEF HandlerStep

(* What a response to ReceiveMessage holds was visible, and its receipts   *)
(* are new.                                                                *)
LEMMA ReceiveFrame ==
  ASSUME IInv, NEW B \in SUBSET Visible, Receive(B), UNCHANGED engineVars
  PROVE  /\ \A m \in Messages :
               /\ receives'[m] = IF m \in B THEN receives[m] + 1 ELSE receives[m]
               /\ sqs'[m] = IF m \in B THEN "inflight" ELSE sqs[m]
         /\ \A d \in Deliveries :
               d \in batch' <=> d[1] \in B /\ d[2] = receives[d[1]] + 1
         /\ \A m \in B : /\ m \in Messages /\ sqs[m] = "visible"
                         /\ <<m, receives[m] + 1>> \in Deliveries
                         /\ hpc[<<m, receives[m] + 1>>] = "none"
         /\ UNCHANGED <<msgChan, cur, hpc, ctxDone, faults>>
<1>1. \A m \in B : /\ m \in Messages /\ sqs[m] = "visible"
                   /\ receives[m] \in Nat /\ receives[m] <= MaxFaults
  BY IInvTypes DEF Visible, IInv, RoomToReceive
<1>2. \A m \in B : <<m, receives[m] + 1>> \in Deliveries
  BY <1>1, MaxFaultsAssumption DEF Deliveries, Receipts
<1>3. \A m \in B : hpc[<<m, receives[m] + 1>>] = "none"
  BY <1>1, <1>2 DEF IInv, StartedWasReceived
<1>4. batch' = {<<m, receives[m] + 1>> : m \in B}
  BY DEF Receive
<1>5. \A d \in Deliveries :
         d \in batch' <=> d[1] \in B /\ d[2] = receives[d[1]] + 1
  BY <1>1, <1>4 DEF Deliveries
<1>6. QED
  BY <1>1, <1>2, <1>3, <1>5 DEF Receive, engineVars

-----------------------------------------------------------------------------
(* Only the newest delivery of a message is held.                          *)

LEMMA HeldIsHiddenStep ==
  ASSUME HandledInTime, IInv, HeldIsHidden, [Next]_vars
  PROVE  HeldIsHidden'
<1> USE DEF HeldIsHidden, Newest
<1>t. /\ receives \in [Messages -> 0 .. (MaxFaults + 1)]
      /\ hpc \in [Deliveries -> InSemaphore \cup {"none", "gone"}]
      /\ \A d \in Deliveries : d[1] \in Messages
      /\ sqs \in [Messages -> {"visible", "inflight", "deleted"}]
  BY IInvTypes DEF Deliveries
<1>0. ASSUME \A d \in Deliveries : Held(d)' => Held(d),
             UNCHANGED receives,
             \A m \in Messages : sqs'[m] = "visible" => sqs[m] = "visible"
      PROVE  HeldIsHidden'
  BY <1>0, <1>t
<1>1. CASE Consume
  <2>1. CASE Poll \/ ReceiveError \/ SendError
    BY <1>0, <1>1, <2>1
       DEF Consume, engineVars, Poll, ReceiveError, SendError, queueVars, Held, In
  <2>2. ASSUME NEW B \in SUBSET Visible, Receive(B), UNCHANGED engineVars
        PROVE  HeldIsHidden'
    <3>1. \A d \in Deliveries : Held(d)' => d \in batch' \/ (Held(d) /\ d \notin batch')
      BY <2>2, ReceiveFrame DEF Held, In
    <3>2. \A d \in Deliveries : d \in batch' =>
              d = <<d[1], receives'[d[1]]>> /\ sqs'[d[1]] # "visible"
      BY <1>t, <2>2, ReceiveFrame DEF Deliveries
    <3>3. ASSUME NEW d \in Deliveries, Held(d)
          PROVE  d = <<d[1], receives'[d[1]]>> /\ sqs'[d[1]] # "visible"
      <4>1. d = <<d[1], receives[d[1]]>> /\ sqs[d[1]] # "visible"
        BY <3>3
      <4>2. d[1] \in Messages /\ d[1] \notin B
        BY <1>t, <2>2, <4>1, ReceiveFrame
      <4>3. receives'[d[1]] = receives[d[1]] /\ sqs'[d[1]] = sqs[d[1]]
        BY <2>2, <4>2, ReceiveFrame
      <4>4. QED
        BY <4>1, <4>3
    <3>4. QED
      BY <3>1, <3>2, <3>3
  <2>3. ASSUME NEW d \in batch, SendMessage(d), UNCHANGED engineVars
        PROVE  HeldIsHidden'
    BY <1>0, <2>3 DEF SendMessage, engineVars, queueVars, Held, In
  <2>4. QED
    BY <1>1, <2>1, <2>2, <2>3 DEF Consume, ConsumerStep, ReceiveSome
<1>2. CASE ConsumerStops
  BY <1>0, <1>2 DEF ConsumerStops, Finish, queueVars, Held, In
<1>3. CASE RunError \/ RunMessage \/ RunDone
  BY <1>0, <1>3
     DEF RunError, RunMessage, RunDone, engineVars, ssqsVars, queueVars, Held, In
<1>4. ASSUME NEW d \in Deliveries, StartHandler(d)
      PROVE  HeldIsHidden'
  <2>1. /\ d \in cur /\ cur' = {} /\ hpc' = [hpc EXCEPT ![d] = "verify"]
        /\ UNCHANGED <<sqs, receives, batch, msgChan>>
    BY <1>4 DEF StartHandler, GoTo, ssqsVars
  <2>2. \A e \in Deliveries : Held(e)' => Held(e)
    BY <1>t, <2>1 DEF Held, In
  <2>3. QED
    BY <1>0, <2>1, <2>2
<1>5. ASSUME NEW d \in Deliveries, HandlerStep(d)
      PROVE  HeldIsHidden'
  <2>1. \A e \in Deliveries : Held(e)' => Held(e)
    BY <1>t, <1>5, HandlerFrame DEF Held, In
  <2>2. QED
    BY <1>0, <1>5, <2>1, HandlerFrame
<1>6. CASE Cancel \/ CloseBegins \/ CloseReturns
  BY <1>0, <1>6
     DEF Cancel, CloseBegins, CloseReturns, Close, ssqsVars, queueVars, consumerVars, Held, In
<1>7. CASE Restart
  <2>1. \A d \in Deliveries : ~Held(d)'
    BY <1>7 DEF Restart, ConsumerReset, Held, In, Working
  <2>2. QED
    BY <2>1
<1>8. ASSUME NEW m \in Messages, VisibilityTimeout(m)
      PROVE  HeldIsHidden'
  <2>1. /\ ~Held(Newest(m)) /\ sqs' = [sqs EXCEPT ![m] = "visible"]
        /\ UNCHANGED <<receives, batch, msgChan, cur, hpc>>
    BY <1>8 DEF VisibilityTimeout, BecomeVisible, consumerVars, engineVars
  <2>2. \A d \in Deliveries : Held(d)' => Held(d)
    BY <2>1 DEF Held, In
  <2>3. \A d \in Deliveries : Held(d) => d[1] # m
    BY <2>1
  <2>4. QED
    BY <1>t, <2>1, <2>2, <2>3
<1>9. CASE UNCHANGED vars
  BY <1>0, <1>9 DEF vars, Held, In
<1>10. QED
  BY <1>1, <1>2, <1>3, <1>4, <1>5, <1>6, <1>7, <1>8, <1>9 DEF Next

(* As long as handling is in time, all that the program holds of a message *)
(* is its newest delivery: no two handlers work on it at once, and every   *)
(* receipt is good when it is used.                                        *)
THEOREM OneHolder ==
  ASSUME HandledInTime
  PROVE  Spec => []OneHolderPerMessage
<1>1. Init => HeldIsHidden
  BY DEF Init, SsqsInit, ConsumerInit, HeldIsHidden, Held, In, Working
<1>2. IInv /\ HeldIsHidden /\ [Next]_vars => HeldIsHidden'
  BY HeldIsHiddenStep
<1>3. HeldIsHidden => OneHolderPerMessage
  BY DEF HeldIsHidden, OneHolderPerMessage
<1>4. QED
  BY <1>1, <1>2, <1>3, Inductive, PTL DEF Spec

-----------------------------------------------------------------------------
(* A message is removed only when a handler has come to a result.          *)

(* Results are never taken back, and whoever gets to reply or delete has   *)
(* one; a message goes only where a goroutine deletes it.                  *)
LEMMA HandlerResult ==
  ASSUME IInv, ResultBeforeReply, NEW d \in Deliveries, HandlerStep(d)
  PROVE  /\ \A e \in Deliveries : result[e] # "none" => result'[e] # "none"
         /\ ResultBeforeReply'
         /\ \A m \in Messages : sqs'[m] = "deleted" =>
               sqs[m] = "deleted" \/ (m = d[1] /\ result'[d] # "none")
<1> USE DEF ResultBeforeReply, At, GoTo, ssqsVars, queueVars
<1>0. /\ hpc \in [Deliveries -> InSemaphore \cup {"none", "gone"}]
      /\ result \in [Deliveries -> {"none", "ok", "err"}]
      /\ sqs \in [Messages -> {"visible", "inflight", "deleted"}]
      /\ d[1] \in Messages
  BY IInvTypes DEF Deliveries
<1>1. CASE Verify(d) \/ HandlerReturns(d)
  BY <1>0, <1>1 DEF Verify, HandlerReturns
<1>2. CASE ReplySucceeds(d) \/ ReplyFails(d) \/ RetryReply(d) \/ AbandonReply(d)
  BY <1>0, <1>2 DEF ReplySucceeds, ReplyFails, RetryReply, AbandonReply
<1>3. CASE DeleteSucceeds(d) \/ DeleteFails(d)
  BY <1>0, <1>3 DEF DeleteSucceeds, DeleteFails, RemoveMessage
<1>4. CASE RetryDelete(d) \/ AbandonDelete(d)
  BY <1>0, <1>4 DEF RetryDelete, AbandonDelete
<1>5. CASE LeaveWaitGroup(d) \/ LeaveSemaphore(d)
  BY <1>0, <1>5 DEF LeaveWaitGroup, LeaveSemaphore
<1>6. QED
  BY <1>1, <1>2, <1>3, <1>4, <1>5 DEF HandlerStep

(* All other steps leave results alone, start no goroutine past "verify"   *)
(* and delete nothing.                                                     *)
LEMMA OthersResult ==
  ASSUME IInv, [Next]_vars
  PROVE  \/ \E d \in Deliveries : HandlerStep(d)
         \/ /\ UNCHANGED result
            /\ \A e \in Deliveries :
                  hpc'[e] = hpc[e] \/ hpc'[e] \in {"none", "verify", "gone"}
            /\ \A m \in Messages : sqs'[m] = "deleted" => sqs[m] = "deleted"
<1> USE DEF ssqsVars, queueVars
<1>0. /\ hpc \in [Deliveries -> InSemaphore \cup {"none", "gone"}]
      /\ sqs \in [Messages -> {"visible", "inflight", "deleted"}]
  BY IInvTypes
<1>1. CASE Consume
  <2>1. CASE Poll \/ ReceiveError \/ SendError \/ \E d \in batch : SendMessage(d)
    BY <1>1, <2>1 DEF Consume, engineVars, Poll, ReceiveError, SendError, SendMessage
  <2>2. ASSUME NEW B \in SUBSET Visible, Receive(B), UNCHANGED engineVars
        PROVE  /\ UNCHANGED <<result, hpc>>
               /\ \A m \in Messages : sqs'[m] = "deleted" => sqs[m] = "deleted"
    BY <2>2 DEF Receive, engineVars
  <2>3. QED
    BY <1>1, <2>1, <2>2 DEF Consume, ConsumerStep, ReceiveSome
<1>2. CASE ConsumerStops \/ RunError \/ RunMessage \/ RunDone
  BY <1>2 DEF ConsumerStops, Finish, RunError, RunMessage, RunDone, engineVars
<1>3. CASE \E d \in Deliveries : StartHandler(d)
  BY <1>0, <1>3 DEF StartHandler, GoTo
<1>4. CASE Cancel \/ CloseBegins \/ CloseReturns
  BY <1>4 DEF Cancel, CloseBegins, CloseReturns, Close
<1>5. CASE Restart
  BY <1>5 DEF Restart
<1>6. CASE \E m \in Messages : VisibilityTimeout(m)
  BY <1>0, <1>6 DEF VisibilityTimeout, BecomeVisible, engineVars
<1>7. CASE UNCHANGED vars
  BY <1>7 DEF vars
<1>8. QED
  BY <1>1, <1>2, <1>3, <1>4, <1>5, <1>6, <1>7 DEF Next

LEMMA RemovedStep ==
  ASSUME IInv, ResultBeforeReply, RemovedOnlyIfHandled, [Next]_vars
  PROVE  ResultBeforeReply' /\ RemovedOnlyIfHandled'
<1>0. \A m \in Messages, n \in Receipts : <<m, n>> \in Deliveries
  BY DEF Deliveries
<1>1. ASSUME NEW d \in Deliveries, HandlerStep(d)
      PROVE  ResultBeforeReply' /\ RemovedOnlyIfHandled'
  <2>1. d = <<d[1], d[2]>> /\ d[2] \in Receipts
    BY DEF Deliveries
  <2>2. ASSUME NEW m \in Messages, sqs'[m] = "deleted"
        PROVE  \E n \in Receipts : result'[<<m, n>>] # "none"
    <3>1. CASE sqs[m] = "deleted"
      BY <1>0, <1>1, <3>1, HandlerResult DEF RemovedOnlyIfHandled
    <3>2. CASE m = d[1] /\ result'[d] # "none"
      BY <2>1, <3>2
    <3>3. QED
      BY <1>1, <2>2, <3>1, <3>2, HandlerResult
  <2>3. QED
    BY <1>1, <2>2, HandlerResult DEF RemovedOnlyIfHandled
<1>2. ASSUME UNCHANGED result,
             \A e \in Deliveries :
                hpc'[e] = hpc[e] \/ hpc'[e] \in {"none", "verify", "gone"},
             \A m \in Messages : sqs'[m] = "deleted" => sqs[m] = "deleted"
      PROVE  ResultBeforeReply' /\ RemovedOnlyIfHandled'
  BY <1>2 DEF ResultBeforeReply, RemovedOnlyIfHandled
<1>3. QED
  BY <1>1, <1>2, OthersResult

(* Whatever is killed, times out or fails on the way, a message leaves the *)
(* queue only after some handling goroutine has reached a result about it. *)
THEOREM RemovedHandled == Spec => []RemovedOnlyIfHandled
<1>1. Init => ResultBeforeReply /\ RemovedOnlyIfHandled
  BY DEF Init, SsqsInit, ResultBeforeReply, RemovedOnlyIfHandled
<1>2. IInv /\ (ResultBeforeReply /\ RemovedOnlyIfHandled) /\ [Next]_vars
         => (ResultBeforeReply /\ RemovedOnlyIfHandled)'
  BY RemovedStep
<1>3. QED
  BY <1>1, <1>2, Inductive, PTL DEF Spec

-----------------------------------------------------------------------------
(* A second delivery is paid for by a disturbance.                         *)

(* What pays: a step that delivers nothing either leaves what is owed as   *)
(* it is, or is a disturbance and then may lose one delivery of each       *)
(* message.                                                                *)
LEMMA Pays ==
  ASSUME IInv, DeliveriesPaid, UNCHANGED <<receives, ctxDone>>,
         \/ faults' = faults /\ \A m \in Messages : Owed(m)' => Owed(m)
         \/ faults' = faults + 1
  PROVE  DeliveriesPaid'
<1>1. faults \in Nat /\ \A m \in Messages : receives[m] \in Nat
  BY IInvTypes
<1>2. ASSUME NEW m \in Messages
      PROVE  receives[m] + (IF Owed(m)' THEN 1 ELSE 0) + (IF ctxDone THEN 1 ELSE 0)
                 <= 1 + faults'
  <2>1. receives[m] + (IF Owed(m) THEN 1 ELSE 0) + (IF ctxDone THEN 1 ELSE 0)
            <= 1 + faults
    BY <1>2 DEF DeliveriesPaid
  <2>2. CASE faults' = faults /\ (Owed(m)' => Owed(m))
    BY <1>1, <2>1, <2>2
  <2>3. CASE faults' = faults + 1
    BY <1>1, <2>1, <2>3
  <2>4. QED
    BY <1>2, <2>2, <2>3
<1>3. QED
  BY <1>2 DEF DeliveriesPaid

(* Nothing more is owed after a step that keeps what is held.              *)
LEMMA KeepsHeld ==
  ASSUME UNCHANGED <<sqs, receives>>,
         \A e \in Deliveries : Held(e) => Held(e)',
         \A e \in Deliveries : hpc'[e] = "deleteWait" => hpc[e] = "deleteWait",
         IInv
  PROVE  \A m \in Messages : Owed(m)' => Owed(m)
<1>1. \A e : Held(e) => e \in Deliveries
  BY IInvTypes DEF Held, In
<1>2. \A e : e \in In({"deleteWait"})' => e \in In({"deleteWait"})
  BY DEF In
<1>3. ASSUME NEW m \in Messages, Owed(m)'
      PROVE  Owed(m)
  <2>1. Newest(m)' = Newest(m)
    BY DEF Newest
  <2>2. Held(Newest(m)) => Held(Newest(m))'
    BY <1>1, <2>1
  <2>3. QED
    BY <1>2, <1>3, <2>1, <2>2 DEF Owed
<1>4. QED
  BY <1>3

(* A handling goroutine lets go of the newest delivery of a message that   *)
(* is not removed only from "deleteWait".                                  *)
LEMMA HandlerOwes ==
  ASSUME IInv, NEW d \in Deliveries, HandlerStep(d)
  PROVE  \/ faults' = faults /\ \A m \in Messages : Owed(m)' => Owed(m)
         \/ faults' = faults + 1
<1> USE DEF At, GoTo, ssqsVars, queueVars, consumerVars
<1>0. /\ hpc \in [Deliveries -> InSemaphore \cup {"none", "gone"}]
      /\ sqs \in [Messages -> {"visible", "inflight", "deleted"}]
      /\ d[1] \in Messages
      /\ \A e : Held(e) => e \in Deliveries
  BY IInvTypes DEF Deliveries, Held, In
<1>1. CASE \/ Verify(d) \/ HandlerReturns(d) \/ ReplySucceeds(d)
           \/ RetryReply(d) \/ AbandonReply(d) \/ RetryDelete(d)
           \/ LeaveWaitGroup(d) \/ LeaveSemaphore(d)
  <2>1. /\ UNCHANGED <<sqs, receives, faults, batch, msgChan, cur>>
        /\ \E pc \in InSemaphore \cup {"gone"} :
              /\ hpc' = [hpc EXCEPT ![d] = pc]
              /\ pc # "deleteWait"
              /\ hpc[d] \in Working => pc \in Working
    BY <1>1 DEF Verify, HandlerReturns, ReplySucceeds, RetryReply, AbandonReply,
       RetryDelete, LeaveWaitGroup, LeaveSemaphore, InSemaphore, InWaitGroup, Working
  <2>2. \A e \in Deliveries : Held(e) => Held(e)'
    BY <1>0, <2>1 DEF Held, In
  <2>3. \A e \in Deliveries : hpc'[e] = "deleteWait" => hpc[e] = "deleteWait"
    BY <1>0, <2>1
  <2>4. QED
    BY <2>1, <2>2, <2>3, KeepsHeld
<1>2. CASE ReplyFails(d)
  <2>1. CASE ctxDone
    <3>1. /\ UNCHANGED <<sqs, receives, faults, batch, msgChan, cur>>
          /\ hpc' = [hpc EXCEPT ![d] = "replyWait"]
      BY <1>2, <2>1 DEF ReplyFails
    <3>2. \A e \in Deliveries : Held(e) => Held(e)'
      BY <1>0, <3>1 DEF Held, In, Working
    <3>3. \A e \in Deliveries : hpc'[e] = "deleteWait" => hpc[e] = "deleteWait"
      BY <1>0, <3>1
    <3>4. QED
      BY <3>1, <3>2, <3>3, KeepsHeld
  <2>2. CASE ~ctxDone
    BY <1>2, <2>2 DEF ReplyFails, Disturb
  <2>3. QED
    BY <2>1, <2>2
<1>3. CASE DeleteFails(d)
  BY <1>3 DEF DeleteFails, Disturb
<1>4. CASE DeleteSucceeds(d) \/ AbandonDelete(d)
  <2>1. /\ UNCHANGED <<receives, faults, batch, msgChan, cur>>
        /\ hpc' = [hpc EXCEPT ![d] = "finish"]
        /\ \/ sqs' = [sqs EXCEPT ![d[1]] = "deleted"]
           \/ sqs' = sqs /\ d # Newest(d[1])
           \/ sqs' = sqs /\ hpc[d] = "deleteWait"
    BY <1>4 DEF DeleteSucceeds, AbandonDelete, RemoveMessage
  <2>2. ASSUME NEW m \in Messages, Owed(m)'
        PROVE  Owed(m)
    <3>1. Newest(m)' = Newest(m) /\ sqs'[m] # "deleted" /\ sqs'[m] = sqs[m]
      BY <1>0, <2>1, <2>2 DEF Newest, Owed
    <3>2. CASE d # Newest(m)
      <4>1. Held(Newest(m)) => Held(Newest(m))'
        BY <1>0, <2>1, <3>1, <3>2 DEF Held, In
      <4>2. Newest(m) \in In({"deleteWait"})' => Newest(m) \in In({"deleteWait"})
        BY <1>0, <2>1, <3>2 DEF In
      <4>3. QED
        BY <2>2, <3>1, <4>1, <4>2 DEF Owed
    <3>3. CASE d = Newest(m)
      <4>1. d[1] = m
        BY <3>3 DEF Newest
      <4>2. hpc[d] = "deleteWait"
        BY <1>0, <2>1, <3>1, <3>3, <4>1
      <4>3. QED
        BY <2>2, <3>1, <3>3, <4>2 DEF Owed, In
    <3>4. QED
      BY <3>2, <3>3
  <2>3. QED
    BY <2>1, <2>2
<1>5. QED
  BY <1>1, <1>2, <1>3, <1>4 DEF HandlerStep

LEMMA DeliveriesPaidStep ==
  ASSUME IInv, OneAtATime, DeliveriesPaid, [Next]_vars
  PROVE  DeliveriesPaid'
<1> USE DEF ssqsVars, queueVars, consumerVars
<1>t. /\ receives \in [Messages -> 0 .. (MaxFaults + 1)]
      /\ sqs \in [Messages -> {"visible", "inflight", "deleted"}]
      /\ hpc \in [Deliveries -> InSemaphore \cup {"none", "gone"}]
      /\ faults \in Nat
      /\ ctxDone \in BOOLEAN
      /\ \A e : Held(e) => e \in Deliveries
  BY IInvTypes DEF Held, In
<1>0. ASSUME UNCHANGED <<sqs, receives, ctxDone, faults>>,
             \A e \in Deliveries : Held(e) => Held(e)',
             \A e \in Deliveries : hpc'[e] = "deleteWait" => hpc[e] = "deleteWait"
      PROVE  DeliveriesPaid'
  BY <1>0, KeepsHeld, Pays
<1>1. CASE Consume
  <2>1. CASE Poll \/ ReceiveError \/ SendError
    BY <1>0, <1>1, <2>1 DEF Consume, engineVars, Poll, ReceiveError, SendError, Held, In
  <2>2. ASSUME NEW B \in SUBSET Visible, Receive(B), UNCHANGED engineVars
        PROVE  DeliveriesPaid'
    <3>1. batch = {}
      BY <2>2 DEF Receive, OneAtATime
    <3>2. ASSUME NEW m \in Messages
          PROVE  receives'[m] + (IF Owed(m)' THEN 1 ELSE 0) + (IF ctxDone THEN 1 ELSE 0)
                     <= 1 + faults
      <4>1. receives[m] + (IF Owed(m) THEN 1 ELSE 0) + (IF ctxDone THEN 1 ELSE 0)
                <= 1 + faults
        BY <3>2 DEF DeliveriesPaid
      <4>2. CASE m \in B
        <5>1. /\ receives'[m] = receives[m] + 1 /\ sqs'[m] = "inflight"
              /\ Newest(m)' = <<m, receives[m] + 1>>
              /\ Newest(m)' \in Deliveries /\ hpc[Newest(m)'] = "none"
              /\ sqs[m] = "visible" /\ hpc' = hpc
          BY <2>2, <4>2, ReceiveFrame DEF Newest
        <5>2. Newest(m)' \in batch'
          BY <2>2, <4>2, <5>1, ReceiveFrame
        <5>3. Owed(m)
          BY <5>1 DEF Owed
        <5>4. ~Owed(m)'
          BY <5>1, <5>2 DEF Owed, Held, In
        <5>5. QED
          BY <1>t, <4>1, <5>1, <5>3, <5>4
      <4>3. CASE m \notin B
        <5>1. /\ receives'[m] = receives[m] /\ sqs'[m] = sqs[m]
              /\ Newest(m)' = Newest(m)
              /\ UNCHANGED <<msgChan, cur, hpc>>
          BY <2>2, <4>3, ReceiveFrame DEF Newest
        <5>2. Held(Newest(m)) => Held(Newest(m))'
          BY <3>1, <5>1 DEF Held, In
        <5>3. Owed(m)' => Owed(m)
          BY <5>1, <5>2 DEF Owed, In
        <5>4. QED
          BY <1>t, <4>1, <5>1, <5>3
      <4>4. QED
        BY <4>2, <4>3
    <3>3. QED
      BY <2>2, <3>2, ReceiveFrame DEF DeliveriesPaid
  <2>3. ASSUME NEW d \in batch, SendMessage(d), UNCHANGED engineVars
        PROVE  DeliveriesPaid'
    BY <1>0, <2>3 DEF SendMessage, engineVars, Held, In
  <2>4. QED
    BY <1>1, <2>1, <2>2, <2>3 DEF Consume, ConsumerStep, ReceiveSome
<1>2. CASE ConsumerStops
  BY <1>0, <1>2 DEF ConsumerStops, Finish, Held, In
<1>3. CASE RunError \/ RunMessage \/ RunDone
  BY <1>0, <1>3 DEF RunError, RunMessage, RunDone, Selecting, engineVars, Held, In
<1>4. ASSUME NEW d \in Deliveries, StartHandler(d)
      PROVE  DeliveriesPaid'
  <2>1. /\ cur = {d} /\ cur' = {} /\ hpc' = [hpc EXCEPT ![d] = "verify"]
        /\ UNCHANGED <<sqs, receives, ctxDone, faults, batch, msgChan>>
    BY <1>4 DEF StartHandler, GoTo, OneAtATime
  <2>2. \A e \in Deliveries : Held(e) => Held(e)'
    BY <1>t, <2>1 DEF Held, In, Working
  <2>3. QED
    BY <1>0, <1>t, <2>1, <2>2
<1>5. ASSUME NEW d \in Deliveries, HandlerStep(d)
      PROVE  DeliveriesPaid'
  BY <1>5, HandlerFrame, HandlerOwes, Pays
<1>6. CASE Cancel
  <2>1. /\ ~ctxDone /\ ctxDone' /\ faults' = faults + 1
        /\ UNCHANGED <<sqs, receives, batch, msgChan, cur, hpc>>
    BY <1>6 DEF Cancel, Disturb
  <2>2. ASSUME NEW m \in Messages
        PROVE  /\ receives[m] + (IF Owed(m) THEN 1 ELSE 0) <= 1 + faults
               /\ Owed(m)' <=> Owed(m)
    BY <1>t, <2>1 DEF DeliveriesPaid, Owed, Held, In, Newest
  <2>3. QED
    BY <1>t, <2>1, <2>2 DEF DeliveriesPaid
<1>7. CASE CloseBegins \/ CloseReturns
  BY <1>0, <1>7 DEF CloseBegins, CloseReturns, Close, Held, In
<1>8. CASE Restart
  <2>1. /\ UNCHANGED receives /\ ~ctxDone'
        /\ (ctxDone /\ faults' = faults) \/ faults' = faults + 1
    BY <1>8 DEF Restart, Disturb
  <2>2. ASSUME NEW m \in Messages
        PROVE  receives[m] + 1 <= 1 + faults'
    <3>1. receives[m] + (IF Owed(m) THEN 1 ELSE 0) + (IF ctxDone THEN 1 ELSE 0)
              <= 1 + faults
      BY <2>2 DEF DeliveriesPaid
    <3>2. QED
      BY <1>t, <2>1, <3>1
  <2>3. QED
    BY <1>t, <2>1, <2>2 DEF DeliveriesPaid
<1>9. ASSUME NEW m \in Messages, VisibilityTimeout(m)
      PROVE  DeliveriesPaid'
  <2>1. /\ sqs[m] = "inflight" /\ sqs' = [sqs EXCEPT ![m] = "visible"]
        /\ UNCHANGED <<receives, ctxDone, batch, msgChan, cur, hpc>>
        /\ \/ faults' = faults + 1
           \/ faults' = faults /\ ~Held(Newest(m))
    BY <1>9 DEF VisibilityTimeout, BecomeVisible, engineVars, Disturb
  <2>2. ASSUME ~Held(Newest(m)), NEW n \in Messages, Owed(n)'
        PROVE  Owed(n)
    BY <1>t, <2>1, <2>2 DEF Owed, Held, In, Newest
  <2>3. QED
    BY <2>1, <2>2, Pays
<1>10. CASE UNCHANGED vars
  BY <1>0, <1>10 DEF vars, Held, In
<1>11. QED
  BY <1>1, <1>2, <1>3, <1>4, <1>5, <1>6, <1>7, <1>8, <1>9, <1>10 DEF Next

(* However the goroutines and SQS interleave, a message is handed out a    *)
(* second time only if a crash, a shutdown, a failed call or a missed      *)
(* visibility timeout has paid for it.                                     *)
THEOREM RedeliveryPaid == Spec => []RedeliveryNeedsFault
<1>1. Init => OneAtATime /\ DeliveriesPaid
  BY DEF Init, SsqsInit, ConsumerInit, OneAtATime, DeliveriesPaid, Owed
<1>2. IInv /\ (OneAtATime /\ DeliveriesPaid) /\ [Next]_vars
         => (OneAtATime /\ DeliveriesPaid)'
  BY OneAtATimeStep, DeliveriesPaidStep
<1>3. IInv /\ DeliveriesPaid => RedeliveryNeedsFault
  <2> SUFFICES ASSUME IInv, DeliveriesPaid, NEW m \in Messages
               PROVE  receives[m] <= 1 + faults
    BY DEF RedeliveryNeedsFault
  <2>1. receives[m] \in Nat /\ faults \in Nat
    BY IInvTypes
  <2>2. receives[m] + (IF Owed(m) THEN 1 ELSE 0) + (IF ctxDone THEN 1 ELSE 0)
            <= 1 + faults
    BY DEF DeliveriesPaid
  <2>3. QED
    BY <2>1, <2>2
<1>4. QED
  BY <1>1, <1>2, <1>3, Inductive, PTL DEF Spec
=============================================================================
