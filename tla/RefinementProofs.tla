-------------------------- MODULE RefinementProofs --------------------------
(***************************************************************************)
(* Module Engine implements module Delivery, provided messages are handled *)
(* within their visibility timeout: every step of the engine is a step of  *)
(* Delivery, or none.                                                      *)
(***************************************************************************)
EXTENDS MessageProofs

(* A goroutine has no result before its handler has, and writes no         *)
(* response before it has a result.                                        *)
ResultIsFirst ==
    \A d \in Deliveries :
        /\ hpc[d] \in {"none", "verify", "handle"} => result[d] = "none"
        /\ outbound[d] > 0 => result[d] # "none"

(* The newest delivery of a removed message is past its reply: what is     *)
(* removed is not worked on any more.                                      *)
RemovedIsDone ==
    \A m \in Messages :
        sqs[m] = "deleted" =>
            /\ Newest(m) \in Deliveries
            /\ hpc[Newest(m)] \in {"delete", "deleteWait", "finish", "release", "gone"}

RInv ==
    /\ IInv
    /\ HeldIsHidden
    /\ ResultBeforeReply
    /\ ResultIsFirst
    /\ RemovedIsDone

(* The types the proofs below need, in one place.                          *)
LEMMA RTypes ==
  ASSUME IInv
  PROVE  /\ hpc \in [Deliveries -> InSemaphore \cup {"none", "gone"}]
         /\ result \in [Deliveries -> {"none", "ok", "err"}]
         /\ outbound \in [Deliveries -> Nat]
         /\ sqs \in [Messages -> {"visible", "inflight", "deleted"}]
         /\ \A d \in Deliveries :
               d[1] \in Messages /\ d[2] \in Receipts /\ d = <<d[1], d[2]>>
         /\ \A m \in Messages, n \in Receipts : <<m, n>> \in Deliveries
BY IInvTypes DEF Deliveries, IInv, TypeOK

(* All steps but those of handling goroutines write no result and no       *)
(* response, remove nothing, and bring back or hand out nothing removed.   *)
LEMMA OthersFrame ==
  ASSUME IInv, [Next]_vars
  PROVE  \/ \E d \in Deliveries : HandlerStep(d)
         \/ /\ UNCHANGED <<result, outbound>>
            /\ \A d \in Deliveries :
                  \/ hpc'[d] = hpc[d] \/ hpc'[d] = "gone"
                  \/ hpc[d] = "none" /\ hpc'[d] = "verify"
            /\ \A m \in Messages :
                  /\ sqs'[m] = "deleted" <=> sqs[m] = "deleted"
                  /\ sqs[m] = "deleted" => receives'[m] = receives[m]
<1> USE DEF ssqsVars, queueVars, consumerVars, engineVars
<1>0. /\ hpc \in [Deliveries -> InSemaphore \cup {"none", "gone"}]
      /\ sqs \in [Messages -> {"visible", "inflight", "deleted"}]
  BY RTypes
<1>1. CASE Consume
  <2>1. CASE Poll \/ ReceiveError \/ SendError \/ \E d \in batch : SendMessage(d)
    BY <1>1, <2>1 DEF Consume, Poll, ReceiveError, SendError, SendMessage
  <2>2. ASSUME NEW B \in SUBSET Visible, Receive(B), UNCHANGED engineVars
        PROVE  /\ UNCHANGED <<result, outbound, hpc>>
               /\ \A m \in Messages :
                     /\ sqs'[m] = "deleted" <=> sqs[m] = "deleted"
                     /\ sqs[m] = "deleted" => receives'[m] = receives[m]
    BY <2>2 DEF Receive, Visible
  <2>3. QED
    BY <1>1, <2>1, <2>2 DEF Consume, ConsumerStep, ReceiveSome
<1>2. CASE ConsumerStops \/ RunError \/ RunMessage \/ RunDone
  BY <1>2 DEF ConsumerStops, Finish, RunError, RunMessage, RunDone
<1>3. ASSUME NEW d \in Deliveries, StartHandler(d)
      PROVE  /\ UNCHANGED <<result, outbound, sqs, receives>>
             /\ hpc[d] = "none" /\ hpc' = [hpc EXCEPT ![d] = "verify"]
  BY <1>3 DEF StartHandler, GoTo, IInv, InTransitIsFresh, InTransit
<1>4. CASE Cancel \/ CloseBegins \/ CloseReturns
  BY <1>4 DEF Cancel, CloseBegins, CloseReturns, Close
<1>5. CASE Restart
  <2>1. UNCHANGED <<result, outbound, sqs, receives>>
    BY <1>5 DEF Restart
  <2>2. \A d \in Deliveries : hpc'[d] = hpc[d] \/ hpc'[d] = "gone"
    BY <1>5 DEF Restart
  <2>3. QED
    BY <2>1, <2>2
<1>6. ASSUME NEW m \in Messages, VisibilityTimeout(m)
      PROVE  /\ UNCHANGED <<result, outbound, hpc>>
             /\ \A n \in Messages :
                   /\ sqs'[n] = "deleted" <=> sqs[n] = "deleted"
                   /\ receives'[n] = receives[n]
  BY <1>0, <1>6 DEF VisibilityTimeout, BecomeVisible
<1>7. CASE UNCHANGED vars
  BY <1>7 DEF vars
<1>8. QED
  BY <1>0, <1>1, <1>2, <1>3, <1>4, <1>5, <1>6, <1>7 DEF Next

(* What a handling goroutine does to results, responses and the queue: it  *)
(* reaches a result, may write it as a response, may remove its message.   *)
LEMMA HandlerEffect ==
  ASSUME IInv, NEW d \in Deliveries, HandlerStep(d)
  PROVE  \/ /\ hpc[d] \in {"verify", "handle"}
            /\ hpc' = [hpc EXCEPT ![d] = "reply"]
            /\ \E r \in {"ok", "err"} : result' = [result EXCEPT ![d] = r]
            /\ UNCHANGED <<outbound, sqs>>
         \/ /\ hpc[d] = "reply"
            /\ \E pc \in {"delete", "replyWait"} : hpc' = [hpc EXCEPT ![d] = pc]
            /\ outbound' = [outbound EXCEPT ![d] = @ + 1]
            /\ UNCHANGED <<result, sqs>>
         \/ /\ hpc[d] = "delete"
            /\ \E pc \in {"finish", "deleteWait"} : hpc' = [hpc EXCEPT ![d] = pc]
            /\ sqs' = [sqs EXCEPT ![d[1]] = "deleted"]
            /\ UNCHANGED <<result, outbound>>
         \/ /\ \/ hpc[d] = "verify" /\ hpc' = [hpc EXCEPT ![d] = "handle"]
               \/ /\ hpc[d] \notin {"none", "verify", "handle"}
                  /\ \E pc \in InSemaphore \cup {"gone"} :
                        /\ hpc' = [hpc EXCEPT ![d] = pc]
                        /\ pc \notin {"verify", "handle"}
                        /\ hpc[d] \in {"delete", "deleteWait"} =>
                              pc \in {"delete", "deleteWait", "finish"}
                        /\ hpc[d] \notin Working => pc \notin Working
            /\ UNCHANGED <<result, outbound, sqs>>
<1> USE DEF At, GoTo, ssqsVars, queueVars, consumerVars
<1>1. CASE Verify(d)
  BY <1>1 DEF Verify
<1>2. CASE HandlerReturns(d)
  BY <1>2 DEF HandlerReturns
<1>3. CASE ReplySucceeds(d)
  BY <1>3 DEF ReplySucceeds
<1>4. CASE ReplyFails(d)
  BY <1>4 DEF ReplyFails, InSemaphore, InWaitGroup, Working
<1>5. CASE RetryReply(d) \/ AbandonReply(d)
  BY <1>5 DEF RetryReply, AbandonReply, InSemaphore, InWaitGroup, Working
<1>6. CASE DeleteSucceeds(d)
  BY <1>6 DEF DeleteSucceeds, RemoveMessage, InSemaphore, InWaitGroup, Working
<1>7. CASE DeleteFails(d)
  BY <1>7 DEF DeleteFails, RemoveMessage, InSemaphore, InWaitGroup, Working
<1>8. CASE RetryDelete(d) \/ AbandonDelete(d)
  BY <1>8 DEF RetryDelete, AbandonDelete, InSemaphore, InWaitGroup, Working
<1>9. CASE LeaveWaitGroup(d) \/ LeaveSemaphore(d)
  BY <1>9 DEF LeaveWaitGroup, LeaveSemaphore, InSemaphore, InWaitGroup, Working
<1>10. QED
  BY <1>1, <1>2, <1>3, <1>4, <1>5, <1>6, <1>7, <1>8, <1>9 DEF HandlerStep
-----------------------------------------------------------------------------
(* One step keeps RInv.                                                    *)

LEMMA ResultIsFirstStep ==
  ASSUME IInv, ResultBeforeReply, ResultIsFirst, [Next]_vars
  PROVE  ResultIsFirst'
<1> USE DEF ResultIsFirst, ResultBeforeReply
<1>1. ASSUME NEW d \in Deliveries, HandlerStep(d)
      PROVE  ResultIsFirst'
  <2> USE RTypes
  <2>1. CASE /\ hpc' = [hpc EXCEPT ![d] = "reply"]
             /\ \E r \in {"ok", "err"} : result' = [result EXCEPT ![d] = r]
             /\ UNCHANGED outbound
    BY <2>1
  <2>2. CASE /\ hpc[d] = "reply"
             /\ \E pc \in {"delete", "replyWait"} : hpc' = [hpc EXCEPT ![d] = pc]
             /\ outbound' = [outbound EXCEPT ![d] = @ + 1]
             /\ UNCHANGED result
    BY <2>2
  <2>3. CASE /\ \E pc \in InSemaphore \cup {"gone"} :
                   hpc' = [hpc EXCEPT ![d] = pc] /\ pc \notin {"verify", "handle"}
             /\ UNCHANGED <<result, outbound>>
    BY <2>3 DEF InSemaphore, InWaitGroup, Working
  <2>4. CASE /\ hpc[d] = "verify" /\ hpc' = [hpc EXCEPT ![d] = "handle"]
             /\ UNCHANGED <<result, outbound>>
    BY <2>4
  <2>5. {"finish", "deleteWait"} \subseteq InSemaphore
    BY DEF InSemaphore, InWaitGroup, Working
  <2>6. QED
    BY <1>1, <2>1, <2>2, <2>3, <2>4, <2>5, HandlerEffect
<1>2. ASSUME UNCHANGED <<result, outbound>>,
             \A d \in Deliveries :
                \/ hpc'[d] = hpc[d] \/ hpc'[d] = "gone"
                \/ hpc[d] = "none" /\ hpc'[d] = "verify"
      PROVE  ResultIsFirst'
  BY <1>2
<1>3. QED
  BY <1>1, <1>2, OthersFrame

(* Who works on a message before its removal holds the newest delivery of  *)
(* it, and so the message is still there.                                  *)
LEMMA WorkerHoldsNewest ==
  ASSUME RInv, NEW d \in Deliveries,
         hpc[d] \in {"verify", "handle", "reply", "replyWait"}
  PROVE  d = Newest(d[1]) /\ sqs[d[1]] = "inflight"
<1>1. Held(d)
  BY DEF Held, In, Working
<1>2. d = Newest(d[1]) /\ sqs[d[1]] # "visible"
  BY <1>1 DEF RInv, HeldIsHidden
<1>3. sqs[d[1]] # "deleted"
  BY <1>2, RTypes DEF RInv, RemovedIsDone
<1>4. QED
  BY <1>2, <1>3, RTypes DEF RInv

LEMMA RemovedIsDoneStep ==
  ASSUME RInv, [Next]_vars
  PROVE  RemovedIsDone'
<1> USE DEF RemovedIsDone, Newest
<1>t. /\ IInv
      /\ hpc \in [Deliveries -> InSemaphore \cup {"none", "gone"}]
      /\ sqs \in [Messages -> {"visible", "inflight", "deleted"}]
      /\ \A d \in Deliveries : d[1] \in Messages
  BY RTypes DEF RInv
<1>1. ASSUME NEW d \in Deliveries, HandlerStep(d)
      PROVE  RemovedIsDone'
  <2>1. UNCHANGED receives
    BY <1>1, <1>t, HandlerFrame
  <2> SUFFICES ASSUME NEW m \in Messages, sqs'[m] = "deleted"
               PROVE  /\ Newest(m) \in Deliveries
                      /\ hpc'[Newest(m)] \in
                            {"delete", "deleteWait", "finish", "release", "gone"}
    BY <2>1
  <2>2. CASE sqs[m] = "deleted"
    <3>1. /\ Newest(m) \in Deliveries
          /\ hpc[Newest(m)] \in {"delete", "deleteWait", "finish", "release", "gone"}
      BY <2>2 DEF RInv
    <3>2. CASE d # Newest(m)
      BY <1>1, <1>t, <3>1, <3>2, HandlerEffect
    <3>3. CASE d = Newest(m)
      BY <1>1, <1>t, <3>1, <3>3, HandlerEffect DEF InSemaphore, InWaitGroup, Working
    <3>4. QED
      BY <3>2, <3>3
  <2>3. CASE sqs[m] # "deleted"
    <3>1. /\ m = d[1] /\ hpc[d] = "delete"
          /\ \E pc \in {"finish", "deleteWait"} : hpc' = [hpc EXCEPT ![d] = pc]
      BY <1>1, <1>t, <2>3, HandlerEffect
    <3>2. d = Newest(m)
      <4>1. Held(d)
        BY <3>1 DEF Held, In, Working
      <4>2. QED
        BY <3>1, <4>1 DEF RInv, HeldIsHidden
    <3>3. QED
      BY <1>t, <3>1, <3>2
  <2>4. QED
    BY <2>2, <2>3
<1>2. ASSUME \A d \in Deliveries :
                \/ hpc'[d] = hpc[d] \/ hpc'[d] = "gone"
                \/ hpc[d] = "none" /\ hpc'[d] = "verify",
             \A m \in Messages :
                /\ sqs'[m] = "deleted" <=> sqs[m] = "deleted"
                /\ sqs[m] = "deleted" => receives'[m] = receives[m]
      PROVE  RemovedIsDone'
  BY <1>2 DEF RInv
<1>3. QED
  BY <1>1, <1>2, <1>t, OthersFrame
-----------------------------------------------------------------------------
(* What each effect is in Delivery.                                        *)

(* A delivery that gets a result adds it to what its message has reached.  *)
LEMMA ReachedGrows ==
  ASSUME IInv, NEW d \in Deliveries, NEW r \in {"ok", "err"}, result[d] = "none",
         result' = [result EXCEPT ![d] = r], NEW m \in Messages
  PROVE  reachedBy(m)' = IF m = d[1] THEN reachedBy(m) \cup {r} ELSE reachedBy(m)
<1>1. ASSUME NEW n \in Receipts
      PROVE  result'[<<m, n>>] = IF <<m, n>> = d THEN r ELSE result[<<m, n>>]
  BY RTypes
<1>2. m = d[1] => <<m, d[2]>> = d /\ d[2] \in Receipts
  BY RTypes
<1>3. \A n \in Receipts : <<m, n>> = d => m = d[1]
  OBVIOUS
<1>4. \A v : v \in reachedBy(m) <=>
          v # "none" /\ \E n \in Receipts : v = result[<<m, n>>]
  BY DEF reachedBy
<1>5. \A v : v \in reachedBy(m)' <=>
          v # "none" /\ \E n \in Receipts : v = result'[<<m, n>>]
  BY DEF reachedBy
<1>6. CASE m # d[1]
  <2>1. \A n \in Receipts : result'[<<m, n>>] = result[<<m, n>>]
    BY <1>1, <1>3, <1>6
  <2>2. \A v : v \in reachedBy(m)' <=> v \in reachedBy(m)
    BY <1>4, <1>5, <2>1
  <2>3. QED
    BY <1>6, <2>2
<1>7. CASE m = d[1]
  <2>1. result[d] = "none" /\ result'[<<m, d[2]>>] = r /\ r # "none"
    BY <1>1, <1>2, <1>7
  <2>2. ASSUME NEW v \in reachedBy(m) PROVE v \in reachedBy(m)'
    <3>1. PICK n \in Receipts : v # "none" /\ v = result[<<m, n>>]
      BY <1>4
    <3>2. v = result'[<<m, n>>]
      BY <1>1, <2>1, <3>1
    <3>3. QED
      BY <1>5, <3>1, <3>2
  <2>3. ASSUME NEW v \in reachedBy(m)' PROVE v \in reachedBy(m) \cup {r}
    BY <1>1, <1>4, <1>5, <2>3
  <2>4. r \in reachedBy(m)'
    BY <1>2, <1>5, <1>7, <2>1
  <2>5. \A v : v \in reachedBy(m)' <=> v \in reachedBy(m) \cup {r}
    BY <2>2, <2>3, <2>4
  <2>6. QED
    BY <1>7, <2>5
<1>8. QED
  BY <1>6, <1>7

(* It adds nothing to what is reported, having written nothing before.     *)
LEMMA ReportedKept ==
  ASSUME IInv, ResultIsFirst, NEW d \in Deliveries, result[d] = "none",
         \A e \in Deliveries : e # d => result'[e] = result[e],
         UNCHANGED outbound, NEW m \in Messages
  PROVE  reportedFor(m)' = reportedFor(m)
<1>1. ~(outbound[d] > 0)
  BY DEF ResultIsFirst
<1>2. \A e \in {m} \X Receipts : outbound[e] > 0 => result'[e] = result[e]
  BY <1>1 DEF Deliveries
<1>3. \A v : v \in reportedFor(m) <=>
          \E e \in {m} \X Receipts : outbound[e] > 0 /\ v = result[e]
  BY DEF reportedFor
<1>4. \A v : v \in reportedFor(m)' <=>
          \E e \in {m} \X Receipts : outbound[e] > 0 /\ v = result'[e]
  BY DEF reportedFor
<1>5. \A v : v \in reportedFor(m)' <=> v \in reportedFor(m)
  BY <1>2, <1>3, <1>4
<1>6. QED
  BY <1>5

(* A response that is written reports the result of its delivery.          *)
LEMMA ReportedGrows ==
  ASSUME IInv, NEW d \in Deliveries, UNCHANGED result,
         outbound' = [outbound EXCEPT ![d] = @ + 1], NEW m \in Messages
  PROVE  reportedFor(m)' =
            IF m = d[1] THEN reportedFor(m) \cup {result[d]} ELSE reportedFor(m)
<1>1. ASSUME NEW e \in Deliveries
      PROVE  outbound'[e] > 0 <=> e = d \/ outbound[e] > 0
  BY RTypes
<1>2. {m} \X Receipts \subseteq Deliveries
  BY DEF Deliveries
<1>3. d \in {m} \X Receipts <=> m = d[1]
  BY RTypes
<1>4. \A v : v \in reportedFor(m) <=>
          \E e \in {m} \X Receipts : outbound[e] > 0 /\ v = result[e]
  BY DEF reportedFor
<1>5. \A v : v \in reportedFor(m)' <=>
          \E e \in {m} \X Receipts : outbound'[e] > 0 /\ v = result[e]
  BY DEF reportedFor
<1>6. CASE m # d[1]
  <2>1. \A v : v \in reportedFor(m)' <=> v \in reportedFor(m)
    BY <1>1, <1>2, <1>3, <1>4, <1>5, <1>6
  <2>2. QED
    BY <1>6, <2>1
<1>7. CASE m = d[1]
  <2>1. \A v : v \in reportedFor(m)' <=> v \in reportedFor(m) \cup {result[d]}
    BY <1>1, <1>2, <1>3, <1>4, <1>5, <1>7
  <2>2. QED
    BY <1>7, <2>1
<1>8. QED
  BY <1>6, <1>7

(* What is reported, or found by a goroutine that deletes, was reached.    *)
LEMMA ResultWasReached ==
  ASSUME RInv, NEW d \in Deliveries,
         hpc[d] \in {"reply", "replyWait", "delete", "deleteWait"}
  PROVE  d[1] \in Messages /\ result[d] \in reachedBy(d[1])
BY RTypes DEF RInv, ResultBeforeReply, reachedBy
-----------------------------------------------------------------------------
(* Every step of the engine is a step of Delivery, or changes nothing that *)
(* Delivery sees.                                                          *)

reached == [m \in Messages |-> reachedBy(m)]
reported == [m \in Messages |-> reportedFor(m)]
removed == {m \in Messages : sqs[m] = "deleted"}

LEMMA WorkStep ==
  ASSUME RInv, NEW d \in Deliveries, hpc[d] \in {"verify", "handle"},
         NEW r \in {"ok", "err"}, result' = [result EXCEPT ![d] = r],
         UNCHANGED <<outbound, sqs>>
  PROVE  Promise!Work(d[1])
<1>1. d[1] \in Messages /\ d[1] \notin removed
  BY RTypes, WorkerHoldsNewest DEF RInv, removed
<1>2. IInv /\ ResultIsFirst /\ result[d] = "none"
  BY DEF RInv, ResultIsFirst
<1>3. reached' = [reached EXCEPT ![d[1]] = @ \cup {r}]
  BY <1>1, <1>2, ReachedGrows DEF reached
<1>4. reported' = reported
  <2>1. \A e \in Deliveries : e # d => result'[e] = result[e]
    BY <1>2, RTypes
  <2>2. \A m \in Messages : reportedFor(m)' = reportedFor(m)
    BY <1>2, <2>1, ReportedKept
  <2>3. QED
    BY <2>2 DEF reported
<1>5. removed' = removed
  BY DEF removed
<1>6. QED
  BY <1>1, <1>3, <1>4, <1>5 DEF Promise!Work, Promise!Results, reached, reported, removed

LEMMA ReportStep ==
  ASSUME RInv, NEW d \in Deliveries, hpc[d] = "reply",
         outbound' = [outbound EXCEPT ![d] = @ + 1], UNCHANGED <<result, sqs>>
  PROVE  Promise!Report(d[1])
<1>1. d[1] \in Messages /\ d[1] \notin removed
  BY RTypes, WorkerHoldsNewest DEF RInv, removed
<1>2. result[d] \in reached[d[1]]
  BY <1>1, ResultWasReached DEF reached
<1>3. reported' = [reported EXCEPT ![d[1]] = @ \cup {result[d]}]
  BY <1>1, ReportedGrows DEF RInv, reported
<1>4. reached' = reached /\ removed' = removed
  BY DEF reached, reachedBy, removed
<1>5. QED
  BY <1>1, <1>2, <1>3, <1>4 DEF Promise!Report, reached, reported, removed

LEMMA RemoveStep ==
  ASSUME RInv, NEW d \in Deliveries, hpc[d] = "delete",
         sqs' = [sqs EXCEPT ![d[1]] = "deleted"], UNCHANGED <<result, outbound>>
  PROVE  Promise!Remove(d[1])
<1>1. d[1] \in Messages /\ reached[d[1]] # {}
  BY ResultWasReached DEF reached
<1>2. removed' = removed \cup {d[1]}
  BY <1>1, RTypes DEF RInv, removed
<1>3. reached' = reached /\ reported' = reported
  BY DEF reached, reachedBy, reported, reportedFor
<1>4. QED
  BY <1>1, <1>2, <1>3 DEF Promise!Remove, reached, reported, removed

LEMMA UnseenStep ==
  ASSUME UNCHANGED <<result, outbound>>,
         \A m \in Messages : sqs'[m] = "deleted" <=> sqs[m] = "deleted"
  PROVE  UNCHANGED Promise!deliveryVars
<1>1. reached' = reached /\ reported' = reported /\ removed' = removed
  BY DEF reached, reachedBy, reported, reportedFor, removed
<1>2. QED
  BY <1>1 DEF Promise!deliveryVars, reached, reported, removed

LEMMA StepRefines ==
  ASSUME RInv, [Next]_vars
  PROVE  [Promise!Next]_(Promise!deliveryVars)
<1>1. ASSUME NEW d \in Deliveries, HandlerStep(d)
      PROVE  \/ Promise!Work(d[1]) \/ Promise!Report(d[1]) \/ Promise!Remove(d[1])
             \/ UNCHANGED Promise!deliveryVars
  BY <1>1, HandlerEffect, WorkStep, ReportStep, RemoveStep, UnseenStep DEF RInv
<1>2. \A d \in Deliveries : d[1] \in Messages
  BY DEF Deliveries
<1>3. QED
  BY <1>1, <1>2, OthersFrame, UnseenStep DEF RInv, Promise!Next

LEMMA InitRefines == Init => Promise!Init
<1> SUFFICES ASSUME Init PROVE Promise!Init
  OBVIOUS
<1>1. ASSUME NEW m \in Messages PROVE reachedBy(m) = {}
  <2>1. \A n \in Receipts : result[<<m, n>>] = "none"
    BY DEF Init, Deliveries
  <2>2. QED
    BY <2>1 DEF reachedBy
<1>2. ASSUME NEW m \in Messages PROVE reportedFor(m) = {}
  <2>1. \A e \in {m} \X Receipts : ~(outbound[e] > 0)
    BY DEF Init, Deliveries
  <2>2. QED
    BY <2>1 DEF reportedFor
<1>3. \A m \in Messages : sqs[m] # "deleted"
  BY DEF Init, SsqsInit
<1>4. QED
  BY <1>1, <1>2, <1>3 DEF Promise!Init

(* Handled in time, messages are dealt with as Delivery promises: worked   *)
(* on, perhaps more than once, answered with the results reached and no    *)
(* others, removed only with a result, and left alone after that.          *)
THEOREM Refinement ==
  ASSUME HandledInTime
  PROVE  Spec => ImplementsDelivery
<1>1. Init => HeldIsHidden /\ ResultBeforeReply /\ RemovedOnlyIfHandled
              /\ ResultIsFirst /\ RemovedIsDone
  BY DEF Init, SsqsInit, ConsumerInit, HeldIsHidden, Held, In, Working,
     ResultBeforeReply, RemovedOnlyIfHandled, ResultIsFirst, RemovedIsDone
<1>2. IInv /\ (HeldIsHidden /\ ResultBeforeReply /\ RemovedOnlyIfHandled
               /\ ResultIsFirst /\ RemovedIsDone) /\ [Next]_vars
         => (HeldIsHidden /\ ResultBeforeReply /\ RemovedOnlyIfHandled
             /\ ResultIsFirst /\ RemovedIsDone)'
  BY HeldIsHiddenStep, RemovedStep, ResultIsFirstStep, RemovedIsDoneStep DEF RInv
<1>3. IInv /\ HeldIsHidden /\ ResultBeforeReply /\ ResultIsFirst /\ RemovedIsDone
         => RInv
  BY DEF RInv
<1>4. Init => Promise!Init
  BY InitRefines
<1>5. RInv /\ [Next]_vars => [Promise!Next]_(Promise!deliveryVars)
  BY StepRefines
<1>6. QED
  BY <1>1, <1>2, <1>3, <1>4, <1>5, Inductive, PTL
     DEF Spec, ImplementsDelivery, Promise!Spec
=============================================================================
