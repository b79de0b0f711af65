--------------------------- MODULE ResponseProofs ---------------------------
(***************************************************************************)
(* Proofs about the responses that module Engine writes: what is removed   *)
(* undisturbed was answered, and no copy of a response comes for nothing.  *)
(***************************************************************************)
EXTENDS MessageProofs

(* Before the first disturbance: nothing is retried, a goroutine that      *)
(* deletes has written its response once, and what is removed was answered.*)
Undisturbed ==
    faults = 0 =>
        /\ ~ctxDone
        /\ \A d \in Deliveries :
              /\ hpc[d] \notin {"replyWait", "deleteWait"}
              /\ hpc[d] \in {"none", "verify", "handle", "reply"} => outbound[d] = 0
              /\ hpc[d] = "delete" => outbound[d] = 1
        /\ RemovedUntoldNeedsFault

(* The deliveries of m whose response may still be written: in transit, or *)
(* before the reply has succeeded or been given up.                        *)
Pending(m) ==
    {d \in {m} \X Receipts :
        \/ d \in InTransit
        \/ hpc[d] \in {"verify", "handle", "reply"}
        \/ hpc[d] = "replyWait" /\ ~ctxDone}

(* Copies written, copies still to come, the delivery that is owed and the *)
(* restart to come of a cancelled process are all paid for.                *)
RepliesPaid ==
    \A m \in Messages :
        Cardinality(Copies(m)) + Cardinality(Pending(m))
          + (IF Owed(m) THEN 1 ELSE 0) + (IF ctxDone THEN 1 ELSE 0)
            <= 1 + faults
(* A set of responses can be counted.                                      *)
LEMMA CopiesFinite ==
  ASSUME NEW m \in Messages, outbound \in [Deliveries -> Nat]
  PROVE  IsFiniteSet(Copies(m)) /\ Cardinality(Copies(m)) \in Nat
<1>1. IsFiniteSet(Receipts)
  BY MaxFaultsAssumption, FS_Interval DEF Receipts
<1> DEFINE Of(n) == {n} \X (1 .. outbound[<<m, n>>])
           f == [n \in Receipts |-> Of(n)]
           All == {Of(n) : n \in Receipts}
<1>2. f \in Surjection(Receipts, All)
  <2>1. f \in [Receipts -> All] /\ \A T \in All : \E n \in Receipts : f[n] = T
    OBVIOUS
  <2> HIDE DEF f, All
  <2>2. QED
    BY <2>1 DEF Surjection
<1>3. IsFiniteSet(All)
  <2> HIDE DEF All
  <2>1. QED
    BY <1>1, <1>2, FS_Surjection
<1>4. ASSUME NEW n \in Receipts PROVE IsFiniteSet(Of(n))
  <2>1. outbound[<<m, n>>] \in Nat
    BY DEF Deliveries
  <2>2. IsFiniteSet(1 .. outbound[<<m, n>>])
    BY <2>1, FS_Interval
  <2>3. IsFiniteSet({n})
    BY FS_Singleton
  <2>4. QED
    BY <2>2, <2>3, FS_Product
<1>5. Copies(m) = UNION All
  BY DEF Copies
<1>6. IsFiniteSet(Copies(m))
  <2>1. \A T \in All : IsFiniteSet(T)
    BY <1>4
  <2> HIDE DEF All
  <2>2. QED
    BY <1>3, <1>5, <2>1, FS_UNION
<1>7. QED
  BY <1>6, FS_CardinalityType

(* One more response is one more copy for its message, none for others.    *)
LEMMA CopiesAdd ==
  ASSUME NEW d \in Deliveries, outbound \in [Deliveries -> Nat],
         outbound' = [outbound EXCEPT ![d] = @ + 1], NEW m \in Messages
  PROVE  Cardinality(Copies(m)') = Cardinality(Copies(m)) + (IF m = d[1] THEN 1 ELSE 0)
<1>1. ASSUME NEW n \in Receipts
      PROVE  /\ <<m, n>> \in Deliveries
             /\ outbound[<<m, n>>] \in Nat
             /\ outbound'[<<m, n>>] = outbound[<<m, n>>] + (IF <<m, n>> = d THEN 1 ELSE 0)
  BY DEF Deliveries
<1>2. d = <<d[1], d[2]>> /\ d[2] \in Receipts
  BY DEF Deliveries
<1>3. /\ \A c : c \in Copies(m) <=>
               \E n \in Receipts : c \in {n} \X (1 .. outbound[<<m, n>>])
      /\ \A c : c \in Copies(m)' <=>
               \E n \in Receipts : c \in {n} \X (1 .. outbound'[<<m, n>>])
  BY DEF Copies
<1>5. CASE m # d[1]
  <2>1. \A n \in Receipts : outbound'[<<m, n>>] = outbound[<<m, n>>]
    BY <1>1, <1>2, <1>5
  <2>2. \A c : c \in Copies(m)' <=> c \in Copies(m)
    BY <1>3, <2>1
  <2>3. Copies(m)' = Copies(m)
    BY <2>2
  <2>4. QED
    BY <1>5, <2>3, CopiesFinite
<1>6. CASE m = d[1]
  <2> DEFINE new == <<d[2], outbound[d] + 1>>
  <2>1. /\ outbound[d] \in Nat /\ outbound'[d] = outbound[d] + 1
        /\ \A n \in Receipts \ {d[2]} : outbound'[<<m, n>>] = outbound[<<m, n>>]
        /\ d = <<m, d[2]>>
    BY <1>1, <1>2, <1>6
  <2>2. new \notin Copies(m)
    <3>1. ASSUME NEW n \in Receipts, new \in {n} \X (1 .. outbound[<<m, n>>])
          PROVE  FALSE
      <4>1. n = d[2] /\ outbound[d] + 1 \in 1 .. outbound[<<m, n>>]
        BY <3>1
      <4>2. QED
        BY <2>1, <4>1
    <3>2. QED
      BY <1>3, <3>1
  <2>3. ASSUME NEW c \in Copies(m)' PROVE c \in Copies(m) \cup {new}
    <3>1. PICK n \in Receipts : c \in {n} \X (1 .. outbound'[<<m, n>>])
      BY <1>3
    <3>2. c = <<n, c[2]>> /\ c[2] \in 1 .. outbound'[<<m, n>>]
      BY <3>1
    <3>3. CASE n = d[2]
      <4>1. c[2] \in 1 .. outbound[d] \/ c[2] = outbound[d] + 1
        BY <2>1, <3>2, <3>3
      <4>2. c[2] \in 1 .. outbound[d] => c \in {n} \X (1 .. outbound[<<m, n>>])
        BY <2>1, <3>2, <3>3
      <4>3. QED
        BY <1>3, <3>2, <3>3, <4>1, <4>2
    <3>4. CASE n # d[2]
      BY <1>3, <2>1, <3>1, <3>4
    <3>5. QED
      BY <3>3, <3>4
  <2>4. ASSUME NEW c \in Copies(m) PROVE c \in Copies(m)'
    <3>1. PICK n \in Receipts : c \in {n} \X (1 .. outbound[<<m, n>>])
      BY <1>3
    <3>2. c \in {n} \X (1 .. outbound'[<<m, n>>])
      BY <1>1, <3>1
    <3>3. QED
      BY <1>3, <3>2
  <2>5. new \in Copies(m)'
    <3>1. new \in {d[2]} \X (1 .. outbound'[<<m, d[2]>>])
      BY <2>1
    <3>2. QED
      BY <1>2, <1>3, <3>1
  <2>6. Copies(m)' = Copies(m) \cup {new}
    BY <2>3, <2>4, <2>5
  <2>7. QED
    BY <1>6, <2>2, <2>6, CopiesFinite, FS_AddElement
<1>7. QED
  BY <1>5, <1>6

LEMMA PendingFinite ==
  ASSUME NEW m \in Messages
  PROVE  IsFiniteSet(Pending(m)) /\ Cardinality(Pending(m)) \in Nat
<1>1. Pending(m) \in SUBSET Deliveries
  BY DEF Pending, Deliveries
<1>2. IsFiniteSet(Pending(m))
  BY <1>1, DeliveriesFinite, FS_Subset
<1>3. QED
  BY <1>2, FS_CardinalityType

-----------------------------------------------------------------------------
(* Undisturbed, what is removed was answered.                              *)

LEMMA UndisturbedStep ==
  ASSUME IInv, Undisturbed, [Next]_vars
  PROVE  Undisturbed'
<1> SUFFICES ASSUME faults' = 0
             PROVE  Undisturbed'
  BY DEF Undisturbed
<1>t. /\ faults \in Nat /\ \A m \in Messages, n \in Receipts : <<m, n>> \in Deliveries
      /\ \A d \in Deliveries : d[1] \in Messages /\ d[2] \in Receipts /\ d = <<d[1], d[2]>>
      /\ hpc \in [Deliveries -> InSemaphore \cup {"none", "gone"}]
      /\ sqs \in [Messages -> {"visible", "inflight", "deleted"}]
      /\ outbound \in [Deliveries -> Nat]
  BY IInvTypes DEF Deliveries, IInv, TypeOK
<1>u. ASSUME faults = 0
      PROVE  /\ ~ctxDone
             /\ \A d \in Deliveries :
                  /\ hpc[d] \notin {"replyWait", "deleteWait"}
                  /\ hpc[d] \in {"none", "verify", "handle", "reply"} => outbound[d] = 0
                  /\ hpc[d] = "delete" => outbound[d] = 1
             /\ RemovedUntoldNeedsFault
  BY <1>u DEF Undisturbed
<1>n. ~Disturb
  BY <1>t DEF Disturb
<1> USE DEF ssqsVars, queueVars, consumerVars, engineVars
<1>1. ASSUME UNCHANGED <<ctxDone, outbound, faults>>,
             \A d \in Deliveries :
                 hpc'[d] = hpc[d] \/ (hpc[d] = "none" /\ hpc'[d] = "verify"),
             \A m \in Messages : sqs'[m] = "deleted" => sqs[m] = "deleted"
      PROVE  Undisturbed'
  BY <1>u, <1>1 DEF Undisturbed, RemovedUntoldNeedsFault
<1>2. CASE Consume
  <2>1. CASE Poll \/ ReceiveError \/ SendError \/ \E d \in batch : SendMessage(d)
    BY <1>1, <1>2, <2>1 DEF Consume, Poll, ReceiveError, SendError, SendMessage
  <2>2. ASSUME NEW B \in SUBSET Visible, Receive(B), UNCHANGED engineVars
        PROVE  Undisturbed'
    BY <1>1, <2>2 DEF Receive
  <2>3. QED
    BY <1>2, <2>1, <2>2 DEF Consume, ConsumerStep, ReceiveSome
<1>3. CASE ConsumerStops \/ RunError \/ RunMessage \/ RunDone \/ UNCHANGED vars
  BY <1>1, <1>3 DEF ConsumerStops, Finish, RunError, RunMessage, RunDone, vars
<1>4. ASSUME NEW d \in Deliveries, StartHandler(d)
      PROVE  Undisturbed'
  <2>1. hpc[d] = "none" /\ hpc' = [hpc EXCEPT ![d] = "verify"]
    BY <1>4 DEF StartHandler, GoTo, IInv, InTransitIsFresh, InTransit
  <2>2. QED
    BY <1>1, <1>4, <1>t, <2>1 DEF StartHandler
<1>5. ASSUME NEW d \in Deliveries, HandlerStep(d)
      PROVE  Undisturbed'
  <2> USE DEF At, GoTo
  <2>1. faults = 0 /\ ~ctxDone
    BY <1>5, <1>n, <1>u DEF HandlerStep, Verify, HandlerReturns, ReplySucceeds,
       ReplyFails, RetryReply, AbandonReply, DeleteSucceeds, DeleteFails, RetryDelete,
       AbandonDelete, LeaveWaitGroup, LeaveSemaphore
  <2>2. CASE Verify(d) \/ HandlerReturns(d)
    BY <1>t, <1>u, <2>1, <2>2
       DEF Verify, HandlerReturns, Undisturbed, RemovedUntoldNeedsFault
  <2>3. CASE ReplySucceeds(d)
    <3>1. outbound[d] = 0
      BY <1>u, <2>1, <2>3 DEF ReplySucceeds
    <3>2. /\ outbound' = [outbound EXCEPT ![d] = 1]
          /\ hpc' = [hpc EXCEPT ![d] = "delete"]
          /\ UNCHANGED <<sqs, ctxDone, faults>>
      BY <2>3, <3>1 DEF ReplySucceeds
    <3>3. \A e \in Deliveries : outbound[e] = 1 => outbound'[e] = 1
      BY <1>t, <3>2
    <3>4. RemovedUntoldNeedsFault'
      BY <1>t, <1>u, <2>1, <3>2, <3>3 DEF RemovedUntoldNeedsFault
    <3>5. QED
      BY <1>t, <1>u, <2>1, <3>2, <3>4 DEF Undisturbed
  <2>4. CASE DeleteSucceeds(d)
    <3>1. /\ outbound[d] = 1 /\ outbound' = outbound
          /\ hpc' = [hpc EXCEPT ![d] = "finish"]
          /\ UNCHANGED <<ctxDone, faults>>
          /\ \A m \in Messages : sqs'[m] = "deleted" => sqs[m] = "deleted" \/ m = d[1]
      BY <1>t, <1>u, <2>1, <2>4 DEF DeleteSucceeds, RemoveMessage
    <3>2. RemovedUntoldNeedsFault'
      <4> SUFFICES ASSUME NEW m \in Messages, sqs'[m] = "deleted"
                   PROVE  \E n \in Receipts : outbound[<<m, n>>] = 1
        BY <3>1 DEF RemovedUntoldNeedsFault
      <4>1. CASE sqs[m] = "deleted"
        BY <1>u, <2>1, <4>1 DEF RemovedUntoldNeedsFault
      <4>2. CASE m = d[1]
        BY <1>t, <3>1, <4>2
      <4>3. QED
        BY <3>1, <4>1, <4>2
    <3>3. QED
      BY <1>t, <1>u, <2>1, <3>1, <3>2 DEF Undisturbed
  <2>5. CASE ReplyFails(d) \/ DeleteFails(d)
    BY <1>n, <2>1, <2>5 DEF ReplyFails, DeleteFails
  <2>6. CASE RetryReply(d) \/ AbandonReply(d) \/ RetryDelete(d) \/ AbandonDelete(d)
    BY <1>u, <2>1, <2>6 DEF RetryReply, AbandonReply, RetryDelete, AbandonDelete
  <2>7. CASE LeaveWaitGroup(d) \/ LeaveSemaphore(d)
    BY <1>t, <1>u, <2>1, <2>7
       DEF LeaveWaitGroup, LeaveSemaphore, Undisturbed, RemovedUntoldNeedsFault
  <2>8. QED
    BY <1>5, <2>2, <2>3, <2>4, <2>5, <2>6, <2>7 DEF HandlerStep
<1>6. CASE Cancel \/ Restart
  BY <1>n, <1>u, <1>6 DEF Cancel, Restart
<1>7. CASE CloseBegins \/ CloseReturns
  BY <1>1, <1>7 DEF CloseBegins, CloseReturns, Close
<1>8. ASSUME NEW m \in Messages, VisibilityTimeout(m)
      PROVE  Undisturbed'
  BY <1>1, <1>n, <1>t, <1>8 DEF VisibilityTimeout, BecomeVisible
<1>9. QED
  BY <1>2, <1>3, <1>4, <1>5, <1>6, <1>7, <1>8 DEF Next

(* As long as nothing has failed, a message that has left the queue has    *)
(* had its response, and that once.                                        *)
THEOREM RemovedIsTold == Spec => []RemovedUntoldNeedsFault
<1>1. Init => Undisturbed
  BY DEF Init, SsqsInit, Undisturbed, RemovedUntoldNeedsFault
<1>2. IInv /\ Undisturbed /\ [Next]_vars => Undisturbed'
  BY UndisturbedStep
<1>3. IInv /\ Undisturbed => RemovedUntoldNeedsFault
  BY DEF Undisturbed, RemovedUntoldNeedsFault
<1>4. QED
  BY <1>1, <1>2, <1>3, Inductive, PTL DEF Spec
-----------------------------------------------------------------------------
(* Every further copy of a response is paid for.                           *)

(* The counts of RepliesPaid are natural numbers.                          *)
LEMMA Counts ==
  ASSUME IInv, NEW m \in Messages
  PROVE  /\ faults \in Nat
         /\ Cardinality(Copies(m)) \in Nat
         /\ Cardinality(Pending(m)) \in Nat
BY CopiesFinite, PendingFinite, IInvTypes DEF IInv, TypeOK

(* A set of pending deliveries that loses some, or exactly one.            *)
LEMMA PendingShrinks ==
  ASSUME NEW m \in Messages
  PROVE  /\ Cardinality(Pending(m)') \in Nat
         /\ Pending(m)' \subseteq Pending(m) =>
               Cardinality(Pending(m)') <= Cardinality(Pending(m))
         /\ \A d \in Pending(m) : Pending(m)' \subseteq Pending(m) \ {d} =>
               Cardinality(Pending(m)') <= Cardinality(Pending(m)) - 1
<1>0. IsFiniteSet(Pending(m)) /\ Cardinality(Pending(m)) \in Nat
  BY PendingFinite
<1>1. IsFiniteSet(Pending(m)') /\ Cardinality(Pending(m)') \in Nat
  <2>1. Pending(m)' \in SUBSET Deliveries
    BY DEF Pending, Deliveries
  <2>2. IsFiniteSet(Pending(m)')
    BY <2>1, DeliveriesFinite, FS_Subset
  <2>3. QED
    BY <2>2, FS_CardinalityType
<1>2. ASSUME Pending(m)' \subseteq Pending(m)
      PROVE  Cardinality(Pending(m)') <= Cardinality(Pending(m))
  BY <1>0, <1>2, FS_Subset
<1>3. ASSUME NEW d \in Pending(m), Pending(m)' \subseteq Pending(m) \ {d}
      PROVE  Cardinality(Pending(m)') <= Cardinality(Pending(m)) - 1
  <2>1. /\ IsFiniteSet(Pending(m) \ {d})
        /\ Cardinality(Pending(m) \ {d}) = Cardinality(Pending(m)) - 1
    BY <1>0, <1>3, FS_RemoveElement
  <2>2. QED
    BY <1>3, <2>1, FS_Subset
<1>4. QED
  BY <1>1, <1>2, <1>3

LEMMA PendingGrows ==
  ASSUME NEW m \in Messages, NEW d, Pending(m)' \subseteq Pending(m) \cup {d}
  PROVE  Cardinality(Pending(m)') <= Cardinality(Pending(m)) + 1
<1>0. IsFiniteSet(Pending(m)) /\ Cardinality(Pending(m)) \in Nat
  BY PendingFinite
<1>1. /\ IsFiniteSet(Pending(m) \cup {d})
      /\ Cardinality(Pending(m) \cup {d}) \in Nat
      /\ Cardinality(Pending(m) \cup {d}) <= Cardinality(Pending(m)) + 1
  <2>1. /\ IsFiniteSet(Pending(m) \cup {d})
        /\ Cardinality(Pending(m) \cup {d})
             = IF d \in Pending(m) THEN Cardinality(Pending(m))
                                   ELSE Cardinality(Pending(m)) + 1
    BY <1>0, FS_AddElement
  <2>2. QED
    BY <1>0, <2>1
<1>2. Cardinality(Pending(m)') <= Cardinality(Pending(m) \cup {d})
  BY <1>1, FS_Subset
<1>3. QED
  BY <1>1, <1>2, PendingFinite, PendingShrinks

(* A step that writes no response and leaves no more pending or owed than  *)
(* before keeps RepliesPaid; a disturbance may leave a delivery owed.      *)
LEMMA SilentPays ==
  ASSUME IInv, RepliesPaid, UNCHANGED <<outbound, ctxDone>>,
         \A m \in Messages : Pending(m)' \subseteq Pending(m),
         \/ faults' = faults /\ \A m \in Messages : Owed(m)' => Owed(m)
         \/ faults' = faults + 1
  PROVE  RepliesPaid'
<1> SUFFICES ASSUME NEW m \in Messages
             PROVE  Cardinality(Copies(m)') + Cardinality(Pending(m)')
                      + (IF Owed(m)' THEN 1 ELSE 0) + (IF ctxDone' THEN 1 ELSE 0)
                        <= 1 + faults'
  BY DEF RepliesPaid
<1>1. Copies(m)' = Copies(m)
  BY DEF Copies
<1>2. /\ Cardinality(Pending(m)') <= Cardinality(Pending(m))
      /\ Cardinality(Pending(m)') \in Nat
  BY PendingShrinks
<1>3. Cardinality(Copies(m)) + Cardinality(Pending(m))
        + (IF Owed(m) THEN 1 ELSE 0) + (IF ctxDone THEN 1 ELSE 0) <= 1 + faults
  BY DEF RepliesPaid
<1>4. CASE faults' = faults /\ (Owed(m)' => Owed(m))
  BY <1>1, <1>2, <1>3, <1>4, Counts
<1>5. CASE faults' = faults + 1
  BY <1>1, <1>2, <1>3, <1>5, Counts
<1>6. QED
  BY <1>4, <1>5
(* A reply, written or not, leaves nothing more owed.                      *)
LEMMA ReplyOwes ==
  ASSUME IInv, NEW d \in Deliveries, ReplySucceeds(d) \/ ReplyFails(d)
  PROVE  \A m \in Messages : Owed(m)' => Owed(m)
<1>1. /\ UNCHANGED <<sqs, receives, batch, msgChan, cur>>
      /\ hpc[d] = "reply" /\ hpc' = [hpc EXCEPT ![d] = hpc'[d]]
      /\ hpc'[d] \in {"delete", "replyWait"}
  BY IInvTypes DEF ReplySucceeds, ReplyFails, At, GoTo, ssqsVars, queueVars, consumerVars
<1>2. \A e \in Deliveries : Held(e) => Held(e)'
  BY <1>1, IInvTypes DEF Held, In, Working
<1>3. \A e \in Deliveries : hpc'[e] = "deleteWait" => hpc[e] = "deleteWait"
  BY <1>1, IInvTypes
<1>4. QED
  BY <1>1, <1>2, <1>3, KeepsHeld

(* A handling goroutine pays for what it writes: with its being pending,   *)
(* or with a disturbance.                                                  *)
LEMMA HandlerPays ==
  ASSUME IInv, RepliesPaid, NEW d \in Deliveries, HandlerStep(d)
  PROVE  RepliesPaid'
<1> USE DEF At, GoTo
<1>t. /\ hpc \in [Deliveries -> InSemaphore \cup {"none", "gone"}]
      /\ outbound \in [Deliveries -> Nat]
      /\ d[1] \in Messages /\ d \in {d[1]} \X Receipts
      /\ \A m \in Messages : {m} \X Receipts \subseteq Deliveries
      /\ \A m \in Messages : m # d[1] => d \notin {m} \X Receipts
  BY IInvTypes DEF Deliveries, IInv, TypeOK
<1>i. InTransit' = InTransit
  BY HandlerFrame DEF InTransit
<1>1. CASE \/ Verify(d) \/ HandlerReturns(d) \/ RetryReply(d) \/ AbandonReply(d)
           \/ DeleteSucceeds(d) \/ DeleteFails(d) \/ RetryDelete(d)
           \/ AbandonDelete(d) \/ LeaveWaitGroup(d) \/ LeaveSemaphore(d)
  <2>1. UNCHANGED <<outbound, ctxDone>>
    BY <1>1 DEF Verify, HandlerReturns, RetryReply, AbandonReply, DeleteSucceeds,
       DeleteFails, RetryDelete, AbandonDelete, LeaveWaitGroup, LeaveSemaphore
  <2>2. \E pc : /\ hpc' = [hpc EXCEPT ![d] = pc]
                /\ pc \in {"verify", "handle", "reply"} =>
                      \/ hpc[d] \in {"verify", "handle", "reply"}
                      \/ hpc[d] = "replyWait" /\ ~ctxDone
                /\ pc # "replyWait"
    BY <1>1 DEF Verify, HandlerReturns, RetryReply, AbandonReply, DeleteSucceeds,
       DeleteFails, RetryDelete, AbandonDelete, LeaveWaitGroup, LeaveSemaphore, MayRetry
  <2>3. ASSUME NEW m \in Messages PROVE Pending(m)' \subseteq Pending(m)
    BY <1>t, <1>i, <2>1, <2>2, <2>3 DEF Pending
  <2>4. QED
    BY <2>1, <2>3, HandlerOwes, SilentPays
<1>2. CASE ReplySucceeds(d) \/ ReplyFails(d)
  <2>1. /\ hpc[d] = "reply" /\ ctxDone' = ctxDone
        /\ hpc' = [hpc EXCEPT ![d] = hpc'[d]]
        /\ \/ outbound' = [outbound EXCEPT ![d] = @ + 1]
           \/ outbound' = outbound
        /\ \/ /\ hpc'[d] = "delete" \/ (hpc'[d] = "replyWait" /\ ctxDone)
              /\ faults' = faults
           \/ hpc'[d] = "replyWait" /\ faults' = faults + 1
    BY <1>2, <1>t DEF ReplySucceeds, ReplyFails, Disturb, ssqsVars
  <2>2. \A m \in Messages : Owed(m)' => Owed(m)
    BY <1>2, ReplyOwes
  <2>3. d \notin InTransit
    BY <2>1 DEF IInv, InTransitIsFresh
  <2> SUFFICES ASSUME NEW m \in Messages
               PROVE  Cardinality(Copies(m)') + Cardinality(Pending(m)')
                        + (IF Owed(m)' THEN 1 ELSE 0) + (IF ctxDone' THEN 1 ELSE 0)
                          <= 1 + faults'
    BY DEF RepliesPaid
  <2>4. Cardinality(Copies(m)) + Cardinality(Pending(m))
          + (IF Owed(m) THEN 1 ELSE 0) + (IF ctxDone THEN 1 ELSE 0) <= 1 + faults
    BY DEF RepliesPaid
  <2>5. /\ Cardinality(Copies(m)') \in Nat
        /\ Cardinality(Copies(m)')
             <= Cardinality(Copies(m)) + (IF m = d[1] THEN 1 ELSE 0)
    <3>1. CASE outbound' = [outbound EXCEPT ![d] = @ + 1]
      <4>1. Cardinality(Copies(m)')
              = Cardinality(Copies(m)) + (IF m = d[1] THEN 1 ELSE 0)
        BY <1>t, <3>1, CopiesAdd
      <4>2. QED
        BY <4>1, Counts
    <3>2. CASE outbound' = outbound
      <4>1. Copies(m)' = Copies(m)
        BY <3>2 DEF Copies
      <4>2. QED
        BY <4>1, Counts
    <3>3. QED
      BY <2>1, <3>1, <3>2
  <2>6. Pending(m)' \subseteq Pending(m)
    BY <1>t, <1>i, <2>1 DEF Pending
  <2>7. CASE m # d[1] \/ faults' = faults + 1
    BY <2>1, <2>2, <2>4, <2>5, <2>6, <2>7, Counts, PendingShrinks
  <2>8. CASE m = d[1] /\ faults' = faults
    <3>1. d \in Pending(m)
      BY <1>t, <2>1, <2>8 DEF Pending
    <3>2. d \notin Pending(m)'
      <4>1. hpc'[d] = "delete" \/ (hpc'[d] = "replyWait" /\ ctxDone')
        BY <2>1, <2>8, Counts
      <4>2. QED
        BY <1>i, <2>3, <4>1 DEF Pending
    <3>3. Cardinality(Pending(m)') <= Cardinality(Pending(m)) - 1
      BY <2>6, <3>1, <3>2, PendingShrinks
    <3>4. QED
      BY <2>1, <2>2, <2>4, <2>5, <2>8, <3>3, Counts, PendingShrinks
  <2>9. QED
    BY <2>1, <2>7, <2>8
<1>3. QED
  BY <1>1, <1>2 DEF HandlerStep
LEMMA RepliesPaidStep ==
  ASSUME IInv, OneAtATime, RepliesPaid, [Next]_vars
  PROVE  RepliesPaid'
<1> USE DEF ssqsVars, queueVars, consumerVars
<1>t. /\ receives \in [Messages -> 0 .. (MaxFaults + 1)]
      /\ sqs \in [Messages -> {"visible", "inflight", "deleted"}]
      /\ hpc \in [Deliveries -> InSemaphore \cup {"none", "gone"}]
      /\ ctxDone \in BOOLEAN
      /\ \A m \in Messages : {m} \X Receipts \subseteq Deliveries
      /\ \A e : Held(e) => e \in Deliveries
      /\ InTransit \subseteq Deliveries
  BY IInvTypes DEF Held, In, InTransit, Deliveries
<1>p. ASSUME NEW m \in Messages
      PROVE  Cardinality(Copies(m)) + Cardinality(Pending(m))
               + (IF Owed(m) THEN 1 ELSE 0) + (IF ctxDone THEN 1 ELSE 0) <= 1 + faults
  BY <1>p DEF RepliesPaid
<1>0. ASSUME UNCHANGED <<sqs, receives, ctxDone, faults, outbound, hpc>>,
             InTransit' = InTransit
      PROVE  RepliesPaid'
  <2>1. \A e \in Deliveries : Held(e) => Held(e)'
    BY <1>0 DEF Held, In, InTransit
  <2>2. \A m \in Messages : Pending(m)' \subseteq Pending(m)
    BY <1>0 DEF Pending
  <2>3. QED
    BY <1>0, <2>1, <2>2, KeepsHeld, SilentPays
<1>1. CASE Consume
  <2>1. CASE Poll \/ ReceiveError \/ SendError
    BY <1>0, <1>1, <2>1 DEF Consume, engineVars, Poll, ReceiveError, SendError, InTransit
  <2>2. ASSUME NEW B \in SUBSET Visible, Receive(B), UNCHANGED engineVars
        PROVE  RepliesPaid'
    <3>1. batch = {} /\ UNCHANGED <<outbound, hpc, ctxDone, faults, msgChan, cur>>
      BY <2>2 DEF Receive, OneAtATime, engineVars
    <3>2. \A m \in Messages : Copies(m)' = Copies(m)
      BY <3>1 DEF Copies
    <3>3. ASSUME NEW m \in Messages
          PROVE  Cardinality(Copies(m)) + Cardinality(Pending(m)')
                   + (IF Owed(m)' THEN 1 ELSE 0) + (IF ctxDone THEN 1 ELSE 0)
                     <= 1 + faults
      <4> DEFINE new == <<m, receives[m] + 1>>
      <4>1. CASE m \in B
        <5>1. /\ receives'[m] = receives[m] + 1 /\ sqs'[m] = "inflight"
              /\ sqs[m] = "visible" /\ new \in Deliveries /\ hpc[new] = "none"
          BY <2>2, <4>1, ReceiveFrame
        <5>2. new \in batch'
          BY <2>2, <4>1, <5>1, ReceiveFrame
        <5>3. Owed(m) /\ ~Owed(m)'
          BY <3>1, <5>1, <5>2 DEF Owed, Held, In, Newest
        <5>4. Pending(m)' \subseteq Pending(m) \cup {new}
          <6>1. \A e \in {m} \X Receipts : e \in batch' <=> e = new
            <7> SUFFICES ASSUME NEW e \in {m} \X Receipts
                         PROVE  e \in batch' <=> e = new
              OBVIOUS
            <7>1. e \in Deliveries /\ e = <<m, e[2]>> /\ e[1] = m
              BY <1>t
            <7>2. e \in batch' <=> e[2] = receives[m] + 1
              BY <2>2, <4>1, <7>1, ReceiveFrame
            <7>3. QED
              BY <7>1, <7>2
          <6>2. \A e : e \in InTransit' <=> e \in batch' \/ e \in InTransit
            BY <3>1 DEF InTransit
          <6>3. QED
            BY <3>1, <6>1, <6>2 DEF Pending
        <5>5. Cardinality(Pending(m)') <= Cardinality(Pending(m)) + 1
          BY <5>4, PendingGrows
        <5>6. QED
          BY <1>p, <1>t, <5>3, <5>5, Counts, PendingShrinks
      <4>2. CASE m \notin B
        <5>1. receives'[m] = receives[m] /\ sqs'[m] = sqs[m]
          BY <2>2, <4>2, ReceiveFrame
        <5>2. Owed(m)' => Owed(m)
          BY <3>1, <5>1 DEF Owed, Held, In, Newest
        <5>3. \A e \in {m} \X Receipts : e \notin batch'
          BY <1>t, <2>2, <4>2, ReceiveFrame
        <5>4. Pending(m)' \subseteq Pending(m)
          BY <3>1, <5>3 DEF Pending, InTransit
        <5>5. QED
          BY <1>p, <1>t, <5>2, <5>4, Counts, PendingShrinks
      <4>3. QED
        BY <4>1, <4>2
    <3>4. QED
      BY <3>1, <3>2, <3>3 DEF RepliesPaid
  <2>3. ASSUME NEW d \in batch, SendMessage(d), UNCHANGED engineVars
        PROVE  RepliesPaid'
    BY <1>0, <2>3 DEF SendMessage, engineVars, InTransit
  <2>4. QED
    BY <1>1, <2>1, <2>2, <2>3 DEF Consume, ConsumerStep, ReceiveSome
<1>2. CASE ConsumerStops
  BY <1>0, <1>2 DEF ConsumerStops, Finish, InTransit
<1>3. CASE RunError \/ RunMessage \/ RunDone
  BY <1>0, <1>3 DEF RunError, RunMessage, RunDone, Selecting, engineVars, InTransit
<1>4. ASSUME NEW d \in Deliveries, StartHandler(d)
      PROVE  RepliesPaid'
  <2>1. /\ cur = {d} /\ cur' = {} /\ hpc' = [hpc EXCEPT ![d] = "verify"]
        /\ UNCHANGED <<sqs, receives, ctxDone, faults, outbound, batch, msgChan>>
    BY <1>4 DEF StartHandler, GoTo, OneAtATime
  <2>2. \A e \in Deliveries : Held(e) => Held(e)'
    BY <1>t, <2>1 DEF Held, In, Working
  <2>3. \A e \in Deliveries : hpc'[e] = "deleteWait" => hpc[e] = "deleteWait"
    BY <1>t, <2>1
  <2>4. ASSUME NEW m \in Messages PROVE Pending(m)' \subseteq Pending(m)
    BY <1>t, <2>1, <2>4 DEF Pending, InTransit
  <2>5. QED
    BY <2>1, <2>2, <2>3, <2>4, KeepsHeld, SilentPays
<1>5. ASSUME NEW d \in Deliveries, HandlerStep(d)
      PROVE  RepliesPaid'
  BY <1>5, HandlerPays
<1>6. CASE Cancel
  <2>1. /\ ~ctxDone /\ ctxDone' /\ faults' = faults + 1
        /\ UNCHANGED <<sqs, receives, batch, msgChan, cur, hpc, outbound>>
    BY <1>6 DEF Cancel, Disturb
  <2>2. ASSUME NEW m \in Messages
        PROVE  /\ Copies(m)' = Copies(m)
               /\ Owed(m)' <=> Owed(m)
               /\ Pending(m)' \subseteq Pending(m)
    BY <1>t, <2>1 DEF Owed, Held, In, Newest, Copies, Pending, InTransit
  <2>3. ASSUME NEW m \in Messages
        PROVE  Cardinality(Copies(m)') + Cardinality(Pending(m)')
                 + (IF Owed(m)' THEN 1 ELSE 0) + 1 <= 1 + faults'
    BY <1>p, <2>1, <2>2, Counts, PendingShrinks
  <2>4. QED
    BY <2>1, <2>3 DEF RepliesPaid
<1>7. CASE CloseBegins \/ CloseReturns
  BY <1>0, <1>7 DEF CloseBegins, CloseReturns, Close, InTransit
<1>8. CASE Restart
  <2>1. /\ UNCHANGED <<receives, outbound>> /\ ~ctxDone'
        /\ (ctxDone /\ faults' = faults) \/ faults' = faults + 1
        /\ InTransit' = {} /\ \A e \in Deliveries : hpc'[e] \in {"none", "gone"}
    BY <1>8 DEF Restart, ConsumerReset, Disturb, InTransit
  <2>2. ASSUME NEW m \in Messages
        PROVE  Cardinality(Copies(m)') + Cardinality(Pending(m)') + 1 <= 1 + faults'
    <3>1. Copies(m)' = Copies(m)
      BY <2>1 DEF Copies
    <3>2. Pending(m)' = {}
      BY <1>t, <2>1 DEF Pending
    <3>3. Cardinality(Pending(m)') = 0
      BY <3>2, FS_EmptySet
    <3>4. QED
      BY <1>p, <2>1, <3>1, <3>3, Counts
  <2>3. ASSUME NEW m \in Messages
        PROVE  Cardinality(Copies(m)') \in Nat /\ Cardinality(Pending(m)') \in Nat
    <3>1. Copies(m)' = Copies(m)
      BY <2>1 DEF Copies
    <3>2. QED
      BY <3>1, Counts, PendingShrinks
  <2>4. faults' \in Nat
    BY <2>1, IInvTypes
  <2>5. QED
    BY <2>1, <2>2, <2>3, <2>4 DEF RepliesPaid
<1>9. ASSUME NEW m \in Messages, VisibilityTimeout(m)
      PROVE  RepliesPaid'
  <2>1. /\ sqs[m] = "inflight" /\ sqs' = [sqs EXCEPT ![m] = "visible"]
        /\ UNCHANGED <<receives, ctxDone, outbound, batch, msgChan, cur, hpc>>
        /\ \/ faults' = faults + 1
           \/ faults' = faults /\ ~Held(Newest(m))
    BY <1>9 DEF VisibilityTimeout, BecomeVisible, engineVars, Disturb
  <2>2. ASSUME ~Held(Newest(m)), NEW n \in Messages, Owed(n)'
        PROVE  Owed(n)
    BY <1>t, <2>1, <2>2 DEF Owed, Held, In, Newest
  <2>3. \A n \in Messages : Pending(n)' \subseteq Pending(n)
    BY <2>1 DEF Pending, InTransit
  <2>4. QED
    BY <2>1, <2>2, <2>3, SilentPays
<1>10. CASE UNCHANGED vars
  BY <1>0, <1>10 DEF vars, InTransit
<1>11. QED
  BY <1>1, <1>2, <1>3, <1>4, <1>5, <1>6, <1>7, <1>8, <1>9, <1>10 DEF Next

(* However retries, crashes and second deliveries combine, the producer    *)
(* queue gets one response for a message, and for each further copy there  *)
(* has been a disturbance.                                                 *)
THEOREM RepliesArePaid == Spec => []ExtraRepliesNeedFault
<1>1. Init => OneAtATime /\ RepliesPaid
  <2> SUFFICES ASSUME Init PROVE OneAtATime /\ RepliesPaid
    OBVIOUS
  <2>1. OneAtATime
    BY DEF Init, SsqsInit, ConsumerInit, OneAtATime
  <2>2. ASSUME NEW m \in Messages PROVE Copies(m) = {} /\ Pending(m) = {}
    <3>1. /\ \A n \in Receipts : <<m, n>> \in Deliveries /\ {m} \X Receipts \subseteq Deliveries
          /\ \A d \in Deliveries : hpc[d] = "none" /\ outbound[d] = 0
          /\ InTransit = {}
      BY DEF Init, SsqsInit, ConsumerInit, Deliveries, InTransit
    <3>2. \A n \in Receipts : {n} \X (1 .. outbound[<<m, n>>]) = {}
      BY <3>1
    <3>3. QED
      BY <3>1, <3>2 DEF Copies, Pending
  <2>3. faults = 0 /\ ~ctxDone
    BY DEF Init, SsqsInit
  <2>4. QED
    BY <2>1, <2>2, <2>3, FS_EmptySet DEF RepliesPaid
<1>2. IInv /\ (OneAtATime /\ RepliesPaid) /\ [Next]_vars
         => (OneAtATime /\ RepliesPaid)'
  BY OneAtATimeStep, RepliesPaidStep
<1>3. IInv /\ RepliesPaid => ExtraRepliesNeedFault
  <2> SUFFICES ASSUME IInv, RepliesPaid, NEW m \in Messages
               PROVE  Cardinality(Copies(m)) <= 1 + faults
    BY DEF ExtraRepliesNeedFault
  <2>1. Cardinality(Copies(m)) + Cardinality(Pending(m))
          + (IF Owed(m) THEN 1 ELSE 0) + (IF ctxDone THEN 1 ELSE 0) <= 1 + faults
    BY DEF RepliesPaid
  <2>2. QED
    BY <2>1, Counts
<1>4. QED
  BY <1>1, <1>2, <1>3, Inductive, PTL DEF Spec
=============================================================================
