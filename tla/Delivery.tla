------------------------------ MODULE Delivery ------------------------------
(***************************************************************************)
(* What the deployer promises of the messages on its queue, with nothing   *)
(* said of goroutines, channels, receipts or restarts: a message is worked *)
(* on, possibly more than once; the results reached, and no others, may be *)
(* reported; and only a message with a result is removed, after which      *)
(* nothing more happens to it.                                             *)
(***************************************************************************)
CONSTANTS Messages

VARIABLES
    reached,   \* the results that working on each message has had
    reported,  \* the results written to the producer queue
    removed    \* the messages removed from the consumer queue

deliveryVars == <<reached, reported, removed>>

Results == {"ok", "err"}

Init ==
    /\ reached = [m \in Messages |-> {}]
    /\ reported = [m \in Messages |-> {}]
    /\ removed = {}

Work(m) ==
    /\ m \notin removed
    /\ \E r \in Results : reached' = [reached EXCEPT ![m] = @ \cup {r}]
    /\ UNCHANGED <<reported, removed>>

Report(m) ==
    /\ m \notin removed
    /\ \E r \in reached[m] : reported' = [reported EXCEPT ![m] = @ \cup {r}]
    /\ UNCHANGED <<reached, removed>>

Remove(m) ==
    /\ reached[m] # {}
    /\ removed' = removed \cup {m}
    /\ UNCHANGED <<reached, reported>>

Next == \E m \in Messages : Work(m) \/ Report(m) \/ Remove(m)

Spec == Init /\ [][Next]_deliveryVars

(* Every message is dealt with in the end.                                 *)
Fairness == \A m \in Messages : WF_deliveryVars(Work(m) /\ reached[m] = {})
                             /\ WF_deliveryVars(Remove(m))
=============================================================================
