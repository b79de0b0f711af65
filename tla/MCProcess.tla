------------------------------ MODULE MCProcess ------------------------------
(* One message for the engine and one for the queue. *)
EXTENDS Process

CONSTANTS m1, m2

MCEngineMessages == {m1}
MCQueueMessages == {m2}
MCValid == {m1, m2}
NoMessages == {}
=============================================================================
