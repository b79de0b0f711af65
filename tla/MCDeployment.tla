---------------------------- MODULE MCDeployment ----------------------------
(* Two messages for one service handled at once. *)
EXTENDS Deployment

CONSTANTS h1, h2, n1

MCHandlers == {h1, h2}
MCNodes == {n1}
=============================================================================
