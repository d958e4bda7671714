-------------------------- MODULE MCReviewPipeline --------------------------
(* Two jobs against two turns, a reconnect and a restart.                   *)
EXTENDS ReviewPipeline
=============================================================================
