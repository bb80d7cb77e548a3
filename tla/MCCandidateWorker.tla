-------------------------- MODULE MCCandidateWorker --------------------------
(* The instance TLC checks: two tool calls and two comparison threads.      *)
EXTENDS CandidateWorker
=============================================================================
