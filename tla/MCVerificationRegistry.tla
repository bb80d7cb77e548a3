----------------------- MODULE MCVerificationRegistry -----------------------
(* Instances of VerificationRegistry for TLC.                               *)
EXTENDS VerificationRegistry

\* One assertion to look up; one of two malformed; a single malformed one.
Lookup    == [total |-> 1, malformed |-> {}]
Mixed     == [total |-> 2, malformed |-> {1}]
Malformed == [total |-> 1, malformed |-> {1}]

AllRequests == {Lookup, Mixed, Malformed}
TwoRequests == {Mixed, Malformed}
=============================================================================
