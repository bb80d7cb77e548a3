---------------------------- MODULE MCEvidenceBroker ----------------------------
EXTENDS EvidenceBroker
CONSTANTS r1, r2
TwoRuns == {r1, r2}
OneReader == {r1}
=============================================================================
