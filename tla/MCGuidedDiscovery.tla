--------------------------- MODULE MCGuidedDiscovery ---------------------------
EXTENDS GuidedDiscovery
CONSTANTS c1, c2
TwoCandidates == {c1, c2}
Timeouts == [d \in Domains |-> 1]
Sayings == [d \in Domains |-> IF d = "railway" THEN {"near", "far", "untimed", "conflicting", "collector_error"}
                              ELSE {"no_source_found"}]
=============================================================================
