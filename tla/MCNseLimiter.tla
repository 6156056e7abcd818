----------------------------- MODULE MCNseLimiter -----------------------------
EXTENDS NseLimiter

CONSTANTS main, feed, page, vix, pcr
MCThreads == {main, feed, page}
MCSources == {vix, pcr}
MCTwoRequests == {pcr}
MCUses == [t \in MCThreads |-> IF t = main THEN {vix} ELSE {pcr}]
MCTtl == [s \in MCSources |-> IF s = vix THEN 1 ELSE 2]
MCPeriodic == {main}
=============================================================================
