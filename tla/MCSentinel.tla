------------------------------ MODULE MCSentinel ------------------------------
(* Small instances of Sentinel for TLC.                                           *)
EXTENDS Sentinel

CONSTANTS c1, c2, d1, d2

(* Workers 1 and 2 are the replicas of group 1, worker 0 is alone in group 0.     *)
MCGroupOf == [e \in Endpoint |-> IF e = 0 THEN 0 ELSE 1]
MCHash    == [d \in Doc |-> 1]
MCMethods == [c \in Caller |-> IF c = c1 THEN {"search", "count", "add"}
                                            ELSE {"delete"}]
MCStarts  == {{0, 1, 2}, {1, 2}}
==============================================================================
