--------------------------- MODULE MCLoadBalancing ---------------------------
EXTENDS LoadBalancing

CONSTANTS s1, s2, l1, l2

MCSubnetOf == [l \in {l1, l2} |-> 1]
MCStreamsBudgets == {[flaps |-> 3, edits |-> 1, faults |-> 0, requests |-> 0],
                     [flaps |-> 3, edits |-> 0, faults |-> 1, requests |-> 0],
                     [flaps |-> 2, edits |-> 1, faults |-> 1, requests |-> 0]}
MCLinksBudget == [flaps |-> 2, edits |-> 0, faults |-> 1, requests |-> 3]
=============================================================================
