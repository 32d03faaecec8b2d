------------------------------- MODULE MCIPAM -------------------------------
EXTENDS IPAM

K(c, n, k) == <<c, n, k>>
MCScenes ==
  {[configs |-> <<{"c1"}>>, calls |-> 3, restarts |-> 0,
    children |-> {K("c1", "n1", "k1"), K("c1", "n1", "k2"), K("c1", "n1", "bridge")}],
   [configs |-> <<{"c1"}>>, calls |-> 3, restarts |-> 0,
    children |-> {K("c1", "n1", "k1"), K("c1", "n2", "k1")}],
   [configs |-> <<{"c1"}>>, calls |-> 2, restarts |-> 1,
    children |-> {K("c1", "n1", "k1"), K("c1", "n1", "bridge")}],
   [configs |-> <<{"c1", "c2"}, {"c2", "c3"}, {"c1", "c3"}>>, calls |-> 1, restarts |-> 1,
    children |-> {K("c1", "n1", "k1")}],
   [configs |-> <<{"c1"}, {}, {"c3"}>>, calls |-> 2, restarts |-> 0,
    children |-> {K("c1", "n1", "k1"), K("c3", "n1", "k1")}]}
MCChildren == UNION {s.children : s \in MCScenes}
MCSizes == <<16, 8, 4, 1>>
=============================================================================
