----------------------------- MODULE MCPodEvents -----------------------------
EXTENDS PodEvents

MCPods        == {"p1", "p2"}
MCSubscribers == <<"metrics", "profiles">>
Both          == {"metrics", "profiles"}

MCLayouts ==
  \* p1 moves between addresses and changes its annotations, p2 does neither.
  {[ips     |-> [k \in MCPods |-> IF k = "p1" THEN {"a", "b"} ELSE {"c"}],
    wants   |-> [k \in MCPods |-> IF k = "p1" THEN {{}, Both} ELSE {{"metrics"}}],
    changes |-> 5, faults |-> 2],
  \* Two pods that get the same address one after the other.
   [ips     |-> [k \in MCPods |-> {"a"}],
    wants   |-> [k \in MCPods |-> IF k = "p1" THEN {{}, Both} ELSE {Both}],
    changes |-> 6, faults |-> 1]}
=============================================================================
