----------------------------- MODULE MCProfiles -----------------------------
EXTENDS Profiles

MCPods == {"p1", "p2"}

MCLayouts ==
  \* Two pods that use one address in turn.
  {[ports   |-> [p \in MCPods |-> {"a1"}],
    types   |-> {"heap"},
    changes |-> 4],
  \* A pod with one address and one that may name either of two.
   [ports   |-> [p \in MCPods |-> IF p = "p1" THEN {"a1"} ELSE {"a2", "a3"}],
    types   |-> {"heap"},
    changes |-> 3],
  \* One pod, scraped for two types at once.
   [ports   |-> [p \in MCPods |-> IF p = "p1" THEN {"a1", "a2"} ELSE {}],
    types   |-> {"heap", "goroutine"},
    changes |-> 3]}
=============================================================================
