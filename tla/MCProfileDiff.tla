---------------------------- MODULE MCProfileDiff ----------------------------
EXTENDS ProfileDiff

\* Two sites of one stack, one of another.
MCStackOf == [s \in {"a1", "a2", "b"} |-> IF s = "b" THEN "b" ELSE "a"]

MCProfileTypes ==
  {\* heap: two cumulative types and one that is not
   [types |-> 3, skipped |-> {}, cumulative |-> {1, 2}],
   \* profile: samples and cpu
   [types |-> 2, skipped |-> {1}, cumulative |-> {}],
   \* mutex, block
   [types |-> 2, skipped |-> {}, cumulative |-> {1, 2}]}
=============================================================================
