----------------------------- MODULE MCLogReader -----------------------------
EXTENDS LogReader

MCFiles == {"f1", "f2"}

MCSettings ==
  \* One file, read line by line, with writes that LastWritten misses.
  {[portion |-> 1, sameStamp |-> TRUE,
    maxSize |-> [f \in MCFiles |-> IF f = "f1" THEN 6 ELSE 0]],
  \* The same with a portion that holds the file.
   [portion |-> 2, sameStamp |-> TRUE,
    maxSize |-> [f \in MCFiles |-> IF f = "f1" THEN 4 ELSE 0]],
  \* Two files that one portion holds.
   [portion |-> 2, sameStamp |-> FALSE,
    maxSize |-> [f \in MCFiles |-> IF f = "f1" THEN 3 ELSE 2]]}
=============================================================================
