--------------------------- MODULE MysqlCollector ---------------------------
(***************************************************************************)
(* metrics/mysql: the goroutine of a collector takes snapshots of a MySQL  *)
(* server, one query after another, holding the lock; Collect exports what *)
(* it left, holding the lock for reading, so in the states between two     *)
(* snapshots.  The server counts, forgets its counts and is upgraded       *)
(* between any two queries.                                                *)
(*                                                                         *)
(* A row of the statement summary and one of the table I/O summary are one *)
(* counter of Width values; the text of a query, the merging of digests    *)
(* with one text and the top 20 are left out.  Variables and status are    *)
(* known by whether they are of the last snapshot.                         *)
(***************************************************************************)
EXTENDS Naturals

CONSTANTS
  Rows,       \* digests, tables
  Width,      \* 2^64 in the code
  MaxWork,    \* bound: what is counted for a row
  MaxFaults,  \* bound: failing queries, results cut short and resets
  Nil

Summaries == {"statements", "io"}
Queries   == {"SHOW REPLICA STATUS", "SHOW SLAVE STATUS"}
Parts     == {"variables", "status", "replica"} \cup Summaries
Steps     == {"variables", "status"} \cup Queries \cup Summaries

ASSUME MysqlAssumption ==
  /\ Width \in Nat \ {0} /\ MaxWork \in Nat /\ MaxFaults \in Nat
  /\ Nil \notin Nat

VARIABLES
  \* the server
  counters,   \* summary -> row -> value, Nil: no such row
  work,       \* history: summary -> row -> all that was ever counted
  resets,     \* history: summary -> how often it was emptied
  dialect,    \* "old", "both", "new": the queries it understands
  firstDialect,
  \* the Collector
  closed,
  pc,         \* "new", "select", "variables", "status", a query, a summary, "done"
  scrapeErrors,
  prev, curr, \* summary -> snapshot
  replicaStatuses, \* there are some
  invalidQueries,
  \* history of the snapshot being taken or last taken
  fresh,      \* the parts it renewed
  cut,        \* the replica status was cut short
  faults

server    == <<counters, work, resets, dialect, firstDialect>>
snapshots == <<prev, curr>>
replica   == <<replicaStatuses, invalidQueries, cut>>
vars == <<server, closed, pc, scrapeErrors, snapshots, replica, fresh, faults>>

Understood ==
  CASE dialect = "old"  -> {"SHOW SLAVE STATUS"}
    [] dialect = "both" -> Queries
    [] dialect = "new"  -> {"SHOW REPLICA STATUS"}

Init ==
  /\ counters = [t \in Summaries |-> [r \in Rows |-> Nil]]
  /\ work = [t \in Summaries |-> [r \in Rows |-> 0]]
  /\ resets = [t \in Summaries |-> 0]
  /\ dialect \in {"old", "both", "new"} /\ firstDialect = dialect
  /\ closed = FALSE /\ pc = "new" /\ scrapeErrors = FALSE
  /\ prev = [t \in Summaries |-> Nil] /\ curr = prev
  /\ replicaStatuses = FALSE /\ invalidQueries = {}
  /\ fresh = {} /\ cut = FALSE /\ faults = 0

Fault == faults < MaxFaults /\ faults' = faults + 1

collector == <<closed, pc, scrapeErrors, snapshots, replica, fresh>>

-----------------------------------------------------------------------------
(***************************************************************************)
(* The server                                                              *)
(***************************************************************************)

Count(t, r) ==
  /\ work[t][r] < MaxWork
  /\ work' = [work EXCEPT ![t][r] = @ + 1]
  /\ counters' = [counters EXCEPT ![t][r] = IF @ = Nil THEN 1 % Width ELSE (@ + 1) % Width]
  /\ UNCHANGED <<resets, dialect, firstDialect, collector, faults>>

\* TRUNCATE of a summary, or a restart.
Reset(t) ==
  /\ Fault
  /\ counters' = [counters EXCEPT ![t] = [r \in Rows |-> Nil]]
  /\ resets' = [resets EXCEPT ![t] = @ + 1]
  /\ UNCHANGED <<work, dialect, firstDialect, collector>>

Upgrade ==
  /\ dialect # "new"
  /\ dialect' = IF dialect = "old" THEN "both" ELSE "new"
  /\ UNCHANGED <<counters, work, resets, firstDialect, collector, faults>>

-----------------------------------------------------------------------------
(***************************************************************************)
(* The goroutine                                                           *)
(***************************************************************************)

\* Mutant: the errors of the last snapshot stay.
Tick_KeepsErrors ==
  /\ pc \in {"new", "select"} /\ pc' = "variables"
  /\ fresh' = {} /\ cut' = FALSE
  /\ UNCHANGED <<server, closed, scrapeErrors, snapshots, replicaStatuses, invalidQueries,
                 faults>>

\* snapshot takes the lock: first as soon as the goroutine runs, then when the
\* ticker fires.
Tick ==
  /\ pc \in {"new", "select"} /\ pc' = "variables"
  /\ scrapeErrors' = FALSE
  /\ fresh' = {} /\ cut' = FALSE
  /\ UNCHANGED <<server, closed, snapshots, replicaStatuses, invalidQueries, faults>>

Quit ==
  /\ pc = "select" /\ closed
  /\ pc' = "done"
  /\ UNCHANGED <<server, closed, scrapeErrors, snapshots, replica, fresh, faults>>

\* SHOW GLOBAL VARIABLES, SHOW GLOBAL STATUS.
UpdateVariables ==
  /\ ~closed /\ pc \in {"variables", "status"}
  /\ pc' = IF pc = "variables" THEN "status" ELSE "SHOW REPLICA STATUS"
  /\ fresh' = fresh \cup {pc}
  /\ UNCHANGED <<server, closed, scrapeErrors, snapshots, replica, faults>>

\* Either of the two replication queries; a query the server does not understand
\* is never sent again.
UpdateReplicationStatus ==
  /\ pc \in Queries
  /\ IF pc \in invalidQueries
     THEN replicaStatuses' = FALSE /\ UNCHANGED <<invalidQueries, faults, cut>>
     ELSE /\ ~closed
          /\ \/ /\ pc \in Understood
                /\ replicaStatuses' = TRUE /\ UNCHANGED <<invalidQueries, faults, cut>>
             \/ /\ pc \in Understood /\ Fault
                /\ replicaStatuses' = FALSE /\ cut' = TRUE /\ UNCHANGED invalidQueries
             \/ /\ pc \notin Understood
                /\ replicaStatuses' = FALSE
                /\ invalidQueries' = invalidQueries \cup {pc}
                /\ UNCHANGED <<faults, cut>>
  /\ LET over == pc = "SHOW SLAVE STATUS" \/ replicaStatuses' \/ cut' IN
     /\ pc' = IF over THEN "statements" ELSE "SHOW SLAVE STATUS"
     /\ fresh' = IF over THEN fresh \cup {"replica"} ELSE fresh
  /\ UNCHANGED <<server, closed, scrapeErrors, snapshots>>

\* The rows that were read, and history: was it all, and what was counted then.
Snapshot(t, rows) ==
  [rows |-> [r \in Rows |-> IF r \in rows THEN counters[t][r] ELSE Nil],
   whole |-> \A r \in Rows \ rows : counters[t][r] = Nil,
   work |-> work[t], resets |-> resets[t]]

\* queryStatementsSummary, queryTableIOWaits.  An error in the middle of the rows
\* ends the loop and is not looked at.
QuerySummary(t) ==
  /\ ~closed /\ pc = t
  /\ prev' = [prev EXCEPT ![t] = curr[t]]
  /\ \/ curr' = [curr EXCEPT ![t] = Snapshot(t, Rows)] /\ UNCHANGED faults
     \/ /\ Fault
        /\ \E rows \in SUBSET Rows \ {Rows} : curr' = [curr EXCEPT ![t] = Snapshot(t, rows)]
  /\ pc' = IF t = "statements" THEN "io" ELSE "select"
  /\ fresh' = fresh \cup {t}
  /\ UNCHANGED <<server, closed, scrapeErrors, replica>>

\* Mutant: every error of a replication query is taken for a syntax error.
QueryFails_Invalidates ==
  /\ pc \in Steps /\ pc \notin invalidQueries
  /\ Fault \/ (closed /\ UNCHANGED faults)
  /\ invalidQueries' = IF pc \in Queries THEN invalidQueries \cup {pc} ELSE invalidQueries
  /\ scrapeErrors' = TRUE /\ pc' = "select"
  /\ IF pc \in Summaries
     THEN prev' = [prev EXCEPT ![pc] = curr[pc]] /\ curr' = [curr EXCEPT ![pc] = Nil]
     ELSE UNCHANGED snapshots
  /\ replicaStatuses' = IF pc \in Queries THEN FALSE ELSE replicaStatuses
  /\ UNCHANGED <<server, closed, cut, fresh>>

\* Mutant: the error is not exported.
QueryFails_Silently ==
  /\ pc \in Steps /\ pc \notin invalidQueries
  /\ Fault \/ (closed /\ UNCHANGED faults)
  /\ pc' = "select"
  /\ IF pc \in Summaries
     THEN prev' = [prev EXCEPT ![pc] = curr[pc]] /\ curr' = [curr EXCEPT ![pc] = Nil]
     ELSE UNCHANGED snapshots
  /\ replicaStatuses' = IF pc \in Queries THEN FALSE ELSE replicaStatuses
  /\ UNCHANGED <<server, closed, scrapeErrors, invalidQueries, cut, fresh>>

\* A query fails, always after Close: the rest of the snapshot is skipped.  A
\* summary that cannot be read leaves no current snapshot.
QueryFails ==
  /\ pc \in Steps /\ pc \notin invalidQueries
  /\ Fault \/ (closed /\ UNCHANGED faults)
  /\ scrapeErrors' = TRUE /\ pc' = "select"
  /\ IF pc \in Summaries
     THEN prev' = [prev EXCEPT ![pc] = curr[pc]] /\ curr' = [curr EXCEPT ![pc] = Nil]
     ELSE UNCHANGED snapshots
  /\ replicaStatuses' = IF pc \in Queries THEN FALSE ELSE replicaStatuses
  /\ UNCHANGED <<server, closed, invalidQueries, cut, fresh>>

Close ==
  /\ ~closed /\ closed' = TRUE
  /\ UNCHANGED <<server, pc, scrapeErrors, snapshots, replica, fresh, faults>>

-----------------------------------------------------------------------------
(***************************************************************************)
(* Collect                                                                 *)
(***************************************************************************)

\* Mutant: a row that is new is not reported.
Increase_SkipsNew(t, r) ==
  IF prev[t].rows[r] = Nil THEN 0
  ELSE (curr[t].rows[r] + Width - prev[t].rows[r]) % Width

\* What is exported for a row, before it is divided by the time between the
\* snapshots: the difference of two unsigned integers, a row that the previous
\* snapshot does not have being zero there.
Increase(t, r) ==
  LET before == IF prev[t].rows[r] = Nil THEN 0 ELSE prev[t].rows[r]
  IN  (curr[t].rows[r] + Width - before) % Width

Exported == {x \in Summaries \X Rows : /\ prev[x[1]] # Nil /\ curr[x[1]] # Nil
                                       /\ curr[x[1]].rows[x[2]] # Nil}

-----------------------------------------------------------------------------

Server == Upgrade \/ \E t \in Summaries : Reset(t) \/ \E r \in Rows : Count(t, r)

Take ==
  \/ Tick \/ UpdateVariables \/ UpdateReplicationStatus \/ QueryFails
  \/ \E t \in Summaries : QuerySummary(t)

Next == Server \/ Take \/ Quit \/ Close

Spec == Init /\ [][Next]_vars

\* The ticker fires, queries have a timeout, and a select that often has the end
\* of the context among its ready cases takes it at last.
Fairness == WF_vars(Take) /\ SF_vars(Quit)

FairSpec == Spec /\ Fairness

-----------------------------------------------------------------------------
(***************************************************************************)
(* Properties                                                              *)
(***************************************************************************)

AtRest == pc \in {"new", "select", "done"}

\* Types; there is a previous snapshot only after a current one.
SnapshotOK(s) ==
  s # Nil => s.rows \in [Rows -> (0 .. Width - 1) \cup {Nil}]
TypeOK ==
  /\ pc \in {"new", "select", "done"} \cup Steps
  /\ \A t \in Summaries : SnapshotOK(prev[t]) /\ SnapshotOK(curr[t])
  /\ invalidQueries \subseteq Queries /\ fresh \subseteq Parts
  /\ pc = "done" => closed

\* What is exported for a row is what the server counted for it between the two
\* snapshots, for rows that are new and over failed snapshots too, unless the
\* counters were emptied between them or the previous one was cut short: then the
\* difference of the unsigned integers is not checked against anything.
IncreasesAreReal ==
  AtRest => \A x \in Exported :
    LET before == prev[x[1]]  now == curr[x[1]] IN
    before.resets = now.resets /\ before.whole
      => Increase(x[1], x[2]) = (now.work[x[2]] - before.work[x[2]]) % Width

\* An export without an error shows the last snapshot in all its parts: what is
\* left of older snapshots after a failure never passes for current.  Before the
\* first snapshot there is nothing to export, and no error either.  (Variables of
\* which the server sent only some count as renewed: rows.Err is not looked at.)
FreshOrFlagged ==
  AtRest => \/ scrapeErrors \/ fresh = Parts
            \/ pc = "new" /\ Exported = {} /\ ~replicaStatuses

\* No failure makes the collector blind for the replication of its server, unless
\* the server has been upgraded from one that knows the old query only to one that
\* knows the new query only.
ReplicationSeen ==
  AtRest /\ "replica" \in fresh /\ ~cut /\ ~(firstDialect = "old" /\ dialect = "new")
    => replicaStatuses

\* After failures end there are no errors and all rates are exported again.
Recovers ==
  <>[](AtRest /\ ~closed => /\ ~scrapeErrors
                            /\ \A t \in Summaries : prev[t] # Nil /\ curr[t] # Nil)

=============================================================================
