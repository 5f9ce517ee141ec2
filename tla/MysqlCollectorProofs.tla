------------------------ MODULE MysqlCollectorProofs ------------------------
(***************************************************************************)
(* The invariants of MysqlCollector for any rows, width of the counters,   *)
(* amount of work and number of faults.                                    *)
(*                                                                         *)
(* A rate is right because the counter of a row is, modulo Width, what it  *)
(* was in the current snapshot plus what was counted since (SinceCurr);    *)
(* the next snapshot turns this into a relation of two snapshots           *)
(* (BetweenThem).  What is exported without an error is complete because   *)
(* each step of a snapshot is reached through the ones before it           *)
(* (Progress); the collector sees the replication because a query is given *)
(* up only where the server did not know it (GivenUp, Replication).        *)
(***************************************************************************)
EXTENDS MysqlCollector, Integers, TLAPS

Val(v) == IF v = Nil THEN 0 ELSE v

Values == 0 .. Width - 1

SnapOK(s) == s # Nil =>
  /\ s.rows \in [Rows -> Values \cup {Nil}]
  /\ s.work \in [Rows -> Nat] /\ s.resets \in Nat

Types ==
  /\ counters \in [Summaries -> [Rows -> Values \cup {Nil}]]
  /\ work \in [Summaries -> [Rows -> Nat]]
  /\ resets \in [Summaries -> Nat]
  /\ DOMAIN prev = Summaries /\ DOMAIN curr = Summaries
  /\ \A t \in Summaries : SnapOK(prev[t]) /\ SnapOK(curr[t])

\* From v, with n counted, to w.
Counted(v, w, n) == n \in Nat /\ Val(w) = (Val(v) + n) % Width

SinceCurr == \A t \in Summaries : curr[t] # Nil =>
  /\ curr[t].resets <= resets[t]
  /\ curr[t].resets = resets[t] => \A r \in Rows :
       curr[t].whole \/ curr[t].rows[r] # Nil =>
         Counted(curr[t].rows[r], counters[t][r], work[t][r] - curr[t].work[r])

BetweenThem == \A t \in Summaries :
  prev[t] # Nil /\ curr[t] # Nil /\ prev[t].resets = curr[t].resets /\ prev[t].whole =>
    \A r \in Rows : curr[t].rows[r] # Nil =>
      Counted(prev[t].rows[r], curr[t].rows[r], curr[t].work[r] - prev[t].work[r])

Before(p) ==
  CASE p = "variables"  -> {}
    [] p = "status"     -> {"variables"}
    [] p \in Queries    -> {"variables", "status"}
    [] p = "statements" -> {"variables", "status", "replica"}
    [] p = "io"         -> {"variables", "status", "replica", "statements"}

Progress ==
  /\ pc \in {"new", "select", "done"} \cup Steps
  /\ pc = "new" => ~replicaStatuses /\ \A t \in Summaries : prev[t] = Nil /\ curr[t] = Nil
  /\ pc = "done" => closed
  /\ pc \in Steps => ~scrapeErrors /\ fresh = Before(pc)
  /\ pc \in {"variables", "status"} \cup Queries => ~cut
  /\ fresh \subseteq Parts

GivenUp ==
  /\ dialect \in {"old", "both", "new"}
  /\ firstDialect \in {"old", "both", "new"}
  /\ invalidQueries \subseteq Queries
  /\ firstDialect = "new" => dialect = "new"
  /\ firstDialect = "both" => dialect # "old"
  /\ "SHOW REPLICA STATUS" \in invalidQueries => firstDialect = "old"
  /\ "SHOW SLAVE STATUS" \in invalidQueries => dialect = "new"

Replication ==
  /\ pc = "SHOW SLAVE STATUS" => "SHOW REPLICA STATUS" \in invalidQueries
  /\ "replica" \in fresh =>
       cut \/ (firstDialect = "old" /\ dialect = "new") \/ replicaStatuses

Inv == Types /\ SinceCurr /\ BetweenThem /\ Progress /\ GivenUp /\ Replication /\ FreshOrFlagged

-----------------------------------------------------------------------------
(* Counters of finite width. *)

LEMMA Division ==
  \A a \in Nat : /\ a = Width * (a \div Width) + (a % Width)
                 /\ a % Width \in Values /\ a \div Width \in Nat
BY MysqlAssumption DEF Values

LEMMA Multiples == \A p, q \in Int : p < q => Width * p + Width <= Width * q
BY MysqlAssumption

LEMMA Distributes == \A p, q \in Int : Width * (p + q) = Width * p + Width * q
BY MysqlAssumption

LEMMA Remainder ==
  ASSUME NEW a \in Nat, NEW q \in Int, NEW r \in Values, a = Width * q + r
  PROVE  a % Width = r
<1>1. a = Width * (a \div Width) + (a % Width) /\ a % Width \in Values /\ a \div Width \in Int
  BY Division
<1>2. \A p, k \in Int, s, u \in Values : Width * p + s = Width * k + u => s = u
  BY Multiples, MysqlAssumption DEF Values
<1> QED BY <1>1, <1>2

\* One more, and the difference of two unsigned integers.
LEMMA OneMore == ASSUME NEW a \in Nat PROVE ((a % Width) + 1) % Width = (a + 1) % Width
<1> DEFINE q == a \div Width
           b == a % Width
<1>1. a = Width * q + b /\ b \in Values /\ q \in Nat
  BY Division
<1>2. b + 1 \in Nat /\ a + 1 \in Nat
  BY <1>1, MysqlAssumption DEF Values
<1> DEFINE p == (b + 1) \div Width
           c == (b + 1) % Width
<1>3. b + 1 = Width * p + c /\ c \in Values /\ p \in Nat
  BY <1>2, Division
<1> HIDE DEF q, b, p, c
<1>4. Width * (q + p) = Width * q + Width * p
  BY <1>1, <1>3, Distributes
<1>5. Width * q \in Int /\ Width * p \in Int /\ Width * (q + p) \in Int
  BY <1>1, <1>3, MysqlAssumption
<1>6. a + 1 = Width * (q + p) + c
  BY <1>1, <1>3, <1>4, <1>5, MysqlAssumption DEF Values
<1>7. (a + 1) % Width = c
  BY <1>1, <1>2, <1>3, <1>6, Remainder
<1> QED BY <1>7 DEF b, c

LEMMA Difference ==
  ASSUME NEW b \in Values, NEW n \in Nat
  PROVE  (((b + n) % Width) + Width - b) % Width = n % Width
<1>1. b + n \in Nat /\ b \in Int /\ b < Width /\ Width \in Nat
  BY MysqlAssumption DEF Values
<1> DEFINE q == (b + n) \div Width
           c == (b + n) % Width
           k == n \div Width
           r == n % Width
<1>2. b + n = Width * q + c /\ c \in Values /\ q \in Nat
  BY <1>1, Division
<1>3. n = Width * k + r /\ r \in Values /\ k \in Nat
  BY Division
<1> HIDE DEF q, c, k, r
<1> DEFINE m == k + (1 - q)
<1>4. Width * m = Width * k + Width * (1 - q) /\ m \in Int
  BY <1>2, <1>3, Distributes
<1> DEFINE z == 0 - q
<1>5. z \in Int /\ 1 - q = 1 + z /\ q + z = 0
  BY <1>2
<1> HIDE DEF z
<1>6. Width * (1 + z) = Width * 1 + Width * z /\ Width * (q + z) = Width * q + Width * z
  <2>1. q \in Int /\ z \in Int /\ 1 \in Int
    BY <1>2, <1>5
  <2> QED BY <2>1, Distributes
<1>7. Width * (1 - q) = Width - Width * q
  <2>1. Width * 1 = Width /\ Width * (q + z) = 0 /\ Width * (1 - q) = Width * (1 + z)
    BY <1>1, <1>5
  <2>2. Width * q \in Int /\ Width * z \in Int
    BY <1>1, <1>2, <1>5
  <2> QED BY <1>1, <1>6, <2>1, <2>2
<1>8. Width * q \in Int /\ Width * k \in Int /\ Width * m \in Int
  BY <1>1, <1>2, <1>3, <1>4
<1> HIDE DEF m
<1>9. c + Width - b = Width * m + r /\ c + Width - b \in Nat
  BY <1>1, <1>2, <1>3, <1>4, <1>7, <1>8 DEF Values
<1>10. (c + Width - b) % Width = r
  BY <1>3, <1>4, <1>9, Remainder
<1> QED BY <1>10 DEF c, r

LEMMA Small == \A v \in Values : v % Width = v /\ v \in Nat
<1>1. \A v \in Values : v = Width * 0 + v /\ v \in Nat
  BY MysqlAssumption DEF Values
<1> QED BY <1>1, Remainder

LEMMA Nothing == \A v \in Values \cup {Nil} : Val(v) \in Values /\ Counted(v, v, 0)
<1>1. \A v \in Values \cup {Nil} : Val(v) \in Values
  BY MysqlAssumption DEF Val, Values
<1>2. \A v \in Values \cup {Nil} : Val(v) + 0 = Val(v) /\ Val(v) % Width = Val(v)
  BY <1>1, Small DEF Values
<1> QED BY <1>1, <1>2 DEF Counted

LEMMA OneCounted ==
  ASSUME NEW v \in Values \cup {Nil}, NEW w \in Values \cup {Nil}, NEW n, Counted(v, w, n),
         NEW x, x = (IF w = Nil THEN 1 % Width ELSE (w + 1) % Width)
  PROVE  x \in Values /\ Counted(v, x, n + 1)
<1>1. Val(v) \in Values /\ Val(w) \in Values /\ n \in Nat
  BY Nothing DEF Counted
<1>2. Val(v) \in Nat /\ Val(w) \in Nat
  BY <1>1, Small
<1>3. x = (Val(w) + 1) % Width
  <2>1. 0 + 1 = 1
    OBVIOUS
  <2> QED BY <2>1 DEF Val
<1>4. x = (((Val(v) + n) % Width) + 1) % Width
  BY <1>3 DEF Counted
<1>5. Val(v) + n \in Nat /\ Val(w) + 1 \in Nat /\ (Val(v) + n) + 1 = Val(v) + (n + 1) /\ n + 1 \in Nat
  BY <1>1, <1>2
<1>6. x = (Val(v) + (n + 1)) % Width /\ x \in Values
  BY <1>3, <1>4, <1>5, OneMore, Division
<1>7. Val(x) = x
  BY <1>6, MysqlAssumption DEF Val, Values
<1> QED BY <1>5, <1>6, <1>7 DEF Counted

-----------------------------------------------------------------------------
(* The server. *)

LEMMA InitInv == Init => Inv
<1> SUFFICES ASSUME Init PROVE Inv
  OBVIOUS
<1>1. Types /\ SinceCurr /\ BetweenThem
  BY DEF Init, Types, SnapOK, SinceCurr, BetweenThem
<1>2. Progress /\ GivenUp /\ Replication /\ FreshOrFlagged
  <2>1. Exported = {}
    BY DEF Init, Exported
  <2> QED BY <2>1 DEF Init, Progress, Before, Steps, Queries, Parts, Summaries, GivenUp, Replication,
                     FreshOrFlagged, AtRest
<1> QED BY <1>1, <1>2 DEF Inv

\* Steps that leave the counters and the snapshots alone.
LEMMA SnapshotsKept ==
  ASSUME Types, SinceCurr, BetweenThem, UNCHANGED <<counters, work, resets, prev, curr>>
  PROVE  Types' /\ SinceCurr' /\ BetweenThem'
BY DEF Types, SinceCurr, BetweenThem, SnapOK, Counted, Val

\* Steps that leave the collector alone.
LEMMA CollectorKept ==
  ASSUME Progress, Replication, FreshOrFlagged, UNCHANGED collector,
         UNCHANGED <<dialect, firstDialect>>
  PROVE  Progress' /\ Replication' /\ FreshOrFlagged'
BY DEF Progress, Before, Replication, FreshOrFlagged, AtRest, Exported, collector, replica, snapshots

LEMMA CountInv == ASSUME Inv, NEW t \in Summaries, NEW r \in Rows, Count(t, r) PROVE Inv'
<1> DEFINE x == IF counters[t][r] = Nil THEN 1 % Width ELSE (counters[t][r] + 1) % Width
<1>1. /\ counters \in [Summaries -> [Rows -> Values \cup {Nil}]]
      /\ work \in [Summaries -> [Rows -> Nat]]
  BY DEF Inv, Types
<1>2. /\ work' = [work EXCEPT ![t][r] = @ + 1]
      /\ counters' = [counters EXCEPT ![t][r] = x]
      /\ UNCHANGED <<resets, dialect, firstDialect, collector>>
  BY <1>1 DEF Count
<1>3. UNCHANGED <<prev, curr, invalidQueries>>
  BY <1>2 DEF collector, snapshots, replica
<1>4. counters[t][r] \in Values \cup {Nil} /\ work[t][r] \in Nat
  BY <1>1
<1>5. x \in Values
  BY <1>4, Nothing, OneCounted
<1> HIDE DEF x
<1>6. /\ counters' \in [Summaries -> [Rows -> Values \cup {Nil}]]
      /\ work' \in [Summaries -> [Rows -> Nat]]
      /\ counters'[t][r] = x /\ work'[t][r] = work[t][r] + 1
      /\ \A u \in Summaries, q \in Rows : u # t \/ q # r =>
           counters'[u][q] = counters[u][q] /\ work'[u][q] = work[u][q]
  BY <1>1, <1>2, <1>5
<1>7. Types'
  BY <1>2, <1>3, <1>6 DEF Inv, Types, SnapOK
<1>8. BetweenThem'
  BY <1>3 DEF Inv, BetweenThem, Counted, Val
<1>9. SinceCurr'
  <2> SUFFICES ASSUME NEW u \in Summaries, curr[u] # Nil
               PROVE  /\ curr[u].resets <= resets[u]
                      /\ curr[u].resets = resets[u] => \A q \in Rows :
                           curr[u].whole \/ curr[u].rows[q] # Nil =>
                             Counted(curr[u].rows[q], counters'[u][q], work'[u][q] - curr[u].work[q])
    BY <1>2, <1>3 DEF SinceCurr, Counted, Val
  <2>1. curr[u].resets <= resets[u]
    BY DEF Inv, SinceCurr
  <2> SUFFICES ASSUME NEW q \in Rows, curr[u].resets = resets[u],
                      curr[u].whole \/ curr[u].rows[q] # Nil
               PROVE  Counted(curr[u].rows[q], counters'[u][q], work'[u][q] - curr[u].work[q])
    BY <2>1
  <2>2. Counted(curr[u].rows[q], counters[u][q], work[u][q] - curr[u].work[q])
    BY DEF Inv, SinceCurr
  <2>3. curr[u].rows[q] \in Values \cup {Nil} /\ curr[u].work[q] \in Nat
    BY DEF Inv, Types, SnapOK
  <2>4. CASE u = t /\ q = r
    <3>1. Counted(curr[u].rows[q], x, work[u][q] - curr[u].work[q] + 1)
      BY <1>4, <2>2, <2>3, <2>4, OneCounted DEF x
    <3>2. work[u][q] - curr[u].work[q] + 1 = work'[u][q] - curr[u].work[q]
      <4>1. work'[u][q] = work[u][q] + 1
        BY <1>6, <2>4
      <4>2. work[u][q] \in Int /\ curr[u].work[q] \in Int
        BY <1>1, <2>3
      <4>3. \A a, b \in Int : a - b + 1 = (a + 1) - b
        OBVIOUS
      <4> QED BY <4>1, <4>2, <4>3
    <3> QED BY <1>6, <2>4, <3>1, <3>2
  <2>5. CASE ~(u = t /\ q = r)
    BY <1>6, <2>2, <2>5
  <2> QED BY <2>4, <2>5
<1>10. Progress' /\ Replication' /\ FreshOrFlagged'
  BY <1>2, CollectorKept DEF Inv
<1>11. GivenUp'
  BY <1>2, <1>3 DEF Inv, GivenUp
<1> QED BY <1>7, <1>8, <1>9, <1>10, <1>11 DEF Inv

LEMMA ResetInv == ASSUME Inv, NEW t \in Summaries, Reset(t) PROVE Inv'
<1>1. /\ counters' = [counters EXCEPT ![t] = [r \in Rows |-> Nil]]
      /\ resets' = [resets EXCEPT ![t] = @ + 1]
      /\ UNCHANGED <<work, dialect, firstDialect, collector>>
  BY DEF Reset
<1>2. UNCHANGED <<prev, curr, invalidQueries>>
  BY <1>1 DEF collector, snapshots, replica
<1>3. /\ counters \in [Summaries -> [Rows -> Values \cup {Nil}]]
      /\ resets \in [Summaries -> Nat]
  BY DEF Inv, Types
<1>4. /\ resets' \in [Summaries -> Nat] /\ resets'[t] = resets[t] + 1
      /\ counters' \in [Summaries -> [Rows -> Values \cup {Nil}]]
      /\ \A u \in Summaries : u # t => resets'[u] = resets[u] /\ counters'[u] = counters[u]
  BY <1>1, <1>3
<1>5. Types'
  BY <1>1, <1>2, <1>4 DEF Inv, Types, SnapOK
<1>6. BetweenThem'
  BY <1>2 DEF Inv, BetweenThem, Counted, Val
<1>7. SinceCurr'
  <2> SUFFICES ASSUME NEW u \in Summaries, curr[u] # Nil
               PROVE  /\ curr[u].resets <= resets'[u]
                      /\ curr[u].resets = resets'[u] => \A q \in Rows :
                           curr[u].whole \/ curr[u].rows[q] # Nil =>
                             Counted(curr[u].rows[q], counters'[u][q], work[u][q] - curr[u].work[q])
    BY <1>1, <1>2 DEF SinceCurr, Counted, Val
  <2>1. curr[u].resets <= resets[u] /\ curr[u].resets \in Nat /\ resets[u] \in Nat
    BY <1>3 DEF Inv, SinceCurr, Types, SnapOK
  <2>2. CASE u = t
    <3>1. curr[u].resets <= resets'[u] /\ curr[u].resets # resets'[u]
      BY <1>4, <2>1, <2>2
    <3> QED BY <3>1
  <2>3. CASE u # t
    <3>1. resets'[u] = resets[u] /\ counters'[u] = counters[u]
      BY <1>4, <2>3
    <3> QED BY <3>1 DEF Inv, SinceCurr
  <2> QED BY <2>2, <2>3
<1>8. Progress' /\ Replication' /\ FreshOrFlagged'
  BY <1>1, CollectorKept DEF Inv
<1>9. GivenUp'
  BY <1>1, <1>2 DEF Inv, GivenUp
<1> QED BY <1>5, <1>6, <1>7, <1>8, <1>9 DEF Inv

LEMMA UpgradeInv == ASSUME Inv, Upgrade PROVE Inv'
<1>1. Types' /\ SinceCurr' /\ BetweenThem'
  BY SnapshotsKept DEF Inv, Upgrade, collector, snapshots
<1>2. Progress' /\ GivenUp' /\ Replication' /\ FreshOrFlagged'
  <2>1. Exported' = Exported
    BY DEF Upgrade, collector, snapshots, Exported
  <2> QED BY <2>1 DEF Inv, Upgrade, collector, snapshots, replica, Progress, Before, GivenUp,
                     Replication, FreshOrFlagged, AtRest
<1> QED BY <1>1, <1>2 DEF Inv

-----------------------------------------------------------------------------
(* The goroutine. *)

\* The steps that neither read nor replace a summary.
LEMMA OtherInv ==
  ASSUME Inv, Tick \/ Quit \/ UpdateVariables \/ UpdateReplicationStatus \/ Close
  PROVE  Inv'
<1>1. UNCHANGED <<counters, work, resets, prev, curr, dialect, firstDialect>>
  BY DEF Tick, Quit, UpdateVariables, UpdateReplicationStatus, Close, server, snapshots
<1>2. Types' /\ SinceCurr' /\ BetweenThem'
  BY <1>1, SnapshotsKept DEF Inv
<1> USE DEF Inv, Progress, Before, GivenUp, Replication, FreshOrFlagged, AtRest, Steps,
            Queries, Parts, Summaries
<1>3. CASE Tick
  BY <1>1, <1>2, <1>3 DEF Tick
<1>4. CASE Quit
  BY <1>1, <1>2, <1>4 DEF Quit, replica
<1>5. CASE UpdateVariables
  BY <1>1, <1>2, <1>5 DEF UpdateVariables, replica
<1>6. CASE UpdateReplicationStatus
  <2>1. /\ pc \in Queries /\ UNCHANGED <<closed, scrapeErrors>>
        /\ ~scrapeErrors /\ ~cut /\ fresh = {"variables", "status"}
    BY <1>6 DEF UpdateReplicationStatus
  <2>2. \/ /\ pc \in invalidQueries /\ ~replicaStatuses' /\ UNCHANGED <<invalidQueries, cut>>
        \/ /\ pc \notin invalidQueries /\ pc \in Understood
           /\ \/ replicaStatuses' /\ UNCHANGED <<invalidQueries, cut>>
              \/ ~replicaStatuses' /\ cut' /\ UNCHANGED invalidQueries
        \/ /\ pc \notin Understood /\ ~replicaStatuses'
           /\ invalidQueries' = invalidQueries \cup {pc} /\ UNCHANGED cut
    BY <1>6 DEF UpdateReplicationStatus
  <2>3. \/ /\ pc' = "SHOW SLAVE STATUS" /\ fresh' = fresh
           /\ pc = "SHOW REPLICA STATUS" /\ ~replicaStatuses' /\ ~cut'
        \/ /\ pc' = "statements" /\ fresh' = fresh \cup {"replica"}
           /\ pc = "SHOW SLAVE STATUS" \/ replicaStatuses' \/ cut'
    BY <1>6, <2>1 DEF UpdateReplicationStatus
  <2>4. Progress'
    BY <1>1, <2>1, <2>2, <2>3
  <2>5. FreshOrFlagged'
    BY <2>3
  <2>6. GivenUp'
    BY <1>1, <2>1, <2>2 DEF Understood
  <2>7. Replication'
    BY <1>1, <2>1, <2>2, <2>3 DEF Understood
  <2> QED BY <1>2, <2>4, <2>5, <2>6, <2>7
<1>7. CASE Close
  <2>1. Exported' = Exported
    BY <1>1 DEF Exported
  <2> QED BY <1>1, <1>2, <1>7, <2>1 DEF Close, replica
<1> QED BY <1>3, <1>4, <1>5, <1>6, <1>7

\* The old snapshot becomes the previous one, whatever the new one is.
LEMMA QuerySummaryInv == ASSUME Inv, NEW t \in Summaries, QuerySummary(t) PROVE Inv'
<1>1. PICK rows \in SUBSET Rows :
        /\ prev' = [prev EXCEPT ![t] = curr[t]]
        /\ curr' = [curr EXCEPT ![t] = Snapshot(t, rows)]
  BY DEF QuerySummary
<1>2. /\ pc = t /\ pc' = (IF t = "statements" THEN "io" ELSE "select")
      /\ fresh' = fresh \cup {t}
      /\ UNCHANGED <<counters, work, resets, dialect, firstDialect, closed, scrapeErrors,
                     replicaStatuses, invalidQueries, cut>>
  BY DEF QuerySummary, server, replica
<1> DEFINE new == Snapshot(t, rows)
<1>3. /\ counters \in [Summaries -> [Rows -> Values \cup {Nil}]]
      /\ work \in [Summaries -> [Rows -> Nat]] /\ resets \in [Summaries -> Nat]
      /\ DOMAIN prev = Summaries /\ DOMAIN curr = Summaries
  BY DEF Inv, Types
<1>4. /\ new.rows = [r \in Rows |-> IF r \in rows THEN counters[t][r] ELSE Nil]
      /\ new.whole <=> \A r \in Rows \ rows : counters[t][r] = Nil
      /\ new.work = work[t] /\ new.resets = resets[t]
  BY DEF Snapshot
<1> HIDE DEF new
<1>5. /\ DOMAIN prev' = Summaries /\ DOMAIN curr' = Summaries
      /\ prev'[t] = curr[t] /\ curr'[t] = new
      /\ \A u \in Summaries \ {t} : prev'[u] = prev[u] /\ curr'[u] = curr[u]
  BY <1>1, <1>3 DEF new
<1>6. SnapOK(new)
  BY <1>3, <1>4 DEF SnapOK
<1>7. Types'
  <2>1. \A u \in Summaries : SnapOK(prev'[u]) /\ SnapOK(curr'[u])
    BY <1>5, <1>6 DEF Inv, Types
  <2> QED BY <1>2, <1>3, <1>5, <2>1 DEF Types, SnapOK
<1>8. SinceCurr'
  <2> SUFFICES ASSUME NEW u \in Summaries, curr'[u] # Nil
               PROVE  /\ curr'[u].resets <= resets[u]
                      /\ curr'[u].resets = resets[u] => \A q \in Rows :
                           curr'[u].whole \/ curr'[u].rows[q] # Nil =>
                             Counted(curr'[u].rows[q], counters[u][q], work[u][q] - curr'[u].work[q])
    BY <1>2 DEF SinceCurr, Counted, Val
  <2>1. CASE u = t
    <3>1. curr'[u].resets <= resets[u]
      BY <1>3, <1>4, <1>5, <2>1
    <3>2. ASSUME NEW q \in Rows, new.whole \/ new.rows[q] # Nil
          PROVE  Counted(new.rows[q], counters[t][q], work[t][q] - new.work[q])
      <4>1. new.rows[q] = counters[t][q]
        BY <1>3, <1>4, <3>2
      <4>2. work[t][q] - new.work[q] = 0
        BY <1>3, <1>4
      <4>3. Counted(counters[t][q], counters[t][q], 0)
        BY <1>3, Nothing
      <4> QED BY <4>1, <4>2, <4>3
    <3> QED BY <1>5, <2>1, <3>1, <3>2
  <2>2. CASE u # t
    <3>1. curr'[u] = curr[u]
      BY <1>5, <2>2
    <3> QED BY <3>1 DEF Inv, SinceCurr
  <2> QED BY <2>1, <2>2
<1>9. BetweenThem'
  <2> SUFFICES ASSUME NEW u \in Summaries, NEW q \in Rows,
                      prev'[u] # Nil, curr'[u] # Nil, prev'[u].resets = curr'[u].resets,
                      prev'[u].whole, curr'[u].rows[q] # Nil
               PROVE  Counted(prev'[u].rows[q], curr'[u].rows[q], curr'[u].work[q] - prev'[u].work[q])
    BY DEF BetweenThem, Counted, Val
  <2>1. CASE u = t
    <3>1. /\ prev'[u] = curr[t] /\ curr'[u].rows[q] = counters[t][q]
          /\ curr'[u].work[q] = work[t][q] /\ curr'[u].resets = resets[t]
      BY <1>4, <1>5, <2>1
    <3>2. Counted(curr[t].rows[q], counters[t][q], work[t][q] - curr[t].work[q])
      BY <3>1 DEF Inv, SinceCurr
    <3> QED BY <3>1, <3>2
  <2>2. CASE u # t
    <3>1. prev'[u] = prev[u] /\ curr'[u] = curr[u]
      BY <1>5, <2>2
    <3> QED BY <3>1 DEF Inv, BetweenThem
  <2> QED BY <2>1, <2>2
<1>10. Progress' /\ FreshOrFlagged' /\ GivenUp' /\ Replication'
  BY <1>2 DEF Inv, Progress, Before, GivenUp, Replication, FreshOrFlagged, AtRest, Steps,
              Queries, Parts, Summaries
<1> QED BY <1>7, <1>8, <1>9, <1>10 DEF Inv

LEMMA QueryFailsInv == ASSUME Inv, QueryFails PROVE Inv'
<1>1. /\ UNCHANGED <<counters, work, resets, dialect, firstDialect, closed, invalidQueries, cut, fresh>>
      /\ scrapeErrors' /\ pc' = "select" /\ pc \in Steps
      /\ replicaStatuses' = IF pc \in Queries THEN FALSE ELSE replicaStatuses
  BY DEF QueryFails, server
<1>2. \A u \in Summaries : \/ prev'[u] = prev[u] /\ curr'[u] = curr[u]
                           \/ prev'[u] = curr[u] /\ curr'[u] = Nil
  BY DEF QueryFails, snapshots, Inv, Types
<1>3. Types'
  <2>1. DOMAIN prev' = Summaries /\ DOMAIN curr' = Summaries
    BY DEF QueryFails, snapshots, Inv, Types
  <2>2. \A u \in Summaries : SnapOK(prev'[u]) /\ SnapOK(curr'[u])
    BY <1>2 DEF Inv, Types, SnapOK
  <2> QED BY <1>1, <2>1, <2>2 DEF Inv, Types, SnapOK
<1>4. SinceCurr'
  <2> SUFFICES ASSUME NEW u \in Summaries, curr'[u] # Nil
               PROVE  /\ curr'[u].resets <= resets[u]
                      /\ curr'[u].resets = resets[u] => \A q \in Rows :
                           curr'[u].whole \/ curr'[u].rows[q] # Nil =>
                             Counted(curr'[u].rows[q], counters[u][q], work[u][q] - curr'[u].work[q])
    BY <1>1 DEF SinceCurr, Counted, Val
  <2>1. curr'[u] = curr[u]
    BY <1>2
  <2> QED BY <2>1 DEF Inv, SinceCurr
<1>5. BetweenThem'
  <2> SUFFICES ASSUME NEW u \in Summaries, NEW q \in Rows,
                      prev'[u] # Nil, curr'[u] # Nil, prev'[u].resets = curr'[u].resets,
                      prev'[u].whole, curr'[u].rows[q] # Nil
               PROVE  Counted(prev'[u].rows[q], curr'[u].rows[q], curr'[u].work[q] - prev'[u].work[q])
    BY DEF BetweenThem, Counted, Val
  <2>1. prev'[u] = prev[u] /\ curr'[u] = curr[u]
    BY <1>2
  <2> QED BY <2>1 DEF Inv, BetweenThem
<1>6. Progress' /\ FreshOrFlagged' /\ GivenUp' /\ Replication'
  BY <1>1 DEF Inv, Progress, Before, GivenUp, Replication, FreshOrFlagged, AtRest, Steps,
              Queries, Parts, Summaries
<1> QED BY <1>3, <1>4, <1>5, <1>6 DEF Inv

LEMMA StutterInv == ASSUME Inv, UNCHANGED vars PROVE Inv'
<1>1. UNCHANGED <<counters, work, resets, prev, curr>> /\ UNCHANGED collector
      /\ UNCHANGED <<dialect, firstDialect, invalidQueries>>
  BY DEF vars, collector, server, snapshots, replica
<1>2. GivenUp'
  BY <1>1 DEF Inv, GivenUp
<1> QED BY <1>1, <1>2, SnapshotsKept, CollectorKept DEF Inv

LEMMA NextInv == Inv /\ [Next]_vars => Inv'
<1> SUFFICES ASSUME Inv, [Next]_vars PROVE Inv'
  OBVIOUS
<1>1. CASE Server
  BY <1>1, CountInv, ResetInv, UpgradeInv DEF Server
<1>2. CASE Take
  BY <1>2, OtherInv, QuerySummaryInv, QueryFailsInv DEF Take
<1>3. CASE Quit \/ Close
  BY <1>3, OtherInv
<1>4. CASE UNCHANGED vars
  BY <1>4, StutterInv
<1> QED BY <1>1, <1>2, <1>3, <1>4 DEF Next

LEMMA AlwaysInv == Spec => []Inv
BY InitInv, NextInv, PTL DEF Spec

-----------------------------------------------------------------------------

\* The types of the snapshots, and that the goroutine ends only after Close.
THEOREM TypeCorrect == Spec => []TypeOK
<1>1. Inv => TypeOK
  BY DEF Inv, Types, SnapOK, Progress, GivenUp, TypeOK, SnapshotOK, Values
<1> QED BY <1>1, AlwaysInv, PTL

\* The difference of two unsigned counters is what was counted between the two
\* snapshots, modulo their width, for rows that are new and when they wrap.
THEOREM RatesAreReal == Spec => []IncreasesAreReal
<1>1. ASSUME Inv PROVE IncreasesAreReal
  <2> SUFFICES ASSUME NEW x \in Exported, prev[x[1]].resets = curr[x[1]].resets, prev[x[1]].whole
               PROVE  Increase(x[1], x[2]) = (curr[x[1]].work[x[2]] - prev[x[1]].work[x[2]]) % Width
    BY DEF IncreasesAreReal
  <2> DEFINE t == x[1]
             r == x[2]
             n == curr[t].work[r] - prev[t].work[r]
  <2>1. t \in Summaries /\ r \in Rows /\ prev[t] # Nil /\ curr[t] # Nil /\ curr[t].rows[r] # Nil
    BY DEF Exported
  <2> HIDE DEF t, r
  <2>2. Counted(prev[t].rows[r], curr[t].rows[r], n)
    BY <1>1, <2>1 DEF Inv, BetweenThem, t, r
  <2>3. prev[t].rows[r] \in Values \cup {Nil}
    BY <1>1, <2>1 DEF Inv, Types, SnapOK
  <2> HIDE DEF n
  <2>4. Val(prev[t].rows[r]) \in Values /\ n \in Nat
    BY <2>2, <2>3, Nothing DEF Counted
  <2>5. curr[t].rows[r] = (Val(prev[t].rows[r]) + n) % Width
    BY <2>1, <2>2 DEF Counted, Val
  <2>6. Increase(t, r) = (curr[t].rows[r] + Width - Val(prev[t].rows[r])) % Width
    BY DEF Increase, Val
  <2>7. Increase(t, r) = n % Width
    BY <2>4, <2>5, <2>6, Difference
  <2> QED BY <2>7 DEF t, r, n
<1> QED BY <1>1, AlwaysInv, PTL

\* An export without an error shows nothing of an older snapshot.
THEOREM NothingStalePasses == Spec => []FreshOrFlagged
<1>1. Inv => FreshOrFlagged
  BY DEF Inv
<1> QED BY <1>1, AlwaysInv, PTL

\* Only a query the server did not understand is given up, so one of the two
\* finds the replication, but for an upgrade that skips the versions with both.
THEOREM ReplicationIsSeen == Spec => []ReplicationSeen
<1>1. Inv => ReplicationSeen
  BY DEF Inv, Replication, ReplicationSeen
<1> QED BY <1>1, AlwaysInv, PTL
=============================================================================
