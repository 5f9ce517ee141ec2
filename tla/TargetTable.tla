----------------------------- MODULE TargetTable -----------------------------
(***************************************************************************)
(* What the target table of metrics/metrics.go promises for an address     *)
(* that only one source of targets names: a request for a target is        *)
(* carried out in at most two steps, the old target leaves and the new one *)
(* arrives, a withdrawal in one, and nothing else ever changes the entry.  *)
(***************************************************************************)
CONSTANTS Addrs, Specs, None

VARIABLES
  want,   \* address -> what its source asked for last
  table   \* address -> what the table holds

tvars == <<want, table>>

Init ==
  /\ want  = [a \in Addrs |-> None]
  /\ table = [a \in Addrs |-> None]

Settled(a) == want[a] = table[a]

Request(a, s) ==
  /\ Settled(a) /\ s # want[a]
  /\ want' = [want EXCEPT ![a] = s]
  /\ UNCHANGED table

Withdraw(a) ==
  /\ Settled(a)
  /\ want'  = [want EXCEPT ![a] = None]
  /\ table' = [table EXCEPT ![a] = None]

Clear(a) ==
  /\ table[a] \notin {None, want[a]}
  /\ table' = [table EXCEPT ![a] = None]
  /\ UNCHANGED want

Install(a) ==
  /\ table[a] = None /\ want[a] # None
  /\ table' = [table EXCEPT ![a] = want[a]]
  /\ UNCHANGED want

Next ==
  \E a \in Addrs :
    \/ \E s \in Specs : Request(a, s)
    \/ Withdraw(a) \/ Clear(a) \/ Install(a)

Spec == Init /\ [][Next]_tvars
=============================================================================
