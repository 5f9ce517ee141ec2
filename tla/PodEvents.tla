------------------------------ MODULE PodEvents ------------------------------
(***************************************************************************)
(* Pod events: from the Kubernetes informer through the handlers and the   *)
(* fan-out of k8s/k8s.go to the target tables of the subscribers           *)
(* (Metrics.discoverFromPods and Profiles.discoverFromPods, the same       *)
(* switch over two kinds of targets).                                      *)
(*                                                                         *)
(* The handlers run one notification at a time and hand an event to each   *)
(* subscriber over an unbuffered channel, so the slowest one sets the pace *)
(* of all.  What a subscriber does between receiving two events is one     *)
(* action: Metrics models its races with other sources of targets.         *)
(*                                                                         *)
(* The informer (client-go, external) delivers every change while its      *)
(* watch is up.  When the watch was interrupted it lists all pods and      *)
(* compares: changes in between melt into one update, and a deletion it    *)
(* missed arrives as a tombstone, which podFromObj cannot convert: the     *)
(* agent panics and is restarted with empty tables.                        *)
(***************************************************************************)
EXTENDS Naturals, Sequences, FiniteSets

CONSTANTS
  Pods,        \* namespaced names
  Layouts,     \* what the cluster may be like: a set of records of
               \*   ips: pod -> the addresses it may get,
               \*   wants: pod -> the sets of subscribers its annotations may name,
               \*   changes: bound, pod changes,
               \*   faults: bound, interrupted watches and restarts
  Reused,      \* names that a new pod may get again, as in a StatefulSet
  Subscribers, \* the subscribers in the order they subscribed
  NamedSubs,   \* those whose target carries the name of the pod
  Nil

Subs == {Subscribers[i] : i \in DOMAIN Subscribers}
IPs  == UNION {l.ips[k] : k \in Pods, l \in Layouts}

\* A pod without an address has the empty string, here Nil, for its IP.
Pod == [phase : {"Pending", "Running", "Done"}, ip : IPs \cup {Nil}, wants : SUBSET Subs]
NoPods == [k \in Pods |-> Nil]

PodEvent == [type : {"Add", "Change", "Delete"}, name : Pods, pod : Pod, old : Pod \cup {Nil}]
Target   == [addr : IPs \cup {Nil}, pod : Pods \cup {Nil}]

ASSUME PodEventsAssumption ==
  /\ IsFiniteSet(Pods)
  /\ Subscribers \in Seq(Subs)
  /\ \A i, j \in DOMAIN Subscribers : Subscribers[i] = Subscribers[j] => i = j
  /\ \A l \in Layouts : \A k \in Pods :
       IsFiniteSet(l.ips[k]) /\ l.wants[k] \subseteq SUBSET Subs
  /\ NamedSubs \subseteq Subs
  /\ Nil \notin Pod \cup Pods \cup IPs \cup PodEvent \cup Target
  /\ Nil \notin [event : PodEvent, to : DOMAIN Subscribers]
  /\ \A l \in Layouts : l.changes \in Nat /\ l.faults \in Nat

VARIABLES
  layout,    \* the layout of this behaviour: never changed
  store,     \* the pods of the API server
  born,      \* the names that were in use
  seen,      \* the informer's cache
  watching,  \* whether its watch is up
  pending,   \* notifications that wait for the handlers
  sending,   \* the event sendPodEvent is handing out, and to whom next
  inbox,     \* subscriber -> the event it is busy with
  tables,    \* subscriber -> address -> target
  changes, faults,
  quiet      \* history: no pod has changed since the agent started

cluster == <<store, born, changes>>
agent   == <<seen, watching, pending, sending, inbox, tables>>
vars    == <<layout, cluster, agent, faults, quiet>>

EmptyTables == [s \in Subs |-> [a \in IPs \cup {Nil} |-> Nil]]

Init ==
  /\ layout \in Layouts
  /\ store = NoPods /\ born = {} /\ changes = 0 /\ faults = 0
  /\ seen = NoPods /\ watching = FALSE /\ pending = <<>>
  /\ sending = Nil /\ inbox = [s \in Subs |-> Nil]
  /\ tables = EmptyTables
  /\ quiet = TRUE

-----------------------------------------------------------------------------
(***************************************************************************)
(* The cluster                                                             *)
(***************************************************************************)

\* No two running pods have the same address, but a pod that is done keeps
\* the one it had while another pod may already use it.
Free(k, ip) ==
  \A j \in Pods \ {k} :
    store[j] # Nil /\ store[j].phase = "Running" => store[j].ip # ip

Successors(k) ==
  LET p == store[k] IN
  CASE p = Nil /\ k \in born \ Reused -> {}
    [] p = Nil /\ k \notin born \ Reused ->
         [phase : {"Pending"}, ip : {Nil}, wants : layout.wants[k]]
    [] p # Nil /\ p.phase = "Pending" ->
         [phase : {"Running"}, ip : {a \in layout.ips[k] : Free(k, a)}, wants : {p.wants}]
           \cup {Nil}
    [] p # Nil /\ p.phase = "Running" ->
         [phase : {"Running"}, ip : {a \in layout.ips[k] : Free(k, a)}, wants : layout.wants[k]]
           \cup {[p EXCEPT !.phase = "Done"], Nil}
    [] OTHER ->
         [phase : {"Done"}, ip : {p.ip}, wants : layout.wants[k]] \cup {Nil}

Notification(k, new, missed) ==
  [pod |-> k, old |-> seen[k], new |-> new, tombstone |-> missed /\ new = Nil]

PodChanges(k, new) ==
  /\ changes < layout.changes /\ new # store[k]
  /\ store' = [store EXCEPT ![k] = new]
  /\ born' = born \cup {k}
  /\ changes' = changes + 1 /\ quiet' = FALSE
  /\ IF watching
     THEN /\ pending' = Append(pending, Notification(k, new, FALSE))
          /\ seen' = [seen EXCEPT ![k] = new]
     ELSE UNCHANGED <<pending, seen>>
  /\ UNCHANGED <<layout, watching, sending, inbox, tables, faults>>

-----------------------------------------------------------------------------
(***************************************************************************)
(* The informer                                                            *)
(***************************************************************************)

WatchBreaks ==
  /\ watching /\ faults < layout.faults
  /\ watching' = FALSE /\ faults' = faults + 1
  /\ UNCHANGED <<layout, cluster, seen, pending, sending, inbox, tables, quiet>>

Orders(S) ==
  {o \in [1 .. Cardinality(S) -> S] : \A i, j \in DOMAIN o : o[i] = o[j] => i = j}

Relist ==
  /\ ~watching
  /\ \E o \in Orders({k \in Pods : seen[k] # store[k]}) :
       pending' = pending \o [i \in DOMAIN o |-> Notification(o[i], store[o[i]], TRUE)]
  /\ seen' = store /\ watching' = TRUE
  /\ UNCHANGED <<layout, cluster, sending, inbox, tables, faults, quiet>>

-----------------------------------------------------------------------------
(***************************************************************************)
(* The handlers and sendPodEvent                                           *)
(***************************************************************************)

Running(p) == p # Nil /\ p.phase = "Running"

Event(type, k, pod, old) == [type |-> type, name |-> k, pod |-> pod, old |-> old]

\* Mutant: the filter of the other handlers applied to deletions as well.
Handle_FiltersDeletes(n) ==
  IF n.new = Nil
  THEN IF Running(n.old) THEN Event("Delete", n.pod, n.old, Nil) ELSE Nil
  ELSE IF Running(n.new) /\ n.new # n.old
       THEN Event(IF n.old = Nil THEN "Add" ELSE "Change", n.pod, n.new, n.old)
       ELSE Nil

\* Mutant: a pod is added in whatever phase it is listed.
Handle_AddsAll(n) ==
  IF n.new = Nil THEN Event("Delete", n.pod, n.old, Nil)
  ELSE IF n.old = Nil THEN Event("Add", n.pod, n.new, Nil)
  ELSE IF Running(n.new) /\ n.new # n.old
       THEN Event("Change", n.pod, n.new, n.old) ELSE Nil

\* AddFunc, UpdateFunc and DeleteFunc: the event to send, or Nil.
Handle(n) ==
  IF n.new = Nil THEN Event("Delete", n.pod, n.old, Nil)
  ELSE IF Running(n.new) /\ n.new # n.old
       THEN Event(IF n.old = Nil THEN "Add" ELSE "Change", n.pod, n.new, n.old)
       ELSE Nil

Notify ==
  /\ sending = Nil /\ pending # <<>> /\ ~Head(pending).tombstone
  /\ LET e == Handle(Head(pending)) IN
     sending' = IF e = Nil \/ Subscribers = <<>> THEN Nil ELSE [event |-> e, to |-> 1]
  /\ pending' = Tail(pending)
  /\ UNCHANGED <<layout, cluster, seen, watching, inbox, tables, faults, quiet>>

\* Mutant: the loop runs once too often.
Send_OffByOne ==
  /\ sending # Nil
  /\ LET s == Subscribers[sending.to] IN
     inbox[s] = Nil /\ inbox' = [inbox EXCEPT ![s] = sending.event]
  /\ sending' = IF sending.to > Len(Subscribers) THEN Nil
                ELSE [sending EXCEPT !.to = @ + 1]
  /\ UNCHANGED <<layout, cluster, seen, watching, pending, tables, faults, quiet>>

\* The channel has no buffer: a subscriber takes the event when it is done
\* with the one before.
Send ==
  /\ sending # Nil
  /\ LET s == Subscribers[sending.to] IN
     inbox[s] = Nil /\ inbox' = [inbox EXCEPT ![s] = sending.event]
  /\ sending' = IF sending.to = Len(Subscribers) THEN Nil
                ELSE [sending EXCEPT !.to = @ + 1]
  /\ UNCHANGED <<layout, cluster, seen, watching, pending, tables, faults, quiet>>

\* The process ends, by a tombstone's panic or by other causes, and comes back.
Restart ==
  /\ \/ faults < layout.faults /\ faults' = faults + 1
     \/ sending = Nil /\ pending # <<>> /\ Head(pending).tombstone /\ UNCHANGED faults
  /\ seen' = NoPods /\ watching' = FALSE /\ pending' = <<>>
  /\ sending' = Nil /\ inbox' = [s \in Subs |-> Nil]
  /\ tables' = EmptyTables
  /\ quiet' = TRUE
  /\ UNCHANGED <<layout, cluster>>

-----------------------------------------------------------------------------
(***************************************************************************)
(* The subscribers                                                         *)
(***************************************************************************)

\* TargetFromPod.  Only the targets of NamedSubs tell equal pods apart.
TargetOf(s, k, p) ==
  IF p = Nil \/ s \notin p.wants THEN Nil
  ELSE [addr |-> p.ip, pod |-> IF s \in NamedSubs THEN k ELSE Nil]

Without(table, t) == IF t = Nil THEN table ELSE [table EXCEPT ![t.addr] = Nil]

\* A target that is new or differs replaces the one at its address; one that
\* is equal stays, which comes to the same.
Apply(s, e, table) ==
  LET t   == TargetOf(s, e.name, e.pod)
      old == TargetOf(s, e.name, e.old)
  IN  IF e.type = "Delete" THEN Without(table, t)
      ELSE IF t = Nil THEN Without(table, old)
      ELSE [table EXCEPT ![t.addr] = t]

\* Mutant: an event without a target ends the loop instead of the round.
Process_Returns(s) ==
  /\ inbox[s] # Nil /\ TargetOf(s, inbox[s].name, inbox[s].pod) # Nil
  /\ tables' = [tables EXCEPT ![s] = Apply(s, inbox[s], @)]
  /\ inbox' = [inbox EXCEPT ![s] = Nil]
  /\ UNCHANGED <<layout, cluster, seen, watching, pending, sending, faults, quiet>>

\* discoverFromPods: one round of the loop.
Process(s) ==
  /\ inbox[s] # Nil
  /\ tables' = [tables EXCEPT ![s] = Apply(s, inbox[s], @)]
  /\ inbox' = [inbox EXCEPT ![s] = Nil]
  /\ UNCHANGED <<layout, cluster, seen, watching, pending, sending, faults, quiet>>

-----------------------------------------------------------------------------

Cluster == \E k \in Pods : \E new \in Successors(k) : PodChanges(k, new)
Fault   == WatchBreaks \/ Restart

Next ==
  \/ Cluster \/ Fault
  \/ Relist \/ Notify \/ Send
  \/ \E s \in Subs : Process(s)

Spec == Init /\ [][Next]_vars

\* The informer reconnects, its handlers and each subscriber run, and the
\* kubelet restarts an agent that panicked.
Fairness ==
  /\ WF_vars(Relist) /\ WF_vars(Notify) /\ WF_vars(Send)
  /\ WF_vars(Restart /\ UNCHANGED faults)
  /\ \A s \in Subs : WF_vars(Process(s))

FairSpec == Spec /\ Fairness

-----------------------------------------------------------------------------
(***************************************************************************)
(* Properties                                                              *)
(***************************************************************************)

\* Types of the informer, the handlers and the tables.
TypeOK ==
  /\ store \in [Pods -> Pod \cup {Nil}]
  /\ seen \in [Pods -> Pod \cup {Nil}]
  /\ watching \in BOOLEAN /\ quiet \in BOOLEAN
  /\ \A i \in DOMAIN pending : pending[i].new # pending[i].old
  /\ sending # Nil => sending.to \in DOMAIN Subscribers
  /\ \A s \in Subs, a \in IPs : tables[s][a] # Nil => tables[s][a].addr = a

\* Everything that happened in the cluster has reached the tables.
Settled ==
  /\ watching /\ pending = <<>> /\ sending = Nil
  /\ \A s \in Subs : inbox[s] = Nil

\* No other pod can have an address of k.
Alone(k) == \A j \in Pods \ {k} : layout.ips[j] \cap layout.ips[k] = {}

\* A running pod whose annotations ask for it is a target of the subscriber at
\* the address it has now, after moves, changed annotations, interrupted
\* watches, recreation under its old name and restarts of the agent.  Only
\* where pods share an address in turn may the late Delete of the one take
\* away the target of the other.
RunningPodsServed ==
  Settled =>
    \A k \in Pods, s \in Subs :
      Running(store[k]) /\ s \in store[k].wants /\ Alone(k)
        => tables[s][store[k].ip] = TargetOf(s, k, store[k])

\* A pod that keeps its address and its annotations, and whose name is not used
\* again, leaves no target behind when it is gone, whatever phase it ended in and
\* whatever the informer missed.  Without one of these conditions it may: a move
\* or a missed recreation is one Change event, which stores the new target and
\* does not look at the old one's address.
NoGhosts ==
  Settled =>
    \A k \in Pods, s \in Subs :
      /\ store[k] = Nil /\ Alone(k) /\ k \notin Reused
      /\ Cardinality(layout.ips[k]) = 1 /\ Cardinality(layout.wants[k]) = 1
      => \A a \in layout.ips[k] : tables[s][a] = Nil

\* Whatever went wrong before, a restarted agent has the right tables once it
\* has listed the pods: the running pods, at their addresses, and no others.
RestartHeals ==
  quiet /\ Settled =>
    \A s \in Subs, a \in IPs :
      LET here == {k \in Pods : Running(store[k]) /\ store[k].ip = a
                                /\ s \in store[k].wants}
      IN  tables[s][a] \in (IF here = {} THEN {Nil}
                            ELSE {TargetOf(s, k, store[k]) : k \in here})

\* Subscribers that the annotations of every pod name together have targets at
\* the same addresses, although they work through the events at their own pace.
SubscribersAgree ==
  Settled =>
    \A s1, s2 \in Subs :
      (\A k \in Pods : \A w \in layout.wants[k] : s1 \in w <=> s2 \in w)
        => \A a \in IPs : (tables[s1][a] = Nil) <=> (tables[s2][a] = Nil)

\* What two informed subscribers make of one stream of events over unbuffered
\* channels and an interrupted watch, once it has reached them.
TablesFollow == RunningPodsServed /\ NoGhosts /\ SubscribersAgree

\* The tables catch up with the cluster: no subscriber stops the others for
\* good, and no notification is left.
CatchesUp == <>[]Settled
=============================================================================
