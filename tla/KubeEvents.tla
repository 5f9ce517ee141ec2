------------------------------ MODULE KubeEvents ------------------------------
(***************************************************************************)
(* The events of Kubernetes that the agent logs (k8s/k8s.go, k8s/event.go):*)
(* the informer (external) keeps a copy of each event and tells of what is *)
(* new to it or changed; the handlers decide which occurrences are emitted.*)
(*                                                                         *)
(* An event counts its occurrences and has the time of the last one, in    *)
(* whole seconds: a second is two ticks of the clock, the clocks of the    *)
(* cluster and of the agent agree.  An event expires, and is written anew  *)
(* with the next count if it occurs again.  The watch may be broken and    *)
(* repaired by a list, which skips what came in between; the agent may be  *)
(* restarted, and has nothing but the list then.                           *)
(***************************************************************************)
EXTENDS Naturals, Sequences

CONSTANTS
  Events,
  MaxTime, MaxCount, MaxFaults,  \* bounds
  Nil

ASSUME KubeEventsAssumption ==
  /\ MaxTime \in Nat /\ MaxCount \in Nat /\ MaxFaults \in Nat
  /\ Nil \notin [count : Nat, last : Nat]

VARIABLES
  clock,
  cluster,    \* event -> [count, last], Nil: it is not there (any more)
  occurred,   \* event -> its occurrences until now
  stream,     \* the changes the agent is to be told of: <<event, its new form>>
  watching,   \* whether there is a watch
  store,      \* the copies of the informer
  startTime,
  emitted,    \* what was handed to the logger: pairs of an event and a count
  repeated,   \* history: whether anything was emitted again, or out of order
  faults

vars == <<clock, cluster, occurred, stream, watching, store, startTime, emitted, repeated, faults>>

Second(t) == t - (t % 2)

Init ==
  /\ clock = 1 /\ startTime = 1
  /\ cluster \in [Events -> {Nil, [count |-> 1, last |-> 0]}]
  /\ occurred = [e \in Events |-> IF cluster[e] = Nil THEN 0 ELSE 1]
  /\ stream = <<>> /\ watching = FALSE
  /\ store = [e \in Events |-> Nil]
  /\ emitted = {} /\ repeated = FALSE /\ faults = 0

-----------------------------------------------------------------------------
(***************************************************************************)
(* The cluster                                                             *)
(***************************************************************************)

agent == <<store, startTime, emitted, repeated>>

Becomes(e, value) ==
  /\ cluster' = [cluster EXCEPT ![e] = value]
  /\ stream' = IF watching THEN Append(stream, <<e, value>>) ELSE stream

Occurs(e) ==
  /\ occurred[e] < MaxCount
  /\ occurred' = [occurred EXCEPT ![e] = @ + 1]
  /\ Becomes(e, [count |-> occurred[e] + 1, last |-> Second(clock)])
  /\ UNCHANGED <<clock, watching, agent, faults>>

Expires(e) ==
  /\ cluster[e] # Nil /\ faults < MaxFaults
  /\ faults' = faults + 1
  /\ Becomes(e, Nil)
  /\ UNCHANGED <<clock, occurred, watching, agent>>

TimePasses ==
  /\ clock < MaxTime
  /\ clock' = clock + 1
  /\ UNCHANGED <<cluster, occurred, stream, watching, agent, faults>>

-----------------------------------------------------------------------------
(***************************************************************************)
(* The handlers                                                            *)
(***************************************************************************)

\* Mutant: what was there before the agent is not told from what is new.
AddFunc_All(event) == TRUE

\* Mutant: an event of the time of the start is an old one.
AddFunc_Strict(event) == event.last > startTime

AddFunc(event) == event.last >= startTime

\* Mutant: an occurrence is known by its time.
UpdateFunc_ByTime(old, event) == event.last > old.last

UpdateFunc(old, event) == event.count > old.count

EmitEvent(new) ==
  /\ emitted' = emitted \cup new
  /\ repeated' = (repeated \/ \E n \in new, o \in emitted : o[1] = n[1] /\ o[2] >= n[2])

\* What the informer makes of a new form of an event: an update for what it
\* knows, an add for the rest.
Emits(e, value) ==
  /\ value # Nil
  /\ IF store[e] = Nil THEN AddFunc(value) ELSE UpdateFunc(store[e], value)

\* What is told of a change may not be the form of the event by now.
Handle ==
  /\ stream # <<>>
  /\ LET e == Head(stream)[1]
         value == Head(stream)[2]
     IN  /\ store' = [store EXCEPT ![e] = value]
         /\ EmitEvent(IF Emits(e, value) THEN {<<e, value.count>>} ELSE {})
  /\ stream' = Tail(stream)
  /\ UNCHANGED <<clock, cluster, occurred, watching, startTime, faults>>

\* The resource version of the watch is too old for the server.
WatchBreaks ==
  /\ watching /\ faults < MaxFaults
  /\ faults' = faults + 1
  /\ watching' = FALSE /\ stream' = <<>>
  /\ UNCHANGED <<clock, cluster, occurred, agent>>

\* List and watch, at the start and after a break; it is refused as long as the
\* agent may not read events.
Relist ==
  /\ ~watching
  /\ watching' = TRUE
  /\ store' = cluster
  /\ EmitEvent({<<e, cluster[e].count>> : e \in {d \in Events : Emits(d, cluster[d])}})
  /\ UNCHANGED <<clock, cluster, occurred, stream, startTime, faults>>

Restart ==
  /\ faults < MaxFaults /\ clock < MaxTime
  /\ faults' = faults + 1
  /\ clock' = clock + 1 /\ startTime' = clock + 1
  /\ watching' = FALSE /\ stream' = <<>>
  /\ store' = [e \in Events |-> Nil]
  /\ UNCHANGED <<cluster, occurred, emitted, repeated>>

Next ==
  \/ \E e \in Events : Occurs(e) \/ Expires(e)
  \/ TimePasses \/ Handle \/ WatchBreaks \/ Relist \/ Restart

Spec == Init /\ [][Next]_vars

\* client-go hands on what it has, and lists again after a break.
FairSpec == Spec /\ WF_vars(Handle) /\ WF_vars(Relist)

-----------------------------------------------------------------------------
(***************************************************************************)
(* Properties                                                              *)
(***************************************************************************)

Form == [count : Nat, last : Nat] \cup {Nil}

\* Types; what is known, told and emitted has occurred, in this order.
TypeOK ==
  /\ clock \in Nat /\ startTime \in Nat /\ faults \in Nat
  /\ cluster \in [Events -> Form] /\ store \in [Events -> Form]
  /\ occurred \in [Events -> Nat]
  /\ stream \in Seq(Events \X Form)
  /\ watching \in BOOLEAN /\ repeated \in BOOLEAN
  /\ emitted \subseteq Events \X Nat
  /\ ~watching => stream = <<>>
  /\ \A e \in Events :
       /\ cluster[e] # Nil => cluster[e].count = occurred[e]
       /\ store[e] # Nil => store[e].count <= occurred[e]
  /\ \A n \in emitted : n[2] <= occurred[n[1]]

\* No occurrence is emitted twice or after a later one of the same event: not by
\* a list after a broken watch, nor by the list of the next process.
InOrderOnce == ~repeated

\* With nothing left to handle, the last occurrence of an event that is there is
\* logged, unless it was before the agent or in the second in which the agent
\* started, whose beginning an event of it bears.
LastIsLogged ==
  watching /\ stream = <<>> =>
    \A e \in Events : cluster[e] # Nil /\ cluster[e].last >= startTime
                        => <<e, cluster[e].count>> \in emitted

\* The loss of the first second is one of events the agent did not know: once it
\* has an event, whatever the event counts later is logged (or a later count).
GrowthIsLogged ==
  [][\A e \in Events : store[e] # Nil /\ store'[e] # Nil
                       => store'[e].count = store[e].count
                          \/ <<e, store'[e].count>> \in emitted' \ emitted]_vars

\* An occurrence is logged at last, unless the event goes away, occurs again, or
\* the agent is restarted.
LoggedAtLast ==
  \A e \in Events, c \in 1..MaxCount :
    cluster[e] # Nil /\ occurred[e] = c /\ cluster[e].last >= startTime
    ~> \/ <<e, c>> \in emitted \/ occurred[e] > c
       \/ cluster[e] = Nil \/ cluster[e].last < startTime
=============================================================================
