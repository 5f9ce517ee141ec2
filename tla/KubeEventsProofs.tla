--------------------------- MODULE KubeEventsProofs ---------------------------
(***************************************************************************)
(* The invariants of KubeEvents for any events and bounds.                 *)
(*                                                                         *)
(* What is under way in the stream is newer than what the informer has and *)
(* than what was emitted (Told); stream and copies together are what the   *)
(* cluster has (Synced); a copy of this process was emitted (Known); what  *)
(* was emitted and is still there is known to the informer, or too old for *)
(* an add (NotAgain): the list after a break or a restart repeats nothing. *)
(***************************************************************************)
EXTENDS KubeEvents, SequenceTheorems, TLAPS

ToldOf(i, e, v) ==
  /\ v.count <= occurred[e]
  /\ v.count = occurred[e] /\ cluster[e] # Nil => v = cluster[e]
  /\ \A o \in emitted : o[1] = e => o[2] < v.count
  /\ store[e] # Nil => store[e].count < v.count
  /\ \A j \in (i + 1)..Len(stream) :
       stream[j][1] = e /\ stream[j][2] # Nil => v.count < stream[j][2].count

Told == \A i \in 1..Len(stream) :
          stream[i][2] # Nil => ToldOf(i, stream[i][1], stream[i][2])

Synced == watching => \A e \in Events :
  \/ store[e] = cluster[e] /\ \A i \in 1..Len(stream) : stream[i][1] # e
  \/ \E i \in 1..Len(stream) :
       /\ stream[i] = <<e, cluster[e]>>
       /\ \A j \in (i + 1)..Len(stream) : stream[j][1] # e

Known == \A e \in Events : store[e] # Nil =>
  /\ \A o \in emitted : o[1] = e => o[2] <= store[e].count
  /\ store[e].last >= startTime => <<e, store[e].count>> \in emitted
  /\ cluster[e] # Nil /\ cluster[e].count = store[e].count => cluster[e] = store[e]

NotAgain == \A e \in Events : cluster[e] # Nil =>
  /\ cluster[e].last <= clock
  /\ <<e, cluster[e].count>> \in emitted
       => \/ store[e] # Nil /\ store[e].count = cluster[e].count
          \/ cluster[e].last < startTime

Inv == TypeOK /\ InOrderOnce /\ Told /\ Synced /\ Known /\ NotAgain

-----------------------------------------------------------------------------

LEMMA FormType == ASSUME NEW v \in Form, v # Nil PROVE v.count \in Nat /\ v.last \in Nat
BY DEF Form

LEMMA StreamType ==
  ASSUME TypeOK, NEW i \in 1..Len(stream)
  PROVE  /\ stream[i] = <<stream[i][1], stream[i][2]>>
         /\ stream[i][1] \in Events /\ stream[i][2] \in Form
<1>1. stream[i] \in Events \X Form
  BY DEF TypeOK
<1> QED BY <1>1

LEMMA InitInv == Init => Inv
<1> SUFFICES ASSUME Init PROVE Inv
  OBVIOUS
<1> DEFINE Old == [count |-> 1, last |-> 0]
<1>1. Old \in Form /\ Nil \in Form /\ Old # Nil
  BY KubeEventsAssumption DEF Form
<1>2. cluster \in [Events -> Form]
  BY <1>1 DEF Init
<1>3. \A e \in Events : cluster[e] # Nil => cluster[e].count = 1 /\ cluster[e].last = 0
                                             /\ occurred[e] = 1
  BY <1>1 DEF Init
<1>4. /\ occurred \in [Events -> Nat] /\ store \in [Events -> Form]
      /\ stream \in Seq(Events \X Form) /\ emitted = {}
      /\ \A e \in Events : store[e] = Nil
  BY <1>1 DEF Init
<1>7. TypeOK
  BY <1>2, <1>3, <1>4 DEF Init, TypeOK
<1>5. InOrderOnce /\ Told /\ Synced /\ Known
  BY DEF Init, InOrderOnce, Told, Synced, Known
<1>6. NotAgain
  BY <1>3 DEF Init, NotAgain
<1> QED BY <1>5, <1>6, <1>7 DEF Inv

LEMMA TimePassesInv == ASSUME Inv, TimePasses PROVE Inv'
<1> USE DEF TimePasses, agent
<1>1. TypeOK' /\ InOrderOnce'
  BY DEF Inv, TypeOK, InOrderOnce
<1>2. Told' /\ Synced' /\ Known'
  BY DEF Inv, Told, ToldOf, Synced, Known
<1>3. \A e \in Events : cluster[e] # Nil => cluster[e].last \in Nat
  BY FormType DEF Inv, TypeOK
<1>4. NotAgain'
  BY <1>3 DEF Inv, TypeOK, NotAgain
<1> QED BY <1>1, <1>2, <1>4 DEF Inv

\* Occurs and Expires.
LEMMA BecomesInv ==
  ASSUME Inv, NEW e \in Events, NEW value \in Form, Becomes(e, value),
         UNCHANGED <<clock, watching, store, startTime, emitted, repeated>>,
         faults' \in Nat, occurred' \in [Events -> Nat],
         \A d \in Events \ {e} : occurred'[d] = occurred[d],
         \/ value = Nil /\ occurred'[e] = occurred[e]
         \/ value # Nil /\ occurred'[e] = occurred[e] + 1
            /\ value.count = occurred'[e] /\ value.last <= clock
  PROVE  Inv'
<1>1. /\ cluster' \in [Events -> Form] /\ cluster'[e] = value
      /\ \A d \in Events \ {e} : cluster'[d] = cluster[d]
  BY DEF Becomes, Inv, TypeOK
<1>2. stream \in Seq(Events \X Form) /\ <<e, value>> \in Events \X Form
  BY DEF Inv, TypeOK
<1>3. /\ stream' \in Seq(Events \X Form)
      /\ Len(stream) \in Nat
      /\ \A i \in 1..Len(stream) : stream'[i] = stream[i]
      /\ watching => Len(stream') = Len(stream) + 1 /\ stream'[Len(stream) + 1] = <<e, value>>
      /\ ~watching => stream' = <<>>
  BY <1>2, AppendProperties DEF Becomes, Inv, TypeOK
<1>4. \A d \in Events : occurred[d] \in Nat /\ occurred'[d] \in Nat /\ occurred[d] <= occurred'[d]
  <2>1. occurred \in [Events -> Nat]
    BY DEF Inv, TypeOK
  <2>2. occurred[e] <= occurred'[e]
    BY <2>1
  <2>3. \A d \in Events \ {e} : occurred[d] <= occurred'[d]
    BY <2>1
  <2> QED BY <2>1, <2>2, <2>3
<1>5. \A d \in Events : store[d] # Nil => store[d].count \in Nat /\ store[d].count <= occurred[d]
  BY FormType DEF Inv, TypeOK
<1>6. \A o \in emitted : o[1] \in Events /\ o[2] \in Nat /\ o[2] <= occurred[o[1]]
  BY DEF Inv, TypeOK
<1>7. \A i \in 1..Len(stream) : stream[i][1] \in Events
                                /\ (stream[i][2] # Nil => stream[i][2].count \in Nat)
  BY StreamType, FormType DEF Inv
<1>8. TypeOK'
  <2>1. \A d \in Events : /\ cluster'[d] # Nil => cluster'[d].count = occurred'[d]
                          /\ store'[d] # Nil => store'[d].count <= occurred'[d]
    BY <1>1, <1>4, <1>5 DEF Inv, TypeOK
  <2>2. \A n \in emitted' : n[2] <= occurred'[n[1]]
    BY <1>4, <1>6
  <2> QED BY <1>1, <1>3, <2>1, <2>2 DEF Inv, TypeOK
<1>9. InOrderOnce'
  BY DEF Inv, InOrderOnce
<1>10. Told'
  <2> SUFFICES ASSUME NEW i \in 1..Len(stream'), stream'[i][2] # Nil
               PROVE  ToldOf(i, stream[i][1], stream[i][2])'
    BY DEF Told
  <2>0. watching
    BY <1>3
  <2>1. CASE i \in 1..Len(stream)
    <3> DEFINE d == stream[i][1]
               v == stream[i][2]
    <3>1. stream'[i] = stream[i] /\ d \in Events /\ v.count \in Nat /\ ToldOf(i, d, v)
      BY <1>3, <1>7, <2>1 DEF Inv, Told
    <3>2. v.count <= occurred'[d]
      BY <1>4, <3>1 DEF ToldOf
    <3>3. v.count = occurred'[d] /\ cluster'[d] # Nil => v = cluster'[d]
      BY <1>1, <1>4, <3>1 DEF ToldOf
    <3>4. \A j \in (i + 1)..Len(stream') :
            stream'[j][1] = d /\ stream'[j][2] # Nil => v.count < stream'[j][2].count
      <4> SUFFICES ASSUME NEW j \in (i + 1)..Len(stream'), stream'[j][1] = d, stream'[j][2] # Nil
                   PROVE  v.count < stream'[j][2].count
        OBVIOUS
      <4>1. CASE j \in 1..Len(stream)
        <5>1. j \in (i + 1)..Len(stream) /\ stream'[j] = stream[j]
          BY <1>3, <2>1, <4>1
        <5> QED BY <3>1, <5>1 DEF ToldOf
      <4>2. CASE j = Len(stream) + 1
        BY <1>3, <1>4, <2>0, <3>1, <4>2 DEF ToldOf
      <4>3. Len(stream') = Len(stream) + 1 /\ Len(stream) \in Nat
        BY <1>3, <2>0
      <4> QED BY <2>1, <4>1, <4>2, <4>3
    <3> QED BY <3>1, <3>2, <3>3, <3>4 DEF ToldOf
  <2>2. CASE i = Len(stream) + 1
    <3>1. stream'[i] = <<e, value>> /\ value # Nil /\ value.count = occurred[e] + 1
          /\ value.count = occurred'[e]
      BY <1>3, <2>0, <2>2
    <3>2. \A o \in emitted : o[1] = e => o[2] < value.count
      BY <1>4, <1>6, <3>1
    <3>3. store[e] # Nil => store[e].count < value.count
      BY <1>4, <1>5, <3>1
    <3>4. (i + 1)..Len(stream') = {}
      BY <1>3, <2>0, <2>2
    <3>5. cluster'[e] # Nil => value = cluster'[e]
      BY <1>1
    <3>6. value.count <= occurred'[e]
      BY <1>4, <3>1
    <3>7. ToldOf(i, stream[i][1], stream[i][2])' <=> ToldOf(i, e, value)'
      BY <3>1
    <3>8. ToldOf(i, e, value)'
      BY <3>2, <3>3, <3>4, <3>5, <3>6 DEF ToldOf
    <3> QED BY <3>7, <3>8
  <2> QED BY <1>3, <2>0, <2>1, <2>2
<1>11. Synced'
  <2> SUFFICES ASSUME watching, NEW d \in Events
               PROVE \/ store[d] = cluster'[d] /\ \A i \in 1..Len(stream') : stream'[i][1] # d
                     \/ \E i \in 1..Len(stream') :
                          /\ stream'[i] = <<d, cluster'[d]>>
                          /\ \A j \in (i + 1)..Len(stream') : stream'[j][1] # d
    BY DEF Synced
  <2>1. CASE d = e
    <3>1. /\ Len(stream) + 1 \in 1..Len(stream')
          /\ stream'[Len(stream) + 1] = <<d, cluster'[d]>>
          /\ (Len(stream) + 1 + 1)..Len(stream') = {}
      BY <1>1, <1>3, <2>1
    <3> QED BY <3>1
  <2>2. CASE d # e /\ store[d] = cluster[d] /\ \A i \in 1..Len(stream) : stream[i][1] # d
    <3>1. \A i \in 1..Len(stream') : i \in 1..Len(stream) \/ i = Len(stream) + 1
      BY <1>3
    <3>2. \A i \in 1..Len(stream') : stream'[i][1] # d
      BY <1>3, <2>2, <3>1
    <3> QED BY <1>1, <2>2, <3>2
  <2>3. CASE d # e /\ \E i \in 1..Len(stream) :
                        /\ stream[i] = <<d, cluster[d]>>
                        /\ \A j \in (i + 1)..Len(stream) : stream[j][1] # d
    <3>1. PICK i \in 1..Len(stream) : /\ stream[i] = <<d, cluster[d]>>
                                     /\ \A j \in (i + 1)..Len(stream) : stream[j][1] # d
      BY <2>3
    <3>2. i \in 1..Len(stream') /\ stream'[i] = <<d, cluster'[d]>>
      BY <1>1, <1>3, <2>3, <3>1
    <3>4. Len(stream) \in Nat /\ Len(stream') = Len(stream) + 1
      BY <1>3
    <3>6. stream'[Len(stream) + 1][1] = e
      BY <1>3
    <3>7. i \in 1..Len(stream)
      BY <3>1
    <3>5. ASSUME NEW j \in (i + 1)..Len(stream') PROVE stream'[j][1] # d
      <4>1. CASE j = Len(stream) + 1
        BY <2>3, <3>6, <4>1
      <4>2. CASE j # Len(stream) + 1
        <5>1. j \in (i + 1)..Len(stream) /\ j \in 1..Len(stream)
          BY <3>4, <3>7, <4>2
        <5> QED BY <1>3, <3>1, <5>1
      <4> QED BY <4>1, <4>2
    <3>3. \A j \in (i + 1)..Len(stream') : stream'[j][1] # d
      BY <3>5
    <3> QED BY <3>2, <3>3
  <2> QED BY <2>1, <2>2, <2>3 DEF Inv, Synced
<1>12. Known'
  BY <1>1, <1>4, <1>5 DEF Inv, Known
<1>13. NotAgain'
  <2>1. <<e, occurred[e] + 1>> \notin emitted
    BY <1>4, <1>6
  <2> QED BY <1>1, <2>1 DEF Inv, NotAgain
<1> QED BY <1>8, <1>9, <1>10, <1>11, <1>12, <1>13 DEF Inv

LEMMA OccursInv == ASSUME Inv, NEW e \in Events, Occurs(e) PROVE Inv'
<1> DEFINE value == [count |-> occurred[e] + 1, last |-> Second(clock)]
<1>1. occurred[e] \in Nat /\ clock \in Nat
  BY DEF Inv, TypeOK
<1>2. Second(clock) \in Nat /\ Second(clock) <= clock
  BY <1>1 DEF Second
<1>3. value \in Form /\ value # Nil /\ value.count = occurred[e] + 1 /\ value.last <= clock
  BY <1>1, <1>2, KubeEventsAssumption DEF Form
<1>4. occurred' \in [Events -> Nat] /\ occurred'[e] = occurred[e] + 1
      /\ \A d \in Events \ {e} : occurred'[d] = occurred[d]
  BY <1>1 DEF Inv, TypeOK, Occurs
<1>5. /\ Becomes(e, value)
      /\ UNCHANGED <<clock, watching, store, startTime, emitted, repeated>>
      /\ faults' \in Nat
  BY DEF Occurs, agent, Inv, TypeOK
<1> HIDE DEF value
<1> QED BY <1>3, <1>4, <1>5, BecomesInv

LEMMA ExpiresInv == ASSUME Inv, NEW e \in Events, Expires(e) PROVE Inv'
<1>1. /\ Becomes(e, Nil) /\ Nil \in Form
      /\ UNCHANGED <<clock, occurred, watching, store, startTime, emitted, repeated>>
      /\ faults' \in Nat /\ occurred \in [Events -> Nat]
  BY DEF Expires, agent, Inv, TypeOK, Form
<1> QED BY <1>1, BecomesInv

LEMMA WatchBreaksInv == ASSUME Inv, WatchBreaks PROVE Inv'
<1> USE DEF WatchBreaks, agent
<1>1. stream' \in Seq(Events \X Form)
  OBVIOUS
<1>5. InOrderOnce'
  BY DEF Inv, InOrderOnce
<1>4. TypeOK'
  <2>1. \A e \in Events : /\ cluster'[e] # Nil => cluster'[e].count = occurred'[e]
                          /\ store'[e] # Nil => store'[e].count <= occurred'[e]
    BY DEF Inv, TypeOK
  <2>2. \A n \in emitted' : n[2] <= occurred'[n[1]]
    BY DEF Inv, TypeOK
  <2>3. /\ clock' \in Nat /\ startTime' \in Nat /\ faults' \in Nat
        /\ cluster' \in [Events -> Form] /\ occurred' \in [Events -> Nat]
        /\ emitted' \subseteq Events \X Nat
    BY DEF Inv, TypeOK
  <2>4. stream' = <<>>
    OBVIOUS
  <2>6. watching' \in BOOLEAN /\ repeated' \in BOOLEAN
    BY DEF Inv, TypeOK
  <2>5. store' \in [Events -> Form]
    BY DEF Inv, TypeOK
  <2> HIDE DEF WatchBreaks, agent
  <2> QED BY <1>1, <2>1, <2>2, <2>3, <2>4, <2>5, <2>6, Zenon DEF TypeOK
<1>2. Told' /\ Synced'
  BY DEF Told, Synced
<1>3. Known' /\ NotAgain'
  BY DEF Inv, Known, NotAgain
<1> QED BY <1>2, <1>3, <1>4, <1>5 DEF Inv

LEMMA RestartInv == ASSUME Inv, Restart PROVE Inv'
<1> USE DEF Restart
<1>1. clock \in Nat /\ Nil \in Form /\ \A e \in Events : store'[e] = Nil
  BY DEF Inv, TypeOK, Form
<1>6. stream' \in Seq(Events \X Form) /\ store' \in [Events -> Form]
  BY <1>1
<1>7. InOrderOnce'
  BY DEF Inv, InOrderOnce
<1>2. TypeOK'
  <2>1. \A e \in Events : /\ cluster'[e] # Nil => cluster'[e].count = occurred'[e]
                          /\ store'[e] # Nil => store'[e].count <= occurred'[e]
    BY <1>1 DEF Inv, TypeOK
  <2>2. \A n \in emitted' : n[2] <= occurred'[n[1]]
    BY DEF Inv, TypeOK
  <2>3. /\ clock' \in Nat /\ startTime' \in Nat /\ faults' \in Nat
        /\ cluster' \in [Events -> Form] /\ occurred' \in [Events -> Nat]
        /\ emitted' \subseteq Events \X Nat
    BY DEF Inv, TypeOK
  <2>4. stream' = <<>>
    OBVIOUS
  <2>6. watching' \in BOOLEAN /\ repeated' \in BOOLEAN
    BY DEF Inv, TypeOK
  <2>5. store' \in [Events -> Form]
    BY <1>6
  <2> HIDE DEF Restart
  <2> QED BY <1>6, <2>1, <2>2, <2>3, <2>4, <2>5, <2>6, Zenon DEF TypeOK
<1>3. Told' /\ Synced' /\ Known'
  BY <1>1 DEF Told, Synced, Known
<1>4. \A e \in Events : cluster[e] # Nil => cluster[e].last \in Nat
  BY FormType DEF Inv, TypeOK
<1>5. NotAgain'
  BY <1>1, <1>4 DEF Inv, NotAgain
<1> QED BY <1>2, <1>3, <1>5, <1>7 DEF Inv

\* What is emitted at a time is newer than what was, event by event.
Newer(new) == \A n \in new, o \in emitted : o[1] = n[1] => o[2] < n[2]

LEMMA EmitOnce ==
  ASSUME Inv, NEW new \in SUBSET (Events \X Nat), EmitEvent(new), Newer(new)
  PROVE  InOrderOnce' /\ emitted' \subseteq Events \X Nat
<1>1. \A o \in emitted : o \in Events \X Nat
  BY DEF Inv, TypeOK
<1>2. \A n \in new, o \in emitted : ~(o[1] = n[1] /\ o[2] >= n[2])
  BY <1>1 DEF Newer
<1> QED BY <1>1, <1>2 DEF EmitEvent, Inv, InOrderOnce, TypeOK

LEMMA StutterInv == ASSUME Inv, UNCHANGED vars PROVE Inv'
<1> USE DEF vars
<1>1. TypeOK' /\ InOrderOnce'
  BY DEF Inv, TypeOK, InOrderOnce
<1>2. Told' /\ Synced'
  BY DEF Inv, Told, ToldOf, Synced
<1>3. Known' /\ NotAgain'
  BY DEF Inv, Known, NotAgain
<1> QED BY <1>1, <1>2, <1>3 DEF Inv

\* The list after a break or a restart: what is emitted is new.
LEMMA RelistEmits ==
  ASSUME Inv, Relist
  PROVE  LET new == {<<e, cluster[e].count>> : e \in {d \in Events : Emits(d, cluster[d])}}
         IN  /\ new \in SUBSET (Events \X Nat) /\ EmitEvent(new) /\ Newer(new)
             /\ \A e \in Events : store[e] # Nil /\ cluster[e] # Nil
                  => cluster[e] = store[e] \/ <<e, cluster[e].count>> \in new
<1> DEFINE new == {<<e, cluster[e].count>> : e \in {d \in Events : Emits(d, cluster[d])}}
<1>1. \A e \in Events : cluster[e] # Nil =>
        cluster[e].count \in Nat /\ cluster[e].last \in Nat /\ cluster[e].count = occurred[e]
  BY FormType DEF Inv, TypeOK
<1>2. new \in SUBSET (Events \X Nat)
  BY <1>1 DEF Emits
<1>3. EmitEvent(new)
  BY DEF Relist
<1>4. Newer(new)
  <2> SUFFICES ASSUME NEW e \in Events, Emits(e, cluster[e]), NEW o \in emitted, o[1] = e
               PROVE  o[2] < cluster[e].count
    BY DEF Newer
  <2>1. o = <<e, o[2]>> /\ o[2] \in Nat /\ o[2] <= occurred[e]
    BY DEF Inv, TypeOK
  <2>2. cluster[e] # Nil
    BY DEF Emits
  <2>3. o[2] # cluster[e].count
    <3> SUFFICES ASSUME <<e, cluster[e].count>> \in emitted PROVE FALSE
      BY <2>1
    <3>1. CASE store[e] = Nil
      BY <1>1, <2>2, <3>1 DEF Inv, TypeOK, NotAgain, Emits, AddFunc
    <3>2. CASE store[e] # Nil
      <4>1. cluster[e].count > store[e].count
        BY <3>2 DEF Emits, UpdateFunc
      <4>2. store[e].count \in Nat /\ cluster[e].count <= store[e].count
        BY <3>2, FormType DEF Inv, TypeOK, Known
      <4> QED BY <1>1, <2>2, <4>1, <4>2
    <3> QED BY <3>1, <3>2
  <2> QED BY <1>1, <2>1, <2>2, <2>3
<1>5. \A e \in Events : store[e] # Nil /\ cluster[e] # Nil
        => cluster[e] = store[e] \/ <<e, cluster[e].count>> \in new
  <2> SUFFICES ASSUME NEW e \in Events, store[e] # Nil, cluster[e] # Nil, cluster[e] # store[e]
               PROVE  Emits(e, cluster[e])
    OBVIOUS
  <2>1. store[e].count \in Nat /\ store[e].count <= occurred[e]
    BY FormType DEF Inv, TypeOK
  <2>2. cluster[e].count # store[e].count
    BY DEF Inv, Known
  <2> QED BY <1>1, <2>1, <2>2 DEF Emits, UpdateFunc
<1> QED BY <1>2, <1>3, <1>4, <1>5

LEMMA RelistInv == ASSUME Inv, Relist PROVE Inv'
<1> DEFINE new == {<<e, cluster[e].count>> : e \in {d \in Events : Emits(d, cluster[d])}}
<1>1. /\ new \in SUBSET (Events \X Nat) /\ EmitEvent(new) /\ Newer(new)
      /\ \A e \in Events : store[e] # Nil /\ cluster[e] # Nil
           => cluster[e] = store[e] \/ <<e, cluster[e].count>> \in new
  BY RelistEmits
<1>2. InOrderOnce' /\ emitted' \subseteq Events \X Nat /\ emitted' = emitted \cup new
  BY <1>1, EmitOnce DEF EmitEvent
<1>3. /\ UNCHANGED <<clock, cluster, occurred, startTime, faults>>
      /\ store' = cluster /\ watching' = TRUE /\ stream' = <<>>
  BY DEF Relist, Inv, TypeOK
<1>4. \A e \in Events : cluster[e] # Nil => /\ cluster[e].count = occurred[e]
                                            /\ cluster[e].count \in Nat
                                            /\ cluster[e].last \in Nat
  BY FormType DEF Inv, TypeOK
<1>5. \A n \in emitted' : n[1] \in Events /\ n[2] \in Nat /\ n[2] <= occurred[n[1]]
  <2>1. \A n \in emitted : n[2] <= occurred[n[1]]
    BY DEF Inv, TypeOK
  <2>2. \A n \in new : n[2] <= occurred[n[1]]
    BY <1>4 DEF Emits
  <2> QED BY <1>2, <2>1, <2>2
<1>6. TypeOK'
  <2>1. /\ clock' \in Nat /\ startTime' \in Nat /\ faults' \in Nat
        /\ cluster' \in [Events -> Form] /\ occurred' \in [Events -> Nat]
        /\ store' \in [Events -> Form]
    BY <1>3 DEF Inv, TypeOK
  <2>2. repeated' \in BOOLEAN
    BY <1>1 DEF EmitEvent
  <2>3. watching' \in BOOLEAN /\ stream' \in Seq(Events \X Form)
    BY <1>3
  <2>4. \A e \in Events : /\ cluster'[e] # Nil => cluster'[e].count = occurred'[e]
                          /\ store'[e] # Nil => store'[e].count <= occurred'[e]
    BY <1>3, <1>4
  <2>5. \A n \in emitted' : n[2] <= occurred'[n[1]]
    BY <1>3, <1>5
  <2>6. stream' = <<>>
    BY <1>3
  <2> QED BY <1>2, <2>1, <2>2, <2>3, <2>4, <2>5, <2>6, Zenon DEF TypeOK
<1>7. Told' /\ Synced'
  BY <1>3 DEF Told, Synced
<1>8. Known'
  <2> SUFFICES ASSUME NEW e \in Events, cluster[e] # Nil
               PROVE  /\ \A o \in emitted' : o[1] = e => o[2] <= cluster[e].count
                      /\ cluster[e].last >= startTime => <<e, cluster[e].count>> \in emitted'
    BY <1>3 DEF Known
  <2>1. \A o \in emitted' : o[1] = e => o[2] <= cluster[e].count
    BY <1>4, <1>5
  <2>2. ASSUME cluster[e].last >= startTime PROVE <<e, cluster[e].count>> \in emitted'
    <3>1. CASE store[e] = Nil
      BY <1>2, <2>2, <3>1 DEF Emits, AddFunc
    <3>2. CASE store[e] # Nil /\ cluster[e] = store[e]
      <4>1. <<e, store[e].count>> \in emitted
        BY <2>2, <3>2 DEF Inv, Known
      <4> QED BY <1>2, <3>2, <4>1
    <3>3. CASE store[e] # Nil /\ cluster[e] # store[e]
      BY <1>1, <1>2, <3>3
    <3> QED BY <3>1, <3>2, <3>3
  <2> QED BY <2>1, <2>2
<1>9. NotAgain'
  BY <1>3 DEF Inv, NotAgain
<1> QED BY <1>2, <1>6, <1>7, <1>8, <1>9 DEF Inv

\* What is handled and what is left in the stream.
LEMMA HandleShape ==
  ASSUME Inv, Handle, NEW e, NEW v, stream[1] = <<e, v>>
  PROVE  /\ e \in Events /\ v \in Form /\ watching
         /\ 1 \in 1..Len(stream) /\ Len(stream) \in Nat /\ Len(stream') = Len(stream) - 1
         /\ \A i \in 1..Len(stream') : i + 1 \in 1..Len(stream) /\ stream'[i] = stream[i + 1]
         /\ stream' \in Seq(Events \X Form)
         /\ store' = [store EXCEPT ![e] = v] /\ store' \in [Events -> Form]
         /\ EmitEvent(IF Emits(e, v) THEN {<<e, v.count>>} ELSE {})
         /\ v # Nil => v.count \in Nat /\ v.last \in Nat /\ ToldOf(1, e, v)
<1>1. stream \in Seq(Events \X Form) /\ stream # <<>> /\ watching /\ store \in [Events -> Form]
  BY DEF Handle, Inv, TypeOK
<1>2. Head(stream) = stream[1] /\ 1 \in 1..Len(stream) /\ Len(stream) \in Nat
  BY <1>1
<1>3. e \in Events /\ v \in Form
  BY <1>1, <1>2
<1>4. /\ stream' = Tail(stream) /\ Len(stream') = Len(stream) - 1
      /\ stream' \in Seq(Events \X Form)
      /\ \A i \in 1..Len(stream') : stream'[i] = stream[i + 1]
  BY <1>1, HeadTailProperties DEF Handle
<1>5. \A i \in 1..Len(stream') : i + 1 \in 1..Len(stream)
  BY <1>2, <1>4
<1>10. Head(stream)[1] = e /\ Head(stream)[2] = v
  BY <1>2
<1>11. store' = [store EXCEPT ![e] = v]
  BY <1>10 DEF Handle
<1>12. EmitEvent(IF Emits(e, v) THEN {<<e, v.count>>} ELSE {})
  BY <1>10, Zenon DEF Handle
<1>6. /\ store' = [store EXCEPT ![e] = v]
      /\ EmitEvent(IF Emits(e, v) THEN {<<e, v.count>>} ELSE {})
  BY <1>11, <1>12
<1>7. v # Nil => ToldOf(1, e, v)
  BY <1>2 DEF Inv, Told
<1>8. v # Nil => v.count \in Nat /\ v.last \in Nat
  BY <1>3, FormType
<1>9. store' \in [Events -> Form]
  BY <1>1, <1>3, <1>6
<1> QED BY <1>1, <1>2, <1>3, <1>4, <1>5, <1>6, <1>7, <1>8, <1>9

LEMMA HandleInv == ASSUME Inv, Handle PROVE Inv'
<1>1. PICK e, v : stream[1] = <<e, v>>
  <2>1. stream \in Seq(Events \X Form) /\ stream # <<>>
    BY DEF Handle, Inv, TypeOK
  <2>2. stream[1] = <<stream[1][1], stream[1][2]>>
    BY <2>1, StreamType DEF Inv
  <2> QED BY <2>2
<1> DEFINE new == IF Emits(e, v) THEN {<<e, v.count>>} ELSE {}
<1>2. /\ e \in Events /\ v \in Form /\ watching
      /\ 1 \in 1..Len(stream) /\ Len(stream) \in Nat /\ Len(stream') = Len(stream) - 1
      /\ \A i \in 1..Len(stream') : i + 1 \in 1..Len(stream) /\ stream'[i] = stream[i + 1]
      /\ stream' \in Seq(Events \X Form)
  BY <1>1, HandleShape
<1>3. /\ store' = [store EXCEPT ![e] = v] /\ store' \in [Events -> Form] /\ EmitEvent(new)
      /\ v # Nil => v.count \in Nat /\ v.last \in Nat /\ ToldOf(1, e, v)
  BY <1>1, HandleShape
<1>4. UNCHANGED <<clock, cluster, occurred, watching, startTime, faults>>
  BY DEF Handle
<1>5. store'[e] = v /\ \A d \in Events \ {e} : store'[d] = store[d]
  BY <1>2, <1>3 DEF Inv, TypeOK
<1>6. /\ \A n \in new : n = <<e, v.count>> /\ v # Nil
      /\ emitted' = emitted \cup new
  BY <1>3 DEF Emits, EmitEvent
<1>7. Newer(new) /\ new \in SUBSET (Events \X Nat)
  BY <1>2, <1>3, <1>6 DEF Newer, ToldOf
<1> HIDE DEF new
<1>8. InOrderOnce' /\ emitted' \subseteq Events \X Nat
  BY <1>3, <1>7, EmitOnce
<1>9. TypeOK'
  <2>1. /\ clock' \in Nat /\ startTime' \in Nat /\ faults' \in Nat
        /\ cluster' \in [Events -> Form] /\ occurred' \in [Events -> Nat]
        /\ watching' \in BOOLEAN /\ (~watching' => stream' = <<>>)
    BY <1>2, <1>4 DEF Inv, TypeOK
  <2>2. repeated' \in BOOLEAN
    BY <1>3 DEF EmitEvent
  <2>3. \A d \in Events : cluster'[d] # Nil => cluster'[d].count = occurred'[d]
    BY <1>4 DEF Inv, TypeOK
  <2>4. \A d \in Events : store'[d] # Nil => store'[d].count <= occurred'[d]
    BY <1>3, <1>4, <1>5 DEF Inv, TypeOK, ToldOf
  <2>5. \A n \in emitted' : n[2] <= occurred'[n[1]]
    BY <1>3, <1>4, <1>6 DEF Inv, TypeOK, ToldOf
  <2> QED BY <1>2, <1>3, <1>8, <2>1, <2>2, <2>3, <2>4, <2>5, Zenon DEF TypeOK
<1>10. Told'
  <2> SUFFICES ASSUME NEW i \in 1..Len(stream'), stream'[i][2] # Nil
               PROVE  ToldOf(i, stream[i][1], stream[i][2])'
    BY DEF Told
  <2>0. i + 1 \in 1..Len(stream) /\ stream'[i] = stream[i + 1]
    BY <1>2
  <2>10. PICK d, w : stream[i + 1] = <<d, w>>
    BY <2>0, StreamType DEF Inv
  <2>1. i + 1 \in 1..Len(stream) /\ stream'[i] = <<d, w>> /\ w # Nil
    BY <2>0, <2>10
  <2>2. ToldOf(i + 1, d, w) /\ d \in Events /\ w.count \in Nat
    BY <2>1, <2>10, StreamType, FormType DEF Inv, Told
  <2>3. d = e /\ v # Nil => v.count < w.count
    <3>1. i + 1 \in (1 + 1)..Len(stream)
      BY <1>2, <2>1
    <3>2. stream[i + 1][1] = d /\ stream[i + 1][2] = w
      BY <2>10
    <3>3. v # Nil => \A j \in (1 + 1)..Len(stream) :
                       stream[j][1] = e /\ stream[j][2] # Nil => v.count < stream[j][2].count
      BY <1>3 DEF ToldOf
    <3>4. v # Nil /\ d = e => v.count < stream[i + 1][2].count
      BY <2>1, <3>1, <3>2, <3>3
    <3> QED BY <3>2, <3>4
  <2>4. \A o \in emitted' : o[1] = d => o[2] < w.count
    BY <1>6, <2>2, <2>3 DEF ToldOf
  <2>5. store'[d] # Nil => store'[d].count < w.count
    BY <1>5, <2>2, <2>3 DEF ToldOf
  <2>6. \A j \in (i + 1)..Len(stream') :
          stream'[j][1] = d /\ stream'[j][2] # Nil => w.count < stream'[j][2].count
    <3> SUFFICES ASSUME NEW j \in (i + 1)..Len(stream'), stream'[j][1] = d, stream'[j][2] # Nil
                 PROVE  w.count < stream'[j][2].count
      OBVIOUS
    <3>1. j \in 1..Len(stream') /\ j + 1 \in (i + 1 + 1)..Len(stream)
      BY <1>2
    <3>2. stream'[j] = stream[j + 1]
      BY <1>2, <3>1
    <3> QED BY <2>2, <3>1, <3>2 DEF ToldOf
  <2>7. w.count <= occurred[d] /\ (w.count = occurred[d] /\ cluster[d] # Nil => w = cluster[d])
    BY <2>2 DEF ToldOf
  <2>8. ToldOf(i, stream[i][1], stream[i][2])' <=> ToldOf(i, d, w)'
    BY <2>1
  <2>9. ToldOf(i, d, w)'
    BY <1>4, <2>4, <2>5, <2>6, <2>7 DEF ToldOf
  <2> QED BY <2>8, <2>9
<1>11. Synced'
  <2> SUFFICES ASSUME NEW d \in Events
               PROVE \/ store'[d] = cluster[d] /\ \A i \in 1..Len(stream') : stream'[i][1] # d
                     \/ \E i \in 1..Len(stream') :
                          /\ stream'[i] = <<d, cluster[d]>>
                          /\ \A j \in (i + 1)..Len(stream') : stream'[j][1] # d
    BY <1>4 DEF Synced
  <2>1. CASE store[d] = cluster[d] /\ \A i \in 1..Len(stream) : stream[i][1] # d
    <3>1. d # e
      BY <1>1, <1>2, <2>1
    <3> QED BY <1>2, <1>5, <2>1, <3>1
  <2>2. CASE \E i \in 1..Len(stream) : /\ stream[i] = <<d, cluster[d]>>
                                       /\ \A j \in (i + 1)..Len(stream) : stream[j][1] # d
    <3>1. PICK i \in 1..Len(stream) : /\ stream[i] = <<d, cluster[d]>>
                                     /\ \A j \in (i + 1)..Len(stream) : stream[j][1] # d
      BY <2>2
    <3>2. CASE i = 1
      <4>1. store'[d] = cluster[d]
        BY <1>1, <1>5, <3>1, <3>2
      <4>2. ASSUME NEW j \in 1..Len(stream') PROVE stream'[j][1] # d
        <5>1. j + 1 \in (i + 1)..Len(stream) /\ stream'[j] = stream[j + 1]
          BY <1>2, <3>2
        <5> QED BY <3>1, <5>1
      <4> QED BY <4>1, <4>2
    <3>3. CASE i # 1
      <4>1. i - 1 \in 1..Len(stream') /\ (i - 1) + 1 = i
        BY <1>2, <3>3
      <4>2. stream'[i - 1] = stream[i]
        BY <1>2, <4>1
      <4>3. ASSUME NEW j \in ((i - 1) + 1)..Len(stream') PROVE stream'[j][1] # d
        <5>1. j \in 1..Len(stream') /\ j + 1 \in (i + 1)..Len(stream)
          BY <1>2, <3>3
        <5> QED BY <1>2, <3>1, <5>1
      <4> QED BY <3>1, <4>1, <4>2, <4>3
    <3> QED BY <3>2, <3>3
  <2> QED BY <1>2, <2>1, <2>2 DEF Inv, Synced
<1>12. Known'
  <2> SUFFICES ASSUME NEW d \in Events, store'[d] # Nil
               PROVE  /\ \A o \in emitted' : o[1] = d => o[2] <= store'[d].count
                      /\ store'[d].last >= startTime => <<d, store'[d].count>> \in emitted'
                      /\ cluster[d] # Nil /\ cluster[d].count = store'[d].count
                           => cluster[d] = store'[d]
    BY <1>4 DEF Known
  <2>1. CASE d # e
    BY <1>5, <1>6, <2>1 DEF Inv, Known
  <2>2. CASE d = e
    <3>1. v # Nil /\ v.count \in Nat /\ v.last \in Nat /\ ToldOf(1, e, v) /\ store'[d] = v
      BY <1>3, <1>5, <2>2
    <3>2. \A o \in emitted' : o[1] = e => o[2] <= v.count
      BY <1>6, <1>8, <3>1 DEF ToldOf
    <3>3. ASSUME v.last >= startTime PROVE <<e, v.count>> \in emitted'
      <4>1. store[e] # Nil => store[e].count \in Nat /\ store[e].count < v.count
        BY <1>2, <3>1, FormType DEF Inv, TypeOK, ToldOf
      <4>2. Emits(e, v)
        BY <3>1, <3>3, <4>1 DEF Emits, AddFunc, UpdateFunc
      <4> QED BY <1>6, <4>2 DEF new
    <3>4. cluster[e] # Nil /\ cluster[e].count = v.count => cluster[e] = v
      BY <1>2, <3>1 DEF Inv, TypeOK, ToldOf
    <3> QED BY <2>2, <3>1, <3>2, <3>3, <3>4
  <2> QED BY <2>1, <2>2
<1>13. NotAgain'
  <2> SUFFICES ASSUME NEW d \in Events, cluster[d] # Nil
               PROVE  /\ cluster[d].last <= clock
                      /\ <<d, cluster[d].count>> \in emitted'
                           => \/ store'[d] # Nil /\ store'[d].count = cluster[d].count
                              \/ cluster[d].last < startTime
    BY <1>4 DEF NotAgain
  <2>1. cluster[d].last <= clock
    BY DEF Inv, NotAgain
  <2>2. ASSUME <<d, cluster[d].count>> \in emitted'
        PROVE  \/ store'[d] # Nil /\ store'[d].count = cluster[d].count
               \/ cluster[d].last < startTime
    <3>1. CASE d # e
      BY <1>5, <1>6, <2>2, <3>1 DEF Inv, NotAgain
    <3>2. CASE d = e /\ v = Nil
      <4>1. <<e, cluster[e].count>> \in emitted
        BY <1>6, <2>2, <3>2
      <4>5. 1 \in 1..Len(stream) /\ stream[1][1] = e
        BY <1>1, <1>2
      <4>6. \E i \in 1..Len(stream) : stream[i] = <<e, cluster[e]>>
        BY <1>2, <4>5, Zenon DEF Inv, Synced
      <4>2. PICK i \in 1..Len(stream) : stream[i] = <<e, cluster[e]>>
        BY <4>6
      <4>3. ToldOf(i, e, cluster[e])
        BY <3>2, <4>2 DEF Inv, Told
      <4>4. cluster[e].count \in Nat
        BY <1>2, <3>2, FormType DEF Inv, TypeOK
      <4> QED BY <4>1, <4>3, <4>4 DEF ToldOf
    <3>3. CASE d = e /\ v # Nil
      <4>1. v.count \in Nat /\ v.count <= occurred[e]
            /\ cluster[e].count = occurred[e] /\ occurred[e] \in Nat
        BY <1>2, <1>3, <3>3 DEF Inv, TypeOK, ToldOf
      <4>2. CASE <<e, cluster[e].count>> \in new
        BY <1>5, <1>6, <3>3, <4>2
      <4>3. CASE <<e, cluster[e].count>> \in emitted
        BY <1>3, <3>3, <4>1, <4>3 DEF ToldOf
      <4> QED BY <1>6, <2>2, <3>3, <4>2, <4>3
    <3> QED BY <3>1, <3>2, <3>3
  <2> QED BY <2>1, <2>2
<1> QED BY <1>8, <1>9, <1>10, <1>11, <1>12, <1>13 DEF Inv

-----------------------------------------------------------------------------

LEMMA NextInv == Inv /\ [Next]_vars => Inv'
<1> SUFFICES ASSUME Inv, [Next]_vars PROVE Inv'
  OBVIOUS
<1>1. ASSUME NEW e \in Events, Occurs(e) PROVE Inv'
  BY <1>1, OccursInv
<1>2. ASSUME NEW e \in Events, Expires(e) PROVE Inv'
  BY <1>2, ExpiresInv
<1>3. CASE TimePasses
  BY <1>3, TimePassesInv
<1>4. CASE Handle
  BY <1>4, HandleInv
<1>5. CASE WatchBreaks
  BY <1>5, WatchBreaksInv
<1>6. CASE Relist
  BY <1>6, RelistInv
<1>7. CASE Restart
  BY <1>7, RestartInv
<1>8. CASE UNCHANGED vars
  BY <1>8, StutterInv
<1> QED BY <1>1, <1>2, <1>3, <1>4, <1>5, <1>6, <1>7, <1>8 DEF Next

LEMMA AlwaysInv == Spec => []Inv
BY InitInv, NextInv, PTL DEF Spec

\* The state of the agent, of the cluster and of the watch is well formed, and
\* nothing is known or emitted that has not occurred.
THEOREM TypeCorrect == Spec => []TypeOK
<1>1. Inv => TypeOK
  BY DEF Inv
<1> QED BY <1>1, AlwaysInv, PTL

\* Neither updates nor the lists after breaks and restarts make AddFunc and
\* UpdateFunc emit an occurrence twice or after a later one.
THEOREM NoneTwice == Spec => []InOrderOnce
<1>1. Inv => InOrderOnce
  BY DEF Inv
<1> QED BY <1>1, AlwaysInv, PTL

\* What the comparison with the start time and the comparison of counts let
\* through includes the last occurrence of every event since the start.
THEOREM LastOneIsLogged == Spec => []LastIsLogged
<1>1. Inv => LastIsLogged
  <2> SUFFICES ASSUME Inv, watching, stream = <<>>, NEW e \in Events,
                      cluster[e] # Nil, cluster[e].last >= startTime
               PROVE  <<e, cluster[e].count>> \in emitted
    BY DEF LastIsLogged
  <2>1. store[e] = cluster[e]
    BY DEF Inv, Synced
  <2> QED BY <2>1 DEF Inv, Known
<1> QED BY <1>1, AlwaysInv, PTL

\* A copy of the informer counts up only by what UpdateFunc emits at that time.
THEOREM NothingCountsUnlogged == Spec => GrowthIsLogged
<1> DEFINE Growth == \A e \in Events : store[e] # Nil /\ store'[e] # Nil
                       => store'[e].count = store[e].count
                          \/ <<e, store'[e].count>> \in emitted' \ emitted
<1>1. Inv /\ [Next]_vars => [Growth]_vars
  <2> SUFFICES ASSUME Inv, Next, NEW e \in Events, store[e] # Nil, store'[e] # Nil,
                      store'[e].count # store[e].count
               PROVE  <<e, store'[e].count>> \in emitted' \ emitted
    OBVIOUS
  <2>1. store[e].count \in Nat /\ \A o \in emitted : o[1] \in Events /\ o[2] \in Nat
    BY FormType DEF Inv, TypeOK
  <2>2. CASE Handle
    <3>1. PICK d, v : stream[1] = <<d, v>>
      <4>1. stream \in Seq(Events \X Form) /\ stream # <<>>
        BY <2>2 DEF Handle, Inv, TypeOK
      <4>2. stream[1] = <<stream[1][1], stream[1][2]>>
        BY <4>1, StreamType DEF Inv
      <4> QED BY <4>2
    <3>2. /\ store' = [store EXCEPT ![d] = v] /\ d \in Events
          /\ EmitEvent(IF Emits(d, v) THEN {<<d, v.count>>} ELSE {})
          /\ v # Nil => v.count \in Nat /\ ToldOf(1, d, v)
      BY <2>2, <3>1, HandleShape
    <3>3. d = e /\ store'[e] = v /\ v # Nil
      BY <3>2 DEF Inv, TypeOK
    <3>4. Emits(e, v) /\ \A o \in emitted : o[1] = e => o[2] < v.count
      BY <2>1, <3>2, <3>3 DEF Emits, UpdateFunc, ToldOf
    <3>5. <<e, v.count>> \in emitted' /\ <<e, v.count>> \notin emitted
      BY <3>2, <3>3, <3>4 DEF EmitEvent
    <3> QED BY <3>3, <3>5
  <2>3. CASE Relist
    <3> DEFINE new == {<<c, cluster[c].count>> : c \in {d \in Events : Emits(d, cluster[d])}}
    <3>1. /\ EmitEvent(new) /\ Newer(new) /\ new \in SUBSET (Events \X Nat)
          /\ cluster[e] # Nil => cluster[e] = store[e] \/ <<e, cluster[e].count>> \in new
      BY <2>3, RelistEmits
    <3>2. store' = cluster /\ emitted' = emitted \cup new
      BY <2>3 DEF Relist, EmitEvent
    <3> HIDE DEF new
    <3>3. <<e, cluster[e].count>> \in new
      BY <3>1, <3>2
    <3>4. <<e, cluster[e].count>> \notin emitted
      <4>1. cluster[e].count \in Nat
        BY <3>1, <3>3
      <4> QED BY <3>1, <3>3, <4>1 DEF Newer
    <3> QED BY <3>2, <3>3, <3>4
  <2>4. CASE Restart
    BY <2>4 DEF Restart
  <2>5. CASE TimePasses \/ WatchBreaks \/ \E d \in Events : Occurs(d) \/ Expires(d)
    BY <2>5 DEF TimePasses, WatchBreaks, Occurs, Expires, agent
  <2> QED BY <2>2, <2>3, <2>4, <2>5 DEF Next
<1>2. Spec => [][Growth]_vars
  BY <1>1, AlwaysInv, PTL DEF Spec
<1> QED BY <1>2 DEF GrowthIsLogged
=============================================================================
