---------------------------- MODULE MetricsProofs ----------------------------
(***************************************************************************)
(* Proofs about Metrics, and about ConfigUpdates, which composes it with   *)
(* the poll of the configuration, for any targets, configurations and      *)
(* secrets.                                                                *)
(***************************************************************************)
EXTENDS ConfigUpdates, TLAPS

\* What the table, the registry and the collectors are, whatever the locals.
TableTypes ==
  /\ targets \in [Addrs -> Target \cup {Nil}]
  /\ reg \in [Addrs -> Target \cup {Nil}]
  /\ coll \subseteq Target
  /\ batch \subseteq Target
  /\ starting \in Target \cup {Nil}

\* Targets are stored, and registered, under their own address.
Placed ==
  \A a \in Addrs :
    /\ targets[a] # Nil => targets[a].addr = a
    /\ reg[a] # Nil => reg[a].addr = a

\* No garbage has a collector.
CollReachable == coll \subseteq Current \cup Registered \cup {starting}

\* Only leaving the table takes the collector of a target being started.
StartingHasColl == starting # Nil /\ starting \in Current => starting \in coll

\* The part of the inductive invariant about the shared state.
TableInv ==
  /\ TableTypes
  /\ Placed
  /\ CollReachable
  /\ StartingHasColl
  /\ CurrentExportWorks
  /\ DarkOnlyBehindStale
  /\ NoDoubleStart

\* At an exclusive address nobody fills the slot between the look and addTarget.
AddSlotVacant ==
  /\ podPc = "add" /\ podTarget.addr \in ExclusiveAddrs
     => targets[podTarget.addr] = Nil
  /\ cfgPc = "add" /\ Head(cfgTodo).addr \in ExclusiveAddrs
     => targets[Head(cfgTodo).addr] = Nil

\* The inductive invariant.
IInv == TypeOK /\ TableInv /\ AddSlotVacant

-----------------------------------------------------------------------------
(***************************************************************************)
(* The operators the actions are built from                                *)
(***************************************************************************)

LEMMA NilIsNoTarget == Nil \notin Target
BY MetricsAssumption DEF MetricsAssumption

LEMMA EntryFacts ==
  /\ Entries \subseteq Entry
  /\ Configs \subseteq Seq(Entries)
  /\ PodTargets \subseteq Entry
  /\ \A p \in PodTargets : p.addr \in PodAddrs /\ p.addr \in Addrs
  /\ \A e \in Entries : e.addr \in ConfigAddrs /\ e.addr \in Addrs
  /\ Nil \notin PodTargets
<1>1. ASSUME NEW c \in Configs PROVE c \in Seq(Entries)
  <2>1. c \in Seq(Entry)
    BY MetricsAssumption DEF MetricsAssumption
  <2>2. \A i \in 1 .. Len(c) : c[i] \in Entries
    BY <2>1 DEF Entries
  <2>. QED  BY <2>1, <2>2
<1>2. Entries \subseteq Entry
  <2>. SUFFICES ASSUME NEW c \in Configs, NEW i \in DOMAIN c
                PROVE  c[i] \in Entry
    BY DEF Entries
  <2>1. c \in Seq(Entry)
    BY MetricsAssumption DEF MetricsAssumption
  <2>. QED  BY <2>1
<1>3. PodTargets \subseteq Entry
  BY MetricsAssumption DEF MetricsAssumption, Entry, Addrs
<1>4. \A p \in PodTargets : p.addr \in PodAddrs /\ p.addr \in Addrs
  BY DEF PodAddrs, Addrs
<1>5. \A e \in Entries : e.addr \in ConfigAddrs /\ e.addr \in Addrs
  BY DEF ConfigAddrs, Addrs
<1>6. Nil \notin PodTargets
  BY <1>3, MetricsAssumption DEF MetricsAssumption
<1>. QED  BY <1>1, <1>2, <1>3, <1>4, <1>5, <1>6

\* The entry at hand, when discoverFromConfig is about to store it.
LEMMA ConfigHead ==
  ASSUME TypeOK, cfgTodo # <<>>
  PROVE  /\ Head(cfgTodo) \in Entries /\ Tail(cfgTodo) \in Seq(Entries)
         /\ Head(cfgTodo) \in Entry
         /\ Head(cfgTodo).addr \in ConfigAddrs /\ Head(cfgTodo).addr \in Addrs
<1>1. Head(cfgTodo) \in Entries /\ Tail(cfgTodo) \in Seq(Entries)
  BY DEF TypeOK
<1>. QED  BY <1>1, EntryFacts

\* addTarget stores an object that nothing refers to yet.
LEMMA AddStores ==
  ASSUME NEW e \in Entry, NEW pod \in BOOLEAN, addTarget(e, pod)
  PROVE  \E t \in Target :
           /\ t.addr = e.addr /\ t.spec = e.spec /\ t.pod = pod
           /\ t \notin Reachable
           /\ targets' = [targets EXCEPT ![e.addr] = t]
           /\ coll' = coll \ ({targets[e.addr]} \ (Registered \cup {starting}))
           /\ reg' = reg
<1>. DEFINE t == CHOOSE f \in Fresh(e, pod) : TRUE
<1>1. /\ t \in Fresh(e, pod)
      /\ targets' = [targets EXCEPT ![e.addr] = t]
      /\ coll' = coll \ ({targets[e.addr]} \ (Registered \cup {starting}))
      /\ reg' = reg
  BY DEF addTarget
<1>. HIDE DEF t
<1>2. PICK n \in Incarnations :
        t = [addr |-> e.addr, spec |-> e.spec, pod |-> pod, n |-> n]
  BY <1>1 DEF Fresh
<1>3. t \in Target /\ t.addr = e.addr /\ t.spec = e.spec /\ t.pod = pod
  BY <1>2 DEF Target, Entry
<1>4. t \notin Reachable
  BY <1>1 DEF Fresh
<1>. QED  BY <1>1, <1>3, <1>4

\* What addTarget leaves of the invariant: all of it.
LEMMA AddKeeps ==
  ASSUME TableInv, NEW e \in Entry, NEW pod \in BOOLEAN, addTarget(e, pod),
         UNCHANGED <<batch, starting>>
  PROVE  TableInv'
<1>1. PICK t \in Target :
        /\ t.addr = e.addr
        /\ t \notin Reachable
        /\ targets' = [targets EXCEPT ![e.addr] = t]
        /\ coll' = coll \ ({targets[e.addr]} \ (Registered \cup {starting}))
        /\ reg' = reg
  BY AddStores
<1>2. e.addr \in Addrs
  BY DEF Entry
<1>3. t # Nil
  BY NilIsNoTarget
<1>4. t \notin Current \cup Registered \cup {starting} /\ t \notin coll
  BY <1>1 DEF Reachable, TableInv, CollReachable
<1>5. TableTypes'
  BY <1>1, <1>2 DEF TableInv, TableTypes
<1>6. Placed'
  BY <1>1, <1>2 DEF TableInv, TableTypes, Placed
<1>7. \A a \in Addrs : targets'[a] = IF a = e.addr THEN t ELSE targets[a]
  BY <1>1, <1>2 DEF TableInv, TableTypes
<1>8. CollReachable'
  <2>. SUFFICES ASSUME NEW u \in coll', u # starting, u \notin Registered
                PROVE  u \in Current'
    BY <1>1 DEF CollReachable, Registered
  <2>1. u \in coll /\ u # targets[e.addr]
    BY <1>1
  <2>2. PICK a \in Addrs : u = targets[a] /\ u # Nil
    BY <2>1 DEF TableInv, CollReachable, Current
  <2>3. u = targets'[a]
    BY <1>7, <2>1, <2>2
  <2>. QED  BY <2>2, <2>3 DEF Current
<1>9. StartingHasColl'
  <2>. SUFFICES ASSUME starting # Nil, starting \in Current'
                PROVE  starting \in coll'
    BY DEF StartingHasColl
  <2>1. starting \in Current
    BY <1>4, <1>7 DEF Current
  <2>. QED  BY <1>1, <2>1 DEF TableInv, StartingHasColl
<1>10. CurrentExportWorks'
  <2>. SUFFICES ASSUME NEW a \in Addrs, targets'[a] # Nil, targets'[a] = reg[a]
                PROVE  targets'[a] \in coll'
    BY <1>1 DEF CurrentExportWorks
  <2>1. reg[a] \in Registered
    BY DEF Registered
  <2>2. targets'[a] = targets[a]
    BY <1>4, <1>7, <2>1
  <2>3. targets[a] \in coll
    BY <2>2 DEF TableInv, CurrentExportWorks
  <2>. QED  BY <1>1, <2>1, <2>2, <2>3
<1>11. DarkOnlyBehindStale'
  BY <1>1, <1>4, <1>7 DEF TableInv, DarkOnlyBehindStale
<1>12. NoDoubleStart'
  BY <1>1 DEF TableInv, NoDoubleStart
<1>. QED
  BY <1>5, <1>6, <1>8, <1>9, <1>10, <1>11, <1>12 DEF TableInv

\* delTarget empties the slot and keeps the invariant.
LEMMA DelKeeps ==
  ASSUME TableInv, NEW a \in Addrs, delTarget(a), UNCHANGED <<batch, starting>>
  PROVE  TableInv'
<1>. DEFINE t == targets[a]
<1>1. /\ targets' = [targets EXCEPT ![a] = Nil]
      /\ \A b \in Addrs : targets'[b] = IF b = a THEN Nil ELSE targets[b]
  BY DEF delTarget, TableInv, TableTypes
<1>2. CASE t \notin coll
  <2>1. reg' = reg /\ coll' = coll
    BY <1>2 DEF delTarget, StopExporter
  <2>2. TableTypes'
    BY <1>1, <2>1 DEF TableInv, TableTypes
  <2>3. Placed'
    BY <1>1, <2>1 DEF TableInv, Placed
  <2>4. CollReachable'
    <3>. SUFFICES ASSUME NEW u \in coll, u # starting, u \notin Registered
                  PROVE  u \in Current'
      BY <2>1 DEF CollReachable, Registered
    <3>1. PICK b \in Addrs : u = targets[b] /\ u # Nil
      BY DEF TableInv, CollReachable, Current
    <3>2. u = targets'[b]
      BY <1>1, <1>2, <3>1
    <3>. QED  BY <3>1, <3>2 DEF Current
  <2>5. StartingHasColl'
    BY <1>1, <2>1 DEF TableInv, StartingHasColl, Current
  <2>6. CurrentExportWorks'
    BY <1>1, <2>1 DEF TableInv, CurrentExportWorks
  <2>7. DarkOnlyBehindStale'
    BY <1>1, <2>1 DEF TableInv, DarkOnlyBehindStale
  <2>8. NoDoubleStart'
    BY <2>1 DEF TableInv, NoDoubleStart
  <2>. QED
    BY <2>2, <2>3, <2>4, <2>5, <2>6, <2>7, <2>8 DEF TableInv
<1>3. CASE t \in coll
  <2>1. t \in Target /\ t # Nil /\ t.addr = a
    BY <1>3, NilIsNoTarget DEF TableInv, TableTypes, Placed
  <2>2. /\ reg' = [reg EXCEPT ![a] = Nil]
        /\ coll' = coll \ {t, reg[a]}
        /\ \A b \in Addrs : reg'[b] = IF b = a THEN Nil ELSE reg[b]
    BY <1>3, <2>1 DEF delTarget, StopExporter, TableInv, TableTypes
  <2>3. TableTypes'
    BY <1>1, <2>2 DEF TableInv, TableTypes
  <2>4. Placed'
    BY <1>1, <2>2 DEF TableInv, Placed
  <2>5. \A b \in Addrs : b # a /\ targets[b] # Nil => targets[b] \notin {t, reg[a]}
    BY <2>1 DEF TableInv, Placed
  <2>6. CollReachable'
    <3>. SUFFICES ASSUME NEW u \in coll', u # starting
                  PROVE  u \in Current' \cup Registered'
      BY DEF CollReachable
    <3>1. u \in coll /\ u # t /\ u # reg[a] /\ u # Nil
      BY <2>2, NilIsNoTarget DEF TableInv, TableTypes
    <3>2. PICK b \in Addrs : u = targets[b] \/ u = reg[b]
      BY <3>1 DEF TableInv, CollReachable, Current, Registered
    <3>3. u = targets'[b] \/ u = reg'[b]
      BY <1>1, <2>2, <3>1, <3>2
    <3>. QED  BY <3>1, <3>3 DEF Current, Registered
  <2>7. StartingHasColl'
    <3>. SUFFICES ASSUME starting # Nil, starting \in Current'
                  PROVE  starting \in coll'
      BY DEF StartingHasColl
    <3>1. PICK b \in Addrs : b # a /\ starting = targets[b]
      BY <1>1 DEF Current
    <3>2. starting \in coll
      BY <3>1 DEF TableInv, StartingHasColl, Current
    <3>. QED  BY <2>2, <2>5, <3>1, <3>2
  <2>8. CurrentExportWorks'
    BY <1>1, <2>2, <2>5 DEF TableInv, CurrentExportWorks
  <2>9. DarkOnlyBehindStale'
    BY <1>1, <2>2 DEF TableInv, DarkOnlyBehindStale
  <2>10. NoDoubleStart'
    BY <2>2 DEF TableInv, NoDoubleStart
  <2>. QED
    BY <2>3, <2>4, <2>6, <2>7, <2>8, <2>9, <2>10 DEF TableInv
<1>. QED  BY <1>2, <1>3

\* What the exporter goroutine does to the shared state.
LEMMA ExporterKeeps ==
  ASSUME TableInv, TypeOK, ExporterStep
  PROVE  TableInv'
<1>1. UNCHANGED targets
  BY DEF ExporterStep, Recheck, FetchSecrets, StartFails, StartCreates, StartRegisters, tableVars
<1>2. CASE Recheck
  <2>1. UNCHANGED <<reg, coll, starting>> /\ batch' = Current \ coll
    BY <1>2 DEF Recheck, tableVars
  <2>. QED
    BY <1>1, <2>1, NilIsNoTarget
    DEF TableInv, TableTypes, Placed, CollReachable, StartingHasColl, Current,
        Registered, CurrentExportWorks, DarkOnlyBehindStale, NoDoubleStart
<1>3. ASSUME UNCHANGED <<reg, coll, starting>>, batch' \subseteq batch
      PROVE  TableInv'
  BY <1>1, <1>3
  DEF TableInv, TableTypes, Placed, CollReachable, StartingHasColl, Current,
      Registered, CurrentExportWorks, DarkOnlyBehindStale, NoDoubleStart
<1>4. CASE \E found \in SUBSET SecretSpecs : FetchSecrets(found)
  BY <1>3, <1>4 DEF FetchSecrets, tableVars
<1>5. CASE \E t \in batch : StartFails(t)
  BY <1>3, <1>5 DEF StartFails, tableVars
<1>6. ASSUME NEW t \in batch, StartCreates(t)
      PROVE  TableInv'
  <2>1. /\ coll' = coll \cup {t} /\ batch' = batch \ {t} /\ starting' = t
        /\ reg' = reg /\ starting = Nil
    BY <1>6 DEF StartCreates, TypeOK
  <2>2. TableTypes' /\ Placed' /\ StartingHasColl' /\ NoDoubleStart'
    BY <1>1, <2>1
    DEF TableInv, TableTypes, Placed, StartingHasColl, NoDoubleStart
  <2>3. CollReachable'
    BY <1>1, <2>1, NilIsNoTarget
    DEF TableInv, TableTypes, CollReachable, Current, Registered
  <2>4. CurrentExportWorks' /\ DarkOnlyBehindStale'
    BY <1>1, <2>1 DEF TableInv, CurrentExportWorks, DarkOnlyBehindStale
  <2>. QED  BY <2>2, <2>3, <2>4 DEF TableInv
<1>7. CASE StartRegisters
  <2>1. starting \in Target /\ starting # Nil /\ starting.addr \in Addrs
    BY <1>7 DEF StartRegisters, TypeOK, Target
  <2>2. /\ starting' = Nil /\ batch' = batch
        /\ coll' = coll \ ({starting} \ (Current \cup Registered'))
        /\ \A a \in Addrs :
             reg'[a] = IF a = starting.addr /\ reg[a] = Nil THEN starting ELSE reg[a]
    BY <1>7, <2>1 DEF StartRegisters, TableInv, TableTypes
  <2>3. TableTypes'
    BY <1>1, <1>7, <2>1, <2>2 DEF TableInv, TableTypes, StartRegisters
  <2>4. Placed'
    BY <1>1, <2>1, <2>2 DEF TableInv, Placed
  <2>5. Registered \subseteq Registered'
    BY <2>2 DEF Registered
  <2>6. CollReachable'
    BY <1>1, <2>2, <2>5 DEF TableInv, CollReachable, Current
  <2>7. StartingHasColl'
    BY <2>2 DEF StartingHasColl
  <2>8. \A a \in Addrs : targets[a] # Nil => (targets[a] \in coll => targets[a] \in coll')
    BY <2>2 DEF Current
  <2>9. CurrentExportWorks'
    <3>. SUFFICES ASSUME NEW a \in Addrs, targets[a] # Nil, targets[a] = reg'[a]
                  PROVE  targets[a] \in coll
      BY <1>1, <2>8 DEF CurrentExportWorks
    <3>1. CASE targets[a] = reg[a]
      BY <3>1 DEF TableInv, CurrentExportWorks
    <3>2. CASE targets[a] = starting
      BY <2>1, <3>2 DEF TableInv, StartingHasColl, Current
    <3>. QED  BY <2>2, <3>1, <3>2
  <2>10. DarkOnlyBehindStale'
    <3>. SUFFICES ASSUME NEW a \in Addrs, targets[a] # Nil, targets[a] \in coll
                  PROVE  reg'[a] # Nil
      BY <1>1, <2>2 DEF DarkOnlyBehindStale
    <3>1. CASE targets[a] = starting
      BY <2>1, <2>2, <3>1 DEF TableInv, Placed
    <3>2. CASE targets[a] # starting
      BY <2>1, <2>2, <3>2 DEF TableInv, DarkOnlyBehindStale
    <3>. QED  BY <3>1, <3>2
  <2>11. NoDoubleStart'
    BY <2>2 DEF TableInv, NoDoubleStart
  <2>. QED
    BY <2>3, <2>4, <2>6, <2>7, <2>9, <2>10, <2>11 DEF TableInv
<1>. QED
  BY <1>2, <1>4, <1>5, <1>6, <1>7 DEF ExporterStep
-----------------------------------------------------------------------------
(***************************************************************************)
(* The inductive invariant                                                 *)
(***************************************************************************)

LEMMA InitIInv == Init => IInv
<1>. SUFFICES ASSUME Init PROVE IInv
  OBVIOUS
<1>1. TypeOK
  BY EntryFacts DEF Init, TypeOK
<1>2. TableInv
  BY DEF Init, TableInv, TableTypes, Placed, CollReachable, StartingHasColl,
         CurrentExportWorks, DarkOnlyBehindStale, NoDoubleStart
<1>3. AddSlotVacant
  BY DEF Init, AddSlotVacant
<1>. QED  BY <1>1, <1>2, <1>3 DEF IInv

\* The locals of the goroutines keep their types; those of the shared state
\* are a part of TableInv.
LocalTypes ==
  /\ podPc \in {"recv", "del", "add"}
  /\ podTarget \in PodTargets \cup {Nil}
  /\ (podPc = "recv") <=> (podTarget = Nil)
  /\ cfgPc \in {"recv", "entry", "del", "add", "sweep"}
  /\ cfgTodo \in Seq(Entries)
  /\ cfgPc \in {"del", "add"} => cfgTodo # <<>>
  /\ cfgActual \subseteq ConfigAddrs
  /\ cfgStale \subseteq Addrs
  /\ expPc \in {"tick", "secrets", "start", "register"}
  /\ (expPc = "register") <=> (starting # Nil)

LEMMA TypeOKSplit == TableInv => (TypeOK <=> LocalTypes)
BY DEF TableInv, TableTypes, TypeOK, LocalTypes

LEMMA PodKeeps ==
  ASSUME IInv, PodStep \/ PodEvent
  PROVE  IInv'
<1>. USE DEF IInv
<1>. UNCHANGED <<cfgVars, expVars>>
  BY DEF PodStep, PodEvent, PodPut, PodReplace, PodAdd, PodDrop
<1>1. ASSUME NEW p \in PodTargets, PodPut(p)
      PROVE  IInv'
  <2>1. UNCHANGED tableVars
    BY <1>1 DEF PodPut
  <2>2. TableInv'
    BY <2>1
    DEF TableInv, TableTypes, Placed, CollReachable, StartingHasColl, Current,
        Registered, CurrentExportWorks, DarkOnlyBehindStale, NoDoubleStart,
        tableVars, expVars
  <2>3. TypeOK'
    BY <1>1, <2>1, EntryFacts DEF PodPut, TypeOK, podVars, tableVars, cfgVars, expVars
  <2>4. AddSlotVacant'
    BY <1>1, <2>1 DEF PodPut, AddSlotVacant, podVars, tableVars, cfgVars
  <2>. QED  BY <2>2, <2>3, <2>4
<1>2. ASSUME NEW a \in PodAddrs, PodDrop(a)
      PROVE  IInv'
  <2>1. a \in Addrs /\ delTarget(a) /\ UNCHANGED podVars
    BY <1>2 DEF PodDrop, Addrs
  <2>2. TableInv'
    BY <2>1, DelKeeps DEF expVars
  <2>3. TypeOK'
    BY <2>1, <2>2, TypeOKSplit DEF TypeOK, LocalTypes, podVars, cfgVars, expVars,
       TableInv, TableTypes
  <2>4. AddSlotVacant'
    BY <2>1 DEF AddSlotVacant, delTarget, podVars, cfgVars, TypeOK, ExclusiveAddrs
  <2>. QED  BY <2>2, <2>3, <2>4
<1>3. CASE PodReplace
  <2>1. podTarget \in PodTargets /\ podTarget.addr \in Addrs /\ podPc' = "add"
        /\ podTarget' = podTarget /\ delTarget(podTarget.addr)
    BY <1>3, EntryFacts DEF PodReplace, TypeOK
  <2>2. TableInv'
    BY <2>1, DelKeeps DEF expVars
  <2>3. TypeOK'
    BY <1>3, <2>1, <2>2 DEF PodReplace, TypeOK, cfgVars, expVars, TableInv, TableTypes
  <2>4. AddSlotVacant'
    BY <2>1 DEF AddSlotVacant, delTarget, cfgVars, TypeOK, ExclusiveAddrs
  <2>. QED  BY <2>2, <2>3, <2>4
<1>4. CASE PodAdd
  <2>1. /\ podTarget \in PodTargets /\ podTarget \in Entry
        /\ podTarget.addr \in PodAddrs
        /\ podPc' = "recv" /\ podTarget' = Nil /\ addTarget(podTarget, TRUE)
    BY <1>4, EntryFacts DEF PodAdd, TypeOK
  <2>2. TableInv'
    BY <2>1, AddKeeps DEF expVars
  <2>3. TypeOK'
    BY <2>1, <2>2 DEF TypeOK, cfgVars, expVars, TableInv, TableTypes
  <2>4. ASSUME cfgPc = "add", Head(cfgTodo).addr \in ExclusiveAddrs
        PROVE  targets'[Head(cfgTodo).addr] = Nil
    <3>1. Head(cfgTodo) \in Entries
      BY <2>4 DEF TypeOK
    <3>2. Head(cfgTodo).addr # podTarget.addr
      BY <2>1, <2>4, <3>1, EntryFacts DEF ExclusiveAddrs, SharedAddrs
    <3>3. targets'[Head(cfgTodo).addr] = targets[Head(cfgTodo).addr]
      BY <2>1, <2>4, <3>2 DEF addTarget, TypeOK, ExclusiveAddrs
    <3>. QED  BY <2>4, <3>3 DEF AddSlotVacant
  <2>5. AddSlotVacant'
    BY <2>1, <2>4 DEF AddSlotVacant, cfgVars
  <2>. QED  BY <2>2, <2>3, <2>5
<1>. QED
  BY <1>1, <1>2, <1>3, <1>4 DEF PodStep, PodEvent

LEMMA ConfigKeeps ==
  ASSUME IInv, ConfigStep \/ ConfigUpdate
  PROVE  IInv'
<1>. USE DEF IInv
<1>. UNCHANGED <<podVars, expVars>>
  BY DEF ConfigStep, ConfigUpdate, ConfigRecv, ConfigEntry, ConfigReplace, ConfigAdd,
         ConfigSnapshot, ConfigSweep
<1>1. ASSUME UNCHANGED tableVars
      PROVE  TableInv'
  BY <1>1
  DEF TableInv, TableTypes, Placed, CollReachable, StartingHasColl, Current,
      Registered, CurrentExportWorks, DarkOnlyBehindStale, NoDoubleStart,
      tableVars, expVars
<1>2. ASSUME NEW c \in Configs, ConfigRecv(c)
      PROVE  IInv'
  <2>1. UNCHANGED tableVars
    BY <1>2 DEF ConfigRecv
  <2>2. TypeOK'
    BY <1>2, <2>1, EntryFacts DEF ConfigRecv, TypeOK, podVars, tableVars, expVars
  <2>3. AddSlotVacant'
    BY <1>2, <2>1 DEF ConfigRecv, AddSlotVacant, podVars, tableVars
  <2>. QED  BY <1>1, <2>1, <2>2, <2>3
<1>3. CASE ConfigEntry
  <2>1. UNCHANGED tableVars
    BY <1>3 DEF ConfigEntry
  <2>2. Head(cfgTodo) \in Entries /\ Tail(cfgTodo) \in Seq(Entries)
    BY <1>3 DEF ConfigEntry, TypeOK
  <2>3. Head(cfgTodo).addr \in ConfigAddrs
    BY <2>2, EntryFacts
  <2>4. TypeOK'
    BY <1>3, <2>1, <2>2, <2>3 DEF ConfigEntry, TypeOK, podVars, tableVars, expVars
  <2>5. AddSlotVacant'
    BY <1>3, <2>1 DEF ConfigEntry, AddSlotVacant, podVars, tableVars
  <2>. QED  BY <1>1, <2>1, <2>4, <2>5
<1>4. CASE ConfigReplace
  <2>1. Head(cfgTodo) \in Entries
    BY <1>4 DEF ConfigReplace, TypeOK
  <2>2. Head(cfgTodo).addr \in Addrs
    BY <2>1, EntryFacts
  <2>3. /\ delTarget(Head(cfgTodo).addr) /\ cfgPc' = "add"
        /\ cfgTodo # <<>> /\ UNCHANGED <<cfgTodo, cfgActual, cfgStale>>
    BY <1>4 DEF ConfigReplace, TypeOK
  <2>4. TableInv'
    BY <2>2, <2>3, DelKeeps DEF expVars
  <2>5. TypeOK'
    BY <2>3, <2>4 DEF TypeOK, podVars, expVars, TableInv, TableTypes
  <2>6. AddSlotVacant'
    BY <2>3, <2>2 DEF AddSlotVacant, delTarget, podVars, TypeOK, ExclusiveAddrs
  <2>. QED  BY <2>4, <2>5, <2>6
<1>5. CASE ConfigAdd
  <2>1. Head(cfgTodo) \in Entries /\ Tail(cfgTodo) \in Seq(Entries)
    BY <1>5 DEF ConfigAdd, TypeOK
  <2>2. Head(cfgTodo) \in Entry /\ Head(cfgTodo).addr \in ConfigAddrs
    BY <2>1, EntryFacts
  <2>3. /\ addTarget(Head(cfgTodo), FALSE) /\ cfgPc' = "entry"
        /\ cfgTodo' = Tail(cfgTodo) /\ UNCHANGED <<cfgActual, cfgStale>>
    BY <1>5 DEF ConfigAdd
  <2>4. TableInv'
    BY <2>2, <2>3, AddKeeps DEF expVars
  <2>5. TypeOK'
    BY <2>1, <2>3, <2>4 DEF TypeOK, podVars, expVars, TableInv, TableTypes
  <2>6. ASSUME podPc = "add", podTarget.addr \in ExclusiveAddrs
        PROVE  targets'[podTarget.addr] = Nil
    <3>1. podTarget.addr \in PodAddrs
      BY <2>6, EntryFacts DEF TypeOK
    <3>2. Head(cfgTodo).addr # podTarget.addr
      BY <2>2, <2>6, <3>1 DEF ExclusiveAddrs, SharedAddrs
    <3>3. targets'[podTarget.addr] = targets[podTarget.addr]
      BY <2>3, <2>6, <3>2 DEF addTarget, TypeOK, ExclusiveAddrs
    <3>. QED  BY <2>6, <3>3 DEF AddSlotVacant
  <2>7. AddSlotVacant'
    BY <2>3, <2>6 DEF AddSlotVacant, podVars
  <2>. QED  BY <2>4, <2>5, <2>7
<1>6. CASE ConfigSnapshot
  <2>1. UNCHANGED tableVars
    BY <1>6 DEF ConfigSnapshot
  <2>2. cfgStale' \subseteq Addrs
    BY <1>6 DEF ConfigSnapshot, Current, TypeOK, Target
  <2>3. TypeOK'
    BY <1>6, <2>1, <2>2 DEF ConfigSnapshot, TypeOK, podVars, tableVars, expVars
  <2>4. AddSlotVacant'
    BY <1>6, <2>1 DEF ConfigSnapshot, AddSlotVacant, podVars, tableVars
  <2>. QED  BY <1>1, <2>1, <2>3, <2>4
<1>7. ASSUME NEW a \in cfgStale, ConfigSweep(a)
      PROVE  IInv'
  <2>1. a \in Addrs /\ delTarget(a)
    BY <1>7 DEF ConfigSweep, TypeOK
  <2>2. TableInv'
    BY <2>1, DelKeeps DEF expVars
  <2>3. TypeOK'
    BY <1>7, <2>2 DEF ConfigSweep, TypeOK, podVars, expVars, TableInv, TableTypes
  <2>4. AddSlotVacant'
    BY <1>7, <2>1 DEF ConfigSweep, AddSlotVacant, delTarget, podVars, TypeOK,
       ExclusiveAddrs
  <2>. QED  BY <2>2, <2>3, <2>4
<1>. QED
  BY <1>2, <1>3, <1>4, <1>5, <1>6, <1>7 DEF ConfigStep, ConfigUpdate

LEMMA ExporterKeepsAll ==
  ASSUME IInv, ExporterStep
  PROVE  IInv'
<1>. USE DEF IInv
<1>1. UNCHANGED <<targets, podVars, cfgVars>>
  BY DEF ExporterStep, Recheck, FetchSecrets, StartFails, StartCreates,
         StartRegisters, tableVars
<1>2. TableInv'
  BY ExporterKeeps
<1>3. expPc' \in {"tick", "secrets", "start", "register"}
      /\ ((expPc' = "register") <=> (starting' # Nil))
  BY NilIsNoTarget
  DEF ExporterStep, Recheck, FetchSecrets, StartFails, StartCreates,
      StartRegisters, TypeOK
<1>4. TypeOK'
  BY <1>1, <1>2, <1>3 DEF TypeOK, podVars, cfgVars, TableInv, TableTypes
<1>5. AddSlotVacant'
  BY <1>1 DEF AddSlotVacant, podVars, cfgVars
<1>. QED  BY <1>2, <1>4, <1>5

LEMMA StepIInv == IInv /\ [Next]_vars => IInv'
<1>. SUFFICES ASSUME IInv, [Next]_vars PROVE IInv'
  OBVIOUS
<1>1. CASE UNCHANGED vars
  BY <1>1
  DEF IInv, TypeOK, TableInv, TableTypes, Placed, CollReachable, StartingHasColl,
      Current, Registered, CurrentExportWorks, DarkOnlyBehindStale, NoDoubleStart,
      AddSlotVacant, vars, tableVars, podVars, cfgVars, expVars
<1>2. CASE PodStep \/ PodEvent
  BY <1>2, PodKeeps
<1>3. CASE ConfigStep \/ ConfigUpdate
  BY <1>3, ConfigKeeps
<1>4. CASE ExporterStep
  BY <1>4, ExporterKeepsAll
<1>. QED  BY <1>1, <1>2, <1>3, <1>4 DEF Next

LEMMA SpecIInv == Spec => []IInv
BY InitIInv, StepIInv, PTL DEF Spec

-----------------------------------------------------------------------------
(***************************************************************************)
(* The theorems                                                            *)
(***************************************************************************)

\* Every state of the three goroutines is well typed.
THEOREM TypeCorrect == Spec => []TypeOK
BY SpecIInv, PTL DEF IInv

\* A target in the table and in the registry has its collector, whatever the
\* interleaving of discovery, removal and start.
THEOREM ExportsWork == Spec => []CurrentExportWorks
BY SpecIInv, PTL DEF IInv, TableInv

\* A started target missing from the registry stands behind another target
\* that still holds its address.
THEOREM DarkBehindStale == Spec => []DarkOnlyBehindStale
BY SpecIInv, PTL DEF IInv, TableInv

\* No target of a batch is started a second time.
THEOREM StartedOnce == Spec => []NoDoubleStart
BY SpecIInv, PTL DEF IInv, TableInv

-----------------------------------------------------------------------------
(***************************************************************************)
(* The action properties                                                   *)
(***************************************************************************)

\* RemovalUnregisters, for one step and one address.
Unregisters(a) ==
  targets[a] # Nil /\ reg[a] = targets[a] /\ targets'[a] # targets[a]
    => targets'[a] = Nil /\ reg'[a] = Nil

LEMMA DelUnregisters ==
  ASSUME TableInv, NEW a \in Addrs, NEW b \in Addrs, delTarget(b)
  PROVE  Unregisters(a)
<1>. SUFFICES ASSUME targets[a] # Nil, reg[a] = targets[a], targets'[a] # targets[a]
              PROVE  targets'[a] = Nil /\ reg'[a] = Nil
  BY DEF Unregisters
<1>1. a = b /\ targets'[a] = Nil
  BY DEF delTarget, TableInv, TableTypes
<1>2. targets[a] \in coll /\ targets[a].addr = a
  BY DEF TableInv, CurrentExportWorks, Placed
<1>. QED
  BY <1>1, <1>2 DEF delTarget, StopExporter, TableInv, TableTypes

LEMMA AddUnregisters ==
  ASSUME TableInv, NEW a \in Addrs, NEW e \in Entry, NEW pod \in BOOLEAN,
         addTarget(e, pod), e.addr = a => targets[a] = Nil
  PROVE  Unregisters(a)
<1>1. CASE e.addr = a
  BY <1>1 DEF Unregisters
<1>2. CASE e.addr # a
  BY <1>2 DEF Unregisters, addTarget, TableInv, TableTypes
<1>. QED  BY <1>1, <1>2

\* A target at an address of one source leaves the table with its registration.
THEOREM RemovalsUnregister == Spec => RemovalUnregisters
<1>1. ASSUME IInv, Next, NEW a \in ExclusiveAddrs
      PROVE  Unregisters(a)
  <2>. USE <1>1 DEF IInv
  <2>. a \in Addrs
    BY DEF ExclusiveAddrs
  <2>1. CASE UNCHANGED targets
    BY <2>1 DEF Unregisters
  <2>2. ASSUME NEW b \in Addrs, delTarget(b)
        PROVE  Unregisters(a)
    BY <2>2, DelUnregisters
  <2>3. CASE PodReplace \/ \E b \in PodAddrs : PodDrop(b)
    BY <2>2, <2>3, EntryFacts DEF PodReplace, PodDrop, TypeOK, Addrs
  <2>4. CASE PodAdd
    <3>1. podTarget \in Entry /\ addTarget(podTarget, TRUE) /\ podPc = "add"
      BY <2>4, EntryFacts DEF PodAdd, TypeOK
    <3>2. podTarget.addr = a => targets[a] = Nil
      BY <3>1 DEF AddSlotVacant
    <3>. QED  BY <3>1, <3>2, AddUnregisters
  <2>5. CASE ConfigAdd
    <3>1. Head(cfgTodo) \in Entry
      BY <2>5, ConfigHead DEF ConfigAdd, TypeOK
    <3>2. addTarget(Head(cfgTodo), FALSE) /\ cfgPc = "add"
      BY <2>5 DEF ConfigAdd
    <3>3. Head(cfgTodo).addr = a => targets[a] = Nil
      BY <3>2 DEF AddSlotVacant
    <3>. QED  BY <3>1, <3>2, <3>3, AddUnregisters
  <2>6. CASE ConfigReplace
    <3>1. Head(cfgTodo).addr \in Addrs
      BY <2>6, ConfigHead DEF ConfigReplace, TypeOK
    <3>. QED  BY <2>2, <2>6, <3>1 DEF ConfigReplace
  <2>7. CASE \E b \in cfgStale : ConfigSweep(b)
    BY <2>2, <2>7 DEF ConfigSweep, TypeOK
  <2>8. CASE \/ \E p \in PodTargets : PodPut(p)
             \/ ConfigUpdate \/ ConfigEntry \/ ConfigSnapshot \/ ExporterStep
    BY <2>1, <2>8
    DEF PodPut, ConfigUpdate, ConfigRecv, ConfigEntry, ConfigSnapshot, ExporterStep,
        Recheck, FetchSecrets, StartFails, StartCreates, StartRegisters, tableVars
  <2>. QED
    BY <2>3, <2>4, <2>5, <2>6, <2>7, <2>8
    DEF Next, PodStep, PodEvent, ConfigStep
<1>2. IInv /\ [Next]_vars
      => [\A a \in ExclusiveAddrs :
            /\ targets[a] # Nil /\ reg[a] = targets[a] /\ targets'[a] # targets[a]
            => targets'[a] = Nil /\ reg'[a] = Nil]_vars
  BY <1>1 DEF Unregisters
<1>. QED  BY SpecIInv, <1>2, PTL DEF Spec, RemovalUnregisters

\* A target that is not a pod's stands at an address of the configuration, and
\* only such addresses are ever taken for stale.
Origins ==
  /\ cfgStale \subseteq ConfigAddrs
  /\ \A a \in Addrs : targets[a] # Nil /\ ~targets[a].pod => a \in ConfigAddrs

LEMMA AddOrigins ==
  ASSUME TypeOK, Origins, NEW e \in Entry, NEW pod \in BOOLEAN, addTarget(e, pod),
         pod \/ e.addr \in ConfigAddrs, UNCHANGED cfgStale
  PROVE  Origins'
<1>1. PICK n \in Incarnations :
        targets' = [targets EXCEPT ![e.addr] =
          [addr |-> e.addr, spec |-> e.spec, pod |-> pod, n |-> n]]
  <2>. DEFINE t == CHOOSE f \in Fresh(e, pod) : TRUE
  <2>1. t \in Fresh(e, pod) /\ targets' = [targets EXCEPT ![e.addr] = t]
    BY DEF addTarget
  <2>. HIDE DEF t
  <2>. QED  BY <2>1 DEF Fresh
<1>. QED  BY <1>1 DEF Origins, TypeOK

LEMMA DelOrigins ==
  ASSUME TypeOK, Origins, NEW a \in Addrs, delTarget(a), cfgStale' \subseteq cfgStale
  PROVE  Origins'
BY DEF Origins, TypeOK, delTarget

LEMMA SpecOrigins == Spec => []Origins
<1>1. Init => Origins
  BY DEF Init, Origins
<1>2. ASSUME IInv, Origins, [Next]_vars
      PROVE  Origins'
  <2>. USE <1>2 DEF IInv
  <2>1. ASSUME UNCHANGED targets, cfgStale' \subseteq cfgStale
        PROVE  Origins'
    BY <2>1 DEF Origins
  <2>2. CASE PodReplace \/ \E b \in PodAddrs : PodDrop(b)
    BY <2>2, EntryFacts, DelOrigins DEF PodReplace, PodDrop, TypeOK, Addrs, cfgVars
  <2>3. CASE PodAdd
    <3>1. podTarget \in Entry /\ addTarget(podTarget, TRUE) /\ UNCHANGED cfgStale
      BY <2>3, EntryFacts DEF PodAdd, TypeOK, cfgVars
    <3>. QED  BY <3>1, AddOrigins
  <2>4. CASE ConfigAdd
    <3>1. Head(cfgTodo) \in Entry /\ Head(cfgTodo).addr \in ConfigAddrs
      BY <2>4, ConfigHead DEF ConfigAdd, TypeOK
    <3>2. addTarget(Head(cfgTodo), FALSE) /\ UNCHANGED cfgStale
      BY <2>4 DEF ConfigAdd
    <3>. QED  BY <3>1, <3>2, AddOrigins
  <2>5. CASE ConfigReplace
    <3>1. Head(cfgTodo).addr \in Addrs
      BY <2>5, ConfigHead DEF ConfigReplace, TypeOK
    <3>. QED  BY <2>5, <3>1, DelOrigins DEF ConfigReplace
  <2>6. CASE \E b \in cfgStale : ConfigSweep(b)
    BY <2>6, DelOrigins DEF ConfigSweep, TypeOK
  <2>7. CASE ConfigSnapshot
    <3>1. \A u \in Current : ~u.pod => u.addr \in ConfigAddrs
      BY DEF Current, Origins, TableInv, Placed
    <3>2. cfgStale' \subseteq ConfigAddrs
      BY <2>7, <3>1 DEF ConfigSnapshot
    <3>. QED  BY <2>7, <3>2 DEF ConfigSnapshot, Origins, tableVars
  <2>8. CASE UNCHANGED vars
    BY <2>1, <2>8 DEF vars, tableVars, cfgVars
  <2>9. CASE \/ \E p \in PodTargets : PodPut(p)
             \/ ConfigUpdate \/ ConfigEntry \/ ExporterStep
    BY <2>1, <2>9
    DEF PodPut, ConfigUpdate, ConfigRecv, ConfigEntry, ExporterStep, Recheck,
        FetchSecrets, StartFails, StartCreates, StartRegisters, tableVars, cfgVars
  <2>. QED
    BY <2>2, <2>3, <2>4, <2>5, <2>6, <2>7, <2>8, <2>9
    DEF Next, PodStep, PodEvent, ConfigStep
<1>. QED  BY <1>1, <1>2, SpecIInv, PTL DEF Spec

\* The configuration goroutine changes nothing at an address of pods only.
LEMMA ConfigSpares ==
  ASSUME IInv, Origins, ConfigStep, NEW a \in PodAddrs \ ConfigAddrs
  PROVE  targets'[a] = targets[a] /\ reg'[a] = reg[a]
<1>. USE DEF IInv
<1>. a \in Addrs
  BY DEF Addrs
<1>1. ASSUME NEW b \in ConfigAddrs, delTarget(b)
      PROVE  targets'[a] = targets[a] /\ reg'[a] = reg[a]
  <2>1. b \in Addrs /\ a # b
    BY DEF Addrs
  <2>2. targets'[a] = targets[a]
    BY <1>1, <2>1 DEF delTarget, TypeOK
  <2>3. targets[b] \in coll => targets[b].addr = b
    BY <2>1, NilIsNoTarget DEF TableInv, Placed, TypeOK
  <2>4. reg'[a] = reg[a]
    BY <1>1, <2>1, <2>3 DEF delTarget, StopExporter, TypeOK
  <2>. QED  BY <2>2, <2>4
<1>2. CASE ConfigReplace
  <2>1. Head(cfgTodo).addr \in ConfigAddrs
    BY <1>2, ConfigHead DEF ConfigReplace, TypeOK
  <2>. QED  BY <1>1, <1>2, <2>1 DEF ConfigReplace
<1>3. CASE \E b \in cfgStale : ConfigSweep(b)
  BY <1>1, <1>3 DEF ConfigSweep, Origins
<1>4. CASE ConfigAdd
  <2>1. Head(cfgTodo).addr # a
    BY <1>4, ConfigHead DEF ConfigAdd, TypeOK
  <2>. QED  BY <1>4, <2>1 DEF ConfigAdd, addTarget, TypeOK
<1>5. CASE ConfigEntry \/ ConfigSnapshot
  BY <1>5 DEF ConfigEntry, ConfigSnapshot, tableVars
<1>. QED
  BY <1>2, <1>3, <1>4, <1>5 DEF ConfigStep

\* Nothing the configuration goroutine does touches the targets of pods, in the
\* table or in the registry, at an address of pods only.
THEOREM PodTargetsAreKept == Spec => PodTargetsKept
<1>1. IInv /\ Origins /\ [Next]_vars
      => [ConfigStep => \A a \in PodAddrs \ ConfigAddrs :
            targets'[a] = targets[a] /\ reg'[a] = reg[a]]_vars
  BY ConfigSpares
<1>. QED  BY SpecIInv, SpecOrigins, <1>1, PTL DEF Spec, PodTargetsKept

-----------------------------------------------------------------------------
(***************************************************************************)
(* Metrics implements TargetTable: at the addresses that one source names, *)
(* every step of the three goroutines is a step of the atomic table or     *)
(* leaves it alone.                                                        *)
(***************************************************************************)

\* A goroutine that is about to replace a target finds another one than it has.
\* At an exclusive address this stays true until it deletes.
ReplaceDiffers ==
  /\ podPc = "del" /\ podTarget.addr \in ExclusiveAddrs
     => SpecAt(podTarget.addr) # podTarget.spec
  /\ cfgPc = "del" /\ Head(cfgTodo).addr \in ExclusiveAddrs
     => SpecAt(Head(cfgTodo).addr) # Head(cfgTodo).spec

\* All that the refinement needs.
RInv == IInv /\ Origins /\ ReplaceDiffers

-----------------------------------------------------------------------------
(***************************************************************************)
(* The atomic table, address by address                                    *)
(***************************************************************************)

Stays(a) == WantedAt(a)' = WantedAt(a) /\ SpecAt(a)' = SpecAt(a)

Requested(a) ==
  /\ WantedAt(a) = SpecAt(a) /\ SpecAt(a)' = SpecAt(a)
  /\ WantedAt(a)' \in Specs /\ WantedAt(a)' # WantedAt(a)

Withdrawn(a) ==
  WantedAt(a) = SpecAt(a) /\ WantedAt(a)' = Nil /\ SpecAt(a)' = Nil

Cleared(a) ==
  SpecAt(a) \notin {Nil, WantedAt(a)} /\ SpecAt(a)' = Nil /\ WantedAt(a)' = WantedAt(a)

Installed(a) ==
  /\ SpecAt(a) = Nil /\ WantedAt(a) # Nil
  /\ SpecAt(a)' = WantedAt(a) /\ WantedAt(a)' = WantedAt(a)

Moves(a) == Requested(a) \/ Withdrawn(a) \/ Cleared(a) \/ Installed(a) \/ Stays(a)

\* A step that moves one address at most is a step of the table.
LEMMA MovesRefine ==
  ASSUME NEW a, \A b \in ExclusiveAddrs : b # a => Stays(b),
         a \in ExclusiveAddrs => Moves(a)
  PROVE  [Table!Next]_(Table!tvars)
<1>. DEFINE want  == [b \in ExclusiveAddrs |-> WantedAt(b)]
            table == [b \in ExclusiveAddrs |-> SpecAt(b)]
<1>1. CASE a \notin ExclusiveAddrs \/ Stays(a)
  <2>1. \A b \in ExclusiveAddrs : Stays(b)
    BY <1>1
  <2>. QED  BY <2>1 DEF Stays, Table!tvars
<1>2. CASE a \in ExclusiveAddrs /\ ~Stays(a)
  <2>1. want' = [want EXCEPT ![a] = WantedAt(a)']
    BY <1>2 DEF Stays
  <2>2. table' = [table EXCEPT ![a] = SpecAt(a)']
    BY <1>2 DEF Stays
  <2>3. SpecAt(a)' = SpecAt(a) => table' = table
    BY <1>2 DEF Stays
  <2>4. WantedAt(a)' = WantedAt(a) => want' = want
    BY <1>2 DEF Stays
  <2>5. want[a] = WantedAt(a) /\ table[a] = SpecAt(a)
    BY <1>2
  <2>6. CASE Requested(a)
    <3>1. Table!Request(a, WantedAt(a)')
      BY <1>2, <2>1, <2>3, <2>5, <2>6 DEF Requested, Table!Request, Table!Settled
    <3>. QED  BY <1>2, <2>6, <3>1 DEF Requested, Table!Next
  <2>7. CASE Withdrawn(a)
    <3>1. Table!Withdraw(a)
      BY <1>2, <2>1, <2>2, <2>5, <2>7 DEF Withdrawn, Table!Withdraw, Table!Settled
    <3>. QED  BY <1>2, <3>1 DEF Table!Next
  <2>8. CASE Cleared(a)
    <3>1. Table!Clear(a)
      BY <1>2, <2>2, <2>4, <2>5, <2>8 DEF Cleared, Table!Clear
    <3>. QED  BY <1>2, <3>1 DEF Table!Next
  <2>9. CASE Installed(a)
    <3>1. Table!Install(a)
      BY <1>2, <2>2, <2>4, <2>5, <2>9 DEF Installed, Table!Install
    <3>. QED  BY <1>2, <3>1 DEF Table!Next
  <2>. QED  BY <1>2, <2>6, <2>7, <2>8, <2>9 DEF Moves
<1>. QED  BY <1>1, <1>2

-----------------------------------------------------------------------------
(***************************************************************************)
(* One goroutine at a time                                                 *)
(***************************************************************************)

\* At an exclusive address one of the goroutines has no say.
LEMMA Sides ==
  ASSUME TypeOK, NEW a \in ExclusiveAddrs
  PROVE  /\ a \in Addrs /\ SpecAt(a) \in Specs \cup {Nil}
         /\ \/ a \in PodAddrs \ ConfigAddrs
            \/ a \in ConfigAddrs \ PodAddrs
         /\ a \in PodAddrs =>
              (cfgPc \in {"del", "add"} => Head(cfgTodo).addr # a)
         /\ a \in ConfigAddrs => (podTarget # Nil => podTarget.addr # a)
<1>1. a \in Addrs /\ (a \in PodAddrs \ ConfigAddrs \/ a \in ConfigAddrs \ PodAddrs)
  BY DEF ExclusiveAddrs, SharedAddrs, Addrs
<1>2. SpecAt(a) \in Specs \cup {Nil}
  BY <1>1 DEF SpecAt, TypeOK, Target
<1>3. cfgPc \in {"del", "add"} => Head(cfgTodo).addr \in ConfigAddrs
  BY ConfigHead DEF TypeOK
<1>4. podTarget # Nil => podTarget.addr \in PodAddrs
  BY EntryFacts DEF TypeOK
<1>. QED  BY <1>1, <1>2, <1>3, <1>4

\* discoverFromPods stores and deletes at addresses of pods only.
LEMMA PodSpares ==
  ASSUME TypeOK, PodStep \/ PodEvent, NEW a \in Addrs \ PodAddrs
  PROVE  targets'[a] = targets[a]
<1>1. podPc # "recv" => podTarget.addr \in PodAddrs
  BY EntryFacts DEF TypeOK
<1>. QED
  BY <1>1 DEF PodStep, PodEvent, PodPut, PodReplace, PodAdd, PodDrop, addTarget,
     delTarget, TypeOK, tableVars

LEMMA PodRefines ==
  ASSUME RInv, PodStep \/ PodEvent
  PROVE  [Table!Next]_(Table!tvars)
<1>. USE DEF RInv, IInv
<1>. cfgPc' = cfgPc /\ cfgTodo' = cfgTodo
  BY DEF PodStep, PodEvent, PodPut, PodReplace, PodAdd, PodDrop, cfgVars
\* A step at a concerns no other address.
<1>1. ASSUME NEW a, NEW b \in ExclusiveAddrs, b # a, targets'[b] = targets[b],
             podTarget = Nil \/ podTarget.addr = a,
             podTarget' = Nil \/ podTarget'.addr = a
      PROVE  Stays(b)
  BY <1>1 DEF Stays, WantedAt, SpecAt
<1>2. ASSUME NEW p \in PodTargets, PodPut(p)
      PROVE  [Table!Next]_(Table!tvars)
  <2>1. podTarget = Nil /\ podTarget' \in {Nil, p} /\ targets' = targets
    BY <1>2 DEF PodPut, TypeOK, podVars, tableVars
  <2>2. \A b \in ExclusiveAddrs : b # p.addr => Stays(b)
    BY <1>1, <2>1
  <2>3. ASSUME p.addr \in ExclusiveAddrs
        PROVE  Moves(p.addr)
    <3>1. p.addr \in PodAddrs /\ p.spec \in Specs /\ p # Nil
      BY EntryFacts DEF Entry
    <3>2. WantedAt(p.addr) = SpecAt(p.addr)
      BY <2>1, <2>3, <3>1, Sides DEF WantedAt
    <3>3. CASE podTarget' = Nil
      BY <2>1, <3>3 DEF Moves, Stays, WantedAt, SpecAt
    <3>4. CASE podTarget' # Nil
      <4>1. podTarget' = p
        BY <2>1, <3>4
      <4>2. SpecAt(p.addr) # p.spec
        <5>1. CASE targets[p.addr] = Nil
          BY <3>1, <5>1, MetricsAssumption DEF SpecAt, MetricsAssumption
        <5>2. CASE targets[p.addr] # Nil
          <6>1. ~Equal(targets[p.addr], p)
            BY <1>2, <2>1, <3>4, <5>2 DEF PodPut, podVars, Equal
          <6>2. targets[p.addr].addr = p.addr
            BY <5>2, EntryFacts DEF TableInv, Placed
          <6>. QED  BY <5>2, <6>1, <6>2 DEF Equal, SpecAt
        <5>. QED  BY <5>1, <5>2
      <4>3. WantedAt(p.addr)' = p.spec /\ SpecAt(p.addr)' = SpecAt(p.addr)
        BY <2>1, <3>1, <4>1 DEF WantedAt, SpecAt
      <4>. QED  BY <3>1, <3>2, <4>2, <4>3 DEF Moves, Requested
    <3>. QED  BY <3>3, <3>4
  <2>. QED  BY <2>2, <2>3, MovesRefine
<1>3. CASE PodReplace
  <2>. PICK a \in Addrs : a = podTarget.addr
    BY <1>3, EntryFacts DEF PodReplace, TypeOK
  <2>1. /\ podPc = "del" /\ podTarget' = podTarget /\ podTarget # Nil
        /\ delTarget(a) /\ podTarget \in Entry
    BY <1>3, EntryFacts DEF PodReplace, TypeOK
  <2>2. \A b \in ExclusiveAddrs : b # a => Stays(b)
    BY <1>1, <2>1 DEF delTarget, TypeOK, ExclusiveAddrs
  <2>3. ASSUME a \in ExclusiveAddrs
        PROVE  Moves(a)
    <3>1. WantedAt(a) = podTarget.spec /\ WantedAt(a)' = WantedAt(a)
      BY <2>1 DEF WantedAt
    <3>2. SpecAt(a) # WantedAt(a)
      BY <2>1, <2>3, <3>1 DEF ReplaceDiffers
    <3>3. SpecAt(a)' = Nil
      BY <2>1 DEF delTarget, SpecAt, TypeOK
    <3>. QED  BY <3>1, <3>2, <3>3 DEF Moves, Cleared, Stays
  <2>. QED  BY <2>2, <2>3, MovesRefine
<1>4. CASE PodAdd
  <2>. PICK a \in Addrs : a = podTarget.addr
    BY <1>4, EntryFacts DEF PodAdd, TypeOK
  <2>1. /\ podPc = "add" /\ podTarget' = Nil /\ podTarget # Nil
        /\ addTarget(podTarget, TRUE) /\ podTarget \in Entry
    BY <1>4, EntryFacts DEF PodAdd, TypeOK
  <2>2. PICK t \in Target : t.spec = podTarget.spec /\ targets' = [targets EXCEPT ![a] = t]
    BY <2>1, AddStores
  <2>3. \A b \in ExclusiveAddrs : b # a => Stays(b)
    BY <1>1, <2>1, <2>2 DEF TypeOK, ExclusiveAddrs
  <2>4. ASSUME a \in ExclusiveAddrs
        PROVE  Moves(a)
    <3>1. WantedAt(a) = podTarget.spec /\ podTarget.spec # Nil
      BY <2>1, MetricsAssumption DEF WantedAt, Entry, MetricsAssumption
    <3>2. SpecAt(a) = Nil
      BY <2>1, <2>4 DEF AddSlotVacant, SpecAt
    <3>3. SpecAt(a)' = podTarget.spec
      BY <2>1, <2>2, NilIsNoTarget DEF SpecAt, TypeOK
    <3>4. a \in PodAddrs
      BY <2>1, EntryFacts DEF TypeOK
    <3>5. WantedAt(a)' = SpecAt(a)'
      BY <2>1, <2>4, <3>4, Sides DEF WantedAt
    <3>. QED  BY <3>1, <3>2, <3>3, <3>5 DEF Moves, Installed
  <2>. QED  BY <2>3, <2>4, MovesRefine
<1>5. ASSUME NEW a \in PodAddrs, PodDrop(a)
      PROVE  [Table!Next]_(Table!tvars)
  <2>1. podTarget = Nil /\ podTarget' = Nil /\ delTarget(a) /\ a \in Addrs
    BY <1>5 DEF PodDrop, TypeOK, podVars, Addrs
  <2>2. \A b \in ExclusiveAddrs : b # a => Stays(b)
    BY <1>1, <2>1 DEF delTarget, TypeOK, ExclusiveAddrs
  <2>3. SpecAt(a)' = Nil
    BY <2>1 DEF delTarget, SpecAt, TypeOK
  <2>4. a \in ExclusiveAddrs => WantedAt(a) = SpecAt(a) /\ WantedAt(a)' = SpecAt(a)'
    BY <2>1, Sides DEF WantedAt
  <2>. QED  BY <2>2, <2>3, <2>4, MovesRefine DEF Moves, Withdrawn
<1>. QED  BY <1>2, <1>3, <1>4, <1>5 DEF PodStep, PodEvent

LEMMA ConfigRefines ==
  ASSUME RInv, ConfigStep \/ ConfigUpdate
  PROVE  [Table!Next]_(Table!tvars)
<1>. USE DEF RInv, IInv
<1>. podTarget' = podTarget
  BY DEF ConfigStep, ConfigUpdate, ConfigRecv, ConfigEntry, ConfigReplace, ConfigAdd,
         ConfigSnapshot, ConfigSweep, podVars
<1>. DEFINE e == Head(cfgTodo)
\* A step that is not about b.
<1>1. ASSUME NEW b \in ExclusiveAddrs, targets'[b] = targets[b],
             cfgPc \in {"del", "add"} => e.addr # b,
             cfgPc' \in {"del", "add"} => Head(cfgTodo').addr # b
      PROVE  Stays(b)
  BY <1>1 DEF Stays, WantedAt, SpecAt
<1>2. CASE ConfigUpdate \/ ConfigSnapshot
  <2>1. \A b \in ExclusiveAddrs : Stays(b)
    BY <1>1, <1>2 DEF ConfigUpdate, ConfigRecv, ConfigSnapshot, tableVars
  <2>. QED  BY <2>1 DEF Stays, Table!tvars
<1>3. ASSUME cfgTodo # <<>>, ConfigEntry \/ ConfigReplace \/ ConfigAdd
      PROVE  [Table!Next]_(Table!tvars)
  <2>1. PICK a \in Addrs : a = e.addr
    BY <1>3, ConfigHead
  <2>2. e \in Entry /\ a \in ConfigAddrs /\ e.spec \in Specs /\ e.spec # Nil
    BY <1>3, <2>1, ConfigHead, MetricsAssumption DEF Entry, MetricsAssumption
  <2>3. CASE ConfigEntry
    <3>1. cfgPc = "entry" /\ targets' = targets
      BY <2>3 DEF ConfigEntry, tableVars
    <3>2. cfgPc' = "entry" \/ (cfgPc' \in {"del", "add"} /\ cfgTodo' = cfgTodo)
      BY <2>3 DEF ConfigEntry
    <3>3. \A b \in ExclusiveAddrs : b # a => Stays(b)
      BY <1>1, <2>1, <3>1, <3>2
    <3>4. ASSUME a \in ExclusiveAddrs
          PROVE  Moves(a)
      <4>1. WantedAt(a) = SpecAt(a) /\ SpecAt(a)' = SpecAt(a)
        BY <2>2, <3>1, <3>4, Sides DEF WantedAt, SpecAt
      <4>2. CASE cfgPc' = "entry"
        BY <1>1, <3>1, <3>4, <4>2 DEF Moves
      <4>3. CASE cfgPc' # "entry"
        <5>1. WantedAt(a)' = e.spec
          BY <2>1, <2>2, <3>2, <3>4, <4>3, Sides DEF WantedAt
        <5>2. SpecAt(a) # e.spec
          <6>1. CASE targets[a] = Nil
            BY <2>2, <6>1 DEF SpecAt
          <6>2. CASE targets[a] # Nil
            <7>1. ~Equal(targets[a], e)
              BY <2>1, <2>3, <3>1, <4>3, <6>2 DEF ConfigEntry
            <7>2. targets[a].addr = a
              BY <6>2 DEF TableInv, Placed
            <7>. QED  BY <2>1, <6>2, <7>1, <7>2 DEF Equal, SpecAt
          <6>. QED  BY <6>1, <6>2
        <5>. QED  BY <2>2, <4>1, <5>1, <5>2 DEF Moves, Requested
      <4>. QED  BY <4>2, <4>3
    <3>. QED  BY <3>3, <3>4, MovesRefine
  <2>4. CASE ConfigReplace
    <3>1. cfgPc = "del" /\ cfgPc' = "add" /\ cfgTodo' = cfgTodo /\ delTarget(a)
      BY <2>1, <2>4 DEF ConfigReplace
    <3>2. \A b \in ExclusiveAddrs : b # a => Stays(b)
      BY <1>1, <2>1, <3>1 DEF delTarget, TypeOK, ExclusiveAddrs
    <3>3. ASSUME a \in ExclusiveAddrs
          PROVE  Moves(a)
      <4>1. WantedAt(a) = e.spec /\ WantedAt(a)' = e.spec
        BY <2>1, <2>2, <3>1, <3>3, Sides DEF WantedAt
      <4>2. SpecAt(a) # WantedAt(a)
        BY <2>1, <3>1, <3>3, <4>1 DEF ReplaceDiffers
      <4>3. SpecAt(a)' = Nil
        BY <3>1 DEF delTarget, SpecAt, TypeOK
      <4>. QED  BY <4>1, <4>2, <4>3 DEF Moves, Cleared, Stays
    <3>. QED  BY <3>2, <3>3, MovesRefine
  <2>5. CASE ConfigAdd
    <3>1. cfgPc = "add" /\ cfgPc' = "entry" /\ addTarget(e, FALSE)
      BY <2>5 DEF ConfigAdd
    <3>2. PICK t \in Target : t.spec = e.spec /\ targets' = [targets EXCEPT ![a] = t]
      BY <2>1, <2>2, <3>1, AddStores
    <3>3. \A b \in ExclusiveAddrs : b # a => Stays(b)
      BY <1>1, <2>1, <3>1, <3>2 DEF TypeOK, ExclusiveAddrs
    <3>4. ASSUME a \in ExclusiveAddrs
          PROVE  Moves(a)
      <4>1. WantedAt(a) = e.spec
        BY <2>1, <2>2, <3>1, <3>4, Sides DEF WantedAt
      <4>2. SpecAt(a) = Nil
        BY <2>1, <3>1, <3>4 DEF AddSlotVacant, SpecAt
      <4>3. SpecAt(a)' = e.spec
        BY <3>2, NilIsNoTarget DEF SpecAt, TypeOK
      <4>4. WantedAt(a)' = SpecAt(a)'
        BY <2>2, <3>1, <3>4, Sides DEF WantedAt
      <4>. QED  BY <2>2, <4>1, <4>2, <4>3, <4>4 DEF Moves, Installed
    <3>. QED  BY <3>3, <3>4, MovesRefine
  <2>. QED  BY <1>3, <2>3, <2>4, <2>5
<1>4. ASSUME NEW a \in cfgStale, ConfigSweep(a)
      PROVE  [Table!Next]_(Table!tvars)
  <2>1. /\ a \in Addrs /\ a \in ConfigAddrs /\ delTarget(a)
        /\ cfgPc = "sweep" /\ cfgPc' \in {"recv", "sweep"}
    BY <1>4 DEF ConfigSweep, TypeOK, Origins
  <2>2. \A b \in ExclusiveAddrs : b # a => Stays(b)
    BY <1>1, <2>1 DEF delTarget, TypeOK, ExclusiveAddrs
  <2>3. SpecAt(a)' = Nil
    BY <2>1 DEF delTarget, SpecAt, TypeOK
  <2>4. a \in ExclusiveAddrs => WantedAt(a) = SpecAt(a) /\ WantedAt(a)' = SpecAt(a)'
    BY <2>1, Sides DEF WantedAt
  <2>. QED  BY <2>2, <2>3, <2>4, MovesRefine DEF Moves, Withdrawn
<1>. QED
  BY <1>2, <1>3, <1>4 DEF ConfigStep, ConfigEntry, ConfigReplace, ConfigAdd, TypeOK

-----------------------------------------------------------------------------
(***************************************************************************)
(* The invariant and the theorem                                           *)
(***************************************************************************)

LEMMA StepReplaceDiffers == RInv /\ [Next]_vars => ReplaceDiffers'
<1>. SUFFICES ASSUME RInv, [Next]_vars PROVE ReplaceDiffers'
  OBVIOUS
<1>. USE DEF RInv, IInv
<1>1. CASE UNCHANGED vars
  BY <1>1 DEF ReplaceDiffers, SpecAt, vars, tableVars, podVars, cfgVars
<1>2. CASE ExporterStep
  <2>1. UNCHANGED <<targets, podVars, cfgVars>>
    BY <1>2 DEF ExporterStep, Recheck, FetchSecrets, StartFails, StartCreates,
       StartRegisters, tableVars
  <2>. QED  BY <2>1 DEF ReplaceDiffers, SpecAt, podVars, cfgVars
<1>3. CASE PodStep \/ PodEvent
  <2>1. ASSUME podPc' = "del", podTarget'.addr \in ExclusiveAddrs
        PROVE  SpecAt(podTarget.addr)' # podTarget'.spec
    <3>1. PICK p \in PodTargets : PodPut(p)
      BY <1>3, <2>1 DEF PodStep, PodEvent, PodReplace, PodAdd, PodDrop, podVars
    <3>2. /\ podTarget' = p /\ targets' = targets /\ targets[p.addr] # Nil
          /\ ~Equal(targets[p.addr], p)
      BY <2>1, <3>1 DEF PodPut, podVars, tableVars
    <3>3. targets[p.addr].addr = p.addr
      BY <3>2, EntryFacts DEF TableInv, Placed
    <3>. QED  BY <3>2, <3>3 DEF SpecAt, Equal
  <2>2. ASSUME cfgPc' = "del", Head(cfgTodo').addr \in ExclusiveAddrs
        PROVE  SpecAt(Head(cfgTodo).addr)' # Head(cfgTodo').spec
    <3>1. cfgPc = "del" /\ cfgTodo' = cfgTodo
      BY <1>3, <2>2 DEF PodStep, PodEvent, PodPut, PodReplace, PodAdd, PodDrop, cfgVars
    <3>2. PICK a \in ExclusiveAddrs : a = Head(cfgTodo).addr
      BY <2>2, <3>1
    <3>3. a \in Addrs \ PodAddrs
      BY <3>1, <3>2, ConfigHead DEF TypeOK, ExclusiveAddrs, SharedAddrs
    <3>4. targets'[a] = targets[a]
      BY <1>3, <3>3, PodSpares
    <3>. QED  BY <3>1, <3>2, <3>4 DEF ReplaceDiffers, SpecAt
  <2>. QED  BY <2>1, <2>2 DEF ReplaceDiffers
<1>4. CASE ConfigStep \/ ConfigUpdate
  <2>. UNCHANGED podVars
    BY <1>4 DEF ConfigStep, ConfigUpdate, ConfigRecv, ConfigEntry, ConfigReplace,
       ConfigAdd, ConfigSnapshot, ConfigSweep
  <2>1. ASSUME podPc' = "del", podTarget'.addr \in ExclusiveAddrs
        PROVE  SpecAt(podTarget.addr)' # podTarget'.spec
    <3>1. podPc = "del" /\ podTarget' = podTarget /\ podTarget \in PodTargets
      BY <2>1 DEF podVars, TypeOK
    <3>2. PICK a \in ExclusiveAddrs : a = podTarget.addr
      BY <2>1, <3>1
    <3>3. a \in PodAddrs \ ConfigAddrs
      BY <3>1, <3>2, EntryFacts DEF ExclusiveAddrs, SharedAddrs
    <3>4. targets'[a] = targets[a]
      BY <1>4, <3>3, ConfigSpares DEF ConfigUpdate, ConfigRecv, tableVars
    <3>. QED  BY <3>1, <3>2, <3>4 DEF ReplaceDiffers, SpecAt
  <2>2. ASSUME cfgPc' = "del", Head(cfgTodo').addr \in ExclusiveAddrs
        PROVE  SpecAt(Head(cfgTodo).addr)' # Head(cfgTodo').spec
    <3>1. ConfigEntry
      BY <1>4, <2>2 DEF ConfigStep, ConfigUpdate, ConfigRecv, ConfigReplace, ConfigAdd,
         ConfigSnapshot, ConfigSweep
    <3>2. PICK a \in Addrs : a = Head(cfgTodo).addr
      BY <3>1, ConfigHead DEF ConfigEntry
    <3>3. /\ cfgTodo' = cfgTodo /\ targets' = targets /\ targets[a] # Nil
          /\ ~Equal(targets[a], Head(cfgTodo))
      BY <2>2, <3>1, <3>2 DEF ConfigEntry, tableVars
    <3>4. targets[a].addr = a
      BY <3>3 DEF TableInv, Placed
    <3>. QED  BY <3>2, <3>3, <3>4 DEF SpecAt, Equal
  <2>. QED  BY <2>1, <2>2 DEF ReplaceDiffers
<1>. QED  BY <1>1, <1>2, <1>3, <1>4 DEF Next

\* At every address that one source names, the three goroutines and their
\* unlocked windows implement the atomic table: what was asked for is stored in
\* two steps, and nothing else ever happens to the entry.
THEOREM TableIsAtomic == Spec => TableRefined
<1>1. Init => Table!Init
  BY DEF Init, Table!Init, WantedAt, SpecAt, ExclusiveAddrs
<1>2. Init => ReplaceDiffers
  BY DEF Init, ReplaceDiffers
<1>3. RInv /\ [Next]_vars => [Table!Next]_(Table!tvars)
  <2>. SUFFICES ASSUME RInv, [Next]_vars PROVE [Table!Next]_(Table!tvars)
    OBVIOUS
  <2>1. ASSUME UNCHANGED <<targets, podVars, cfgVars>>
        PROVE  UNCHANGED Table!tvars
    BY <2>1 DEF Table!tvars, WantedAt, SpecAt, podVars, cfgVars
  <2>2. CASE UNCHANGED vars
    BY <2>1, <2>2 DEF vars, tableVars
  <2>3. CASE ExporterStep
    BY <2>1, <2>3 DEF ExporterStep, Recheck, FetchSecrets, StartFails, StartCreates,
       StartRegisters, tableVars
  <2>. QED  BY <2>2, <2>3, PodRefines, ConfigRefines DEF Next
<1>. QED
  BY <1>1, <1>2, <1>3, SpecIInv, SpecOrigins, StepReplaceDiffers, PTL
  DEF Spec, RInv, TableRefined, Table!Spec

-----------------------------------------------------------------------------
(***************************************************************************)
(* ConfigUpdates: the table follows the configuration received last        *)
(***************************************************************************)

\* The addresses where only configurations put targets.
ConfigOnly == ConfigAddrs \ PodAddrs

\* How many entries discoverFromConfig is done with, and the address of the one
\* it works on.
Handled   == Len(received) - Len(cfgTodo)
AtHand(a) == cfgPc \in {"del", "add"} /\ Head(cfgTodo).addr = a

\* Entry i of the configuration is the last one at a among the first n.
LastAmong(n, a, i) ==
  /\ i \in 1 .. n /\ received[i].addr = a
  /\ \A j \in i + 1 .. n : received[j].addr # a

\* What the goroutines exchange; cfgTodo is the rest of what was received.
Channel ==
  /\ served \in Configs /\ fetched \in Configs \cup {Nil} /\ received \in Seq(Entries)
  /\ cfgPc \in {"entry", "del", "add"} =>
       /\ Len(cfgTodo) <= Len(received)
       /\ \A i \in 1 .. Len(cfgTodo) : cfgTodo[i] = received[Handled + i]

NoPodsThere == \A a \in ConfigOnly : targets[a] # Nil => ~targets[a].pod

\* While entries are handled: an address is actual if one of them named it, and
\* it has what the last of them wants unless the next one is replacing that.
HandledInstalled ==
  cfgPc \in {"entry", "del", "add"} =>
    \A a \in ConfigOnly :
      \/ /\ \A i \in 1 .. Handled : received[i].addr # a
         /\ a \in cfgActual <=> AtHand(a)
      \/ /\ a \in cfgActual
         /\ \E i \in 1 .. Handled :
              LastAmong(Handled, a, i) /\ (AtHand(a) \/ SpecAt(a) = received[i].spec)

\* While stale targets are deleted: all of them are unnamed, and the other
\* addresses are as they should be.
StaleUnnamed ==
  cfgPc = "sweep" =>
    \A a \in ConfigOnly :
      IF a \in cfgStale THEN NamedIn(received, a) = Nil
      ELSE SpecAt(a) = NamedIn(received, a)

\* "actual" is a local variable of one call of discoverFromConfig.
ActualIsLocal == cfgPc \in {"recv", "sweep"} => cfgActual = {}

\* The inductive invariant of the composition, beyond IInv.
PollInv ==
  /\ Channel /\ NoPodsThere /\ ActualIsLocal
  /\ HandledInstalled /\ StaleUnnamed /\ ExactlyReceived

LEMMA NamedIsLast ==
  ASSUME received \in Seq(Entries), NEW a, NEW i, LastAmong(Len(received), a, i)
  PROVE  NamedIn(received, a) = received[i].spec
<1>. DEFINE at == {j \in DOMAIN received : received[j].addr = a}
            Top(k) == \A j \in at : j <= k
<1>1. i \in at /\ Top(i)
  BY DEF LastAmong
<1>2. \A k \in at : Top(k) => k = i
  BY <1>1
<1>3. (CHOOSE k \in at : Top(k)) = i
  <2>. HIDE DEF Top, at
  <2>. QED  BY <1>1, <1>2
<1>. QED  BY <1>1, <1>3 DEF NamedIn

LEMMA NamedNowhere ==
  ASSUME received \in Seq(Entries), NEW a,
         \A i \in 1 .. Len(received) : received[i].addr # a
  PROVE  NamedIn(received, a) = Nil
BY DEF NamedIn

LEMMA ConfigOnlyFacts ==
  /\ ConfigOnly \subseteq Addrs /\ ConfigOnly \subseteq Addrs \ PodAddrs
  /\ ConfigOnly \subseteq ConfigAddrs
BY DEF ConfigOnly, Addrs

\* The server, the updater and discoverFromPods change nothing of all this.
LEMMA OthersKeep ==
  ASSUME PollInv, UNCHANGED <<cfgVars, received>>,
         served' \in Configs, fetched' \in Configs \cup {Nil},
         \A a \in ConfigOnly : targets'[a] = targets[a]
  PROVE  PollInv'
<1>1. /\ Handled' = Handled
      /\ \A a \in ConfigOnly : SpecAt(a)' = SpecAt(a)
      /\ \A a : AtHand(a)' <=> AtHand(a)
      /\ \A a : NamedIn(received, a)' = NamedIn(received, a)
      /\ \A n, a, i : LastAmong(n, a, i)' <=> LastAmong(n, a, i)
  BY DEF Handled, SpecAt, AtHand, LastAmong, cfgVars
<1>2. Channel' /\ NoPodsThere' /\ ActualIsLocal'
  BY <1>1 DEF PollInv, Channel, NoPodsThere, ActualIsLocal, cfgVars
<1>3. HandledInstalled'
  BY <1>1 DEF PollInv, HandledInstalled, cfgVars
<1>4. StaleUnnamed'
  BY <1>1 DEF PollInv, StaleUnnamed, cfgVars
<1>5. ExactlyReceived'
  BY <1>1 DEF PollInv, ExactlyReceived, ConfigOnly, cfgVars
<1>. QED  BY <1>2, <1>3, <1>4, <1>5 DEF PollInv

\* A configuration arrives: nothing of it is handled yet.
LEMMA DeliverKeeps ==
  ASSUME TypeOK, PollInv, Deliver
  PROVE  PollInv'
<1>1. /\ fetched \in Configs /\ fetched \in Seq(Entries)
      /\ cfgTodo' = fetched /\ received' = fetched /\ fetched' = Nil
      /\ cfgPc' = "entry" /\ cfgPc = "recv" /\ served' = served
      /\ targets' = targets /\ cfgActual' = cfgActual
  BY EntryFacts DEF Deliver, PollInv, Channel, ConfigRecv, tableVars
<1>2. Handled' = 0
  BY <1>1 DEF Handled
<1>3. Channel' /\ NoPodsThere'
  BY <1>1, <1>2 DEF PollInv, Channel, NoPodsThere
<1>4. cfgActual' = {}
  BY <1>1 DEF PollInv, ActualIsLocal
<1>5. HandledInstalled'
  <2>1. ASSUME NEW a PROVE \A i \in 1 .. Handled' : received'[i].addr # a
    BY <1>2
  <2>2. ASSUME NEW a PROVE ~AtHand(a)'
    BY <1>1 DEF AtHand
  <2>. QED  BY <1>4, <2>1, <2>2 DEF HandledInstalled
<1>6. ActualIsLocal' /\ StaleUnnamed' /\ ExactlyReceived'
  BY <1>1 DEF ActualIsLocal, StaleUnnamed, ExactlyReceived
<1>. QED  BY <1>3, <1>5, <1>6 DEF PollInv

\* One entry is looked at, and handled at once if nothing has to be stored.
LEMMA EntryKeeps ==
  ASSUME IInv, PollInv, ConfigEntry, UNCHANGED updaterVars
  PROVE  PollInv'
<1>. DEFINE e == Head(cfgTodo)
            n == Handled
<1>. USE DEF IInv, PollInv
<1>1. /\ cfgPc = "entry" /\ cfgTodo # <<>> /\ cfgTodo \in Seq(Entries)
      /\ received \in Seq(Entries) /\ received' = received /\ targets' = targets
      /\ cfgActual' = cfgActual \cup {e.addr} /\ cfgStale' = cfgStale
      /\ served' = served /\ fetched' = fetched
      /\ \A a : SpecAt(a)' = SpecAt(a)
  BY DEF ConfigEntry, TypeOK, Channel, tableVars, updaterVars, SpecAt
<1>2. /\ n \in Nat /\ n + 1 \in 1 .. Len(received) /\ e = received[n + 1]
      /\ Len(cfgTodo) \in Nat /\ Len(cfgTodo) > 0
  BY <1>1 DEF Channel, Handled
<1>3. ~AtHand(e.addr)
  BY <1>1 DEF AtHand
<1>4. NoPodsThere' /\ StaleUnnamed' /\ ExactlyReceived' /\ ActualIsLocal'
  BY <1>1 DEF ConfigEntry, NoPodsThere, StaleUnnamed, ExactlyReceived, ActualIsLocal
<1>5. CASE cfgTodo' = cfgTodo /\ cfgPc' \in {"add", "del"}
  <2>1. /\ Handled' = n /\ \A a : AtHand(a)' <=> e.addr = a
        /\ \A m, a, i : LastAmong(m, a, i)' <=> LastAmong(m, a, i)
    BY <1>1, <1>5 DEF Handled, AtHand, LastAmong
  <2>2. Channel'
    BY <1>1, <1>5, <2>1 DEF Channel
  <2>3. HandledInstalled'
    BY <1>1, <1>3, <2>1 DEF HandledInstalled, AtHand
  <2>. QED  BY <1>4, <2>2, <2>3
<1>6. CASE cfgTodo' = Tail(cfgTodo) /\ cfgPc' = "entry"
  <2>1. /\ Handled' = n + 1 /\ \A a : ~AtHand(a) /\ ~AtHand(a)'
        /\ \A m, a, i : LastAmong(m, a, i)' <=> LastAmong(m, a, i)
    BY <1>1, <1>2, <1>6 DEF Handled, AtHand, LastAmong
  <2>2. Channel'
    <3>1. Len(cfgTodo') = Len(cfgTodo) - 1
      BY <1>1, <1>2, <1>6
    <3>2. \A i \in 1 .. Len(cfgTodo') : cfgTodo'[i] = received[Handled' + i]
      BY <1>1, <1>2, <1>6, <2>1, <3>1 DEF Channel
    <3>. QED  BY <1>1, <1>6, <3>1, <3>2 DEF Channel
  <2>3. ASSUME NEW a \in ConfigOnly, a # e.addr
        PROVE  \/ /\ \A i \in 1 .. n + 1 : received[i].addr # a
                  /\ a \notin cfgActual'
               \/ /\ a \in cfgActual'
                  /\ \E i \in 1 .. n + 1 :
                       LastAmong(n + 1, a, i) /\ SpecAt(a) = received[i].spec
    BY <1>1, <1>2, <2>1, <2>3 DEF HandledInstalled, LastAmong
  <2>4. ASSUME e.addr \in ConfigOnly
        PROVE  /\ e.addr \in cfgActual'
               /\ LastAmong(n + 1, e.addr, n + 1) /\ SpecAt(e.addr) = received[n + 1].spec
    <3>1. targets[e.addr] # Nil /\ (targets[e.addr].pod \/ Equal(targets[e.addr], e))
      BY <1>1, <1>6 DEF ConfigEntry
    <3>2. SpecAt(e.addr) = e.spec
      BY <2>4, <3>1 DEF NoPodsThere, SpecAt, Equal
    <3>. QED  BY <1>1, <1>2, <3>2 DEF LastAmong
  <2>5. HandledInstalled'
    <3>. SUFFICES ASSUME NEW a \in ConfigOnly
                  PROVE  \/ /\ \A i \in 1 .. n + 1 : received[i].addr # a
                            /\ a \notin cfgActual'
                         \/ /\ a \in cfgActual'
                            /\ \E i \in 1 .. n + 1 :
                                 LastAmong(n + 1, a, i) /\ SpecAt(a) = received[i].spec
      BY <1>1, <2>1 DEF HandledInstalled
    <3>. QED  BY <1>2, <2>3, <2>4
  <2>. QED  BY <1>4, <2>2, <2>5
<1>. QED  BY <1>1, <1>5, <1>6 DEF ConfigEntry

\* The target that the entry at hand replaces is deleted.
LEMMA ReplaceKeeps ==
  ASSUME IInv, PollInv, ConfigReplace, UNCHANGED updaterVars
  PROVE  PollInv'
<1>. DEFINE e == Head(cfgTodo)
<1>. USE DEF IInv, PollInv
<1>1. /\ cfgPc = "del" /\ cfgPc' = "add" /\ cfgTodo' = cfgTodo
      /\ cfgActual' = cfgActual
      /\ received' = received /\ served' = served /\ fetched' = fetched
      /\ \A a \in Addrs : targets'[a] = IF a = e.addr THEN Nil ELSE targets[a]
  BY DEF ConfigReplace, delTarget, updaterVars, TypeOK
<1>2. /\ Handled' = Handled /\ \A a : AtHand(a) <=> e.addr = a
      /\ \A a : AtHand(a)' <=> e.addr = a
      /\ \A m, a, i : LastAmong(m, a, i)' <=> LastAmong(m, a, i)
      /\ \A a \in ConfigOnly : a # e.addr => SpecAt(a)' = SpecAt(a)
  BY <1>1, ConfigOnlyFacts DEF Handled, AtHand, LastAmong, SpecAt
<1>3. Channel'
  BY <1>1, <1>2 DEF Channel
<1>4. NoPodsThere'
  BY <1>1, ConfigOnlyFacts DEF NoPodsThere
<1>5. HandledInstalled'
  BY <1>1, <1>2 DEF HandledInstalled
<1>6. ActualIsLocal' /\ StaleUnnamed' /\ ExactlyReceived'
  BY <1>1 DEF ActualIsLocal, StaleUnnamed, ExactlyReceived
<1>. QED  BY <1>3, <1>4, <1>5, <1>6

\* The entry at hand is stored, and with that handled.
LEMMA AddKeepsPoll ==
  ASSUME IInv, PollInv, ConfigAdd, UNCHANGED updaterVars
  PROVE  PollInv'
<1>. DEFINE e == Head(cfgTodo)
            n == Handled
<1>. USE DEF IInv, PollInv
<1>1. /\ cfgPc = "add" /\ cfgPc' = "entry" /\ cfgTodo # <<>> /\ cfgTodo \in Seq(Entries)
      /\ cfgTodo' = Tail(cfgTodo) /\ cfgActual' = cfgActual
      /\ received \in Seq(Entries) /\ received' = received
      /\ served' = served /\ fetched' = fetched /\ addTarget(e, FALSE)
  BY DEF ConfigAdd, TypeOK, Channel, updaterVars
<1>2. e \in Entry /\ e.addr \in Addrs
  BY <1>1, ConfigHead
<1>. PICK b \in Addrs : b = e.addr
  BY <1>2
<1>3. PICK t \in Target : /\ t.spec = e.spec /\ t.pod = FALSE
                          /\ targets' = [targets EXCEPT ![e.addr] = t]
  BY <1>1, <1>2, AddStores
<1>4. /\ t # Nil
      /\ \A a \in Addrs : targets'[a] = IF a = e.addr THEN t ELSE targets[a]
  BY <1>2, <1>3, NilIsNoTarget DEF TypeOK
<1>5. /\ n \in Nat /\ n + 1 \in 1 .. Len(received) /\ e = received[n + 1]
      /\ Len(cfgTodo) \in Nat /\ Len(cfgTodo) > 0
  BY <1>1 DEF Channel, Handled
<1>6. /\ Handled' = n + 1 /\ \A a : AtHand(a) <=> e.addr = a
      /\ \A a : ~AtHand(a)'
      /\ \A m, a, i : LastAmong(m, a, i)' <=> LastAmong(m, a, i)
      /\ \A a \in ConfigOnly : a # e.addr => SpecAt(a)' = SpecAt(a)
      /\ SpecAt(b)' = e.spec
  <2>1. Handled' = n + 1
    BY <1>1, <1>5 DEF Handled
  <2>2. \A a : (AtHand(a) <=> e.addr = a) /\ ~AtHand(a)'
    BY <1>1 DEF AtHand
  <2>3. \A m, a, i : LastAmong(m, a, i)' <=> LastAmong(m, a, i)
    BY <1>1 DEF LastAmong
  <2>4. \A a \in ConfigOnly : a # e.addr => SpecAt(a)' = SpecAt(a)
    BY <1>4, ConfigOnlyFacts DEF SpecAt
  <2>5. SpecAt(b)' = e.spec
    BY <1>2, <1>3, <1>4 DEF SpecAt
  <2>. QED  BY <2>1, <2>2, <2>3, <2>4, <2>5
<1>7. Channel'
  <2>1. Len(cfgTodo') = Len(cfgTodo) - 1
    BY <1>1, <1>5
  <2>2. \A i \in 1 .. Len(cfgTodo') : cfgTodo'[i] = received[Handled' + i]
    BY <1>1, <1>5, <1>6, <2>1 DEF Channel
  <2>. QED  BY <1>1, <2>1, <2>2 DEF Channel
<1>8. NoPodsThere'
  BY <1>3, <1>4, ConfigOnlyFacts DEF NoPodsThere
<1>9. HandledInstalled'
  <2>1. ASSUME NEW a \in ConfigOnly, a # e.addr
        PROVE  \/ /\ \A i \in 1 .. n + 1 : received[i].addr # a
                  /\ a \notin cfgActual
               \/ /\ a \in cfgActual
                  /\ \E i \in 1 .. n + 1 :
                       LastAmong(n + 1, a, i) /\ SpecAt(a) = received[i].spec
    <3>1. ~AtHand(a)
      BY <1>6, <2>1
    <3>2. received[n + 1].addr # a
      BY <1>5, <2>1
    <3>3. \/ (\A i \in 1 .. n : received[i].addr # a) /\ a \notin cfgActual
          \/ /\ a \in cfgActual
             /\ \E i \in 1 .. n : LastAmong(n, a, i) /\ SpecAt(a) = received[i].spec
      BY <1>1, <3>1 DEF HandledInstalled
    <3>. HIDE DEF e, n
    <3>. QED  BY <1>5, <3>2, <3>3 DEF LastAmong
  <2>2. ASSUME e.addr \in ConfigOnly
        PROVE  e.addr \in cfgActual /\ LastAmong(n + 1, e.addr, n + 1)
    <3>1. AtHand(e.addr)
      BY <1>6
    <3>2. e.addr \in cfgActual
      BY <1>1, <2>2, <3>1 DEF HandledInstalled
    <3>3. LastAmong(n + 1, e.addr, n + 1)
      BY <1>5 DEF LastAmong
    <3>. QED  BY <3>2, <3>3
  <2>. SUFFICES ASSUME NEW a \in ConfigOnly
                PROVE  \/ /\ \A i \in 1 .. n + 1 : received[i].addr # a
                          /\ a \notin cfgActual
                       \/ /\ a \in cfgActual
                          /\ \E i \in 1 .. n + 1 :
                               LastAmong(n + 1, a, i) /\ SpecAt(a)' = received[i].spec
    BY <1>1, <1>6 DEF HandledInstalled
  <2>3. CASE a # e.addr
    BY <1>6, <2>1, <2>3
  <2>4. CASE a = e.addr
    BY <1>5, <1>6, <2>2, <2>4
  <2>. QED  BY <2>3, <2>4
<1>10. ActualIsLocal' /\ StaleUnnamed' /\ ExactlyReceived'
  BY <1>1 DEF ActualIsLocal, StaleUnnamed, ExactlyReceived
<1>. QED  BY <1>7, <1>8, <1>9, <1>10

\* All entries are handled: what the table holds elsewhere is stale.
LEMMA SnapshotKeeps ==
  ASSUME IInv, PollInv, ConfigSnapshot, UNCHANGED updaterVars
  PROVE  PollInv'
<1>. USE DEF IInv, PollInv
<1>1. /\ cfgPc = "entry" /\ cfgTodo = <<>> /\ cfgActual' = {} /\ cfgTodo' = cfgTodo
      /\ cfgPc' = IF cfgStale' = {} THEN "recv" ELSE "sweep"
      /\ cfgStale' = {t.addr : t \in {u \in Current : u.addr \notin cfgActual /\ ~u.pod}}
      /\ received \in Seq(Entries) /\ received' = received /\ targets' = targets
      /\ served' = served /\ fetched' = fetched
      /\ \A a : SpecAt(a)' = SpecAt(a)
      /\ \A a : NamedIn(received, a)' = NamedIn(received, a)
  BY DEF ConfigSnapshot, TypeOK, Channel, tableVars, updaterVars, SpecAt
<1>2. Handled = Len(received) /\ \A a : ~AtHand(a)
  BY <1>1 DEF Handled, AtHand
<1>3. ASSUME NEW a \in ConfigOnly
      PROVE  IF a \in cfgActual THEN SpecAt(a) = NamedIn(received, a)
             ELSE NamedIn(received, a) = Nil
  <2>1. CASE \A i \in 1 .. Len(received) : received[i].addr # a
    BY <1>1, <1>2, <2>1, NamedNowhere DEF HandledInstalled, LastAmong
  <2>2. CASE ~\A i \in 1 .. Len(received) : received[i].addr # a
    <3>1. /\ a \in cfgActual
          /\ \E i : LastAmong(Len(received), a, i) /\ SpecAt(a) = received[i].spec
      BY <1>1, <1>2, <2>2 DEF HandledInstalled
    <3>. QED  BY <1>1, <3>1, NamedIsLast
  <2>. QED  BY <2>1, <2>2
<1>4. ASSUME NEW a \in ConfigOnly
      PROVE  a \in cfgStale' <=> targets[a] # Nil /\ a \notin cfgActual
  <2>1. ASSUME a \in cfgStale' PROVE targets[a] # Nil /\ a \notin cfgActual
    <3>1. PICK b \in Addrs : /\ targets[b] # Nil /\ targets[b].addr = a
                             /\ a \notin cfgActual
      BY <1>1, <2>1 DEF Current
    <3>. QED  BY <3>1 DEF TableInv, Placed
  <2>2. ASSUME targets[a] # Nil, a \notin cfgActual PROVE a \in cfgStale'
    <3>1. targets[a] \in Current /\ targets[a].addr = a /\ ~targets[a].pod
      BY <2>2, ConfigOnlyFacts DEF Current, TableInv, Placed, NoPodsThere
    <3>. QED  BY <1>1, <2>2, <3>1
  <2>. QED  BY <2>1, <2>2
<1>5. \A a \in ConfigOnly : IF a \in cfgStale' THEN NamedIn(received, a) = Nil
                            ELSE SpecAt(a) = NamedIn(received, a)
  BY <1>3, <1>4 DEF SpecAt
<1>6. StaleUnnamed'
  BY <1>1, <1>5 DEF StaleUnnamed
<1>7. ExactlyReceived'
  BY <1>1, <1>5 DEF ExactlyReceived, ConfigOnly
<1>8. Channel' /\ NoPodsThere' /\ ActualIsLocal' /\ HandledInstalled'
  BY <1>1 DEF Channel, NoPodsThere, ActualIsLocal, HandledInstalled
<1>. QED  BY <1>6, <1>7, <1>8

\* One stale address is emptied.
LEMMA SweepKeeps ==
  ASSUME IInv, PollInv, NEW a \in cfgStale, ConfigSweep(a), UNCHANGED updaterVars
  PROVE  PollInv'
<1>. USE DEF IInv, PollInv
<1>1. /\ cfgPc = "sweep" /\ cfgStale' = cfgStale \ {a} /\ a \in Addrs
      /\ cfgPc' = IF cfgStale' = {} THEN "recv" ELSE "sweep"
      /\ cfgActual' = cfgActual
      /\ received' = received /\ served' = served /\ fetched' = fetched
      /\ \A b \in Addrs : targets'[b] = IF b = a THEN Nil ELSE targets[b]
      /\ \A b : NamedIn(received, b)' = NamedIn(received, b)
  BY DEF ConfigSweep, delTarget, updaterVars, TypeOK
<1>2. ASSUME NEW b \in ConfigOnly
      PROVE  IF b \in cfgStale' THEN NamedIn(received, b) = Nil
             ELSE SpecAt(b)' = NamedIn(received, b)
  <2>1. CASE b = a
    BY <1>1, <2>1 DEF StaleUnnamed, SpecAt
  <2>2. CASE b # a
    BY <1>1, <2>2, ConfigOnlyFacts DEF StaleUnnamed, SpecAt
  <2>. QED  BY <2>1, <2>2
<1>3. StaleUnnamed'
  BY <1>1, <1>2 DEF StaleUnnamed
<1>4. ExactlyReceived'
  BY <1>1, <1>2 DEF ExactlyReceived, ConfigOnly
<1>5. Channel' /\ NoPodsThere' /\ ActualIsLocal' /\ HandledInstalled'
  BY <1>1, ConfigOnlyFacts DEF Channel, NoPodsThere, ActualIsLocal, HandledInstalled
<1>. QED  BY <1>3, <1>4, <1>5

LEMMA UpdaterStepKeeps == IInv /\ PollInv /\ [UpdaterNext]_allVars => IInv' /\ PollInv'
<1>. SUFFICES ASSUME IInv, PollInv, [UpdaterNext]_allVars PROVE IInv' /\ PollInv'
  OBVIOUS
<1>. USE DEF IInv
<1>1. CASE UNCHANGED vars /\ received' = received
           /\ served' \in Configs /\ fetched' \in Configs \cup {Nil}
  <2>1. IInv'
    BY <1>1, StepIInv
  <2>2. PollInv'
    BY <1>1, OthersKeep DEF vars, tableVars
  <2>. QED  BY <2>1, <2>2
<1>2. CASE Server \/ Fetch \/ FetchFails \/ UNCHANGED allVars
  BY <1>1, <1>2 DEF Server, Change, Fetch, FetchFails, allVars, updaterVars, PollInv, Channel
<1>3. CASE Deliver
  <2>1. ConfigUpdate
    BY <1>3 DEF Deliver, PollInv, Channel, ConfigUpdate
  <2>2. IInv'
    BY <2>1, StepIInv DEF Next
  <2>. QED  BY <1>3, <2>2, DeliverKeeps
<1>4. CASE Listener
  <2>1. ConfigStep /\ UNCHANGED updaterVars
    BY <1>4 DEF Listener
  <2>2. IInv'
    BY <2>1, StepIInv DEF Next
  <2>. QED
    BY <2>1, <2>2, EntryKeeps, ReplaceKeeps, AddKeepsPoll, SnapshotKeeps, SweepKeeps
    DEF ConfigStep
<1>5. CASE Pods
  <2>1. (PodStep \/ PodEvent) /\ UNCHANGED updaterVars
    BY <1>5 DEF Pods
  <2>2. IInv'
    BY <2>1, StepIInv DEF Next
  <2>3. \A a \in ConfigOnly : targets'[a] = targets[a]
    BY <2>1, PodSpares, ConfigOnlyFacts
  <2>4. UNCHANGED cfgVars
    BY <2>1 DEF PodStep, PodEvent, PodPut, PodReplace, PodAdd, PodDrop
  <2>5. PollInv'
    BY <2>1, <2>3, <2>4, OthersKeep DEF updaterVars, PollInv, Channel
  <2>. QED  BY <2>2, <2>5
<1>. QED  BY <1>2, <1>3, <1>4, <1>5 DEF UpdaterNext

\* Between two configurations the table holds, where pods do not interfere,
\* exactly what the last one names, however the entry by entry update, its
\* unlocked windows and the sweep interleave with the goroutine of the pods.
THEOREM LastReceivedIsInstalled == UpdaterSpec => []ExactlyReceived
<1>1. UpdaterInit => IInv /\ PollInv
  <2>. SUFFICES ASSUME UpdaterInit PROVE PollInv
    BY InitIInv DEF UpdaterInit
  <2>1. Channel /\ NoPodsThere /\ ActualIsLocal /\ HandledInstalled /\ StaleUnnamed
    BY ConfigOnlyFacts
    DEF UpdaterInit, Init, Channel, NoPodsThere, ActualIsLocal, HandledInstalled, StaleUnnamed
  <2>2. \A a : NamedIn(received, a) = Nil
    BY DEF UpdaterInit, NamedIn
  <2>3. ExactlyReceived
    BY <2>2 DEF UpdaterInit, Init, ExactlyReceived, SpecAt, Addrs
  <2>. QED  BY <2>1, <2>3 DEF PollInv
<1>. QED  BY <1>1, UpdaterStepKeeps, PTL DEF UpdaterSpec, PollInv
=============================================================================
