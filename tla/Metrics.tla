------------------------------- MODULE Metrics -------------------------------
(***************************************************************************)
(* The target table of metrics/metrics.go and the exporters it starts      *)
(* (metrics/target.go).  Three goroutines of one Metrics value work on it: *)
(*                                                                         *)
(*   discoverFromPods     one event of the Kubernetes informer at a time,  *)
(*   ListenConfigUpdates  one configuration at a time, entry by entry,     *)
(*   startExporters       every 10 seconds, a batch of unstarted targets.  *)
(*                                                                         *)
(* targetsLock covers single accesses of the map, not what a goroutine     *)
(* does between two of them, and StartExporter runs without it.  An action *)
(* below is one critical section (or one write to a field of a Target that *)
(* another goroutine reads without the lock), so all those interleavings   *)
(* are behaviours of the model.                                            *)
(*                                                                         *)
(* A *Target is a record of its immutable fields and an incarnation number *)
(* n that tells apart two objects with equal fields.  "spec" stands for    *)
(* everything Target.Equal compares besides Addr.  The mutable field coll  *)
(* is the set of the targets whose coll is not nil.                        *)
(***************************************************************************)
EXTENDS Naturals, Sequences

CONSTANTS
  PodTargets,    \* the [addr, spec] that TargetFromPod can return
  Configs,       \* the instrumentation lists a configuration can carry
  SecretSpecs,   \* the specs whose CredentialsSecret.Name is not empty
  Incarnations,  \* bound: equal targets that may be reachable at once
  Nil

Entries == UNION { {c[i] : i \in DOMAIN c} : c \in Configs }

PodAddrs    == {p.addr : p \in PodTargets}
ConfigAddrs == {e.addr : e \in Entries}
Addrs       == PodAddrs \cup ConfigAddrs
Specs       == {p.spec : p \in PodTargets} \cup {e.spec : e \in Entries}

Entry  == [addr : Addrs, spec : Specs]
Target == [addr : Addrs, spec : Specs, pod : BOOLEAN, n : Incarnations]

\* A config entry has no CredentialsSecret (TargetFromConfig never sets it).
ASSUME MetricsAssumption ==
  /\ PodTargets \subseteq [addr : PodAddrs, spec : Specs]
  /\ Configs \subseteq Seq(Entry)
  /\ \A e \in Entries : e.spec \notin SecretSpecs
  /\ Incarnations # {}
  /\ Nil \notin Target
  /\ Nil \notin Entry
  /\ Nil \notin Specs

\* Addresses that pods and configurations both name: nothing serialises the
\* two discovery goroutines there.
SharedAddrs    == PodAddrs \cap ConfigAddrs
ExclusiveAddrs == Addrs \ SharedAddrs

VARIABLES
  targets,    \* ms.targets: address -> *Target or Nil
  reg,        \* the registry: label "address" -> the collector holding it
  coll,       \* the targets t with t.coll # nil
  podPc,      \* where discoverFromPods is
  podTarget,  \* the target it made of the event at hand
  cfgPc,      \* where discoverFromConfig is
  cfgTodo,    \* the entries it has not handled yet
  cfgActual,  \* its local map "actual"
  cfgStale,   \* the addresses of the targets it is about to delete
  expPc,      \* where startExporters is
  batch,      \* the unstarted targets it collected
  starting    \* the target inside StartExporter

tableVars == <<targets, reg, coll>>
podVars   == <<podPc, podTarget>>
cfgVars   == <<cfgPc, cfgTodo, cfgActual, cfgStale>>
expVars   == <<expPc, batch, starting>>
vars      == <<tableVars, podVars, cfgVars, expVars>>

Init ==
  /\ targets = [a \in Addrs |-> Nil]
  /\ reg = [a \in Addrs |-> Nil]
  /\ coll = {}
  /\ podPc = "recv" /\ podTarget = Nil
  /\ cfgPc = "recv" /\ cfgTodo = <<>> /\ cfgActual = {} /\ cfgStale = {}
  /\ expPc = "tick" /\ batch = {} /\ starting = Nil

-----------------------------------------------------------------------------
(***************************************************************************)
(* The helpers of the three goroutines                                     *)
(***************************************************************************)

Current    == {targets[a] : a \in Addrs} \ {Nil}
Registered == {reg[a] : a \in Addrs} \ {Nil}

\* Target.Equal: the origin of the target is not compared.
Equal(t, e) == t.addr = e.addr /\ t.spec = e.spec

\* The objects some goroutine, the map or the registry still refers to; every
\* other object is garbage.
Reachable == Current \cup Registered \cup batch \cup {starting}

Fresh(e, pod) ==
  {[addr |-> e.addr, spec |-> e.spec, pod |-> pod, n |-> n] : n \in Incarnations}
    \ Reachable

\* addTarget stores the pointer and looks at nothing else.  The object it
\* overwrites, if nothing else refers to it, is garbage and leaves coll.
addTarget(e, pod) ==
  /\ Fresh(e, pod) # {}
  /\ LET t == CHOOSE f \in Fresh(e, pod) : TRUE IN
     /\ targets' = [targets EXCEPT ![e.addr] = t]
     /\ coll' = coll \ ({targets[e.addr]} \ (Registered \cup {starting}))
  /\ UNCHANGED reg

\* Unregister identifies a collector by its descriptors, that is by the
\* address: it removes whichever target holds the address in the registry.
StopExporter(t) ==
  /\ reg'  = IF t \in coll THEN [reg EXCEPT ![t.addr] = Nil] ELSE reg
  /\ coll' = IF t \in coll THEN coll \ {t, reg[t.addr]} ELSE coll

\* delTarget takes a pointer and uses only its address.
delTarget(a) ==
  /\ StopExporter(targets[a])
  /\ targets' = [targets EXCEPT ![a] = Nil]

-----------------------------------------------------------------------------
(***************************************************************************)
(* discoverFromPods                                                        *)
(***************************************************************************)

\* Mutant: the default branch of the switch forgets delTarget.
PodPut_Overwrites(p) ==
  /\ podPc = "recv"
  /\ Fresh(p, TRUE) # {}
  /\ IF targets[p.addr] # Nil /\ Equal(targets[p.addr], p)
     THEN UNCHANGED podVars
     ELSE podPc' = "add" /\ podTarget' = p
  /\ UNCHANGED <<tableVars, cfgVars, expVars>>

\* An Add or a Change event whose pod yields the target p, up to the switch.
PodPut(p) ==
  /\ podPc = "recv"
  /\ Fresh(p, TRUE) # {}
  /\ LET t == targets[p.addr] IN
     \/ t = Nil /\ podPc' = "add" /\ podTarget' = p
     \/ t # Nil /\ Equal(t, p) /\ UNCHANGED podVars
     \/ t # Nil /\ ~Equal(t, p) /\ podPc' = "del" /\ podTarget' = p
  /\ UNCHANGED <<tableVars, cfgVars, expVars>>

\* Mutant: the new target is forgotten after the old one was removed.
PodReplace_Forgets ==
  /\ podPc = "del"
  /\ delTarget(podTarget.addr)
  /\ podPc' = "recv" /\ podTarget' = Nil
  /\ UNCHANGED <<cfgVars, expVars>>

PodReplace ==
  /\ podPc = "del"
  /\ delTarget(podTarget.addr)
  /\ podPc' = "add"
  /\ UNCHANGED <<podTarget, cfgVars, expVars>>

PodAdd ==
  /\ podPc = "add"
  /\ addTarget(podTarget, TRUE)
  /\ podPc' = "recv" /\ podTarget' = Nil
  /\ UNCHANGED <<cfgVars, expVars>>

\* A Delete event, or a Change to a pod that yields no target: delTarget of
\* the target of the deleted, respectively of the old, pod.
PodDrop(a) ==
  /\ podPc = "recv"
  /\ delTarget(a)
  /\ UNCHANGED <<podVars, cfgVars, expVars>>

-----------------------------------------------------------------------------
(***************************************************************************)
(* discoverFromConfig                                                      *)
(***************************************************************************)

ConfigRecv(c) ==
  /\ cfgPc = "recv"
  /\ \A i \in DOMAIN c : Fresh(c[i], FALSE) # {}
  /\ cfgPc' = "entry" /\ cfgTodo' = c
  /\ UNCHANGED <<cfgActual, cfgStale, tableVars, podVars, expVars>>

\* Mutant: only the entries that are stored count as actual.
ConfigEntry_CountsStored ==
  /\ cfgPc = "entry" /\ cfgTodo # <<>>
  /\ LET e == Head(cfgTodo)
         t == targets[e.addr]
     IN  IF t # Nil /\ (t.pod \/ Equal(t, e))
         THEN cfgTodo' = Tail(cfgTodo) /\ UNCHANGED <<cfgPc, cfgActual>>
         ELSE /\ cfgActual' = cfgActual \cup {e.addr}
              /\ cfgPc' = IF t = Nil THEN "add" ELSE "del"
              /\ UNCHANGED cfgTodo
  /\ UNCHANGED <<cfgStale, tableVars, podVars, expVars>>

ConfigEntry ==
  /\ cfgPc = "entry" /\ cfgTodo # <<>>
  /\ LET e == Head(cfgTodo)
         t == targets[e.addr]
     IN  /\ cfgActual' = cfgActual \cup {e.addr}
         /\ \/ t = Nil /\ cfgPc' = "add" /\ UNCHANGED cfgTodo
            \/ t # Nil /\ (t.pod \/ Equal(t, e)) /\ cfgTodo' = Tail(cfgTodo) /\ UNCHANGED cfgPc
            \/ t # Nil /\ ~(t.pod \/ Equal(t, e)) /\ cfgPc' = "del" /\ UNCHANGED cfgTodo
  /\ UNCHANGED <<cfgStale, tableVars, podVars, expVars>>

ConfigReplace ==
  /\ cfgPc = "del"
  /\ delTarget(Head(cfgTodo).addr)
  /\ cfgPc' = "add"
  /\ UNCHANGED <<cfgTodo, cfgActual, cfgStale, podVars, expVars>>

ConfigAdd ==
  /\ cfgPc = "add"
  /\ addTarget(Head(cfgTodo), FALSE)
  /\ cfgPc' = "entry" /\ cfgTodo' = Tail(cfgTodo)
  /\ UNCHANGED <<cfgActual, cfgStale, podVars, expVars>>

\* maps.Values under the lock.  The loop that follows reads nothing of these
\* targets but immutable fields, so its condition is applied here, and of a
\* target that passes it only the address matters.
ConfigSnapshot ==
  /\ cfgPc = "entry" /\ cfgTodo = <<>>
  /\ cfgStale' = {t.addr : t \in {u \in Current : u.addr \notin cfgActual /\ ~u.pod}}
  /\ cfgPc' = IF cfgStale' = {} THEN "recv" ELSE "sweep"
  /\ cfgActual' = {}
  /\ UNCHANGED <<cfgTodo, tableVars, podVars, expVars>>

ConfigSweep(a) ==
  /\ cfgPc = "sweep" /\ a \in cfgStale
  /\ delTarget(a)
  /\ cfgStale' = cfgStale \ {a}
  /\ cfgPc' = IF cfgStale' = {} THEN "recv" ELSE "sweep"
  /\ UNCHANGED <<cfgTodo, cfgActual, podVars, expVars>>

-----------------------------------------------------------------------------
(***************************************************************************)
(* startExporters and StartExporter                                        *)
(***************************************************************************)

Recheck ==
  /\ expPc = "tick"
  /\ Current \ coll # {}
  /\ batch' = Current \ coll
  /\ expPc' = "secrets"
  /\ UNCHANGED <<starting, tableVars, podVars, cfgVars>>

\* Mutant: forbidden secrets end the round for every target.
FetchSecrets_AllOrNothing(found) ==
  /\ expPc = "secrets"
  /\ batch' = IF \E t \in batch : t.spec \in SecretSpecs \ found THEN {} ELSE batch
  /\ expPc' = IF batch' = {} THEN "tick" ELSE "start"
  /\ UNCHANGED <<starting, tableVars, podVars, cfgVars>>

\* GetSecret answers for the specs in found; for the others it fails or says
\* not found, and ErrForbidden for one secret stops every target that has one.
FetchSecrets(found) ==
  /\ expPc = "secrets"
  /\ batch' = {t \in batch : t.spec \in SecretSpecs => t.spec \in found}
  /\ expPc' = IF batch' = {} THEN "tick" ELSE "start"
  /\ UNCHANGED <<starting, tableVars, podVars, cfgVars>>

\* The collector's constructor returns an error, or the type is unsupported.
StartFails(t) ==
  /\ expPc = "start" /\ t \in batch
  /\ batch' = batch \ {t}
  /\ expPc' = IF batch' = {} THEN "tick" ELSE "start"
  /\ UNCHANGED <<starting, tableVars, podVars, cfgVars>>

\* Mutant: the target is registered before it has its collector.
StartCreates_Late(t) ==
  /\ expPc = "start" /\ t \in batch
  /\ batch' = batch \ {t}
  /\ starting' = t
  /\ expPc' = "register"
  /\ UNCHANGED <<tableVars, podVars, cfgVars>>

StartCreates(t) ==
  /\ expPc = "start" /\ t \in batch
  /\ coll' = coll \cup {t}
  /\ batch' = batch \ {t}
  /\ starting' = t
  /\ expPc' = "register"
  /\ UNCHANGED <<targets, reg, podVars, cfgVars>>

\* Mutant: the failing Register takes away what it collides with.
StartRegisters_Evicts ==
  /\ expPc = "register"
  /\ reg' = [reg EXCEPT ![starting.addr] = IF @ = Nil THEN starting ELSE Nil]
  /\ starting' = Nil
  /\ expPc' = IF batch = {} THEN "tick" ELSE "start"
  /\ UNCHANGED <<coll, batch, targets, podVars, cfgVars>>

\* Register fails when the address is taken; coll stays set all the same.
StartRegisters ==
  /\ expPc = "register"
  /\ reg' = IF reg[starting.addr] = Nil
            THEN [reg EXCEPT ![starting.addr] = starting]
            ELSE reg
  /\ starting' = Nil
  /\ coll' = coll \ ({starting} \ (Current \cup Registered'))
  /\ expPc' = IF batch = {} THEN "tick" ELSE "start"
  /\ UNCHANGED <<batch, targets, podVars, cfgVars>>

-----------------------------------------------------------------------------

PodStep == PodReplace \/ PodAdd

PodEvent ==
  \/ \E p \in PodTargets : PodPut(p)
  \/ \E a \in PodAddrs : PodDrop(a)

ConfigStep ==
  \/ ConfigEntry \/ ConfigReplace \/ ConfigAdd \/ ConfigSnapshot
  \/ \E a \in cfgStale : ConfigSweep(a)

ConfigUpdate == \E c \in Configs : ConfigRecv(c)

ExporterStep ==
  \/ Recheck
  \/ \E found \in SUBSET SecretSpecs : FetchSecrets(found)
  \/ \E t \in batch : StartFails(t) \/ StartCreates(t)
  \/ StartRegisters

Next == PodStep \/ PodEvent \/ ConfigStep \/ ConfigUpdate \/ ExporterStep

Spec == Init /\ [][Next]_vars

\* A goroutine that is not waiting for input runs; the ticker of
\* startExporters and the poll of the configuration fire again and again.
\* Nothing is promised about pod events.
Fairness ==
  /\ WF_vars(PodStep)
  /\ WF_vars(ConfigStep)
  /\ WF_vars(ConfigUpdate)
  /\ WF_vars(ExporterStep)

FairSpec == Spec /\ Fairness

-----------------------------------------------------------------------------
(***************************************************************************)
(* Properties                                                              *)
(***************************************************************************)

\* Types, and which locals each program counter implies.
TypeOK ==
  /\ targets \in [Addrs -> Target \cup {Nil}]
  /\ reg \in [Addrs -> Target \cup {Nil}]
  /\ coll \subseteq Target
  /\ podPc \in {"recv", "del", "add"}
  /\ podTarget \in PodTargets \cup {Nil}
  /\ (podPc = "recv") <=> (podTarget = Nil)
  /\ cfgPc \in {"recv", "entry", "del", "add", "sweep"}
  /\ cfgTodo \in Seq(Entries)
  /\ cfgPc \in {"del", "add"} => cfgTodo # <<>>
  /\ cfgActual \subseteq ConfigAddrs
  /\ cfgStale \subseteq Addrs
  /\ expPc \in {"tick", "secrets", "start", "register"}
  /\ batch \subseteq Target
  /\ starting \in Target \cup {Nil}
  /\ (expPc = "register") <=> (starting # Nil)

\* A target that is both in the table and in the registry has its collector:
\* what /metrics exports for it is never an exporter that was already stopped,
\* although StartExporter sets coll and registers without the lock under which
\* StopExporter undoes both.
CurrentExportWorks ==
  \A a \in Addrs : targets[a] # Nil /\ targets[a] = reg[a] => targets[a] \in coll

\* startExporters never looks again at a target whose coll is set, registered
\* or not.  The only reason for such a target to be missing from the registry
\* is that another target still holds its address there: as long as a started
\* target is in the table, its address is exported by somebody.
DarkOnlyBehindStale ==
  \A a \in Addrs :
    targets[a] # Nil /\ targets[a] \in coll /\ targets[a] # starting => reg[a] # Nil

\* StartExporter runs outside the lock on a batch taken earlier, and still it
\* never runs on a target that has a collector: no collector is overwritten.
NoDoubleStart == batch \cap coll = {}

\* At an address that only one source names, a target whose start is complete
\* never leaves the table, replaced or removed, with its registration behind:
\* addTarget never stores over it, and what delTarget finds there is it.
RemovalUnregisters ==
  [][\A a \in ExclusiveAddrs :
       /\ targets[a] # Nil /\ reg[a] = targets[a] /\ targets'[a] # targets[a]
       => targets'[a] = Nil /\ reg'[a] = Nil]_vars

\* The configuration goroutine leaves the targets of pods alone at the
\* addresses it does not name: neither the table nor the registry changes there
\* although its deletions work on an unlocked copy of the whole table.
PodTargetsKept ==
  [][ConfigStep =>
       \A a \in PodAddrs \ ConfigAddrs :
         targets'[a] = targets[a] /\ reg'[a] = reg[a]]_vars

\* A target that looks like e is in the table and has no collector.
Waiting(e) ==
  LET t == targets[e.addr] IN t # Nil /\ Equal(t, e) /\ t \notin coll

\* startExporters: a target whose credentials need no secret does not wait for
\* the secrets of others; forbidden or missing ones included, it is tried
\* again and again until it has a collector or leaves the table.
PlainTargetsAreTried ==
  \A e \in {f \in PodTargets \cup Entries : f.spec \notin SecretSpecs} :
    Waiting(e) ~> ~Waiting(e) \/ (expPc = "start" /\ targets[e.addr] \in batch)

(***************************************************************************)
(* At the addresses that only one source names the table is the atomic one *)
(* of TargetTable: what was requested is installed, and nothing else.      *)
(***************************************************************************)
SpecAt(a) == IF targets[a] = Nil THEN Nil ELSE targets[a].spec

WantedAt(a) ==
  IF podTarget # Nil /\ podTarget.addr = a THEN podTarget.spec
  ELSE IF cfgPc \in {"del", "add"} /\ Head(cfgTodo).addr = a THEN Head(cfgTodo).spec
  ELSE SpecAt(a)

Table == INSTANCE TargetTable WITH
  Addrs <- ExclusiveAddrs, None <- Nil,
  want  <- [a \in ExclusiveAddrs |-> WantedAt(a)],
  table <- [a \in ExclusiveAddrs |-> SpecAt(a)]

\* Every step of the three goroutines is a step of the atomic table or leaves
\* it alone.
TableRefined == Table!Spec

=============================================================================
