--------------------------- MODULE ProfilesProofs ---------------------------
(***************************************************************************)
(* NeverTwice, NoOrphans and Delivered of Profiles, for any pods,          *)
(* addresses, profile types and faults; ReportedInFull and NeverTooMuch of *)
(* ProfileDiff, for any sites, stacks and profile types.                   *)
(*                                                                         *)
(* A pod that never named two addresses has one target (Places) and so one *)
(* job for each key (OneJob).  What has arrived, what is on its way and    *)
(* what the next difference will be are together no more than the work     *)
(* done (Bounded): Room says so of one value of the cache, and survives    *)
(* work and restarts of the process alike.                                 *)
(*                                                                         *)
(* The second half follows one profile through diff.  Sums are folds over  *)
(* finite sets: what is needed of them is proved first, by induction for   *)
(* a set of numbers or of sets instead of a predicate.                     *)
(***************************************************************************)
EXTENDS Profiles, ProfileDiff, FiniteSetTheorems, NaturalsInduction,
        WellFoundedInduction, TLAPS

JobRecord == [t : Targets, ty : layout.types, pc : {"scrape", "diff", "upload"}, v : Nat]

Types ==
  /\ layout \in Layouts
  /\ up \subseteq Pods
  /\ named \in [Pods -> Addrs \cup {Nil}] /\ view \in [Pods -> Addrs \cup {Nil}]
  /\ counter \in [Pods -> Nat] /\ work \in [Pods -> Nat]
  /\ jobs \subseteq JobRecord
  /\ \A p \in Pods : counter[p] <= work[p]

Places ==
  /\ pending # Nil => targets[pending.addr] = Nil /\ view[pending.pod] = pending.addr
  /\ \A a \in Addrs : targets[a] # Nil /\ targets[a].pod \notin moved
                        => view[targets[a].pod] = a

OneJob == \A i, j \in jobs :
  i.t.pod = j.t.pod /\ i.ty = j.ty /\ i.t.pod \notin moved => i = j

Kept(p) == \E a \in Addrs : targets[a] # Nil /\ targets[a].pod = p

Orphans ==
  /\ \A k \in Keys : prevCache[k] # Nil => k \in raced \/ Kept(k[1])
  /\ \A j \in jobs : j.pc # "upload" /\ j.ty \in Cumulative
                       => <<j.t.pod, j.ty>> \in raced \/ Kept(j.t.pod)

\* With q in the cache, a reported (or on its way), c in the process and w done,
\* the next profile reports no more than is left.
Room(a, q, c, w) == IF c >= q THEN a + c <= w + q ELSE a + c <= w

Difference(q, v) == IF v >= q THEN v - q ELSE v

Fits(k, a, q) == Room(a, q, counter[k[1]], work[k[1]])

Of(j, k) == j.t.pod = k[1] /\ j.ty = k[2]

BoundedAt(k) ==
  /\ prevCache[k] # Nil => Fits(k, arrived[k], prevCache[k])
  /\ \A j \in jobs : Of(j, k) =>
       /\ j.pc = "upload" /\ prevCache[k] # Nil => Fits(k, arrived[k] + j.v, prevCache[k])
       /\ j.pc = "diff" => Fits(k, j.v, j.v)
       /\ j.pc = "diff" /\ prevCache[k] # Nil
            => Fits(k, arrived[k] + Difference(prevCache[k], j.v), j.v)

Bounded == \A k \in Keys : k[1] \notin moved \cup mixed => BoundedAt(k)

Inv == Types /\ TypeOK /\ Places /\ OneJob /\ Orphans /\ Bounded

-----------------------------------------------------------------------------
(* Room. *)

LEMMA RoomForWork ==
  \A a, q, c, w \in Nat : Room(a, q, c, w) => Room(a, q, c + 1, w + 1)
BY DEF Room

LEMMA RoomAfterReset ==
  \A a, q, c, w \in Nat : Room(a, q, c, w) => Room(a, q, 0, w)
BY DEF Room

LEMMA RoomForLess ==
  \A a, b, q, c, w \in Nat : Room(a + b, q, c, w) => Room(a, q, c, w)
BY DEF Room

LEMMA RoomWithin ==
  \A a, q, c, w \in Nat : Room(a, q, c, w) => a <= w
BY DEF Room

\* A profile of now fills an empty cache, or takes the place of the value there.
LEMMA RoomForProfile ==
  \A a, q, c, w \in Nat :
    /\ c <= w => Room(c, c, c, w)
    /\ Room(a, q, c, w) => Room(a + Difference(q, c), c, c, w)
BY DEF Room, Difference

LEMMA DifferenceType == \A q, v \in Nat : Difference(q, v) \in Nat
BY DEF Difference

-----------------------------------------------------------------------------

LEMMA KeyTypes ==
  \A k \in Keys : k[1] \in Pods /\ k[2] \in Cumulative /\ k = <<k[1], k[2]>>
BY DEF Keys

LEMMA TargetTypes ==
  ASSUME Inv, NEW a \in Addrs, targets[a] # Nil
  PROVE  targets[a] \in Targets /\ targets[a].addr = a /\ targets[a].pod \in Pods
BY DEF Inv, TypeOK, Targets

\* Numbers that belong to a key.
LEMMA Numbers ==
  ASSUME Inv, NEW k \in Keys
  PROVE  /\ counter[k[1]] \in Nat /\ work[k[1]] \in Nat /\ counter[k[1]] <= work[k[1]]
         /\ arrived[k] \in Nat
         /\ prevCache[k] # Nil => prevCache[k] \in Nat
BY KeyTypes DEF Inv, Types, TypeOK

LEMMA JobTypes ==
  ASSUME Inv, NEW j \in jobs
  PROVE  j \in JobRecord /\ j.t \in Targets /\ j.t.pod \in Pods /\ j.t.addr \in Addrs
         /\ j.ty \in layout.types /\ j.v \in Nat
<1>1. j \in JobRecord
  BY DEF Inv, Types
<1> QED BY <1>1 DEF JobRecord, Targets

LEMMA InitInv == Init => Inv
<1> SUFFICES ASSUME Init PROVE Inv
  OBVIOUS
<1>1. Types /\ TypeOK
  BY DEF Init, Types, TypeOK
<1>2. Places /\ OneJob
  BY DEF Init, Places, OneJob
<1>3. Orphans /\ Bounded
  BY DEF Init, Orphans, Bounded, BoundedAt
<1> QED BY <1>1, <1>2, <1>3 DEF Inv

-----------------------------------------------------------------------------
(* The cluster: what happens to a process leaves room as it was. *)

LEMMA ClusterKeeps ==
  ASSUME Inv, UNCHANGED <<layout, agent>>, Types',
         \A p \in Pods : \A a, q \in Nat :
           Room(a, q, counter[p], work[p]) => Room(a, q, counter'[p], work'[p])
  PROVE  Inv'
<1> USE DEF agent, history
<1>1. TypeOK' /\ Places' /\ OneJob' /\ Orphans'
  BY DEF Inv, TypeOK, Places, OneJob, Orphans, Kept
<1>2. ASSUME NEW k \in Keys, k[1] \notin moved \cup mixed PROVE BoundedAt(k)'
  <2>1. BoundedAt(k)
    BY <1>2 DEF Inv, Bounded
  <2>2. \A a, q \in Nat : Fits(k, a, q) => Fits(k, a, q)'
    BY KeyTypes DEF Fits
  <2>3. \A j \in jobs : j.v \in Nat
    BY JobTypes
  <2>4. arrived[k] \in Nat /\ (prevCache[k] # Nil => prevCache[k] \in Nat)
    BY Numbers
  <2>5. \A j \in jobs : arrived[k] + j.v \in Nat
                        /\ (prevCache[k] # Nil => arrived[k] + Difference(prevCache[k], j.v) \in Nat)
    <3>1. ASSUME NEW j \in jobs, prevCache[k] # Nil
          PROVE  Difference(prevCache[k], j.v) \in Nat
      BY <2>3, <2>4, <3>1, DifferenceType
    <3> QED BY <2>3, <2>4, <3>1
  <2> QED BY <2>1, <2>2, <2>3, <2>4, <2>5 DEF BoundedAt, Of
<1>3. Bounded'
  BY <1>2 DEF Bounded
<1> QED BY <1>1, <1>3 DEF Inv

LEMMA ClusterInv == ASSUME Inv, Cluster PROVE Inv'
<1> USE DEF agent, history
<1>1. PICK p \in Pods :
        \/ Work(p) \/ ProcessRestarts(p) \/ PodGoes(p)
        \/ \E a \in layout.ports[p] \cup {Nil} : PodComes(p, a) \/ AnnotationsChange(p, a)
  BY DEF Cluster
<1>2. /\ counter \in [Pods -> Nat] /\ work \in [Pods -> Nat] /\ up \subseteq Pods
      /\ named \in [Pods -> Addrs \cup {Nil}]
      /\ \A q \in Pods : counter[q] \in Nat /\ work[q] \in Nat /\ counter[q] <= work[q]
  BY DEF Inv, Types
<1>3. layout.ports[p] \subseteq Addrs
  <2>1. layout.ports \in [Pods -> SUBSET Addrs]
    BY ProfilesAssumption DEF Inv, Types
  <2> QED BY <2>1
<1>4. UNCHANGED <<layout, agent>>
  BY <1>1 DEF Work, ProcessRestarts, PodGoes, PodComes, AnnotationsChange
<1>5. CASE Work(p)
  <2>1. /\ counter' = [counter EXCEPT ![p] = @ + 1] /\ work' = [work EXCEPT ![p] = @ + 1]
        /\ UNCHANGED <<up, named, view, jobs, layout>>
    BY <1>5 DEF Work
  <2>2. Types'
    BY <1>2, <2>1 DEF Inv, Types, JobRecord
  <2>3. \A q \in Pods : /\ counter'[q] = IF q = p THEN counter[q] + 1 ELSE counter[q]
                        /\ work'[q] = IF q = p THEN work[q] + 1 ELSE work[q]
    BY <1>2, <2>1
  <2> QED BY <1>2, <1>4, <2>2, <2>3, RoomForWork, ClusterKeeps
<1>6. CASE ProcessRestarts(p) \/ PodGoes(p)
  <2>1. /\ counter' = [counter EXCEPT ![p] = 0] /\ UNCHANGED <<work, view, jobs, layout>>
        /\ up' \subseteq Pods /\ named' \in [Pods -> Addrs \cup {Nil}]
    BY <1>2, <1>6 DEF ProcessRestarts, PodGoes
  <2>2. Types'
    BY <1>2, <2>1 DEF Inv, Types, JobRecord
  <2>3. \A q \in Pods : counter'[q] = IF q = p THEN 0 ELSE counter[q]
    BY <1>2, <2>1
  <2> QED BY <1>2, <1>4, <2>1, <2>2, <2>3, RoomAfterReset, ClusterKeeps
<1>7. ASSUME NEW a \in layout.ports[p] \cup {Nil}, PodComes(p, a) \/ AnnotationsChange(p, a)
      PROVE  Inv'
  <2>1. /\ UNCHANGED <<counter, work, view, jobs, layout>>
        /\ up' \subseteq Pods /\ named' = [named EXCEPT ![p] = a]
    BY <1>2, <1>7 DEF PodComes, AnnotationsChange
  <2>2. named' \in [Pods -> Addrs \cup {Nil}]
    BY <1>2, <1>3, <2>1
  <2>3. Types'
    BY <1>2, <2>1, <2>2 DEF Inv, Types, JobRecord
  <2> QED BY <1>4, <2>1, <2>3, ClusterKeeps
<1> QED BY <1>1, <1>5, <1>6, <1>7

-----------------------------------------------------------------------------
(* Discovery: the cache only loses values, pods only begin to move. *)

LEMMA DiscoverKeeps ==
  ASSUME Inv, UNCHANGED <<cluster, jobs, arrived, mixed>>, moved \subseteq moved',
         \A k \in Keys : prevCache'[k] \in {prevCache[k], Nil}
  PROVE  OneJob' /\ Bounded'
<1> USE DEF cluster
<1>1. OneJob'
  BY DEF Inv, OneJob
<1>2. ASSUME NEW k \in Keys, k[1] \notin moved' \cup mixed PROVE BoundedAt(k)'
  <2>1. BoundedAt(k)
    BY <1>2 DEF Inv, Bounded
  <2>2. prevCache'[k] # Nil => prevCache'[k] = prevCache[k]
    OBVIOUS
  <2> QED BY <2>1, <2>2 DEF BoundedAt, Fits, Of
<1>3. Bounded'
  BY <1>2 DEF Bounded
<1> QED BY <1>1, <1>3

\* delTarget empties the cache for what it removes, and no scrape of it is left
\* that is not known to be one.
LEMMA DelTargetKeeps ==
  ASSUME Inv, NEW a \in Addrs, DelTarget(a), UNCHANGED jobs
  PROVE  /\ targets' = [targets EXCEPT ![a] = Nil]
         /\ prevCache' \in [Keys -> Nat \cup {Nil}]
         /\ raced' \subseteq Keys
         /\ \A k \in Keys : prevCache'[k] \in {prevCache[k], Nil}
         /\ Orphans'
<1> DEFINE keys == {k \in Keys : targets[a] # Nil /\ k[1] = targets[a].pod}
<1>1. /\ targets' = [targets EXCEPT ![a] = Nil]
      /\ prevCache' = [k \in Keys |-> IF k \in keys THEN Nil ELSE prevCache[k]]
      /\ raced' = raced \cup
           {k \in keys : \E j \in jobs : Key(j.t, j.ty) = k /\ j.pc # "upload"}
  BY DEF DelTarget
<1>2. targets \in [Addrs -> Targets \cup {Nil}] /\ prevCache \in [Keys -> Nat \cup {Nil}]
      /\ raced \subseteq Keys
  BY DEF Inv, TypeOK
<1>3. \A p \in Pods : Kept(p) => Kept(p)' \/ (targets[a] # Nil /\ p = targets[a].pod)
  BY <1>1, <1>2 DEF Kept
<1>4. ASSUME NEW k \in Keys, prevCache'[k] # Nil PROVE k \in raced' \/ Kept(k[1])'
  <2>1. k \notin keys /\ prevCache[k] # Nil
    BY <1>1, <1>4
  <2>2. k \in raced \/ Kept(k[1])
    BY <2>1 DEF Inv, Orphans
  <2> QED BY <1>1, <1>3, <2>1, <2>2, KeyTypes
<1>5. ASSUME NEW j \in jobs, j.pc # "upload", j.ty \in Cumulative
      PROVE  <<j.t.pod, j.ty>> \in raced' \/ Kept(j.t.pod)'
  <2>1. j.t.pod \in Pods
    BY JobTypes
  <2>2. <<j.t.pod, j.ty>> \in raced \/ Kept(j.t.pod)
    BY <1>5 DEF Inv, Orphans
  <2>3. CASE targets[a] # Nil /\ j.t.pod = targets[a].pod
    <3>1. <<j.t.pod, j.ty>> \in keys
      BY <1>5, <2>1, <2>3 DEF Keys
    <3> QED BY <1>1, <1>5, <3>1 DEF Key
  <2> QED BY <1>1, <1>3, <2>1, <2>2, <2>3
<1>6. Orphans'
  BY <1>4, <1>5 DEF Orphans
<1> QED BY <1>1, <1>2, <1>6

\* A target at an address where there is none.
LEMMA AddTargetKeeps ==
  ASSUME Inv, NEW t \in Targets, AddTarget(t), targets[t.addr] = Nil,
         UNCHANGED <<jobs, prevCache, raced>>
  PROVE  Orphans'
<1>1. targets' = [targets EXCEPT ![t.addr] = t] /\ targets \in [Addrs -> Targets \cup {Nil}]
  BY DEF AddTarget, Inv, TypeOK
<1>2. \A p \in Pods : Kept(p) => Kept(p)'
  BY <1>1 DEF Kept
<1> QED BY <1>2, JobTypes, KeyTypes DEF Inv, Orphans

LEMMA PodDropInv == ASSUME Inv, NEW p \in Pods, PodDrop(p) PROVE Inv'
<1> USE DEF discoverOthers, cluster, history
<1>1. /\ pending = Nil /\ view[p] # Nil /\ view' = [view EXCEPT ![p] = Nil]
      /\ DelTarget(view[p])
      /\ UNCHANGED <<layout, up, named, counter, work, jobs, arrived, lossy, mixed, pending, moved>>
  BY DEF PodDrop
<1>2. view \in [Pods -> Addrs \cup {Nil}] /\ view[p] \in Addrs
  BY <1>1 DEF Inv, Types
<1>3. /\ targets' = [targets EXCEPT ![view[p]] = Nil]
      /\ prevCache' \in [Keys -> Nat \cup {Nil}] /\ raced' \subseteq Keys
      /\ \A k \in Keys : prevCache'[k] \in {prevCache[k], Nil}
      /\ Orphans'
  BY <1>1, <1>2, DelTargetKeeps
<1>4. targets \in [Addrs -> Targets \cup {Nil}]
  BY DEF Inv, TypeOK
<1>5. Types'
  BY <1>1, <1>2 DEF Inv, Types, JobRecord
<1>6. TypeOK'
  BY <1>1, <1>3, <1>4 DEF Inv, TypeOK
<1>7. Places'
  <2>1. ASSUME NEW a \in Addrs, targets'[a] # Nil, targets'[a].pod \notin moved
        PROVE  view'[targets'[a].pod] = a
    <3>1. a # view[p] /\ targets'[a] = targets[a]
      BY <1>2, <1>3, <1>4, <2>1
    <3>2. view[targets[a].pod] = a /\ targets[a].pod \in Pods
      BY <2>1, <3>1, TargetTypes DEF Inv, Places
    <3>3. targets[a].pod # p
      BY <3>1, <3>2
    <3> QED BY <1>1, <1>2, <3>1, <3>2, <3>3
  <2> QED BY <1>1, <2>1 DEF Places
<1>8. OneJob' /\ Bounded'
  BY <1>1, <1>3, DiscoverKeeps
<1> QED BY <1>3, <1>5, <1>6, <1>7, <1>8 DEF Inv

LEMMA PodPutInv == ASSUME Inv, NEW p \in Pods, PodPut(p) PROVE Inv'
<1> USE DEF discoverOthers, cluster, history
<1> DEFINE a == named[p]
           t == Target(p, a)
<1>1. /\ pending = Nil /\ a \notin {view[p], Nil} /\ view' = [view EXCEPT ![p] = a]
      /\ moved' = (IF view[p] = Nil THEN moved ELSE moved \cup {p})
      /\ UNCHANGED <<layout, up, named, counter, work, jobs, arrived, lossy, mixed>>
  BY DEF PodPut
<1>2. view \in [Pods -> Addrs \cup {Nil}] /\ a \in Addrs
      /\ targets \in [Addrs -> Targets \cup {Nil}]
  BY <1>1 DEF Inv, Types, TypeOK
<1>3. t \in Targets /\ t # Nil /\ t.addr = a /\ t.pod = p
  BY <1>2, ProfilesAssumption DEF Target, Targets
<1>4. Types'
  BY <1>1, <1>2 DEF Inv, Types, JobRecord
\* What is still there is where its pod is, or p, which has moved.
<1>5. ASSUME NEW b \in Addrs, targets[b] # Nil, targets[b].pod \notin moved'
      PROVE  view'[targets[b].pod] = b \/ targets[b] = t
  <2>1. view[targets[b].pod] = b /\ targets[b].pod \in Pods
    BY <1>1, <1>5, TargetTypes DEF Inv, Places
  <2>2. targets[b].pod # p
    <3>1. b # Nil
      BY ProfilesAssumption
    <3> QED BY <1>1, <1>5, <2>1, <3>1
  <2> QED BY <1>1, <1>2, <2>1, <2>2
<1>6. view'[p] = a
  BY <1>1, <1>2
<1>7. moved \subseteq moved'
  BY <1>1
<1>8. CASE targets[a] = Nil /\ AddTarget(t) /\ UNCHANGED <<pending, prevCache, raced>>
  <2>1. targets' = [targets EXCEPT ![a] = t]
    BY <1>3, <1>8 DEF AddTarget
  <2>2. TypeOK'
    BY <1>1, <1>2, <1>3, <1>8, <2>1 DEF Inv, TypeOK
  <2>3. ASSUME NEW b \in Addrs, targets'[b] # Nil, targets'[b].pod \notin moved'
        PROVE  view'[targets'[b].pod] = b
    <3>1. CASE b = a
      BY <1>2, <1>3, <1>6, <2>1, <3>1
    <3>2. CASE b # a
      <4>1. targets'[b] = targets[b] /\ targets[b] # t
        BY <1>2, <1>3, <2>1, <2>3, <3>2, TargetTypes
      <4> QED BY <1>5, <2>3, <4>1
    <3> QED BY <3>1, <3>2
  <2>4. Places'
    BY <1>1, <1>8, <2>3 DEF Places
  <2>5. Orphans'
    BY <1>1, <1>3, <1>8, AddTargetKeeps
  <2>6. OneJob' /\ Bounded'
    BY <1>1, <1>7, <1>8, DiscoverKeeps
  <2> QED BY <1>4, <2>2, <2>4, <2>5, <2>6 DEF Inv
<1>9. CASE targets[a] = t /\ UNCHANGED <<pending, targets, prevCache, raced>>
  <2>1. TypeOK'
    BY <1>1, <1>9 DEF Inv, TypeOK
  <2>2. Places'
    <3>1. ASSUME NEW b \in Addrs, targets[b] = t PROVE b = a
      BY <1>3, <3>1, TargetTypes
    <3> QED BY <1>1, <1>3, <1>5, <1>6, <1>9, <3>1 DEF Places
  <2>3. Orphans'
    BY <1>1, <1>9 DEF Inv, Orphans, Kept
  <2>4. OneJob' /\ Bounded'
    BY <1>1, <1>7, <1>9, DiscoverKeeps
  <2> QED BY <1>4, <2>1, <2>2, <2>3, <2>4 DEF Inv
<1>10. CASE targets[a] \notin {t, Nil} /\ DelTarget(t.addr) /\ pending' = t
  <2>1. /\ targets' = [targets EXCEPT ![a] = Nil]
        /\ prevCache' \in [Keys -> Nat \cup {Nil}] /\ raced' \subseteq Keys
        /\ \A k \in Keys : prevCache'[k] \in {prevCache[k], Nil}
        /\ Orphans'
    BY <1>1, <1>2, <1>3, <1>10, DelTargetKeeps
  <2>2. TypeOK'
    BY <1>1, <1>2, <1>3, <1>10, <2>1 DEF Inv, TypeOK
  <2>3. \A b \in Addrs : targets[b] = t => b = a
    BY <1>3, TargetTypes
  <2>4. Places'
    BY <1>2, <1>3, <1>5, <1>6, <1>10, <2>1, <2>3 DEF Places
  <2>5. OneJob' /\ Bounded'
    BY <1>1, <1>7, <2>1, DiscoverKeeps
  <2> QED BY <1>4, <2>1, <2>2, <2>4, <2>5 DEF Inv
<1> QED BY <1>8, <1>9, <1>10 DEF PodPut

LEMMA PodReplaceInv == ASSUME Inv, PodReplace PROVE Inv'
<1> USE DEF discoverOthers, cluster, history
<1>1. /\ pending # Nil /\ targets' = [targets EXCEPT ![pending.addr] = pending] /\ pending' = Nil
      /\ UNCHANGED <<layout, up, named, counter, work, jobs, arrived, lossy, mixed, view,
                     prevCache, raced, moved>>
  BY DEF PodReplace, AddTarget
<1>2. /\ pending \in Targets /\ pending.addr \in Addrs
      /\ targets[pending.addr] = Nil /\ view[pending.pod] = pending.addr
      /\ targets \in [Addrs -> Targets \cup {Nil}]
  BY <1>1 DEF Inv, TypeOK, Places, Targets
<1>3. Types' /\ TypeOK'
  BY <1>1, <1>2 DEF Inv, Types, TypeOK, JobRecord
<1>4. Places'
  BY <1>1, <1>2 DEF Inv, Places
<1>5. Orphans'
  BY <1>1, <1>2, AddTargetKeeps DEF AddTarget
<1>6. OneJob' /\ Bounded'
  BY <1>1, DiscoverKeeps
<1> QED BY <1>3, <1>4, <1>5, <1>6 DEF Inv

-----------------------------------------------------------------------------
(* Scraping: the jobs of a round. *)

LEMMA RoundInv == ASSUME Inv, Round PROVE Inv'
<1> USE DEF notScraping, scrapeOthers, cluster, history
<1>1. /\ jobs = {}
      /\ jobs' = {[t |-> t, ty |-> ty, pc |-> "scrape", v |-> 0] :
                  t \in Stored, ty \in layout.types}
      /\ UNCHANGED <<layout, up, named, counter, work, view, pending, targets, raced, moved,
                     mixed, prevCache, arrived, lossy>>
  BY DEF Round
<1>2. \A j \in jobs' : /\ j \in JobRecord /\ j.t \in Stored /\ j.ty \in layout.types
                       /\ j.pc = "scrape" /\ j.v = 0
  BY <1>1 DEF JobRecord, Stored
<1>3. \A t \in Stored : t \in Targets /\ t.addr \in Addrs /\ targets[t.addr] = t
                        /\ targets[t.addr] # Nil
  BY ProfilesAssumption DEF Stored, Targets
<1>4. Types'
  BY <1>1, <1>2 DEF Inv, Types, JobRecord
<1>5. TypeOK'
  <2>1. \A j \in jobs' : /\ j.t \in Targets /\ j.ty \in layout.types /\ j.v \in Nat
                         /\ j.pc \in {"scrape", "diff", "upload"}
    BY <1>2, <1>3
  <2> QED BY <1>1, <2>1 DEF Inv, TypeOK
<1>6. Places'
  BY <1>1 DEF Inv, Places
<1>7. OneJob'
  <2>1. \A s, t \in Stored : s.pod = t.pod /\ s.pod \notin moved => s = t
    <3>1. ASSUME NEW s \in Stored, NEW t \in Stored, s.pod = t.pod, s.pod \notin moved
          PROVE  s = t
      <4>1. view[s.pod] = s.addr /\ view[t.pod] = t.addr
        BY <1>3, <3>1 DEF Inv, Places
      <4> QED BY <1>3, <3>1, <4>1
    <3> QED BY <3>1
  <2>2. ASSUME NEW i \in jobs', NEW j \in jobs', i.t = j.t, i.ty = j.ty PROVE i = j
    BY <1>1, <2>2
  <2> QED BY <1>1, <1>2, <2>1, <2>2 DEF OneJob
<1>8. Orphans'
  BY <1>1, <1>2, <1>3 DEF Inv, Orphans, Kept
<1>9. Bounded'
  <2>1. ASSUME NEW k \in Keys, k[1] \notin moved \cup mixed PROVE BoundedAt(k)'
    BY <1>1, <1>2, <2>1 DEF Inv, Bounded, BoundedAt, Fits
  <2> QED BY <1>1, <2>1 DEF Bounded
<1> QED BY <1>4, <1>5, <1>6, <1>7, <1>8, <1>9 DEF Inv

\* A job that ends.
LEMMA EndsKeeps ==
  ASSUME Inv, NEW j \in jobs, Ends(j), UNCHANGED <<notScraping, prevCache>>,
         arrived' \in [Keys -> Nat], lossy' \subseteq Keys,
         \A k \in Keys : \/ arrived'[k] = arrived[k]
                         \/ Of(j, k) /\ j.pc = "upload" /\ arrived'[k] = arrived[k] + j.v
  PROVE  Inv'
<1> USE DEF notScraping, scrapeOthers, cluster
<1>1. jobs' = jobs \ {j}
  BY DEF Ends
<1>2. Types' /\ TypeOK' /\ Places' /\ OneJob'
  BY <1>1 DEF Inv, Types, TypeOK, Places, OneJob, JobRecord
<1>3. Orphans'
  BY <1>1 DEF Inv, Orphans, Kept
<1>4. ASSUME NEW k \in Keys, k[1] \notin moved \cup mixed PROVE BoundedAt(k)'
  <2>1. BoundedAt(k)
    BY <1>4 DEF Inv, Bounded
  <2>2. CASE arrived'[k] = arrived[k]
    BY <1>1, <2>1, <2>2 DEF BoundedAt, Fits, Of
  <2>3. CASE Of(j, k) /\ j.pc = "upload" /\ arrived'[k] = arrived[k] + j.v
    <3>1. \A i \in jobs' : ~Of(i, k)
      BY <1>1, <1>4, <2>3 DEF Inv, OneJob, Of
    <3>2. prevCache[k] # Nil => Fits(k, arrived[k] + j.v, prevCache[k])
      BY <2>1, <2>3 DEF BoundedAt
    <3> QED BY <2>3, <3>1, <3>2 DEF BoundedAt, Fits, Of
  <2> QED BY <2>2, <2>3
<1>5. Bounded'
  BY <1>4 DEF Bounded
<1> QED BY <1>2, <1>3, <1>5 DEF Inv

\* A job that goes on, and is the only one of its pod and type.
LEMMA GoesKeeps ==
  ASSUME Inv, NEW j \in jobs, NEW pc \in {"diff", "upload"}, NEW v \in Nat, Goes(j, pc, v),
         j.pc # "upload", UNCHANGED scrapeOthers, mixed \subseteq mixed',
         prevCache' \in [Keys -> Nat \cup {Nil}], arrived' \in [Keys -> Nat], lossy' \subseteq Keys,
         \A k \in Keys : ~Of(j, k) => prevCache'[k] = prevCache[k] /\ arrived'[k] = arrived[k],
         \A k \in Keys : Of(j, k) /\ k[1] \notin moved \cup mixed' =>
           /\ prevCache'[k] # Nil => Fits(k, arrived'[k], prevCache'[k])
           /\ pc = "upload" /\ prevCache'[k] # Nil => Fits(k, arrived'[k] + v, prevCache'[k])
           /\ pc = "diff" => Fits(k, v, v)
           /\ pc = "diff" /\ prevCache'[k] # Nil
                => Fits(k, arrived'[k] + Difference(prevCache'[k], v), v)
  PROVE  Inv'
<1> USE DEF scrapeOthers, cluster
<1> DEFINE n == [j EXCEPT !.pc = pc, !.v = v]
<1>1. jobs' = (jobs \ {j}) \cup {n}
  BY DEF Goes
<1>2. /\ n \in JobRecord /\ n.t = j.t /\ n.ty = j.ty /\ n.pc = pc /\ n.v = v
      /\ j.t \in Targets /\ j.ty \in layout.types
  BY JobTypes DEF JobRecord
<1>3. Types'
  BY <1>1, <1>2 DEF Inv, Types, JobRecord
<1>4. TypeOK'
  <2>1. \A i \in jobs' : /\ i.t \in Targets /\ i.ty \in layout.types /\ i.v \in Nat
                         /\ i.pc \in {"scrape", "diff", "upload"}
    BY <1>1, <1>2, JobTypes DEF JobRecord
  <2> QED BY <2>1 DEF Inv, TypeOK
<1>5. Places'
  BY DEF Inv, Places
<1>6. \A i \in jobs \ {j} : i.t.pod = j.t.pod /\ i.ty = j.ty => i.t.pod \in moved
  BY DEF Inv, OneJob
<1>7. OneJob'
  <2>1. ASSUME NEW i \in jobs', NEW m \in jobs', i.t.pod = m.t.pod, i.ty = m.ty,
               i.t.pod \notin moved
        PROVE  i = m
    <3>1. CASE i = n
      <4>1. m \notin jobs \ {j}
        BY <1>2, <1>6, <2>1, <3>1
      <4> QED BY <1>1, <3>1, <4>1
    <3>2. CASE m = n
      <4>1. i \notin jobs \ {j}
        BY <1>2, <1>6, <2>1, <3>2
      <4> QED BY <1>1, <3>2, <4>1
    <3>3. CASE i # n /\ m # n
      <4>1. i \in jobs /\ m \in jobs
        BY <1>1, <3>3
      <4> HIDE DEF n
      <4> QED BY <2>1, <4>1 DEF Inv, OneJob
    <3> QED BY <3>1, <3>2, <3>3
  <2> QED BY <2>1 DEF OneJob
<1>8. Orphans'
  <2>1. \A p \in Pods : Kept(p)' = Kept(p)
    BY DEF Kept
  <2>2. j.ty \in Cumulative => <<j.t.pod, j.ty>> \in raced \/ Kept(j.t.pod)
    BY DEF Inv, Orphans
  <2>3. ASSUME NEW k \in Keys, prevCache'[k] # Nil PROVE k \in raced \/ Kept(k[1])
    <3>1. CASE Of(j, k)
      BY <2>2, <3>1, KeyTypes DEF Of
    <3>2. CASE ~Of(j, k)
      BY <2>3, <3>2 DEF Inv, Orphans
    <3> QED BY <3>1, <3>2
  <2>4. ASSUME NEW i \in jobs', i.pc # "upload", i.ty \in Cumulative
        PROVE  <<i.t.pod, i.ty>> \in raced \/ Kept(i.t.pod)
    BY <1>1, <1>2, <2>2, <2>4 DEF Inv, Orphans
  <2> QED BY <2>3, <2>4 DEF Orphans, Kept
<1>9. ASSUME NEW k \in Keys, k[1] \notin moved \cup mixed' PROVE BoundedAt(k)'
  <2>1. BoundedAt(k)
    BY <1>9 DEF Inv, Bounded
  <2>2. CASE ~Of(j, k)
    <3>1. prevCache'[k] = prevCache[k] /\ arrived'[k] = arrived[k]
      BY <2>2
    <3>2. \A i \in jobs' : Of(i, k) => i \in jobs
      BY <1>1, <1>2, <2>2 DEF Of
    <3> QED BY <2>1, <3>1, <3>2 DEF BoundedAt, Fits, Of
  <2>3. CASE Of(j, k)
    <3>1. \A i \in jobs' : Of(i, k) => i.pc = pc /\ i.v = v
      BY <1>1, <1>2, <1>6, <1>9, <2>3 DEF Of
    <3> QED BY <1>9, <2>3, <3>1 DEF BoundedAt, Fits, Of
  <2> QED BY <2>2, <2>3
<1>10. Bounded'
  BY <1>9 DEF Bounded
<1> QED BY <1>3, <1>4, <1>5, <1>7, <1>8, <1>10 DEF Inv

LEMMA ScrapeInv == ASSUME Inv, NEW j \in jobs, NEW p \in Pods, Scrape(j, p) PROVE Inv'
<1> USE DEF scrapeOthers, notScraping, cluster, history
<1>1. /\ j.pc = "scrape" /\ UNCHANGED <<scrapeOthers, prevCache, arrived, lossy>>
      /\ mixed' = (IF p = j.t.pod THEN mixed ELSE mixed \cup {j.t.pod})
      /\ IF counter[p] = 0 THEN Ends(j) ELSE Goes(j, "diff", counter[p])
  BY DEF Scrape
<1>2. /\ prevCache \in [Keys -> Nat \cup {Nil}] /\ arrived \in [Keys -> Nat] /\ lossy \subseteq Keys
      /\ counter[p] \in Nat
  BY DEF Inv, Types, TypeOK
<1>3. CASE counter[p] = 0
  <2>1. Ends(j)
    BY <1>1, <1>3
  <2>2. jobs' \subseteq jobs
    BY <2>1 DEF Ends
  <2>3. Types' /\ TypeOK' /\ Places' /\ OneJob'
    BY <1>1, <2>2 DEF Inv, Types, TypeOK, Places, OneJob, JobRecord
  <2>4. Orphans'
    BY <1>1, <2>2 DEF Inv, Orphans, Kept
  <2>5. mixed \subseteq mixed'
    BY <1>1
  <2>6. ASSUME NEW k \in Keys, k[1] \notin moved \cup mixed' PROVE BoundedAt(k)'
    <3>1. BoundedAt(k)
      BY <2>5, <2>6 DEF Inv, Bounded
    <3> QED BY <1>1, <2>2, <3>1 DEF BoundedAt, Fits, Of
  <2>7. Bounded'
    BY <1>1, <2>6 DEF Bounded
  <2> QED BY <2>3, <2>4, <2>7 DEF Inv
<1>4. CASE counter[p] # 0
  <2>1. Goes(j, "diff", counter[p])
    BY <1>1, <1>4
  <2>2. ASSUME NEW k \in Keys, Of(j, k), k[1] \notin moved \cup mixed'
        PROVE  /\ prevCache[k] # Nil => Fits(k, arrived[k], prevCache[k])
               /\ Fits(k, counter[p], counter[p])
               /\ prevCache[k] # Nil
                    => Fits(k, arrived[k] + Difference(prevCache[k], counter[p]), counter[p])
    <3>1. p = k[1] /\ k[1] \notin mixed
      BY <1>1, <2>2 DEF Of
    <3>2. BoundedAt(k)
      BY <2>2, <3>1 DEF Inv, Bounded
    <3> QED BY <3>1, <3>2, Numbers, RoomForProfile DEF BoundedAt, Fits
  <2>3. mixed \subseteq mixed'
    BY <1>1
  <2> QED BY <1>1, <1>2, <2>1, <2>2, <2>3, GoesKeeps
<1> QED BY <1>3, <1>4

LEMMA DiffInv == ASSUME Inv, NEW j \in jobs, Diff(j) PROVE Inv'
<1> USE DEF scrapeOthers, notScraping, cluster, history
<1> DEFINE k == Key(j.t, j.ty)
<1>1. j.pc = "diff" /\ UNCHANGED <<scrapeOthers, mixed>>
  BY DEF Diff
<1>2. /\ prevCache \in [Keys -> Nat \cup {Nil}] /\ arrived \in [Keys -> Nat] /\ lossy \subseteq Keys
      /\ j.v \in Nat
  BY JobTypes DEF Inv, TypeOK
<1>3. CASE j.ty \notin Cumulative
  <2>1. Goes(j, "upload", j.v) /\ UNCHANGED <<prevCache, arrived, lossy>>
    BY <1>3 DEF Diff
  <2>2. \A l \in Keys : ~Of(j, l)
    BY <1>3, KeyTypes DEF Of
  <2> QED BY <1>1, <1>2, <2>1, <2>2, GoesKeeps
<1>4. CASE j.ty \in Cumulative
  <2> DEFINE prev == prevCache[k]
             d == IF prev # Nil /\ j.v >= prev THEN j.v - prev ELSE j.v
  <2>1. /\ prevCache' = [prevCache EXCEPT ![k] = j.v]
        /\ Goes(j, "upload", d)
        /\ IF prev # Nil THEN UNCHANGED <<arrived, lossy>>
           ELSE arrived' = [arrived EXCEPT ![k] = 0] /\ lossy' = lossy \ {k}
    BY <1>4 DEF Diff
  <2>2. k \in Keys /\ Of(j, k) /\ \A l \in Keys : Of(j, l) => l = k
    BY <1>4, JobTypes, KeyTypes DEF Key, Keys, Of
  <2>3. prev # Nil => prev \in Nat /\ d = Difference(prev, j.v)
    BY <1>2, <2>2 DEF Difference
  <2>4. d \in Nat
    BY <1>2, <2>3, DifferenceType
  <2>5. /\ prevCache' \in [Keys -> Nat \cup {Nil}] /\ prevCache'[k] = j.v
        /\ arrived' \in [Keys -> Nat] /\ lossy' \subseteq Keys
        /\ arrived'[k] = IF prev # Nil THEN arrived[k] ELSE 0
        /\ \A l \in Keys : ~Of(j, l) => prevCache'[l] = prevCache[l] /\ arrived'[l] = arrived[l]
    BY <1>2, <2>1, <2>2
  <2>6. ASSUME k[1] \notin moved \cup mixed
        PROVE  Fits(k, arrived'[k] + d, j.v) /\ Fits(k, arrived'[k], j.v)
    <3>1. BoundedAt(k)
      BY <2>2, <2>6 DEF Inv, Bounded
    <3>2. Fits(k, j.v, j.v) /\ (prev # Nil => Fits(k, arrived[k] + Difference(prev, j.v), j.v))
      BY <1>1, <2>2, <3>1 DEF BoundedAt
    <3>3. Fits(k, arrived'[k] + d, j.v)
      <4>1. CASE prev # Nil
        BY <2>3, <2>5, <3>2, <4>1
      <4>2. CASE prev = Nil
        BY <1>2, <2>5, <3>2, <4>2
      <4> QED BY <4>1, <4>2
    <3>4. arrived'[k] \in Nat /\ counter[k[1]] \in Nat /\ work[k[1]] \in Nat
      BY <2>2, <2>5, Numbers
    <3> QED BY <1>2, <2>4, <3>3, <3>4, RoomForLess DEF Fits
  <2> HIDE DEF d, k
  <2> QED BY <1>1, <1>2, <2>1, <2>2, <2>4, <2>5, <2>6, GoesKeeps
<1> QED BY <1>3, <1>4

LEMMA UploadInv == ASSUME Inv, NEW j \in jobs, Upload(j) \/ UploadFails(j) PROVE Inv'
<1> USE DEF history
<1>1. /\ j.pc = "upload" /\ Ends(j) /\ (Arrives(j) \/ UNCHANGED arrived)
      /\ UNCHANGED <<notScraping, prevCache>>
      /\ lossy' \in {lossy, lossy \cup {Key(j.t, j.ty)}}
      /\ j.ty \notin Cumulative => UNCHANGED lossy
  BY DEF Upload, UploadFails
<1>2. arrived \in [Keys -> Nat] /\ lossy \subseteq Keys /\ j.v \in Nat
  BY JobTypes DEF Inv, TypeOK
<1>3. j.ty \in Cumulative => Key(j.t, j.ty) \in Keys /\ Of(j, Key(j.t, j.ty))
  BY JobTypes DEF Key, Keys, Of
<1>4. lossy' \subseteq Keys
  BY <1>1, <1>2, <1>3
<1>5. arrived' \in [Keys -> Nat]
      /\ \A k \in Keys : \/ arrived'[k] = arrived[k]
                         \/ Of(j, k) /\ j.pc = "upload" /\ arrived'[k] = arrived[k] + j.v
  <2>1. CASE UNCHANGED arrived
    BY <1>2, <2>1
  <2>2. CASE Arrives(j) /\ j.ty \in Cumulative
    <3>1. arrived' = [arrived EXCEPT ![Key(j.t, j.ty)] = @ + j.v]
      BY <2>2 DEF Arrives
    <3> QED BY <1>1, <1>2, <1>3, <2>2, <3>1
  <2>3. CASE Arrives(j) /\ j.ty \notin Cumulative
    BY <1>2, <2>3 DEF Arrives
  <2> QED BY <1>1, <2>1, <2>2, <2>3
<1> QED BY <1>1, <1>4, <1>5, EndsKeeps

LEMMA ScrapeFailsInv == ASSUME Inv, NEW j \in jobs, ScrapeFails(j) PROVE Inv'
<1>1. Ends(j) /\ UNCHANGED <<notScraping, prevCache, arrived, lossy>>
  BY DEF ScrapeFails, history
<1>2. arrived \in [Keys -> Nat] /\ lossy \subseteq Keys
  BY DEF Inv, TypeOK
<1> QED BY <1>1, <1>2, EndsKeeps

-----------------------------------------------------------------------------

LEMMA NextInv == Inv /\ [Next]_vars => Inv'
<1> SUFFICES ASSUME Inv, [Next]_vars PROVE Inv'
  OBVIOUS
<1>1. CASE Cluster
  BY <1>1, ClusterInv
<1>2. CASE Discover
  BY <1>2, PodReplaceInv, PodDropInv, PodPutInv DEF Discover
<1>3. CASE Round
  BY <1>3, RoundInv
<1>4. CASE Job
  BY <1>4, ScrapeFailsInv, DiffInv, UploadInv, ScrapeInv DEF Job
<1>5. CASE UNCHANGED vars
  <2> USE <1>5 DEF vars, cluster, history
  <2>1. Types' /\ TypeOK' /\ Places' /\ OneJob'
    BY DEF Inv, Types, TypeOK, Places, OneJob, JobRecord
  <2>2. Orphans'
    BY DEF Inv, Orphans, Kept
  <2>3. Bounded'
    BY DEF Inv, Bounded, BoundedAt, Fits, Of
  <2> QED BY <2>1, <2>2, <2>3 DEF Inv
<1> QED BY <1>1, <1>2, <1>3, <1>4, <1>5 DEF Next

LEMMA AlwaysInv == Spec => []Inv
BY InitInv, NextInv, PTL DEF Spec

\* Types: a job belongs to a target, and no difference is negative, whatever
\* pods, processes and requests do (diff, profiles.go).
THEOREM TypeCorrect == Spec => []TypeOK
<1>1. Inv => TypeOK
  BY DEF Inv
<1> QED BY <1>1, AlwaysInv, PTL

\* For a pod that keeps one address, and to itself, nothing is reported twice:
\* over restarts of its process, failed requests, and events that remove its
\* target, and with it its part of the cache, during a scrape.
THEOREM NothingTwice == Spec => []NeverTwice
<1>1. Inv => NeverTwice
  <2>1. ASSUME Inv, NEW k \in Keys, k[1] \notin moved \cup mixed, prevCache[k] # Nil
        PROVE  arrived[k] <= work[k[1]]
    <3>1. Fits(k, arrived[k], prevCache[k])
      BY <2>1 DEF Inv, Bounded, BoundedAt
    <3> QED BY <2>1, <3>1, Numbers, RoomWithin DEF Fits
  <2> QED BY <2>1 DEF NeverTwice
<1> QED BY <1>1, AlwaysInv, PTL

\* The cache holds nothing for a pod without a target, but for what a scrape that
\* was under way put back after delTarget had removed it.
THEOREM CacheFollowsTargets == Spec => []NoOrphans
<1>1. Inv => NoOrphans
  <2>1. ASSUME Inv, NEW k \in Keys, Kept(k[1]) PROVE \E t \in Stored : t.pod = k[1]
    BY <2>1, TargetTypes DEF Kept, Stored
  <2> QED BY <2>1 DEF Inv, Orphans, NoOrphans
<1> QED BY <1>1, AlwaysInv, PTL
-----------------------------------------------------------------------------
(***************************************************************************)
(* Delivered.  What has arrived of a key and what is on its way add up to  *)
(* the value in the cache at least (Covered).  The sum over the uploads is *)
(* taken by any measure g on their sets that is additive: what the proof   *)
(* needs of a sum is what one upload more or less changes.                 *)
(***************************************************************************)

OneEach == \A i, j \in jobs : i.t = j.t /\ i.ty = j.ty => i = j

OnTheWay(k) == {j \in jobs : Of(j, k) /\ j.pc = "upload"}

Additive(g, S) ==
  /\ g \in [SUBSET S -> Nat] /\ g[{}] = 0
  /\ \A T \in SUBSET S : \A j \in S \ T : g[T \cup {j}] = g[T] + j.v

Covered == \A k \in Keys : prevCache[k] # Nil /\ k \notin lossy =>
  \A g : Additive(g, OnTheWay(k)) => arrived[k] + g[OnTheWay(k)] >= prevCache[k]

SumInv == OneEach /\ Covered

\* A measure of a part is one of the whole, cut down.
LEMMA MeasureOfPart ==
  ASSUME NEW S, NEW R \in SUBSET S, NEW g, Additive(g, S)
  PROVE  \E h : Additive(h, R) /\ \A T \in SUBSET R : h[T] = g[T]
<1> DEFINE h == [T \in SUBSET R |-> g[T]]
<1>1. h \in [SUBSET R -> Nat] /\ h[{}] = 0 /\ \A T \in SUBSET R : h[T] = g[T]
  BY DEF Additive
<1>2. ASSUME NEW T \in SUBSET R, NEW j \in R \ T PROVE h[T \cup {j}] = h[T] + j.v
  <2>1. T \cup {j} \in SUBSET R /\ T \in SUBSET S /\ j \in S \ T
    OBVIOUS
  <2> QED BY <1>1, <2>1 DEF Additive
<1> QED BY <1>1, <1>2 DEF Additive

\* A measure of all uploads but one is that of all of them, without its value.
LEMMA MeasureOfMore ==
  ASSUME NEW R, NEW n, n \notin R, n.v \in Nat, \A j \in R : j.v \in Nat,
         NEW g, Additive(g, R)
  PROVE  \E h : Additive(h, R \cup {n}) /\ h[R \cup {n}] = g[R] + n.v
<1> DEFINE S == R \cup {n}
           h == [T \in SUBSET S |-> IF n \in T THEN g[T \ {n}] + n.v ELSE g[T]]
<1>1. g \in [SUBSET R -> Nat] /\ g[{}] = 0
      /\ \A T \in SUBSET R : \A j \in R \ T : g[T \cup {j}] = g[T] + j.v
  BY DEF Additive
<1>2. \A T \in SUBSET S : T \ {n} \in SUBSET R /\ (n \notin T => T \in SUBSET R)
  OBVIOUS
<1>3. h \in [SUBSET S -> Nat] /\ h[{}] = 0
  BY <1>1, <1>2
<1>4. \A T \in SUBSET S : h[T] = IF n \in T THEN g[T \ {n}] + n.v ELSE g[T]
  OBVIOUS
<1> HIDE DEF h
<1>5. ASSUME NEW T \in SUBSET S, NEW j \in S \ T PROVE h[T \cup {j}] = h[T] + j.v
  <2>1. T \cup {j} \in SUBSET S
    OBVIOUS
  <2>2. CASE j = n
    <3>1. (T \cup {j}) \ {n} = T /\ n \notin T /\ n \in T \cup {j}
      BY <2>2
    <3> QED BY <1>4, <2>1, <2>2, <3>1
  <2>3. CASE j # n /\ n \in T
    <3>1. /\ (T \cup {j}) \ {n} = (T \ {n}) \cup {j} /\ n \in T \cup {j}
          /\ T \ {n} \in SUBSET R /\ j \in R \ (T \ {n})
      BY <2>3
    <3>2. g[(T \ {n}) \cup {j}] = g[T \ {n}] + j.v
      BY <1>1, <3>1
    <3>3. h[T \cup {j}] = g[(T \ {n}) \cup {j}] + n.v /\ h[T] = g[T \ {n}] + n.v
      BY <1>4, <2>1, <2>3, <3>1
    <3>4. g[T \ {n}] \in Nat /\ j.v \in Nat
      BY <1>1, <3>1
    <3> QED BY <3>2, <3>3, <3>4
  <2>4. CASE j # n /\ n \notin T
    <3>1. T \in SUBSET R /\ j \in R \ T /\ n \notin T \cup {j}
      BY <2>4
    <3> QED BY <1>1, <1>4, <2>1, <3>1
  <2> QED BY <2>2, <2>3, <2>4
<1>6. h[S] = g[R] + n.v
  <2>1. S \ {n} = R /\ n \in S
    OBVIOUS
  <2> QED BY <1>4, <2>1
<1> QED BY <1>3, <1>5, <1>6 DEF Additive

LEMMA InitSum == Init => SumInv
BY DEF Init, SumInv, OneEach, Covered

\* Steps that send nothing and take nothing from what was sent, but may empty
\* the cache.
LEMMA AsideSum ==
  ASSUME Inv, SumInv, OneEach', UNCHANGED <<arrived, lossy>>,
         \A k \in Keys : prevCache'[k] \in {prevCache[k], Nil},
         \A k \in Keys : OnTheWay(k)' = OnTheWay(k)
  PROVE  SumInv'
BY DEF SumInv, Covered

LEMMA DiscoverSum == ASSUME Inv, SumInv, Discover PROVE SumInv'
<1>1. UNCHANGED <<jobs, arrived, lossy>>
  BY DEF Discover, PodReplace, PodDrop, PodPut, discoverOthers, history
<1>2. \A a \in Addrs : DelTarget(a) => \A k \in Keys : prevCache'[k] \in {prevCache[k], Nil}
  BY DEF DelTarget
<1>3. \A k \in Keys : prevCache'[k] \in {prevCache[k], Nil}
  <2>1. CASE PodReplace
    BY <2>1 DEF PodReplace
  <2>2. CASE \E p \in Pods : PodDrop(p)
    <3>1. PICK p \in Pods : PodDrop(p)
      BY <2>2
    <3>2. DelTarget(view[p]) /\ view[p] \in Addrs
      BY <3>1 DEF PodDrop, Inv, Types
    <3> QED BY <1>2, <3>2
  <2>3. CASE \E p \in Pods : PodPut(p)
    <3>1. PICK p \in Pods : PodPut(p)
      BY <2>3
    <3>2. UNCHANGED prevCache \/ DelTarget(Target(p, named[p]).addr)
      BY <3>1 DEF PodPut
    <3>3. Target(p, named[p]).addr \in Addrs
      BY <3>1 DEF PodPut, Target, Inv, Types
    <3> QED BY <1>2, <3>2, <3>3
  <2> QED BY <2>1, <2>2, <2>3 DEF Discover
<1>4. OneEach'
  BY <1>1 DEF SumInv, OneEach
<1>5. \A k \in Keys : OnTheWay(k)' = OnTheWay(k)
  BY <1>1 DEF OnTheWay, Of
<1> QED BY <1>1, <1>3, <1>4, <1>5, AsideSum

LEMMA RoundSum == ASSUME Inv, SumInv, Round PROVE SumInv'
<1>1. /\ jobs = {} /\ UNCHANGED <<prevCache, arrived, lossy>>
      /\ jobs' = {[t |-> t, ty |-> ty, pc |-> "scrape", v |-> 0] :
                  t \in Stored, ty \in layout.types}
  BY DEF Round, history
<1>2. OneEach'
  BY <1>1 DEF OneEach
<1>3. \A k \in Keys : OnTheWay(k)' = OnTheWay(k)
  BY <1>1 DEF OnTheWay
<1> QED BY <1>1, <1>2, <1>3, AsideSum

\* A job that ends before it has something to upload, or goes on to the next step.
LEMMA ScrapeSum ==
  ASSUME Inv, SumInv, NEW j \in jobs, ScrapeFails(j) \/ \E p \in Pods : Scrape(j, p)
  PROVE  SumInv'
<1>1. /\ j.pc = "scrape" /\ UNCHANGED <<prevCache, arrived, lossy>>
      /\ Ends(j) \/ \E v \in Nat : Goes(j, "diff", v)
  <2>1. \A p \in Pods : counter[p] \in Nat
    BY DEF Inv, Types
  <2> QED BY <2>1 DEF ScrapeFails, Scrape, notScraping, scrapeOthers, history
<1>2. CASE Ends(j)
  <2>1. OneEach'
    BY <1>2 DEF Ends, SumInv, OneEach
  <2>2. \A k \in Keys : OnTheWay(k)' = OnTheWay(k)
    BY <1>1, <1>2 DEF OnTheWay, Ends
  <2> QED BY <1>1, <2>1, <2>2, AsideSum
<1>3. ASSUME NEW v \in Nat, Goes(j, "diff", v) PROVE SumInv'
  <2> DEFINE n == [j EXCEPT !.pc = "diff", !.v = v]
  <2>1. jobs' = (jobs \ {j}) \cup {n}
    BY <1>3 DEF Goes
  <2>2. n.t = j.t /\ n.ty = j.ty /\ n.pc = "diff"
    BY JobTypes DEF JobRecord
  <2> HIDE DEF n
  <2>3. OneEach'
    BY <2>1, <2>2 DEF SumInv, OneEach
  <2>4. \A k \in Keys : OnTheWay(k)' = OnTheWay(k)
    BY <1>1, <2>1, <2>2 DEF OnTheWay, Of
  <2> QED BY <1>1, <2>3, <2>4, AsideSum
<1> QED BY <1>1, <1>2, <1>3

\* The difference goes on its way when the value enters the cache.
LEMMA DiffSum == ASSUME Inv, SumInv, NEW j \in jobs, Diff(j) PROVE SumInv'
<1> DEFINE k == Key(j.t, j.ty)
           prev == prevCache[k]
           diff == IF j.ty \in Cumulative /\ prev # Nil /\ j.v >= prev THEN j.v - prev ELSE j.v
           n == [j EXCEPT !.pc = "upload", !.v = diff]
<1>1. /\ j.pc = "diff" /\ jobs' = (jobs \ {j}) \cup {n}
      /\ IF j.ty \notin Cumulative THEN UNCHANGED <<prevCache, arrived, lossy>>
         ELSE /\ prevCache' = [prevCache EXCEPT ![k] = j.v]
              /\ IF prev # Nil THEN UNCHANGED <<arrived, lossy>>
                 ELSE arrived' = [arrived EXCEPT ![k] = 0] /\ lossy' = lossy \ {k}
  BY DEF Diff, Goes, history
<1>2. /\ prevCache \in [Keys -> Nat \cup {Nil}] /\ arrived \in [Keys -> Nat] /\ lossy \subseteq Keys
      /\ j.v \in Nat
  BY JobTypes DEF Inv, TypeOK
<1>3. n.t = j.t /\ n.ty = j.ty /\ n.pc = "upload" /\ n.v = diff
  BY JobTypes DEF JobRecord
<1>4. /\ j.ty \in Cumulative => k \in Keys
      /\ \A l \in Keys : Of(j, l) => l = k /\ j.ty \in Cumulative
  BY JobTypes, KeyTypes DEF Key, Keys, Of
<1>5. diff \in Nat
  BY <1>2, <1>4
<1> HIDE DEF n, k
<1>6. OneEach'
  BY <1>1, <1>3 DEF SumInv, OneEach
<1>7. \A i \in jobs : i.t = j.t /\ i.ty = j.ty => i = j
  BY DEF SumInv, OneEach
<1>8. \A l \in Keys : OnTheWay(l)' = IF Of(j, l) THEN OnTheWay(l) \cup {n} ELSE OnTheWay(l)
  BY <1>1, <1>3 DEF OnTheWay, Of
<1>9. ASSUME NEW l \in Keys, prevCache'[l] # Nil, l \notin lossy',
             NEW g, Additive(g, OnTheWay(l)')
      PROVE  arrived'[l] + g[OnTheWay(l)'] >= prevCache'[l]
  <2>1. CASE ~Of(j, l)
    <3>1. l # k \/ j.ty \notin Cumulative
      BY <2>1, JobTypes, KeyTypes DEF k, Key, Of
    <3>2. prevCache'[l] = prevCache[l] /\ arrived'[l] = arrived[l] /\ l \notin lossy
      BY <1>1, <1>2, <1>9, <3>1
    <3>3. OnTheWay(l)' = OnTheWay(l)
      BY <1>8, <2>1
    <3> QED BY <1>9, <3>2, <3>3 DEF SumInv, Covered
  <2>2. CASE Of(j, l)
    <3>1. l = k /\ j.ty \in Cumulative /\ k \in Keys
      BY <1>4, <2>2
    <3> DEFINE R == OnTheWay(k)
    <3>2. OnTheWay(l)' = R \cup {n}
      BY <1>8, <2>2, <3>1
    <3>3. n \notin R
      BY <1>1, <1>3, <1>7 DEF OnTheWay
    <3> HIDE DEF R
    <3>4. Additive(g, R \cup {n})
      BY <1>9, <3>2
    <3>5. PICK h : Additive(h, R) /\ \A T \in SUBSET R : h[T] = g[T]
      <4>1. R \in SUBSET (R \cup {n})
        OBVIOUS
      <4> DEFINE S == R \cup {n}
      <4>2. Additive(g, S) /\ R \in SUBSET S
        BY <3>4, <4>1
      <4> HIDE DEF S
      <4> QED BY <4>2, MeasureOfPart
    <3>6. g[R \cup {n}] = g[R] + diff /\ g[R] \in Nat /\ h[R] = g[R]
      BY <1>3, <3>3, <3>5, <3>4 DEF Additive
    <3>7. prevCache'[k] = j.v /\ arrived'[k] = IF prev # Nil THEN arrived[k] ELSE 0
      BY <1>1, <1>2, <3>1
    <3>8. prev # Nil => prev \in Nat /\ arrived[k] + g[R] >= prev
      <4>1. ASSUME prev # Nil PROVE arrived[k] + g[R] >= prev
        <5>1. k \notin lossy
          BY <1>1, <1>9, <3>1, <4>1
        <5> QED BY <3>1, <3>5, <3>6, <4>1, <5>1 DEF SumInv, Covered, R
      <4> QED BY <1>2, <3>1, <4>1
    <3>9. arrived[k] \in Nat
      BY <1>2, <3>1
    <3>10. CASE prev # Nil
      BY <1>2, <3>1, <3>2, <3>6, <3>7, <3>8, <3>9, <3>10
    <3>11. CASE prev = Nil
      BY <1>2, <3>1, <3>2, <3>6, <3>7, <3>9, <3>11
    <3> QED BY <3>10, <3>11
  <2> QED BY <2>1, <2>2
<1> QED BY <1>6, <1>9 DEF SumInv, Covered

\* An upload arrives, or its key is known to have lost one.
LEMMA UploadSum == ASSUME Inv, SumInv, NEW j \in jobs, Upload(j) \/ UploadFails(j) PROVE SumInv'
<1> DEFINE k == Key(j.t, j.ty)
<1>1. /\ j.pc = "upload" /\ jobs' = jobs \ {j} /\ UNCHANGED prevCache
      /\ \/ Arrives(j) /\ UNCHANGED lossy
         \/ /\ Arrives(j) \/ UNCHANGED arrived
            /\ lossy' = IF j.ty \in Cumulative THEN lossy \cup {k} ELSE lossy
  BY DEF Upload, UploadFails, Ends
<1>2. /\ prevCache \in [Keys -> Nat \cup {Nil}] /\ arrived \in [Keys -> Nat]
      /\ \A i \in jobs : i.v \in Nat
  BY JobTypes DEF Inv, TypeOK
<1>3. /\ j.ty \in Cumulative => k \in Keys /\ Of(j, k)
      /\ \A l \in Keys : Of(j, l) => l = k /\ j.ty \in Cumulative
  BY JobTypes, KeyTypes DEF Key, Keys, Of
<1>4. OneEach'
  BY <1>1 DEF SumInv, OneEach
<1>5. \A l \in Keys : OnTheWay(l)' = OnTheWay(l) \ {j} /\ (j \in OnTheWay(l) <=> Of(j, l))
  BY <1>1 DEF OnTheWay, Of
<1> HIDE DEF k
<1>6. ASSUME NEW l \in Keys, prevCache'[l] # Nil, l \notin lossy',
             NEW g, Additive(g, OnTheWay(l)')
      PROVE  arrived'[l] + g[OnTheWay(l)'] >= prevCache'[l]
  <2>1. prevCache'[l] = prevCache[l] /\ l \notin lossy
    BY <1>1, <1>6
  <2>2. CASE ~Of(j, l)
    <3>1. OnTheWay(l)' = OnTheWay(l)
      BY <1>5, <2>2
    <3>2. j.ty \in Cumulative => l # k
      BY <1>3, <2>2
    <3>3. arrived' = arrived \/ (arrived' = [arrived EXCEPT ![k] = @ + j.v] /\ l # k)
      BY <1>1, <3>2 DEF Arrives, k
    <3>4. arrived'[l] = arrived[l]
      BY <1>2, <3>3
    <3> QED BY <1>6, <2>1, <3>1, <3>4 DEF SumInv, Covered
  <2>3. CASE Of(j, l)
    <3>1. l = k /\ j.ty \in Cumulative
      BY <1>3, <2>3
    <3>2. arrived' = [arrived EXCEPT ![k] = @ + j.v]
      BY <1>1, <1>6, <3>1 DEF Arrives, k
    <3> DEFINE R == OnTheWay(l)'
    <3>3. OnTheWay(l) = R \cup {j} /\ j \notin R /\ \A i \in R : i.v \in Nat
      BY <1>2, <1>5, <2>3 DEF OnTheWay
    <3>4. PICK h : Additive(h, R \cup {j}) /\ h[R \cup {j}] = g[R] + j.v
      BY <1>2, <1>6, <3>3, MeasureOfMore
    <3>5. arrived[l] + (g[R] + j.v) >= prevCache[l]
      BY <1>6, <2>1, <3>3, <3>4 DEF SumInv, Covered
    <3>6. g[R] \in Nat
      BY <1>6 DEF Additive
    <3>7. arrived'[l] = arrived[l] + j.v /\ arrived[l] \in Nat /\ j.v \in Nat /\ prevCache[l] \in Nat
      BY <1>2, <1>6, <2>1, <3>1, <3>2
    <3> HIDE DEF R
    <3> QED BY <2>1, <3>5, <3>6, <3>7 DEF R
  <2> QED BY <2>2, <2>3
<1> QED BY <1>4, <1>6 DEF SumInv, Covered

LEMMA NextSum == Inv /\ SumInv /\ [Next]_vars => SumInv'
<1> SUFFICES ASSUME Inv, SumInv, [Next]_vars PROVE SumInv'
  OBVIOUS
<1>1. CASE Cluster \/ UNCHANGED vars
  <2>1. UNCHANGED <<jobs, prevCache, arrived, lossy>>
    BY <1>1 DEF Cluster, Work, ProcessRestarts, PodGoes, PodComes, AnnotationsChange, agent,
                vars, history
  <2>2. OneEach'
    BY <2>1 DEF SumInv, OneEach
  <2>3. \A k \in Keys : OnTheWay(k)' = OnTheWay(k)
    BY <2>1 DEF OnTheWay, Of
  <2> QED BY <2>1, <2>2, <2>3, AsideSum
<1>2. CASE Job
  BY <1>2, ScrapeSum, DiffSum, UploadSum DEF Job
<1> QED BY <1>1, <1>2, DiscoverSum, RoundSum DEF Next

\* Between two rounds all that the cache counts as reported has arrived, unless an
\* upload failed: over restarts of processes, targets that come and go during a
\* round, and several pods at one address.
THEOREM AllDelivered == Spec => []Delivered
<1>1. Inv /\ SumInv => Delivered
  <2>1. ASSUME Inv, SumInv, jobs = {}, NEW k \in Keys, prevCache[k] # Nil, k \notin lossy
        PROVE  arrived[k] >= prevCache[k]
    <3> DEFINE g == [T \in SUBSET {} |-> 0]
    <3>1. OnTheWay(k) = {}
      BY <2>1 DEF OnTheWay
    <3>2. Additive(g, {}) /\ g[{}] = 0
      BY DEF Additive
    <3>3. arrived[k] + 0 >= prevCache[k]
      BY <2>1, <3>1, <3>2 DEF SumInv, Covered
    <3> QED BY <2>1, <3>3, Numbers
  <2> QED BY <2>1 DEF Delivered
<1> QED BY <1>1, InitSum, NextSum, AlwaysInv, PTL DEF Spec

-----------------------------------------------------------------------------
(***************************************************************************)
(* Sums over finite sets.                                                  *)
(***************************************************************************)

\* Induction over Nat, for a set of numbers.
LEMMA AllNumbers ==
  ASSUME NEW N, 0 \in N, \A n \in Nat : n \in N => n + 1 \in N
  PROVE  Nat \subseteq N
<1>. DEFINE T == {n \in Nat : n \notin N}
<1>. SUFFICES ASSUME T # {} PROVE FALSE
  OBVIOUS
<1>1. T \in SUBSET Nat /\ T # {}
  OBVIOUS
<1>2. PICK n \in T : \A m \in T : ~(<<m, n>> \in OpToRel(<, Nat))
  <2>. HIDE DEF T
  <2>. QED  BY <1>1, NatLessThanWellFounded, WFMin, Zenon
<1>3. \A m \in T : ~(m < n)
  BY <1>2, Zenon DEF OpToRel
<1>4. n # 0 /\ n \in Nat /\ n \notin N
  OBVIOUS
<1>5. n - 1 \in Nat /\ n - 1 < n /\ n = (n - 1) + 1
  BY <1>4
<1>6. n - 1 \in N
  BY <1>3, <1>5
<1>. QED  BY <1>4, <1>5, <1>6

\* The recursion behind SumFunctionOnSet.
Sums(g, f, S) ==
  g = [R \in SUBSET S |->
         IF R = {} THEN 0
         ELSE f[CHOOSE x \in R : TRUE] + g[R \ {CHOOSE x \in R : TRUE}]]

\* The sum is what that recursion gives for the whole set.
LEMMA SumUnfold ==
  ASSUME NEW f, NEW S
  PROVE  SumFunctionOnSet(f, S) = (CHOOSE g : Sums(g, f, S))[S]
BY DEF SumFunctionOnSet, FoldFunctionOnSet, MapThenFoldSet, Sums

\* The element the recursion takes.
Taken(R) == CHOOSE x \in R : TRUE

\* What is left without the element that is taken is smaller by one.
LEMMA TakenFacts ==
  ASSUME NEW S, IsFiniteSet(S), NEW R \in SUBSET S, R # {}
  PROVE  /\ Taken(R) \in R /\ IsFiniteSet(R) /\ Cardinality(R) \in Nat
         /\ R \ {Taken(R)} \in SUBSET S
         /\ Cardinality(R \ {Taken(R)}) \in Nat
         /\ \A x \in R : Cardinality(R \ {x}) + 1 = Cardinality(R)
<1>1. Taken(R) \in R
  BY DEF Taken
<1>2. IsFiniteSet(R) /\ Cardinality(R) \in Nat
  BY FS_Subset, FS_CardinalityType
<1>3. \A x \in R : IsFiniteSet(R \ {x}) /\ Cardinality(R \ {x}) = Cardinality(R) - 1
  BY <1>2, FS_RemoveElement
<1>4. \A x \in R : Cardinality(R \ {x}) \in Nat
  BY <1>3, FS_CardinalityType
<1>5. ASSUME NEW x \in R PROVE Cardinality(R \ {x}) + 1 = Cardinality(R)
  BY <1>2, <1>3, <1>4
<1>6. R \ {Taken(R)} \in SUBSET S
  OBVIOUS
<1>. QED  BY <1>1, <1>2, <1>4, <1>5, <1>6

\* One step of the recursion.
LEMMA SumsStep ==
  ASSUME NEW g, NEW f, NEW S, Sums(g, f, S)
  PROVE  /\ g[{}] = 0
         /\ \A R \in SUBSET S : R # {} => g[R] = f[Taken(R)] + g[R \ {Taken(R)}]
BY DEF Sums, Taken

\* Two ways to sum agree on what they have in common.
LEMMA SumsAgree ==
  ASSUME NEW S, IsFiniteSet(S), NEW R, IsFiniteSet(R),
         NEW f, NEW g, Sums(g, f, S), NEW e, NEW h, Sums(h, e, R),
         NEW T \in SUBSET (S \cap R), \A x \in T : f[x] = e[x]
  PROVE  g[T] = h[T]
<1>. DEFINE N == {n \in Nat : \A Q \in SUBSET T : Cardinality(Q) <= n => g[Q] = h[Q]}
<1>1. \A Q \in SUBSET T : Q # {} =>
        /\ Taken(Q) \in Q /\ Cardinality(Q \ {Taken(Q)}) + 1 = Cardinality(Q)
        /\ Cardinality(Q) \in Nat /\ Cardinality(Q \ {Taken(Q)}) \in Nat
        /\ g[Q] = f[Taken(Q)] + g[Q \ {Taken(Q)}]
        /\ h[Q] = e[Taken(Q)] + h[Q \ {Taken(Q)}]
  <2>. SUFFICES ASSUME NEW Q \in SUBSET T, Q # {}
                PROVE  /\ Taken(Q) \in Q /\ Cardinality(Q \ {Taken(Q)}) + 1 = Cardinality(Q)
                       /\ Cardinality(Q) \in Nat /\ Cardinality(Q \ {Taken(Q)}) \in Nat
                       /\ g[Q] = f[Taken(Q)] + g[Q \ {Taken(Q)}]
                       /\ h[Q] = e[Taken(Q)] + h[Q \ {Taken(Q)}]
    OBVIOUS
  <2>1. Q \in SUBSET S /\ Q \in SUBSET R
    OBVIOUS
  <2>2. g[Q] = f[Taken(Q)] + g[Q \ {Taken(Q)}]
    <3>1. \A X \in SUBSET S : X # {} => g[X] = f[Taken(X)] + g[X \ {Taken(X)}]
      BY SumsStep
    <3>. QED  BY <2>1, <3>1
  <2>4. h[Q] = e[Taken(Q)] + h[Q \ {Taken(Q)}]
    <3>1. \A X \in SUBSET R : X # {} => h[X] = e[Taken(X)] + h[X \ {Taken(X)}]
      BY SumsStep
    <3>. QED  BY <2>1, <3>1
  <2>3. /\ Taken(Q) \in Q /\ Cardinality(Q \ {Taken(Q)}) + 1 = Cardinality(Q)
        /\ Cardinality(Q) \in Nat /\ Cardinality(Q \ {Taken(Q)}) \in Nat
    BY <2>1, TakenFacts
  <2>. QED  BY <2>2, <2>3, <2>4
<1>2. g[{}] = 0 /\ h[{}] = 0
  BY SumsStep
<1>3. 0 \in N
  <2>1. ASSUME NEW Q \in SUBSET T, Cardinality(Q) <= 0, Q # {} PROVE FALSE
    <3>1. /\ Cardinality(Q \ {Taken(Q)}) + 1 = Cardinality(Q)
          /\ Cardinality(Q \ {Taken(Q)}) \in Nat
      BY <1>1, <2>1
    <3>. QED  BY <2>1, <3>1
  <2>. QED  BY <1>2, <2>1
<1>4. ASSUME NEW n \in Nat, n \in N PROVE n + 1 \in N
  <2>. SUFFICES ASSUME NEW Q \in SUBSET T, Cardinality(Q) <= n + 1 PROVE g[Q] = h[Q]
    OBVIOUS
  <2>1. CASE Q = {}
    BY <2>1, <1>2
  <2>2. CASE Q # {}
    <3>1. Cardinality(Q \ {Taken(Q)}) <= n
      BY <1>1, <2>2
    <3>2. g[Q \ {Taken(Q)}] = h[Q \ {Taken(Q)}]
      BY <1>4, <3>1
    <3>3. f[Taken(Q)] = e[Taken(Q)]
      BY <1>1, <2>2
    <3>. QED  BY <1>1, <2>2, <3>2, <3>3
  <2>. QED  BY <2>1, <2>2
<1>5. Cardinality(T) \in Nat
  BY FS_Subset, FS_CardinalityType
<1>6. Nat \subseteq N
  <2>. HIDE DEF N
  <2>. QED  BY <1>3, <1>4, AllNumbers
<1>. QED  BY <1>5, <1>6

\* There is such a sum: one level of cardinalities after the other.
LEMMA SumsExist ==
  ASSUME NEW S, IsFiniteSet(S), NEW f
  PROVE  Sums(CHOOSE g : Sums(g, f, S), f, S)
<1>. DEFINE Turn(g) == [R \in SUBSET S |-> IF R = {} THEN 0
                                           ELSE f[Taken(R)] + g[R \ {Taken(R)}]]
            UpTo(g, n) == /\ g = [R \in SUBSET S |-> g[R]]
                          /\ \A R \in SUBSET S : Cardinality(R) <= n => g[R] = Turn(g)[R]
            N == {n \in Nat : \E g : UpTo(g, n)}
<1>1. \A R \in SUBSET S : R # {} =>
        /\ R \ {Taken(R)} \in SUBSET S
        /\ Cardinality(R \ {Taken(R)}) + 1 = Cardinality(R)
        /\ Cardinality(R) \in Nat /\ Cardinality(R \ {Taken(R)}) \in Nat
  BY TakenFacts
<1>2. 0 \in N
  <2>. DEFINE g == [R \in SUBSET S |-> 0]
  <2>1. ASSUME NEW R \in SUBSET S, Cardinality(R) <= 0, R # {} PROVE FALSE
    <3>1. /\ Cardinality(R \ {Taken(R)}) + 1 = Cardinality(R)
          /\ Cardinality(R \ {Taken(R)}) \in Nat
      BY <1>1, <2>1
    <3>. QED  BY <2>1, <3>1
  <2>2. g = [R \in SUBSET S |-> g[R]]
    OBVIOUS
  <2>3. \A R \in SUBSET S : Cardinality(R) <= 0 => g[R] = Turn(g)[R]
    BY <2>1
  <2>. QED  BY <2>2, <2>3
<1>3. ASSUME NEW n \in Nat, n \in N PROVE n + 1 \in N
  <2>1. PICK g : UpTo(g, n)
    BY <1>3
  <2>. DEFINE h == Turn(g)
  <2>2. h = [R \in SUBSET S |-> h[R]]
    OBVIOUS
  <2>3. ASSUME NEW R \in SUBSET S, Cardinality(R) <= n + 1, R # {}
        PROVE  h[R \ {Taken(R)}] = g[R \ {Taken(R)}]
    <3>1. Cardinality(R \ {Taken(R)}) <= n /\ R \ {Taken(R)} \in SUBSET S
      BY <1>1, <2>3
    <3>. QED  BY <2>1, <3>1
  <2>4. ASSUME NEW R \in SUBSET S, Cardinality(R) <= n + 1 PROVE h[R] = Turn(h)[R]
    <3>1. CASE R = {}
      BY <3>1
    <3>2. CASE R # {}
      <4>1. h[R] = f[Taken(R)] + g[R \ {Taken(R)}]
        BY <3>2
      <4>2. Turn(h)[R] = f[Taken(R)] + h[R \ {Taken(R)}]
        BY <3>2
      <4>. QED  BY <2>3, <2>4, <3>2, <4>1, <4>2
    <3>. QED  BY <3>1, <3>2
  <2>5. UpTo(h, n + 1)
    <3>. HIDE DEF h
    <3>. QED  BY <2>2, <2>4
  <2>6. \E e : UpTo(e, n + 1)
    <3>. HIDE DEF h, UpTo
    <3>. QED  BY <2>5
  <2>. HIDE DEF UpTo
  <2>. QED  BY <2>6
<1>4. Cardinality(S) \in Nat
  BY FS_CardinalityType
<1>5. Nat \subseteq N
  <2>. HIDE DEF N
  <2>. QED  BY <1>2, <1>3, AllNumbers
<1>6. PICK g : UpTo(g, Cardinality(S))
  BY <1>4, <1>5
<1>7. \A R \in SUBSET S : Cardinality(R) <= Cardinality(S)
  BY FS_Subset
<1>8. \A R \in SUBSET S : g[R] = Turn(g)[R]
  BY <1>6, <1>7
<1>9. Sums(g, f, S)
  <2>1. g = [R \in SUBSET S |-> g[R]]
    BY <1>6
  <2>2. g = [R \in SUBSET S |-> Turn(g)[R]]
    BY <1>8, <2>1
  <2>. QED  BY <2>2 DEF Sums, Taken
<1>. QED  BY <1>9

\* A sum is a number, whichever element is taken first.
LEMMA SumsAdd ==
  ASSUME NEW S, IsFiniteSet(S), NEW f, \A x \in S : f[x] \in Nat, NEW g, Sums(g, f, S),
         NEW R \in SUBSET S
  PROVE  /\ g[R] \in Nat
         /\ \A x \in R : g[R] = f[x] + g[R \ {x}]
<1>. DEFINE Good(T) == g[T] \in Nat /\ \A x \in T : g[T] = f[x] + g[T \ {x}]
            N == {n \in Nat : \A T \in SUBSET S : Cardinality(T) <= n => Good(T)}
<1>1. \A T \in SUBSET S : T # {} =>
        /\ Taken(T) \in T /\ Cardinality(T) \in Nat
        /\ \A x \in T : T \ {x} \in SUBSET S /\ Cardinality(T \ {x}) + 1 = Cardinality(T)
        /\ g[T] = f[Taken(T)] + g[T \ {Taken(T)}]
  <2>. SUFFICES ASSUME NEW T \in SUBSET S, T # {}
                PROVE  /\ Taken(T) \in T /\ Cardinality(T) \in Nat
                       /\ \A x \in T : /\ T \ {x} \in SUBSET S
                                       /\ Cardinality(T \ {x}) + 1 = Cardinality(T)
                       /\ g[T] = f[Taken(T)] + g[T \ {Taken(T)}]
    OBVIOUS
  <2>1. g[T] = f[Taken(T)] + g[T \ {Taken(T)}]
    BY SumsStep
  <2>2. /\ Taken(T) \in T /\ Cardinality(T) \in Nat
        /\ \A x \in T : Cardinality(T \ {x}) + 1 = Cardinality(T)
    BY TakenFacts
  <2>. QED  BY <2>1, <2>2
<1>2. Good({})
  BY SumsStep
<1>2a. \A T \in SUBSET S : Cardinality(T) \in Nat
  BY FS_Subset, FS_CardinalityType
<1>3. 0 \in N
  <2>1. ASSUME NEW T \in SUBSET S, Cardinality(T) <= 0 PROVE T = {}
    <3>1. ASSUME NEW x \in T PROVE FALSE
      <4>1. Cardinality(T \ {x}) + 1 = Cardinality(T) /\ Cardinality(T \ {x}) \in Nat
        BY <1>1, <1>2a
      <4>. QED  BY <2>1, <4>1
    <3>. QED  BY <3>1
  <2>. HIDE DEF Good
  <2>. QED  BY <1>2, <2>1
<1>4. ASSUME NEW n \in Nat, n \in N PROVE n + 1 \in N
  <2>. SUFFICES ASSUME NEW T \in SUBSET S, Cardinality(T) <= n + 1, T # {} PROVE Good(T)
    <3>. HIDE DEF Good
    <3>. QED  BY <1>2
  <2>. DEFINE y == Taken(T)
  <2>1. ASSUME NEW x \in T PROVE Cardinality(T \ {x}) <= n /\ T \ {x} \in SUBSET S
    <3>1. Cardinality(T \ {x}) + 1 = Cardinality(T) /\ T \ {x} \in SUBSET S
      BY <1>1
    <3>2. Cardinality(T \ {x}) \in Nat
      BY <1>2a, <3>1
    <3>. QED  BY <3>1, <3>2
  <2>2. \A x \in T : Good(T \ {x})
    <3>. HIDE DEF Good
    <3>. QED  BY <1>4, <2>1
  <2>3. y \in T /\ g[T] = f[y] + g[T \ {y}]
    BY <1>1
  <2>. HIDE DEF y
  <2>4. g[T] \in Nat
    BY <2>2, <2>3
  <2>5. ASSUME NEW x \in T, x # y PROVE g[T] = f[x] + g[T \ {x}]
    <3>1. g[T \ {y}] = f[x] + g[(T \ {y}) \ {x}]
      BY <2>2, <2>3, <2>5
    <3>2. g[T \ {x}] = f[y] + g[(T \ {x}) \ {y}]
      BY <2>2, <2>3, <2>5
    <3>3. (T \ {x}) \ {y} = (T \ {y}) \ {x}
      OBVIOUS
    <3>4. f[x] \in Nat /\ f[y] \in Nat /\ g[T \ {x}] \in Nat /\ g[T \ {y}] \in Nat
      BY <2>2, <2>3
    <3>5. T \ {x, y} \in SUBSET S /\ (T \ {y}) \ {x} = T \ {x, y}
      OBVIOUS
    <3>6. Cardinality(T \ {x, y}) <= n
      <4>1. Cardinality((T \ {y}) \ {x}) <= Cardinality(T \ {y})
        BY <2>1, <2>3, FS_Subset
      <4>2. Cardinality(T \ {y}) <= n
        BY <2>1, <2>3
      <4>3. Cardinality(T \ {y}) \in Nat /\ Cardinality(T \ {x, y}) \in Nat
        BY <2>1, <2>3, <3>5, <1>2a
      <4>. QED  BY <3>5, <4>1, <4>2, <4>3
    <3>7. g[T \ {x, y}] \in Nat
      BY <1>4, <3>5, <3>6
    <3>. QED  BY <2>3, <3>1, <3>2, <3>3, <3>4, <3>5, <3>7
  <2>. QED  BY <2>3, <2>4, <2>5
<1>5. Nat \subseteq N
  <2>. HIDE DEF N
  <2>. QED  BY <1>3, <1>4, AllNumbers
<1>. QED  BY <1>2a, <1>5

-----------------------------------------------------------------------------

\* Nothing adds up to 0.
LEMMA SumEmpty == ASSUME NEW f PROVE SumFunctionOnSet(f, {}) = 0
<1>1. Sums(CHOOSE g : Sums(g, f, {}), f, {})
  BY SumsExist, FS_EmptySet
<1>. QED  BY <1>1, SumUnfold, SumsStep

\* Equal values have equal sums.
LEMMA SumSame ==
  ASSUME NEW S, IsFiniteSet(S), NEW f, NEW e, \A x \in S : f[x] = e[x]
  PROVE  SumFunctionOnSet(f, S) = SumFunctionOnSet(e, S)
<1>. DEFINE g == CHOOSE h : Sums(h, f, S)
            k == CHOOSE h : Sums(h, e, S)
<1>1. Sums(g, f, S) /\ Sums(k, e, S)
  BY SumsExist
<1>2. SumFunctionOnSet(f, S) = g[S] /\ SumFunctionOnSet(e, S) = k[S]
  BY SumUnfold
<1>. HIDE DEF g, k
<1>3. S \in SUBSET (S \cap S)
  OBVIOUS
<1>4. g[S] = k[S]
  BY <1>1, <1>3, SumsAgree
<1>. QED  BY <1>2, <1>4

\* Any element can be split off a sum.
LEMMA SumAdd ==
  ASSUME NEW S, IsFiniteSet(S), NEW f, \A x \in S : f[x] \in Nat
  PROVE  /\ SumFunctionOnSet(f, S) \in Nat
         /\ \A x \in S : SumFunctionOnSet(f, S) = f[x] + SumFunctionOnSet(f, S \ {x})
<1>. DEFINE g == CHOOSE h : Sums(h, f, S)
<1>1. Sums(g, f, S) /\ SumFunctionOnSet(f, S) = g[S]
  BY SumsExist, SumUnfold
<1>. HIDE DEF g
<1>2. S \in SUBSET S
  OBVIOUS
<1>3. g[S] \in Nat /\ \A x \in S : g[S] = f[x] + g[S \ {x}]
  <2>1. \A x \in S : f[x] \in Nat
    OBVIOUS
  <2>2. Sums(g, f, S)
    BY <1>1
  <2>3. g[S] \in Nat
    BY <2>1, <2>2, <1>2, SumsAdd
  <2>4. ASSUME NEW x \in S PROVE g[S] = f[x] + g[S \ {x}]
    BY <2>1, <2>2, <1>2, SumsAdd
  <2>. QED  BY <2>3, <2>4
<1>4. ASSUME NEW x \in S PROVE SumFunctionOnSet(f, S \ {x}) = g[S \ {x}]
  <2>. DEFINE R == S \ {x}
              k == CHOOSE h : Sums(h, f, R)
  <2>1. IsFiniteSet(R)
    BY FS_RemoveElement
  <2>2. Sums(k, f, R) /\ SumFunctionOnSet(f, R) = k[R]
    BY <2>1, SumsExist, SumUnfold
  <2>3. R \in SUBSET (S \cap R)
    OBVIOUS
  <2>. HIDE DEF k, R
  <2>4. g[R] = k[R]
    BY <1>1, <2>1, <2>2, <2>3, SumsAgree
  <2>. QED  BY <2>2, <2>4 DEF R
<1>. QED  BY <1>1, <1>3, <1>4

\* Induction over a finite set, for a set of subsets.
LEMMA AllSubsets ==
  ASSUME NEW S, IsFiniteSet(S), NEW P, {} \in P,
         \A T \in SUBSET S : \A x \in T : T \ {x} \in P => T \in P
  PROVE  SUBSET S \subseteq P
<1>. DEFINE N == {n \in Nat : \A T \in SUBSET S : Cardinality(T) <= n => T \in P}
<1>1. \A T \in SUBSET S : IsFiniteSet(T) /\ Cardinality(T) \in Nat
  BY FS_Subset, FS_CardinalityType
<1>2. ASSUME NEW T \in SUBSET S, NEW x \in T
      PROVE  T \ {x} \in SUBSET S /\ Cardinality(T \ {x}) = Cardinality(T) - 1
  BY <1>1, FS_RemoveElement
<1>3. 0 \in N
  <2>1. ASSUME NEW T \in SUBSET S, Cardinality(T) <= 0 PROVE T = {}
    <3>1. Cardinality(T) = 0 /\ IsFiniteSet(T)
      BY <1>1, <2>1
    <3>. QED  BY <3>1, FS_EmptySet
  <2>. QED  BY <2>1
<1>4. ASSUME NEW n \in Nat, n \in N PROVE n + 1 \in N
  <2>. SUFFICES ASSUME NEW T \in SUBSET S, Cardinality(T) <= n + 1, NEW x \in T PROVE T \in P
    OBVIOUS
  <2>1. Cardinality(T \ {x}) <= n
    <3>1. Cardinality(T \ {x}) = Cardinality(T) - 1 /\ Cardinality(T) \in Nat
      BY <1>1, <1>2
    <3>. QED  BY <3>1
  <2>2. T \ {x} \in P
    BY <1>2, <1>4, <2>1
  <2>. QED  BY <2>2
<1>5. Nat \subseteq N
  <2>. HIDE DEF N
  <2>. QED  BY <1>3, <1>4, AllNumbers
<1>. QED  BY <1>1, <1>5

\* Larger values have a larger sum,
LEMMA SumMonotone ==
  ASSUME NEW S, IsFiniteSet(S), NEW f, NEW e,
         \A x \in S : f[x] \in Nat /\ e[x] \in Nat /\ f[x] <= e[x]
  PROVE  SumFunctionOnSet(f, S) <= SumFunctionOnSet(e, S)
<1>. DEFINE P == {T \in SUBSET S : SumFunctionOnSet(f, T) <= SumFunctionOnSet(e, T)}
<1>1. {} \in P
  BY SumEmpty
<1>2. ASSUME NEW T \in SUBSET S, NEW x \in T, T \ {x} \in P PROVE T \in P
  <2>1. IsFiniteSet(T) /\ IsFiniteSet(T \ {x})
    BY FS_Subset, FS_RemoveElement
  <2>2. /\ SumFunctionOnSet(f, T) = f[x] + SumFunctionOnSet(f, T \ {x})
        /\ SumFunctionOnSet(e, T) = e[x] + SumFunctionOnSet(e, T \ {x})
    BY <2>1, SumAdd
  <2>3. SumFunctionOnSet(f, T \ {x}) \in Nat /\ SumFunctionOnSet(e, T \ {x}) \in Nat
    BY <2>1, SumAdd
  <2>4. f[x] \in Nat /\ e[x] \in Nat /\ f[x] <= e[x]
    OBVIOUS
  <2>5. SumFunctionOnSet(f, T \ {x}) <= SumFunctionOnSet(e, T \ {x})
    BY <1>2
  <2>. QED  BY <2>2, <2>3, <2>4, <2>5
<1>3. SUBSET S \subseteq P
  <2>. HIDE DEF P
  <2>. QED  BY <1>1, <1>2, AllSubsets
<1>. QED  BY <1>3

\* Where no value goes down the sum goes up by what one of them does, or more.
LEMMA SumGain ==
  ASSUME NEW S, IsFiniteSet(S), NEW f, NEW e,
         \A x \in S : f[x] \in Nat /\ e[x] \in Nat /\ f[x] <= e[x], NEW s \in S
  PROVE  SumFunctionOnSet(f, S) + e[s] <= SumFunctionOnSet(e, S) + f[s]
<1>1. IsFiniteSet(S \ {s})
  BY FS_RemoveElement
<1>2. /\ SumFunctionOnSet(f, S) = f[s] + SumFunctionOnSet(f, S \ {s})
      /\ SumFunctionOnSet(e, S) = e[s] + SumFunctionOnSet(e, S \ {s})
  BY SumAdd
<1>3. SumFunctionOnSet(f, S \ {s}) \in Nat /\ SumFunctionOnSet(e, S \ {s}) \in Nat
  BY <1>1, SumAdd
<1>4. SumFunctionOnSet(f, S \ {s}) <= SumFunctionOnSet(e, S \ {s})
  BY <1>1, SumMonotone
<1>5. f[s] \in Nat /\ e[s] \in Nat
  OBVIOUS
<1>. QED  BY <1>2, <1>3, <1>4, <1>5

\* One value goes up by one.
LEMMA SumOneMore ==
  ASSUME NEW S, IsFiniteSet(S), NEW f, NEW e, NEW s \in S,
         \A x \in S : f[x] \in Nat, \A x \in S \ {s} : e[x] = f[x], e[s] = f[s] + 1
  PROVE  SumFunctionOnSet(e, S) = SumFunctionOnSet(f, S) + 1
<1>1. IsFiniteSet(S \ {s})
  BY FS_RemoveElement
<1>2. \A x \in S : e[x] \in Nat
  OBVIOUS
<1>3. /\ SumFunctionOnSet(f, S) = f[s] + SumFunctionOnSet(f, S \ {s})
      /\ SumFunctionOnSet(e, S) = e[s] + SumFunctionOnSet(e, S \ {s})
  BY <1>2, SumAdd
<1>4. SumFunctionOnSet(e, S \ {s}) = SumFunctionOnSet(f, S \ {s})
  BY <1>1, SumSame
<1>5. f[s] \in Nat /\ SumFunctionOnSet(f, S \ {s}) \in Nat
  BY <1>1, SumAdd
<1>. QED  BY <1>3, <1>4, <1>5

\* What is zero may be left out, and a sum may be taken over other names.
LEMMA SumOver ==
  ASSUME NEW S, IsFiniteSet(S), NEW f, \A x \in S : f[x] \in Nat,
         NEW R, IsFiniteSet(R), NEW e, NEW b, \A y \in R : b[y] \in S /\ e[y] = f[b[y]],
         \A y, z \in R : b[y] = b[z] => y = z,
         \A x \in S : f[x] # 0 => \E y \in R : b[y] = x
  PROVE  SumFunctionOnSet(e, R) = SumFunctionOnSet(f, S)
<1>. DEFINE Seen(T) == {y \in R : b[y] \in T}
            P == {T \in SUBSET S : SumFunctionOnSet(e, Seen(T)) = SumFunctionOnSet(f, T)}
<1>1. {} \in P
  <2>1. Seen({}) = {}
    OBVIOUS
  <2>. QED  BY <2>1, SumEmpty
<1>2. ASSUME NEW T \in SUBSET S, NEW x \in T, T \ {x} \in P PROVE T \in P
  <2>1. IsFiniteSet(T) /\ IsFiniteSet(T \ {x}) /\ IsFiniteSet(Seen(T))
    BY FS_Subset, FS_RemoveElement
  <2>2. SumFunctionOnSet(f, T) = f[x] + SumFunctionOnSet(f, T \ {x})
    BY <2>1, SumAdd
  <2>3. SumFunctionOnSet(e, Seen(T \ {x})) = SumFunctionOnSet(f, T \ {x})
    BY <1>2
  <2>4. SumFunctionOnSet(f, T \ {x}) \in Nat /\ f[x] \in Nat
    BY <2>1, SumAdd
  <2>5. CASE \E y \in R : b[y] = x
    <3>1. PICK y \in R : b[y] = x
      BY <2>5
    <3>2. y \in Seen(T) /\ Seen(T \ {x}) = Seen(T) \ {y} /\ e[y] = f[x]
      BY <3>1
    <3>3. \A z \in Seen(T) : e[z] \in Nat
      OBVIOUS
    <3>4. SumFunctionOnSet(e, Seen(T)) = e[y] + SumFunctionOnSet(e, Seen(T) \ {y})
      <4>. HIDE DEF Seen
      <4>. QED  BY <2>1, <3>2, <3>3, SumAdd
    <3>. QED  BY <2>2, <2>3, <3>2, <3>4
  <2>6. CASE ~\E y \in R : b[y] = x
    <3>1. f[x] = 0 /\ Seen(T \ {x}) = Seen(T)
      BY <2>6
    <3>2. SumFunctionOnSet(f, T) = SumFunctionOnSet(f, T \ {x})
      BY <2>2, <2>4, <3>1
    <3>3. SumFunctionOnSet(e, Seen(T)) = SumFunctionOnSet(f, T \ {x})
      <4>. HIDE DEF Seen
      <4>. QED  BY <2>3, <3>1
    <3>. HIDE DEF Seen
    <3>. QED  BY <3>2, <3>3
  <2>. QED  BY <2>5, <2>6
<1>3. SUBSET S \subseteq P
  <2>. HIDE DEF P
  <2>. QED  BY <1>1, <1>2, AllSubsets
<1>4. Seen(S) = R
  OBVIOUS
<1>. QED  BY <1>3, <1>4

-----------------------------------------------------------------------------
(***************************************************************************)
(* ProfileDiff: the invariant.                                             *)
(***************************************************************************)

First == Min(SampleTypes \ profileType.skipped)

IsCumulative(i) == i \in profileType.cumulative

Values == [SampleTypes -> [Sites -> Nat]]
Sample == [pos : Nat, stack : Stacks, value : [SampleTypes -> Nat]]

DiffTypes ==
  /\ profileType \in ProfileTypes
  /\ count \in Values /\ true \in Values /\ base \in Values \cup {None}
  /\ sampleType \in 0 .. profileType.types + 1
  /\ order \in Seq(Sites)
  /\ IsFiniteSet(samples) /\ \A r \in samples : r \in Sample
  /\ cache \in [SampleTypes -> [Stacks -> Nat] \cup {None}]
  /\ uploaded \in [SampleTypes -> [Stacks -> Nat]]
  /\ total \in [SampleTypes -> [Stacks -> Nat]]

IsReached(s) == \E n \in 1 .. Len(order) : order[n] = s

Distinct ==
  /\ \A n, m \in 1 .. Len(order) : order[n] = order[m] => n = m
  /\ \A r, q \in samples : r.pos = q.pos => r = q
  /\ sampleType = 0 => samples = {}

Grown ==
  /\ \A i \in SampleTypes, s \in Sites : ~IsReached(s) => count[i][s] = 0 /\ true[i][s] = 0
  /\ \A i \in SampleTypes, s \in Sites : IsCumulative(i) => true[i][s] <= count[i][s]

Cached ==
  /\ base = None => total = Zero(Stacks)
  /\ \A i \in SampleTypes : IsCumulative(i) =>
       (cache[i] = None <=> base = None /\ sampleType <= i)

OfSamples(st) == {r \in samples : r.stack = st}

\* No two samples of st were ever there.
Alone(st) ==
  \A s, q \in Sites : IsReached(s) /\ IsReached(q) /\ StackOf[s] = st /\ StackOf[q] = st
                        => s = q

\* What is reported in full.
Precise(i, st) == i = First \/ Alone(st)

Merging ==
  \A r, q \in samples : r.stack = q.stack /\ (sampleType > First \/ Alone(r.stack)) => r = q

\* Until differences are taken the samples have all there is.
Whole ==
  \A i \in SampleTypes, st \in Stacks :
    sampleType # 0 /\ Precise(i, st) /\ (i >= sampleType \/ ~IsCumulative(i))
      => Summed(i, OfSamples(st)) = OfStack(true[i], st)

\* What the first profile had, and what was reported since.
Reported(i, st) == total[i][st] + OfStack(base[i], st)

ExactAt(i, st) ==
  IF IsCumulative(i)
  THEN /\ base # None /\ sampleType <= i =>
            cache[i][st] = Reported(i, st) /\ cache[i][st] <= OfStack(true[i], st)
       /\ base # None /\ sampleType = 0 => cache[i][st] = OfStack(true[i], st)
       /\ sampleType > i => cache[i][st] = OfStack(true[i], st)
       /\ base # None /\ sampleType > i =>
            Reported(i, st) + Summed(i, OfSamples(st)) = OfStack(true[i], st)
  ELSE base # None /\ sampleType = 0 => uploaded[i][st] = OfStack(true[i], st)

Exactly == \A i \in SampleTypes, st \in Stacks : Precise(i, st) => ExactAt(i, st)

\* The difference that is reported for a value.
Delta(i, st, v) == IF cache[i] # None /\ v >= cache[i][st] THEN v - cache[i][st] ELSE v

\* The sites whose sample is the one that is left of a stack.
Newest(s) ==
  \E n \in 1 .. Len(order) :
    order[n] = s /\ \A m \in 1 .. n - 1 : StackOf[order[m]] # StackOf[s]

IsFirst(r) == \A q \in OfSamples(r.stack) : r.pos <= q.pos

\* That sample has the values of that site, unless it was reached afterwards.
Sourced ==
  \A s \in Sites : Newest(s) /\ sampleType # 0 =>
    \/ \A i \in SampleTypes : true[i][s] = 0
    \/ \E r \in samples :
         /\ IsFirst(r) /\ r.stack = StackOf[s]
         /\ \A i \in SampleTypes : i >= sampleType => r.value[i] = true[i][s]

\* With a reported, the next profile will not report more than there is.
Leaves(a, i, st) ==
  /\ a <= OfStack(count[i], st)
  /\ \A s \in Sites : Newest(s) /\ StackOf[s] = st
                        => a + Delta(i, st, count[i][s]) <= OfStack(count[i], st)

RoomAt(i, st) ==
  /\ base # None /\ sampleType = 0 =>
       Leaves(Reported(i, st), i, st) /\ Reported(i, st) <= OfStack(true[i], st)
  /\ base # None /\ sampleType \in 1 .. i =>
       /\ Reported(i, st) <= OfStack(true[i], st)
       /\ \A r \in OfSamples(st) : IsFirst(r) =>
            Reported(i, st) + Delta(i, st, r.value[i]) <= OfStack(true[i], st)
  /\ base # None /\ sampleType > i =>
       Reported(i, st) + Summed(i, OfSamples(st)) <= OfStack(true[i], st)
  /\ sampleType > i => Leaves(OfStack(true[i], st), i, st)

RoomLeft ==
  \A i \in SampleTypes, st \in Stacks : IsCumulative(i) /\ i # First => RoomAt(i, st)

ProfileInv ==
  DiffTypes /\ Distinct /\ Grown /\ Cached /\ Merging /\ Whole /\ Exactly /\ Sourced /\ RoomLeft

-----------------------------------------------------------------------------
(***************************************************************************)
(* ProfileDiff: the operators.                                             *)
(***************************************************************************)

\* Sums over the sites of a stack,
LEMMA OfStackIsNat ==
  ASSUME NEW v \in [Sites -> Nat], NEW st PROVE OfStack(v, st) \in Nat
<1>. DEFINE S == {s \in Sites : StackOf[s] = st}
<1>1. IsFiniteSet(S) /\ \A x \in S : v[x] \in Nat
  BY ProfileDiffAssumption, FS_Subset
<1>. HIDE DEF S
<1>2. SumFunctionOnSet(v, S) \in Nat
  BY <1>1, SumAdd
<1>. QED  BY <1>2 DEF OfStack, S

\* which grow with the values of the sites,
LEMMA OfStackUp ==
  ASSUME NEW v \in [Sites -> Nat], NEW w \in [Sites -> Nat], \A s \in Sites : v[s] <= w[s],
         NEW st
  PROVE  /\ OfStack(v, st) <= OfStack(w, st)
         /\ \A s \in Sites : StackOf[s] = st => OfStack(v, st) + w[s] <= OfStack(w, st) + v[s]
<1>. DEFINE S == {s \in Sites : StackOf[s] = st}
<1>1. IsFiniteSet(S) /\ \A x \in S : v[x] \in Nat /\ w[x] \in Nat /\ v[x] <= w[x]
  BY ProfileDiffAssumption, FS_Subset
<1>2. \A s \in Sites : StackOf[s] = st => s \in S
  OBVIOUS
<1>. HIDE DEF S
<1>3. SumFunctionOnSet(v, S) <= SumFunctionOnSet(w, S)
  BY <1>1, SumMonotone
<1>4. ASSUME NEW s \in S
      PROVE  SumFunctionOnSet(v, S) + w[s] <= SumFunctionOnSet(w, S) + v[s]
  BY <1>1, SumGain
<1>. QED  BY <1>2, <1>3, <1>4 DEF OfStack, S

\* by one with each value.
LEMMA OfStackMore ==
  ASSUME NEW v \in [Sites -> Nat], NEW s \in Sites, NEW st
  PROVE  OfStack([v EXCEPT ![s] = @ + 1], st) =
           IF StackOf[s] = st THEN OfStack(v, st) + 1 ELSE OfStack(v, st)
<1>. DEFINE S == {x \in Sites : StackOf[x] = st}
            w == [v EXCEPT ![s] = @ + 1]
<1>1. IsFiniteSet(S) /\ \A x \in S : v[x] \in Nat
  BY ProfileDiffAssumption, FS_Subset
<1>2. \A x \in S \ {s} : w[x] = v[x]
  OBVIOUS
<1>3. w[s] = v[s] + 1
  OBVIOUS
<1>4. s \in S <=> StackOf[s] = st
  OBVIOUS
<1>. HIDE DEF S, w
<1>5. CASE s \in S
  <2>1. SumFunctionOnSet(w, S) = SumFunctionOnSet(v, S) + 1
    BY <1>1, <1>2, <1>3, <1>5, SumOneMore
  <2>. QED  BY <1>4, <1>5, <2>1 DEF OfStack, S, w
<1>6. CASE s \notin S
  <2>1. \A x \in S : w[x] = v[x]
    BY <1>2, <1>6
  <2>2. SumFunctionOnSet(w, S) = SumFunctionOnSet(v, S)
    BY <1>1, <2>1, SumSame
  <2>. QED  BY <1>4, <1>6, <2>2 DEF OfStack, S, w
<1>. QED  BY <1>5, <1>6

\* Sums over samples: of none, and of one.
LEMMA SummedFacts ==
  ASSUME NEW i \in SampleTypes, NEW S, IsFiniteSet(S), \A r \in S : r \in Sample
  PROVE  /\ Summed(i, S) \in Nat
         /\ S = {} => Summed(i, S) = 0
         /\ \A r \in S : S = {r} => Summed(i, S) = r.value[i]
<1>. DEFINE e == [r \in S |-> r.value[i]]
<1>1. \A r \in S : e[r] \in Nat /\ e[r] = r.value[i]
  BY DEF Sample
<1>. HIDE DEF e
<1>2. /\ SumFunctionOnSet(e, S) \in Nat
      /\ \A r \in S : SumFunctionOnSet(e, S) = e[r] + SumFunctionOnSet(e, S \ {r})
  BY <1>1, SumAdd
<1>3. SumFunctionOnSet(e, {}) = 0
  BY SumEmpty
<1>4. ASSUME NEW r \in S, S = {r} PROVE SumFunctionOnSet(e, S) = r.value[i]
  <2>1. S \ {r} = {} /\ SumFunctionOnSet(e, S) = e[r] + SumFunctionOnSet(e, S \ {r})
    BY <1>2, <1>4
  <2>2. e[r] \in Nat /\ e[r] = r.value[i] /\ SumFunctionOnSet(e, S \ {r}) = 0
    BY <1>1, <1>3, <2>1
  <2>. QED  BY <2>1, <2>2
<1>. QED  BY <1>2, <1>3, <1>4 DEF Summed, e

\* First is the first of the sample types that are not passed over.
LEMMA FirstFacts ==
  ASSUME profileType \in ProfileTypes
  PROVE  /\ First \in SampleTypes /\ First \notin profileType.skipped
         /\ \A i \in SampleTypes : i < First => i \in profileType.skipped
<1>. DEFINE S == SampleTypes \ profileType.skipped
            N == {n \in Nat : \A x \in S : x > n}
<1>0. /\ profileType.types \in Nat /\ profileType.skipped \subseteq 1 .. profileType.types
      /\ profileType.skipped # 1 .. profileType.types
  BY ProfileDiffAssumption
<1>1. S # {} /\ S \subseteq Nat \ {0}
  <2>1. S # {}
    <3>. SUFFICES ASSUME 1 .. profileType.types \subseteq profileType.skipped PROVE FALSE
      BY DEF SampleTypes
    <3>. QED  BY <1>0
  <2>2. \A n \in 1 .. profileType.types : n \in Nat \ {0}
    BY <1>0
  <2>. QED  BY <2>1, <2>2 DEF SampleTypes
<1>2. \E n \in Nat : n \in N /\ n + 1 \notin N
  <2>. SUFFICES ASSUME \A n \in Nat : n \in N => n + 1 \in N PROVE FALSE
    OBVIOUS
  <2>1. 0 \in N
    BY <1>1
  <2>2. Nat \subseteq N
    <3>. HIDE DEF N
    <3>. QED  BY <2>1, AllNumbers
  <2>3. PICK x \in S : TRUE
    BY <1>1
  <2>4. x \in Nat /\ x > x
    BY <1>1, <2>2, <2>3
  <2>. QED  BY <2>4
<1>3. PICK n \in Nat : n \in N /\ n + 1 \notin N
  BY <1>2
<1>4. PICK x \in S : ~(x > n + 1)
  BY <1>3
<1>5. \A y \in S : x <= y
  BY <1>1, <1>3, <1>4
<1>6. First \in S /\ \A y \in S : First <= y
  BY <1>5, Zenon DEF First, Min
<1>7. \A i \in SampleTypes : i \in Nat
  BY ProfileDiffAssumption DEF SampleTypes
<1>8. ASSUME NEW i \in SampleTypes, i < First PROVE i \in profileType.skipped
  <2>. SUFFICES ASSUME i \in S PROVE FALSE
    OBVIOUS
  <2>1. First <= i /\ First \in Nat /\ i \in Nat
    BY <1>1, <1>6
  <2>. QED  BY <1>8, <2>1
<1>. QED  BY <1>6, <1>8

\* What the types say of profile types, sites and sample types,
LEMMA TypeFacts ==
  ASSUME DiffTypes
  PROVE  /\ profileType.types \in Nat /\ sampleType \in Nat /\ Len(order) \in Nat
         /\ \A i \in SampleTypes : i \in Nat /\ i >= 1 /\ i <= profileType.types
         /\ \A s \in Sites : StackOf[s] \in Stacks
         /\ \A n \in 1 .. Len(order) : order[n] \in Sites
         /\ First \in SampleTypes /\ First \notin profileType.skipped
         /\ \A i \in SampleTypes : i < First => i \in profileType.skipped
         /\ \A i \in SampleTypes : IsCumulative(i) => i \notin profileType.skipped
         /\ None \notin [Stacks -> Nat] /\ None \notin Values
<1>1. profileType \in ProfileTypes /\ order \in Seq(Sites)
  BY DEF DiffTypes
<1>2. profileType.types \in Nat /\ sampleType \in Nat
  BY <1>1, ProfileDiffAssumption DEF DiffTypes
<1>3. \A i \in SampleTypes : IsCumulative(i) => i \notin profileType.skipped
  BY <1>1, ProfileDiffAssumption DEF IsCumulative
<1>4. None \notin [Stacks -> Nat] /\ None \notin Values
  BY <1>1, ProfileDiffAssumption DEF Values, SampleTypes
<1>5. Len(order) \in Nat /\ \A n \in 1 .. Len(order) : order[n] \in Sites
  BY <1>1
<1>6. \A i \in SampleTypes : i \in Nat /\ i >= 1 /\ i <= profileType.types
  BY <1>2 DEF SampleTypes
<1>7. \A s \in Sites : StackOf[s] \in Stacks
  BY ProfileDiffAssumption
<1>. QED  BY <1>1, <1>2, <1>3, <1>4, <1>5, <1>6, <1>7, FirstFacts

\* and which values are numbers.
LEMMA NumberFacts ==
  ASSUME DiffTypes, NEW i \in SampleTypes, NEW st \in Stacks
  PROVE  /\ OfStack(true[i], st) \in Nat /\ OfStack(count[i], st) \in Nat
         /\ base # None => OfStack(base[i], st) \in Nat /\ Reported(i, st) \in Nat
         /\ total[i][st] \in Nat
         /\ cache[i] # None => cache[i][st] \in Nat
         /\ \A s \in Sites : true[i][s] \in Nat /\ count[i][s] \in Nat
         /\ IsFiniteSet(OfSamples(st)) /\ \A r \in OfSamples(st) : r \in Sample
         /\ Summed(i, OfSamples(st)) \in Nat
         /\ OfSamples(st) = {} => Summed(i, OfSamples(st)) = 0
         /\ \A r \in OfSamples(st) : OfSamples(st) = {r} => Summed(i, OfSamples(st)) = r.value[i]
         /\ \A v \in Nat : Delta(i, st, v) \in Nat /\ Delta(i, st, v) <= v
<1>1. count[i] \in [Sites -> Nat] /\ true[i] \in [Sites -> Nat]
  BY DEF DiffTypes, Values
<1>2. base # None => base[i] \in [Sites -> Nat]
  BY DEF DiffTypes, Values
<1>3. total[i][st] \in Nat /\ (cache[i] # None => cache[i][st] \in Nat)
  BY DEF DiffTypes
<1>4. OfStack(true[i], st) \in Nat /\ OfStack(count[i], st) \in Nat
  BY <1>1, OfStackIsNat
<1>5. base # None => OfStack(base[i], st) \in Nat /\ Reported(i, st) \in Nat
  BY <1>2, <1>3, OfStackIsNat DEF Reported
<1>6. IsFiniteSet(OfSamples(st)) /\ \A r \in OfSamples(st) : r \in Sample
  BY FS_Subset DEF DiffTypes, OfSamples
<1>7. /\ Summed(i, OfSamples(st)) \in Nat
      /\ OfSamples(st) = {} => Summed(i, OfSamples(st)) = 0
      /\ \A r \in OfSamples(st) : OfSamples(st) = {r} => Summed(i, OfSamples(st)) = r.value[i]
  BY <1>6, SummedFacts
<1>8. ASSUME NEW v \in Nat PROVE Delta(i, st, v) \in Nat /\ Delta(i, st, v) <= v
  BY <1>3 DEF Delta
<1>. QED  BY <1>1, <1>3, <1>4, <1>5, <1>6, <1>7, <1>8

\* The invariant holds at first,
LEMMA InitDiff == DiffInit => ProfileInv
<1>. SUFFICES ASSUME DiffInit PROVE ProfileInv
  OBVIOUS
<1>1. DiffTypes
  <2>1. profileType.types \in Nat
    BY ProfileDiffAssumption DEF DiffInit
  <2>2. IsFiniteSet(samples)
    BY FS_EmptySet DEF DiffInit
  <2>. QED  BY <2>1, <2>2 DEF DiffInit, DiffTypes, Zero, Values, SampleTypes
<1>2. \A n \in 1 .. Len(order) : FALSE
  BY DEF DiffInit
<1>3. Distinct /\ Merging /\ Sourced /\ Grown /\ Cached
  <2>1. \A i \in SampleTypes : i \in Nat /\ i >= 1
    BY <1>1, TypeFacts
  <2>. QED  BY <1>2, <2>1 DEF DiffInit, Distinct, Merging, Sourced, Grown, Cached, Zero
<1>4. Whole /\ Exactly /\ RoomLeft
  <2>1. \A i \in SampleTypes : i \in Nat /\ i >= 1
    BY <1>1, TypeFacts
  <2>2. base = None /\ sampleType = 0
    BY DEF DiffInit
  <2>3. \A i \in SampleTypes : ~(sampleType > i)
    BY <2>1, <2>2
  <2>4. Whole
    BY <2>2 DEF Whole
  <2>5. Exactly
    BY <2>2, <2>3 DEF Exactly, ExactAt
  <2>6. RoomLeft
    BY <2>2, <2>3 DEF RoomLeft, RoomAt
  <2>. QED  BY <2>4, <2>5, <2>6
<1>. QED  BY <1>1, <1>3, <1>4 DEF ProfileInv

-----------------------------------------------------------------------------
(***************************************************************************)
(* ProfileDiff: the process works.                                         *)
(***************************************************************************)

\* A sequence with one more element in front.
LEMMA Prepended ==
  ASSUME NEW q \in Seq(Sites), NEW s \in Sites
  PROVE  /\ <<s>> \o q \in Seq(Sites) /\ Len(q) \in Nat /\ Len(<<s>> \o q) = Len(q) + 1
         /\ (<<s>> \o q)[1] = s /\ \A n \in 1 .. Len(q) : (<<s>> \o q)[n + 1] = q[n]
         /\ \A n \in 2 .. Len(q) + 1 : n - 1 \in 1 .. Len(q) /\ (<<s>> \o q)[n] = q[n - 1]
<1>1. Len(q) \in Nat /\ Len(<<s>>) = 1 /\ <<s>>[1] = s /\ <<s>> \in Seq(Sites)
  OBVIOUS
<1>2. /\ <<s>> \o q \in Seq(Sites) /\ Len(<<s>> \o q) = Len(q) + 1
      /\ \A n \in 1 .. Len(q) + 1 : (<<s>> \o q)[n] = IF n <= 1 THEN <<s>>[n] ELSE q[n - 1]
  BY <1>1
<1>3. ASSUME NEW n \in 1 .. Len(q) PROVE (<<s>> \o q)[n + 1] = q[n]
  BY <1>1, <1>2
<1>. QED  BY <1>1, <1>2, <1>3

\* A site is put in front, unless it was there.
LEMMA OrderGrows ==
  ASSUME DiffTypes, Distinct, NEW s \in Sites,
         order' = IF \E n \in 1 .. Len(order) : order[n] = s THEN order ELSE <<s>> \o order
  PROVE  /\ order' \in Seq(Sites)
         /\ \A n, m \in 1 .. Len(order') : order'[n] = order'[m] => n = m
         /\ IsReached(s)' /\ \A q \in Sites : IsReached(q) => IsReached(q)'
         /\ \A q \in Sites : IsReached(q)' => IsReached(q) \/ q = s
         /\ \A q \in Sites : Newest(q)' => IF IsReached(s) THEN Newest(q)
                                           ELSE q = s \/ (Newest(q) /\ StackOf[q] # StackOf[s])
<1>1. order \in Seq(Sites) /\ \A n, m \in 1 .. Len(order) : order[n] = order[m] => n = m
  BY DEF DiffTypes, Distinct
<1>2. CASE IsReached(s)
  <2>1. order' = order
    BY <1>2 DEF IsReached
  <2>. QED  BY <1>1, <1>2, <2>1 DEF IsReached, Newest
<1>3. CASE ~IsReached(s)
  <2>. DEFINE p == order'
              l == Len(order)
  <2>1. /\ p \in Seq(Sites) /\ l \in Nat /\ Len(p) = l + 1
        /\ p[1] = s /\ \A n \in 1 .. l : p[n + 1] = order[n]
        /\ \A n \in 2 .. l + 1 : n - 1 \in 1 .. l /\ p[n] = order[n - 1]
    BY <1>1, <1>3, Prepended DEF IsReached
  <2>2. \A n \in 1 .. l + 1 : n = 1 \/ n \in 2 .. l + 1
    BY <2>1
  <2>. HIDE DEF p
  <2>3. ASSUME NEW n \in 1 .. l + 1, NEW m \in 1 .. l + 1, p[n] = p[m] PROVE n = m
    <3>1. CASE n = 1 \/ m = 1
      BY <1>3, <2>1, <2>2, <2>3, <3>1 DEF IsReached
    <3>2. CASE n # 1 /\ m # 1
      <4>1. n - 1 = m - 1
        BY <1>1, <2>1, <2>2, <2>3, <3>2
      <4>. QED  BY <2>1, <4>1
    <3>. QED  BY <3>1, <3>2
  <2>4. ASSUME NEW q \in Sites, NEW n \in 1 .. l, order[n] = q
        PROVE  n + 1 \in 1 .. l + 1 /\ p[n + 1] = q
    BY <2>1, <2>4
  <2>5. \A q \in Sites : IsReached(q) => \E n \in 1 .. l + 1 : p[n] = q
    BY <2>4 DEF IsReached
  <2>6. \A q \in Sites : (\E n \in 1 .. l + 1 : p[n] = q) => IsReached(q) \/ q = s
    BY <2>1, <2>2 DEF IsReached
  <2>7. ASSUME NEW q \in Sites, NEW n \in 1 .. l + 1, p[n] = q,
               \A m \in 1 .. n - 1 : StackOf[p[m]] # StackOf[q]
        PROVE  q = s \/ (Newest(q) /\ StackOf[q] # StackOf[s])
    <3>1. CASE n = 1
      <4>1. p[n] = q /\ p[1] = s
        BY <2>1, <2>7
      <4>. QED  BY <3>1, <4>1
    <3>2. CASE n # 1
      <4>1. n - 1 \in 1 .. l /\ order[n - 1] = q
        BY <2>1, <2>2, <2>7, <3>2
      <4>2. ASSUME NEW m \in 1 .. (n - 1) - 1 PROVE StackOf[order[m]] # StackOf[q]
        <5>1. m \in 1 .. l /\ m + 1 \in 1 .. n - 1
          BY <2>1, <4>1
        <5>. QED  BY <2>1, <2>7, <5>1
      <4>3. 1 \in 1 .. n - 1
        BY <2>1, <4>1
      <4>. QED  BY <2>1, <2>7, <4>1, <4>2, <4>3 DEF Newest
    <3>. QED  BY <3>1, <3>2
  <2>8. 1 \in 1 .. l + 1
    BY <2>1
  <2>. QED  BY <1>3, <2>1, <2>3, <2>5, <2>6, <2>7, <2>8 DEF IsReached, Newest, p
<1>. QED  BY <1>2, <1>3

\* What a process does leaves as much room as it takes.
LEMMA ReachKeepsRoom ==
  ASSUME DiffTypes, Distinct, Grown, Reach, NEW i \in SampleTypes, IsCumulative(i),
         NEW st \in Stacks, NEW a \in Nat, Leaves(a, i, st)
  PROVE  Leaves(a, i, st)'
<1>1. PICK s \in Sites, j \in SampleTypes :
        /\ \/ count' = [count EXCEPT ![j][s] = @ + 1]
           \/ /\ j \notin profileType.cumulative /\ count[j][s] > 0
              /\ count' = [count EXCEPT ![j][s] = 0]
        /\ order' = IF \E n \in 1..Len(order) : order[n] = s THEN order ELSE <<s>> \o order
  BY DEF Reach
<1>2. \A q \in Sites : Newest(q)' => IF IsReached(s) THEN Newest(q)
                                     ELSE q = s \/ (Newest(q) /\ StackOf[q] # StackOf[s])
  BY <1>1, OrderGrows
<1>3. UNCHANGED <<profileType, cache, SampleTypes>>
  BY DEF Reach, SampleTypes
<1>4. count[i] \in [Sites -> Nat] /\ OfStack(count[i], st) \in Nat
  BY NumberFacts DEF DiffTypes, Values
<1>5. a <= OfStack(count[i], st)
      /\ \A q \in Sites : Newest(q) /\ StackOf[q] = st
                            => a + Delta(i, st, count[i][q]) <= OfStack(count[i], st)
  BY DEF Leaves
<1>6. \A v : Delta(i, st, v)' = Delta(i, st, v)
  BY <1>3 DEF Delta
<1>7. \A v \in Nat : Delta(i, st, v) \in Nat /\ Delta(i, st, v) <= v
  BY NumberFacts
<1>8. ~IsReached(s) => count[i][s] = 0
  BY DEF Grown
<1>9. CASE j # i
  <2>1. count'[i] = count[i]
    BY <1>1, <1>9 DEF DiffTypes, Values
  <2>2. \A q \in Sites : Newest(q)' => Newest(q) \/ count[i][q] = 0
    BY <1>2, <1>8
  <2>3. ASSUME NEW q \in Sites, Newest(q)', StackOf[q] = st
        PROVE  a + Delta(i, st, count[i][q]) <= OfStack(count[i], st)
    <3>1. CASE Newest(q)
      BY <1>5, <2>3, <3>1
    <3>2. CASE count[i][q] = 0
      <4>1. Delta(i, st, count[i][q]) = 0
        BY <1>7, <3>2
      <4>. QED  BY <1>5, <4>1
    <3>. QED  BY <2>2, <2>3, <3>1, <3>2
  <2>. QED  BY <1>5, <1>6, <2>1, <2>3 DEF Leaves
<1>10. CASE j = i
  <2>1. count'[i] = [count[i] EXCEPT ![s] = @ + 1]
    BY <1>1, <1>10 DEF DiffTypes, Values, IsCumulative
  <2>2. OfStack(count'[i], st) = IF StackOf[s] = st THEN OfStack(count[i], st) + 1
                                 ELSE OfStack(count[i], st)
    BY <1>4, <2>1, OfStackMore
  <2>3. \A q \in Sites : count'[i][q] = IF q = s THEN count[i][s] + 1 ELSE count[i][q]
    BY <1>4, <2>1
  <2>4. \A v \in Nat : Delta(i, st, v + 1) <= Delta(i, st, v) + 1
    <3>1. cache[i] # None => cache[i][st] \in Nat
      BY NumberFacts
    <3>. QED  BY <3>1 DEF Delta
  <2>5. \A q \in Sites : count[i][q] \in Nat
    BY <1>4
  <2>6. ASSUME NEW q \in Sites, Newest(q)', StackOf[q] = st
        PROVE  a + Delta(i, st, count'[i][q]) <= OfStack(count'[i], st)
    <3>1. CASE q # s
      <4>1. Newest(q)
        BY <1>2, <2>6, <3>1
      <4>2. a + Delta(i, st, count[i][q]) <= OfStack(count[i], st)
        BY <1>5, <2>6, <4>1
      <4>3. Delta(i, st, count[i][q]) \in Nat
        BY <1>7, <2>5
      <4>. QED  BY <1>4, <2>2, <2>3, <3>1, <4>2, <4>3
    <3>2. CASE q = s
      <4>1. OfStack(count'[i], st) = OfStack(count[i], st) + 1 /\ count'[i][q] = count[i][s] + 1
        BY <2>2, <2>3, <2>6, <3>2
      <4>2. CASE IsReached(s)
        <5>1. a + Delta(i, st, count[i][s]) <= OfStack(count[i], st)
          BY <1>2, <1>5, <2>6, <3>2, <4>2
        <5>2. /\ Delta(i, st, count[i][s]) \in Nat
              /\ Delta(i, st, count[i][s] + 1) \in Nat
              /\ Delta(i, st, count[i][s] + 1) <= Delta(i, st, count[i][s]) + 1
          BY <1>7, <2>4, <2>5
        <5>. QED  BY <1>4, <4>1, <5>1, <5>2
      <4>3. CASE ~IsReached(s)
        <5>1. Delta(i, st, 1) \in Nat /\ Delta(i, st, 1) <= 1 /\ count[i][s] + 1 = 1
          BY <1>7, <1>8, <4>3
        <5>. QED  BY <1>4, <1>5, <4>1, <5>1
      <4>. QED  BY <4>2, <4>3
    <3>. QED  BY <3>1, <3>2
  <2>7. a <= OfStack(count'[i], st)
    BY <1>4, <1>5, <2>2
  <2>. QED  BY <1>6, <2>6, <2>7 DEF Leaves
<1>. QED  BY <1>9, <1>10

\* when a process does something,
LEMMA ReachDiff == ASSUME ProfileInv, Reach PROVE ProfileInv'
<1>. USE DEF ProfileInv
<1>1. PICK s \in Sites, j \in SampleTypes :
        /\ \/ count' = [count EXCEPT ![j][s] = @ + 1]
           \/ /\ j \notin profileType.cumulative /\ count[j][s] > 0
              /\ count' = [count EXCEPT ![j][s] = 0]
        /\ order' = IF \E n \in 1..Len(order) : order[n] = s THEN order ELSE <<s>> \o order
  BY DEF Reach
<1>2. UNCHANGED <<profileType, sampleType, samples, cache, true, base, uploaded, total,
                  SampleTypes, First>>
  BY DEF Reach, SampleTypes, First
<1>3. /\ order' \in Seq(Sites)
      /\ \A n, m \in 1 .. Len(order') : order'[n] = order'[m] => n = m
      /\ IsReached(s)' /\ \A q \in Sites : IsReached(q) => IsReached(q)'
      /\ \A q \in Sites : Newest(q)' => IF IsReached(s) THEN Newest(q)
                                        ELSE q = s \/ (Newest(q) /\ StackOf[q] # StackOf[s])
  BY <1>1, OrderGrows
<1>4. \A i \in SampleTypes, q \in Sites :
        /\ count[i][q] \in Nat /\ count'[i][q] \in Nat
        /\ q # s => count'[i][q] = count[i][q]
        /\ IsCumulative(i) => count'[i][q] >= count[i][q]
  <2>1. count \in [SampleTypes -> [Sites -> Nat]]
    BY DEF DiffTypes, Values
  <2>2. CASE count' = [count EXCEPT ![j][s] = @ + 1]
    BY <2>1, <2>2
  <2>3. CASE ~IsCumulative(j) /\ count' = [count EXCEPT ![j][s] = 0]
    <3>1. \A i \in SampleTypes, q \in Sites :
            count'[i][q] = IF i = j /\ q = s THEN 0 ELSE count[i][q]
      BY <2>1, <2>3
    <3>. QED  BY <2>1, <2>3, <3>1
  <2>. QED  BY <1>1, <2>2, <2>3 DEF IsCumulative
<1>5. count' \in Values
  <2>1. count \in [SampleTypes -> [Sites -> Nat]]
    BY DEF DiffTypes, Values
  <2>2. CASE count' = [count EXCEPT ![j][s] = @ + 1]
    BY <2>1, <2>2 DEF Values
  <2>3. CASE count' = [count EXCEPT ![j][s] = 0]
    BY <2>1, <2>3 DEF Values
  <2>. QED  BY <1>1, <2>2, <2>3
<1>6. /\ \A i, st : Precise(i, st)' => Precise(i, st)
      /\ \A st : Alone(st)' => Alone(st) /\ OfSamples(st)' = OfSamples(st)
      /\ \A i : IsCumulative(i)' = IsCumulative(i)
      /\ \A i, S : Summed(i, S)' = Summed(i, S)
      /\ \A r : IsFirst(r)' = IsFirst(r)
  BY <1>2, <1>3 DEF Precise, Alone, OfSamples, IsCumulative, Summed, IsFirst
<1>7. DiffTypes'
  BY <1>2, <1>3, <1>5 DEF DiffTypes, Values, Sample
<1>8. Distinct'
  BY <1>2, <1>3 DEF Distinct
<1>9. Grown'
  <2>1. ASSUME NEW i \in SampleTypes, NEW q \in Sites, ~IsReached(q)'
        PROVE  count'[i][q] = 0 /\ true[i][q] = 0
    BY <1>3, <1>4, <2>1 DEF Grown
  <2>2. ASSUME NEW i \in SampleTypes, NEW q \in Sites, IsCumulative(i)
        PROVE  true[i][q] <= count'[i][q]
    <3>1. true[i][q] \in Nat /\ true[i][q] <= count[i][q]
      BY <2>2 DEF Grown, DiffTypes, Values
    <3>. QED  BY <1>4, <2>2, <3>1
  <2>. QED  BY <1>2, <1>6, <2>1, <2>2 DEF Grown
<1>10. Cached'
  BY <1>2, <1>6 DEF Cached, Zero
<1>11. Merging'
  BY <1>2, <1>6 DEF Merging
<1>12. \A i, st : Summed(i, OfSamples(st))' = Summed(i, OfSamples(st))
  BY <1>2 DEF Summed, OfSamples
<1>13. Whole'
  BY <1>2, <1>6, <1>12 DEF Whole, OfStack
<1>14. \A i, st : ExactAt(i, st) => ExactAt(i, st)'
  BY <1>2, <1>6, <1>12 DEF ExactAt, Reported, OfStack
<1>15. Exactly'
  BY <1>2, <1>6, <1>14 DEF Exactly
<1>16. Sourced'
  <2>. SUFFICES ASSUME NEW q \in Sites, Newest(q)', sampleType # 0,
                       ~\A i \in SampleTypes : true[i][q] = 0
                PROVE  \E r \in samples :
                         /\ IsFirst(r) /\ r.stack = StackOf[q]
                         /\ \A i \in SampleTypes : i >= sampleType => r.value[i] = true[i][q]
    BY <1>2, <1>6 DEF Sourced
  <2>1. Newest(q)
    BY <1>3 DEF Grown
  <2>. QED  BY <2>1 DEF Sourced
<1>17. RoomLeft'
  <2>. SUFFICES ASSUME NEW i \in SampleTypes, NEW st \in Stacks, IsCumulative(i), i # First
                PROVE  RoomAt(i, st)'
    BY <1>2, <1>6 DEF RoomLeft
  <2>1. RoomAt(i, st)
    BY DEF RoomLeft
  <2>2. \A a \in Nat : Leaves(a, i, st) => Leaves(a, i, st)'
    BY ReachKeepsRoom
  <2>3. OfStack(true[i], st) \in Nat /\ (base # None => Reported(i, st) \in Nat)
    BY NumberFacts
  <2>4. /\ Reported(i, st)' = Reported(i, st) /\ OfStack(true[i], st)' = OfStack(true[i], st)
        /\ OfSamples(st)' = OfSamples(st) /\ \A v : Delta(i, st, v)' = Delta(i, st, v)
    BY <1>2 DEF Reported, OfStack, OfSamples, Delta
  <2>5. base # None => (Leaves(Reported(i, st), i, st) => Leaves(Reported(i, st), i, st)')
    <3>. SUFFICES ASSUME base # None, NEW a \in Nat, a = Reported(i, st), Leaves(a, i, st)
                  PROVE  Leaves(Reported(i, st), i, st)'
      BY <2>3
    <3>1. Leaves(a, i, st)'
      BY <2>2
    <3>. QED  BY <2>4, <3>1 DEF Leaves
  <2>6. Leaves(OfStack(true[i], st), i, st) => Leaves(OfStack(true[i], st), i, st)'
    <3>. SUFFICES ASSUME NEW a \in Nat, a = OfStack(true[i], st), Leaves(a, i, st)
                  PROVE  Leaves(OfStack(true[i], st), i, st)'
      BY <2>3
    <3>1. Leaves(a, i, st)'
      BY <2>2
    <3>. QED  BY <2>4, <3>1 DEF Leaves
  <2>. QED  BY <1>2, <1>6, <1>12, <2>1, <2>4, <2>5, <2>6 DEF RoomAt
<1>. QED  BY <1>7, <1>8, <1>9, <1>10, <1>11, <1>13, <1>15, <1>16, <1>17

-----------------------------------------------------------------------------
(***************************************************************************)
(* ProfileDiff: a profile is taken.                                        *)
(***************************************************************************)

\* when its profile is scraped,
LEMMA ScrapeDiff == ASSUME ProfileInv, ScrapeProfile PROVE ProfileInv'
<1>. USE DEF ProfileInv
<1>1. /\ sampleType = 0 /\ order # <<>> /\ sampleType' = 1 /\ true' = count
      /\ UNCHANGED <<profileType, count, order, cache, base, uploaded, total,
                     SampleTypes, First>>
  BY DEF ScrapeProfile, SampleTypes, First
<1>. DEFINE S(n) == [pos |-> n, stack |-> StackOf[order[n]],
                     value |-> [i \in SampleTypes |-> count[i][order[n]]]]
<1>2. samples' = {S(n) : n \in 1 .. Len(order)}
  BY DEF ScrapeProfile
<1>3. /\ Len(order) \in Nat /\ \A n \in 1 .. Len(order) : order[n] \in Sites
      /\ \A s \in Sites : StackOf[s] \in Stacks
      /\ \A i \in SampleTypes : i \in Nat /\ i >= 1
      /\ profileType.types \in Nat /\ First \in SampleTypes
  BY TypeFacts
<1>4. \A i \in SampleTypes, s \in Sites : count[i][s] \in Nat
  BY DEF DiffTypes, Values
<1>5. ASSUME NEW n \in 1 .. Len(order)
      PROVE  /\ S(n) \in Sample /\ S(n).pos = n /\ S(n).stack = StackOf[order[n]]
             /\ \A i \in SampleTypes : S(n).value[i] = count[i][order[n]]
  <2>1. S(n).value \in [SampleTypes -> Nat]
    BY <1>3, <1>4
  <2>2. S(n).stack \in Stacks /\ S(n).pos \in Nat
    BY <1>3
  <2>. QED  BY <2>1, <2>2 DEF Sample
<1>. HIDE DEF S
<1>6. IsFiniteSet(samples')
  <2>. DEFINE f == [n \in 1 .. Len(order) |-> S(n)]
  <2>1. f \in Surjection(1 .. Len(order), samples')
    BY <1>2 DEF Surjection
  <2>2. IsFiniteSet(1 .. Len(order))
    BY <1>3, FS_Interval
  <2>. HIDE DEF f
  <2>. QED  BY <2>1, <2>2, FS_Surjection
<1>7. DiffTypes'
  <2>1. sampleType' \in 0 .. profileType.types + 1
    BY <1>1, <1>3
  <2>2. \A r \in samples' : r \in Sample'
    BY <1>1, <1>2, <1>5 DEF Sample
  <2>. QED  BY <1>1, <1>6, <2>1, <2>2 DEF DiffTypes, Values
<1>8. Distinct' /\ Cached'
  <2>1. Distinct'
    BY <1>1, <1>2, <1>5 DEF Distinct
  <2>2. \A i \in SampleTypes : sampleType <= i /\ sampleType' <= i
    BY <1>1, <1>3
  <2>. QED  BY <1>1, <2>1, <2>2 DEF Cached, IsCumulative, Zero
<1>9. \A s : IsReached(s)' = IsReached(s) /\ Newest(s)' = Newest(s)
  BY <1>1 DEF IsReached, Newest
<1>10. Grown'
  BY <1>1, <1>4, <1>9 DEF Grown, IsCumulative
<1>11. \A st : Alone(st)' = Alone(st)
  BY <1>9 DEF Alone
<1>12. Merging'
  <2>. SUFFICES ASSUME NEW n \in 1 .. Len(order), NEW m \in 1 .. Len(order),
                       StackOf[order[n]] = StackOf[order[m]],
                       1 > First \/ Alone(StackOf[order[n]])
                PROVE  n = m
    BY <1>1, <1>2, <1>5, <1>11 DEF Merging
  <2>1. ~(1 > First)
    BY <1>3
  <2>2. order[n] = order[m]
    BY <1>3, <2>1 DEF Alone, IsReached
  <2>. QED  BY <2>2 DEF Distinct
<1>13. ASSUME NEW i \in SampleTypes, NEW st \in Stacks
       PROVE  Summed(i, OfSamples(st))' = OfStack(count[i], st)
  <2>. DEFINE A == {s \in Sites : StackOf[s] = st}
              R == OfSamples(st)'
              e == [r \in R |-> r.value[i]]
              b == [r \in R |-> order[r.pos]]
  <2>1. IsFiniteSet(A) /\ IsFiniteSet(R)
    BY <1>6, ProfileDiffAssumption, FS_Subset DEF OfSamples
  <2>2. \A x \in A : count[i][x] \in Nat
    BY <1>4
  <2>3. \A r \in R : \E n \in 1 .. Len(order) : r = S(n) /\ StackOf[order[n]] = st
    BY <1>2, <1>5 DEF OfSamples
  <2>4. \A n \in 1 .. Len(order) : StackOf[order[n]] = st => S(n) \in R
    BY <1>2, <1>5 DEF OfSamples
  <2>. HIDE DEF R
  <2>5. \A r \in R : b[r] \in A /\ e[r] = count[i][b[r]]
    BY <1>3, <1>5, <2>3
  <2>6. ASSUME NEW r \in R, NEW q \in R, b[r] = b[q] PROVE r = q
    <3>1. PICK n, m \in 1 .. Len(order) : r = S(n) /\ q = S(m)
      BY <2>3
    <3>2. order[n] = order[m]
      BY <1>5, <2>6, <3>1
    <3>. QED  BY <3>1, <3>2 DEF Distinct
  <2>7. ASSUME NEW x \in A, count[i][x] # 0 PROVE \E r \in R : b[r] = x
    <3>1. PICK n \in 1 .. Len(order) : order[n] = x
      BY <2>7 DEF Grown, IsReached
    <3>. QED  BY <1>5, <2>4, <3>1
  <2>. HIDE DEF A, e, b
  <2>8. SumFunctionOnSet(e, R) = SumFunctionOnSet(count[i], A)
    BY <2>1, <2>2, <2>5, <2>6, <2>7, SumOver
  <2>. QED  BY <2>8 DEF Summed, OfStack, OfSamples, A, R, e
<1>14. Whole'
  BY <1>1, <1>13 DEF Whole, OfStack, IsCumulative
<1>15. \A i \in SampleTypes : sampleType' <= i /\ ~(sampleType' > i)
  BY <1>1, <1>3
<1>16. ASSUME NEW i \in SampleTypes, NEW st \in Stacks
       PROVE  /\ OfStack(true[i], st) \in Nat /\ OfStack(count[i], st) \in Nat
              /\ IsCumulative(i) => OfStack(true[i], st) <= OfStack(count[i], st)
              /\ Reported(i, st)' = Reported(i, st)
              /\ OfStack(true[i], st)' = OfStack(count[i], st)
  <2>1. true[i] \in [Sites -> Nat] /\ count[i] \in [Sites -> Nat]
    BY DEF DiffTypes, Values
  <2>2. IsCumulative(i) => \A s \in Sites : true[i][s] <= count[i][s]
    BY DEF Grown
  <2>. QED  BY <1>1, <2>1, <2>2, OfStackIsNat, OfStackUp DEF Reported, OfStack
<1>17. Exactly'
  <2>. SUFFICES ASSUME NEW i \in SampleTypes, NEW st \in Stacks, Precise(i, st), IsCumulative(i),
                       base # None
                PROVE  cache[i][st] = Reported(i, st) /\ cache[i][st] <= OfStack(count[i], st)
    <3>1. sampleType' # 0 /\ \A i : IsCumulative(i)' = IsCumulative(i)
      BY <1>1 DEF IsCumulative
    <3>2. \A i, st : Precise(i, st)' = Precise(i, st)
      BY <1>1, <1>11 DEF Precise
    <3>. QED  BY <1>1, <1>15, <1>16, <3>1, <3>2 DEF Exactly, ExactAt
  <2>1. sampleType <= i
    BY <1>1, <1>3
  <2>2. cache[i][st] = Reported(i, st) /\ cache[i][st] = OfStack(true[i], st)
    BY <1>1, <2>1 DEF Exactly, ExactAt
  <2>. QED  BY <1>16, <2>2
<1>18. \A r : IsFirst(r)' <=> \A q \in samples' : q.stack = r.stack => r.pos <= q.pos
  BY DEF IsFirst, OfSamples
<1>19. ASSUME NEW n \in 1 .. Len(order), NEW r, r = S(n), IsFirst(r)'
       PROVE  Newest(order[n])
  <2>. SUFFICES ASSUME NEW m \in 1 .. n - 1, StackOf[order[m]] = StackOf[order[n]]
                PROVE  FALSE
    BY DEF Newest
  <2>1. m \in 1 .. Len(order) /\ m < n
    BY <1>3
  <2>2. PICK q : q = S(m)
    OBVIOUS
  <2>3. q \in samples' /\ q.pos = m /\ r.pos = n /\ q.stack = r.stack
    BY <1>2, <1>5, <1>19, <2>1, <2>2
  <2>4. r.pos <= q.pos
    BY <1>18, <1>19, <2>3
  <2>. QED  BY <2>1, <2>3, <2>4
<1>20. Sourced'
  <2>. SUFFICES ASSUME NEW s \in Sites, Newest(s)
                PROVE  \E r \in samples' : /\ IsFirst(r)' /\ r.stack = StackOf[s]
                                           /\ \A i \in SampleTypes : r.value[i] = count[i][s]
    BY <1>1, <1>9 DEF Sourced
  <2>1. PICK n \in 1 .. Len(order) :
          order[n] = s /\ \A m \in 1 .. n - 1 : StackOf[order[m]] # StackOf[s]
    BY DEF Newest
  <2>2. ASSUME NEW q \in samples', q.stack = StackOf[s] PROVE n <= q.pos
    <3>1. PICK m \in 1 .. Len(order) : q = S(m)
      BY <1>2
    <3>2. StackOf[order[m]] = StackOf[s] /\ q.pos = m
      BY <1>5, <2>2, <3>1
    <3>3. m \notin 1 .. n - 1
      BY <2>1, <3>2
    <3>. QED  BY <1>3, <3>2, <3>3
  <2>3. PICK r : r = S(n)
    OBVIOUS
  <2>4. /\ r \in samples' /\ r.pos = n /\ r.stack = StackOf[s]
        /\ \A i \in SampleTypes : r.value[i] = count[i][s]
    BY <1>2, <1>5, <2>1, <2>3
  <2>5. IsFirst(r)'
    BY <1>18, <2>2, <2>4
  <2>. QED  BY <2>4, <2>5
<1>21. RoomLeft'
  <2>. SUFFICES ASSUME NEW i \in SampleTypes, NEW st \in Stacks, IsCumulative(i), i # First,
                       base # None
                PROVE  /\ Reported(i, st) <= OfStack(count[i], st)
                       /\ \A r \in OfSamples(st)' : IsFirst(r)' =>
                            Reported(i, st) + Delta(i, st, r.value[i]) <= OfStack(count[i], st)
    BY <1>1, <1>15, <1>16 DEF RoomLeft, RoomAt, Delta, IsCumulative
  <2>1. Leaves(Reported(i, st), i, st)
    BY <1>1 DEF RoomLeft, RoomAt
  <2>2. ASSUME NEW r \in OfSamples(st)', IsFirst(r)'
        PROVE  Reported(i, st) + Delta(i, st, r.value[i]) <= OfStack(count[i], st)
    <3>1. PICK n \in 1 .. Len(order) : r = S(n) /\ StackOf[order[n]] = st
      BY <1>2, <1>5 DEF OfSamples
    <3>2. Newest(order[n]) /\ order[n] \in Sites /\ r.value[i] = count[i][order[n]]
      BY <1>3, <1>5, <1>19, <2>2, <3>1
    <3>. QED  BY <2>1, <3>1, <3>2 DEF Leaves
  <2>. QED  BY <2>1, <2>2 DEF Leaves
<1>. QED  BY <1>7, <1>8, <1>10, <1>12, <1>14, <1>17, <1>20, <1>21

-----------------------------------------------------------------------------
(***************************************************************************)
(* ProfileDiff: one sample type is merged and subtracted.                  *)
(***************************************************************************)

\* A stack that has samples has a first one, and only one.
LEMMA FirstSample ==
  ASSUME DiffTypes, NEW st, OfSamples(st) # {}
  PROVE  \E r \in OfSamples(st) : IsFirst(r)
<1>. DEFINE N == {n \in Nat : \A r \in OfSamples(st) : r.pos > n}
<1>1. \A r \in OfSamples(st) : r.pos \in Nat /\ r.stack = st
  BY DEF OfSamples, DiffTypes, Sample
<1>2. CASE \E r \in OfSamples(st) : r.pos = 0
  BY <1>1, <1>2 DEF IsFirst
<1>3. CASE \A r \in OfSamples(st) : r.pos # 0
  <2>1. 0 \in N
    BY <1>1, <1>3
  <2>2. \E n \in Nat : n \in N /\ n + 1 \notin N
    <3>. SUFFICES ASSUME \A n \in Nat : n \in N => n + 1 \in N PROVE FALSE
      OBVIOUS
    <3>1. Nat \subseteq N
      <4>. HIDE DEF N
      <4>. QED  BY <2>1, AllNumbers
    <3>2. PICK r \in OfSamples(st) : TRUE
      OBVIOUS
    <3>3. r.pos \in Nat /\ r.pos > r.pos
      BY <1>1, <3>1
    <3>. QED  BY <3>3
  <2>3. PICK n \in Nat : n \in N /\ n + 1 \notin N
    BY <2>2
  <2>4. PICK r \in OfSamples(st) : ~(r.pos > n + 1)
    BY <2>3
  <2>5. \A q \in OfSamples(st) : r.pos <= q.pos
    BY <1>1, <2>3, <2>4
  <2>. QED  BY <1>1, <2>5 DEF IsFirst
<1>. QED  BY <1>2, <1>3

LEMMA OneFirst ==
  ASSUME DiffTypes, Distinct, NEW r \in samples, NEW q \in samples, r.stack = q.stack,
         IsFirst(r), IsFirst(q)
  PROVE  r = q
<1>1. r.pos <= q.pos /\ q.pos <= r.pos /\ r.pos \in Nat /\ q.pos \in Nat
  BY DEF IsFirst, OfSamples, DiffTypes, Sample
<1>2. r.pos = q.pos
  BY <1>1
<1>. QED  BY <1>2 DEF Distinct

\* m is left of r, with v in sample type i.
Rest(m, r, i, v) ==
  /\ m \in Sample /\ m.pos = r.pos /\ m.stack = r.stack /\ m.value[i] = v
  /\ \A j \in SampleTypes : j # i => m.value[j] = r.value[j]

\* EXCEPT leaves that.
LEMMA RestOfIt ==
  ASSUME NEW r \in Sample, NEW i \in SampleTypes, NEW v \in Nat
  PROVE  Rest([r EXCEPT !.value[i] = v], r, i, v)
<1>. DEFINE m == [r EXCEPT !.value[i] = v]
            w == [r.value EXCEPT ![i] = v]
<1>1. r.value \in [SampleTypes -> Nat] /\ r.pos \in Nat /\ r.stack \in Stacks
  BY DEF Sample
<1>2. w \in [SampleTypes -> Nat] /\ w[i] = v /\ \A j \in SampleTypes : j # i => w[j] = r.value[j]
  BY <1>1
<1>3. m = [r EXCEPT !.value = w]
  OBVIOUS
<1>. HIDE DEF w
<1>4. [r EXCEPT !.value = w] = [pos |-> r.pos, stack |-> r.stack, value |-> w]
  BY <1>1 DEF Sample
<1>. HIDE DEF m
<1>5. m \in Sample /\ m.pos = r.pos /\ m.stack = r.stack /\ m.value = w
  BY <1>1, <1>2, <1>3, <1>4 DEF Sample
<1>. QED  BY <1>2, <1>5 DEF Rest, m

\* What is left of the samples: of each stack the first, with w of the stack.
LeftOver(M, i, w) ==
  /\ IsFiniteSet(M) /\ \A m \in M : m \in Sample
  /\ \A m \in M : \E r \in samples : IsFirst(r) /\ Rest(m, r, i, w[r.stack])
  /\ \A st \in Stacks : OfSamples(st) # {} => \E m \in M : m.stack = st
  /\ \A m, n \in M : m.stack = n.stack => m = n

\* Merging leaves the sums,
LEMMA MergedLeaves ==
  ASSUME DiffTypes, Distinct, NEW i \in SampleTypes
  PROVE  LeftOver(Merged(i), i, [st \in Stacks |-> Summed(i, OfSamples(st))])
<1>. DEFINE w == [st \in Stacks |-> Summed(i, OfSamples(st))]
            F == {r \in samples : IsFirst(r)}
            Cut(r) == [r EXCEPT !.value[i] = w[r.stack]]
<1>1. \A r \in samples : r \in Sample /\ r.stack \in Stacks
  BY DEF DiffTypes, Sample
<1>2. \A st \in Stacks : w[st] \in Nat /\ w[st] = Summed(i, OfSamples(st))
  BY NumberFacts
<1>. HIDE DEF w
<1>3. Merged(i) = {Cut(r) : r \in F}
  <2>1. \A r \in F : Cut(r) = [r EXCEPT !.value[i] = Summed(i, OfSamples(r.stack))]
    BY <1>1, <1>2
  <2>2. Merged(i) = {[r EXCEPT !.value[i] = Summed(i, OfSamples(r.stack))] : r \in F}
    BY DEF Merged, OfSamples, IsFirst
  <2>. HIDE DEF Cut, F
  <2>. QED  BY <2>1, <2>2
<1>4. \A r \in F : Rest(Cut(r), r, i, w[r.stack])
  BY <1>1, <1>2, RestOfIt
<1>. HIDE DEF Cut
<1>5. \A m \in Merged(i) : \E r \in F : m = Cut(r) /\ Rest(m, r, i, w[r.stack])
  BY <1>3, <1>4
<1>6. \A m \in Merged(i) : m \in Sample
  BY <1>5 DEF Rest
<1>7. IsFiniteSet(Merged(i))
  <2>. DEFINE f == [r \in F |-> Cut(r)]
  <2>1. f \in Surjection(F, Merged(i))
    BY <1>3 DEF Surjection
  <2>2. IsFiniteSet(F)
    BY FS_Subset DEF DiffTypes
  <2>. HIDE DEF f, F
  <2>. QED  BY <2>1, <2>2, FS_Surjection
<1>8. ASSUME NEW st \in Stacks, OfSamples(st) # {} PROVE \E m \in Merged(i) : m.stack = st
  <2>1. PICK r \in OfSamples(st) : IsFirst(r)
    BY <1>8, FirstSample
  <2>2. r \in F /\ r.stack = st
    BY <2>1 DEF OfSamples
  <2>. QED  BY <1>3, <1>4, <2>2 DEF Rest
<1>9. ASSUME NEW m \in Merged(i), NEW n \in Merged(i), m.stack = n.stack PROVE m = n
  <2>1. PICK r \in F : m = Cut(r) /\ m.stack = r.stack
    BY <1>5 DEF Rest
  <2>2. PICK q \in F : n = Cut(q) /\ n.stack = q.stack
    BY <1>5 DEF Rest
  <2>3. r = q
    BY <1>9, <2>1, <2>2, OneFirst
  <2>. QED  BY <2>1, <2>2, <2>3
<1>. QED  BY <1>5, <1>6, <1>7, <1>8, <1>9 DEF LeftOver, w

\* and subtracting the differences of the sums.
LEMMA IncreaseLeaves ==
  ASSUME DiffTypes, Distinct, NEW i \in SampleTypes
  PROVE  LeftOver({Increase(i, s) : s \in Merged(i)}, i,
                  [st \in Stacks |-> Delta(i, st, Summed(i, OfSamples(st)))])
<1>. DEFINE w == [st \in Stacks |-> Summed(i, OfSamples(st))]
            d == [st \in Stacks |-> Delta(i, st, Summed(i, OfSamples(st)))]
            M == Merged(i)
            I == {Increase(i, s) : s \in M}
<1>1. LeftOver(M, i, w)
  BY MergedLeaves
<1>2. \A st \in Stacks : w[st] \in Nat /\ d[st] \in Nat /\ d[st] = Delta(i, st, w[st])
  BY NumberFacts
<1>. HIDE DEF w, d, M
<1>3. \A m \in M : m \in Sample /\ m.stack \in Stacks /\ m.value[i] \in Nat
  BY <1>1 DEF LeftOver, Sample
<1>4. ASSUME NEW m \in M PROVE Rest(Increase(i, m), m, i, Delta(i, m.stack, m.value[i]))
  <2>1. CASE cache[i] # None /\ m.value[i] >= cache[i][m.stack]
    <3>1. Delta(i, m.stack, m.value[i]) = m.value[i] - cache[i][m.stack]
      BY <2>1 DEF Delta
    <3>2. m.value[i] - cache[i][m.stack] \in Nat
      BY <1>3, <2>1, <3>1, NumberFacts
    <3>3. Increase(i, m) = [m EXCEPT !.value[i] = m.value[i] - cache[i][m.stack]]
      BY <2>1 DEF Increase
    <3>. QED  BY <1>3, <3>1, <3>2, <3>3, RestOfIt
  <2>2. CASE ~(cache[i] # None /\ m.value[i] >= cache[i][m.stack])
    BY <1>3, <2>2 DEF Increase, Delta, Rest
  <2>. QED  BY <2>1, <2>2
<1>5. ASSUME NEW m \in M
      PROVE  \E r \in samples : IsFirst(r) /\ Rest(Increase(i, m), r, i, d[r.stack])
  <2>1. PICK r \in samples : IsFirst(r) /\ Rest(m, r, i, w[r.stack])
    BY <1>1 DEF LeftOver
  <2>2. r.stack \in Stacks
    BY DEF DiffTypes, Sample
  <2>3. Delta(i, m.stack, m.value[i]) = d[r.stack]
    BY <1>2, <2>1, <2>2 DEF Rest
  <2>4. Rest(Increase(i, m), m, i, d[r.stack])
    BY <1>4, <2>3
  <2>5. Rest(Increase(i, m), r, i, d[r.stack])
    BY <2>1, <2>4 DEF Rest
  <2>. QED  BY <2>1, <2>5
<1>6. \A m \in M : Increase(i, m) \in Sample /\ Increase(i, m).stack = m.stack
  BY <1>4 DEF Rest
<1>7. IsFiniteSet(I)
  <2>. DEFINE f == [m \in M |-> Increase(i, m)]
  <2>1. f \in Surjection(M, I)
    BY DEF Surjection
  <2>2. IsFiniteSet(M)
    BY <1>1 DEF LeftOver
  <2>. HIDE DEF f, I
  <2>. QED  BY <2>1, <2>2, FS_Surjection
<1>8. \A s \in I : s \in Sample /\ \E r \in samples : IsFirst(r) /\ Rest(s, r, i, d[r.stack])
  BY <1>5, <1>6
<1>9. \A st \in Stacks : OfSamples(st) # {} => \E s \in I : s.stack = st
  BY <1>1, <1>6 DEF LeftOver
<1>10. \A s, t \in I : s.stack = t.stack => s = t
  BY <1>1, <1>6 DEF LeftOver
<1>. QED  BY <1>7, <1>8, <1>9, <1>10 DEF LeftOver, d, M

\* What is left of a stack, and what it sums up to.
LEMMA LeftOverFacts ==
  ASSUME DiffTypes, Distinct, NEW M, NEW i \in SampleTypes, NEW w \in [Stacks -> Nat],
         LeftOver(M, i, w), NEW st \in Stacks
  PROVE  LET Left(S) == {m \in S : m.stack = st} IN
         /\ OfSamples(st) = {} => \A j \in SampleTypes : Summed(j, Left(M)) = 0
         /\ OfSamples(st) # {} =>
              \E r \in OfSamples(st), m \in M :
                /\ Left(M) = {m} /\ IsFirst(r) /\ Rest(m, r, i, w[st])
                /\ \A j \in SampleTypes : Summed(j, Left(M)) = m.value[j]
<1>. DEFINE Mine == {m \in M : m.stack = st}
<1>1. /\ IsFiniteSet(M) /\ \A m \in M : m \in Sample
      /\ \A m \in M : \E r \in samples : IsFirst(r) /\ Rest(m, r, i, w[r.stack])
      /\ OfSamples(st) # {} => \E m \in M : m.stack = st
      /\ \A m, n \in M : m.stack = n.stack => m = n
  BY DEF LeftOver
<1>2. IsFiniteSet(Mine) /\ \A m \in Mine : m \in Sample
  BY <1>1, FS_Subset
<1>3. ASSUME OfSamples(st) = {}, NEW j \in SampleTypes PROVE Summed(j, Mine) = 0
  <2>1. ASSUME NEW m \in Mine PROVE FALSE
    <3>1. PICK r \in samples : Rest(m, r, i, w[r.stack])
      BY <1>1
    <3>2. r \in OfSamples(st)
      BY <3>1 DEF Rest, OfSamples
    <3>. QED  BY <1>3, <3>2
  <2>2. Mine = {}
    BY <2>1
  <2>. HIDE DEF Mine
  <2>. QED  BY <1>2, <2>2, SummedFacts
<1>4. ASSUME OfSamples(st) # {}
      PROVE  \E r \in OfSamples(st), m \in M :
               /\ Mine = {m} /\ IsFirst(r) /\ Rest(m, r, i, w[st])
               /\ \A j \in SampleTypes : Summed(j, Mine) = m.value[j]
  <2>1. PICK m \in M : m.stack = st
    BY <1>1, <1>4
  <2>2. PICK r \in samples : IsFirst(r) /\ Rest(m, r, i, w[r.stack])
    BY <1>1
  <2>3. r \in OfSamples(st) /\ r.stack = st
    BY <2>1, <2>2 DEF Rest, OfSamples
  <2>4. Mine = {m}
    BY <1>1, <2>1
  <2>5. \A j \in SampleTypes : Summed(j, Mine) = m.value[j]
    <3>. HIDE DEF Mine
    <3>. QED  BY <1>2, <2>4, SummedFacts
  <2>. QED  BY <2>2, <2>3, <2>4, <2>5
<1>. QED  BY <1>3, <1>4

\* The cache after sample type i: the sum, or what it was.
RememberedAt(i, st) ==
  IF OfSamples(st) # {} THEN Summed(i, OfSamples(st))
  ELSE IF cache[i] = None THEN 0 ELSE cache[i][st]

\* That is what diff puts into the cache.
LEMMA RememberedIs ==
  ASSUME DiffTypes, Distinct, NEW i \in SampleTypes, NEW st \in Stacks
  PROVE  /\ Remembered(i, Merged(i)) \in [Stacks -> Nat]
         /\ Remembered(i, Merged(i))[st] = RememberedAt(i, st)
<1>. DEFINE M == Merged(i)
            w == [t \in Stacks |-> Summed(i, OfSamples(t))]
<1>1. LeftOver(M, i, w)
  BY MergedLeaves
<1>2. \A t \in Stacks : w[t] \in Nat /\ w[t] = Summed(i, OfSamples(t))
  BY NumberFacts
<1>3. \A m \in M : m \in Sample /\ m.value[i] = w[m.stack] /\ OfSamples(m.stack) # {}
  <2>. HIDE DEF M, w
  <2>. QED  BY <1>1 DEF LeftOver, Rest, OfSamples
<1>4. \A t \in Stacks : OfSamples(t) # {} => \E m \in M : m.stack = t
  BY <1>1 DEF LeftOver
<1>5. \A t \in Stacks : cache[i] # None => cache[i][t] \in Nat
  BY NumberFacts
<1>. HIDE DEF M, w
<1>6. ASSUME NEW t \in Stacks PROVE Remembered(i, M)[t] = RememberedAt(i, t)
  <2>1. CASE OfSamples(t) # {}
    <3>1. \E s \in M : s.stack = t
      BY <1>4, <2>1
    <3>2. /\ (CHOOSE s \in M : s.stack = t) \in M
          /\ (CHOOSE s \in M : s.stack = t).stack = t
      BY <3>1
    <3>3. (CHOOSE s \in M : s.stack = t).value[i] = Summed(i, OfSamples(t))
      BY <1>2, <1>3, <3>2
    <3>. QED  BY <2>1, <3>1, <3>3 DEF Remembered, RememberedAt
  <2>2. CASE OfSamples(t) = {}
    <3>1. ~\E s \in M : s.stack = t
      BY <1>3, <2>2
    <3>. QED  BY <2>2, <3>1 DEF Remembered, RememberedAt
  <2>. QED  BY <2>1, <2>2
<1>7. \A t \in Stacks : RememberedAt(i, t) \in Nat
  BY <1>2, <1>5 DEF RememberedAt
<1>8. \A t \in Stacks : Remembered(i, M)[t] \in Nat
  BY <1>6, <1>7
<1>9. Remembered(i, M) = [t \in Stacks |-> Remembered(i, M)[t]]
  BY DEF Remembered
<1>10. Remembered(i, M) \in [Stacks -> Nat]
  <2>. DEFINE R == Remembered(i, M)
  <2>1. R = [t \in Stacks |-> R[t]] /\ \A t \in Stacks : R[t] \in Nat
    BY <1>8, <1>9
  <2>. HIDE DEF R
  <2>2. R \in [Stacks -> Nat]
    BY <2>1
  <2>. QED  BY <2>2 DEF R
<1>. QED  BY <1>6, <1>10 DEF M

\* A step of the loop: what becomes of the samples and of the cache.
Turn(i) ==
  \/ /\ i \in profileType.skipped
     /\ UNCHANGED <<samples, cache>>
  \/ /\ i \notin profileType.skipped /\ ~IsCumulative(i)
     /\ LeftOver(samples', i, [st \in Stacks |-> Summed(i, OfSamples(st))])
     /\ UNCHANGED cache
  \/ /\ IsCumulative(i)
     /\ LeftOver(samples', i, [st \in Stacks |-> Delta(i, st, Summed(i, OfSamples(st)))])
     /\ cache' \in [SampleTypes -> [Stacks -> Nat] \cup {None}]
     /\ cache'[i] \in [Stacks -> Nat]
     /\ \A j \in SampleTypes : j # i => cache'[j] = cache[j]
     /\ \A st \in Stacks : cache'[i][st] = RememberedAt(i, st)

\* A turn of the loop is such a step,
LEMMA DiffTurns ==
  ASSUME ProfileInv, DiffSampleType
  PROVE  /\ sampleType \in SampleTypes /\ sampleType' = sampleType + 1 /\ Turn(sampleType)
         /\ UNCHANGED <<profileType, count, order, true, base, uploaded, total,
                        SampleTypes, First>>
<1>. DEFINE i == sampleType
<1>1. /\ i \in SampleTypes /\ sampleType' = i + 1
      /\ UNCHANGED <<profileType, count, order, true, base, uploaded, total,
                     SampleTypes, First>>
  BY DEF DiffSampleType, SampleTypes, First
<1>2. \/ i \in profileType.skipped /\ UNCHANGED <<samples, cache>>
      \/ i \notin profileType.skipped /\ ~IsCumulative(i) /\ samples' = Merged(i) /\ UNCHANGED cache
      \/ IsCumulative(i) /\ samples' = {Increase(i, s) : s \in Merged(i)}
         /\ cache' = [cache EXCEPT ![i] = Remembered(i, Merged(i))]
  BY DEF DiffSampleType, IsCumulative
<1>. HIDE DEF i
<1>3. /\ LeftOver(Merged(i), i, [st \in Stacks |-> Summed(i, OfSamples(st))])
      /\ LeftOver({Increase(i, s) : s \in Merged(i)}, i,
                  [st \in Stacks |-> Delta(i, st, Summed(i, OfSamples(st)))])
  BY <1>1, MergedLeaves, IncreaseLeaves DEF ProfileInv
<1>4. ASSUME cache' = [cache EXCEPT ![i] = Remembered(i, Merged(i))]
      PROVE  /\ cache' \in [SampleTypes -> [Stacks -> Nat] \cup {None}]
             /\ cache'[i] \in [Stacks -> Nat]
             /\ \A j \in SampleTypes : j # i => cache'[j] = cache[j]
             /\ \A st \in Stacks : cache'[i][st] = RememberedAt(i, st)
  <2>. DEFINE R == Remembered(i, Merged(i))
  <2>1. \A st \in Stacks : R \in [Stacks -> Nat] /\ R[st] = RememberedAt(i, st)
    BY <1>1, RememberedIs DEF ProfileInv
  <2>2. R \in [Stacks -> Nat]
    <3>1. CASE Stacks = {}
      <4>1. R = [st \in {} |-> 0]
        BY <3>1 DEF Remembered
      <4>. QED  BY <3>1, <4>1
    <3>2. CASE Stacks # {}
      BY <2>1, <3>2
    <3>. QED  BY <3>1, <3>2
  <2>3. cache \in [SampleTypes -> [Stacks -> Nat] \cup {None}]
    BY DEF ProfileInv, DiffTypes
  <2>4. cache' = [cache EXCEPT ![i] = R]
    BY <1>4
  <2>. HIDE DEF R
  <2>5. cache'[i] = R /\ \A j \in SampleTypes : j # i => cache'[j] = cache[j]
    BY <1>1, <2>3, <2>4
  <2>6. cache' \in [SampleTypes -> [Stacks -> Nat] \cup {None}]
    BY <2>2, <2>3, <2>4
  <2>. QED  BY <2>1, <2>2, <2>5, <2>6
<1>5. Turn(i)
  BY <1>2, <1>3, <1>4 DEF Turn
<1>. QED  BY <1>1, <1>5 DEF i

\* Sample types other than the one of the turn, and the samples that are left.
LEMMA TurnFacts ==
  ASSUME ProfileInv, NEW i \in SampleTypes, i = sampleType, Turn(i),
         UNCHANGED <<profileType, SampleTypes, First>>, NEW st \in Stacks
  PROVE  /\ OfSamples(st) = {} => \A j \in SampleTypes : Summed(j, OfSamples(st)') = 0
         /\ OfSamples(st) # {} =>
              \E r \in OfSamples(st), m \in samples' :
                /\ OfSamples(st)' = {m} \/ i \in profileType.skipped
                /\ IsFirst(r) /\ IsFirst(m)' /\ m.stack = st
                /\ \A j \in SampleTypes : j # i \/ i \in profileType.skipped
                                            => m.value[j] = r.value[j]
         /\ \A m \in OfSamples(st)' : IsFirst(m)' =>
              \E r \in OfSamples(st) :
                /\ IsFirst(r) /\ \A j \in SampleTypes : j # i => m.value[j] = r.value[j]
<1>. USE DEF ProfileInv
<1>1. CASE i \in profileType.skipped
  <2>1. samples' = samples /\ OfSamples(st)' = OfSamples(st)
    BY <1>1, TypeFacts DEF Turn, OfSamples
  <2>2. \A r : IsFirst(r)' <=> IsFirst(r)
    BY <2>1 DEF IsFirst, OfSamples
  <2>3. OfSamples(st) = {} => \A j \in SampleTypes : Summed(j, OfSamples(st)) = 0
    BY NumberFacts
  <2>4. OfSamples(st) # {} => \E r \in OfSamples(st) : IsFirst(r)
    BY FirstSample
  <2>5. \A r \in OfSamples(st) : r.stack = st /\ r \in samples
    BY DEF OfSamples
  <2>. QED  BY <1>1, <2>1, <2>2, <2>3, <2>4, <2>5
<1>2. CASE i \notin profileType.skipped
  <2>1. PICK w \in [Stacks -> Nat] : LeftOver(samples', i, w)
    <3>1. \A t \in Stacks : /\ Summed(i, OfSamples(t)) \in Nat
                            /\ Delta(i, t, Summed(i, OfSamples(t))) \in Nat
      BY NumberFacts
    <3>2. /\ [t \in Stacks |-> Summed(i, OfSamples(t))] \in [Stacks -> Nat]
          /\ [t \in Stacks |-> Delta(i, t, Summed(i, OfSamples(t)))] \in [Stacks -> Nat]
      BY <3>1
    <3>. QED  BY <1>2, <3>2 DEF Turn
  <2>2. OfSamples(st)' = {m \in samples' : m.stack = st}
    BY DEF OfSamples
  <2>3. OfSamples(st) = {} => \A j \in SampleTypes : Summed(j, OfSamples(st)') = 0
    BY <2>1, <2>2, LeftOverFacts
  <2>4. ASSUME NEW m \in samples' PROVE IsFirst(m)'
    <3>1. \A n \in samples' : n.stack = m.stack => n = m
      BY <2>1 DEF LeftOver
    <3>2. m.pos \in Nat
      BY <2>1 DEF LeftOver, Sample
    <3>. QED  BY <3>1, <3>2 DEF IsFirst, OfSamples
  <2>5. ASSUME OfSamples(st) # {}
        PROVE  \E r \in OfSamples(st), m \in samples' :
                 OfSamples(st)' = {m} /\ IsFirst(r) /\ Rest(m, r, i, w[st])
    <3>1. \E r \in OfSamples(st), m \in samples' :
            {n \in samples' : n.stack = st} = {m} /\ IsFirst(r) /\ Rest(m, r, i, w[st])
      BY <2>1, <2>5, LeftOverFacts
    <3>. QED  BY <2>2, <3>1
  <2>6. \A m \in samples' : \E r \in samples : IsFirst(r) /\ Rest(m, r, i, w[r.stack])
    BY <2>1 DEF LeftOver
  <2>7. ASSUME NEW m \in OfSamples(st)'
        PROVE  \E r \in OfSamples(st) :
                /\ IsFirst(r) /\ \A j \in SampleTypes : j # i => m.value[j] = r.value[j]
    BY <2>2, <2>6 DEF Rest, OfSamples
  <2>8. ASSUME OfSamples(st) # {}
        PROVE  \E r \in OfSamples(st), m \in samples' :
                /\ OfSamples(st)' = {m} /\ IsFirst(r) /\ IsFirst(m)' /\ m.stack = st
                /\ \A j \in SampleTypes : j # i => m.value[j] = r.value[j]
    <3>1. PICK r \in OfSamples(st), m \in samples' :
            OfSamples(st)' = {m} /\ IsFirst(r) /\ Rest(m, r, i, w[st])
      BY <2>5, <2>8
    <3>2. m.stack = st
      BY <2>2, <3>1
    <3>. QED  BY <2>4, <3>1, <3>2 DEF Rest
  <2>. QED  BY <1>2, <2>3, <2>7, <2>8
<1>. QED  BY <1>1, <1>2

\* The sum of a stack that has one sample at most does not change.
LEMMA SumStays ==
  ASSUME ProfileInv, NEW i \in SampleTypes, i = sampleType, Turn(i),
         UNCHANGED <<profileType, SampleTypes, First>>, NEW st \in Stacks,
         sampleType > First \/ Alone(st) \/ i \in profileType.skipped,
         NEW j \in SampleTypes, j # i \/ i \in profileType.skipped
  PROVE  Summed(j, OfSamples(st)') = Summed(j, OfSamples(st))
<1>. USE DEF ProfileInv
<1>1. CASE i \in profileType.skipped
  BY <1>1, TypeFacts DEF Turn, OfSamples
<1>2. CASE OfSamples(st) = {}
  BY <1>2, TurnFacts, NumberFacts
<1>3. CASE i \notin profileType.skipped /\ OfSamples(st) # {}
  <2>1. PICK r \in OfSamples(st), m \in samples' :
          OfSamples(st)' = {m} /\ m.value[j] = r.value[j]
    BY <1>3, TurnFacts
  <2>2. OfSamples(st) = {r}
    BY <1>3 DEF Merging, OfSamples
  <2>3. Summed(j, OfSamples(st)) = r.value[j]
    BY <2>2, NumberFacts
  <2>4. Summed(j, {m}) = m.value[j]
    <3>1. m \in Sample
      BY <1>3, TypeFacts DEF Turn, LeftOver
    <3>2. IsFiniteSet({m})
      BY FS_Singleton
    <3>. QED  BY <3>1, <3>2, SummedFacts
  <2>. QED  BY <2>1, <2>3, <2>4
<1>. QED  BY <1>1, <1>2, <1>3

\* The sum of sample type i itself, when the loop has come to it.
LEMMA TurnSum ==
  ASSUME ProfileInv, NEW i \in SampleTypes, i = sampleType, Turn(i),
         UNCHANGED <<profileType, SampleTypes, First>>, NEW st \in Stacks,
         i \notin profileType.skipped
  PROVE  Summed(i, OfSamples(st)') = IF IsCumulative(i)
                                     THEN Delta(i, st, Summed(i, OfSamples(st)))
                                     ELSE Summed(i, OfSamples(st))
<1>. DEFINE v(t) == IF IsCumulative(i) THEN Delta(i, t, Summed(i, OfSamples(t)))
                                       ELSE Summed(i, OfSamples(t))
<1>1. DiffTypes /\ Distinct
  BY DEF ProfileInv
<1>2. PICK w \in [Stacks -> Nat] : LeftOver(samples', i, w) /\ w[st] = v(st)
  <2>1. \A t \in Stacks : /\ Summed(i, OfSamples(t)) \in Nat
                          /\ Delta(i, t, Summed(i, OfSamples(t))) \in Nat
    BY <1>1, NumberFacts
  <2>2. /\ [t \in Stacks |-> Summed(i, OfSamples(t))] \in [Stacks -> Nat]
        /\ [t \in Stacks |-> Delta(i, t, Summed(i, OfSamples(t)))] \in [Stacks -> Nat]
    BY <2>1
  <2>. QED  BY <2>2 DEF Turn
<1>3. OfSamples(st)' = {m \in samples' : m.stack = st}
  BY DEF OfSamples
<1>4. CASE OfSamples(st) = {}
  <2>1. Summed(i, OfSamples(st)') = 0
    BY <1>1, <1>2, <1>3, <1>4, LeftOverFacts
  <2>2. Summed(i, OfSamples(st)) = 0
    BY <1>1, <1>4, NumberFacts
  <2>3. Delta(i, st, 0) \in Nat /\ Delta(i, st, 0) <= 0
    BY <1>1, NumberFacts
  <2>4. Delta(i, st, 0) = 0
    BY <2>3
  <2>. QED  BY <2>1, <2>2, <2>4
<1>5. CASE OfSamples(st) # {}
  <2>1. PICK r \in OfSamples(st), m \in samples' :
          Rest(m, r, i, w[st]) /\ Summed(i, {n \in samples' : n.stack = st}) = m.value[i]
    BY <1>1, <1>2, <1>5, LeftOverFacts
  <2>2. m.value[i] = v(st)
    BY <1>2, <2>1 DEF Rest
  <2>. QED  BY <1>3, <2>1, <2>2
<1>. QED  BY <1>4, <1>5

\* Of the sample types that are not passed over, First is the first.
LEMMA AfterFirst ==
  ASSUME DiffTypes, NEW i \in SampleTypes, i \notin profileType.skipped
  PROVE  i = First \/ i > First
<1>1. First \in Nat /\ i \in Nat /\ ~(i < First)
  BY TypeFacts
<1>. QED  BY <1>1

\* The turn keeps what is said of the samples and the cache,
LEMMA TurnKeepsSamples ==
  ASSUME ProfileInv, NEW i \in SampleTypes, i = sampleType, sampleType' = i + 1, Turn(i),
         UNCHANGED <<profileType, count, order, true, base, uploaded, total,
                     SampleTypes, First>>
  PROVE  (DiffTypes /\ Distinct /\ Grown /\ Cached /\ Merging)'
<1>. USE DEF ProfileInv
<1>1. /\ profileType.types \in Nat /\ First \in Nat
      /\ \A j \in SampleTypes : j \in Nat /\ j >= 1 /\ j <= profileType.types
      /\ First \notin profileType.skipped
      /\ \A j \in SampleTypes : IsCumulative(j) => j \notin profileType.skipped
      /\ None \notin [Stacks -> Nat]
  BY TypeFacts
<1>2. \/ i \in profileType.skipped /\ samples' = samples
      \/ \E w : LeftOver(samples', i, w) /\ i \notin profileType.skipped
  BY <1>1 DEF Turn
<1>3. DiffTypes'
  <2>1. IsFiniteSet(samples') /\ \A r \in samples' : r \in Sample
    BY <1>2 DEF DiffTypes, LeftOver
  <2>2. sampleType' \in 0 .. profileType.types + 1
    BY <1>1
  <2>3. cache' \in [SampleTypes -> [Stacks -> Nat] \cup {None}]
    BY DEF DiffTypes, Turn
  <2>4. Sample' = Sample /\ Values' = Values
    BY DEF Sample, Values
  <2>. QED  BY <2>1, <2>2, <2>3, <2>4 DEF DiffTypes
<1>4. Distinct'
  <2>1. ASSUME NEW m \in samples', NEW n \in samples', m.pos = n.pos PROVE m = n
    <3>1. CASE samples' = samples
      BY <2>1, <3>1 DEF Distinct
    <3>2. CASE \E w : LeftOver(samples', i, w)
      <4>1. PICK w : LeftOver(samples', i, w)
        BY <3>2
      <4>2. PICK r \in samples : r.pos = m.pos /\ r.stack = m.stack
        BY <4>1 DEF LeftOver, Rest
      <4>3. PICK q \in samples : q.pos = n.pos /\ q.stack = n.stack
        BY <4>1 DEF LeftOver, Rest
      <4>4. r = q
        BY <2>1, <4>2, <4>3 DEF Distinct
      <4>. QED  BY <4>1, <4>2, <4>3, <4>4 DEF LeftOver
    <3>. QED  BY <1>2, <3>1, <3>2
  <2>2. sampleType' # 0
    BY <1>1
  <2>. QED  BY <2>1, <2>2 DEF Distinct
<1>5. Grown'
  BY DEF Grown, IsReached, IsCumulative
<1>6. Cached'
  <2>1. base' = None => total' = Zero(Stacks)'
    BY DEF Cached, Zero
  <2>2. ASSUME NEW j \in SampleTypes, IsCumulative(j)
        PROVE  cache'[j] = None <=> base = None /\ i + 1 <= j
    <3>1. CASE j = i
      <4>1. i \in Nat /\ ~(i + 1 <= i) /\ i \notin profileType.skipped
        BY <1>1, <2>2, <3>1
      <4>2. cache'[i] \in [Stacks -> Nat]
        BY <2>2, <3>1, <4>1 DEF Turn
      <4>. QED  BY <1>1, <3>1, <4>1, <4>2
    <3>2. CASE j # i
      <4>1. cache'[j] = cache[j]
        BY <3>2 DEF Turn
      <4>2. i + 1 <= j <=> sampleType <= j
        BY <1>1, <3>2
      <4>. QED  BY <2>2, <4>1, <4>2 DEF Cached
    <3>. QED  BY <3>1, <3>2
  <2>. QED  BY <2>1, <2>2 DEF Cached, IsCumulative
<1>7. Merging'
  <2>. SUFFICES ASSUME NEW r \in samples', NEW q \in samples', r.stack = q.stack,
                       i + 1 > First \/ Alone(r.stack)
                PROVE  r = q
    <3>1. \A st : Alone(st)' = Alone(st)
      BY DEF Alone, IsReached
    <3>. QED  BY <3>1 DEF Merging
  <2>1. CASE i \in profileType.skipped /\ samples' = samples
    <3>1. i + 1 > First => i > First
      BY <1>1, <2>1
    <3>. QED  BY <2>1, <3>1 DEF Merging
  <2>2. CASE \E w : LeftOver(samples', i, w)
    BY <2>2 DEF LeftOver
  <2>. QED  BY <1>2, <2>1, <2>2
<1>. QED  BY <1>3, <1>4, <1>5, <1>6, <1>7

\* the sums that are reported in full,
LEMMA TurnKeepsExact ==
  ASSUME ProfileInv, NEW i \in SampleTypes, i = sampleType, sampleType' = i + 1, Turn(i),
         UNCHANGED <<profileType, count, order, true, base, uploaded, total,
                     SampleTypes, First>>
  PROVE  (Whole /\ Exactly)'
<1>. USE DEF ProfileInv
<1>1. /\ \A j \in SampleTypes : j \in Nat /\ j >= 1
      /\ First \in Nat /\ First \in SampleTypes /\ First \notin profileType.skipped
      /\ \A j \in SampleTypes : IsCumulative(j) => j \notin profileType.skipped
  BY TypeFacts
<1>2. i \in profileType.skipped \/ i = First \/ i > First
  BY AfterFirst
<1>3. ASSUME NEW j \in SampleTypes, NEW st \in Stacks, Precise(j, st),
             j # i \/ i \in profileType.skipped
      PROVE  Summed(j, OfSamples(st)') = Summed(j, OfSamples(st))
  <2>1. sampleType > First \/ Alone(st) \/ i \in profileType.skipped
    BY <1>2, <1>3 DEF Precise
  <2>. QED  BY <1>3, <2>1, SumStays
<1>4. \A j, st : Precise(j, st)' = Precise(j, st)
  BY DEF Precise, Alone, IsReached
<1>5. /\ \A j : IsCumulative(j)' = IsCumulative(j)
      /\ \A j, st : OfStack(true[j], st)' = OfStack(true[j], st)
      /\ \A j, st : Reported(j, st)' = Reported(j, st)
      /\ \A j, st : Summed(j, OfSamples(st))' = Summed(j, OfSamples(st)')
  BY DEF IsCumulative, OfStack, Reported, Summed
<1>6. ASSUME NEW j \in SampleTypes, NEW st \in Stacks, Precise(j, st),
             j >= i + 1 \/ ~IsCumulative(j)
      PROVE  Summed(j, OfSamples(st)') = OfStack(true[j], st)
  <2>0. i \in Nat /\ j \in Nat /\ i >= 1
    BY <1>1
  <2>1. j >= sampleType \/ ~IsCumulative(j)
    BY <1>6, <2>0
  <2>2. sampleType # 0
    BY <2>0
  <2>3. Summed(j, OfSamples(st)) = OfStack(true[j], st)
    BY <1>6, <2>1, <2>2 DEF Whole
  <2>4. CASE j # i \/ i \in profileType.skipped
    BY <1>3, <1>6, <2>3, <2>4
  <2>5. CASE j = i /\ i \notin profileType.skipped
    <3>1. ~IsCumulative(i)
      BY <1>6, <2>0, <2>5
    <3>. QED  BY <2>3, <2>5, <3>1, TurnSum
  <2>. QED  BY <2>4, <2>5
<1>7. Whole'
  BY <1>4, <1>5, <1>6 DEF Whole
<1>8. ASSUME NEW j \in SampleTypes, NEW st \in Stacks, Precise(j, st), IsCumulative(j), j # i
      PROVE  ExactAt(j, st)'
  <2>1. ExactAt(j, st)
    BY <1>8 DEF Exactly
  <2>2. cache'[j] = cache[j]
    BY <1>8 DEF Turn
  <2>3. Summed(j, OfSamples(st)') = Summed(j, OfSamples(st))
    BY <1>3, <1>8
  <2>4. /\ sampleType' # 0 /\ (sampleType' <= j => sampleType <= j)
        /\ (sampleType' > j => sampleType > j) /\ base' = base
    BY <1>1, <1>8
  <2>. DEFINE T == OfStack(true[j], st)
              b == Reported(j, st)
              w == Summed(j, OfSamples(st))
  <2>5. /\ base # None /\ sampleType <= j => cache[j][st] = b /\ cache[j][st] <= T
        /\ sampleType > j => cache[j][st] = T
        /\ base # None /\ sampleType > j => b + w = T
    BY <1>8, <2>1 DEF ExactAt
  <2>. HIDE DEF T, b, w
  <2>6. /\ base' # None /\ sampleType' <= j => cache'[j][st] = b /\ cache'[j][st] <= T
        /\ sampleType' > j => cache'[j][st] = T
        /\ base' # None /\ sampleType' > j => b + w = T
    BY <2>2, <2>4, <2>5
  <2>7. b' = b /\ T' = T /\ Summed(j, OfSamples(st))' = w
    BY <1>5, <2>3 DEF b, T, w
  <2>. QED  BY <1>5, <1>8, <2>4, <2>6, <2>7 DEF ExactAt, T, b
<1>9. ASSUME NEW st \in Stacks, Precise(i, st), IsCumulative(i)
      PROVE  ExactAt(i, st)'
  <2>. DEFINE T == OfStack(true[i], st)
              c == cache[i][st]
              b == Reported(i, st)
  <2>1. Summed(i, OfSamples(st)) = T
    <3>1. sampleType # 0 /\ i >= sampleType
      BY <1>1
    <3>. QED  BY <1>9, <3>1 DEF Whole
  <2>2. i \notin profileType.skipped /\ i <= i /\ i \in Nat
    BY <1>1, <1>9
  <2>3. cache[i] # None <=> base # None
    BY <1>9, <2>2 DEF Cached
  <2>4. base # None => c = b /\ c <= T
    BY <1>9, <2>2 DEF Exactly, ExactAt
  <2>5. T \in Nat /\ (base # None => c \in Nat /\ b \in Nat) /\ (OfSamples(st) = {} => T = 0)
    BY <2>1, <2>3, NumberFacts
  <2>6. cache'[i][st] = RememberedAt(i, st)
    BY <1>9, <2>2 DEF Turn
  <2>7. Summed(i, OfSamples(st)') = Delta(i, st, T)
    BY <1>9, <2>1, <2>2, TurnSum
  <2>8. base # None => Delta(i, st, T) = T - b
    BY <2>3, <2>4, <2>5 DEF Delta
  <2>. HIDE DEF T, c, b
  <2>9. RememberedAt(i, st) = T
    <3>1. CASE OfSamples(st) # {}
      BY <2>1, <3>1 DEF RememberedAt
    <3>2. CASE OfSamples(st) = {}
      <4>1. T = 0
        BY <2>5, <3>2
      <4>2. base # None => c = 0
        BY <2>4, <2>5, <4>1
      <4>. QED  BY <2>3, <3>2, <4>1, <4>2 DEF RememberedAt, c
    <3>. QED  BY <3>1, <3>2
  <2>10. base # None => b + Summed(i, OfSamples(st)') = T
    BY <2>4, <2>5, <2>7, <2>8
  <2>11. ~(sampleType' <= i) /\ sampleType' # 0
    BY <2>2
  <2>. QED  BY <1>5, <1>9, <2>6, <2>9, <2>10, <2>11 DEF ExactAt, T, b
<1>10. ASSUME NEW j \in SampleTypes, NEW st \in Stacks, ~IsCumulative(j)
       PROVE  ExactAt(j, st)'
  <2>1. sampleType' # 0
    BY <1>1
  <2>. QED  BY <1>5, <1>10, <2>1 DEF ExactAt
<1>11. Exactly'
  BY <1>4, <1>8, <1>9, <1>10 DEF Exactly
<1>. QED  BY <1>7, <1>11

\* and the room of the others.
LEMMA TurnKeepsRoom ==
  ASSUME ProfileInv, NEW i \in SampleTypes, i = sampleType, sampleType' = i + 1, Turn(i),
         UNCHANGED <<profileType, count, order, true, base, uploaded, total,
                     SampleTypes, First>>
  PROVE  (Sourced /\ RoomLeft)'
<1>. USE DEF ProfileInv
<1>1. /\ \A j \in SampleTypes : j \in Nat /\ j >= 1
      /\ First \in Nat /\ sampleType \in Nat
      /\ \A j \in SampleTypes : IsCumulative(j) => j \notin profileType.skipped
      /\ \A s \in Sites : StackOf[s] \in Stacks
      /\ None \notin [Stacks -> Nat]
  BY TypeFacts
<1>2. /\ \A j : IsCumulative(j)' = IsCumulative(j)
      /\ \A s : Newest(s)' = Newest(s)
      /\ \A j, st : OfStack(true[j], st)' = OfStack(true[j], st)
      /\ \A j, st : OfStack(count[j], st)' = OfStack(count[j], st)
      /\ \A j, st : Reported(j, st)' = Reported(j, st)
      /\ \A j, st : Summed(j, OfSamples(st))' = Summed(j, OfSamples(st)')
  BY DEF IsCumulative, Newest, OfStack, Reported, Summed
<1>3. \A j \in SampleTypes : j # i => cache'[j] = cache[j]
  BY DEF Turn
<1>4. ASSUME NEW j \in SampleTypes, j # i, NEW st PROVE \A v : Delta(j, st, v)' = Delta(j, st, v)
  BY <1>3, <1>4 DEF Delta
<1>5. Sourced'
  <2>. SUFFICES ASSUME NEW s \in Sites, Newest(s), ~\A j \in SampleTypes : true[j][s] = 0
                PROVE  \E m \in samples' :
                         /\ IsFirst(m)' /\ m.stack = StackOf[s]
                         /\ \A j \in SampleTypes : j >= i + 1 => m.value[j] = true[j][s]
    BY <1>2 DEF Sourced
  <2>1. PICK r \in samples :
          /\ IsFirst(r) /\ r.stack = StackOf[s]
          /\ \A j \in SampleTypes : j >= sampleType => r.value[j] = true[j][s]
    <3>1. sampleType # 0
      BY <1>1
    <3>. QED  BY <3>1 DEF Sourced
  <2>2. StackOf[s] \in Stacks /\ r \in OfSamples(StackOf[s])
    BY <1>1, <2>1 DEF OfSamples
  <2>3. PICK q \in OfSamples(StackOf[s]), m \in samples' :
          /\ IsFirst(q) /\ IsFirst(m)' /\ m.stack = StackOf[s]
          /\ \A j \in SampleTypes : j # i \/ i \in profileType.skipped => m.value[j] = q.value[j]
    BY <2>2, TurnFacts
  <2>4. q = r
    BY <2>1, <2>3, OneFirst DEF OfSamples
  <2>5. \A j \in SampleTypes : j >= i + 1 => j # i /\ j >= sampleType
    BY <1>1
  <2>. QED  BY <2>1, <2>3, <2>4, <2>5
<1>6. ASSUME NEW j \in SampleTypes, NEW st \in Stacks, IsCumulative(j), j # First, j # i
      PROVE  RoomAt(j, st)'
  <2>1. RoomAt(j, st)
    BY <1>6 DEF RoomLeft
  <2>2. /\ sampleType' # 0 /\ ~(sampleType' = 0)
        /\ sampleType' \in 1 .. j => sampleType \in 1 .. j
        /\ sampleType' > j => sampleType > j
    BY <1>1, <1>6
  <2>3. sampleType' > j => Summed(j, OfSamples(st)') = Summed(j, OfSamples(st))
    <3>. SUFFICES ASSUME sampleType > j
                  PROVE  Summed(j, OfSamples(st)') = Summed(j, OfSamples(st))
      BY <2>2
    <3>1. j > First
      BY <1>1, <1>6, AfterFirst
    <3>2. sampleType > First
      BY <1>1, <3>1
    <3>. QED  BY <1>6, <3>2, SumStays
  <2>4. ASSUME base # None, sampleType \in 1 .. j, NEW m \in OfSamples(st)', IsFirst(m)'
        PROVE  Reported(j, st) + Delta(j, st, m.value[j]) <= OfStack(true[j], st)
    <3>1. PICK r \in OfSamples(st) : IsFirst(r) /\ m.value[j] = r.value[j]
      BY <1>6, <2>4, TurnFacts
    <3>. QED  BY <2>1, <2>4, <3>1 DEF RoomAt
  <2>6. sampleType' > j => Leaves(OfStack(true[j], st), j, st)'
    <3>1. ASSUME sampleType > j PROVE Leaves(OfStack(true[j], st), j, st)'
      <4>1. Leaves(OfStack(true[j], st), j, st)
        BY <2>1, <3>1 DEF RoomAt
      <4>2. \A s : Delta(j, st, count[j][s])' = Delta(j, st, count[j][s])
        BY <1>3, <1>6 DEF Delta
      <4>. QED  BY <1>2, <4>1, <4>2 DEF Leaves
    <3>. QED  BY <2>2, <3>1
  <2>7. base' # None /\ sampleType' \in 1 .. j =>
       /\ Reported(j, st)' <= OfStack(true[j], st)'
       /\ \A m \in OfSamples(st)' : IsFirst(m)' =>
            Reported(j, st)' + Delta(j, st, m.value[j])' <= OfStack(true[j], st)'
    <3>1. ASSUME base # None, sampleType \in 1 .. j PROVE Reported(j, st) <= OfStack(true[j], st)
      BY <2>1, <3>1 DEF RoomAt
    <3>2. \A m : Delta(j, st, m.value[j])' = Delta(j, st, m.value[j])
      BY <1>3, <1>6 DEF Delta
    <3>. QED  BY <1>2, <2>2, <2>4, <3>1, <3>2
  <2>8. base' # None /\ sampleType' > j =>
         Reported(j, st)' + Summed(j, OfSamples(st))' <= OfStack(true[j], st)'
    <3>1. base # None /\ sampleType > j =>
            Reported(j, st) + Summed(j, OfSamples(st)) <= OfStack(true[j], st)
      BY <2>1 DEF RoomAt
    <3>. QED  BY <1>2, <2>2, <2>3, <3>1
  <2>. QED  BY <2>2, <2>6, <2>7, <2>8 DEF RoomAt
<1>7. ASSUME NEW st \in Stacks, IsCumulative(i), i # First
      PROVE  RoomAt(i, st)'
  <2>. DEFINE T == OfStack(true[i], st)
              C == OfStack(count[i], st)
              W == Summed(i, OfSamples(st))
              c == RememberedAt(i, st)
  <2>1. i \in Nat /\ i \notin profileType.skipped /\ i >= 1 /\ i > First
    BY <1>1, <1>7, AfterFirst
  <2>2. RoomAt(i, st)
    BY <1>7 DEF RoomLeft
  <2>3. \A r \in OfSamples(st) : OfSamples(st) = {r} /\ IsFirst(r) /\ W = r.value[i]
    <3>1. ASSUME NEW r \in OfSamples(st) PROVE OfSamples(st) = {r}
      BY <2>1 DEF Merging, OfSamples
    <3>2. ASSUME NEW r \in OfSamples(st) PROVE r.stack = st /\ r.pos \in Nat
      BY DEF OfSamples, DiffTypes, Sample
    <3>3. ASSUME NEW r \in OfSamples(st) PROVE IsFirst(r)
      BY <3>1, <3>2 DEF IsFirst
    <3>. QED  BY <3>1, <3>3, NumberFacts
  <2>4. cache'[i][st] = c /\ cache'[i] # None
    BY <1>1, <1>7, <2>1 DEF Turn
  <2>5. /\ T \in Nat /\ C \in Nat /\ W \in Nat /\ (base # None => Reported(i, st) \in Nat)
        /\ \A s \in Sites : true[i][s] \in Nat /\ count[i][s] \in Nat
        /\ OfSamples(st) = {} => W = 0
    BY NumberFacts
  <2>6. T <= C /\ \A s \in Sites : StackOf[s] = st => T + count[i][s] <= C + true[i][s]
    <3>1. true[i] \in [Sites -> Nat] /\ count[i] \in [Sites -> Nat]
      BY DEF DiffTypes, Values
    <3>2. \A s \in Sites : true[i][s] <= count[i][s]
      BY <1>7 DEF Grown
    <3>. QED  BY <3>1, <3>2, OfStackUp
  <2>7. c \in Nat
    BY <2>5, NumberFacts DEF RememberedAt
  <2>8. Summed(i, OfSamples(st)') = Delta(i, st, W)
    BY <1>7, <2>1, TurnSum
  <2>9. sampleType \in 1 .. i
    BY <2>1
  <2>10. base # None => Reported(i, st) <= T
    BY <2>2, <2>9 DEF RoomAt
  <2>11. base # None /\ OfSamples(st) # {} => Reported(i, st) + Delta(i, st, W) <= T
    BY <2>2, <2>3, <2>9 DEF RoomAt
  <2>12. Delta(i, st, 0) = 0
    <3>1. Delta(i, st, 0) \in Nat /\ Delta(i, st, 0) <= 0
      BY NumberFacts
    <3>. QED  BY <3>1
  <2>. HIDE DEF T, C, W, c
  <2>13. base # None => Reported(i, st) + Summed(i, OfSamples(st)') <= T
    BY <2>5, <2>8, <2>10, <2>11, <2>12
  <2>14. ASSUME NEW s \in Sites, Newest(s), StackOf[s] = st
         PROVE  T + Delta(i, st, count[i][s])' <= C
    <3>. DEFINE n == count[i][s]
                t == true[i][s]
    <3>1. n \in Nat /\ t \in Nat /\ T + n <= C + t /\ t <= n
      BY <1>7, <2>5, <2>6, <2>14 DEF Grown
    <3>2. Delta(i, st, count[i][s])' = IF n >= c THEN n - c ELSE n
      BY <2>4 DEF Delta
    <3>3. t = 0 \/ c = t
      <4>. SUFFICES ASSUME t # 0 PROVE c = t
        OBVIOUS
      <4>1. sampleType # 0 /\ i >= sampleType
        BY <2>1
      <4>2. PICK r \in samples : r.stack = StackOf[s] /\ r.value[i] = t
        BY <2>14, <4>1 DEF Sourced
      <4>3. r \in OfSamples(st)
        BY <2>14, <4>2 DEF OfSamples
      <4>4. W = t
        BY <2>3, <4>2, <4>3
      <4>. QED  BY <4>3, <4>4 DEF RememberedAt, W, c
    <3>. HIDE DEF n, t
    <3>. QED  BY <2>5, <2>7, <3>1, <3>2, <3>3
  <2>15. Leaves(T, i, st)'
    BY <1>2, <2>6, <2>14 DEF Leaves, T, C
  <2>16. sampleType' # 0 /\ sampleType' \notin 1 .. i
    BY <2>1
  <2>. QED  BY <1>2, <2>13, <2>15, <2>16 DEF RoomAt, T
<1>8. RoomLeft'
  BY <1>2, <1>6, <1>7 DEF RoomLeft
<1>. QED  BY <1>5, <1>8

\* after a turn of the loop,
LEMMA DiffDiff == ASSUME ProfileInv, DiffSampleType PROVE ProfileInv'
<1>1. PICK i \in SampleTypes : i = sampleType
  BY DiffTurns
<1>2. /\ sampleType' = i + 1 /\ Turn(i)
      /\ UNCHANGED <<profileType, count, order, true, base, uploaded, total,
                     SampleTypes, First>>
  BY <1>1, DiffTurns
<1>3. (DiffTypes /\ Distinct /\ Grown /\ Cached /\ Merging)'
  BY <1>1, <1>2, TurnKeepsSamples
<1>4. (Whole /\ Exactly)'
  BY <1>1, <1>2, TurnKeepsExact
<1>5. (Sourced /\ RoomLeft)'
  BY <1>1, <1>2, TurnKeepsRoom
<1>. QED  BY <1>3, <1>4, <1>5 DEF ProfileInv

\* after the upload,
LEMMA UploadDiff == ASSUME ProfileInv, UploadProfile PROVE ProfileInv'
<1>. USE DEF ProfileInv
<1>1. /\ sampleType = profileType.types + 1 /\ sampleType' = 0 /\ samples' = {}
      /\ uploaded' = [i \in SampleTypes |-> [st \in Stacks |->
                        Summed(i, {s \in samples : s.stack = st})]]
      /\ UNCHANGED <<profileType, count, order, cache, true, SampleTypes, First>>
  BY DEF UploadProfile, SampleTypes, First
<1>2. /\ \A i \in SampleTypes : i \in Nat /\ i >= 1 /\ i <= profileType.types
      /\ profileType.types \in Nat /\ None \notin Values
  BY TypeFacts
<1>3. \A i \in SampleTypes :
        /\ sampleType > i /\ sampleType # 0 /\ ~(sampleType <= i)
        /\ sampleType' <= i /\ ~(sampleType' > i) /\ sampleType' \notin 1 .. i
  BY <1>1, <1>2
<1>4. base' = IF base = None THEN true ELSE base
  BY DEF UploadProfile
<1>5. base' # None /\ base' \in Values
  BY <1>2, <1>4 DEF DiffTypes
<1>6. \A i \in SampleTypes, st \in Stacks :
        uploaded'[i][st] = Summed(i, OfSamples(st)) /\ Summed(i, OfSamples(st)) \in Nat
  BY <1>1, NumberFacts DEF OfSamples
<1>7. uploaded' \in [SampleTypes -> [Stacks -> Nat]]
  <2>. DEFINE u(i, st) == Summed(i, {s \in samples : s.stack = st})
  <2>1. \A i \in SampleTypes, st \in Stacks : u(i, st) \in Nat
    BY <1>6 DEF OfSamples
  <2>2. uploaded' = [i \in SampleTypes |-> [st \in Stacks |-> u(i, st)]]
    BY <1>1
  <2>. HIDE DEF u
  <2>. QED  BY <2>1, <2>2
<1>8. ASSUME base # None
      PROVE  /\ total' \in [SampleTypes -> [Stacks -> Nat]]
             /\ \A i \in SampleTypes, st \in Stacks : IsCumulative(i) =>
                  total'[i][st] = total[i][st] + Summed(i, OfSamples(st))
  <2>. DEFINE t(i, st) == IF i \in profileType.cumulative
                          THEN total[i][st] + uploaded'[i][st] ELSE 0
  <2>1. \A i \in SampleTypes, st \in Stacks : t(i, st) \in Nat
    <3>. SUFFICES ASSUME NEW i \in SampleTypes, NEW st \in Stacks PROVE t(i, st) \in Nat
      OBVIOUS
    <3>1. total[i][st] \in Nat /\ uploaded'[i][st] \in Nat
      BY <1>6, NumberFacts
    <3>. QED  BY <3>1
  <2>2. \A i \in SampleTypes, st \in Stacks : IsCumulative(i) =>
          t(i, st) = total[i][st] + Summed(i, OfSamples(st))
    BY <1>6 DEF IsCumulative
  <2>3. total' = [i \in SampleTypes |-> [st \in Stacks |-> t(i, st)]]
    BY <1>8 DEF UploadProfile
  <2>. HIDE DEF t
  <2>. QED  BY <2>1, <2>2, <2>3
<1>9. base = None => total' = total /\ total = Zero(Stacks)
  BY DEF UploadProfile, Cached
<1>10. DiffTypes'
  <2>1. total' \in [SampleTypes -> [Stacks -> Nat]]
    BY <1>8, <1>9 DEF DiffTypes
  <2>2. IsFiniteSet(samples')
    BY <1>1, FS_EmptySet
  <2>3. sampleType' \in 0 .. profileType.types + 1
    BY <1>1, <1>2
  <2>. QED  BY <1>1, <1>5, <1>7, <2>1, <2>2, <2>3 DEF DiffTypes, Values
<1>11. (Distinct /\ Grown /\ Merging /\ Whole /\ Sourced)'
  BY <1>1 DEF Distinct, Grown, IsReached, IsCumulative, Merging, Whole, Sourced
<1>12. Cached'
  BY <1>1, <1>3, <1>5 DEF Cached, IsCumulative
<1>13. ASSUME NEW i \in SampleTypes, NEW st \in Stacks, IsCumulative(i)
       PROVE  Reported(i, st)' = IF base = None THEN OfStack(true[i], st)
                                 ELSE Reported(i, st) + Summed(i, OfSamples(st))
  <2>1. CASE base = None
    <3>1. Reported(i, st)' = total'[i][st] + OfStack(true[i], st)
      BY <1>4, <2>1 DEF Reported, OfStack
    <3>2. total'[i][st] = 0 /\ OfStack(true[i], st) \in Nat
      BY <1>9, <2>1, NumberFacts DEF Zero
    <3>. QED  BY <2>1, <3>1, <3>2
  <2>2. CASE base # None
    <3>1. /\ Reported(i, st)' = total'[i][st] + OfStack(base[i], st)
          /\ Reported(i, st) = total[i][st] + OfStack(base[i], st)
      BY <1>4, <2>2 DEF Reported, OfStack
    <3>2. OfStack(base[i], st) \in Nat /\ total[i][st] \in Nat /\ Summed(i, OfSamples(st)) \in Nat
      BY <2>2, NumberFacts
    <3>3. total'[i][st] = total[i][st] + Summed(i, OfSamples(st))
      BY <1>8, <1>13, <2>2
    <3>. QED  BY <2>2, <3>1, <3>2, <3>3
  <2>. QED  BY <2>1, <2>2
<1>14. /\ \A i : IsCumulative(i)' = IsCumulative(i)
       /\ \A i, st : Precise(i, st)' = Precise(i, st)
       /\ \A i, st : OfStack(true[i], st)' = OfStack(true[i], st)
  BY <1>1 DEF IsCumulative, Precise, Alone, IsReached, OfStack
<1>15. Exactly'
  <2>. SUFFICES ASSUME NEW i \in SampleTypes, NEW st \in Stacks, Precise(i, st)
                PROVE  ExactAt(i, st)'
    BY <1>1, <1>14 DEF Exactly
  <2>. DEFINE T == OfStack(true[i], st)
  <2>1. ExactAt(i, st) /\ T \in Nat
    BY NumberFacts DEF Exactly
  <2>2. CASE IsCumulative(i)
    <3>1. cache[i][st] = T
      BY <1>3, <2>1, <2>2 DEF ExactAt
    <3>2. Reported(i, st)' = T
      BY <1>3, <1>13, <2>1, <2>2 DEF ExactAt
    <3>3. T' = T /\ T <= T
      BY <1>14, <2>1
    <3>. HIDE DEF T
    <3>4. IsCumulative(i)' /\ ~(sampleType' > i) /\ cache' = cache
      BY <1>1, <1>3, <1>14, <2>2
    <3>. QED  BY <3>1, <3>2, <3>3, <3>4 DEF ExactAt, T
  <2>3. CASE ~IsCumulative(i)
    <3>1. uploaded'[i][st] = T
      BY <1>3, <1>6, <2>3 DEF Whole
    <3>. QED  BY <1>14, <2>3, <3>1 DEF ExactAt
  <2>. QED  BY <2>2, <2>3
<1>16. RoomLeft'
  <2>. SUFFICES ASSUME NEW i \in SampleTypes, NEW st \in Stacks, IsCumulative(i), i # First
                PROVE  RoomAt(i, st)'
    BY <1>1, <1>14 DEF RoomLeft
  <2>. DEFINE T == OfStack(true[i], st)
              a == Reported(i, st)'
  <2>1. Leaves(T, i, st) /\ (base # None => Reported(i, st) + Summed(i, OfSamples(st)) <= T)
    BY <1>3 DEF RoomLeft, RoomAt
  <2>2. /\ T \in Nat /\ Summed(i, OfSamples(st)) \in Nat
        /\ base # None => Reported(i, st) \in Nat
        /\ OfStack(count[i], st) \in Nat
        /\ \A s \in Sites : Delta(i, st, count[i][s]) \in Nat
    BY NumberFacts
  <2>3. a \in Nat /\ a <= T
    BY <1>13, <2>1, <2>2
  <2>. HIDE DEF a, T
  <2>4. PICK b : b = a
    OBVIOUS
  <2>5. Leaves(b, i, st)
    BY <2>1, <2>2, <2>3, <2>4 DEF Leaves
  <2>6. Leaves(Reported(i, st), i, st)'
    <3>1. \A s : Newest(s)' = Newest(s)
      BY <1>1 DEF Newest
    <3>2. /\ OfStack(count[i], st)' = OfStack(count[i], st)
          /\ \A s : Delta(i, st, count[i][s])' = Delta(i, st, count[i][s])
      BY <1>1 DEF OfStack, Delta
    <3>. QED  BY <2>4, <2>5, <3>1, <3>2 DEF Leaves, a
  <2>7. ~(sampleType' > i) /\ sampleType' \notin 1 .. i
    BY <1>3
  <2>. QED  BY <1>14, <2>3, <2>6, <2>7 DEF RoomAt, T, a
<1>. QED  BY <1>10, <1>11, <1>12, <1>15, <1>16

\* and when nothing happens.
LEMMA StutterDiff == ASSUME ProfileInv, UNCHANGED diffVars PROVE ProfileInv'
<1>. USE DEF ProfileInv
<1>1. UNCHANGED <<profileType, count, order, sampleType, samples, cache, true, base, uploaded,
                  total, SampleTypes, First>>
  BY DEF diffVars, SampleTypes, First
<1>2. /\ \A i : IsCumulative(i)' = IsCumulative(i)
      /\ \A s : IsReached(s)' = IsReached(s) /\ Newest(s)' = Newest(s)
      /\ \A r : IsFirst(r)' = IsFirst(r)
      /\ \A i, st : OfStack(true[i], st)' = OfStack(true[i], st)
      /\ \A i, st : Reported(i, st)' = Reported(i, st)
      /\ \A i, st : Summed(i, OfSamples(st))' = Summed(i, OfSamples(st))
  BY <1>1 DEF IsCumulative, IsReached, Newest, IsFirst, OfSamples, OfStack, Reported, Summed
<1>3. \A i, st : Precise(i, st)' = Precise(i, st)
  BY <1>1, <1>2 DEF Precise, Alone
<1>4. (DiffTypes /\ Distinct /\ Grown /\ Cached)'
  BY <1>1, <1>2 DEF DiffTypes, Values, Sample, Distinct, Grown, Cached, Zero
<1>5. (Merging /\ Sourced)'
  BY <1>1, <1>2 DEF Merging, Alone, Sourced
<1>6. (Whole /\ Exactly)'
  BY <1>1, <1>2, <1>3 DEF Whole, Exactly, ExactAt
<1>7. RoomLeft'
  <2>. SUFFICES ASSUME NEW i \in SampleTypes, NEW st \in Stacks, IsCumulative(i), i # First
                PROVE  RoomAt(i, st)'
    BY <1>1, <1>2 DEF RoomLeft
  <2>1. RoomAt(i, st)
    BY DEF RoomLeft
  <2>2. /\ \A v : Delta(i, st, v)' = Delta(i, st, v)
        /\ OfStack(count[i], st)' = OfStack(count[i], st)
        /\ \A s : Delta(i, st, count[i][s])' = Delta(i, st, count[i][s])
        /\ \A r : Delta(i, st, r.value[i])' = Delta(i, st, r.value[i])
        /\ OfSamples(st)' = OfSamples(st)
    BY <1>1 DEF Delta, OfStack, OfSamples
  <2>3. /\ Leaves(Reported(i, st), i, st)' = Leaves(Reported(i, st), i, st)
        /\ Leaves(OfStack(true[i], st), i, st)' = Leaves(OfStack(true[i], st), i, st)
    BY <1>2, <2>2 DEF Leaves
  <2>. QED  BY <1>1, <1>2, <2>1, <2>2, <2>3 DEF RoomAt
<1>. QED  BY <1>4, <1>5, <1>6, <1>7

\* The invariant of diff, for any sites, stacks and profile types.
THEOREM DiffInvariant == DiffSpec => []ProfileInv
<1>1. ProfileInv /\ [DiffNext]_diffVars => ProfileInv'
  BY ReachDiff, ScrapeDiff, DiffDiff, UploadDiff, StutterDiff DEF DiffNext
<1>. QED  BY <1>1, InitDiff, PTL DEF DiffSpec

\* A stack that has one site has no two.
LEMMA OneSite ==
  ASSUME DiffTypes, NEW st,
         Cardinality({s \in Sites : StackOf[s] = st /\ IsReached(s)}) <= 1
  PROVE  Alone(st)
<1>. DEFINE A == {s \in Sites : StackOf[s] = st /\ IsReached(s)}
<1>. SUFFICES ASSUME NEW s \in A, NEW q \in A, s # q PROVE FALSE
  BY DEF Alone
<1>1. IsFiniteSet(A) /\ Cardinality(A) \in Nat
  BY ProfileDiffAssumption, FS_Subset, FS_CardinalityType
<1>2. /\ IsFiniteSet(A \ {s}) /\ Cardinality(A \ {s}) = Cardinality(A) - 1
      /\ Cardinality(A \ {s}) \in Nat
  BY <1>1, FS_RemoveElement, FS_CardinalityType
<1>3. q \in A \ {s}
  OBVIOUS
<1>. HIDE DEF A
<1>4. Cardinality(A \ {s}) = 0
  BY <1>1, <1>2 DEF A
<1>5. A \ {s} = {}
  BY <1>2, <1>4, FS_EmptySet
<1>. QED  BY <1>3, <1>5

\* In every profile after the first, the first sample type that diff looks at is
\* reported in full, and every sample type of a stack that never had two samples:
\* all growth since the first profile, or the value there is.
THEOREM AllIsReported == DiffSpec => []ReportedInFull
<1>1. ASSUME ProfileInv, Uploaded, NEW i \in SampleTypes, NEW st \in Stacks, Precise(i, st)
      PROVE  Exact(i, st)
  <2>1. ExactAt(i, st) /\ base # None /\ sampleType = 0 /\ sampleType <= i
    BY <1>1, TypeFacts DEF ProfileInv, Exactly, Uploaded
  <2>2. CASE IsCumulative(i)
    <3>1. Reported(i, st) = OfStack(true[i], st)
      BY <2>1, <2>2 DEF ExactAt
    <3>2. total[i][st] \in Nat /\ OfStack(base[i], st) \in Nat
      <4>1. base[i] \in [Sites -> Nat]
        BY <1>1, <2>1 DEF ProfileInv, DiffTypes, Values
      <4>. QED  BY <1>1, <4>1, OfStackIsNat, NumberFacts DEF ProfileInv
    <3>. QED  BY <2>2, <3>1, <3>2 DEF Exact, Growth, Reported, IsCumulative
  <2>3. CASE ~IsCumulative(i)
    BY <2>1, <2>3 DEF ExactAt, Exact, IsCumulative
  <2>. QED  BY <2>2, <2>3
<1>2. ProfileInv => FirstTypeExact
  <2>. SUFFICES ASSUME ProfileInv, Uploaded, NEW st \in Stacks PROVE Exact(First, st)
    BY DEF FirstTypeExact, First
  <2>1. First \in SampleTypes
    BY TypeFacts DEF ProfileInv
  <2>. QED  BY <1>1, <2>1 DEF Precise
<1>3. ProfileInv => OthersExactUnlessSplit
  <2>. SUFFICES ASSUME ProfileInv, Uploaded, NEW st \in Stacks,
                       Cardinality({s \in Sites : StackOf[s] = st /\ IsReached(s)}) <= 1
                PROVE  \A i \in SampleTypes : Exact(i, st)
    BY DEF OthersExactUnlessSplit, IsReached
  <2>1. Alone(st)
    BY OneSite DEF ProfileInv
  <2>. QED  BY <1>1, <2>1 DEF Precise
<1>4. ProfileInv => ReportedInFull
  BY <1>2, <1>3 DEF ReportedInFull
<1>. QED  BY <1>4, DiffInvariant, PTL

\* Whichever sample of a stack is left when duplicates are merged for another
\* sample type, the uploads of a cumulative type never exceed the growth.
THEOREM NoMoreThanHappened == DiffSpec => []NeverTooMuch
<1>1. ProfileInv => NeverTooMuch
  <2>. SUFFICES ASSUME ProfileInv, Uploaded, NEW st \in Stacks, NEW i \in profileType.cumulative
                PROVE  total[i][st] <= Growth(i, st)
    BY DEF NeverTooMuch
  <2>1. i \in SampleTypes /\ IsCumulative(i)
    BY ProfileDiffAssumption DEF ProfileInv, DiffTypes, SampleTypes, IsCumulative
  <2>2. base # None /\ sampleType = 0 /\ sampleType <= i
    BY <2>1, TypeFacts DEF ProfileInv, Uploaded
  <2>3. Reported(i, st) <= OfStack(true[i], st)
    <3>1. CASE i = First
      <4>1. ExactAt(i, st)
        BY <2>1, <3>1 DEF ProfileInv, Exactly, Precise
      <4>. QED  BY <2>1, <2>2, <4>1 DEF ExactAt
    <3>2. CASE i # First
      BY <2>1, <2>2, <3>2 DEF ProfileInv, RoomLeft, RoomAt
    <3>. QED  BY <3>1, <3>2
  <2>4. /\ total[i][st] \in Nat /\ OfStack(base[i], st) \in Nat
        /\ OfStack(true[i], st) \in Nat
    <3>1. base[i] \in [Sites -> Nat]
      BY <2>1, <2>2 DEF ProfileInv, DiffTypes, Values
    <3>. QED  BY <2>1, <3>1, OfStackIsNat, NumberFacts DEF ProfileInv
  <2>. QED  BY <2>3, <2>4 DEF Growth, Reported
<1>. QED  BY <1>1, DiffInvariant, PTL
=============================================================================
