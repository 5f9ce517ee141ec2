------------------------------ MODULE Profiles ------------------------------
(***************************************************************************)
(* profiles/profiles.go: targets are discovered from pod events on one     *)
(* goroutine and scraped in rounds on another; a round starts one          *)
(* goroutine per target and profile type, which scrapes, subtracts what    *)
(* the cache remembers, uploads the rest, and is waited for.               *)
(*                                                                         *)
(* A profile is the value of one stack: the counter of the process if the  *)
(* type is cumulative; how samples of equal stacks are merged is left out. *)
(* Service and labels are those of the pod, so the cache is keyed by pod   *)
(* and type.  Pods may use one address in turn, and the events of          *)
(* different pods come in any order (module PodEvents tells why).          *)
(***************************************************************************)
EXTENDS Naturals, FiniteSets

CONSTANTS
  Pods, Addrs,
  Layouts,    \* what the cluster may be like: a set of records of
              \*   ports: pod -> the addresses (ip:port) its process answers at,
              \*   types: the profile types that are scraped,
              \*   changes: bound, pods that come, go or change their annotations
  Cumulative, \* the profile types whose values only grow
  MaxWork,    \* bound: what all processes of a pod do
  MaxFaults,  \* bound: processes that restart, and failing requests
  Nil

Keys    == Pods \X Cumulative
Targets == [addr : Addrs, pod : Pods]

ASSUME ProfilesAssumption ==
  /\ \A l \in Layouts : l.ports \in [Pods -> SUBSET Addrs] /\ l.changes \in Nat
  /\ Nil \notin Targets \cup Addrs \cup Nat
  /\ MaxWork \in Nat /\ MaxFaults \in Nat

VARIABLES
  layout,     \* the layout of this behaviour: never changed
  \* the cluster
  up,         \* the pods that run
  named,      \* pod -> the address its annotations name, Nil: not to be scraped
  counter,    \* pod -> the counter of its process
  \* discoverFromPods
  view,       \* pod -> what the last event told
  pending,    \* the target to add after a removal
  \* shared
  targets,    \* address -> Target
  prevCache,  \* key -> value
  \* scrapeLoop
  jobs,       \* the goroutines of the round: [t, ty, pc, v]
  \* history
  work,       \* pod -> what all its processes did
  arrived,    \* key -> what was uploaded since the key is in the cache
  lossy,      \* the keys one of whose uploads failed since then
  raced,      \* the keys of targets removed while being scraped
  mixed,      \* the pods that another answered for, at its address
  moved,      \* the pods that named two addresses
  changes, faults

cluster == <<layout, up, named, counter, work>>
history == <<arrived, lossy>>
vars == <<cluster, view, pending, targets, prevCache, jobs, history, raced, mixed, moved,
          changes, faults>>

Target(p, a) == [addr |-> a, pod |-> p]
Key(t, ty)   == <<t.pod, ty>>

Init ==
  /\ layout \in Layouts
  /\ up = {} /\ named = [p \in Pods |-> Nil]
  /\ counter = [p \in Pods |-> 0] /\ work = counter
  /\ view = [p \in Pods |-> Nil] /\ pending = Nil
  /\ targets = [a \in Addrs |-> Nil]
  /\ prevCache = [k \in Keys |-> Nil]
  /\ jobs = {}
  /\ arrived = [k \in Keys |-> 0] /\ lossy = {}
  /\ raced = {} /\ mixed = {} /\ moved = {}
  /\ changes = 0 /\ faults = 0

Fault == faults < MaxFaults /\ faults' = faults + 1

-----------------------------------------------------------------------------
(***************************************************************************)
(* The cluster                                                             *)
(***************************************************************************)

agent == <<view, pending, targets, prevCache, jobs, history, raced, mixed, moved>>

Work(p) ==
  /\ p \in up /\ work[p] < MaxWork
  /\ work' = [work EXCEPT ![p] = @ + 1]
  /\ counter' = [counter EXCEPT ![p] = @ + 1]
  /\ UNCHANGED <<layout, up, named, agent, changes, faults>>

ProcessRestarts(p) ==
  /\ counter[p] > 0 /\ Fault
  /\ counter' = [counter EXCEPT ![p] = 0]
  /\ UNCHANGED <<layout, up, named, work, agent, changes>>

Change == changes < layout.changes /\ changes' = changes + 1

\* A pod comes when its addresses are free, perhaps under a name used before.
PodComes(p, a) ==
  /\ Change
  /\ \A q \in up : layout.ports[p] \cap layout.ports[q] = {}
  /\ up' = up \cup {p} /\ named' = [named EXCEPT ![p] = a]
  /\ UNCHANGED <<layout, counter, work, agent, faults>>

PodGoes(p) ==
  /\ p \in up /\ Change
  /\ up' = up \ {p} /\ named' = [named EXCEPT ![p] = Nil]
  /\ counter' = [counter EXCEPT ![p] = 0]
  /\ UNCHANGED <<layout, work, agent, faults>>

AnnotationsChange(p, a) ==
  /\ p \in up /\ a # named[p] /\ Change
  /\ named' = [named EXCEPT ![p] = a]
  /\ UNCHANGED <<layout, up, counter, work, agent, faults>>

-----------------------------------------------------------------------------
(***************************************************************************)
(* discoverFromPods                                                        *)
(***************************************************************************)

\* Mutant: the cache survives the target.
DelTarget_KeepsCache(a) ==
  /\ targets' = [targets EXCEPT ![a] = Nil]
  /\ UNCHANGED <<prevCache, raced>>

\* Removes what is stored at the address, and its part of the cache.
DelTarget(a) ==
  LET keys == {k \in Keys : targets[a] # Nil /\ k[1] = targets[a].pod} IN
  /\ targets' = [targets EXCEPT ![a] = Nil]
  /\ prevCache' = [k \in Keys |-> IF k \in keys THEN Nil ELSE prevCache[k]]
  /\ raced' = raced \cup
       {k \in keys : \E j \in jobs : Key(j.t, j.ty) = k /\ j.pc # "upload"}

AddTarget(t) == targets' = [targets EXCEPT ![t.addr] = t]

discoverOthers == <<cluster, jobs, history, mixed, changes, faults>>

\* An event without a target: a pod is deleted or is not to be scraped any more.
PodDrop(p) ==
  /\ pending = Nil /\ view[p] # Nil /\ named[p] = Nil
  /\ view' = [view EXCEPT ![p] = Nil]
  /\ DelTarget(view[p])
  /\ UNCHANGED <<discoverOthers, pending, moved>>

\* An event with a target: it is added, known, or replaces another in two steps.
\* A target at the former address of the pod stays.
PodPut(p) ==
  LET t == Target(p, named[p])
      stored == targets[named[p]]
  IN  /\ pending = Nil /\ named[p] \notin {view[p], Nil}
      /\ view' = [view EXCEPT ![p] = named[p]]
      /\ moved' = IF view[p] = Nil THEN moved ELSE moved \cup {p}
      /\ \/ stored = Nil /\ AddTarget(t) /\ UNCHANGED <<pending, prevCache, raced>>
         \/ stored = t /\ UNCHANGED <<pending, targets, prevCache, raced>>
         \/ stored \notin {t, Nil} /\ DelTarget(t.addr) /\ pending' = t
      /\ UNCHANGED discoverOthers

PodReplace ==
  /\ pending # Nil
  /\ AddTarget(pending) /\ pending' = Nil
  /\ UNCHANGED <<discoverOthers, view, prevCache, raced, moved>>

-----------------------------------------------------------------------------
(***************************************************************************)
(* scrapeLoop                                                              *)
(***************************************************************************)

scrapeOthers == <<cluster, view, pending, targets, raced, moved, changes>>
notScraping  == <<scrapeOthers, mixed>>

Stored == {t \in Targets : targets[t.addr] = t}

\* Mutant: the next round does not wait for the requests of the last one.
Round_NoWait ==
  /\ Cardinality(jobs) < 2 * Cardinality(layout.types) /\ Stored # {}
  /\ jobs' = jobs \cup {[t |-> t, ty |-> ty, pc |-> "scrape", v |-> 0] :
                        t \in Stored, ty \in layout.types}
  /\ UNCHANGED <<notScraping, prevCache, history, faults>>

\* After wg.Wait and the pause: the targets of now.
Round ==
  /\ jobs = {} /\ Stored # {}
  /\ jobs' = {[t |-> t, ty |-> ty, pc |-> "scrape", v |-> 0] :
              t \in Stored, ty \in layout.types}
  /\ UNCHANGED <<notScraping, prevCache, history, faults>>

Ends(j)    == jobs' = jobs \ {j}
Goes(j, pc, v) == jobs' = (jobs \ {j}) \cup {[j EXCEPT !.pc = pc, !.v = v]}

\* The process of p answers.  A profile without samples is not uploaded.
Scrape(j, p) ==
  /\ j.pc = "scrape" /\ p \in up /\ j.t.addr \in layout.ports[p]
  /\ IF counter[p] = 0 THEN Ends(j) ELSE Goes(j, "diff", counter[p])
  /\ mixed' = IF p = j.t.pod THEN mixed ELSE mixed \cup {j.t.pod}
  /\ UNCHANGED <<scrapeOthers, prevCache, history, faults>>

\* Mutant: a target that does not answer is given up.
ScrapeFails_DropsTarget(j) ==
  /\ j.pc = "scrape" /\ Ends(j)
  /\ Fault
  /\ targets' = [targets EXCEPT ![j.t.addr] = Nil]
  /\ UNCHANGED <<cluster, view, pending, raced, moved, changes, mixed, prevCache, history>>

\* A request to a pod that is gone, or to an address it does not name any more,
\* fails at any time.
ScrapeFails(j) ==
  /\ j.pc = "scrape" /\ Ends(j)
  /\ \/ Fault
     \/ named[j.t.pod] # j.t.addr /\ UNCHANGED faults
  /\ UNCHANGED <<notScraping, prevCache, history>>

\* Mutant: a counter that was reset is not recognised.
Diff_NoReset(j) ==
  LET k == Key(j.t, j.ty) IN
  /\ j.pc = "diff"
  /\ IF j.ty \notin Cumulative
     THEN Goes(j, "upload", j.v) /\ UNCHANGED <<prevCache, history>>
     ELSE /\ prevCache' = [prevCache EXCEPT ![k] = j.v]
          /\ Goes(j, "upload", IF prevCache[k] # Nil THEN j.v - prevCache[k] ELSE j.v)
          /\ UNCHANGED history
  /\ UNCHANGED <<notScraping, faults>>

\* Mutant: the first profile only fills the cache.
Diff_SkipsFirst(j) ==
  LET k == Key(j.t, j.ty) IN
  /\ j.pc = "diff"
  /\ IF j.ty \notin Cumulative
     THEN Goes(j, "upload", j.v) /\ UNCHANGED <<prevCache, history>>
     ELSE LET prev == prevCache[k]
              known == prev # Nil
          IN /\ prevCache' = [prevCache EXCEPT ![k] = j.v]
             /\ IF known
                THEN /\ Goes(j, "upload", IF j.v >= prev THEN j.v - prev ELSE j.v)
                     /\ UNCHANGED history
                ELSE /\ Ends(j)
                     /\ arrived' = [arrived EXCEPT ![k] = 0] /\ lossy' = lossy \ {k}
  /\ UNCHANGED <<notScraping, faults>>

\* The value takes the place of the previous one in the cache.  It is uploaded
\* as it is if there was none, or if it is below it.
Diff(j) ==
  LET k == Key(j.t, j.ty) IN
  /\ j.pc = "diff"
  /\ IF j.ty \notin Cumulative
     THEN Goes(j, "upload", j.v) /\ UNCHANGED <<prevCache, history>>
     ELSE LET prev == prevCache[k]
              hasPrev == prev # Nil
          IN /\ prevCache' = [prevCache EXCEPT ![k] = j.v]
             /\ Goes(j, "upload", IF hasPrev /\ j.v >= prev THEN j.v - prev ELSE j.v)
             /\ IF hasPrev THEN UNCHANGED history
                ELSE arrived' = [arrived EXCEPT ![k] = 0] /\ lossy' = lossy \ {k}
  /\ UNCHANGED <<notScraping, faults>>

Arrives(j) ==
  IF j.ty \in Cumulative
  THEN arrived' = [arrived EXCEPT ![Key(j.t, j.ty)] = @ + j.v]
  ELSE UNCHANGED arrived

Upload(j) ==
  /\ j.pc = "upload" /\ Ends(j)
  /\ Arrives(j)
  /\ UNCHANGED <<notScraping, prevCache, lossy, faults>>

\* The request may have arrived nevertheless; it is not tried again.
UploadFails(j) ==
  /\ j.pc = "upload" /\ Fault /\ Ends(j)
  /\ Arrives(j) \/ UNCHANGED arrived
  /\ lossy' = IF j.ty \in Cumulative THEN lossy \cup {Key(j.t, j.ty)} ELSE lossy
  /\ UNCHANGED <<notScraping, prevCache>>

-----------------------------------------------------------------------------

Cluster ==
  \E p \in Pods :
    \/ Work(p) \/ ProcessRestarts(p) \/ PodGoes(p)
    \/ \E a \in layout.ports[p] \cup {Nil} : PodComes(p, a) \/ AnnotationsChange(p, a)

Discover == PodReplace \/ \E p \in Pods : PodDrop(p) \/ PodPut(p)

Job ==
  \E j \in jobs : \/ ScrapeFails(j) \/ Diff(j) \/ Upload(j) \/ UploadFails(j)
                  \/ \E p \in Pods : Scrape(j, p)

Next == Cluster \/ Discover \/ Round \/ Job

Spec == Init /\ [][Next]_vars

\* Events are delivered, rounds follow each other, and requests end: a scrape has
\* a timeout; an upload has none, and is assumed to be answered or broken off.
Fairness == WF_vars(Discover) /\ WF_vars(Round) /\ WF_vars(Job)

FairSpec == Spec /\ Fairness

-----------------------------------------------------------------------------
(***************************************************************************)
(* Properties                                                              *)
(***************************************************************************)

\* Types; a job belongs to a target, and nothing negative is uploaded.
TypeOK ==
  /\ targets \in [Addrs -> Targets \cup {Nil}]
  /\ \A a \in Addrs : targets[a] # Nil => targets[a].addr = a
  /\ pending \in Targets \cup {Nil}
  /\ prevCache \in [Keys -> Nat \cup {Nil}]
  /\ \A j \in jobs : /\ j.t \in Targets /\ j.ty \in layout.types /\ j.v \in Nat
                     /\ j.pc \in {"scrape", "diff", "upload"}
  /\ arrived \in [Keys -> Nat] /\ lossy \subseteq Keys /\ raced \subseteq Keys

\* As long as a pod is found at one address and no other pod answers there, no
\* unit of its work is uploaded twice while its key is in the cache: not when its
\* process restarts, not when events overtake a scrape, not when uploads fail.
NeverTwice ==
  \A k \in Keys : k[1] \notin moved \cup mixed /\ prevCache[k] # Nil
                    => arrived[k] <= work[k[1]]

\* Between two rounds all that the cache counts as reported has arrived, unless
\* an upload failed: a failed one is the only way for a difference to get lost.
Delivered ==
  jobs = {} => \A k \in Keys : prevCache[k] # Nil /\ k \notin lossy
                                 => arrived[k] >= prevCache[k]

\* The cache keeps values for a target that is gone only if the target was being
\* scraped while it was removed.
NoOrphans ==
  \A k \in Keys : prevCache[k] # Nil => k \in raced \/ \E t \in Stored : t.pod = k[1]

\* When work and changes are over, pods that share no address and are to be
\* scraped have been read to the last unit, whatever was cached for them before.
ReadToTheEnd ==
  \/ \E p, q \in Pods : p # q /\ layout.ports[p] \cap layout.ports[q] # {}
  \/ <>[](\A p \in Pods : \A ty \in Cumulative \cap layout.types :
            named[p] # Nil /\ counter[p] > 0
              => targets[named[p]] = Target(p, named[p]) /\ prevCache[<<p, ty>>] = counter[p])
=============================================================================
