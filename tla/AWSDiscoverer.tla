---------------------------- MODULE AWSDiscoverer ----------------------------
(***************************************************************************)
(* metrics/aws/aws.go: the discoverer of RDS instances and ElastiCache     *)
(* nodes, and how Metrics.updateAWS starts, updates and stops it.          *)
(*                                                                         *)
(* The goroutine of the discoverer makes one pass after another; every     *)
(* request of a pass is a step of its own.  The configuration goroutine    *)
(* changes d.cfg and d.sess under its feet, in two unsynchronised writes,  *)
(* and stops it by a send that the goroutine takes between two passes.     *)
(* What is known of an instance is its id: the region of d.cfg, as read    *)
(* when the instance was handled, and its name.  The RDS instances are of  *)
(* PostgreSQL: their collectors have a log reader (module LogReader), here *)
(* idle or busy, and Stop waits for it; those of other engines have none   *)
(* and differ in nothing else.  A cluster is one node of ElastiCache.      *)
(***************************************************************************)
EXTENDS Naturals, FiniteSets

CONSTANTS
  Instances,  \* names
  RegionOf,   \* instance -> region
  KindOf,     \* instance -> "rds" or "ec"
  Ungrouped,  \* clusters that are in no replication group
  Cfgs,       \* the configurations: [region, filtered, matched]
  MaxUpdates, \* bound: configurations received
  MaxFaults,  \* bound: failing requests and instances that come or go
  Nil

Regions == {c.region : c \in Cfgs}
Ids     == Regions \X Instances
Kind(id) == KindOf[id[2]]

ASSUME AWSAssumption ==
  /\ \A i \in Instances : KindOf[i] \in {"rds", "ec"}
  /\ \A c \in Cfgs : c.filtered \in BOOLEAN /\ c.matched \subseteq Instances
  /\ Nil \notin Cfgs \cup Ids \cup Instances \cup Regions

VARIABLES
  cloud,      \* the instances that exist
  \* the configuration goroutine
  aws,        \* ms.aws is not nil
  cfgPc,      \* "recv", "session", "stop", "drain", "join"
  cfgJoin,    \* the collector it waits for
  \* the Discoverer
  dcfg, dsess,
  collectors, \* rdsCollectors and ecCollectors: the ids
  \* its goroutine
  dpc,        \* "none", "select", "list", "page", "found", "sweep", "join"
  kind,       \* what it discovers: "rds" or "ec"
  again,      \* the second list of clusters
  svc,        \* the region of the client it made
  todo,       \* what is left of the list
  cur,        \* the instance at hand
  seen,
  join,       \* the collector it waits for
  \* shared with the rest of the agent
  registered, \* ids in the registry
  discovererRegistered,
  readers,    \* id -> the number of its live log readers
  busy,       \* the ids whose log reader is in the middle of a refresh
  clean,      \* history: the pass met no failure, change or new configuration
  updates, faults

config  == <<aws, cfgPc, cfgJoin>>
d       == <<dcfg, dsess>>
pass    == <<dpc, kind, again, svc, todo, cur, seen, join>>
shared  == <<registered, discovererRegistered, readers>>
vars    == <<cloud, config, d, collectors, pass, shared, busy, clean, updates, faults>>

Init ==
  /\ cloud \in SUBSET Instances
  /\ aws = FALSE /\ cfgPc = "recv" /\ cfgJoin = Nil
  /\ dcfg = Nil /\ dsess = Nil /\ collectors = {}
  /\ dpc = "none" /\ kind = "rds" /\ again = FALSE /\ svc = Nil
  /\ todo = {} /\ cur = Nil /\ seen = {} /\ join = Nil
  /\ registered = {} /\ discovererRegistered = FALSE
  /\ readers = [id \in Ids |-> 0] /\ busy = {}
  /\ clean = FALSE /\ updates = 0 /\ faults = 0

Fault == faults < MaxFaults /\ faults' = faults + 1 /\ clean' = FALSE

-----------------------------------------------------------------------------
(***************************************************************************)
(* Metrics.updateAWS, on the configuration goroutine                       *)
(***************************************************************************)

Received == updates < MaxUpdates /\ updates' = updates + 1

\* NewDiscoverer; if it returns an error the next configuration tries again.
Create(c) ==
  /\ cfgPc = "recv" /\ ~aws /\ Received
  /\ \/ Fault /\ UNCHANGED <<aws, d, dpc, discovererRegistered>>
     \/ /\ IF discovererRegistered THEN UNCHANGED <<aws, d, dpc, discovererRegistered>>
           ELSE /\ aws' = TRUE /\ dcfg' = c /\ dsess' = c.region
                /\ dpc' = "select" /\ discovererRegistered' = TRUE
        /\ UNCHANGED <<faults, clean>>
  /\ UNCHANGED <<cloud, cfgPc, cfgJoin, collectors, kind, again, svc, todo, cur, seen,
                 join, registered, readers, busy>>

\* Discoverer.Update up to the first write; if it returns an error, Stop.
Update(c) ==
  /\ cfgPc = "recv" /\ aws /\ c # dcfg /\ Received
  /\ \/ Fault /\ cfgPc' = "stop" /\ UNCHANGED dcfg
     \/ cfgPc' = "session" /\ dcfg' = c /\ clean' = FALSE /\ UNCHANGED faults
  /\ UNCHANGED <<cloud, aws, cfgJoin, dsess, collectors, pass, shared, busy>>

\* Mutant: the new credentials and region are never used.
SwapSession_Forgotten ==
  /\ cfgPc = "session"
  /\ cfgPc' = "recv"
  /\ UNCHANGED <<cloud, aws, cfgJoin, d, collectors, pass, shared, busy, clean,
                 updates, faults>>

SwapSession ==
  /\ cfgPc = "session"
  /\ dsess' = dcfg.region /\ cfgPc' = "recv"
  /\ UNCHANGED <<cloud, aws, cfgJoin, dcfg, collectors, pass, shared, busy, clean,
                 updates, faults>>

\* The configuration has no AWS part any more.
Remove ==
  /\ cfgPc = "recv" /\ aws /\ Received
  /\ cfgPc' = "stop"
  /\ UNCHANGED <<cloud, aws, cfgJoin, d, collectors, pass, shared, busy, clean, faults>>

\* Discoverer.Stop: the send on d.stop meets the select of the goroutine.
StopPasses ==
  /\ cfgPc = "stop" /\ dpc = "select"
  /\ cfgPc' = "drain" /\ dpc' = "none"
  /\ UNCHANGED <<cloud, aws, cfgJoin, d, collectors, kind, again, svc, todo, cur, seen,
                 join, shared, busy, clean, updates, faults>>

Drain(id) ==
  /\ cfgPc = "drain" /\ id \in collectors
  /\ registered' = registered \ {id}
  /\ collectors' = collectors \ {id}
  /\ IF Kind(id) = "rds" THEN cfgPc' = "join" /\ cfgJoin' = id
                         ELSE UNCHANGED <<cfgPc, cfgJoin>>
  /\ UNCHANGED <<cloud, aws, d, pass, discovererRegistered, readers, busy, clean,
                 updates, faults>>

DrainJoin ==
  /\ cfgPc = "join" /\ cfgJoin \notin busy
  /\ readers' = [readers EXCEPT ![cfgJoin] = @ - 1]
  /\ cfgPc' = "drain" /\ cfgJoin' = Nil
  /\ UNCHANGED <<cloud, aws, d, collectors, pass, registered, discovererRegistered,
                 busy, clean, updates, faults>>

Stopped ==
  /\ cfgPc = "drain" /\ collectors = {}
  /\ discovererRegistered' = FALSE
  /\ aws' = FALSE /\ dcfg' = Nil /\ dsess' = Nil
  /\ cfgPc' = "recv" /\ clean' = FALSE
  /\ UNCHANGED <<cloud, cfgJoin, collectors, pass, registered, readers, busy, updates,
                 faults>>

-----------------------------------------------------------------------------
(***************************************************************************)
(* discover, on the goroutine of the discoverer                            *)
(***************************************************************************)

others == <<cloud, config, d, busy, updates>>

\* The first pass and every tick.
Begin ==
  /\ dpc = "select"
  /\ dpc' = "list" /\ kind' = "rds" /\ svc' = dsess /\ seen' = {}
  /\ clean' = (cfgPc # "session")
  /\ UNCHANGED <<others, collectors, again, todo, cur, join, shared, faults>>

\* Mutant: an error ends the goroutine instead of the list.
List_Quits ==
  /\ dpc = "list"
  /\ \/ Fault /\ dpc' = "none" /\ todo' = {}
     \/ /\ todo' = {i \in cloud : /\ RegionOf[i] = svc /\ KindOf[i] = kind
                                  /\ again => i \in Ungrouped}
        /\ dpc' = "page" /\ UNCHANGED <<faults, clean>>
  /\ UNCHANGED <<others, collectors, kind, again, svc, cur, seen, join, shared>>

\* DescribeDBInstances, or DescribeCacheClusters with either value of v.
List ==
  /\ dpc = "list" /\ dpc' = "page"
  /\ \/ Fault /\ todo' = {}
     \/ /\ todo' = {i \in cloud : /\ RegionOf[i] = svc /\ KindOf[i] = kind
                                  /\ again => i \in Ungrouped}
        /\ UNCHANGED <<faults, clean>>
  /\ UNCHANGED <<others, collectors, kind, again, svc, cur, seen, join, shared>>

\* A further page cannot be read: the rest of the list is not seen.  Where the
\* pages end is up to AWS.
PageFails ==
  /\ dpc = "page" /\ todo # {} /\ Fault
  /\ todo' = {}
  /\ UNCHANGED <<others, collectors, dpc, kind, again, svc, cur, seen, join, shared>>

\* The tags of an instance, read only if there are filters.
CheckTags(i) ==
  /\ dpc = "page" /\ i \in todo
  /\ todo' = todo \ {i}
  /\ \/ dcfg.filtered /\ Fault /\ UNCHANGED <<dpc, cur>>
     \/ /\ dcfg.filtered /\ i \notin dcfg.matched
        /\ UNCHANGED <<dpc, cur, faults, clean>>
     \/ /\ dcfg.filtered => i \in dcfg.matched
        /\ dpc' = "found" /\ cur' = i /\ UNCHANGED <<faults, clean>>
  /\ UNCHANGED <<others, collectors, kind, again, svc, seen, join, shared>>

\* Mutant: only new instances are marked as seen.
Found_MarksNew ==
  /\ dpc = "found"
  /\ LET id == <<dcfg.region, cur>> IN
     /\ seen' = IF id \in collectors THEN seen ELSE seen \cup {id}
     /\ readers' = IF id \notin collectors /\ kind = "rds"
                   THEN [readers EXCEPT ![id] = @ + 1] ELSE readers
     /\ collectors' = IF id \in registered THEN collectors ELSE collectors \cup {id}
     /\ registered' = registered \cup {id}
  /\ dpc' = "page" /\ cur' = Nil
  /\ UNCHANGED <<others, kind, again, svc, todo, join, discovererRegistered, clean, faults>>

\* A collector starts its log reader before it is registered, and nothing stops
\* the reader if Register fails.
Found ==
  /\ dpc = "found"
  /\ LET id == <<dcfg.region, cur>> IN
     /\ seen' = seen \cup {id}
     /\ readers' = IF id \notin collectors /\ kind = "rds"
                   THEN [readers EXCEPT ![id] = @ + 1] ELSE readers
     /\ collectors' = IF id \in registered THEN collectors ELSE collectors \cup {id}
     /\ registered' = registered \cup {id}
  /\ dpc' = "page" /\ cur' = Nil
  /\ UNCHANGED <<others, kind, again, svc, todo, join, discovererRegistered, clean, faults>>

ListDone ==
  /\ dpc = "page" /\ todo = {}
  /\ again' = (kind = "ec" /\ ~again)
  /\ dpc' = IF again' THEN "list" ELSE "sweep"
  /\ UNCHANGED <<others, collectors, kind, svc, todo, cur, seen, join, shared, clean, faults>>

Stale == {id \in collectors : Kind(id) = kind /\ id \notin seen}

\* Mutant: the collector is dropped without Stop.
Sweep_KeepsReader(id) ==
  /\ dpc = "sweep" /\ id \in Stale
  /\ collectors' = collectors \ {id}
  /\ registered' = registered \ {id}
  /\ UNCHANGED <<others, dpc, kind, again, svc, todo, cur, seen, join,
                 discovererRegistered, readers, clean, faults>>

Sweep(id) ==
  /\ dpc = "sweep" /\ id \in Stale
  /\ collectors' = collectors \ {id}
  /\ registered' = registered \ {id}
  /\ IF kind = "rds" THEN dpc' = "join" /\ join' = id ELSE UNCHANGED <<dpc, join>>
  /\ UNCHANGED <<others, kind, again, svc, todo, cur, seen, discovererRegistered,
                 readers, clean, faults>>

\* RDSCollector.Stop waits until the refresh of its log reader is over.
SweepJoin ==
  /\ dpc = "join" /\ join \notin busy
  /\ readers' = [readers EXCEPT ![join] = @ - 1]
  /\ dpc' = "sweep" /\ join' = Nil
  /\ UNCHANGED <<others, collectors, kind, again, svc, todo, cur, seen, registered,
                 discovererRegistered, clean, faults>>

\* discoverEC follows discoverRDS, with a client of the session of now.
SweepDone ==
  /\ dpc = "sweep" /\ Stale = {}
  /\ IF kind = "rds"
     THEN kind' = "ec" /\ dpc' = "list" /\ svc' = dsess
     ELSE UNCHANGED kind /\ dpc' = "select" /\ svc' = Nil
  /\ seen' = {}
  /\ UNCHANGED <<others, collectors, again, todo, cur, join, shared, clean, faults>>

-----------------------------------------------------------------------------
(***************************************************************************)
(* Log readers and the cloud                                               *)
(***************************************************************************)

RefreshBegins(id) ==
  /\ readers[id] > 0 /\ id \notin busy
  /\ busy' = busy \cup {id}
  /\ UNCHANGED <<cloud, config, d, collectors, pass, shared, clean, updates, faults>>

RefreshEnds(id) ==
  /\ id \in busy
  /\ busy' = busy \ {id}
  /\ UNCHANGED <<cloud, config, d, collectors, pass, shared, clean, updates, faults>>

CloudChanges(i) ==
  /\ Fault
  /\ cloud' = IF i \in cloud THEN cloud \ {i} ELSE cloud \cup {i}
  /\ UNCHANGED <<config, d, collectors, pass, shared, busy, updates>>

-----------------------------------------------------------------------------

Input == Remove \/ \E c \in Cfgs : Create(c) \/ Update(c)

ConfigStep ==
  SwapSession \/ (\E id \in collectors : Drain(id)) \/ DrainJoin \/ Stopped

Discover ==
  \/ Begin \/ List \/ PageFails \/ Found \/ ListDone \/ SweepJoin \/ SweepDone
  \/ \E i \in todo : CheckTags(i)
  \/ \E id \in Stale : Sweep(id)

Next ==
  \/ Input \/ ConfigStep \/ StopPasses \/ Discover
  \/ \E id \in Ids : RefreshBegins(id) \/ RefreshEnds(id)
  \/ \E i \in Instances : CloudChanges(i)

Spec == Init /\ [][Next]_vars

\* Goroutines run, requests return (an assumption about AWS and the network: the
\* session has no timeout), the ticker fires.  The stop is offered all
\* the time and the select takes it sooner or later, between two passes: strong
\* fairness.  So is a Stop that waits for a log reader between two refreshes.
Fairness ==
  /\ WF_vars(ConfigStep) /\ WF_vars(Discover)
  /\ SF_vars(StopPasses) /\ SF_vars(DrainJoin) /\ SF_vars(SweepJoin)
  /\ \A id \in Ids : WF_vars(RefreshEnds(id))

FairSpec == Spec /\ Fairness

-----------------------------------------------------------------------------
(***************************************************************************)
(* Properties                                                              *)
(***************************************************************************)

\* Types, and what the program counters imply.
TypeOK ==
  /\ aws <=> dcfg # Nil
  /\ dcfg \in Cfgs \cup {Nil} /\ dsess \in Regions \cup {Nil}
  /\ dpc # "none" => aws
  /\ cfgPc \in {"session", "stop", "drain", "join"} => aws
  /\ (dpc = "join") <=> (join # Nil)
  /\ (cfgPc = "join") <=> (cfgJoin # Nil)
  /\ collectors \subseteq Ids /\ registered \subseteq Ids
  /\ todo \subseteq Instances

\* The registry holds the collectors that the discoverer knows and no others, so
\* that no instance is exported after it was dropped or after the discoverer was
\* stopped, and Register never fails for a name that was left behind.
RegistryIsKnown ==
  /\ registered = collectors
  /\ discovererRegistered <=> aws
  /\ ~aws => registered = {}

\* Each RDS collector has one log reader, which ends when the collector is
\* stopped: no goroutine outlives an instance, a failed pass, a change of region
\* or the discoverer.
OneReaderEach ==
  \A id \in Ids :
    readers[id] = IF Kind(id) = "rds" /\ (id \in collectors \/ id \in {join, cfgJoin})
                  THEN 1 ELSE 0

\* Whatever fails in the middle of a pass, and whenever it is stopped, the registry
\* and the goroutines of log readers are those of the collectors that are known.
RegistryMatches == RegistryIsKnown /\ OneReaderEach

\* What the configuration asks for.
Expected ==
  {<<dcfg.region, i>> : i \in {j \in cloud : RegionOf[j] = dcfg.region
                                             /\ (dcfg.filtered => j \in dcfg.matched)}}

\* After a pass without failures, changes and new configurations exactly the
\* matching instances have collectors, whatever earlier passes left: nothing of
\* a half updated configuration, of another region or of a broken list.
CleanPassExact == clean /\ aws /\ dpc = "select" /\ cfgPc = "recv" => collectors = Expected

\* Once requests stop failing and the cloud and the configuration stop changing,
\* the collectors are the matching instances and stay so.
Converges == <>[](aws => collectors = Expected)

\* updateAWS returns from Stop, although it waits for a pass and for log readers:
\* the configuration goroutine is never blocked for good.
StopReturns == cfgPc = "stop" ~> cfgPc = "recv"
=============================================================================
