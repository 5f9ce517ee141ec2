------------------------- MODULE AWSDiscovererProofs -------------------------
(***************************************************************************)
(* RegistryMatches and CleanPassExact for any instances, regions,          *)
(* configurations and faults.                                              *)
(*                                                                         *)
(* The two goroutines change collectors and log readers at different       *)
(* times only, because the stop is taken between two passes (Apart); the   *)
(* reader of a collector that was dropped is the one its Stop waits for    *)
(* (Joins), and what is found in a list is of the kind that is discovered  *)
(* (Finds), so that the reader counted for it is the right one.            *)
(***************************************************************************)
EXTENDS AWSDiscoverer, TLAPS

Counters == readers \in [Ids -> Nat] /\ kind \in {"rds", "ec"}

Apart ==
  /\ cfgPc \in {"recv", "session", "stop", "drain", "join"}
  /\ dpc \in {"none", "select", "list", "page", "found", "sweep", "join"}
  /\ cfgPc \in {"drain", "join"} => dpc = "none"
  /\ dsess # Nil <=> aws

Joins ==
  /\ join # Nil => join \in Ids \ collectors /\ Kind(join) = "rds"
  /\ cfgJoin # Nil => cfgJoin \in Ids \ collectors /\ Kind(cfgJoin) = "rds"

Finds ==
  /\ dpc \in {"page", "found"} => \A i \in todo : KindOf[i] = kind
  /\ dpc = "found" => cur \in Instances /\ KindOf[cur] = kind
  /\ cloud \subseteq Instances

Inv == TypeOK /\ RegistryIsKnown /\ OneReaderEach /\ Counters /\ Apart /\ Joins /\ Finds

-----------------------------------------------------------------------------

\* The id of an instance in the region of the configuration.
LEMMA IdTypes ==
  ASSUME Inv, aws, NEW i \in Instances
  PROVE  <<dcfg.region, i>> \in Ids /\ Kind(<<dcfg.region, i>>) = KindOf[i]
<1>1. dcfg \in Cfgs
  BY DEF Inv, TypeOK
<1>2. dcfg.region \in Regions
  BY <1>1 DEF Regions
<1> QED BY <1>2 DEF Ids, Kind

LEMMA InitInv == Init => Inv
<1> SUFFICES ASSUME Init PROVE Inv
  OBVIOUS
<1>1. TypeOK /\ RegistryIsKnown /\ Counters /\ Apart /\ Joins /\ Finds
  BY AWSAssumption DEF Init, TypeOK, RegistryIsKnown, Counters, Apart, Joins, Finds
<1>2. OneReaderEach
  BY AWSAssumption DEF Init, OneReaderEach
<1> QED BY <1>1, <1>2 DEF Inv

\* Steps that leave the collectors, the registry and the readers alone.
LEMMA AsideInv ==
  ASSUME Inv,
         UNCHANGED <<aws, dcfg, dsess, collectors, registered, discovererRegistered,
                     readers, join, cfgJoin, kind>>,
         Apart', TypeOK', Finds'
  PROVE  Inv'
<1>1. RegistryIsKnown' /\ Counters' /\ Joins'
  BY DEF Inv, RegistryIsKnown, Counters, Joins
<1>2. OneReaderEach'
  BY DEF Inv, OneReaderEach
<1> QED BY <1>1, <1>2 DEF Inv

-----------------------------------------------------------------------------
(* The configuration goroutine. *)

LEMMA CreateInv == ASSUME Inv, NEW c \in Cfgs, Create(c) PROVE Inv'
<1>1. /\ ~aws /\ cfgPc = "recv" /\ dpc = "none"
      /\ ~discovererRegistered /\ registered = {} /\ collectors = {} /\ dcfg = Nil
  BY DEF Create, Inv, TypeOK, RegistryIsKnown
<1>2. /\ UNCHANGED <<cloud, cfgPc, cfgJoin, collectors, kind, todo, cur, join, registered, readers>>
      /\ \/ UNCHANGED <<aws, dcfg, dsess, dpc, discovererRegistered>>
         \/ /\ aws' = TRUE /\ dcfg' = c /\ dsess' = c.region
            /\ dpc' = "select" /\ discovererRegistered' = TRUE
  BY <1>1 DEF Create, d
<1>3. c # Nil /\ c.region \in Regions /\ c.region # Nil
  BY AWSAssumption DEF Regions
<1>4. TypeOK'
  BY <1>1, <1>2, <1>3 DEF Inv, TypeOK
<1>5. RegistryIsKnown' /\ Counters'
  BY <1>1, <1>2 DEF Inv, RegistryIsKnown, Counters
<1>6. Apart'
  BY <1>1, <1>2, <1>3 DEF Inv, Apart
<1>7. Joins'
  BY <1>2 DEF Inv, Joins
<1>8. Finds'
  BY <1>1, <1>2 DEF Inv, Finds
<1>9. OneReaderEach'
  BY <1>2 DEF Inv, OneReaderEach
<1> QED BY <1>4, <1>5, <1>6, <1>7, <1>8, <1>9 DEF Inv

LEMMA UpdateInv == ASSUME Inv, NEW c \in Cfgs, Update(c) PROVE Inv'
<1>1. /\ UNCHANGED <<cloud, aws, cfgJoin, dsess, collectors, dpc, kind, todo, cur, join, registered,
                     discovererRegistered, readers>>
      /\ aws /\ cfgPc = "recv"
      /\ \/ cfgPc' = "stop" /\ dcfg' = dcfg
         \/ cfgPc' = "session" /\ dcfg' = c
  BY DEF Update, pass, shared
<1>2. c # Nil
  BY AWSAssumption
<1>3. TypeOK'
  BY <1>1, <1>2 DEF Inv, TypeOK
<1>4. RegistryIsKnown' /\ Counters' /\ Apart' /\ Joins' /\ Finds'
  BY <1>1 DEF Inv, RegistryIsKnown, Counters, Apart, Joins, Finds
<1>5. OneReaderEach'
  BY <1>1 DEF Inv, OneReaderEach
<1> QED BY <1>3, <1>4, <1>5 DEF Inv

LEMMA SwapSessionInv == ASSUME Inv, SwapSession PROVE Inv'
<1>1. /\ UNCHANGED <<cloud, aws, cfgJoin, dcfg, collectors, dpc, kind, todo, cur, join, registered,
                     discovererRegistered, readers>>
      /\ cfgPc = "session" /\ cfgPc' = "recv" /\ dsess' = dcfg.region
  BY DEF SwapSession, pass, shared
<1>2. aws /\ dcfg \in Cfgs
  BY <1>1 DEF Inv, TypeOK
<1>3. dcfg.region \in Regions /\ dcfg.region # Nil
  BY <1>2, AWSAssumption DEF Regions
<1>4. TypeOK'
  BY <1>1, <1>3 DEF Inv, TypeOK
<1>5. RegistryIsKnown' /\ Counters' /\ Apart' /\ Joins' /\ Finds'
  BY <1>1, <1>2, <1>3 DEF Inv, RegistryIsKnown, Counters, Apart, Joins, Finds
<1>6. OneReaderEach'
  BY <1>1 DEF Inv, OneReaderEach
<1> QED BY <1>4, <1>5, <1>6 DEF Inv

LEMMA RemoveInv == ASSUME Inv, Remove \/ StopPasses PROVE Inv'
<1>1. UNCHANGED <<cloud, aws, dcfg, dsess, collectors, registered, discovererRegistered,
                  readers, join, cfgJoin, kind, todo, cur>>
  BY DEF Remove, StopPasses, d, pass, shared
<1>2. \/ cfgPc = "recv" /\ aws /\ cfgPc' = "stop" /\ dpc' = dpc
      \/ cfgPc = "stop" /\ dpc = "select" /\ cfgPc' = "drain" /\ dpc' = "none"
  BY DEF Remove, StopPasses, pass
<1>3. TypeOK'
  BY <1>1, <1>2 DEF Inv, TypeOK
<1>4. Apart' /\ Finds'
  BY <1>1, <1>2 DEF Inv, Apart, Finds
<1> QED BY <1>1, <1>3, <1>4, AsideInv

\* A collector that is drained leaves its reader to the Stop that waits for it.
LEMMA DrainInv == ASSUME Inv, NEW id \in collectors, Drain(id) PROVE Inv'
<1>1. /\ UNCHANGED <<cloud, aws, dcfg, dsess, dpc, kind, todo, cur, join, discovererRegistered, readers>>
      /\ cfgPc = "drain" /\ registered' = registered \ {id} /\ collectors' = collectors \ {id}
      /\ IF Kind(id) = "rds" THEN cfgPc' = "join" /\ cfgJoin' = id
                             ELSE UNCHANGED <<cfgPc, cfgJoin>>
  BY DEF Drain, d, pass
<1>2. id \in Ids /\ id # Nil
  BY AWSAssumption DEF Inv, TypeOK
<1>3. dpc = "none" /\ join = Nil /\ cfgJoin = Nil /\ aws
  BY <1>1 DEF Inv, TypeOK, Apart
<1>4. TypeOK'
  BY <1>1, <1>2, <1>3 DEF Inv, TypeOK
<1>5. RegistryIsKnown' /\ Counters' /\ Apart' /\ Finds'
  BY <1>1, <1>3 DEF Inv, RegistryIsKnown, Counters, Apart, Finds
<1>6. Joins'
  BY <1>1, <1>2, <1>3 DEF Inv, Joins, Kind
<1>7. OneReaderEach'
  <2> SUFFICES ASSUME NEW r \in Ids
               PROVE  readers[r] = IF Kind(r) = "rds" /\ (r \in collectors' \/ r \in {join, cfgJoin'})
                                   THEN 1 ELSE 0
    BY <1>1 DEF OneReaderEach, Kind
  <2>1. readers[r] = IF Kind(r) = "rds" /\ (r \in collectors \/ r \in {join, cfgJoin}) THEN 1 ELSE 0
    BY DEF Inv, OneReaderEach
  <2>2. r # Nil
    BY AWSAssumption
  <2> QED BY <1>1, <1>3, <2>1, <2>2
<1> QED BY <1>4, <1>5, <1>6, <1>7 DEF Inv

LEMMA DrainJoinInv == ASSUME Inv, DrainJoin PROVE Inv'
<1>1. /\ UNCHANGED <<cloud, aws, dcfg, dsess, collectors, dpc, kind, todo, cur, join, registered,
                     discovererRegistered>>
      /\ cfgPc = "join" /\ cfgPc' = "drain" /\ cfgJoin' = Nil
      /\ readers' = [readers EXCEPT ![cfgJoin] = @ - 1]
  BY DEF DrainJoin, d, pass
<1>2. /\ dpc = "none" /\ join = Nil /\ aws
      /\ cfgJoin \in Ids \ collectors /\ Kind(cfgJoin) = "rds"
  BY <1>1 DEF Inv, TypeOK, Apart, Joins
<1>3. readers \in [Ids -> Nat] /\ readers[cfgJoin] = 1
  BY <1>2 DEF Inv, Counters, OneReaderEach
<1>4. /\ readers' \in [Ids -> Nat] /\ readers'[cfgJoin] = 0
      /\ \A r \in Ids \ {cfgJoin} : readers'[r] = readers[r]
  BY <1>1, <1>2, <1>3
<1>5. TypeOK'
  BY <1>1 DEF Inv, TypeOK
<1>6. RegistryIsKnown' /\ Counters' /\ Apart' /\ Joins' /\ Finds'
  BY <1>1, <1>2, <1>4 DEF Inv, RegistryIsKnown, Counters, Apart, Joins, Finds
<1>7. OneReaderEach'
  <2> SUFFICES ASSUME NEW r \in Ids
               PROVE  readers'[r] = IF Kind(r) = "rds" /\ (r \in collectors \/ r \in {join, Nil})
                                    THEN 1 ELSE 0
    BY <1>1 DEF OneReaderEach, Kind
  <2>1. readers[r] = IF Kind(r) = "rds" /\ (r \in collectors \/ r \in {join, cfgJoin}) THEN 1 ELSE 0
    BY DEF Inv, OneReaderEach
  <2>2. r # Nil
    BY AWSAssumption
  <2> QED BY <1>2, <1>4, <2>1, <2>2
<1> QED BY <1>5, <1>6, <1>7 DEF Inv

LEMMA StoppedInv == ASSUME Inv, Stopped PROVE Inv'
<1>1. /\ UNCHANGED <<cloud, cfgJoin, collectors, dpc, kind, todo, cur, join, registered, readers>>
      /\ cfgPc = "drain" /\ collectors = {} /\ discovererRegistered' = FALSE
      /\ aws' = FALSE /\ dcfg' = Nil /\ dsess' = Nil /\ cfgPc' = "recv"
  BY DEF Stopped, pass
<1>2. dpc = "none" /\ registered = {}
  BY <1>1 DEF Inv, Apart, RegistryIsKnown
<1>3. TypeOK'
  BY <1>1, <1>2 DEF Inv, TypeOK
<1>4. RegistryIsKnown' /\ Counters' /\ Apart' /\ Joins' /\ Finds'
  BY <1>1, <1>2 DEF Inv, RegistryIsKnown, Counters, Apart, Joins, Finds
<1>5. OneReaderEach'
  BY <1>1 DEF Inv, OneReaderEach
<1> QED BY <1>3, <1>4, <1>5 DEF Inv

-----------------------------------------------------------------------------
(* The goroutine of the discoverer. *)

\* While it is in a pass the discoverer is there and nobody drains it.
LEMMA InPass ==
  ASSUME Inv, dpc # "none" PROVE aws /\ cfgPc \notin {"drain", "join"} /\ cfgJoin = Nil
BY DEF Inv, TypeOK, Apart

LEMMA ListingInv ==
  ASSUME Inv, Begin \/ List \/ PageFails \/ ListDone \/ SweepDone \/ \E i \in todo : CheckTags(i)
  PROVE  Inv'
<1>1. UNCHANGED <<cloud, aws, cfgPc, cfgJoin, dcfg, dsess, collectors, registered,
                  discovererRegistered, readers, join>>
  BY DEF Begin, List, PageFails, ListDone, SweepDone, CheckTags, others, config, d, shared
<1>2. dpc \in {"select", "list", "page", "sweep"}
  BY DEF Begin, List, PageFails, ListDone, SweepDone, CheckTags
<1>3. aws /\ cfgPc \notin {"drain", "join"} /\ join = Nil
  BY <1>2, InPass DEF Inv, TypeOK
<1>4. \/ dpc' \in {"list", "sweep", "select"} /\ todo' = todo
      \/ /\ dpc' = "page" /\ todo' \subseteq {i \in Instances : KindOf[i] = kind}
      \/ /\ dpc' = "found" /\ cur' \in Instances /\ KindOf[cur'] = kind
         /\ todo' \subseteq {i \in Instances : KindOf[i] = kind}
  <2>1. todo \subseteq Instances /\ (dpc = "page" => \A i \in todo : KindOf[i] = kind)
    BY DEF Inv, TypeOK, Finds
  <2>2. CASE Begin
    BY <2>2 DEF Begin
  <2>3. CASE List
    <3>1. dpc' = "page" /\ (todo' = {} \/ \A i \in todo' : i \in cloud /\ KindOf[i] = kind)
      BY <2>3 DEF List
    <3>2. todo' \subseteq Instances
      BY <2>3 DEF List, Inv, Finds
    <3> QED BY <3>1, <3>2
  <2>4. CASE PageFails
    BY <2>4 DEF PageFails
  <2>5. CASE ListDone
    BY <2>5 DEF ListDone
  <2>6. CASE SweepDone
    BY <2>6 DEF SweepDone
  <2>7. CASE \E i \in todo : CheckTags(i)
    BY <2>1, <2>7 DEF CheckTags
  <2> QED BY <2>2, <2>3, <2>4, <2>5, <2>6, <2>7
<1>5. kind' \in {"rds", "ec"} /\ (dpc' \in {"page", "found"} => kind' = kind)
  BY DEF Begin, List, PageFails, ListDone, SweepDone, CheckTags, Inv, Counters
<1>6. todo' \subseteq Instances
  BY <1>4 DEF Inv, TypeOK
<1>7. TypeOK'
  BY <1>1, <1>3, <1>4, <1>6 DEF Inv, TypeOK
<1>8. RegistryIsKnown' /\ Counters' /\ Apart' /\ Joins'
  BY <1>1, <1>3, <1>4, <1>5 DEF Inv, RegistryIsKnown, Counters, Apart, Joins
<1>9. Finds'
  BY <1>1, <1>4, <1>5 DEF Inv, Finds
<1>10. OneReaderEach'
  BY <1>1 DEF Inv, OneReaderEach
<1> QED BY <1>7, <1>8, <1>9, <1>10 DEF Inv

\* A new collector brings its reader; it is not one that is just being stopped.
LEMMA FoundInv == ASSUME Inv, Found PROVE Inv'
<1> DEFINE id == <<dcfg.region, cur>>
<1>1. /\ UNCHANGED <<cloud, aws, cfgPc, cfgJoin, dcfg, dsess, kind, todo, join, discovererRegistered>>
      /\ dpc = "found" /\ dpc' = "page"
      /\ readers' = IF id \notin collectors /\ kind = "rds"
                    THEN [readers EXCEPT ![id] = @ + 1] ELSE readers
      /\ collectors' = IF id \in registered THEN collectors ELSE collectors \cup {id}
      /\ registered' = registered \cup {id}
  BY DEF Found, others, config, d
<1>2. aws /\ cfgPc \notin {"drain", "join"} /\ cfgJoin = Nil /\ join = Nil
  BY <1>1, InPass DEF Inv, TypeOK
<1>3. id \in Ids /\ Kind(id) = kind
  BY <1>1, <1>2, IdTypes DEF Inv, Finds
<1> HIDE DEF id
<1>4. registered = collectors /\ collectors' = collectors \cup {id} /\ registered' = collectors'
  BY <1>1 DEF Inv, RegistryIsKnown
<1>5. readers \in [Ids -> Nat]
  BY DEF Inv, Counters
<1>6. /\ readers' \in [Ids -> Nat]
      /\ readers'[id] = IF id \notin collectors /\ kind = "rds" THEN readers[id] + 1 ELSE readers[id]
      /\ \A r \in Ids \ {id} : readers'[r] = readers[r]
  BY <1>1, <1>3, <1>5
<1>7. TypeOK'
  BY <1>1, <1>2, <1>3, <1>4 DEF Inv, TypeOK
<1>8. RegistryIsKnown' /\ Counters' /\ Apart' /\ Joins'
  BY <1>1, <1>2, <1>4, <1>6 DEF Inv, RegistryIsKnown, Counters, Apart, Joins
<1>9. Finds'
  BY <1>1 DEF Inv, Finds
<1>10. OneReaderEach'
  <2> SUFFICES ASSUME NEW r \in Ids
               PROVE  readers'[r] = IF Kind(r) = "rds" /\ (r \in collectors' \/ r \in {Nil})
                                    THEN 1 ELSE 0
    BY <1>1, <1>2 DEF OneReaderEach, Kind
  <2>1. readers[r] = IF Kind(r) = "rds" /\ (r \in collectors \/ r \in {Nil}) THEN 1 ELSE 0
    BY <1>2 DEF Inv, OneReaderEach
  <2>2. r # Nil
    BY AWSAssumption
  <2>3. CASE r = id
    BY <1>3, <1>4, <1>6, <2>1, <2>2, <2>3
  <2>4. CASE r # id
    BY <1>4, <1>6, <2>1, <2>2, <2>4
  <2> QED BY <2>3, <2>4
<1> QED BY <1>7, <1>8, <1>9, <1>10 DEF Inv

LEMMA SweepInv == ASSUME Inv, NEW id \in Stale, Sweep(id) PROVE Inv'
<1>1. /\ UNCHANGED <<cloud, aws, cfgPc, cfgJoin, dcfg, dsess, kind, todo, cur, discovererRegistered, readers>>
      /\ dpc = "sweep" /\ registered' = registered \ {id} /\ collectors' = collectors \ {id}
      /\ IF kind = "rds" THEN dpc' = "join" /\ join' = id ELSE UNCHANGED <<dpc, join>>
  BY DEF Sweep, others, config, d
<1>2. id \in collectors /\ id \in Ids /\ Kind(id) = kind /\ id # Nil
  BY AWSAssumption DEF Stale, Inv, TypeOK
<1>3. aws /\ cfgPc \notin {"drain", "join"} /\ cfgJoin = Nil /\ join = Nil
  BY <1>1, InPass DEF Inv, TypeOK
<1>4. TypeOK'
  BY <1>1, <1>2, <1>3 DEF Inv, TypeOK
<1>5. RegistryIsKnown' /\ Counters' /\ Apart' /\ Finds'
  BY <1>1, <1>3 DEF Inv, RegistryIsKnown, Counters, Apart, Finds
<1>6. Joins'
  BY <1>1, <1>2, <1>3 DEF Inv, Joins, Kind
<1>7. OneReaderEach'
  <2> SUFFICES ASSUME NEW r \in Ids
               PROVE  readers[r] = IF Kind(r) = "rds" /\ (r \in collectors' \/ r \in {join', cfgJoin})
                                   THEN 1 ELSE 0
    BY <1>1 DEF OneReaderEach, Kind
  <2>1. readers[r] = IF Kind(r) = "rds" /\ (r \in collectors \/ r \in {join, cfgJoin}) THEN 1 ELSE 0
    BY DEF Inv, OneReaderEach
  <2>2. r # Nil
    BY AWSAssumption
  <2> QED BY <1>1, <1>2, <1>3, <2>1, <2>2
<1> QED BY <1>4, <1>5, <1>6, <1>7 DEF Inv

LEMMA SweepJoinInv == ASSUME Inv, SweepJoin PROVE Inv'
<1>1. /\ UNCHANGED <<cloud, aws, cfgPc, cfgJoin, dcfg, dsess, collectors, kind, todo, cur, registered,
                     discovererRegistered>>
      /\ dpc = "join" /\ dpc' = "sweep" /\ join' = Nil
      /\ readers' = [readers EXCEPT ![join] = @ - 1]
  BY DEF SweepJoin, others, config, d
<1>2. /\ aws /\ cfgPc \notin {"drain", "join"} /\ cfgJoin = Nil
      /\ join \in Ids \ collectors /\ Kind(join) = "rds"
  BY <1>1, InPass DEF Inv, TypeOK, Joins
<1>3. readers \in [Ids -> Nat] /\ readers[join] = 1
  BY <1>2 DEF Inv, Counters, OneReaderEach
<1>4. /\ readers' \in [Ids -> Nat] /\ readers'[join] = 0
      /\ \A r \in Ids \ {join} : readers'[r] = readers[r]
  BY <1>1, <1>2, <1>3
<1>5. TypeOK'
  BY <1>1 DEF Inv, TypeOK
<1>6. RegistryIsKnown' /\ Counters' /\ Apart' /\ Joins' /\ Finds'
  BY <1>1, <1>2, <1>4 DEF Inv, RegistryIsKnown, Counters, Apart, Joins, Finds
<1>7. OneReaderEach'
  <2> SUFFICES ASSUME NEW r \in Ids
               PROVE  readers'[r] = IF Kind(r) = "rds" /\ (r \in collectors \/ r \in {Nil, cfgJoin})
                                    THEN 1 ELSE 0
    BY <1>1 DEF OneReaderEach, Kind
  <2>1. readers[r] = IF Kind(r) = "rds" /\ (r \in collectors \/ r \in {join, cfgJoin}) THEN 1 ELSE 0
    BY DEF Inv, OneReaderEach
  <2>2. r # Nil
    BY AWSAssumption
  <2> QED BY <1>2, <1>4, <2>1, <2>2
<1> QED BY <1>5, <1>6, <1>7 DEF Inv

-----------------------------------------------------------------------------

\* Log readers, the cloud, and no step at all.
LEMMA OutsideInv ==
  ASSUME Inv, \/ \E id \in Ids : RefreshBegins(id) \/ RefreshEnds(id)
              \/ \E i \in Instances : CloudChanges(i)
              \/ UNCHANGED vars
  PROVE  Inv'
<1>1. UNCHANGED <<aws, cfgPc, cfgJoin, dcfg, dsess, collectors, dpc, kind, todo, cur, join,
                  registered, discovererRegistered, readers>>
  BY DEF RefreshBegins, RefreshEnds, CloudChanges, vars, config, d, pass, shared
<1>2. cloud' \subseteq Instances
  BY DEF RefreshBegins, RefreshEnds, CloudChanges, vars, Inv, Finds
<1>3. TypeOK' /\ Apart' /\ Finds'
  BY <1>1, <1>2 DEF Inv, TypeOK, Apart, Finds
<1> QED BY <1>1, <1>3, AsideInv

LEMMA NextInv == Inv /\ [Next]_vars => Inv'
<1> SUFFICES ASSUME Inv, [Next]_vars PROVE Inv'
  OBVIOUS
<1>1. CASE Input \/ ConfigStep \/ StopPasses
  BY <1>1, CreateInv, UpdateInv, RemoveInv, SwapSessionInv, DrainInv, DrainJoinInv, StoppedInv
     DEF Input, ConfigStep
<1>2. CASE Discover
  BY <1>2, ListingInv, FoundInv, SweepInv, SweepJoinInv DEF Discover
<1>3. CASE \/ \E id \in Ids : RefreshBegins(id) \/ RefreshEnds(id)
           \/ \E i \in Instances : CloudChanges(i)
           \/ UNCHANGED vars
  BY <1>3, OutsideInv
<1> QED BY <1>1, <1>2, <1>3 DEF Next

LEMMA AlwaysInv == Spec => []Inv
BY InitInv, NextInv, PTL DEF Spec

\* The types, and that the goroutines wait for a reader only where they say so.
THEOREM TypeCorrect == Spec => []TypeOK
<1>1. Inv => TypeOK
  BY DEF Inv
<1> QED BY <1>1, AlwaysInv, PTL

\* No collector, registration or log reader is lost or left behind, whatever
\* fails in a pass and whenever the discoverer is updated or stopped.
THEOREM RegistryAlwaysMatches == Spec => []RegistryMatches
<1>1. Inv => RegistryMatches
  BY DEF Inv, RegistryMatches
<1> QED BY <1>1, AlwaysInv, PTL
-----------------------------------------------------------------------------
(***************************************************************************)
(* A clean pass.  The client, the session and the configuration name one   *)
(* region (Settled); what is wanted of the kind at hand is seen or still   *)
(* in the list, what is seen is wanted and has a collector, and the RDS    *)
(* instances are right once the clusters are being listed (Listed).        *)
(***************************************************************************)

Wanted(k) == {id \in Expected : Kind(id) = k}
Known(k)  == {id \in collectors : Kind(id) = k}

InList == {"list", "page", "found"}

Settled ==
  /\ aws /\ cfgPc # "session" => dsess = dcfg.region
  /\ clean => aws /\ cfgPc # "session"
  /\ dpc \in {"none", "select"} => seen = {}
  /\ seen \subseteq collectors
  /\ again => kind = "ec" /\ dpc \in InList

Listed ==
  /\ dpc \in InList \cup {"sweep", "join"} =>
       /\ svc = dcfg.region /\ seen \subseteq Wanted(kind)
       /\ kind = "ec" => Known("rds") = Wanted("rds")
  /\ dpc \in InList /\ again => Wanted(kind) \subseteq seen
  /\ dpc \in {"page", "found"} =>
       /\ \A id \in Wanted(kind) \ seen : id[2] \in todo \/ (dpc = "found" /\ id[2] = cur)
       /\ \A i \in todo : i \in cloud /\ RegionOf[i] = svc
  /\ dpc = "found" => <<dcfg.region, cur>> \in Wanted(kind)
  /\ dpc \in {"sweep", "join"} => Wanted(kind) \subseteq seen
  /\ dpc = "select" => collectors = Expected

CleanInv == Settled /\ (clean => Listed)

\* What is wanted of a kind, instance by instance.
LEMMA WantedIs ==
  ASSUME Inv, aws, NEW k, NEW id
  PROVE  id \in Wanted(k) <=>
           \E i \in cloud : /\ id = <<dcfg.region, i>> /\ RegionOf[i] = dcfg.region
                            /\ KindOf[i] = k /\ (dcfg.filtered => i \in dcfg.matched)
<1>1. \A i \in cloud : Kind(<<dcfg.region, i>>) = KindOf[i]
  BY DEF Kind
<1> QED BY <1>1 DEF Wanted, Expected

\* Both kinds together are all that is expected, and all that is known.
LEMMA TwoKinds ==
  ASSUME Inv, aws
  PROVE  /\ Expected = Wanted("rds") \cup Wanted("ec")
         /\ collectors = Known("rds") \cup Known("ec")
<1>1. \A i \in cloud : Kind(<<dcfg.region, i>>) \in {"rds", "ec"}
  BY AWSAssumption DEF Kind, Inv, Finds
<1>2. \A id \in Expected : Kind(id) \in {"rds", "ec"}
  BY <1>1 DEF Expected
<1>3. \A id \in Ids : Kind(id) \in {"rds", "ec"}
  BY AWSAssumption DEF Kind, Ids
<1>4. collectors \subseteq Ids
  BY DEF Inv, TypeOK
<1> QED BY <1>2, <1>3, <1>4 DEF Wanted, Known

LEMMA InitClean == Init => CleanInv
BY DEF Init, CleanInv, Settled

\* Steps of other goroutines.  A new configuration, a failure and a change of the
\* cloud end what a clean pass promises.
LEMMA ElsewhereClean ==
  ASSUME Inv, CleanInv, Inv',
         \/ Input \/ SwapSession \/ StopPasses \/ DrainJoin \/ Stopped
         \/ \E id \in collectors : Drain(id)
         \/ \E id \in Ids : RefreshBegins(id) \/ RefreshEnds(id)
         \/ \E i \in Instances : CloudChanges(i)
         \/ UNCHANGED vars
  PROVE  CleanInv'
<1>1. UNCHANGED <<svc, todo, cur, seen, again, kind>>
  BY DEF Input, Create, Update, Remove, SwapSession, StopPasses, DrainJoin, Stopped, Drain,
         RefreshBegins, RefreshEnds, CloudChanges, vars, pass
<1>2. CASE \E c \in Cfgs : Create(c)
  <2>1. PICK c \in Cfgs : Create(c)
    BY <1>2
  <2>2. ~aws /\ cfgPc = "recv" /\ dpc = "none" /\ ~clean /\ collectors' = collectors
    BY <2>1 DEF Create, Inv, TypeOK, CleanInv, Settled
  <2>3. /\ ~clean' /\ cfgPc' = cfgPc
        /\ \/ UNCHANGED <<aws, dcfg, dsess, dpc>>
           \/ dsess' = dcfg'.region /\ dpc' = "select"
    BY <2>1, <2>2 DEF Create, Fault, d
  <2> QED BY <1>1, <2>2, <2>3 DEF CleanInv, Settled, InList
<1>3. CASE \E c \in Cfgs : Update(c)
  <2>1. PICK c \in Cfgs : Update(c)
    BY <1>3
  <2>2. /\ ~clean' /\ UNCHANGED <<aws, dsess, collectors, dpc>> /\ cfgPc = "recv"
        /\ cfgPc' = "session" \/ (cfgPc' = "stop" /\ dcfg' = dcfg)
    BY <2>1 DEF Update, Fault, pass
  <2> QED BY <1>1, <2>2 DEF CleanInv, Settled
<1>4. CASE Remove \/ StopPasses
  <2>1. /\ UNCHANGED <<cloud, aws, dcfg, dsess, collectors, clean>> /\ cfgPc \in {"recv", "stop"}
        /\ cfgPc' \in {"stop", "drain"}
        /\ dpc' = dpc \/ (dpc = "select" /\ dpc' = "none")
    BY <1>4 DEF Remove, StopPasses, d, pass
  <2>2. Settled'
    BY <1>1, <2>1 DEF CleanInv, Settled, InList
  <2>3. Listed => Listed'
    BY <1>1, <2>1 DEF Listed, Wanted, Known, Expected, InList
  <2> QED BY <2>1, <2>2, <2>3 DEF CleanInv
<1>5. CASE SwapSession
  <2>1. /\ UNCHANGED <<aws, dcfg, collectors, dpc, clean>> /\ dsess' = dcfg.region
        /\ cfgPc = "session"
    BY <1>5 DEF SwapSession, pass
  <2>2. ~clean'
    BY <2>1 DEF CleanInv, Settled
  <2> QED BY <1>1, <2>1, <2>2 DEF CleanInv, Settled
<1>6. CASE DrainJoin \/ \E id \in collectors : Drain(id)
  <2>1. /\ UNCHANGED <<cloud, aws, dcfg, dsess, dpc, clean>>
        /\ cfgPc \in {"drain", "join"} /\ cfgPc' \in {"drain", "join"}
    BY <1>6 DEF DrainJoin, Drain, d, pass
  <2>2. dpc = "none" /\ seen = {}
    BY <2>1 DEF Inv, Apart, CleanInv, Settled
  <2>3. Settled' /\ Listed'
    BY <1>1, <2>1, <2>2 DEF CleanInv, Settled, Listed, InList
  <2> QED BY <2>3 DEF CleanInv
<1>7. CASE Stopped
  <2>1. ~aws' /\ ~clean' /\ UNCHANGED <<collectors, dpc>>
    BY <1>7 DEF Stopped, pass
  <2> QED BY <1>1, <2>1 DEF CleanInv, Settled
<1>8. CASE \/ \E id \in Ids : RefreshBegins(id) \/ RefreshEnds(id)
           \/ UNCHANGED vars
  <2>1. UNCHANGED <<cloud, aws, cfgPc, dcfg, dsess, collectors, dpc, clean>>
    BY <1>8 DEF RefreshBegins, RefreshEnds, vars, config, d, pass
  <2>2. Settled' /\ (Listed => Listed')
    BY <1>1, <2>1 DEF CleanInv, Settled, Listed, Wanted, Known, Expected, InList
  <2> QED BY <2>1, <2>2 DEF CleanInv
<1>9. CASE \E i \in Instances : CloudChanges(i)
  <2>1. ~clean' /\ UNCHANGED <<aws, cfgPc, dcfg, dsess, collectors, dpc>>
    BY <1>9 DEF CloudChanges, Fault, config, d, pass
  <2> QED BY <1>1, <2>1 DEF CleanInv, Settled
<1> QED BY <1>2, <1>3, <1>4, <1>5, <1>6, <1>7, <1>8, <1>9 DEF Input

\* A pass begins with the session of the configuration, unless it is being changed.
LEMMA BeginClean == ASSUME Inv, CleanInv, Begin PROVE CleanInv'
<1>1. /\ UNCHANGED <<cloud, aws, cfgPc, dcfg, dsess, collectors, again>>
      /\ dpc = "select" /\ dpc' = "list" /\ kind' = "rds" /\ svc' = dsess /\ seen' = {}
      /\ clean' = (cfgPc # "session")
  BY DEF Begin, others, config, d
<1>2. aws /\ ~again
  BY <1>1 DEF Inv, TypeOK, CleanInv, Settled, InList
<1>3. Settled'
  BY <1>1, <1>2 DEF CleanInv, Settled
<1>4. clean' => Listed'
  BY <1>1, <1>2 DEF CleanInv, Settled, Listed, InList
<1> QED BY <1>3, <1>4 DEF CleanInv

\* A list holds all that is wanted of its kind, or is the second list and what is
\* wanted has been seen.
LEMMA ListClean == ASSUME Inv, CleanInv, List PROVE CleanInv'
<1>1. /\ UNCHANGED <<cloud, aws, cfgPc, dcfg, dsess, collectors, kind, again, svc, seen>>
      /\ dpc = "list" /\ dpc' = "page"
      /\ \/ ~clean'
         \/ /\ todo' = {i \in cloud : /\ RegionOf[i] = svc /\ KindOf[i] = kind
                                      /\ again => i \in Ungrouped}
            /\ clean' = clean
  BY DEF List, Fault, others, config, d
<1>2. Settled'
  BY <1>1 DEF CleanInv, Settled, InList
<1>3. ASSUME clean' PROVE Listed'
  <2>1. /\ todo' = {i \in cloud : /\ RegionOf[i] = svc /\ KindOf[i] = kind
                                  /\ again => i \in Ungrouped}
        /\ clean' = clean
    BY <1>1, <1>3
  <2>2. Listed /\ aws
    BY <1>3, <2>1 DEF CleanInv, Settled
  <2>3. Wanted(kind)' = Wanted(kind) /\ Wanted("rds")' = Wanted("rds") /\ Known("rds")' = Known("rds")
    BY <1>1 DEF Wanted, Known, Expected
  <2>4. svc = dcfg.region /\ seen \subseteq Wanted(kind)
    BY <1>1, <2>2 DEF Listed, InList
  <2>5. again => Wanted(kind) \subseteq seen
    BY <1>1, <2>2 DEF Listed, InList
  <2>6. \A i \in todo' : i \in cloud /\ RegionOf[i] = svc
    BY <2>1
  <2>7. ~again => \A id \in Wanted(kind) : id[2] \in todo'
    BY <2>1, <2>2, <2>4, WantedIs
  <2> QED BY <1>1, <2>2, <2>3, <2>4, <2>5, <2>6, <2>7 DEF Listed, InList
<1> QED BY <1>2, <1>3 DEF CleanInv

LEMMA PageFailsClean == ASSUME Inv, CleanInv, PageFails PROVE CleanInv'
<1>1. /\ ~clean' /\ UNCHANGED <<aws, cfgPc, dcfg, dsess, collectors, dpc, seen, again, kind>>
  BY DEF PageFails, Fault, others, config, d
<1> QED BY <1>1 DEF CleanInv, Settled

\* An instance that is left out has other tags than those wanted.
LEMMA CheckTagsClean == ASSUME Inv, CleanInv, NEW i \in todo, CheckTags(i) PROVE CleanInv'
<1>1. /\ UNCHANGED <<cloud, aws, cfgPc, dcfg, dsess, collectors, kind, again, svc, seen>>
      /\ dpc = "page" /\ todo' = todo \ {i}
      /\ \/ ~clean' /\ dpc' = dpc
         \/ /\ dcfg.filtered /\ i \notin dcfg.matched
            /\ dpc' = dpc /\ clean' = clean
         \/ /\ dcfg.filtered => i \in dcfg.matched
            /\ dpc' = "found" /\ cur' = i /\ clean' = clean
  BY DEF CheckTags, Fault, others, config, d
<1>2. Settled'
  BY <1>1 DEF CleanInv, Settled, InList
<1>3. ASSUME clean' PROVE Listed'
  <2>1. Listed /\ aws /\ clean' = clean
    BY <1>1, <1>3 DEF CleanInv, Settled
  <2>2. Wanted(kind)' = Wanted(kind) /\ Wanted("rds")' = Wanted("rds") /\ Known("rds")' = Known("rds")
    BY <1>1 DEF Wanted, Known, Expected
  <2>3. i \in cloud /\ RegionOf[i] = dcfg.region /\ KindOf[i] = kind
    BY <1>1, <2>1 DEF Listed, Inv, Finds, InList
  <2>4. \A id \in Wanted(kind) \ seen : id[2] \in todo
    BY <1>1, <2>1 DEF Listed
  <2>5. CASE dcfg.filtered /\ i \notin dcfg.matched /\ dpc' = dpc
    <3>1. \A id \in Wanted(kind) : id[2] # i
      BY <2>1, <2>5, WantedIs
    <3> QED BY <1>1, <2>1, <2>2, <2>4, <2>5, <3>1 DEF Listed, InList
  <2>6. CASE (dcfg.filtered => i \in dcfg.matched) /\ dpc' = "found" /\ cur' = i
    <3>1. <<dcfg.region, i>> \in Wanted(kind)
      BY <2>1, <2>3, <2>6, WantedIs
    <3> QED BY <1>1, <2>1, <2>2, <2>4, <2>6, <3>1 DEF Listed, InList
  <2> QED BY <1>1, <1>3, <2>5, <2>6
<1> QED BY <1>2, <1>3 DEF CleanInv

LEMMA FoundClean == ASSUME Inv, CleanInv, Found PROVE CleanInv'
<1> DEFINE id == <<dcfg.region, cur>>
<1>1. /\ UNCHANGED <<cloud, aws, cfgPc, dcfg, dsess, kind, again, svc, todo, clean>>
      /\ dpc = "found" /\ dpc' = "page" /\ seen' = seen \cup {id}
      /\ collectors' = IF id \in registered THEN collectors ELSE collectors \cup {id}
  BY DEF Found, others, config, d
<1>2. collectors' = collectors \cup {id} /\ aws
  BY <1>1 DEF Inv, RegistryIsKnown, TypeOK
<1>3. Kind(id) = kind
  BY <1>1 DEF Inv, Finds, Kind
<1>4. Settled'
  BY <1>1, <1>2 DEF CleanInv, Settled, InList
<1>5. ASSUME clean' PROVE Listed'
  <2>1. Listed
    BY <1>1, <1>5 DEF CleanInv
  <2>2. Wanted(kind)' = Wanted(kind) /\ Wanted("rds")' = Wanted("rds")
    BY <1>1 DEF Wanted, Expected
  <2>3. kind = "ec" => Known("rds")' = Known("rds")
    BY <1>2, <1>3 DEF Known, Kind
  <2>4. id \in Wanted(kind)
    BY <1>1, <2>1 DEF Listed
  <2>5. \A w \in Wanted(kind) : w[2] = cur => w = id
    BY <1>2, WantedIs
  <2>6. \A w \in Wanted(kind) \ seen' : w[2] \in todo
    BY <1>1, <2>1, <2>5 DEF Listed
  <2> HIDE DEF id
  <2> QED BY <1>1, <2>1, <2>2, <2>3, <2>4, <2>6 DEF Listed, InList
<1> QED BY <1>4, <1>5 DEF CleanInv

\* A list is done: all that is wanted of its kind has been seen.
LEMMA ListDoneClean == ASSUME Inv, CleanInv, ListDone PROVE CleanInv'
<1>1. /\ UNCHANGED <<cloud, aws, cfgPc, dcfg, dsess, collectors, kind, svc, seen, clean>>
      /\ dpc = "page" /\ todo = {} /\ again' = (kind = "ec" /\ ~again)
      /\ dpc' = IF again' THEN "list" ELSE "sweep"
  BY DEF ListDone, others, config, d
<1>2. Settled'
  BY <1>1 DEF CleanInv, Settled, InList
<1>3. ASSUME clean' PROVE Listed'
  <2>1. Listed
    BY <1>1, <1>3 DEF CleanInv
  <2>2. Wanted(kind)' = Wanted(kind) /\ Wanted("rds")' = Wanted("rds") /\ Known("rds")' = Known("rds")
    BY <1>1 DEF Wanted, Known, Expected
  <2>3. Wanted(kind) \subseteq seen
    BY <1>1, <2>1 DEF Listed
  <2> QED BY <1>1, <2>1, <2>2, <2>3 DEF Listed, InList
<1> QED BY <1>2, <1>3 DEF CleanInv

\* Only what was not seen is dropped.
LEMMA SweepClean ==
  ASSUME Inv, CleanInv, SweepJoin \/ \E id \in Stale : Sweep(id)
  PROVE  CleanInv'
<1>1. /\ UNCHANGED <<cloud, aws, cfgPc, dcfg, dsess, kind, again, svc, seen, clean>>
      /\ dpc \in {"sweep", "join"} /\ dpc' \in {"sweep", "join"}
  BY DEF SweepJoin, Sweep, others, config, d
<1>2. /\ collectors' \subseteq collectors
      /\ \A id \in collectors \ collectors' : id \notin seen /\ Kind(id) = kind
  BY DEF SweepJoin, Sweep, Stale
<1>3. Settled'
  BY <1>1, <1>2 DEF CleanInv, Settled, InList
<1>4. ASSUME clean' PROVE Listed'
  <2>1. Listed
    BY <1>1, <1>4 DEF CleanInv
  <2>2. Wanted(kind)' = Wanted(kind) /\ Wanted("rds")' = Wanted("rds")
    BY <1>1 DEF Wanted, Expected
  <2>3. kind = "ec" => Known("rds")' = Known("rds")
    BY <1>2 DEF Known, Kind
  <2> QED BY <1>1, <2>1, <2>2, <2>3 DEF Listed, InList
<1> QED BY <1>3, <1>4 DEF CleanInv

\* Nothing stale is left: the collectors of the kind are those that are wanted.
LEMMA SweepDoneClean == ASSUME Inv, CleanInv, SweepDone PROVE CleanInv'
<1>1. /\ UNCHANGED <<cloud, aws, cfgPc, dcfg, dsess, collectors, again, clean>>
      /\ dpc = "sweep" /\ Stale = {} /\ seen' = {}
      /\ \/ kind = "rds" /\ kind' = "ec" /\ dpc' = "list" /\ svc' = dsess
         \/ kind = "ec" /\ kind' = kind /\ dpc' = "select"
  BY DEF SweepDone, others, config, d, Inv, Counters
<1>2. aws /\ ~again
  BY <1>1 DEF Inv, TypeOK, CleanInv, Settled, InList
<1>3. Settled'
  BY <1>1, <1>2 DEF CleanInv, Settled
<1>4. ASSUME clean' PROVE Listed'
  <2>1. Listed /\ cfgPc # "session" /\ seen \subseteq collectors
    BY <1>1, <1>4 DEF CleanInv, Settled
  <2>2. seen = Wanted(kind) /\ (kind = "ec" => Known("rds") = Wanted("rds"))
    BY <1>1, <2>1 DEF Listed
  <2>3. Known(kind) = Wanted(kind)
    BY <1>1, <2>1, <2>2 DEF Known, Stale, Wanted
  <2>4. /\ Wanted("rds")' = Wanted("rds") /\ Known("rds")' = Known("rds")
        /\ Expected' = Expected
    BY <1>1 DEF Wanted, Known, Expected
  <2>5. CASE kind = "rds"
    BY <1>1, <1>2, <1>3, <2>1, <2>3, <2>4, <2>5 DEF Listed, Settled, InList
  <2>6. CASE kind = "ec"
    <3>1. collectors = Expected
      BY <1>2, <2>2, <2>3, <2>6, TwoKinds
    <3> QED BY <1>1, <2>4, <2>6, <3>1 DEF Listed, InList
  <2> QED BY <1>1, <2>5, <2>6
<1> QED BY <1>3, <1>4 DEF CleanInv

LEMMA NextClean == Inv /\ Inv' /\ CleanInv /\ [Next]_vars => CleanInv'
<1> SUFFICES ASSUME Inv, Inv', CleanInv, [Next]_vars PROVE CleanInv'
  OBVIOUS
<1>1. CASE Discover
  BY <1>1, BeginClean, ListClean, PageFailsClean, CheckTagsClean, FoundClean, ListDoneClean,
     SweepClean, SweepDoneClean DEF Discover
<1>2. CASE ~Discover
  BY <1>2, ElsewhereClean DEF Next, ConfigStep
<1> QED BY <1>1, <1>2

\* After a pass that met no failure, change or new configuration the collectors
\* are exactly the matching instances, whatever earlier passes left behind.
THEOREM CleanPassIsExact == Spec => []CleanPassExact
<1>1. Inv /\ CleanInv => CleanPassExact
  BY DEF CleanInv, Listed, CleanPassExact
<1> QED BY <1>1, InitClean, NextClean, AlwaysInv, InitInv, NextInv, PTL DEF Spec
=============================================================================
