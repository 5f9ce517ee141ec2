--------------------------- MODULE ExportersProofs ---------------------------
(***************************************************************************)
(* How an exporter comes to life and ends: the invariants of Credentials,  *)
(* for any targets, secrets, keys and changes, and those of Exporters, for *)
(* any number of concurrent scrapes.  The two have no variable in common.  *)
(***************************************************************************)
EXTENDS Credentials, Exporters, TLAPS

-----------------------------------------------------------------------------
(***************************************************************************)
(* Exporters                                                               *)
(*                                                                         *)
(* None of its invariants is inductive alone.  What strengthens them: how  *)
(* far StartExporter has come says what it has set (Progress), where       *)
(* StopExporter found it says what it will clear (Removal), a scraper that *)
(* is past a check either still has what it checked or is disturbed        *)
(* (Checked), and a Close that met no scraper leaves none (Closed).        *)
(***************************************************************************)

HasColl == {"stop", "register", "started"}
HasStop == {"register", "started"}

Progress ==
  /\ coll => startPc \in HasColl
  /\ startPc \in HasColl /\ delPc = "no" => coll
  /\ stop <=> startPc \in HasStop
  /\ registered => startPc = "started"
  /\ worker => kind = "pool" /\ startPc \in HasColl
  /\ client => kind = "mongo"

Removal ==
  delPc # "no" =>
    /\ foundAt \in {"tick", "new"} \cup HasColl
    /\ delPc # "done" => foundAt \in HasColl
    /\ foundAt = "tick" => startPc = "tick"
    /\ foundAt \in HasStop => startPc \in HasStop
    /\ foundAt = "started" => startPc = "started"
    /\ foundAt = "started" /\ delPc # "unregister" => ~registered
    /\ foundAt \in HasStop /\ delPc \in {"clear", "done"} => ~worker

Checked ==
  /\ \A s \in Scrapers : pc[s] = "call" => coll \/ s \in disturbed
  /\ \A s \in Scrapers : pc[s] \in {"buildInfo", "replStatus"} => client \/ s \in disturbed
  /\ \A s \in Scrapers : pc[s] = "ping" => client
  /\ \A s \in Scrapers : pc[s] = "connect" => kind = "mongo"

Closed ==
  kind = "mongo" /\ foundAt = "started" /\ delPc \in {"clear", "done"} /\ ~late
    => ~client /\ \A s \in Scrapers : pc[s] = "idle"

Inv == /\ ExporterTypeOK /\ NoClientLost /\ PanicNeedsRace
       /\ Progress /\ Removal /\ Checked /\ Closed

LEMMA InitInv == ExporterInit => Inv
<1> SUFFICES ASSUME NEW k \in {"mongo", "pool"}, Start(k) PROVE Inv
  BY DEF ExporterInit
<1>1. \A s \in Scrapers : pc[s] = "idle"
  BY DEF Start
<1>2. ExporterTypeOK
  BY ExportersAssumption, <1>1 DEF Start, ExporterTypeOK
<1>3. NoClientLost
  BY DEF Start, NoClientLost
<1>4. PanicNeedsRace /\ Checked
  BY <1>1 DEF PanicNeedsRace, Checked
<1>5. Progress /\ Removal /\ Closed
  BY DEF Start, Progress, Removal, Closed, HasColl, HasStop
<1> QED BY <1>2, <1>3, <1>4, <1>5 DEF Inv

LEMMA StartInv == ASSUME Inv, StartStep PROVE Inv'
<1> USE DEF Inv, ExporterTypeOK, NoClientLost, PanicNeedsRace, Progress, Removal, Checked, Closed,
            HasColl, HasStop, targetVars, mongoVars, history
<1>1. CASE Recheck   BY <1>1 DEF Recheck
<1>2. CASE NewFails  BY <1>2 DEF NewFails
<1>3. CASE New       BY <1>3 DEF New
<1>4. CASE SetStop   BY <1>4 DEF SetStop
<1>5. CASE Register  BY <1>5 DEF Register
<1> QED BY <1>1, <1>2, <1>3, <1>4, <1>5 DEF StartStep

LEMMA StopExporterInv == ASSUME Inv, StopExporter PROVE Inv'
BY DEF StopExporter, Inv, ExporterTypeOK, NoClientLost, PanicNeedsRace, Progress, Removal, Checked,
       Closed, HasColl, HasStop, mongoVars

LEMMA DelInv == ASSUME Inv, DelStep PROVE Inv'
<1> USE DEF Inv, ExporterTypeOK, NoClientLost, PanicNeedsRace, Progress, Removal, Checked, Closed,
            HasColl, HasStop, targetVars, mongoVars, history, UnderWay
<1>1. CASE Unregister  BY <1>1 DEF Unregister
<1>2. CASE CallStop
  <2>1. CASE ~stop \/ kind = "pool"
    <3>1. /\ UNCHANGED <<kind, inTable, coll, stop, registered, startPc, client, open,
                         clientLock, pc, foundAt, disturbed, late>>
          /\ delPc = "stop" /\ delPc' = "clear"
          /\ worker' \in BOOLEAN /\ (worker' => worker) /\ (stop => ~worker')
      <4>1. ExporterTypeOK
        OBVIOUS
      <4> HIDE DEF Inv, ExporterTypeOK, NoClientLost, PanicNeedsRace, Progress, Removal, Checked, Closed
      <4>2. CASE ~stop
        BY <1>2, <4>1, <4>2 DEF CallStop, ExporterTypeOK
      <4>3. CASE stop /\ kind = "pool"
        BY <1>2, <4>3 DEF CallStop
      <4> QED BY <2>1, <4>1, <4>2, <4>3 DEF ExporterTypeOK
    <3>2. ExporterTypeOK'
      BY <3>1
    <3>3. NoClientLost' /\ PanicNeedsRace' /\ Checked'
      BY <3>1, Zenon
    <3>4. Progress'
      <4>1. Progress
        OBVIOUS
      <4> HIDE DEF Inv, ExporterTypeOK
      <4> QED BY <3>1, <4>1
    <3>5. Removal'
      BY <3>1
    <3>6. Closed'
      BY <2>1, <3>1
    <3> QED BY <3>2, <3>3, <3>4, <3>5, <3>6
  <2>3. CASE stop /\ kind = "mongo"
    <3>1. /\ ~client' /\ open' = 0
          /\ \A s \in Scrapers : pc[s] # "ping"
          /\ disturbed' = disturbed \cup UnderWay /\ late' = (UnderWay # {})
      BY ExportersAssumption, <1>2, <2>3 DEF CallStop
    <3>2. ExporterTypeOK' /\ NoClientLost'
      BY <1>2, <2>3, <3>1 DEF CallStop
    <3>3. PanicNeedsRace' /\ Checked' /\ Closed'
      BY <1>2, <2>3, <3>1 DEF CallStop
    <3>4. Progress' /\ Removal'
      BY <1>2, <2>3, <3>1 DEF CallStop
    <3> QED BY <3>2, <3>3, <3>4
  <2> QED BY <2>1, <2>3
<1>3. CASE Clear       BY <1>3 DEF Clear
<1> QED BY <1>1, <1>2, <1>3 DEF DelStep

LEMMA CollectInv == ASSUME Inv, NEW s \in Scrapers, Gather(s) \/ CollectStep(s) PROVE Inv'
<1> USE ExportersAssumption
    DEF Inv, ExporterTypeOK, NoClientLost, PanicNeedsRace, Progress, Removal, Checked, Closed,
        HasColl, HasStop, targetVars, mongoVars, history, UnderWay, Goes
<1>1. CASE Gather(s)        BY <1>1 DEF Gather
<1>2. CASE Check(s)         BY <1>2 DEF Check
<1>3. CASE Call(s)          BY <1>3 DEF Call
<1>4. CASE Connect(s)
  <2>1. open' = 1 /\ client'
    BY <1>4 DEF Connect
  <2>2. pc' = [pc EXCEPT ![s] = "ping"] /\ kind = "mongo" /\ clientLock' = s
    BY <1>4 DEF Connect
  <2>3. \A r \in Scrapers : clientLock' = r <=> pc'[r] = "ping"
    <3>1. \A r \in Scrapers : pc[r] # "ping"
      BY <1>4 DEF Connect
    <3> QED BY <2>2, <3>1
  <2>5. ExporterTypeOK'
    <3>1. pc' \in [Scrapers -> {"idle", "check", "call", "connect", "ping",
                                "buildInfo", "replStatus", "panic"}]
      BY <2>2
    <3> QED BY <1>4, <2>1, <2>2, <2>3, <3>1 DEF Connect
  <2>6. NoClientLost' /\ PanicNeedsRace'
    BY <1>4, <2>1, <2>2 DEF Connect
  <2>4. Progress' /\ Removal' /\ Checked' /\ Closed'
    BY <1>4, <2>1, <2>2 DEF Connect
  <2> QED BY <2>4, <2>5, <2>6
<1>5. CASE ConnectFails(s)  BY <1>5 DEF ConnectFails
<1>6. CASE Ping(s)          BY <1>6 DEF Ping
<1>7. CASE PingFails(s)
  <2>1. open' = 0 /\ ~client' /\ clientLock' = None
    BY <1>7 DEF PingFails
  <2>2. pc' = [pc EXCEPT ![s] = "idle"] /\ \A r \in Scrapers \ {s} : pc[r] # "ping"
    BY <1>7 DEF PingFails
  <2>3. \A r \in Scrapers : clientLock' = r <=> pc'[r] = "ping"
    BY <2>1, <2>2
  <2>5. ExporterTypeOK'
    <3>1. pc' \in [Scrapers -> {"idle", "check", "call", "connect", "ping",
                                "buildInfo", "replStatus", "panic"}]
      BY <2>2
    <3>2. disturbed' \subseteq Scrapers
      BY <1>7 DEF PingFails
    <3>3. /\ kind' \in {"mongo", "pool"} /\ inTable' \in BOOLEAN /\ coll' \in BOOLEAN
          /\ stop' \in BOOLEAN /\ registered' \in BOOLEAN /\ worker' \in BOOLEAN
          /\ late' \in BOOLEAN /\ client' \in BOOLEAN
      BY <1>7, <2>1 DEF PingFails
    <3>4. /\ startPc' \in {"tick", "new", "stop", "register", "started"}
          /\ delPc' \in {"no", "unregister", "stop", "clear", "done"}
          /\ foundAt' \in {"tick", "new", "stop", "register", "started", None}
      BY <1>7 DEF PingFails
    <3> QED BY <2>1, <2>3, <3>1, <3>2, <3>3, <3>4
  <2>6. NoClientLost' /\ PanicNeedsRace'
    BY <1>7, <2>1, <2>2 DEF PingFails
  <2>4. Progress' /\ Removal' /\ Checked' /\ Closed'
    BY <1>7, <2>1, <2>2 DEF PingFails
  <2> QED BY <2>4, <2>5, <2>6
<1>8. CASE Query(s)         BY <1>8 DEF Query
<1> QED BY <1>1, <1>2, <1>3, <1>4, <1>5, <1>6, <1>7, <1>8 DEF CollectStep

LEMMA RestartInv == ASSUME Inv, Restart PROVE Inv'
BY ExportersAssumption
   DEF Restart, Inv, ExporterTypeOK, NoClientLost, PanicNeedsRace, Progress, Removal, Checked,
       Closed, HasColl, HasStop

LEMMA StutterInv == ASSUME Inv, UNCHANGED exporterVars PROVE Inv'
BY DEF exporterVars, targetVars, mongoVars, history, Inv, ExporterTypeOK, NoClientLost, PanicNeedsRace,
       Progress, Removal, Checked, Closed

LEMMA NextInv == Inv /\ [ExporterNext]_exporterVars => Inv'
BY StartInv, StopExporterInv, DelInv, CollectInv, RestartInv, StutterInv DEF ExporterNext, Running

LEMMA AlwaysInv == ExporterSpec => []Inv
<1>1. ExporterInit => Inv
  BY InitInv
<1>2. Inv /\ [ExporterNext]_exporterVars => Inv'
  BY NextInv
<1> QED BY <1>1, <1>2, PTL DEF ExporterSpec

-----------------------------------------------------------------------------

\* The types of the variables, and who holds clientLock.
THEOREM TypeCorrect == ExporterSpec => []ExporterTypeOK
BY AlwaysInv, PTL DEF Inv

\* connectAndPing and Close connect and disconnect in pairs: one client at most
\* is connected, and it is the one the collector knows of.
THEOREM ClientsArePaired == ExporterSpec => []NoClientLost
BY AlwaysInv, PTL DEF Inv

\* A scrape panics only if coll or client became nil while it was under way.
THEOREM PanicsAreRaces == ExporterSpec => []PanicNeedsRace
BY AlwaysInv, PTL DEF Inv

\* A removal ends the goroutine of the collector if stop was set when it came.
THEOREM RemovalsClose == ExporterSpec => []WorkerClosed
<1>1. Inv => WorkerClosed
  BY DEF Inv, Progress, Removal, WorkerClosed, HasColl, HasStop
<1> QED BY <1>1, AlwaysInv, PTL

\* A removal leaves a target registered only if it overtook StartExporter.
THEOREM RemovalsStay == ExporterSpec => []RemovedIsGone
<1>1. Inv => RemovedIsGone
  BY DEF Inv, Progress, Removal, RemovedIsGone, HasColl, HasStop
<1> QED BY <1>1, AlwaysInv, PTL

\* Once a removal has closed a collector no scrape connects it again, except one
\* that was under way.
THEOREM ClosedStays == ExporterSpec => []ClosedForGood
<1>1. Inv => ClosedForGood
  BY DEF Inv, ExporterTypeOK, Progress, Closed, ClosedForGood
<1> QED BY <1>1, AlwaysInv, PTL

\* The three together: what a removal leaves of a target.
THEOREM RemovalsClean == ExporterSpec => []RemovalCleans
BY RemovalsClose, RemovalsStay, ClosedStays, PTL DEF RemovalCleans

-----------------------------------------------------------------------------
(***************************************************************************)
(* Credentials                                                             *)
(*                                                                         *)
(* That a target is given nothing older than the round it was started in   *)
(* needs that no secret is left of a round before (Reading): the maps of a *)
(* round are empty when it begins.  That only a rival can take a key away  *)
(* needs that the keys read are all that some target of the batch names,   *)
(* and no others (Asked).                                                  *)
(***************************************************************************)

LayoutOK == layout \in Layouts

Reading ==
  /\ before \in [Secrets -> Nat]
  /\ expPc = "tick" => DOMAIN got = {} /\ DOMAIN asked = {}
  /\ expPc = "round" => \A s \in Secrets : before[s] <= content[s].version
  /\ \A s \in DOMAIN got : got[s] # Nil =>
       got[s].keys \subseteq Keys /\ got[s].version \in Nat /\ before[s] <= got[s].version

RoundInv == TypeOK /\ LayoutOK /\ Reading

-----------------------------------------------------------------------------

LEMMA LayoutTypes ==
  ASSUME LayoutOK, NEW t \in TargetNames
  PROVE  /\ KeysOf(t) \subseteq Keys
         /\ NamesSecret(t) => SecretId(t) \in Secrets
<1>1. layout[t] \in CredentialsSecret
  BY CredentialsAssumption DEF LayoutOK
<1>2. layout[t].user \in Keys \cup {Nil} /\ layout[t].pass \in Keys \cup {Nil}
  BY <1>1 DEF CredentialsSecret
<1>3. layout[t].name # Nil => <<layout[t].namespace, layout[t].name>> \in Secrets
  BY CredentialsAssumption DEF LayoutOK
<1> QED BY <1>2, <1>3 DEF KeysOf, NamesSecret, SecretId

LEMMA ContentTypes ==
  ASSUME NEW v \in Nat, NEW ks \in SUBSET Keys
  PROVE  /\ Content(ks, v) \in [exists : BOOLEAN, keys : SUBSET Keys, version : Nat]
         /\ Absent(v) \in [exists : BOOLEAN, keys : SUBSET Keys, version : Nat]
         /\ Content(ks, v).version = v /\ Absent(v).version = v
BY DEF Content, Absent

\* What a target is given comes from its secret, as it was read.
LEMMA ValueIsOwn ==
  ASSUME RoundInv, NEW t \in TargetNames, NEW key, Value(t, key) # Nil
  PROVE  /\ Value(t, key) \in [secret : Secrets, key : Keys, version : Nat]
         /\ Value(t, key).secret = SecretId(t) /\ Value(t, key).key = key
         /\ Value(t, key).version = got[SecretId(t)].version
         /\ SecretId(t) \in DOMAIN got /\ got[SecretId(t)] # Nil
<1>1. /\ NamesSecret(t) /\ SecretId(t) \in DOMAIN got /\ got[SecretId(t)] # Nil
      /\ key \in got[SecretId(t)].keys
      /\ Value(t, key) = [secret |-> SecretId(t), key |-> key, version |-> got[SecretId(t)].version]
  BY DEF Value, Found
<1>2. SecretId(t) \in Secrets
  BY <1>1, LayoutTypes DEF RoundInv
<1>3. key \in Keys /\ got[SecretId(t)].version \in Nat
  BY <1>1 DEF RoundInv, Reading
<1> QED BY <1>1, <1>2, <1>3

LEMMA InitRound == Init => RoundInv
<1> SUFFICES ASSUME Init PROVE RoundInv
  OBVIOUS
<1>1. content \in [Secrets -> [exists : BOOLEAN, keys : SUBSET Keys, version : Nat]]
  BY ContentTypes DEF Init
<1>2. DOMAIN asked = {} /\ DOMAIN got = {}
  BY DEF Init
<1>3. TypeOK
  BY <1>1, <1>2 DEF Init, TypeOK
<1>4. LayoutOK /\ Reading
  BY <1>2 DEF Init, LayoutOK, Reading
<1> QED BY <1>3, <1>4 DEF RoundInv

\* The cluster only adds versions.
LEMMA ClusterRound == ASSUME RoundInv, SecretChanges \/ AccessChanges \/ TargetComes PROVE RoundInv'
<1>1. content \in [Secrets -> [exists : BOOLEAN, keys : SUBSET Keys, version : Nat]]
  BY DEF RoundInv, TypeOK
<1>2. CASE SecretChanges
  <2>1. PICK s \in Secrets :
          \E c \in {Content(ks, content[s].version + 1) : ks \in Contents}
                   \cup {Absent(content[s].version + 1)} :
            content' = [content EXCEPT ![s] = c]
    BY <1>2 DEF SecretChanges
  <2>2. PICK c \in {Content(ks, content[s].version + 1) : ks \in Contents}
                   \cup {Absent(content[s].version + 1)} :
            content' = [content EXCEPT ![s] = c]
    BY <2>1
  <2>3. content[s].version \in Nat /\ content[s].version + 1 \in Nat
    BY <1>1
  <2>4. c \in [exists : BOOLEAN, keys : SUBSET Keys, version : Nat]
        /\ c.version = content[s].version + 1
    <3>1. CASE c = Absent(content[s].version + 1)
      BY <2>3, <3>1, ContentTypes
    <3>2. ASSUME NEW ks \in Contents, c = Content(ks, content[s].version + 1)
          PROVE  c \in [exists : BOOLEAN, keys : SUBSET Keys, version : Nat]
                 /\ c.version = content[s].version + 1
      <4>1. ks \in SUBSET Keys
        BY CredentialsAssumption
      <4> QED BY <2>3, <3>2, <4>1, ContentTypes
    <3> QED BY <2>2, <3>1, <3>2
  <2>5. content' \in [Secrets -> [exists : BOOLEAN, keys : SUBSET Keys, version : Nat]]
    BY <1>1, <2>2, <2>4
  <2>6. \A r \in Secrets : content[r].version \in Nat /\ content'[r].version \in Nat
                           /\ content[r].version <= content'[r].version
    BY <1>1, <2>2, <2>3, <2>4
  <2>7. UNCHANGED <<layout, forbidden, known, started, expPc, batch, asked, got, denied, before>>
    BY <1>2 DEF SecretChanges, round
  <2>8. TypeOK' /\ LayoutOK'
    BY <2>5, <2>7 DEF RoundInv, TypeOK, LayoutOK
  <2>9. Reading'
    BY <2>6, <2>7 DEF RoundInv, Reading
  <2> QED BY <2>8, <2>9 DEF RoundInv
<1>3. CASE AccessChanges
  <2>1. UNCHANGED <<layout, content, known, started, expPc, batch, asked, got, denied, before>>
        /\ forbidden' \subseteq Secrets
    BY <1>3 DEF AccessChanges, round, RoundInv, TypeOK
  <2> QED BY <2>1 DEF RoundInv, TypeOK, LayoutOK, Reading
<1>4. CASE TargetComes
  <2>1. UNCHANGED <<layout, content, forbidden, started, expPc, batch, asked, got, denied, before>>
        /\ known \subseteq known' /\ known' \subseteq TargetNames
    BY <1>4 DEF TargetComes, round, cluster, RoundInv, TypeOK
  <2> QED BY <2>1 DEF RoundInv, TypeOK, LayoutOK, Reading
<1> QED BY <1>2, <1>3, <1>4

LEMMA TickRound == ASSUME RoundInv, Tick PROVE RoundInv'
<1>1. /\ expPc = "tick" /\ expPc' = "round" /\ batch' \subseteq known /\ batch' \subseteq TargetNames
      /\ before' = [s \in Secrets |-> content[s].version]
      /\ UNCHANGED <<layout, content, forbidden, known, started, got, denied>>
  BY DEF Tick, cluster, RoundInv, TypeOK
<1> DEFINE ids == {SecretId(t) : t \in Asking(batch')}
<1>2. PICK last \in [ids -> Asking(batch')] : asked' = [s \in ids |-> KeysOf(last[s])]
  BY DEF Tick
<1>3. \A t \in Asking(batch') : t \in TargetNames /\ NamesSecret(t) /\ KeysOf(t) # {}
  BY <1>1 DEF Asking
<1>4. ids \subseteq Secrets
  BY <1>3, LayoutTypes DEF RoundInv
<1>5. \A s \in ids : KeysOf(last[s]) \subseteq Keys /\ KeysOf(last[s]) # {}
  BY <1>2, <1>3, LayoutTypes DEF RoundInv
<1> HIDE DEF ids
<1>6. DOMAIN asked' = ids /\ \A s \in ids : asked'[s] \subseteq Keys /\ asked'[s] # {}
  BY <1>2, <1>5
<1>7. DOMAIN got = {}
  BY <1>1 DEF RoundInv, Reading
<1>8. \A s \in Secrets : content[s].version \in Nat
  BY DEF RoundInv, TypeOK
<1>9. TypeOK'
  BY <1>1, <1>4, <1>6, <1>7 DEF RoundInv, TypeOK
<1>10. LayoutOK' /\ Reading'
  BY <1>1, <1>7, <1>8 DEF RoundInv, LayoutOK, Reading
<1> QED BY <1>9, <1>10 DEF RoundInv

\* One secret of the round.
LEMMA NoteRound ==
  ASSUME RoundInv, NEW s, expPc = "round", s \in Unread, NEW value, Note(s, value),
         value # Nil => /\ value.keys \subseteq Keys /\ value.version \in Nat
                        /\ before[s] <= value.version
  PROVE  RoundInv'
<1>1. s \in DOMAIN asked
  BY DEF Unread
<1>2. /\ got' = [r \in DOMAIN got \cup {s} |-> IF r = s THEN value ELSE got[r]]
      /\ UNCHANGED <<layout, content, forbidden, known, started, expPc, batch, asked, denied, before>>
  BY DEF Note, cluster
<1>3. /\ DOMAIN got' = DOMAIN got \cup {s} /\ got'[s] = value
      /\ \A r \in DOMAIN got : r # s => got'[r] = got[r]
  BY <1>2
<1>4. TypeOK'
  BY <1>1, <1>2, <1>3 DEF RoundInv, TypeOK
<1>5. LayoutOK' /\ Reading'
  BY <1>2, <1>3 DEF RoundInv, LayoutOK, Reading
<1> QED BY <1>4, <1>5 DEF RoundInv

LEMMA ReadRound == ASSUME RoundInv, NEW s \in Secrets, Read(s) \/ NotRead(s) \/ Forbidden(s) PROVE RoundInv'
<1>1. CASE Read(s)
  <2> DEFINE value == [keys |-> asked[s] \cap content[s].keys,
                       version |-> content[s].version, all |-> content[s].keys]
  <2>1. expPc = "round" /\ s \in Unread /\ Note(s, value)
    BY <1>1 DEF Read
  <2>2. content[s].version \in Nat /\ content[s].keys \subseteq Keys
    BY DEF RoundInv, TypeOK
  <2>3. before[s] <= content[s].version
    BY <2>1 DEF RoundInv, Reading
  <2>4. value.keys \subseteq Keys /\ value.version = content[s].version
    BY <2>2
  <2> HIDE DEF value
  <2> QED BY <2>1, <2>2, <2>3, <2>4, NoteRound
<1>2. CASE NotRead(s)
  BY <1>2, NoteRound DEF NotRead
<1>3. CASE Forbidden(s)
  <2>1. UNCHANGED <<layout, content, forbidden, known, started, expPc, batch, asked, got, before>>
        /\ denied' = TRUE
    BY <1>3 DEF Forbidden, cluster
  <2> QED BY <2>1 DEF RoundInv, TypeOK, LayoutOK, Reading
<1> QED BY <1>1, <1>2, <1>3

LEMMA StartRound == ASSUME RoundInv, NEW ts \in SUBSET TargetNames, StartBatch(ts) PROVE RoundInv'
<1>1. /\ UNCHANGED <<layout, content, forbidden, known>>
      /\ started' = [t \in TargetNames |->
           IF t \in ts THEN [user |-> Value(t, layout[t].user), pass |-> Value(t, layout[t].pass)]
                       ELSE started[t]]
      /\ expPc' = "tick" /\ batch' = {} /\ asked' = <<>> /\ denied' = FALSE /\ got' = <<>>
      /\ before' = [s \in Secrets |-> 0]
  BY DEF StartBatch, StartEach, cluster
<1>2. DOMAIN asked' = {} /\ DOMAIN got' = {}
  BY <1>1
<1>3. \A t \in TargetNames :
        [user |-> Value(t, layout[t].user), pass |-> Value(t, layout[t].pass)]
          \in [user : Values, pass : Values]
  BY ValueIsOwn DEF Values
<1>4. started' \in [TargetNames -> [user : Values, pass : Values] \cup {Nil}]
  BY <1>1, <1>3 DEF RoundInv, TypeOK
<1>5. TypeOK'
  BY <1>1, <1>2, <1>4 DEF RoundInv, TypeOK
<1>6. LayoutOK' /\ Reading'
  BY <1>1, <1>2 DEF RoundInv, LayoutOK, Reading
<1> QED BY <1>5, <1>6 DEF RoundInv

LEMMA NextRound == RoundInv /\ [Next]_vars => RoundInv'
<1> SUFFICES ASSUME RoundInv, [Next]_vars PROVE RoundInv'
  OBVIOUS
<1>1. CASE Next
  BY <1>1, ClusterRound, TickRound, ReadRound, StartRound DEF Next
<1>2. CASE UNCHANGED vars
  <2>1. UNCHANGED <<layout, content, forbidden, known, started, expPc, batch, asked, got, denied, before>>
    BY <1>2 DEF vars, cluster, round
  <2> QED BY <2>1 DEF RoundInv, TypeOK, LayoutOK, Reading
<1> QED BY <1>1, <1>2

LEMMA AlwaysRound == Spec => []RoundInv
BY InitRound, NextRound, PTL DEF Spec

-----------------------------------------------------------------------------

\* Types; what is read of a round is of the secrets it asked for.
THEOREM CredentialTypes == Spec => []TypeOK
<1>1. RoundInv => TypeOK
  BY DEF RoundInv
<1> QED BY <1>1, AlwaysRound, PTL

LEMMA StepStartsWithItsOwn ==
  ASSUME RoundInv, [Next]_vars, NEW t \in TargetNames, Starts(t) PROVE GivenItsOwn(t)
<1>1. started' # started
  BY DEF Starts
<1>2. PICK ts \in SUBSET TargetNames : StartBatch(ts)
  BY <1>1 DEF Next, vars, SecretChanges, AccessChanges, TargetComes, Tick, Read, NotRead,
              Forbidden, Note
<1>3. started'[t] = [user |-> Value(t, layout[t].user), pass |-> Value(t, layout[t].pass)]
  BY <1>2 DEF StartBatch, StartEach, Starts
<1> DEFINE u == Value(t, layout[t].user)
           p == Value(t, layout[t].pass)
           s == SecretId(t)
<1>4. /\ u # Nil => /\ u.key = layout[t].user /\ u.secret = s /\ u.version = got[s].version
                    /\ s \in DOMAIN got /\ got[s] # Nil
      /\ p # Nil => /\ p.key = layout[t].pass /\ p.secret = s /\ p.version = got[s].version
                    /\ s \in DOMAIN got /\ got[s] # Nil
  BY ValueIsOwn
<1>5. s \in DOMAIN got /\ got[s] # Nil => before[s] <= got[s].version
  BY DEF RoundInv, Reading
<1>6. started'[t].user = u /\ started'[t].pass = p
  BY <1>3
<1>7. s = SecretId(t)
  OBVIOUS
<1> HIDE DEF u, p, s
<1>8. \A v \in {u, p} \ {Nil} : v.secret = s /\ v.version = got[s].version /\ before[s] <= v.version
  BY <1>4, <1>5
<1> QED BY <1>4, <1>6, <1>7, <1>8 DEF GivenItsOwn

\* Whatever happens to the secrets during a round, a target starts with the keys
\* of its own secret in one state, not older than the round.
THEOREM OwnCredentials == Spec => StartsWithItsOwn
<1>1. RoundInv /\ [Next]_vars => [\A t \in TargetNames : Starts(t) => GivenItsOwn(t)]_vars
  BY StepStartsWithItsOwn
<1> QED BY <1>1, AlwaysRound, PTL DEF Spec, StartsWithItsOwn
-----------------------------------------------------------------------------

\* The keys asked for are those of a target of the batch, and what was read of a
\* secret is all it has of them.
Asked ==
  /\ \A s \in DOMAIN asked : \E u \in batch : /\ NamesSecret(u) /\ SecretId(u) = s
                                              /\ asked[s] = KeysOf(u)
  /\ \A s \in DOMAIN got : got[s] # Nil => got[s].keys = asked[s] \cap got[s].all

LEMMA InitAsked == Init => Asked
<1> SUFFICES ASSUME Init PROVE Asked
  OBVIOUS
<1>1. DOMAIN asked = {} /\ DOMAIN got = {}
  BY DEF Init
<1> QED BY <1>1 DEF Asked

\* The layout is never changed, so a target names what it did.
LEMMA AsideAsked ==
  ASSUME Asked, UNCHANGED <<layout, batch, asked, got>> PROVE Asked'
BY DEF Asked, NamesSecret, SecretId, KeysOf

LEMMA TickAsked == ASSUME RoundInv, Tick PROVE Asked'
<1>1. expPc = "tick" /\ UNCHANGED <<layout, got>>
  BY DEF Tick
<1> DEFINE ids == {SecretId(t) : t \in Asking(batch')}
<1>2. PICK last \in [ids -> Asking(batch')] :
        /\ \A s \in ids : SecretId(last[s]) = s
        /\ asked' = [s \in ids |-> KeysOf(last[s])]
  BY DEF Tick
<1>3. \A t \in Asking(batch') : t \in batch' /\ NamesSecret(t)
  BY DEF Asking
<1> HIDE DEF ids
<1>4. DOMAIN asked' = ids /\ \A s \in ids : asked'[s] = KeysOf(last[s]) /\ last[s] \in Asking(batch')
  BY <1>2
<1>5. DOMAIN got' = {}
  BY <1>1 DEF RoundInv, Reading
<1>6. \A u : NamesSecret(u)' = NamesSecret(u) /\ SecretId(u)' = SecretId(u) /\ KeysOf(u)' = KeysOf(u)
  BY <1>1 DEF NamesSecret, SecretId, KeysOf
<1>7. ASSUME NEW s \in DOMAIN asked'
      PROVE  \E u \in batch' : NamesSecret(u)' /\ SecretId(u)' = s /\ asked'[s] = KeysOf(u)'
  BY <1>2, <1>3, <1>4, <1>6, <1>7
<1> QED BY <1>5, <1>7 DEF Asked

LEMMA ReadAsked ==
  ASSUME Asked, NEW s \in Secrets, Read(s) \/ NotRead(s) \/ Forbidden(s)
  PROVE  Asked'
<1>1. CASE Forbidden(s)
  BY <1>1, AsideAsked DEF Forbidden
<1>2. CASE Read(s) \/ NotRead(s)
  <2>1. PICK value : /\ got' = [r \in DOMAIN got \cup {s} |-> IF r = s THEN value ELSE got[r]]
                     /\ value # Nil => value.keys = asked[s] \cap value.all
    BY <1>2 DEF Read, NotRead, Note
  <2>2. UNCHANGED <<layout, batch, asked>>
    BY <1>2 DEF Read, NotRead, Note
  <2>3. \A r \in DOMAIN got' : got'[r] # Nil => got'[r].keys = asked[r] \cap got'[r].all
    BY <2>1 DEF Asked
  <2> QED BY <2>2, <2>3 DEF Asked, NamesSecret, SecretId, KeysOf
<1> QED BY <1>1, <1>2

LEMMA NextAsked == RoundInv /\ Asked /\ [Next]_vars => Asked'
<1> SUFFICES ASSUME RoundInv, Asked, [Next]_vars PROVE Asked'
  OBVIOUS
<1>1. CASE SecretChanges \/ AccessChanges \/ TargetComes \/ UNCHANGED vars
  BY <1>1, AsideAsked DEF SecretChanges, AccessChanges, TargetComes, vars, round
<1>2. CASE \E ts \in SUBSET TargetNames : StartBatch(ts)
  <2>1. asked' = <<>> /\ got' = <<>>
    BY <1>2 DEF StartBatch, StartEach
  <2>2. DOMAIN asked' = {} /\ DOMAIN got' = {}
    BY <2>1
  <2> QED BY <2>2 DEF Asked
<1> QED BY <1>1, <1>2, TickAsked, ReadAsked DEF Next

\* A key that was there when the secret was read, and is not among what was read,
\* was not asked for: another target of the batch spoke for the secret.
LEMMA MissedByRival ==
  ASSUME RoundInv, Asked, NEW t \in TargetNames, NamesSecret(t), Found(t),
         NEW key \in KeysOf(t), key \in got[SecretId(t)].all, Value(t, key) = Nil
  PROVE  \E u \in batch : SecretId(u) = SecretId(t) /\ KeysOf(u) \notin {KeysOf(t), {}}
<1> DEFINE s == SecretId(t)
<1>1. s \in Secrets /\ KeysOf(t) \subseteq Keys
  BY LayoutTypes DEF RoundInv
<1>2. s \in DOMAIN got /\ got[s] # Nil
  BY DEF Found
<1>3. got[s].version \in Nat /\ s \in DOMAIN asked /\ asked[s] # {}
  BY <1>2 DEF RoundInv, Reading, TypeOK
<1>4. key \notin got[s].keys
  <2>1. [secret |-> s, key |-> key, version |-> got[s].version] # Nil
    <3>1. [secret |-> s, key |-> key, version |-> got[s].version]
            \in [secret : Secrets, key : Keys, version : Nat]
      BY <1>1, <1>3
    <3> QED BY <3>1, CredentialsAssumption
  <2> QED BY <2>1 DEF Value
<1>5. key \notin asked[s]
  BY <1>2, <1>4 DEF Asked
<1>6. PICK u \in batch : SecretId(u) = s /\ asked[s] = KeysOf(u)
  BY <1>3 DEF Asked
<1> QED BY <1>3, <1>5, <1>6

\* A target starts without a key that its secret had only because of a rival: not
\* because of a failed request, a change of the secret or a secret of another.
THEOREM OnlyRivalsTakeKeys == Spec => EmptyNeedsRival
<1> DEFINE Missed(t, key, value) ==
             /\ key # Nil /\ value = Nil
             /\ Found(t) => key \in got[<<layout[t].namespace, layout[t].name>>].all
<1>1. ASSUME RoundInv, Asked, [Next]_vars, NEW t \in TargetNames, Starts(t), NamesSecret(t),
             \/ Missed(t, layout[t].user, started'[t].user)
             \/ Missed(t, layout[t].pass, started'[t].pass)
      PROVE  \E u \in batch : /\ <<layout[u].namespace, layout[u].name>>
                                   = <<layout[t].namespace, layout[t].name>>
                              /\ KeysOf(u) \notin {KeysOf(t), {}}
  <2>1. started' # started
    BY <1>1 DEF Starts
  <2>2. PICK ts \in SUBSET TargetNames : StartBatch(ts)
    BY <1>1, <2>1 DEF Next, vars, SecretChanges, AccessChanges, TargetComes, Tick, Read, NotRead,
                      Forbidden, Note
  <2>3. /\ started'[t] = [user |-> Value(t, layout[t].user), pass |-> Value(t, layout[t].pass)]
        /\ t \in ts /\ ts \subseteq {r \in batch : Ready(r)}
    BY <1>1, <2>2 DEF StartBatch, StartEach, Starts
  <2>4. Found(t)
    BY <1>1, <2>3 DEF Ready
  <2>5. PICK key \in {layout[t].user, layout[t].pass} :
          key # Nil /\ Value(t, key) = Nil /\ key \in got[SecretId(t)].all
    BY <1>1, <2>3, <2>4 DEF SecretId
  <2>6. key \in KeysOf(t)
    BY <2>5 DEF KeysOf
  <2>7. \E u \in batch : SecretId(u) = SecretId(t) /\ KeysOf(u) \notin {KeysOf(t), {}}
    BY <1>1, <2>4, <2>5, <2>6, MissedByRival
  <2> QED BY <2>7 DEF SecretId
<1>2. RoundInv /\ Asked /\ [Next]_vars =>
        [\A t \in TargetNames : Starts(t) /\ NamesSecret(t) =>
           LET s == <<layout[t].namespace, layout[t].name>>
               Lost(key, value) == key # Nil /\ value = Nil
                                   /\ (Found(t) => key \in got[s].all)
           IN  \/ Lost(layout[t].user, started'[t].user)
               \/ Lost(layout[t].pass, started'[t].pass)
               => \E u \in batch : /\ <<layout[u].namespace, layout[u].name>> = s
                                   /\ KeysOf(u) \notin {KeysOf(t), {}}]_vars
  BY <1>1
<1> QED BY <1>2, InitAsked, NextAsked, AlwaysRound, PTL DEF Spec, EmptyNeedsRival
=============================================================================
