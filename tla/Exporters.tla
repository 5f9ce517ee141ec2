------------------------------ MODULE Exporters ------------------------------
(***************************************************************************)
(* One exporter under concurrent scrapes: the life of a Target's collector *)
(* (metrics/target.go) as StartExporter, StopExporter and Collect see it,  *)
(* and the MongoDB collector behind it (metrics/mongo/mongo.go), whose     *)
(* client is connected by Collect and disconnected by Close.               *)
(*                                                                         *)
(* StartExporter runs without targetsLock, StopExporter with it, Collect   *)
(* without any lock: each assignment and each read of coll, stop and       *)
(* client is an action of its own here, where Metrics takes StartExporter  *)
(* for two steps and StopExporter for one.  The address is this target's   *)
(* alone (Metrics has the others), so Register succeeds.                   *)
(*                                                                         *)
(* Two kinds of collectors differ in what must be given back: the client   *)
(* of "mongo", connected lazily, and the goroutine and the connections     *)
(* that mysql.New and postgres.New start, "pool".  A method call on a nil  *)
(* collector or client panics, which ends the process.                     *)
(***************************************************************************)
EXTENDS Naturals

CONSTANTS
  Scrapers,  \* those that may request /metrics at the same time
  None

ASSUME ExportersAssumption == None \notin Scrapers

VARIABLES
  kind,        \* the type of the target: never changed
  inTable,     \* whether ms.targets has it
  coll,        \* t.coll # nil
  stop,        \* t.stop # nil
  registered,  \* whether the registry has the target
  startPc,     \* startExporters: "tick", "new", "stop", "register", "started"
  delPc,       \* delTarget: "no", "unregister", "stop", "clear", "done"
  worker,      \* whether the goroutine and the pool of a "pool" collector live
  client,      \* c.client # nil
  open,        \* the number of clients connected and not disconnected
  clientLock,  \* c.clientLock: the scraper that holds it, or None
  pc,          \* scraper -> where its Collect is
  foundAt,     \* history: startPc when StopExporter looked at t.coll
  disturbed,   \* history: the scrapers under way when coll or client became nil
  late         \* history: whether a scraper was under way during Close

targetVars == <<inTable, coll, stop, registered>>
mongoVars  == <<client, open, clientLock>>
history    == <<foundAt, disturbed, late>>
exporterVars == <<kind, targetVars, startPc, delPc, worker, mongoVars, pc, history>>

Start(k) ==
  /\ kind = k
  /\ inTable = TRUE /\ coll = FALSE /\ stop = FALSE /\ registered = FALSE
  /\ startPc = "tick" /\ delPc = "no"
  /\ worker = FALSE /\ client = FALSE /\ open = 0 /\ clientLock = None
  /\ pc = [s \in Scrapers |-> "idle"]
  /\ foundAt = None /\ disturbed = {} /\ late = FALSE

ExporterInit == Start("mongo") \/ Start("pool")

\* The scrapers inside Target.Collect.
UnderWay == {s \in Scrapers : pc[s] # "idle"}
Crashed  == \E s \in Scrapers : pc[s] = "panic"

-----------------------------------------------------------------------------
(***************************************************************************)
(* startExporters and StartExporter                                        *)
(***************************************************************************)

\* The batch is taken under targetsLock, which delTarget holds to its end.
Recheck ==
  /\ startPc = "tick"
  /\ inTable /\ delPc = "no" /\ ~coll
  /\ startPc' = "new"
  /\ UNCHANGED <<kind, targetVars, delPc, worker, mongoVars, pc, history>>

\* The constructor returns an error, or the credentials are not to be had.
NewFails ==
  /\ startPc = "new"
  /\ startPc' = "tick"
  /\ UNCHANGED <<kind, targetVars, delPc, worker, mongoVars, pc, history>>

\* collector, err := New(...); t.coll = collector
New ==
  /\ startPc = "new"
  /\ coll' = TRUE /\ worker' = (kind = "pool")
  /\ startPc' = "stop"
  /\ UNCHANGED <<kind, inTable, stop, registered, delPc, mongoVars, pc, history>>

SetStop ==
  /\ startPc = "stop"
  /\ stop' = TRUE
  /\ startPc' = "register"
  /\ UNCHANGED <<kind, inTable, coll, registered, delPc, worker, mongoVars, pc, history>>

Register ==
  /\ startPc = "register"
  /\ registered' = TRUE
  /\ startPc' = "started"
  /\ UNCHANGED <<kind, inTable, coll, stop, delPc, worker, mongoVars, pc, history>>

-----------------------------------------------------------------------------
(***************************************************************************)
(* delTarget and StopExporter, under targetsLock                           *)
(***************************************************************************)

StopExporter ==
  /\ delPc = "no" /\ inTable
  /\ IF coll THEN delPc' = "unregister" /\ UNCHANGED inTable
             ELSE delPc' = "done" /\ inTable' = FALSE
  /\ foundAt' = startPc
  /\ UNCHANGED <<kind, coll, stop, registered, startPc, worker, mongoVars, pc,
                 disturbed, late>>

Unregister ==
  /\ delPc = "unregister"
  /\ registered' = FALSE
  /\ delPc' = "stop"
  /\ UNCHANGED <<kind, inTable, coll, stop, startPc, worker, mongoVars, pc, history>>

\* Mutant: the function is forgotten, not called.
CallStop_Forgotten ==
  /\ delPc = "stop"
  /\ delPc' = "clear"
  /\ UNCHANGED <<kind, targetVars, startPc, worker, mongoVars, pc, history>>

\* t.stop is nil if StartExporter has not come to it.  Close of the MongoDB
\* collector waits for clientLock, that is for the ping of a scraper.
CallStop ==
  /\ delPc = "stop"
  /\ delPc' = "clear"
  /\ \/ /\ ~stop
        /\ UNCHANGED <<worker, client, open, disturbed, late>>
     \/ /\ stop /\ kind = "pool"
        /\ worker' = FALSE
        /\ UNCHANGED <<client, open, disturbed, late>>
     \/ /\ stop /\ kind = "mongo"
        /\ clientLock = None
        /\ client' = FALSE
        /\ open' = IF client THEN open - 1 ELSE open
        /\ disturbed' = disturbed \cup UnderWay
        /\ late' = (UnderWay # {})
        /\ UNCHANGED worker
  /\ UNCHANGED <<kind, targetVars, startPc, clientLock, pc, foundAt>>

Clear ==
  /\ delPc = "clear"
  /\ coll' = FALSE /\ inTable' = FALSE
  /\ delPc' = "done"
  /\ disturbed' = disturbed \cup UnderWay
  /\ UNCHANGED <<kind, stop, registered, startPc, worker, mongoVars, pc, foundAt, late>>

-----------------------------------------------------------------------------
(***************************************************************************)
(* A scrape: Gather, Target.Collect and the Collect of the collector       *)
(***************************************************************************)

Goes(s, to) == pc' = [pc EXCEPT ![s] = to]

\* Gather copies the collectors of the registry; from here on an Unregister
\* does not keep the scraper from this target.
Gather(s) ==
  /\ pc[s] = "idle" /\ registered
  /\ Goes(s, "check")
  /\ disturbed' = disturbed \ {s}
  /\ UNCHANGED <<kind, targetVars, startPc, delPc, worker, mongoVars, foundAt, late>>

\* Mutant: coll is not checked.
Check_Trusts(s) ==
  /\ pc[s] = "check"
  /\ Goes(s, "call")
  /\ UNCHANGED <<kind, targetVars, startPc, delPc, worker, mongoVars, history>>

\* if t.coll != nil
Check(s) ==
  /\ pc[s] = "check"
  /\ Goes(s, IF coll THEN "call" ELSE "idle")
  /\ UNCHANGED <<kind, targetVars, startPc, delPc, worker, mongoVars, history>>

\* t.coll.Collect(ch) reads t.coll once more.
Call(s) ==
  /\ pc[s] = "call"
  /\ Goes(s, IF ~coll THEN "panic" ELSE IF kind = "mongo" THEN "connect" ELSE "idle")
  /\ UNCHANGED <<kind, targetVars, startPc, delPc, worker, mongoVars, history>>

\* connectAndPing, up to the ping.
Connect(s) ==
  /\ pc[s] = "connect" /\ clientLock = None
  /\ clientLock' = s
  /\ client' = TRUE
  /\ open' = IF client THEN open ELSE open + 1
  /\ Goes(s, "ping")
  /\ UNCHANGED <<kind, targetVars, startPc, delPc, worker, history>>

ConnectFails(s) ==
  /\ pc[s] = "connect" /\ clientLock = None /\ ~client
  /\ Goes(s, "idle")
  /\ UNCHANGED <<kind, targetVars, startPc, delPc, worker, mongoVars, history>>

Ping(s) ==
  /\ pc[s] = "ping"
  /\ clientLock' = None
  /\ Goes(s, "buildInfo")
  /\ UNCHANGED <<kind, targetVars, startPc, delPc, worker, client, open, history>>

\* Mutant: the early return does not disconnect.
PingFails_KeepsOpen(s) ==
  /\ pc[s] = "ping"
  /\ client' = FALSE /\ clientLock' = None
  /\ Goes(s, "idle")
  /\ disturbed' = disturbed \cup (UnderWay \ {s})
  /\ UNCHANGED <<kind, targetVars, startPc, delPc, worker, open, foundAt, late>>

\* Mutant: the early return keeps the lock.
PingFails_KeepsLock(s) ==
  /\ pc[s] = "ping"
  /\ client' = FALSE /\ open' = open - 1
  /\ Goes(s, "idle")
  /\ disturbed' = disturbed \cup (UnderWay \ {s})
  /\ UNCHANGED <<kind, targetVars, startPc, delPc, worker, clientLock, foundAt, late>>

\* The server is down or does not answer within collectTimeout.
PingFails(s) ==
  /\ pc[s] = "ping"
  /\ client' = FALSE /\ open' = open - 1 /\ clientLock' = None
  /\ Goes(s, "idle")
  /\ disturbed' = disturbed \cup (UnderWay \ {s})
  /\ UNCHANGED <<kind, targetVars, startPc, delPc, worker, foundAt, late>>

\* buildInfo and replStatus call Database of whatever c.client is by then; what
\* the command returns makes no difference.
Query(s) ==
  /\ \/ pc[s] = "buildInfo" /\ Goes(s, IF client THEN "replStatus" ELSE "panic")
     \/ pc[s] = "replStatus" /\ Goes(s, IF client THEN "idle" ELSE "panic")
  /\ UNCHANGED <<kind, targetVars, startPc, delPc, worker, mongoVars, history>>

-----------------------------------------------------------------------------

StartStep == Recheck \/ NewFails \/ New \/ SetStop \/ Register

DelStep == Unregister \/ CallStop \/ Clear

CollectStep(s) ==
  \/ Check(s) \/ Call(s)
  \/ Connect(s) \/ ConnectFails(s) \/ Ping(s) \/ PingFails(s) \/ Query(s)

\* A panic ends the process; the next one discovers the target again.
Restart ==
  /\ Crashed
  /\ inTable' = TRUE /\ coll' = FALSE /\ stop' = FALSE /\ registered' = FALSE
  /\ startPc' = "tick" /\ delPc' = "no"
  /\ worker' = FALSE /\ client' = FALSE /\ open' = 0 /\ clientLock' = None
  /\ pc' = [s \in Scrapers |-> "idle"]
  /\ foundAt' = None /\ disturbed' = {} /\ late' = FALSE
  /\ UNCHANGED kind

Running ==
  /\ ~Crashed
  /\ \/ StartStep \/ StopExporter \/ DelStep
     \/ \E s \in Scrapers : Gather(s) \/ CollectStep(s)

ExporterNext == Running \/ Restart

ExporterSpec == ExporterInit /\ [][ExporterNext]_exporterVars

\* The goroutine that removes a target and the scrapers run, and each of their
\* requests ends after collectTimeout at the latest.  A sync.Mutex is handed to
\* who has waited for it for a millisecond: Close gets clientLock in the end,
\* even if scrapes never cease (strong fairness).
ExporterFairness ==
  /\ SF_exporterVars(~Crashed /\ DelStep)
  /\ \A s \in Scrapers : WF_exporterVars(~Crashed /\ CollectStep(s))
  /\ WF_exporterVars(Restart)

ExporterFairSpec == ExporterSpec /\ ExporterFairness

-----------------------------------------------------------------------------
(***************************************************************************)
(* Properties                                                              *)
(***************************************************************************)

\* Types, and what the program counters imply.
ExporterTypeOK ==
  /\ kind \in {"mongo", "pool"}
  /\ inTable \in BOOLEAN /\ coll \in BOOLEAN /\ stop \in BOOLEAN
  /\ registered \in BOOLEAN /\ worker \in BOOLEAN /\ client \in BOOLEAN
  /\ late \in BOOLEAN
  /\ startPc \in {"tick", "new", "stop", "register", "started"}
  /\ delPc \in {"no", "unregister", "stop", "clear", "done"}
  /\ open \in Nat
  /\ pc \in [Scrapers -> {"idle", "check", "call", "connect", "ping",
                          "buildInfo", "replStatus", "panic"}]
  /\ clientLock \in Scrapers \cup {None}
  /\ \A s \in Scrapers : clientLock = s <=> pc[s] = "ping"
  /\ disturbed \subseteq Scrapers
  /\ foundAt \in {"tick", "new", "stop", "register", "started", None}

\* Collect connects, pings and disconnects the client it shares with other
\* scrapers and with Close: no client is lost without being disconnected, and
\* none is disconnected twice.
NoClientLost == open = IF client THEN 1 ELSE 0

\* Target.Collect and the MongoDB collector use pointers they checked before,
\* without a lock: the agent panics only if StopExporter or the failed ping of
\* another scraper cleared one of them during this very scrape, never in a
\* scrape that follows, however start, removal and scrapes were interleaved.
PanicNeedsRace == \A s \in Scrapers : pc[s] = "panic" => s \in disturbed

\* A removal ends what the exporter runs in the background, unless StopExporter
\* looked at the target before StartExporter had set stop.
WorkerClosed ==
  delPc = "done" /\ worker => foundAt \in {"new", "stop"}

\* A removed target stays registered only if it was removed while StartExporter
\* was at work on it.
RemovedIsGone ==
  delPc = "done" /\ registered => foundAt \in {"new", "stop", "register"}

\* Unregister comes before stop, so that no scrape finds its way to a collector
\* that is closed: the client of a target that was removed after its start stays
\* connected only if a scrape was under way during Close and connected again.
ClosedForGood ==
  delPc = "done" /\ foundAt = "started" /\ UnderWay = {} /\ client => late

\* What a removal leaves behind, the registration, the background work or a client,
\* it leaves for one reason: it overlapped the start of the exporter or a scrape.
RemovalCleans == WorkerClosed /\ RemovedIsGone /\ ClosedForGood

\* StopExporter keeps targetsLock, for which all discovery waits, while Close
\* waits for the ping of a scraper: it gets through all the same.
RemovalEnds == delPc # "no" ~> delPc \in {"no", "done"}
=============================================================================
