# Verification of coroot-cluster-agent

TLA+ models of the agent, the TLC runs that check them, and TLAPS proofs about eight
of them. Paths are relative to the repository
(`src/` is its root). Line numbers refer to the commit the models were made from.

## 1. The system

`main.go` wires five things together and then serves HTTP:

    config.Updater ---- chan Config ---> Metrics.ListenConfigUpdates --+--> aws.Discoverer
                                                                       +--> discoverFromConfig --> targets
    k8s informer --- chan PodEvent ----> Metrics.discoverFromPods ---------------------------------> targets
                 \-- chan PodEvent ----> Profiles.discoverFromPods --> Profiles.targets
    targets --> startExporters --> exporters (postgres, mysql, mongo, redis, ...) --> registry
    registry <-- HTTP /metrics <-- embedded Prometheus agent --> remote write
    Profiles.targets --> scrapeLoop --> upload

All channels are unbuffered, so whoever receives sets the pace of whoever sends.

| component | state | operations | interacts with | hard part | what makes it correct |
|---|---|---|---|---|---|
| targets and exporters (`metrics/metrics.go`, `target.go`) | `ms.targets`, `coll`/`stop` of each target, the registry | `addTarget`, `delTarget`, `discoverFromPods`, `discoverFromConfig`, `startExporters`, `StartExporter`, `StopExporter` | pod events, configuration, secrets, registry | three goroutines; the lock covers single map accesses only | nothing in the table is exported by a dead exporter; a started target is dark only behind another one; requests are carried out |
| pod events (`k8s/k8s.go`, `pod.go`) | informer cache, channels | Add/Update/Delete handlers, `sendPodEvent` | informer, both subscribers | missed deletions, addresses that change hands, slow subscribers | the tables follow the cluster; a restart repairs them |
| AWS discoverer (`metrics/aws/aws.go`) | `cfg`, `sess`, two maps of collectors | `NewDiscoverer`, `Update`, `Stop`, `discoverRDS`, `discoverEC` | configuration goroutine, registry, AWS | `Update` in the middle of a pass, failing requests, `Stop` as a handshake | registry, collectors and log readers match; a clean pass repairs everything; `Stop` returns |
| log reader (`metrics/aws/logs.go`, `rds.go`) | `lastWritten` and `marker` of each file | `refresh`, `download`, `write`, `Stop` | AWS, the log parser | files grow between two requests; requests fail | each piece of a file once, in order; nothing lost but the beginnings of lines inside which a portion ended |
| RDS and ElastiCache collectors (`rds.go`, `elasticache.go`) | last description of an instance | `update`, `Collect`, `Stop` | discoverer, log reader | `update` races with `Collect` | (life cycle only) |
| gathering (`metrics/target.go`, `metrics/mongo`) | `coll`, `stop`, the client of the MongoDB collector and its lock | `Target.Collect`, `StartExporter`, `StopExporter`, `connectAndPing`, `Close` | scrapers, the goroutines above | pointers read twice without a lock | what is lost or panics needs a removal that overlaps a start or a scrape; clients come and go in pairs |
| secrets (`k8s/secret.go`, `metrics.go`) | the maps of one round of `startExporters` | `GetSecret`, `id2Keys`, the loop that starts exporters | the Kubernetes API | secrets change and access is taken away during a round; targets share a secret | a target starts with credentials of its own, of one version, of this round |
| profiles (`profiles/profiles.go`) | `targets`, `prevCache` | `discoverFromPods`, `scrapeLoop`, `diff`, `upload`, `delTarget` | pod events, pods, the server | cache advanced before the upload, removals during a round | no unit of work twice; what the cache counts as reported has arrived, unless an upload failed |
| mysql collector (`metrics/mysql`) | two snapshots of each summary, variables, replica status, errors | `snapshot`, `Collect`, `Close` | one server | failures between queries, counters that are reset, upgrades | rates are real, stale data is flagged |
| events logger (`k8s/event.go`, `k8s.go`) | time of the start | Add and Update handlers, `EmitEvent` | informer, log | broken watches, restarts, events that expire and come back | occurrences are logged once, in order, and the last one is |
| config updater (`config/config.go`) | the configuration that is being sent | poll loop | `Metrics` | blocks on its consumer; fetches fail | the table comes to hold what the server serves |
| scraper, `prom.go`, kube-state-metrics, main, flags, common | that of libraries | wiring | | | |

`main` ends with `klog.Exitln(http.ListenAndServe(...))`, which exits the process:
the deferred `Stop` calls of `main` never run. What `K8S.Stop`, `Updater.Stop` and
`KSM.Stop` would do is therefore in no model; `Discoverer.Stop` and
`RDSCollector.Stop` are called elsewhere and are modelled.

The repository has no tests and its README makes no claim about behaviour, so
no run contrasts the code with its documentation.

## 2. The modules

| module | models |
|---|---|
| `Metrics` | target table, three goroutines, registry; refines `TargetTable` at the addresses that one source names |
| `TargetTable` | specification: the atomic table |
| `ConfigUpdates` | the poll composed with `Metrics`, which it extends |
| `Exporters` | one exporter under concurrent scrapes, pointer by pointer, and the MongoDB collector |
| `Credentials` | a round of `startExporters` and the secrets it reads |
| `PodEvents` | informer, handlers, fan-out, both target tables |
| `KubeEvents` | informer and handlers of the events that are logged |
| `AWSDiscoverer` | the discoverer and `Metrics.updateAWS` |
| `LogReader` | one log reader and `RDSCollector.Stop` |
| `Profiles` | discovery, rounds, cache, upload |
| `ProfileDiff` | `diff` of a profile with several sample types and several samples of a stack |
| `MysqlCollector` | snapshots, `Collect`, `Close` |
| `MetricsProofs`, `ExportersProofs`, `PodEventsProofs`, `KubeEventsProofs`, `AWSDiscovererProofs`, `LogReaderProofs`, `MysqlCollectorProofs`, `ProfilesProofs` | proofs (section 4); `MetricsProofs` has those of `ConfigUpdates` too, `ExportersProofs` those of `Credentials`, `ProfilesProofs` those of `ProfileDiff` |
| `MCMetrics`, `MCConfigUpdates`, `MCCredentials`, `MCPodEvents`, `MCAWSDiscoverer`, `MCLogReader`, `MCProfiles`, `MCProfileDiff` | the instances that TLC checks; `Exporters`, `KubeEvents` and `MysqlCollector` are run as they are |

`Metrics` is the composition of pod events, configuration and exporters. The other
modules take one part of it further: `Exporters` splits its two steps of
`StartExporter` and its one of `StopExporter`, `Credentials` says what the secrets
hold of which it only knows whether they were read, `PodEvents` says where its pod
events come from and `ConfigUpdates` where its configurations do.

Some modules have a variable that `Init` chooses from a constant set and no action changes
(`layout`, `rds`, `profileType`, `kind`): one run checks all the instances of the set.

A definition whose comment begins with "Mutant" is an operator with a plausible
bug in place of the one that follows it. The specifications do not use it: each is
there to show that a property would notice.

### Metrics

An action is one critical section of `targetsLock`, or one assignment that another
goroutine reads without it. `discoverFromPods` looks at the table (`PodPut`), and
later deletes (`PodReplace`) and adds (`PodAdd`); `discoverFromConfig` does the same
entry by entry (`ConfigEntry`, `ConfigReplace`, `ConfigAdd`), then copies the table
(`ConfigSnapshot`) and deletes from it (`ConfigSweep`); `startExporters` copies the
unstarted targets (`Recheck`), reads secrets (`FetchSecrets`) and starts them, where
`StartCreates` is the assignment of `coll` and `StartRegisters` is `Register`.
A `*Target` is a record with an incarnation number, so that two objects with equal
fields differ. The registry maps the label "address" to the collector that holds it:
descriptors of a target do not contain anything else, which is why `StopExporter` of
one target can unregister another. Targets nobody refers to are garbage and leave
`coll`; that a collector whose target is dropped this way is never closed is a leak
the model does not count.

Left out, and found in `Exporters` and `Credentials`: the reads of a gather
(`Target.Collect`), the order of `coll` and `stop` inside `StartExporter`, and which keys of
a secret are read.

### ConfigUpdates

`Fetch` (or `FetchFails`) is `fetchConfig` when the ticker fires, `Deliver` the send over the
unbuffered channel, which is the `ConfigRecv` of `Metrics`: what is delivered may be older
than what is served, and the poll waits as long as `discoverFromConfig` is busy. Exporters
are left out, because no guard of the discovery goroutines reads `coll` or the registry.

### Exporters

One target. The goroutine of `startExporters` (`Recheck`, `New`, `SetStop`, `Register`), the
one that removes it (`StopExporter`, `Unregister`, `CallStop`, `Clear`) and any number of
scrapers (`Gather`, `Check`, `Call`, then `Connect`, `Ping`, `Query` of the MongoDB
collector). `Target.Collect` reads `t.coll` twice and no lock orders it with
`StopExporter`; `connectAndPing` returns with `clientLock` released. A call on nil ends the
process (`Crashed`), and the next one discovers the target again (`Restart`). The kind
`"pool"` stands for the collectors whose constructor starts a goroutine that `Close`
must end.

### Credentials

The cluster creates, changes and deletes secrets and gives and takes access. `Tick` makes
the batch and `id2Keys`, where the keys of the target that comes last in the order of a map
remain; `Read`, `NotRead` and `Forbidden` are one `GetSecret` each, the last of them ends the
reading; `StartBatch` starts any of the targets that may be started, since any
constructor may fail.

### PodEvents

The cluster (external) changes pods one at a time; a running pod has its address for
itself, a pod that is done may share it. While the watch is up the informer turns
each change into a notification; after an interruption `Relist` compares the list
with its cache, in any order. `Notify` is the handler, `Send` one channel operation
of `sendPodEvent`, `Process` one round of either `discoverFromPods` loop, taken as
one step. A tombstone makes `podFromObj` panic: the only thing that can follow is
`Restart`, which empties everything but the cluster.

### KubeEvents

The clock counts half seconds, because the time of an event is in whole ones. The cluster
(external) lets events occur and expire; an event that comes back continues its count.
`Handle` is an informer notification with the Add or Update handler behind it; `WatchBreaks`
loses what was under way, `Relist` compares the list with the copies; `Restart` forgets the
copies. Events without `LastTimestamp` and the text of a line are left out, and the
clocks of the cluster and of the agent are taken to agree.

### AWSDiscoverer

Each request of a pass is an action and may fail; `Update` writes `d.cfg` and
`d.sess` in two actions (`Update`, `SwapSession`) while a pass reads both: the
client of a list is made of `dsess`, names and tags are checked with `dcfg`.
`StopPasses` is the handshake of `d.stop`; `Drain` and `Sweep` drop collectors, and
`DrainJoin` and `SweepJoin` wait for a log reader that is in a refresh.

### LogReader

Positions count half lines, so that a download can end inside a line. The reader
is in its `select`, in the list of files, or writing a portion; a write is one piece of
the file, handed over to the parser. `Stop` waits for the `select`, then stops the parser.
`Pieces` is what `write` makes of a portion: the text up to each newline in it. What is
behind the last newline is dropped (`ReadString` returns it with `io.EOF`), although the
marker is past it: of a line inside which a portion ended the parser gets only the rest, as
a piece of its own. Pieces are kept as positions `from` and `to`, so that this loss shows;
`cut` has the places where it happens, `stamped` the length of a file when its
`LastWritten` last changed.

### Profiles

A job is one goroutine of a round. The history variables say what was worked,
what arrived and which keys are outside the claims: `lossy` (an upload failed),
`mixed` (another pod answered at the address), `moved` (the pod named two addresses,
so there were two targets with one key) and `raced` (removed during a scrape).

### ProfileDiff

A process has sites, some of which share a stack; `DiffSampleType` is one turn of the loop over the
sample types: `Merged` is the merging of duplicates (which shortens the slice in the first turn, so that
later ones find no duplicates), `Increase` the difference to `cache`, the `prevCache` of the code. A new
site is put in front of the order of the samples: what matters is that the first sample of a stack can
change. Its names differ from those of `Profiles`, because one module proves about both.

### MysqlCollector

The goroutine takes one query after another, the lock held; `Collect` is not an
action: `Increase` and `Exported` say what it exports in a state between two snapshots, and
before the first (`"new"`), when there is nothing to export and no error.
Counters are unsigned integers of `Width` values.

## 3. What is checked

Every property has a mutant: a definition of the model replaced by one with a
plausible bug, which TLC must then find.

| run | instance | properties | shows |
|---|---|---|---|
| `metrics_shared` | one address named by both sources, two specs each, one with a secret | `CurrentExportWorks`, `DarkOnlyBehindStale` | the unlocked windows do not let a dead exporter pass for a live one |
| `metrics_own` | an address of pods and one of the configuration | `RemovalUnregisters`, `TableRefined`, `PlainTargetsAreTried` | where one source speaks, the table is the atomic one; no target waits for the secret of another |
| `config_updates` | four configurations, one of which names an address twice; a pod at a configured address and one elsewhere | `ExactlyReceived`, `ServedIsInstalled`, `ConfigHeals` | the table follows the server over failed fetches, and the poll repairs what races with pods did |
| `pods` | a pod that moves and changes annotations beside one that does neither; two pods at one address in turn | `TypeOK`, `TablesFollow`, `RestartHeals`, `CatchesUp` | running pods are served, pods that never change leave no ghosts, subscribers agree; what reuse breaks, a restart repairs; the fan-out drains |
| `exporters` | one target of either kind, three scrapers | `NoClientLost`, `PanicNeedsRace`, `RemovalCleans`, `RemovalEnds` | what can be lost or panic is confined to removals that overlap a start or a scrape; a removal ends |
| `credentials` | two targets that name different keys of one secret and a third; two secrets, two changes | `StartsWithItsOwn`, `EmptyNeedsRival`, `StartsInTheEnd` | nobody gets credentials of another or of an earlier round, nobody starts empty-handed but for a rival |
| `events` | one event (the handlers look at each alone), four counts, four faults | `InOrderOnce`, `LastIsLogged`, `LoggedAtLast` | occurrences are logged once and in order, across restarts too, and the last one is |
| `aws` | RDS instance, cluster, instance of another region; three configurations | `RegistryMatches`, `CleanPassExact`, `Converges`, `StopReturns` | half updates and failures do not last and leave nothing behind |
| `logs` | one file with stamps that miss writes, in portions of one line and in portions that hold it; two files that one portion holds | `FollowedExactly`, `CatchesUp`, `StopReturns` | no text is repeated or reordered; lost are exactly the beginnings of lines inside which a portion ended; the reader passes what was there when a stamp last changed, and can be stopped |
| `profiles` | two pods at one address in turn; a pod that names either of two addresses; a pod scraped for two types | `TypeOK`, `NeverTwice`, `Delivered`, `NoOrphans`, `ReadToTheEnd` | what is uploaded is what was worked, and all work is read at last |
| `profile_diff` | three sites of two stacks, profiles of three shapes | `ReportedInFull`, `NeverTooMuch` | what the merging of equal stacks may leave out, and that it never adds anything |
| `mysql` | one row in each summary, counters of width 2 | `IncreasesAreReal`, `FreshOrFlagged`, `ReplicationSeen`, `Recovers` | rates, flags and recovery |

Some properties are the conjunction of parts that are checked together: `TablesFollow` of
`RunningPodsServed`, `NoGhosts` and `SubscribersAgree`; `FollowedExactly` of `InOrderOnce` and `OnlyCutsAreLost`;
`RegistryMatches` of `RegistryIsKnown` and `OneReaderEach`; `RemovalCleans` of `WorkerClosed`,
`RemovedIsGone` and `ClosedForGood`; `ReportedInFull` of `FirstTypeExact` and
`OthersExactUnlessSplit`. The type invariants of the modules with proofs are
proved and in no run, but for that of `Profiles`, which also says that no difference is negative;
`NoDoubleStart`, `PodTargetsKept` and `GrowthIsLogged` are proved only.

### Bounds

* `Incarnations` (2 or 3) is how many equal targets may be reachable at once. One is
  in the table, one in the registry, one in the batch or being started; an add that
  would need one more waits. `metrics_own` uses 2, where no address has two sources.
* `changes`, `faults` of a layout (pods): one fault allows an interrupted watch or a
  restart, and a tombstone's restart is not counted. Five or six changes let a pod
  come, move, end, vanish and come back.
* Three scrapers (exporters): one that pings, one that waits for the lock, and one
  between the ping and the use of the client.
* `MaxChanges` 2 (credentials): a secret changes between two rounds or during one, and
  access is taken away or given back.
* `MaxTime` 6, that is three seconds, `MaxCount` 4, `MaxFaults` 4 (events): before, in and after the
  second of a restart; an event that expires and is written anew while the watch is broken.
* `MaxUpdates` 3 (aws): start, change, and stop or change back; with them every
  pair of configurations meets in one pass. One fault is enough to break a pass;
  `Converges` needs it to be over.
* At most 6 half lines with portions of one line (logs): three lines, so that portions
  fall behind, and lines are caught half written at any length of the file. One failure.
* Two to four changes and one restart of a process (profiles), `MaxWork` 2 (mysql): a counter can be
  ahead of, equal to and behind the cache. `Width` 2 makes every increase but the first wrap.
* `MaxWork` 4 (profile_diff): two profiles in which both sites of a stack move.
* Deadlock is not checked where the bounds stop the environment and the agent then
  rightly waits. It is checked in `metrics_shared`, `metrics_own` and `config_updates`.

### Fairness

* Goroutines run and tickers fire again and again: weak fairness of the steps of each.
* A Go `select` with several ready cases picks any of them, and a sender of an
  unbuffered channel waits in a queue: strong fairness for `StopReader`, `StopPasses`,
  `DrainJoin`, `SweepJoin` and `Quit`.
* A `sync.Mutex` goes to who has waited for it for a millisecond: strong fairness for the
  removal of an exporter, whose `Close` waits for `clientLock` while scrapes never cease.
* What is tried again and again works at last, if it can (credentials): strong fairness for
  reading a secret that exists and may be read, and for starting a target that may be started.
* Fetches of the configuration may fail any number of times, but not for ever (weak
  fairness of `Fetch`).
* Requests end. Those to MySQL and the scraped pods have timeouts. Those to AWS have none
  in the code (`newSession`, `aws.go:274-283`, sets none), and that they return is an assumption about
  the environment: `Converges`, both `StopReturns` and the `CatchesUp` of the log reader need it. **`Profiles.upload`
  has none either** (`profiles/profiles.go:260`): `ReadToTheEnd` assumes that the server
  answers or breaks off, and a server that does neither stops profiling for good.
* Nothing is assumed about pod events, secrets, changes in the cloud or on the server of the
  configuration, failures or updates. In `Metrics` alone `ConfigUpdate` is fair, because
  the updater polls; in `ConfigUpdates` the poll itself is there.

`ConfigHeals` has no counterpart for pod targets: nothing sends their events again.

### What the conditions of the properties exclude

These conditions are not modelling artefacts: dropped from the property, each gives TLC, on an
instance that allows for it, a counterexample that follows the code.

* `RunningPodsServed` and `NoGhosts` speak of pods that share no address, and the latter
  of pods that do not move or change annotations and whose name is not used again. A late
  Delete removes the target of the pod that got the address; a pod that moves leaves its
  old target (`metrics.go:239-257` looks at the old pod only if the new one has no target).
* `DarkOnlyBehindStale` does not say that a started target is exported: `Register` can fail
  because a target that was overwritten still holds the address, and `coll` is set all
  the same (`target.go:177`), so it is not tried again.
* `WorkerClosed`, `RemovedIsGone` and `ClosedForGood` exclude removals that overlap
  `StartExporter` before it has set `stop` or registered, and scrapes that are under way during
  `Close`: `StartExporter` runs without `targetsLock`, so a target that was removed may
  be registered for good, and a scrape may connect again after `Close`.
* `PanicNeedsRace` says that a nil collector or client is called only by a scrape during
  which a removal, or the failed ping of another scrape, cleared it; it does not say
  that this cannot happen (`target.go:76`, `mongo.go:126`).
* `EmptyNeedsRival` excludes targets whose secret another target names with other keys:
  `id2Keys` keeps the keys of one of them (`metrics.go:158`), and the other starts without a
  user name or a password it has a secret for.
* `LastIsLogged` excludes the second in which the agent starts: an event of that second
  bears its beginning, and `AddFunc` takes it for an old one.
* `ServedIsInstalled` and `ConfigHeals` speak of the moments when `ListenConfigUpdates` waits, if
  the configuration names an address twice: each delivery replaces the target twice.
* `RemovalUnregisters`, `PodTargetsKept` and `TableRefined` speak of addresses one source
  names. At a shared one, `addTarget` may store over a target that is running.
* `NeverTwice` excludes pods with two addresses (two targets with one cache key) and
  addresses where another pod answered; `Delivered` excludes keys with a failed upload (the cache is
  advanced before, `profiles.go:225`), and `NoOrphans` those removed during a scrape. Neither claims that
  all work is reported: a reset is recognised by a value below the cached one (`profiles.go:229`), and
  what a process did before the cached value was reached again is lost.
* `OthersExactUnlessSplit` excludes stacks that ever had two samples: duplicates are merged for
  the first sample type only (`profiles.go:199`), so the other values of all but the first
  sample of a stack are lost.
* `IncreasesAreReal` excludes counters that were emptied between the snapshots and a
  previous snapshot that was cut short (`rows.Err` is not looked at): the difference
  wraps, or a row counts as new.
* `FreshOrFlagged` counts variables and a status that were cut short (`variables.go:12`, the same) as
  renewed: what is missing in them is not exported, without an error.
* `ReplicationSeen` excludes an upgrade from a server that knows only the old
  query to one that knows only the new one: `invalidQueries` is never cleared.
* `FollowedExactly` names what the reader loses: the beginnings of lines inside which a
  portion ended (`cut`). The parser gets the rest of such a line as if it were a line.
* `CatchesUp` of the log reader needs a portion that holds what is new (`AdditionalDataPending`
  is ignored), and speaks of what was there when a stamp last changed: a write that
  `LastWritten` misses waits for the next one. It is about markers; what was sent before them is
  `FollowedExactly`.

## 4. What is proved

Each proof holds for any values of the constants that satisfy the `...Assumption` of its module: their
types, that `Nil` is none of the values, for `Metrics` that a configured entry has no secret
(`TargetFromConfig` never sets one), for `Credentials` that every secret a target names is one of
`Secrets`, for `LogReader` that a portion is at least a line, for `PodEvents` that there are finitely
many pods, that each has finitely many addresses, and that no subscriber subscribes twice, for `ProfileDiff`
that a process has finitely many sites and that `diff` looks at some sample type of every profile. Bounds
such as `MaxFaults` or `MaxTime` are any natural numbers.

| module | theorem | states |
|---|---|---|
| `MetricsProofs` | `TypeCorrect` | `Spec => []TypeOK` |
| | `ExportsWork` | `Spec => []CurrentExportWorks` |
| | `DarkBehindStale` | `Spec => []DarkOnlyBehindStale` |
| | `StartedOnce` | `Spec => []NoDoubleStart` |
| | `RemovalsUnregister` | `Spec => RemovalUnregisters` |
| | `PodTargetsAreKept` | `Spec => PodTargetsKept` |
| | `TableIsAtomic` | `Spec => TableRefined` (`TableRefined == Table!Spec`) |
| | `LastReceivedIsInstalled` (`ConfigUpdates`) | `UpdaterSpec => []ExactlyReceived` |
| `ExportersProofs` | `TypeCorrect` | `ExporterSpec => []ExporterTypeOK` |
| | `ClientsArePaired` | `ExporterSpec => []NoClientLost` |
| | `PanicsAreRaces` | `ExporterSpec => []PanicNeedsRace` |
| | `RemovalsClose`, `RemovalsStay`, `ClosedStays` | the parts of `RemovalCleans` |
| | `RemovalsClean` | `ExporterSpec => []RemovalCleans` |
| | `CredentialTypes` (`Credentials`) | `Spec => []TypeOK` |
| | `OwnCredentials` | `Spec => StartsWithItsOwn` |
| | `OnlyRivalsTakeKeys` | `Spec => EmptyNeedsRival` |
| `PodEventsProofs` | `TypeCorrect` | `Spec => []TypeOK` |
| | `TablesFollowTheCluster` | `Spec => []TablesFollow` |
| | `RestartedAgentHeals` | `Spec => []RestartHeals` |
| `KubeEventsProofs` | `TypeCorrect` | `Spec => []TypeOK` |
| | `NoneTwice` | `Spec => []InOrderOnce` |
| | `LastOneIsLogged` | `Spec => []LastIsLogged` |
| | `NothingCountsUnlogged` | `Spec => GrowthIsLogged` |
| `AWSDiscovererProofs` | `TypeCorrect` | `Spec => []TypeOK` |
| | `RegistryAlwaysMatches` | `Spec => []RegistryMatches` |
| | `CleanPassIsExact` | `Spec => []CleanPassExact` |
| `LogReaderProofs` | `TypeCorrect` | `Spec => []TypeOK` |
| | `FilesAreFollowed` | `Spec => []FollowedExactly` |
| `MysqlCollectorProofs` | `TypeCorrect` | `Spec => []TypeOK` |
| | `RatesAreReal` | `Spec => []IncreasesAreReal` |
| | `NothingStalePasses` | `Spec => []FreshOrFlagged` |
| | `ReplicationIsSeen` | `Spec => []ReplicationSeen` |
| `ProfilesProofs` | `TypeCorrect` | `Spec => []TypeOK` |
| | `NothingTwice` | `Spec => []NeverTwice` |
| | `CacheFollowsTargets` | `Spec => []NoOrphans` |
| | `AllDelivered` | `Spec => []Delivered` |
| | `AllIsReported` (`ProfileDiff`) | `DiffSpec => []ReportedInFull` |
| | `NoMoreThanHappened` | `DiffSpec => []NeverTooMuch` |

The inductive invariant (`Inv`, unless another name is given) is the type invariant and the
properties with the parts named below; there is one lemma per action, or per group of
actions that move the same variables. Where a property needs more than `Inv` it has an invariant of
its own, inductive given `Inv`. TLC has checked every one of them on the instance of its run.

### Metrics

The inductive invariant is `IInv == TypeOK /\ TableInv /\ AddSlotVacant`.

* `CurrentExportWorks` is not inductive: `StopExporter` clears `coll` of its target and of
  the one registered at the address, so both must be *at* that address (`Placed`).
* `DarkOnlyBehindStale` needs that the target inside `StartExporter` keeps its collector
  while it is in the table (`StartingHasColl`), and that a target which `addTarget` creates is
  not in `coll` already: `CollReachable`, no garbage has a collector.
* `RemovalUnregisters` needs that nobody fills an exclusive address between the look and
  the add (`AddSlotVacant`), which holds because the look, or the delete after it, left it empty and
  the only other writer deletes.
* `PodTargetsKept` needs where targets come from: `Origins`, a target at an address the
  configuration does not name has `pod` set.
* `TableRefined` needs the three and one more, `ReplaceDiffers`: a goroutine between its look and its
  delete still finds a target that differs from the one it is going to store, so that the delete is
  a `Clear` and never empties a settled entry. Together they are `RInv`. A step is then described
  address by address (`Moves`): it requests, withdraws, clears or installs at one address, and
  every other exclusive address stays (`MovesRefine`); `PodRefines` and `ConfigRefines` show it for each action,
  and the exporter's steps stutter.

Each of `addTarget`, `delTarget` and the steps of the exporters keeps `TableInv` (lemmas
`AddKeeps`, `DelKeeps`, `ExporterKeeps`); the goroutines are put together from these.

### ConfigUpdates

A poll is a stutter or a change of what `Metrics` chooses freely, so `IInv` holds of the composition.
`ExactlyReceived` needs `PollInv`. `Channel`: the entries that are left are the end of what was
received. `NoPodsThere`: an address that only the configuration names never has a target of a
pod. `HandledInstalled`: after each entry such an address is in `actual` if, and only if, an
entry named it, and has the target of the last that did, unless the next one is just replacing it.
`StaleUnnamed`: what the sweep has still to delete was not named, and the rest is right already.

### Exporters

`Progress`: how far `StartExporter` has come says what it has set. `Removal`: where
`StopExporter` found it says what it will clear. `Checked`: a scraper past a check still has
what it checked, or is among the disturbed. `Closed`: a `Close` that met no scraper leaves none.

### Credentials

The invariant is `RoundInv`. `Reading`: no secret is left of the round before, so that whatever was
read is of a version not older than the beginning of this one. `EmptyNeedsRival` needs `Asked` as well: the
keys that are asked of a secret are those of one target of the batch, and what was read has the ones
among them that the secret holds. A target that finds none of its own has lost them to that target.

### PodEvents

`TableInv` has two halves. `Base` is about the informer: `Mirrored`, the cache lags behind the store
only while the watch is down; `Sensible`, no notification goes back to an earlier phase of its pod; and
`ChainedIn`, each notification of a pod begins where the one before it ended, the last at the cache. So
what the handlers know of a pod is the old state of its first notification (`Queued`), and for each
subscriber there is a state it knows (`Known`): older than the event in its channel, and than the one being
sent if it still waits for that.

`Follow` is about the tables. `Linked`: an event under way leads to the next state, or past pods that do
not run. `Served`: a pod which runs as far as the subscriber knows, and has its address to itself, is in
its table. `Accounted`: what stands at the address of a pod with one address is
that pod. `Together`: subscribers with the same wishes have the same places once both have
handled what is on its way to them, so that the one that waits is behind by that only. When nothing is
under way, what is known is the store, and `TablesFollow` is left. The steps are put in four groups by
what they do to the tables: `Upstream` (cluster and informer), `Takes`, `Skips` and `Sends`
(the handlers), `Hands` (one subscriber gets the event) and `Works` (one applies it).

`RestartHeals` needs `FirstList`: as long as nothing has changed since the restart, every
notification is an add of the first list and every target in a table is of a pod that asks for it; a
pod that asks and is in no table yet is still on its way, or another pod with its address is there. That
a set of numbers has a least element (`Least`) is taken from the library's well-foundedness of `<`.

### KubeEvents

`Told`: what is under way is newer than the copies and than what was emitted, and in order.
`Synced`: copies and stream together are what the cluster has. `Known`: a copy of this process
was emitted, if it is of its time. `NotAgain`: what was emitted and is still there is known to the
informer, or too old for an add; that is why the list after a break or a restart repeats nothing.

### AWSDiscoverer

`Apart`: the two goroutines change collectors and readers at different times only, because the stop
is taken between two passes. `Joins`: the reader that is waited for belongs to a collector that was
dropped already. `Finds`: what a list found is of the kind that is being discovered. `Counters`: types.
`CleanPassExact` needs `CleanInv`. `Settled`: the session is of the configured region outside an update, and
what was seen is among the collectors. `Listed`: in a clean pass an instance that is wanted was
seen or is still to be found on a page, and the kind that came first is exact already; the sweep then
leaves what was seen.

### LogReader

`Consecutive`: what the parser got is a run of consecutive lines from where the first download
began, each whole or only the rest behind a cut (`Piece`); what is being written continues it, and both
end at the marker. `Cuts`: cuts are inside lines and none is past the marker, and a marker
inside a line is a cut or where the file was first read; so the next portion begins with the rest of that
line, and a new cut does not touch what was sent. `Followed`: a marker
is never lost while its file is there, which needs `Listed`: the list of a round has every file
that is followed, because the end of the round forgets the others. `Writing`: there is
nothing to write before the first round has placed the markers.

### MysqlCollector

`SinceCurr` and `BetweenThem`: counters differ from the last snapshot, and the last from the
previous one, by what was counted, modulo `Width`. The arithmetic is in the lemmas `Remainder`, `OneMore` and
`Difference`. `Progress`: which parts are fresh at which query. `GivenUp`: a query is
invalid only if the first, or the present, server does not know it. `Replication`: the
statuses are there once the queries for them are through.

### Profiles

`Places` and `OneJob`: a pod that never named two addresses has one target, so one job for each key.
`Bounded`: what has arrived, what is on its way and what the next difference will be are together no
more than the work done. It is said with `Room`, a fact about one value of the cache that work and
restarts of the process preserve: below the cached value the next profile counts from nothing, from
there on it counts what exceeds it. `Orphans`: a scrape that has not reached the cache yet is of a
stored target or known to be raced. `Delivered` adds up the uploads of
any number of jobs with one key. `SumInv` says it without the sum: `OneEach`, a target has one job of a type, and
`Covered`, for every measure that is additive over the jobs on their way (`Additive`) what has
arrived and what is on its way is at least the value of the cache. When no job is on its way every such measure is zero.

### ProfileDiff

Sums are folds over a finite set. That they can be split at any element, grow with the values and do not
change when the elements are renamed (`SumAdd`, `SumMonotone`, `SumOver`) is proved by induction over the
size of the set, with a set of numbers (`AllNumbers`) or of subsets (`AllSubsets`) in the place of the
predicate that the library's induction theorems take.

`ProfileInv` follows one profile through the loop. `Whole`: until differences are taken, the samples of a
stack add up to what the process has, for the first sample type (`First`) and for stacks that never had
two samples (`Alone`). `Merging`: after the turn of `First` there is one sample for each stack, so that the
other turns cannot change sums that are there. `Exactly`: the first profile and the uploads since are
together what the cache has, and then what the process has; this is `ReportedInFull`.

`NeverTooMuch` is harder: for the other sample types the sample that is left has the value of one site, the
cache has that of another, and a value below it is reported as it is. `Sourced`: the sample that is left is
of the newest site of its stack (`Newest`), unless that was reached since. `RoomLeft`: with what was
reported, the difference that the newest site would give is within what all sites of the stack have, now
and after the upload (`Leaves`). It survives because a site that is new counts from nothing.

### Only model-checked

Liveness under fairness (`PlainTargetsAreTried`,
`ServedIsInstalled`, `ConfigHeals`, `CatchesUp`, `Converges`, `StopReturns`, `ReadToTheEnd`, `Recovers`,
`RemovalEnds`, `StartsInTheEnd`, `LoggedAtLast`) is out of the prover's reach and stays with TLC. No module declares a
`RECURSIVE` operator, so that all of them can be proved about.

## 5. What is not modelled

* the scraper, `prom.go` and kube-state-metrics: the state is that of libraries;
* main, flags, common: wiring, command line, HTTP headers, constructors of metrics;
* the metrics that RDS and ElastiCache collectors export, and with them the data race of
  `RDSCollector.update` with `Collect` (`rds.go:136`): a description is formatted, nothing depends on it;
* query texts, digests and the top 20 of the mysql collector, and its connection pool: that
  the ping of `Collect` waits for a snapshot that takes long (`mysql.go:90`);
* the text of events, and events without `LastTimestamp`;
* what the parser of the AWS log lines and the exporters of libraries do.

## 6. Plan

There: `Metrics` (the core) with `TargetTable`, `PodEvents`, `LogReader`, `AWSDiscoverer`, `Profiles`,
`MysqlCollector`, then `Exporters`, `ConfigUpdates`, `Credentials`, `KubeEvents` and `ProfileDiff`; and the
proofs of every invariant and action property that a run checks.

Next:

1. An abstract log follower (pieces of a file once, in order, with cuts) that `LogReader` implements, and an
   abstract discoverer that `AWSDiscoverer` implements and `ConfigUpdates` waits for.
2. The pool of the mysql collector: snapshot, ping and `Close` over one connection.
3. `update` and `Collect` of the RDS collector, field by field.
