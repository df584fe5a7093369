# TLA+ models of ZincSearch

ZincSearch is a search engine in Go. This fork adds a replication stream (NATS
JetStream) that every node consumes, and a coordinator that publishes to it,
promotes replicas and takes backups. This directory models the parts whose
correctness depends on the order of steps: what survives a crash, what happens
when two instances act at once, what is done twice after a lost answer. TLC
checks the models on small instances; TLAPS proves their safety properties for
every size.

## The system

```
callers -> coordinator: Publisher + disk buffer -> JetStream -> node: stream Consumer
              |  lease, run loop, failover                        |  CoreApplier
              v                                                   v
        state store (compare-and-set)            index -> shard WAL -> second-layer shards
```

| part (under `src/pkg`) | state it keeps | operations | what is hard about it | what makes it correct |
|---|---|---|---|---|
| shard: `core/index_shards_wal.go`, `index_document.go`, `index_shards.go`, `wal/` | WAL with a first and a last ID, redo log in memory and in a file, second-layer shards | accept a document, open the WAL and roll back, consume in chunks, truncate, add a shard | a crash or an I/O error between any two steps; three files that change one after the other; groups applied in map order; unsigned IDs | nothing uncommitted is truncated; commits leave no hole; committed documents are found, those of the stream once and in their last version |
| WAL list: `core/index_shards_wallist.go` | map of open shards, one ticking goroutine | add, remove, consume all | channels sized before the list is read, removal by name, the hand-over with `Close` | a WAL has one owner; every open shard is consumed; `Close` returns |
| stream consumer: `streaming/consumer.go`, `apply.go`, `offset.go`, `core/stream.go` | JetStream cursor, saved position, set of touched indexes, paused/parked flags | start, stop, pause, resume, fetch, apply, flush, save, acknowledge | at-least-once delivery, lost acknowledgements and deliveries, retention, power loss before a flush, pause against the running goroutine | the saved position never runs ahead of durable data; only dropped or lost messages are missed; it catches up |
| publisher: `coordinator/publisher.go`, `buffer/buffer.go` | disk buffer, connection, flush loop | publish, append, drain, remove | lost and late acknowledgements, duplicate window, two senders, bounded buffer, two different size limits | accepted messages are kept, arrive, and do not overtake |
| leader and failover: `coordinator/coordinator.go`, `failover.go`, `monitor.go`, `state/` | lease, cluster record, history, leader flag, view and node status of each instance | acquire, release, poll, refresh, fail over, promote by hand | a leader flag older than the lease, compare-and-set races, stale answers of nodes | one chain of decisions; cool-down; the freshest replica takes over; a lost master is replaced |
| backups: `coordinator/backups.go`, `verifier.go`, `blob/` | records of backups, objects, job times | back up, record, prune, delete orphans, verify | two instances that both lead; a crash between upload and record; storage that rots | there is always a backup to recover from; a bad one is never used again; damage is found |
| node backup: `backup/`, `handlers/backup`, `core/backup.go`, `metadata/backup.go` | pause flag, copied files, restored keys | pause, drain, copy, compare, resume, restore | overlapping requests, an operator or a promotion that resumes the node in the middle, time-outs, a restore that dies | an archive misses nothing before its position; the node is left as it was found; a restored node is complete |
| indexes: `core/index.go`, `indexlist.go`, `newindex.go`, `loadindexes.go`, `deleteindex.go` | index list with its lock, metadata of each index | create, refresh, store, load, delete | deletion while requests open shards, a store that fails after memory changed | a deleted index stays deleted; refresh and deletion return |
| time ranges: `core/index_shards.go`, `uquery/timerange` | time range of each second-layer shard, in memory and stored | collect, copy, store, load; choose the shards of a search | ranges that lag behind documents; a walk that stops early | a search reads every shard that holds an answer |
| mapping, scoring, aliases, templates, auth, HTTP, upgrade, Bluge fork | maps under a lock, or none | | mostly data, little control | not about the order of steps |

The parts interact by calls (`CoreApplier` calls `CreateDocument`), by messages
(publisher to stream to consumer), by shared records (state store) and by
answers that are read later (`/healthz` polled by the coordinator).
`PROJECT.json` lists all parts with their status, and under `hazards` every
place where an unfortunate order of events could do harm.

## Modules

| module | models | used by |
|---|---|---|
| `ShardWAL` | one shard: WAL, redo log, consume goroutine, rollback | `MCShardWAL`, `ShardWAL_proofs` |
| `ShardWAL_proofs` | theorems about `ShardWAL` | |
| `StreamConsumer` | the consumer of a node with the stream in front of it and the documents behind it | `MCStreamConsumer`, `StreamConsumer_proofs` |
| `StreamConsumer_proofs` | theorems about `StreamConsumer` | |
| `Replica` | abstract: what a consuming node promises | instantiated by `StreamConsumer` |
| `Publisher` | callers, disk buffer, flush loop and connection | `MCPublisher`, `Publisher_proofs` |
| `Publisher_proofs` | theorems about `Publisher` | |
| `Failover` | coordinator instances, lease, cluster record, nodes | `MCFailover`, `Failover_proofs` |
| `Failover_proofs` | theorems about `Failover` | |
| `Backups` | the coordinator's backups: records, objects, the jobs of several instances | `MCBackups`, `Backups_proofs` |
| `Backups_proofs` | theorems about `Backups` | |
| `NodeBackup` | a node that is backed up while it consumes, and the restore of its archive | `MCNodeBackup`, `NodeBackup_proofs` |
| `NodeBackup_proofs` | theorems about `NodeBackup` | |
| `ShardLifecycle` | opening, consuming, closing and deleting shards | `MCShardLifecycle`, `ShardLifecycle_proofs` |
| `ShardLifecycle_proofs` | theorems about `ShardLifecycle` | |
| `TimeRanges` | the time ranges of shards, and which shards a search reads | `MCTimeRanges`, `TimeRanges_proofs` |
| `TimeRanges_proofs` | theorems about `TimeRanges` | |

An operator with an underscore in its name (`Truncate_all`) is a faulty variant
of the definition next to it: a plausible bug. No specification uses one; each
shows that the property it is paired with in `PROJECT.json` notices the bug.

### ShardWAL

`log` holds every WAL entry, its index is the WAL ID; entries before `first` are
truncated and entries up to `synced` survive a power loss. `redo` is the redo
log in memory (`redo.Log.data`), `redoDisk` its file; `redo.Log.Write` changes
memory first, so a failing write leaves them different (`RedoWriteFails`). A
document's content is the number of the write that produced it; a second-layer
shard maps each document to the sequence of versions stored under its ID, so a
duplicate is visible.

The consume goroutine is `pc`: `Sync`, `Bounds`, then per chunk `ReadChunk`
(redo record "read"), `WriteToShard` for each group in any order (Go's map
order) with `WriteToOther` for older shards, `CommitChunk` (redo record
"write"), and at the end `Truncate`, `CheckShards` and `UpdateMetadata`.
`ConsumeFails` is an error return at any of these points. `CheckShards` raises
`shardNum` in memory before the index is stored; the store may fail there and again
in `UpdateMetadata`, whose error is ignored, so that `shardStored` stays behind. A
`Crash` brings back the stored number: the documents of a forgotten shard are on
disk and not found (`hidden` records them), until a shard of its number is added
again. Loading an index opens no WAL; `OpenWAL` with its `Rollback` happens when the
next request needs the shard. `RollbackFails` leaves the shard open and unlisted.
Requests are one action each; what they read of the index is what is searchable
now, which lags behind the WAL. `StreamNext` offers the only request the stream
applier makes (`CreateDocument` with `update = true`), `Next` all of them.

Left out: documents that cannot be built (mapping conflicts), statistics, and
closing a shard (see `ShardLifecycle`). A batch the index library
accepted is durable, and a rollback that succeeds is one step. `MaxCopies` bounds
the copies of a document: a chunk that names a forgotten shard fails at every tick,
and each time stores the documents of its insert group once more. The redo file is durable when
written, which is the default (`zinc_wal_redolog_no_sync` off).

### StreamConsumer and Replica

`msgs` is the stream, `first` what retention left of it, `cursor` the JetStream
consumer, `offset` the position in the node's metadata. `data` is the version of
each document (the sequence of the message that wrote it), `disk` the versions a
power loss may leave. The goroutine is `pc`: `Top`, `Unpark`, `Prepare` (compare
position and stream, create the cursor), `Deliver`/`FetchEnds`, `CheckFirst`,
`ApplyOne` per message, `Flush`, `Save` with the acknowledgements. `Pause`,
`Resume`, `Stop` and `Start` come from other goroutines at any time. Each of the
calls to the server, the applier, the WAL and the metadata can fail.

`unacked` is what the server handed out and nobody acknowledged: it may hand these
out again (`Redeliver`), and hands out nothing new while they are `2*Batch`
(`MaxAckPending`). `Save` acknowledges the messages of the batch, and only then: a
batch of old messages moves no position and acknowledges nothing. Any of the
acknowledgements may be lost, since their errors are ignored. `DeliveryLost` is a
message that went with the connection while the cursor lives on (`LossyDelivery`).

`Replica` says what that is for: a position that only moves forward, and
documents in a version the stream has at that position or later.
`ImplementsReplica` is the refinement, with `pos <- offset`, `doc <- data`.

Left out: `ErrAhead` (the modelled stream is never recreated), mapping messages
(they write no document), status counters.

### Publisher

Callers publish one at a time under `p.mu` (`pub`, `cur`); the flush loop
(`drainer`, `items`, `k`) peeks at the buffer, sends the items in order and
removes what was acknowledged. `net` and `acks` are messages and
acknowledgements on their way: a time-out may be early, late or because of a
loss. The server drops a message whose ID it stored within its duplicate window.
The buffer is a transactional file: `Append` and `Remove` are atomic and survive
a crash. The limit on the size of a message is known only after the first
connection (`limitKnown`). Three places measure a message differently: `checkSize`
its data (`TooLarge`), the client and the server its data and the header with its ID
(`Unsendable`, `ServerRefuses`), the buffer its data and its ID (`EntryBytes`).

Left out: failing `Peek` (it is retried like an unavailable stream), and the
health report.

### Failover

Each instance has two processes: the run loop and one request for a promotion by
hand (`proc[c]["loop"]`, `proc[c]["api"]`), interleaved at every call to the
store. The lease is a record with its remaining time; revisions are only compared
for equality, so `leaseFresh` is the set of instances whose read is current.
Time is relative (`Tick` takes one unit from the lease and ages the decision), so
it never ends. `Timely` restricts time: it only passes when every running loop
has served its tickers. A store call that fails may have taken effect.

Left out: clocks that disagree (the code requires them to agree), the admission
report and the jobs started after `FailoverOnce`. The store is linearizable, as
`Store` requires; `loadCluster`'s read-or-create is one step, and so is a poll of
all nodes. All instances are configured with the same nodes.

### Backups

An archive is the number of its creation, which gives the order of `CreatedAt`.
`recs` is the status of every record in the state store, `objects` the age of
every object in the blob store, `rotten` the objects whose bytes are wrong,
`useless` the archives that are intact and cannot be restored. Each instance has
one job (`jobMu`): a backup goes `CreateBackup`, `Put`, `Record`, then
`ListToPrune`, `PruneObject` and `PruneRecord` per record, `ListOrphans`,
`DeleteOrphan`; a verification goes `StartVerify`, `CheckStored` and `Mark` per
record, `DeepVerify`, `Mark`. Leadership is not asked for once a job runs, so any
instance may run one at any time. Revisions are only compared for equality:
`job.fresh` is the set of records nobody else wrote since the job read them. Any
call may fail and any job may die between two steps.

`Timely` says that an upload is recorded, and a list of records used, within half
of `OrphanGrace` (24 hours by default). `OrphansOnly` needs it: the grace period is
the only thing that protects the upload of another instance.

Left out: the schedule records (jobs may start at any time, which includes every
schedule), two archives of the same name (same second, same position, different
nodes), the staging copy on the node.

### NodeBackup

The consumer is the one of `StreamConsumer` with one message per batch (`Top`,
`Unpark`, `Apply`, `SaveOffset`), and `ConsumeWAL` empties the WAL of an index. A
request is the handler: `ReadPaused`, `Pause`, `Parked`, `Drained`, then
`backup.Create` with its lock: two reads of `currentState` (`Create`,
`BeforeOffset`), `CopyIndex` and `CountIndex` per index, two reads again
(`AfterPending`, `Compare`), and the deferred `Respond`. Each wait may time out,
each step of the copy may fail, the process may restart, and `Operator` pauses or
resumes the consumer at any moment, as the HTTP API and a promotion do. After
`Lose` the archive is restored elsewhere, index by index and key by key, with
failing and crashing attempts.

`held`, `overlap` and `resumed` record what others did, so that the properties
can say what is promised in which company. `held` is whether an operator keeps the
consumer paused, since `before` the active requests or `during` one; it is `raced`
when an operator resumes the consumer while a request has read the flag but not
paused the consumer yet.

Left out: the archive's files and checksums, the archives kept on the node, and
writes that do not come from the stream.

### ShardLifecycle

An action is what the code does between two steps another goroutine can see, so
`OpenWAL` is six actions (`OpenCheck`, `OpenLocked`, `SetOpen`, `MakeChan`,
`Rollback`, `Add`) and `IndexShard.Close` three (`CloseCheck`, `CloseZero`,
`CloseLocked`) with the hand-over in between, which `SelectClose` of a tick does.
`chan` says which of the channels made so far a shard's `close` field holds. A
tick is `TickLen`, `TickList`, a goroutine per shard (`SelectClose`,
`SelectDefault`, `Consume`), `TickWait`, `TickRemove`, `TickUpdate`; a send into a
full channel leaves its goroutine blocked. A deletion holds the lock of the index
list while it closes the shards.

`windows` records seven cases after which the code cannot keep its promises: a shard
added between `Len` and `List`; a shard added before the tick removes its name;
`Close` between setting the flag and making the channel; two `Close` calls at a
time; a rollback that fails; a shard opened after its index was deleted; a `Close`
whose writer or WAL does not close (`CloseFails`), which clears the flag and keeps
`s.wal`, so that `OpenWAL` never opens or lists the shard again.
`CloseReturns`, `AppendedIsConsumed` and `DeletedStaysDeleted` say that there are
no others. Each of the seven is needed: without it the run fails. A `wal.Open` that
fails (`OpenFails`) is harmless.

Left out: index creation, and what consuming an entry does to the documents.

### TimeRanges

`place` is where each document is stored and with which time, `first` the range
collected in the first-layer shard, `ranges` those of its second-layer shards,
`saved` both as stored. A tick takes the queue in chunks: `Take`, `WriteToShard` per
group (which widens `first`, then writes the batch: from here on the documents are
found), `CommitChunk`, and after the last one `Fits` or `NewShard`,
`UpdateMetadataByShard`, `Store`. Each has a failing variant. `WriteFails` and
`CommitFails` end the tick without `UpdateMetadataByShard`, the second with every
document of the chunk written; the chunk is taken again. `StoreElsewhere` is
`NewShard` of another first-layer shard, which stores the same index at any moment
of the tick. `Restart` loads `saved`. `QueryRanges` is what `timerange.Query` makes
of a query, a set because Go walks over a map, and `GetReaders` the shards that are
opened for it.

`ReadsEveryAnswer` compares that with the documents a query matches, for all
queries of up to two clauses and at every step. It speaks of the documents that are
`covered`: written into the newest shard, and their time copied to that shard's
range since, by this tick or a later one. `cover` is kept per document, with a
history of its own for what is saved, so that a failed tick, a failed store or a
crash exempts the documents whose time was lost with it and no others. Three things
are real gaps of the code and stay outside: a document that was written and whose
time is not copied yet, because the tick is under way or failed (a search with a
bound may skip its shard); one updated in an older shard, whose range is never
widened; and everything after a document that is older than the range of an older
shard (`late`), since the walk then stops too soon. Queries with a time bound in a
`should` clause that need not match are excluded too, since `BoolQuery` takes any
clause for a bound of the whole.

Left out: WAL and redo log (`ShardWAL`), parsing of times, nested bool queries.

## Runs

| run | instance | shows |
|---|---|---|
| `ShardWAL_stream` | 2 documents, 4 writes, 2 shards, chunks of 2 in ticks of 3, two faults, one crash (395 000 states) | `CommittedDocsExact`, `CommitsAreContiguous`, `VersionsOnlyGrow`, and `EntriesEventuallyCommitted` for an open WAL |
| `ShardWAL_api` | 2 documents, 3 writes of any kind, two faults, one crash with power loss (1.8 million states) | `UncommittedRetained` needs no assumption about what is written or lost; `CommittedFindable` |
| `StreamConsumer_safe` | 2 indexes, 3 messages, deletion of an index, redelivery, lost acknowledgements, one retention step behind the position, two failing calls or crashes with power loss (887 000 states) | `DurableNotBehind`, refinement of `Replica` |
| `StreamConsumer_live` | 1 index, 5 messages in batches of 2, gaps allowed, retention that may overtake the node, redelivery, lost acknowledgements, one failing call, lost delivery or restart (347 000 states) | `OnlyDroppedAreMissed`, `PauseReturns`, `CatchesUp` |
| `Publisher` | 4 messages, one too large and one too large with its header; 2 faults, one disconnection, one expiry of the duplicate window, one crash; a buffer of 6 bytes (599 000 states) | `AcceptedKept`, `NoOvertaking`, `FittingReachStream` |
| `Failover_safe` | 2 instances, 3 nodes; leases that lapse at once, so every overlap of leaders happens; one request by hand, one change of a node | `HistoryIsChain`, `CooldownBetweenFailovers` |
| `Failover_candidates` | 1 instance, 3 nodes in all conditions and two positions, one fault | `FreshestTakesOver` |
| `Failover_timely` | 2 instances whose loops keep pace with the clock, one fault | `OneLeader`, `MasterReplaced` |
| `Backups` | 2 instances, 2 backups, retention 1, a grace of 2 ticks, one failure, crash, useless archive or rotten object (294 000 states) | `AlwaysRecoverable`, `OrphansOnly`, `BadStaysBad`, `DamageFound` |
| `NodeBackup` | 2 requests, 2 indexes, 2 messages, two events: pauses and resumes by someone else, of which one may be a failure or a crash instead (962 000 states) | `ArchiveNotBehind`, `ArchiveIsStreamState`, `PauseAsFound`, `RestoredComplete` |
| `ShardLifecycle` | 2 shards, 2 clients, 3 requests of any kind, 1 entry per shard, one failing open, rollback or close (299 000 states) | `OneOwner`, `DeletedStaysDeleted`, `CloseReturns`, `AppendedIsConsumed` |
| `TimeRanges` | 2 documents, 3 writes with 3 times, 3 shards, two faults, one crash, every query (1.6 million states) | `ReadsEveryAnswer` |

Bounds. Two documents are enough for a chunk that mixes a document with another
one, four writes for two chunks in a tick, an aborted one and a repetition; two
second-layer shards make every update that has to remove an older copy; two faults
let both attempts to store a new shard fail before a crash. Three
messages in batches of two give a batch that is cut by a crash and one behind it;
five are one more than the four the server hands out without an acknowledgement.
Four messages to publish, of sizes 4, 3, 1 and 1 against a limit of 3 with a header
of 1, give one that `checkSize` refuses when it knows the limit, one that it accepts
and the server does not, and two that fit, of which one is drained and one behind
it. Two instances give every race of a compare-and-set;
three nodes give a choice of candidates. Two backups with a retention of one make
every backup after the first prune one, against a verification or an orphan
deletion of the other instance. Two indexes give a copy that is overtaken between
them; the second message goes to the index that is copied first. Three requests on two shards give a
deletion against a refresh against a request that opens. Three shards and three
times give a shard in the middle that a search may skip or stop at; three writes
fill three shards. Each kind of failure happens at least once at any point; a
failure during the recovery from another is included where crashes have a bound of
their own or the common bound is 2.
`Word`, the modulus of the unsigned subtraction in `Bounds`, stands for 2^64 and
only has to exceed every ID and every batch size, so that `Committed > LastIndex` wraps
to a number larger than a batch as it does in the code. Symmetry is used only for
coordinator instances in `Failover` and documents in `TimeRanges`, in no liveness
run.

Deadlock checking is off in both runs of `ShardWAL` (a rollback that fails leaves
the shard open and unlisted, and then nothing consumes it), in
`Publisher` (everything published, nothing to do), in `NodeBackup` (the archive is
restored, nothing to do), in `ShardLifecycle` (a tick can block on a full channel
and a `Close` for ever, which `CloseReturns` is about) and in `TimeRanges` (every
write applied).

### Fairness

* `ShardWAL`: the consume steps are weakly fair, since the WAL list's ticker never
  stops and runs `ConsumeWAL` of every listed shard, and so is the rollback of a
  request that opened the WAL. `OpenWAL` is not: loading an index opens no WAL
  (`loadindexes.go:30-125`), only a request or a stream message for that index does.
  `EntriesEventuallyCommitted` therefore speaks of an open WAL. Requests, faults and
  crashes are not fair.
* `StreamConsumer`: the goroutine is weakly fair, and so is `Start` (the node is
  restarted). `Deliver` is strongly fair: a fetch may end empty any number of
  times, but not for ever while the stream holds messages and the server may hand
  out a new one, which it may not while `2*Batch` are unacknowledged. Handing out
  again what the node still needs is strongly fair as well (`AckWait` ends).
  Publishing, pausing, resuming, stopping, failing, redelivery of what is applied,
  and the arrival of an acknowledgement are not fair: `CatchesUp` exempts a node that
  is kept paused or whose cursor is `Stalled`.
* `Publisher`: the server, the reconnecting client (`nats.MaxReconnects(-1)`), the
  flush loop and a caller inside `Publish` are weakly fair; every wait has a
  time-out.
* `Failover`: the steps of loops and requests and time itself are weakly fair.
  Nobody is obliged to start an instance, so `MasterReplaced` speaks of times when
  one runs. `Timely` is the assumption that a loop serves its tickers within the
  lease: the lease is renewed every `LeaseTTL / 3` (5 s of 15 s) and polls take at
  most `PollTimeout` (3 s). It is assumed only in `Failover_timely`;
  `Failover_safe` has no assumption on time at all.
* `Backups`: a running job goes on, and the verification is started again and again
  (`startDueJobs` on every poll, once `VerifyInterval` has passed). Taking a backup
  is not fair.
* `ShardLifecycle`: the tick and its goroutines go on (the ticker never stops), and
  so do requests that were begun. A goroutine that waits on a channel is not
  enabled, so fairness does not help it.

## Claims of the repository that do not hold

Each is a definition next to the properties of its module, not part of any run.
The counterexample appears when the definition is put into a configuration with the
constants given here; it is a behaviour of the code.

* `StoredAtMostOnce` (`ShardWAL`, `Spec`, 1 document, `BatchSize = MaxBatchSize = 2`,
  1 shard, 2 writes, no fault or crash). `index_shards_wal.go:331`: "need merge
  actions by docID". Entries are merged within a group; a document's insert
  (group -1) and an update of the same ID that was sent before the insert was
  applied (group -2) are two batches in map order and can store it twice.
* `DrainedDocsSearchable` (`ShardWAL`, `StreamSpec`, 2 documents, `MaxBatchSize` 2,
  1 shard, 3 writes, 1 crash, power loss). `core/stream.go:44` says that
  `WALPending` "is zero when every accepted document is searchable". Entries
  appended between `Sync` and `LastIndex` are committed without being synced; after
  a power loss new entries reuse their IDs, are never applied and are not counted.
  Without power loss it fails too (1 document, 2 writes, 2 shards, 2 faults, 1 crash):
  `NewShard` raises the number of shards in memory, `storeIndex` fails there and again
  at the end of the tick, the next tick commits a document into the new shard, and
  after a crash the index is loaded with the old number.
* `NothingMissed` (`StreamConsumer`, `Spec`, 1 index, 2 messages, `LossyDelivery`, no
  retention, 1 failure). `docs/streaming.md:79-82`: a node that cannot get the
  messages it still needs refuses to consume, "instead of letting it silently miss
  data". A message that the server handed out and that went with the connection is
  handed out again only after `AckWait` (10 minutes). The next batch begins after it,
  `checkGap` finds that the stream still reaches back to the position, and the
  position moves past it; when it comes again it is taken for applied.
* `DrainedIsStreamState` (`StreamConsumer`, `Spec`, the constants of
  `StreamConsumer_safe` with 1 failure and no retention). `docs/streaming.md:122`: "a backup
  is a state the stream really passed through" (`handlers/backup/backup.go:55`
  repeats it). A node that lost power within a batch, and with it the first of two
  documents, and is paused before that batch was applied again is drained, but in no
  state of the stream.
* `AcceptedReachStream` (`Publisher`, `FairSpec`, 2 messages, one too large with or
  without its header, no faults). `publisher.go:66-68`: messages are "parked in a bounded buffer on disk and
  sent in order once the stream is back". A message above the server's limit that
  was accepted before the limit was known (`:185-186`) fails at the head of the
  buffer for ever. So does one whose data is within the limit and whose data with the
  `Nats-Msg-Id` header is not: `checkSize` (`:187-193`) counts the data only.
* `NewestVerifiedKept` (`Backups`, `Spec`, no failure). `backups.go:284-285`: "Prune
  keeps the newest BackupRetention usable backups and the newest verified one". Its
  list may be older than a verification by the other instance.
* `ArchiveNeverBehind` (`NodeBackup`, `Spec`, no failure). `backup/create.go:64-66`:
  "Create verifies that before and after copying, and returns ErrNotQuiescent
  instead of a backup that might mix two states". `currentState` reads the WALs first
  and the position second: a consumer that someone resumes in between can write a
  message to a WAL and save its position before the second read, and the copy starts
  with that WAL not applied. It is applied by the end of the copy, and nothing
  differs; the archive's position is past a message the copy lacks.
* `OpenIsListed` (`ShardLifecycle`, `Spec`, 1 client, 3 requests, no fault).
  `index_shards_wallist.go:29`: "Record opened WAL used to do consume", and
  `index.go:344` "it will open automatically by trigger". A shard that is closed and
  opened again while the tick is still to remove its name is open and not in the list:
  its entries are never consumed, and the next refresh or deletion waits for ever.

Found on the way: a crash between an index batch and its redo
commit stores an inserted document twice (`index_shards_wal.go:461`); a delete and a
create of one document that fall in different groups of a chunk may change places,
and the document is gone (`index_shards_wal.go:334`); after a restart the entries of
an index nobody uses stay uncommitted, since loading it opens no WAL
(`loadindexes.go:30`); an update of a document in a shard that a crash made the index
forget fails its chunk at every tick, and each tick stores the inserts of that chunk
once more (`index_shards.go:160`); a `Close` that fails leaves a shard that takes
entries and is never consumed (`index_shards.go:280`); a batch whose redo record
fails is searchable, but a search with a time bound may skip its shard until a later
tick copies the range (`index_shards_wal.go:195`, `:216`); once `2*Batch`
acknowledgements are lost the server hands out nothing new, what it hands out again
is never acknowledged because it moves no position, and the node stalls without an
error until it is paused or restarted (`consumer.go:360`, `:444-457`);
`WALPending` is zero before the WAL is truncated and a shard added (`stream.go:44`
says files no longer change); retention between two deliveries of one fetch is not
noticed as a gap (`consumer.go:414`); a publish answered with an error may be in
the stream (`publisher.go:148`); items sent again after the duplicate window ended
can be stored behind newer ones (`publisher.go:63`); an instance whose lease was
lost can still promote, ordered only by the compare-and-set (`failover.go:31`); a
promotion by hand can be overwritten in the instance's own view by a decision that
was read earlier, until the next poll (`failover.go:75`); of two overlapping backup
requests the second reads `wasPaused` as set by the first, so the consumer may be
resumed under its copy or stay paused after both (`handlers/backup/backup.go:87`,
exempted by `overlap`);
an operator's resume between that read and the request's own pause is undone when the
request ends, and the consumer stays paused (same line, found when `PauseAsFound` could
not be proved; exempted by `held = "raced"`); documents counted after the copy of an index may differ from
the copy when someone resumes the consumer (`create.go:96-106`); a restore that dies
while it loads the metadata leaves some of its keys (`metadata/backup.go:53`), which
the next restore overwrites; a `should` clause with a time bound hides shards with
answers (`timerange/bool.go:24`).

## Proofs

Every safety property of the runs, invariant or action property, is a theorem for
every value of the constants:

| module | theorem | states | needs |
|---|---|---|---|
| `ShardWAL_proofs` | `TypeCorrect` | `Spec => []TypeOK` | |
| | `Retained` | `Spec => []UncommittedRetained` | |
| | `Contiguous` | `Spec => CommitsAreContiguous` | |
| | `CommittedIsFound` | `Spec => []CommittedFindable` | |
| | `StreamExact` | `StreamSpec => []CommittedDocsExact` | |
| | `VersionsGrow` | `StreamSpec => VersionsOnlyGrow` | `MaxWrites < Word` |
| `StreamConsumer_proofs` | `TypeCorrect` | `Spec => []TypeOK` | |
| | `NoneLeftOut` | `Spec => []OnlyDroppedAreMissed` | |
| | `PositionDurable` | `Spec => []DurableNotBehind` | `SafeRetention`, not `LossyDelivery` |
| | `ConsumerRefines` | `Spec => ImplementsReplica` | `SafeRetention`, not `LossyDelivery` |
| `Publisher_proofs` | `TypeCorrect` | `Spec => []TypeOK` | |
| | `AcceptedNeverLost` | `Spec => []AcceptedKept` | |
| | `OrderPreserved` | `Spec => []NoOvertaking` | |
| `Failover_proofs` | `TypeCorrect` | `Spec => []TypeOK` | |
| | `HistoryChained` | `Spec => []HistoryIsChain` | |
| | `CooldownRespected` | `Spec => CooldownBetweenFailovers` | |
| | `FreshestPromoted` | `Spec => FreshestTakesOver` | |
| | `OneLeaderAtATime` | `Spec => []OneLeader` | `Timely`, `TTL >= 2` |
| `Backups_proofs` | `TypeCorrect` | `Spec => []TypeOK` | |
| | `BadIsFinal` | `Spec => BadStaysBad` | |
| | `NoOrphanInUse` | `Spec => OrphansOnly` | `Timely` |
| | `Recoverable` | `Spec => []AlwaysRecoverable` | `Timely` |
| `NodeBackup_proofs` | `TypeCorrect` | `Spec => []TypeOK` | |
| | `NothingMissed` | `Spec => []ArchiveNotBehind` | |
| | `ArchiveExact` | `Spec => []ArchiveIsStreamState` | |
| | `PauseRestored` | `Spec => []PauseAsFound` | |
| | `RestoreComplete` | `Spec => []RestoredComplete` | |
| `ShardLifecycle_proofs` | `TypeCorrect` | `Spec => []TypeOK` | |
| | `OneOwnerAlways` | `Spec => []OneOwner` | |
| | `DeletionFinal` | `Spec => []DeletedStaysDeleted` | |
| `TimeRanges_proofs` | `TypeCorrect` | `Spec => []TypeOK` | |
| | `SearchComplete` | `Spec => []ReadsEveryAnswer` | |

"needs" is a hypothesis of the theorem: the constant that the run of the property
sets too, so that theorem and run are about the same system. `Timely` is the pace of
the loops against the lease (`Failover`) or against the orphan grace (`Backups`),
`SafeRetention` a stream that keeps what the node has not saved, `LossyDelivery`
whether a message that was handed out may never arrive. Apart from these the
proofs use only the assumption each module makes of its constants (`ConstantsAssumption`,
`FailoverAssumption`, ...: bounds are numbers, sizes are positive, sets that are
counted are finite), which TLC evaluates in every run of the module.

Every proof has the same layout: the inductive invariant as a conjunction of named
parts, one lemma per action (or per kind of step, where several actions do the same
to a part), then the theorems. Each invariant was checked with TLC before it was
proved.

### ShardWAL

`UncommittedRetained` is not inductive: that a truncation removes nothing that is
needed depends on where the goroutine is. `Inv` adds `CtlInv` to `TypeOK`: a chunk
that is read or written starts one after the commit and ends within the WAL;
when the WAL is truncated the tick's end is the commit; memory and file of the
redo log agree while a chunk is written; the WAL starts at most one after the
last commit of either redo log; and the "read" record starts at most one after
the commit (so that the rollback's truncation is harmless too). One lemma per
action shows that it preserves `Inv`. None of this needs an assumption on `Word`:
a wrapped subtraction only chooses another end for the tick.

Two losses are the code's own and are recorded where they happen: `walCut`, a power
loss that cost the WAL entries, and `hidden`, the documents with a copy in a shard
that a crash made the index forget. The three theorems below except these documents
and no others, so they speak of every crash and every failing store.

`CommittedIsFound` rests on `FindInv`: inserts name no shard, so that
the rollback, which takes inserts out of the shard they name, takes out nothing
(`InsertsToLatest`); commits do not pass the end of the WAL (`CommitsBounded`, where a
cut WAL would break it), and a document of the chunk in hand whose group is written is
in some shard (`GroupsDone`; for the group that updates in the latest shard and deletes
elsewhere, in the latest shard all the time, `LatestHas`). Without deletions a batch
takes a document away only where the same group has put it in the latest shard.

`StreamExact` needs `StreamInv` on top: every entry is a named update
(`StreamLog`), shards that do not exist yet hold hidden documents only
(`UnusedEmpty`), and the documents of the chunk in hand are, in the middle of `WriteToShard`, new in
the latest shard and gone from the older shards visited so far (`OthersPhase`),
and exact up to the end of the chunk once its group is done (`WritePhase`). The
central lemma, `MergedIsReplay`, says that merging a chunk's actions gives each
document what replaying the log one by one would. A chunk that is cut off and
repeated therefore ends in the same state.

`VersionsGrow` is about the documents that are not committed yet: a reader sees a
chunk while it is applied, and after a failure or crash the chunk is applied again.
`GrowInv` says that a stored version comes from an entry the redo file announced
(`StoredRead`), and that as long as something announced is not committed the next
chunk reaches at least as far (`Repeats`, `TickReads`, lemma `ChunkReaches`): the
version the repetition stores is no older than the one it replaces. `MaxWrites < Word`
keeps the unsigned subtraction in `Bounds` from wrapping (in the code: fewer than 2^64
entries).

### StreamConsumer

`LoopInv`: every message between the position and the cursor is in the batch in hand,
dropped by the stream or lost on its way, in an order in which nothing else is skipped,
also when old messages come again between new ones (`BatchInv`), the
position in memory is the saved one (`ProgressInv`), and what lies up to the last
applied message is done or dropped (`DoneInv`). `DurInv` adds what is on disk: while
retention is safe and nothing is lost on its way, documents are at the position or
later, an index that is not
`touched` has that on disk too, and after the flush every index has. Then
`ConsumerRefines` maps each step: `Save` advances the position of `Replica`,
an apply, flush or power loss changes its documents, and the rest are stutters.

### Publisher

`AcceptedKept` fails by itself in `Remove`, which deletes by sequence number.
`SeqInv` (the buffer is ordered), `ItemsInv` (the flush loop works on a prefix of the
buffer, stored up to where it has come) and `AcksInv` (an acknowledged message is
stored) make it safe. `NoOvertaking` needs `BufInv` (what was accepted before a
buffered message is stored or ahead of it) and `OrderInv` (a message that is on its
way or stored is behind all that were accepted before it): a caller that finds the
buffer empty finds everything accepted in the stream.

### Failover

An entry of the history is written after the promotion, from a copy of the cluster
record that was read before. `RecordInv` says what such a copy is worth (a copy with the
current revision has the current master; who has promoted is behind the record),
`StoryInv` is `HistoryIsChain` for the history together with the entries still to be
written. `CooldownInv`, `KnownInv` and `BestInv` say what the decision that is about to
be written was based on. `LeaseInv`: an instance that believes to lead holds the
lease, which is fresh or about to be renewed in this round; this is where `TTL >= 2` and
the pace of the loops are needed.

### Backups

`Static` says what each job holds at each step, and that an archive that is not
recorded yet belongs to one job and is in no list. `FreshInv`: a revision that is still
current tells the job whether the record is bad. `TimeInv`: objects that are
recorded, or will be, are younger than the grace when orphans are listed.
`TopInv`: the newest record is the one that no instance prunes, condemns or takes for
an orphan, however old its list; this is the backup that `AlwaysRecoverable` names.

### NodeBackup

`LocalInv` is what a request relies on: before the copy the consumer stays paused,
parked and drained, unless it was resumed, and from the first read of the position on
everything up to it is applied, so that a copy taken later holds it too. `DocsInv`
relates position, WALs and indexes. `PauseInv` relates the flag to what the one active
request read as `wasPaused`; the attempt to prove it showed the resume that
`held = "raced"` records, which the run did not reach with one event.

### ShardLifecycle

`OneOwner` is not inductive: that a tick may consume a shard follows from its being
in the list, which was so when the tick read the list. `IInv` adds to `TypeOK` that
`Close` runs only for requests that wait for it (`ClosingInv`), that a tick's
goroutines belong to listed shards that no `Close` took over in this tick
(`TickInv`), that a listed shard is open and nobody's unless this tick handed it to
a `Close` (`ListInv`), and that who opens or closes a shard is alone, finds the WAL
there, and finds the flag set until `Close` clears it (`BusyInv`). The last
part is what keeps a second `OpenWAL` out although the flag is read without the
lock. The races in `windows` break liveness, but not this: the proof makes no
exception for them.

`DeletionFinal` needs two parts more: a shard whose goroutine consumed something is
live until the tick has stored the index (`UpdateInv`), and no shard is open once a
deletion has passed it, unless a request opened it afterwards (`PassedInv`).

### TimeRanges

Within a tick the newest shard's own range lags behind its documents. `IInv` says what
`cover` means for each document that is stored and not `missed` (`KnownDoc`): it is in
a shard that exists; in the newest one the collected range has its time; once `covered`
its shard's own range has it. This holds for memory (`CoverInv`) and, with a history
of its own, for what is saved (`SavedInv`), so that a restart needs no exception.
`GetReaders` may stop its walk early because a shard ends before a newer one begins
(`OrderInv`); a document that comes too late for its shard breaks this, which is
why the theorem needs `~late`.

### Only model-checked

The liveness properties, since the prover handles neither fairness nor `ENABLED`:
`EntriesEventuallyCommitted`, `PauseReturns`, `CatchesUp`, `FittingReachStream`,
`MasterReplaced`, `DamageFound`, `CloseReturns` and `AppendedIsConsumed`.

## Not modelled

Index creation and re-creation under a deleted name, the coordinator's schedule
records, the archive format and archives kept on a node, aliases, templates, users
and roles, mapping and analysis, query translation, scoring and aggregation,
upgrades, telemetry, the commands' wiring and the frontend: `PROJECT.json` gives the
reason for each under `components`. Most of it is data without control (a map
under a lock, a translation of one query tree into another), where a model would
repeat the code.

The models cover the code whose correctness depends on the order of steps, a few
thousand lines. Measured against all Go lines of the repository that is little: four
fifths of those lines are data, `bluge/analysis/lang/chs/gse_dict.go` alone
(a dictionary for Chinese) has 109 768 of 143 913, the generated `docs/docs.go` and
the stop word lists several thousand more. No model of behaviour could cover them.

## Plan

Done: the modules above, and a theorem for every safety property of the runs.

Next, models: creation of an index against deletion and a tick of its former shards;
the schedule records with `due`; publisher, stream and consumer end to end.

Next, proofs: which of the races in `windows` of `ShardLifecycle` is needed to break
what, as theorems about states in which the others did not happen.

## Running

    tlc -config ShardWAL_stream.cfg MCShardWAL
    tlapm ShardWAL_proofs.tla

and likewise for the other `_proofs` modules.

`PROJECT.json` gives the module and configuration of each run, the source lines
of each definition, and the mutant each property is tested with.
