------------------------------ MODULE ShardWAL ------------------------------
(***************************************************************************)
(* One first-layer shard of an index: its write-ahead log, its redo log,   *)
(* the goroutine that moves WAL entries into the second-layer shards, and  *)
(* the rollback that runs when the WAL is opened again after a crash       *)
(* (pkg/core/index_shards_wal.go, pkg/wal, pkg/core/index_document.go).    *)
(*                                                                         *)
(* A document's content is abstracted to the number of the write that      *)
(* produced it, so two versions of a document can be told apart and        *)
(* compared.  A second-layer shard maps a document ID to the sequence of   *)
(* versions stored under it: <<>> is absent, more than one element is a    *)
(* duplicate, which batch.Insert can create and batch.Update cannot.       *)
(*                                                                         *)
(* An operator with an underscore in its name, such as Truncate_all, is a   *)
(* faulty variant of the operator that follows it.  No specification uses  *)
(* it; it shows that a property would notice the fault.                    *)
(*                                                                         *)
(* Simplifications: a document that fails to build (mapping conflict) and  *)
(* the statistics refreshed at the end of a tick are left out; a batch     *)
(* that the index library accepted is durable.                             *)
(***************************************************************************)
EXTENDS Integers, Sequences, FiniteSetsExt

CONSTANTS
    Docs,          \* document IDs that hash to this shard
    BatchSize,     \* config.Global.BatchSize: documents per index batch
    MaxBatchSize,  \* WAL entries one tick takes at most
    Word,          \* 2^64, the modulus of uint64 subtraction
    MaxShards,     \* bound: second-layer shards
    MaxCopies,     \* bound: copies of a document in one second-layer shard
    MaxWrites,     \* bound: documents accepted
    MaxFaults,     \* bound: I/O errors met by the WAL consumer or the rollback
    MaxCrashes,    \* bound: process crashes
    PowerLoss      \* whether a crash may lose WAL entries not yet fsynced

ASSUME ConstantsAssumption ==
    /\ BatchSize \in Nat \ {0}
    /\ MaxBatchSize \in Nat \ {0}
    /\ Word \in Nat \ {0}
    /\ MaxShards \in Nat \ {0}
    /\ MaxCopies \in Nat \ {0}
    /\ MaxWrites \in Nat
    /\ MaxFaults \in Nat
    /\ MaxCrashes \in Nat
    /\ PowerLoss \in BOOLEAN

NeedLatest == -1   \* ShardIDNeedLatest
NeedUpdate == -2   \* ShardIDNeedUpdate
Absent     == <<0, 0>>   \* a redo record that was never written

Insert == "insert"
Update == "update"
Delete == "delete"

VARIABLES
    log,       \* every WAL entry ever written; its index is the WAL ID
    first,     \* FirstIndex of the WAL: older entries were truncated
    synced,    \* entries 1..synced of the WAL are fsynced
    redo,      \* the redo log as the process sees it: read and write ranges
    redoDisk,  \* the redo log in its file
    shardNum,  \* second-layer shards, numbered from 0
    shardStored, \* ShardNum as the metadata has it
    idx,       \* what each second-layer shard stores for each document
    open,      \* s.open: OpenWAL was called since the process started
    listed,    \* the shard is in ZINC_INDEX_SHARD_WAL_LIST
    pc,        \* where the WAL goroutine is
    start,     \* startID of the chunk being written
    hi,        \* last ID of the chunk being written
    maxID,     \* last ID this tick takes
    todo,      \* groups of the chunk WriteTo has not written yet
    other,     \* next older shard whose copies the group's deletes remove
    writes,    \* documents accepted so far; the version of the next is writes+1
    faults,    \* I/O errors so far
    crashes,   \* crashes so far
    hidden,    \* history: documents a crash left in a shard the metadata does not know
    walCut     \* history: a power loss cost the WAL entries

walVars    == <<log, first, synced>>
redoVars   == <<redo, redoDisk>>
shardVars  == <<shardNum, shardStored>>
indexVars  == <<shardVars, idx>>
procVars   == <<open, listed>>
tickVars   == <<start, hi, maxID, todo, other>>
crashVars  == <<crashes, hidden, walCut>>
countVars  == <<writes, faults, crashVars>>
vars == <<walVars, redoVars, indexVars, procVars, pc, tickVars, countVars>>

ShardIDs == 0 .. MaxShards - 1
Groups   == {NeedLatest, NeedUpdate} \cup ShardIDs
Entries  == [doc : Docs, act : {Insert, Update, Delete}, sh : Groups, val : Nat]
Ranges   == Nat \X Nat

LastIndex == Len(log)
Committed == redo.write[2]
Latest    == shardNum - 1           \* GetLatestShardID
Readable(i) == i \in first .. LastIndex

-----------------------------------------------------------------------------
(* walMergeDocs: the entries lo..hi, grouped by shard and document.        *)

GroupIDs(g, d, lo, h) == {i \in lo .. h : log[i].sh = g /\ log[i].doc = d}
GroupDocs(g, lo, h)   == {log[i].doc : i \in {j \in lo .. h : log[j].sh = g}}
GroupsOf(lo, h)       == {log[i].sh : i \in lo .. h}
MaxShardLen(lo, h)    == Max({Cardinality(GroupDocs(g, lo, h)) : g \in GroupsOf(lo, h)})

\* What the actions recorded for one document come to: only the first and the
\* last one count (the switch in WriteToShard).
Merged(firstAct, lastAct) ==
    IF firstAct = Insert
    THEN IF lastAct = Delete THEN "noop" ELSE Insert
    ELSE IF lastAct = Delete THEN Delete ELSE Update

MergedAction(g, d, lo, h) ==
    LET ids == GroupIDs(g, d, lo, h)
    IN  Merged(log[Min(ids)].act, log[Max(ids)].act)

\* doc.data is overwritten by every entry, so the last one is what is stored.
MergedData(g, d, lo, h) == log[Max(GroupIDs(g, d, lo, h))].val

\* batch applied by writer.Batch to the shard's content of every document
BatchOn(content, g, lo, h) ==
    [d \in Docs |->
        IF d \notin GroupDocs(g, lo, h) THEN content[d]
        ELSE LET a == MergedAction(g, d, lo, h)
                 v == MergedData(g, d, lo, h)
             IN  CASE a = Insert -> Append(content[d], v)
                   [] a = Update -> <<v>>
                   [] a = Delete -> <<>>
                   [] OTHER      -> content[d]]

OtherBatchOn_keeps(content, g, lo, h) == content

\* otherBatch: the deletes sent to every shard but the latest
OtherBatchOn(content, g, lo, h) ==
    [d \in Docs |->
        IF /\ d \in GroupDocs(g, lo, h)
           /\ MergedAction(g, d, lo, h) \in {Update, Delete}
        THEN <<>> ELSE content[d]]

\* the batch of WriteToShardRollback for a group with a shard of its own
RollbackOn(content, g, lo, h) ==
    [d \in Docs |->
        IF /\ d \in GroupDocs(g, lo, h)
           /\ log[Min(GroupIDs(g, d, lo, h))].act = Insert
        THEN <<>> ELSE content[d]]

\* ConsumeWAL reads on from lo: nothing up to i filled a group to BatchSize.
NotFull(lo, i) == \A j \in lo .. i : MaxShardLen(lo, j) < BatchSize

\* The chunk that starts at lo ends at h: a group is full, or the tick ends.
ChunkEnds(lo, h, last) ==
    /\ h = last \/ MaxShardLen(lo, h) >= BatchSize
    /\ NotFull(lo, h - 1)

-----------------------------------------------------------------------------
Init ==
    /\ log = <<>> /\ first = 1 /\ synced = 0
    /\ redo = [read |-> Absent, write |-> Absent] /\ redoDisk = redo
    /\ shardNum = 1 /\ shardStored = 1
    /\ idx = [s \in ShardIDs |-> [d \in Docs |-> <<>>]]
    /\ open = FALSE /\ listed = FALSE
    /\ pc = "idle"
    /\ start = 1 /\ hi = 0 /\ maxID = 0 /\ todo = {} /\ other = 0
    /\ writes = 0 /\ faults = 0 /\ crashes = 0
    /\ hidden = {} /\ walCut = FALSE

-----------------------------------------------------------------------------
(* Requests.  Each calls OpenWAL first, hence the guard on open.           *)

\* shard.wal.Write(data): FillID gives the entry the next ID; not fsynced.
WALWrite(d, act, sh) ==
    /\ open
    /\ writes < MaxWrites
    /\ writes' = writes + 1
    /\ log' = Append(log, [doc |-> d, act |-> act, sh |-> sh, val |-> writes + 1])
    /\ UNCHANGED <<first, synced, redoVars, indexVars, procVars, pc, tickVars,
                   faults, crashVars>>

\* second-layer shards in which FindShardByDocID can find the document
FindShardByDocID(d) == {s \in 0 .. Latest : idx[s][d] # <<>>}

\* CreateDocument(update = true): the caller named the document.
CreateNamed(d) == WALWrite(d, Update, NeedUpdate)

\* CreateDocument(update = false): the ID was generated, so nobody used it.
CreateGenerated(d) ==
    /\ FindShardByDocID(d) = {}
    /\ \A i \in 1 .. LastIndex : log[i].doc # d
    /\ WALWrite(d, Insert, NeedLatest)

\* UpdateDocument; `insert` lets it create a document that is not found.  The
\* document is looked up in the index, which lags behind the WAL.
UpdateDocument(d, insert) ==
    \/ \E s \in FindShardByDocID(d) : WALWrite(d, Update, s)
    \/ /\ FindShardByDocID(d) = {}
       /\ insert
       /\ WALWrite(d, Insert, NeedLatest)

DeleteDocument(d) == \E s \in FindShardByDocID(d) : WALWrite(d, Delete, s)

-----------------------------------------------------------------------------
(* Opening the WAL.                                                        *)

OpenWAL ==
    /\ ~open
    /\ open' = TRUE
    /\ redo' = redoDisk
    /\ pc' = "rollback"
    /\ UNCHANGED <<walVars, redoDisk, indexVars, listed, tickVars, countVars>>

TruncateFront_unchecked(id) == first' = id /\ synced' = Max({synced, id})

\* TruncateFront(id) keeps id as the first entry; it fails, changing nothing,
\* for an ID the WAL does not hold, and rewrites the file otherwise.
TruncateFront(id) ==
    IF Readable(id) /\ id # first
    THEN first' = id /\ synced' = Max({synced, id})
    ELSE UNCHANGED <<first, synced>>

RollbackNeeded == redo.read # Absent /\ redo.read # redo.write

\* What rolling back the redo range makes of the shards in S.
RolledBack(S) ==
    [s \in ShardIDs |-> IF s \in S /\ s \in GroupsOf(redo.read[1], redo.read[2])
                       THEN RollbackOn(idx[s], s, redo.read[1], redo.read[2])
                       ELSE idx[s]]

RedoReadable == \A i \in redo.read[1] .. redo.read[2] : Readable(i)
MissingShards(lo, h) == {g \in GroupsOf(lo, h) : g >= shardNum}

\* Rollback, then ZINC_INDEX_SHARD_WAL_LIST.Add.
Rollback ==
    /\ pc = "rollback"
    /\ \/ ~RollbackNeeded /\ UNCHANGED <<first, synced, idx>>
       \/ /\ RollbackNeeded /\ RedoReadable
          /\ MissingShards(redo.read[1], redo.read[2]) = {}
          /\ idx' = RolledBack(ShardIDs)
          /\ TruncateFront(redo.read[1] - 1)
    /\ listed' = TRUE
    /\ pc' = "idle"
    /\ UNCHANGED <<log, redoVars, shardVars, open, tickVars, countVars>>

\* An entry of the redo range cannot be read, the range names a shard that does
\* not exist any more, or a batch fails, after some groups in any order: OpenWAL
\* fails, and the shard stays open but not listed.
RollbackFails ==
    /\ pc = "rollback" /\ RollbackNeeded
    /\ \/ ~RedoReadable /\ UNCHANGED <<idx, faults>>
       \/ /\ RedoReadable
          /\ \E S \in SUBSET (0 .. Latest) : idx' = RolledBack(S)
          /\ \/ MissingShards(redo.read[1], redo.read[2]) # {} /\ UNCHANGED faults
             \/ faults < MaxFaults /\ faults' = faults + 1
    /\ pc' = "idle"
    /\ UNCHANGED <<walVars, redoVars, shardVars, procVars, tickVars, writes, crashVars>>

-----------------------------------------------------------------------------
(* ConsumeWAL, one tick of the WAL goroutine.                              *)

\* s.wal.Sync(); when it fails ConsumeWAL goes on all the same.
Sync ==
    /\ pc = "idle" /\ listed
    /\ \/ synced' = LastIndex /\ UNCHANGED faults
       \/ UNCHANGED synced /\ faults < MaxFaults /\ faults' = faults + 1
    /\ pc' = "bounds"
    /\ UNCHANGED <<log, first, redoVars, indexVars, procVars, tickVars, writes, crashVars>>

Bounds_leavesOne ==
    /\ pc = "bounds"
    /\ IF LastIndex <= Committed + 1
       THEN pc' = "idle" /\ UNCHANGED tickVars
       ELSE /\ maxID' = LastIndex
            /\ start' = Committed + 1
            /\ pc' = "read"
            /\ UNCHANGED <<hi, todo, other>>
    /\ UNCHANGED <<walVars, redoVars, indexVars, procVars, countVars>>

\* LastIndex and the redo log bound the tick; maxID - minID is unsigned.
Bounds ==
    /\ pc = "bounds"
    /\ IF Committed = LastIndex
       THEN pc' = "idle" /\ UNCHANGED tickVars
       ELSE /\ maxID' = IF (LastIndex - Committed) % Word > MaxBatchSize
                        THEN Committed + MaxBatchSize ELSE LastIndex
            /\ start' = Committed + 1
            /\ pc' = "read"
            /\ UNCHANGED <<hi, todo, other>>
    /\ UNCHANGED <<walVars, redoVars, indexVars, procVars, countVars>>

\* The chunk is read and announced with the redo write of RedoActionRead.
ReadChunk ==
    /\ pc = "read"
    /\ \E h \in start .. maxID :
        /\ \A i \in start .. h : Readable(i)
        /\ ChunkEnds(start, h, maxID)
        /\ hi' = h
        /\ redo' = [redo EXCEPT !.read = <<start, h>>]
        /\ redoDisk' = redo'
        /\ todo' = GroupsOf(start, h)
    /\ pc' = "write"
    /\ UNCHANGED <<walVars, indexVars, procVars, start, maxID, other, countVars>>

\* An entry of the chunk cannot be read: ConsumeWAL returns.
ReadFails ==
    /\ pc = "read"
    /\ \E i \in start .. maxID :
        /\ ~Readable(i)
        /\ \A j \in start .. i - 1 : Readable(j)
        /\ NotFull(start, i - 1)
    /\ pc' = "idle"
    /\ UNCHANGED <<walVars, redoVars, indexVars, procVars, tickVars, countVars>>

\* WriteToShard, first batch: the groups are taken in map order, i.e. any.
WriteToShard(g) ==
    LET s == IF g >= 0 THEN g ELSE Latest IN
    /\ pc = "write" /\ g \in todo /\ g < shardNum
    /\ idx' = [idx EXCEPT ![s] = BatchOn(@, g, start, hi)]
    /\ \A d \in Docs : Len(idx'[s][d]) <= MaxCopies
    /\ IF g = NeedUpdate /\ shardNum > 1
       THEN pc' = "others" /\ other' = 0 /\ UNCHANGED todo
       ELSE todo' = todo \ {g} /\ UNCHANGED <<pc, other>>
    /\ UNCHANGED <<walVars, redoVars, shardVars, procVars, start, hi, maxID, countVars>>

\* GetWriter finds no such shard: ConsumeWAL returns, now and at every tick.
ShardMissing ==
    /\ pc = "write" /\ \E g \in todo : g >= shardNum
    /\ pc' = "idle"
    /\ UNCHANGED <<walVars, redoVars, indexVars, procVars, tickVars, countVars>>

WriteToOther_latest ==
    /\ pc = "others"
    /\ idx' = [idx EXCEPT ![other] = OtherBatchOn(@, NeedUpdate, start, hi)]
    /\ IF other + 1 <= Latest
       THEN other' = other + 1 /\ UNCHANGED <<pc, todo>>
       ELSE pc' = "write" /\ todo' = todo \ {NeedUpdate} /\ UNCHANGED other
    /\ UNCHANGED <<walVars, redoVars, shardVars, procVars, start, hi, maxID, countVars>>

\* WriteToShard, otherWriters: one batch of deletes per older shard.
WriteToOther ==
    /\ pc = "others"
    /\ idx' = [idx EXCEPT ![other] = OtherBatchOn(@, NeedUpdate, start, hi)]
    /\ IF other + 1 < Latest
       THEN other' = other + 1 /\ UNCHANGED <<pc, todo>>
       ELSE pc' = "write" /\ todo' = todo \ {NeedUpdate} /\ UNCHANGED other
    /\ UNCHANGED <<walVars, redoVars, shardVars, procVars, start, hi, maxID, countVars>>

CommitChunk_unfinished ==
    /\ pc = "write"
    /\ redo' = [redo EXCEPT !.write = <<start, hi>>]
    /\ redoDisk' = redo'
    /\ start' = hi + 1
    /\ pc' = IF hi = maxID THEN "truncate" ELSE "read"
    /\ UNCHANGED <<walVars, indexVars, procVars, hi, maxID, todo, other, countVars>>

CommitChunk_repeats ==
    /\ pc = "write" /\ todo = {}
    /\ redo' = [redo EXCEPT !.write = <<start, hi>>]
    /\ redoDisk' = redo'
    /\ start' = hi
    /\ pc' = IF hi = maxID THEN "truncate" ELSE "read"
    /\ UNCHANGED <<walVars, indexVars, procVars, hi, maxID, todo, other, countVars>>

\* The redo write of RedoActionWrite: the chunk is committed.
CommitChunk ==
    /\ pc = "write" /\ todo = {}
    /\ redo' = [redo EXCEPT !.write = <<start, hi>>]
    /\ redoDisk' = redo'
    /\ start' = hi + 1
    /\ pc' = IF hi = maxID THEN "truncate" ELSE "read"
    /\ UNCHANGED <<walVars, indexVars, procVars, hi, maxID, todo, other, countVars>>

Truncate_all ==
    /\ pc = "truncate"
    /\ TruncateFront(LastIndex)
    /\ pc' = "check"
    /\ UNCHANGED <<log, redoVars, indexVars, procVars, tickVars, countVars>>

\* wal.TruncateFront(minID) at the end of the tick
Truncate ==
    /\ pc = "truncate"
    /\ TruncateFront(maxID)
    /\ pc' = "check"
    /\ UNCHANGED <<log, redoVars, indexVars, procVars, tickVars, countVars>>

\* storeIndex writes the metadata of the index, the number of shards with it.
StoreIndex ==
    \/ shardStored' = shardNum' /\ UNCHANGED faults
    \/ UNCHANGED shardStored /\ faults < MaxFaults /\ faults' = faults + 1

\* CheckShards: when the latest second-layer shard is full, NewShard adds one in
\* memory, then stores the index; its error ends ConsumeWAL, the shard stays.
CheckShards ==
    /\ pc = "check"
    /\ \/ UNCHANGED <<shardVars, faults>>
       \/ shardNum < MaxShards /\ shardNum' = shardNum + 1 /\ StoreIndex
    /\ pc' = "store"
    /\ UNCHANGED <<walVars, redoVars, idx, procVars, tickVars, writes, crashVars>>

\* UpdateMetadata after a ConsumeWAL that returned true; its error is ignored.
UpdateMetadata ==
    /\ pc = "store"
    /\ UNCHANGED shardNum /\ StoreIndex
    /\ pc' = "idle"
    /\ UNCHANGED <<walVars, redoVars, idx, procVars, tickVars, writes, crashVars>>

\* An I/O error anywhere in the tick: ConsumeWAL returns, true once everything
\* is committed, and the next tick starts over from the redo log.
ConsumeFails ==
    /\ pc \in {"read", "write", "others", "truncate", "check"}
    /\ faults < MaxFaults
    /\ faults' = faults + 1
    /\ pc' = IF pc \in {"truncate", "check"} THEN "store" ELSE "idle"
    /\ UNCHANGED <<walVars, redoVars, indexVars, procVars, tickVars, writes, crashVars>>

\* redo.Log.Write changes its memory before the file: when writing the file
\* fails the process goes on with a record the file does not have.
RedoWriteFails ==
    /\ faults < MaxFaults
    /\ faults' = faults + 1
    /\ \/ /\ pc = "read"
          /\ \E h \in start .. maxID :
              /\ \A i \in start .. h : Readable(i)
              /\ ChunkEnds(start, h, maxID)
              /\ redo' = [redo EXCEPT !.read = <<start, h>>]
       \/ /\ pc = "write" /\ todo = {}
          /\ redo' = [redo EXCEPT !.write = <<start, hi>>]
    /\ pc' = "idle"
    /\ UNCHANGED <<walVars, redoDisk, indexVars, procVars, tickVars, writes, crashVars>>

\* The documents that have a copy in a shard the metadata does not know.
Unknown == {d \in Docs : \E s \in ShardIDs : s >= shardStored /\ idx[s][d] # <<>>}

Crash_forgetsShards ==
    /\ open
    /\ crashes < MaxCrashes
    /\ crashes' = crashes + 1
    /\ UNCHANGED log
    /\ shardNum' = 1
    /\ UNCHANGED <<hidden, walCut>>
    /\ open' = FALSE /\ listed' = FALSE
    /\ pc' = "idle"
    /\ UNCHANGED <<first, synced, redoVars, shardStored, idx, tickVars, writes, faults>>

\* The process dies and the index is loaded again, with the number of shards in
\* its metadata; the directory of a forgotten shard stays, and is found again
\* when a shard of its number is added.  Loading opens no WAL.  What the process
\* handed to the operating system survives unless the machine loses power, which
\* may cost the WAL its tail that is not fsynced.
Crash ==
    /\ open
    /\ crashes < MaxCrashes
    /\ crashes' = crashes + 1
    /\ \/ UNCHANGED log
       \/ /\ PowerLoss
          /\ \E n \in synced .. LastIndex : log' = SubSeq(log, 1, n)
    /\ walCut' = (walCut \/ log' # log)
    /\ shardNum' = shardStored
    /\ hidden' = hidden \cup Unknown
    /\ open' = FALSE /\ listed' = FALSE
    /\ pc' = "idle"
    /\ UNCHANGED <<first, synced, redoVars, shardStored, idx, tickVars, writes, faults>>

-----------------------------------------------------------------------------
Consume ==
    \/ Sync \/ Bounds \/ ReadChunk \/ ReadFails
    \/ \E g \in Groups : WriteToShard(g)
    \/ ShardMissing \/ WriteToOther \/ CommitChunk \/ Truncate
    \/ CheckShards \/ UpdateMetadata

\* What happens to the shard whatever is written to it.
Environment ==
    \/ OpenWAL \/ Rollback \/ RollbackFails
    \/ Consume \/ ConsumeFails \/ RedoWriteFails \/ Crash

\* A shard fed by the replication stream: every document is named.
StreamNext == Environment \/ \E d \in Docs : CreateNamed(d)

\* A shard written through the HTTP API as well.
Next ==
    \/ Environment
    \/ \E d \in Docs :
        \/ CreateNamed(d)
        \/ CreateGenerated(d)
        \/ \E insert \in BOOLEAN : UpdateDocument(d, insert)
        \/ DeleteDocument(d)

\* The goroutine of the WAL list ticks for ever, and a request that opened the
\* WAL rolls back.  Nothing but a request opens it: OpenWAL is not fair.
Fairness == WF_vars(Rollback \/ RollbackFails) /\ WF_vars(Consume)

Spec       == Init /\ [][Next]_vars
StreamSpec == Init /\ [][StreamNext]_vars
FairStreamSpec == StreamSpec /\ Fairness
FairSpec   == Spec /\ Fairness

-----------------------------------------------------------------------------
(* Properties.                                                             *)

\* The variables are what index_shards.go and redo.go declare: IDs and counters
\* that never go below zero, a WAL whose first ID is positive, and a shard
\* count between one and the shards that exist, of which the metadata knows no
\* more than the process.
TypeOK ==
    /\ log \in Seq(Entries)
    /\ first \in Nat \ {0} /\ synced \in Nat
    /\ redo \in [read : Ranges, write : Ranges]
    /\ redoDisk \in [read : Ranges, write : Ranges]
    /\ shardNum \in 1 .. MaxShards /\ shardStored \in 1 .. shardNum
    /\ idx \in [ShardIDs -> [Docs -> Seq(Nat)]]
    /\ open \in BOOLEAN /\ listed \in BOOLEAN
    /\ pc \in {"idle", "rollback", "bounds", "read", "write", "others", "truncate", "check",
              "store"}
    /\ start \in Nat \ {0} /\ hi \in Nat /\ maxID \in Nat
    /\ todo \subseteq Groups /\ other \in Nat
    /\ writes \in Nat /\ faults \in Nat /\ crashes \in Nat
    /\ hidden \subseteq Docs /\ walCut \in BOOLEAN

\* What document d holds once entries 1..n are applied one by one.
Replay(n, d) ==
    LET ids == {i \in 1 .. n : log[i].doc = d}
    IN  IF ids = {} \/ log[Max(ids)].act = Delete THEN <<>> ELSE <<log[Max(ids)].val>>

\* Document d is stored exactly as c, in one second-layer shard.
Shows(d, c) ==
    \E s \in 0 .. Latest : /\ idx[s][d] = c
                           /\ \A t \in ShardIDs \ {s} : idx[t][d] = <<>>

NoEntryAfter(w, d) == \A i \in w + 1 .. LastIndex : log[i].doc # d

\* Every document without an entry after WAL position w is stored once, in
\* its last version, unless a crash left a copy where nobody finds it.
ExactUpTo(w) == \A d \in Docs \ hidden : NoEntryAfter(w, d) => Shows(d, Replay(w, d))

\* The positions that are committed: for a process that starts now, and for the
\* one that runs.
CommitPositions == {redoDisk.write[2]} \cup (IF open THEN {Committed} ELSE {})

\* A document of a stream-fed shard that has no uncommitted WAL entry is
\* stored exactly once and in its last version at every moment: in the middle
\* of a batch of other documents, after a batch that failed half way, after a
\* shard was added whose storing failed, and after a crash (redoDisk is what a
\* restarted process resumes from).  With nothing pending that is every document,
\* which is what WALPending = 0 is taken to mean by PauseAndDrain and by
\* backup.Create.  Two losses are excepted, each recorded where it happens: WAL
\* entries that went with the power, and documents in a shard that a crash made
\* the index forget because every attempt to store it had failed.
CommittedDocsExact == walCut \/ \A w \in CommitPositions : ExactUpTo(w)

\* A document that was never deleted is found in some second-layer shard from
\* the commit of its first entry on, whatever requests were sent for it: an
\* insert and updates of it fall in different groups of a chunk, which are
\* written in any order, again after a crash, and move it between shards.  It
\* may be found twice, or in an older version (StoredAtMostOnce).
CommittedFindable ==
    walCut \/ \A w \in CommitPositions, d \in Docs \ hidden :
        /\ \E i \in 1 .. w : log[i].doc = d
        /\ \A i \in 1 .. LastIndex : log[i].doc = d => log[i].act # Delete
        => FindShardByDocID(d) # {}

\* WALPending of this shard
Pending == IF LastIndex > Committed THEN LastIndex - Committed ELSE 0

\* Entries that are not committed are still in the WAL: neither the truncation
\* after a tick nor the one after a rollback removes an entry that ConsumeWAL
\* still has to read, whichever redo record the process resumes from.
UncommittedRetained == \A w \in CommitPositions : \A i \in w + 1 .. LastIndex : Readable(i)

\* The commit position moves by whole chunks that follow each other: ConsumeWAL
\* commits no entry twice and leaves none out, however ticks are cut into
\* chunks, aborted and repeated.
CommitsAreContiguous ==
    [][redo'.write # redo.write /\ open => redo'.write[1] = Committed + 1]_vars

NewestVersion(d) ==
    Max({0} \cup UNION {{idx[s][d][i] : i \in DOMAIN idx[s][d]} : s \in 0 .. Latest})

\* A reader of a stream-fed shard never sees a document vanish or go back to
\* an older version, although an update moves it to the latest second-layer
\* shard in two batches, a crash makes entries apply again, and the shards a
\* reader looks at are fewer after a crash.  The exceptions are the two losses
\* of CommittedDocsExact.
VersionsOnlyGrow ==
    [][walCut' \/ \A d \in Docs \ hidden' : NewestVersion(d)' >= NewestVersion(d)]_vars

\* OpenWAL failed in the rollback: the shard takes entries that nothing consumes.
OpenFailed == open /\ ~listed /\ pc = "idle"

\* Every entry of an open WAL is committed some day, after any number of failed
\* batches, once these stop.  The process may die first, and then the entry waits
\* until a request opens the WAL again; or opening it fails for good.
EntriesEventuallyCommitted ==
    \A n \in 1 .. MaxWrites :
        (open /\ LastIndex >= n) ~> (Committed >= n \/ ~open \/ OpenFailed)

\* What the documentation of WALPending says of the documents: when it is zero
\* every accepted document is searchable, i.e. its last accepted version (or a
\* later one) is in the index.  It does not hold: with PowerLoss the redo log can
\* be ahead of a WAL that lost its tail, and without it a crash can forget a
\* shard whose number was never stored.
DrainedDocsSearchable ==
    open /\ Pending = 0 => \A i \in 1 .. LastIndex : NewestVersion(log[i].doc) >= log[i].val

\* WriteTo merges the actions of a document: after a tick that committed
\* everything a document is stored at most once.  It does not hold for Spec: an
\* insert and an update in one chunk are two groups, written in any order.
StoredAtMostOnce ==
    open /\ pc = "idle" /\ Pending = 0 =>
        \A d \in Docs : \E c \in {<<>>} \cup {<<v>> : v \in 1 .. writes} : Shows(d, c)
=============================================================================
