----------------------------- MODULE TimeRanges -----------------------------
(***************************************************************************)
(* Which second-layer shards a search reads.                               *)
(*                                                                         *)
(* A first-layer shard keeps its documents in second-layer shards; only    *)
(* the newest takes new documents, and the time range of each decides      *)
(* whether a search has to read it (pkg/core/index_shards.go,              *)
(* GetReaders).  The range of the newest shard is collected in the         *)
(* first-layer shard while documents are built (SetTimestamp), copied to   *)
(* the newest shard after they are written (index.go,                      *)
(* UpdateMetadataByShard) or when it is closed for writing (NewShard), and *)
(* stored with the index at the end of the tick.                           *)
(*                                                                         *)
(* One first-layer shard.  The WAL and its redo log are in ShardWAL: here  *)
(* a tick takes the queue in chunks, and a chunk that was not committed is *)
(* taken again, also when its documents were written.  A time is a number  *)
(* and 0 is "not set", as in the code.                                     *)
(*                                                                         *)
(* `cover` is history: a document that was written is `collected` once its *)
(* time is in the first-layer shard's range, `covered` once that range is  *)
(* the newest shard's, and `missed` if neither will happen.  What is saved *)
(* has such a history of its own, for a restart.                           *)
(***************************************************************************)
EXTENDS Naturals, Sequences, FiniteSetsExt

CONSTANTS
    Docs,          \* document IDs
    MaxTime,       \* bound: @timestamp is in 1 .. MaxTime
    MaxShards,     \* bound: second-layer shards
    MaxWrites,     \* bound: writes accepted
    MaxFaults,     \* bound: errors met by the tick
    MaxCrashes     \* bound: process crashes

ASSUME BoundsAssumption ==
    /\ MaxTime \in Nat \ {0} /\ MaxShards \in Nat \ {0}
    /\ MaxWrites \in Nat /\ MaxFaults \in Nat /\ MaxCrashes \in Nat

VARIABLES
    place,     \* where each document is stored, and with which time
    queue,     \* WAL entries that are not consumed
    first,     \* time range collected in the first-layer shard
    ranges,    \* time ranges of the second-layer shards, oldest first
    cover,     \* history: what the ranges know of each document
    saved,     \* these three, as they are in the metadata store
    pc,        \* where the tick is
    taken,     \* entries of the queue in the current chunk
    todo,      \* shards the chunk is still to be written to
    late,      \* history: a document came that is older than an older shard
    writes, faults, crashes    \* counters for the bounds

chunkVars == <<taken, todo>>
counters == <<writes, faults, crashes>>
vars == <<place, queue, first, ranges, cover, saved, pc, chunkVars, late, counters>>

Times == 1 .. MaxTime
Unset == [min |-> 0, max |-> 0]
Range2 == [min : 0 .. MaxTime, max : 0 .. MaxTime]
Nowhere == [shard |-> 0, time |-> 0]
Covers == [Docs -> {"collected", "covered", "missed"}]
NoCover == [d \in Docs |-> "missed"]

Latest == Len(ranges)      \* GetLatestShardID, counted from 1
NeedUpdate == 0            \* ShardIDNeedUpdate: newest shard, deleted elsewhere

Init ==
    /\ place = [d \in Docs |-> Nowhere] /\ queue = <<>>
    /\ first = Unset /\ ranges = <<Unset>> /\ cover = NoCover
    /\ saved = [first |-> Unset, ranges |-> <<Unset>>, cover |-> NoCover]
    /\ pc = "idle" /\ taken = 0 /\ todo = {} /\ late = FALSE
    /\ writes = 0 /\ faults = 0 /\ crashes = 0

-----------------------------------------------------------------------------
(* Writes.                                                                 *)

\* Entries of one document that wait for different shards are written in any
\* order, which is ShardWAL's subject and is left out here.
Accept(d, t, sh, del) ==
    /\ writes < MaxWrites
    /\ \A i \in DOMAIN queue : queue[i].doc = d => queue[i].shard = sh
    /\ writes' = writes + 1
    /\ queue' = Append(queue, [doc |-> d, time |-> t, shard |-> sh, del |-> del])
    /\ UNCHANGED <<place, first, ranges, cover, saved, pc, chunkVars, late, faults, crashes>>

\* CreateDocument with update, as the stream and the bulk API write; a new
\* document of the insert API ends in the newest shard too.
CreateDocument == \E d \in Docs, t \in Times : Accept(d, t, NeedUpdate, FALSE)

\* UpdateDocument and DeleteDocument go to the shard that holds the document when
\* the request is served.  A deletion too is built with a time, the current one.
UpdateDocument ==
    \E d \in Docs, t \in Times :
        place[d].shard \in 1 .. Latest /\ Accept(d, t, place[d].shard, FALSE)

DeleteDocument ==
    \E d \in Docs, t \in Times :
        place[d].shard \in 1 .. Latest /\ Accept(d, t, place[d].shard, TRUE)

-----------------------------------------------------------------------------
(* A tick: ConsumeWAL of the shard, then the index is stored.              *)

Fault == faults < MaxFaults /\ faults' = faults + 1 /\ UNCHANGED <<writes, crashes>>

\* The next chunk; where it ends depends on BatchSize and MaxBatchSize.
Take ==
    /\ pc \in {"idle", "committed"}
    /\ \E n \in 1 .. Len(queue) : taken' = n /\ todo' = {queue[i].shard : i \in 1 .. n}
    /\ pc' = "write"
    /\ UNCHANGED <<place, queue, first, ranges, cover, saved, late, counters>>

\* Entries of one document in one chunk are merged: the last one counts.
Merged(n) == {queue[i] : i \in {k \in 1 .. n : \A j \in k + 1 .. n : queue[j].doc # queue[k].doc}}

\* The entries that wait for shard g.
Group(g) == {e \in Merged(taken) : e.shard = g}
Target(g) == IF g = NeedUpdate THEN Latest ELSE g

\* SetTimestamp for every time of a set.
Widened(r, times) ==
    IF times = {} THEN r
    ELSE IF r.min = 0 THEN [min |-> Min(times), max |-> Max(times)]
    ELSE [min |-> Min(times \cup {r.min}), max |-> Max(times \cup {r.max})]

\* A time before the end of an older shard's range: the newest shard then
\* begins too early, and GetReaders stops there.
TooOld(t) == \E i \in 1 .. Latest - 1 : t < ranges[i].max

\* BuildBlugeDocumentFromJSON of these entries.
Build(entries) ==
    LET times == {e.time : e \in entries} IN
    /\ first' = Widened(first, times)
    /\ late' = (late \/ \E t \in times : TooOld(t))

\* What becomes of the document of entry e.
PlaceOf(e) == IF e.del THEN Nowhere ELSE [shard |-> Target(e.shard), time |-> e.time]

\* One group is built and its batch written: the documents can be found.  Only
\* the newest shard's range is collected.
WriteToShard(g) ==
    /\ pc = "write" /\ g \in todo /\ g <= Latest
    /\ Build(Group(g))
    /\ LET Written(d) == \E e \in Group(g) : e.doc = d IN
        /\ place' = [d \in Docs |->
               IF Written(d) THEN PlaceOf(CHOOSE e \in Group(g) : e.doc = d) ELSE place[d]]
        /\ cover' = [d \in Docs |->
               IF ~Written(d) THEN cover[d] ELSE IF Target(g) = Latest THEN "collected" ELSE "missed"]
        /\ saved' = [saved EXCEPT !.cover =
               [d \in Docs |-> IF Written(d) THEN "missed" ELSE saved.cover[d]]]
    /\ todo' = todo \ {g}
    /\ UNCHANGED <<queue, ranges, pc, taken, counters>>

\* The tick ends for this shard without a store; the chunk is taken again later.
GiveUp == pc' = "idle" /\ taken' = 0 /\ todo' = {}

\* A group is not written, before or after it was built.
WriteFails ==
    /\ pc = "write" /\ Fault
    /\ \E g \in todo : Build(Group(g)) \/ UNCHANGED <<first, late>>
    /\ GiveUp
    /\ UNCHANGED <<place, queue, ranges, cover, saved>>

\* The shard was forgotten with a crash: GetWriter does not find it.
ShardMissing ==
    /\ pc = "write" /\ \E g \in todo : g > Latest
    /\ GiveUp
    /\ UNCHANGED <<place, queue, first, ranges, cover, saved, late, counters>>

\* Everything is written and the commit cannot be recorded in the redo log.
CommitFails ==
    /\ pc = "write" /\ todo = {} /\ Fault
    /\ GiveUp
    /\ UNCHANGED <<place, queue, first, ranges, cover, saved, late>>

\* A mutant of CommitChunk: the chunk is not reset.
CommitChunk_keepsTaken ==
    /\ pc = "write" /\ todo = {} /\ pc' = "committed"
    /\ queue' = SubSeq(queue, taken + 1, Len(queue))
    /\ UNCHANGED <<place, first, ranges, cover, saved, chunkVars, late, counters>>

CommitChunk ==
    /\ pc = "write" /\ todo = {} /\ pc' = "committed"
    /\ queue' = SubSeq(queue, taken + 1, Len(queue)) /\ taken' = 0
    /\ UNCHANGED <<place, first, ranges, cover, saved, todo, late, counters>>

Fits ==
    /\ pc = "committed" /\ pc' = "checked"
    /\ UNCHANGED <<place, queue, first, ranges, cover, saved, chunkVars, late, counters>>

\* The WAL is not truncated or the newest shard's size cannot be read:
\* UpdateMetadataByShard is not called.
CheckFails ==
    /\ pc = "committed" /\ pc' = "store" /\ Fault
    /\ UNCHANGED <<place, queue, first, ranges, cover, saved, chunkVars, late>>

\* NewShard hands the collected range to the shard it closes for writing.
ClosedOff == Append([ranges EXCEPT ![Latest] = first], Unset)

Copied == [d \in Docs |-> IF cover[d] = "collected" THEN "covered" ELSE cover[d]]

NewShard ==
    /\ pc = "committed" /\ Latest < MaxShards
    /\ ranges' = ClosedOff /\ first' = Unset /\ cover' = Copied
    /\ saved' = [first |-> first', ranges |-> ranges', cover |-> cover']
    /\ pc' = "checked"
    /\ UNCHANGED <<place, queue, chunkVars, late, counters>>

\* storeIndex fails: the shard exists in memory only, and the tick goes on.
NewShardFails ==
    /\ pc = "committed" /\ Latest < MaxShards /\ Fault
    /\ ranges' = ClosedOff /\ first' = Unset /\ cover' = Copied
    /\ pc' = "store"
    /\ UNCHANGED <<place, queue, saved, chunkVars, late>>

UpdateMetadataByShard ==
    /\ pc = "checked" /\ pc' = "store"
    /\ ranges' = [ranges EXCEPT ![Latest] = first] /\ cover' = Copied
    /\ UNCHANGED <<place, queue, first, saved, chunkVars, late, counters>>

StoreIndex == saved' = [first |-> first, ranges |-> ranges, cover |-> cover]

\* UpdateMetadata at the end of the tick.
Store ==
    /\ pc = "store" /\ pc' = "idle"
    /\ StoreIndex
    /\ UNCHANGED <<place, queue, first, ranges, cover, chunkVars, late, counters>>

\* The error is ignored.
StoreFails ==
    /\ pc = "store" /\ pc' = "idle" /\ Fault
    /\ UNCHANGED <<place, queue, first, ranges, cover, saved, chunkVars, late>>

\* Another first-layer shard of the index gets a new shard in the same tick.
StoreElsewhere ==
    /\ pc # "idle"
    /\ StoreIndex
    /\ UNCHANGED <<place, queue, first, ranges, cover, pc, chunkVars, late, counters>>

\* The process restarts: LoadZincIndexesFromMetadata.
Restart ==
    /\ crashes < MaxCrashes /\ crashes' = crashes + 1
    /\ first' = saved.first /\ ranges' = saved.ranges /\ cover' = saved.cover
    /\ GiveUp
    /\ UNCHANGED <<place, queue, saved, late, writes, faults>>

Next ==
    \/ CreateDocument \/ UpdateDocument \/ DeleteDocument
    \/ Take \/ \E g \in 0 .. MaxShards : WriteToShard(g)
    \/ WriteFails \/ ShardMissing \/ CommitChunk \/ CommitFails
    \/ Fits \/ CheckFails \/ NewShard \/ NewShardFails
    \/ UpdateMetadataByShard \/ Store \/ StoreFails \/ StoreElsewhere
    \/ Restart

Spec == Init /\ [][Next]_vars

-----------------------------------------------------------------------------
(* Searches.  A query is a range of @timestamp, something else, or a bool  *)
(* query of these; a bound of 0 is absent.                                 *)

Leaves == [op : {"range"}, min : 0 .. MaxTime, max : 0 .. MaxTime] \cup {[op |-> "other"]}

\* Clauses of a bool query that can bound the time: must and filter count
\* alike; must_not is skipped.
Clauses == {{}} \cup {{k, l} : k, l \in Leaves}
Bools == [op : {"bool"}, must : Clauses, should : Clauses]

\* timerange.RangeQuery
LeafRange(q) == IF q.op = "range" THEN [min |-> q.min, max |-> q.max] ELSE Unset

\* timerange.Query: of a bool query the bound of one clause, by the order in
\* which Go walks over the map.  Clauses in a list are tried until one bounds the
\* time; a clause that stands alone decides, also when it has no bound.
QueryRanges(q) ==
    IF q.op # "bool" THEN {LeafRange(q)}
    ELSE IF q.must \cup q.should = {} THEN {Unset}
    ELSE {LeafRange(l) : l \in q.must \cup q.should}

\* GetReaders leaves out a shard whose range is known to be outside, and looks at
\* no older shard once it has read one that begins before the search does.
Skipped(i, r) ==
    \/ r.min > 0 /\ ranges[i].max > 0 /\ ranges[i].max < r.min
    \/ r.max > 0 /\ ranges[i].min > 0 /\ ranges[i].min > r.max

\* A mutant of EndsAt: a shard that begins when the search does ends it too.
EndsAt_equal(i, r) == ~Skipped(i, r) /\ ranges[i].min > 0 /\ ranges[i].min <= r.min

EndsAt(i, r) == ~Skipped(i, r) /\ ranges[i].min > 0 /\ ranges[i].min < r.min

GetReaders(r) ==
    {i \in 1 .. Latest : ~Skipped(i, r) /\ \A j \in i + 1 .. Latest : ~EndsAt(j, r)}

\* Whether a document with time t may be an answer; a should clause is needed
\* only when there is no must.
LeafMatches(q, t) == q.op = "other" \/ ((q.min > 0 => t >= q.min) /\ (q.max > 0 => t <= q.max))

Matches(q, t) ==
    IF q.op # "bool" THEN LeafMatches(q, t)
    ELSE IF q.must # {} THEN \A l \in q.must : LeafMatches(l, t)
    ELSE \E l \in q.should : LeafMatches(l, t)

\* A should clause that bounds the time although a document may be an answer
\* without it: timerange.Query takes it for a bound of the whole query.
OptionalBound(q) ==
    /\ q.op = "bool" /\ (q.must # {} \/ Cardinality(q.should) > 1)
    /\ \E l \in q.should : LeafRange(l) # Unset

\* The bounds a search may read with that has a document with this time for an
\* answer.
SearchedFor ==
    [t \in Times |->
        UNION {QueryRanges(q) : q \in {x \in Leaves \cup Bools : ~OptionalBound(x) /\ Matches(x, t)}}]

-----------------------------------------------------------------------------
(* Properties.                                                             *)

\* The state is what the shard and the metadata store keep; the tick took no more
\* entries than the queue holds, and there is always a shard to write to.
TypeOK ==
    /\ place \in [Docs -> [shard : 0 .. MaxShards, time : 0 .. MaxTime]]
    /\ queue \in Seq([doc : Docs, time : Times, shard : 0 .. MaxShards, del : BOOLEAN])
    /\ first \in Range2 /\ Latest \in 1 .. MaxShards /\ ranges \in Seq(Range2) /\ cover \in Covers
    /\ saved.first \in Range2 /\ Len(saved.ranges) \in 1 .. MaxShards /\ saved.cover \in Covers
    /\ pc \in {"idle", "write", "committed", "checked", "store"}
    /\ taken \in 0 .. Len(queue) /\ todo \subseteq 0 .. MaxShards /\ late \in BOOLEAN
    /\ writes \in 0 .. MaxWrites /\ faults \in 0 .. MaxFaults /\ crashes \in 0 .. MaxCrashes

\* At any time every search reads the shard of each of its answers that is
\* covered: one whose time reached the range of the newest shard since it was
\* written, and was not lost with a crash before the index was stored.  This holds
\* after any errors and restarts, unless a document came that is older than an
\* older shard or the query has an optional bound.
ReadsEveryAnswer ==
    ~late =>
        \A d \in Docs : place[d] # Nowhere /\ cover[d] = "covered" =>
            \A r \in SearchedFor[place[d].time] : place[d].shard \in GetReaders(r)
=============================================================================
