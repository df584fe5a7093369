--------------------------- MODULE ShardWAL_proofs ---------------------------
(***************************************************************************)
(* Proofs about ShardWAL, for every value of its constants.                *)
(*                                                                         *)
(* The first part is about Spec, i.e. every request, fault and crash, with *)
(* and without power loss.  CtlInv ties the position of the WAL goroutine  *)
(* to the two copies of the redo log, and is inductive together with       *)
(* TypeOK.  FindInv, also about every request, says where committed        *)
(* documents are found.  The other parts are about a shard fed by the      *)
(* replication stream: StreamInv for the documents that are committed,     *)
(* GrowInv for those that are not yet.  These three hold until a power     *)
(* loss costs the WAL entries (walCut).                                    *)
(***************************************************************************)
EXTENDS ShardWAL, FiniteSetTheorems, WellFoundedInduction, TLAPS

-----------------------------------------------------------------------------
(* Minimum and maximum of sets of WAL IDs.                                 *)

Below == {p \in Nat \X Nat : p[1] < p[2]}

\* The order of the natural numbers has no infinite descent.
LEMMA BelowWF == IsWellFoundedOn(Below, Nat)
  BY NatLessThanWellFounded DEF OpToRel, Below

\* The Min that WriteToShard takes for the first action of a document exists.
LEMMA MinOfNats ==
  ASSUME NEW S \in SUBSET Nat, S # {}
  PROVE  Min(S) \in S /\ \A y \in S : Min(S) <= y
<1>1. PICK x \in S : \A y \in S : ~ (<<y, x>> \in Below)
  BY BelowWF, WFMin, Zenon
<1>2. ASSUME NEW y \in S PROVE x <= y
  <2>1. x \in Nat /\ y \in Nat
    OBVIOUS
  <2>2. ~ (y < x)
    BY <1>1, <2>1 DEF Below
  <2> QED
    BY <2>1, <2>2
<1> QED
  BY <1>2 DEF Min

\* The Max that WriteToShard takes for the last action of a document exists.
LEMMA MaxOfInterval ==
  ASSUME NEW n \in Nat, NEW S \in SUBSET (1 .. n), S # {}
  PROVE  Max(S) \in S /\ \A y \in S : Max(S) >= y
<1> DEFINE T == {n - i : i \in S}
<1>1. T \subseteq Nat /\ T # {}
  <2>1. \A i \in S : n - i \in Nat
    OBVIOUS
  <2>2. PICK i \in S : TRUE
    OBVIOUS
  <2>3. n - i \in T
    BY <2>2
  <2> QED
    BY <2>1, <2>3
<1>2. PICK x \in T : \A y \in T : x <= y
  <2>1. Min(T) \in T /\ \A y \in T : Min(T) <= y
    <3> HIDE DEF T
    <3> QED
      BY <1>1, MinOfNats
  <2> QED
    BY <2>1
<1>3. PICK m \in S : x = n - m
  OBVIOUS
<1>4. \A y \in S : m >= y
  BY <1>2, <1>3
<1> QED
  BY <1>4 DEF Max

\* TruncateFront moves `synced` to the larger of two positions.
LEMMA MaxOfTwo ==
  ASSUME NEW a \in Nat, NEW b \in Nat
  PROVE  Max({a, b}) \in Nat
<1>1. \E x \in {a, b} : \A y \in {a, b} : x >= y
  <2>1. CASE a >= b
    BY <2>1
  <2>2. CASE ~ (a >= b)
    BY <2>2
  <2> QED
    BY <2>1, <2>2
<1> QED
  BY <1>1 DEF Max

-----------------------------------------------------------------------------
(* What WriteToShard stores has the right type.                            *)

\* The entries of a document in a group of a chunk have a first and a last one.
LEMMA GroupIDsBound ==
  ASSUME NEW g, NEW d, NEW lo \in Nat \ {0}, NEW h \in Nat,
         d \in GroupDocs(g, lo, h)
  PROVE  /\ GroupIDs(g, d, lo, h) # {}
         /\ GroupIDs(g, d, lo, h) \in SUBSET (lo .. h)
         /\ GroupIDs(g, d, lo, h) \in SUBSET (1 .. h)
         /\ Max(GroupIDs(g, d, lo, h)) \in GroupIDs(g, d, lo, h)
         /\ \A i \in GroupIDs(g, d, lo, h) : Max(GroupIDs(g, d, lo, h)) >= i
         /\ Min(GroupIDs(g, d, lo, h)) \in GroupIDs(g, d, lo, h)
<1>1. GroupIDs(g, d, lo, h) # {}
  BY DEF GroupIDs, GroupDocs
<1>2. GroupIDs(g, d, lo, h) \in SUBSET (lo .. h)
  BY DEF GroupIDs
<1>3. GroupIDs(g, d, lo, h) \in SUBSET (1 .. h)
  BY <1>2
<1>4. GroupIDs(g, d, lo, h) \in SUBSET Nat
  BY <1>3
<1> HIDE DEF GroupIDs
<1> QED
  BY <1>1, <1>2, <1>3, <1>4, MaxOfInterval, MinOfNats

\* The batch of WriteToShard keeps an index well typed.
LEMMA BatchOnType ==
  ASSUME NEW content \in [Docs -> Seq(Nat)], NEW g,
         NEW lo \in Nat \ {0}, NEW h \in Nat,
         log \in Seq(Entries), h <= Len(log)
  PROVE  BatchOn(content, g, lo, h) \in [Docs -> Seq(Nat)]
<1> SUFFICES ASSUME NEW d \in Docs, d \in GroupDocs(g, lo, h)
             PROVE  MergedData(g, d, lo, h) \in Nat
  BY DEF BatchOn
<1>1. Max(GroupIDs(g, d, lo, h)) \in 1 .. h
  BY GroupIDsBound
<1> HIDE DEF Max, GroupIDs
<1>2. log[Max(GroupIDs(g, d, lo, h))] \in Entries
  BY <1>1
<1> QED
  BY <1>2 DEF MergedData, Entries

-----------------------------------------------------------------------------
(* Control: where the goroutine is says what the redo log holds.           *)

\* A tick works on the chunk after the commit position; the records of the
\* chunk and of its commit are in memory and in the file alike; the WAL is
\* never truncated past what either copy of the redo log still needs.
CtlInv ==
    /\ listed => open
    /\ pc # "idle" => open
    /\ pc \in {"read", "write", "others"} => start = Committed + 1
    /\ pc \in {"write", "others"} => hi \in start .. LastIndex
    /\ pc \in {"rollback", "write", "others", "truncate"} => redo = redoDisk
    /\ pc = "truncate" => maxID = Committed
    /\ first <= redoDisk.write[2] + 1
    /\ open => first <= Committed + 1
    /\ redoDisk.read[1] <= redoDisk.write[2] + 1
    /\ open => redo.read[1] <= Committed + 1

Inv == TypeOK /\ CtlInv

\* A new shard satisfies the invariant.
LEMMA InitInv == Init => Inv
<1> SUFFICES ASSUME Init PROVE Inv
  OBVIOUS
<1>1. TypeOK
  <2>1. idx \in [ShardIDs -> [Docs -> Seq(Nat)]]
    BY DEF Init
  <2>2. redo \in [read : Ranges, write : Ranges] /\ redoDisk = redo
    BY DEF Init, Ranges, Absent
  <2>3. log \in Seq(Entries) /\ shardNum \in 1 .. MaxShards /\ shardStored \in 1 .. shardNum
    BY ConstantsAssumption DEF Init
  <2>4. /\ open \in BOOLEAN /\ listed \in BOOLEAN /\ todo \subseteq Groups
        /\ hidden \subseteq Docs /\ walCut \in BOOLEAN
    BY DEF Init
  <2> QED
    BY <2>1, <2>2, <2>3, <2>4 DEF Init, TypeOK
<1>2. CtlInv
  BY DEF Init, CtlInv, Committed, Absent, LastIndex
<1> QED
  BY <1>1, <1>2 DEF Inv

\* Appending an entry keeps the type of the log.
LEMMA WALWriteInv ==
  ASSUME Inv, NEW d \in Docs, NEW act \in {Insert, Update, Delete}, NEW sh \in Groups,
         WALWrite(d, act, sh)
  PROVE  Inv'
<1>1. [doc |-> d, act |-> act, sh |-> sh, val |-> writes + 1] \in Entries
  BY DEF Inv, TypeOK, Entries
<1>2. log' \in Seq(Entries) /\ Len(log') = Len(log) + 1 /\ Len(log) \in Nat
  BY <1>1 DEF Inv, TypeOK, WALWrite
<1>3. TypeOK'
  BY <1>2 DEF Inv, TypeOK, WALWrite, redoVars, indexVars, procVars, tickVars,
        shardVars, crashVars
<1>4. CtlInv'
  BY <1>2 DEF Inv, TypeOK, CtlInv, WALWrite, redoVars, procVars, tickVars, LastIndex, Committed
<1> QED
  BY <1>3, <1>4 DEF Inv

\* Every request appends one entry.
LEMMA RequestInv ==
  ASSUME Inv, NEW d \in Docs,
         \/ CreateNamed(d) \/ CreateGenerated(d) \/ DeleteDocument(d)
         \/ \E insert \in BOOLEAN : UpdateDocument(d, insert)
  PROVE  Inv'
<1>1. {NeedLatest, NeedUpdate} \subseteq Groups /\ FindShardByDocID(d) \subseteq Groups
  BY ConstantsAssumption DEF Inv, TypeOK, Groups, ShardIDs, FindShardByDocID, Latest
<1>2. \E act \in {Insert, Update, Delete}, sh \in Groups : WALWrite(d, act, sh)
  BY <1>1 DEF CreateNamed, CreateGenerated, DeleteDocument, UpdateDocument
<1> QED
  BY <1>2, WALWriteInv

\* TruncateFront moves the front to a position the WAL holds, or not at all.
LEMMA TruncateFrontType ==
  ASSUME TypeOK, NEW id \in Int, TruncateFront(id)
  PROVE  /\ first' \in Nat \ {0} /\ synced' \in Nat
         /\ first' = first \/ first' = id
<1>1. CASE Readable(id) /\ id # first
  <2>1. id \in Nat \ {0}
    BY <1>1 DEF TypeOK, Readable, LastIndex
  <2>2. Max({synced, id}) \in Nat
    BY <2>1, MaxOfTwo DEF TypeOK
  <2> QED
    BY <1>1, <2>1, <2>2 DEF TruncateFront
<1>2. CASE ~ (Readable(id) /\ id # first)
  BY <1>2 DEF TruncateFront, TypeOK
<1> QED
  BY <1>1, <1>2

\* The consumer's reads and writes of the redo log stay within their type.
LEMMA RecordType ==
  ASSUME TypeOK, NEW a \in Nat, NEW b \in Nat
  PROVE  /\ [redo EXCEPT !.read = <<a, b>>] \in [read : Ranges, write : Ranges]
         /\ [redo EXCEPT !.write = <<a, b>>] \in [read : Ranges, write : Ranges]
         /\ [redo EXCEPT !.read = <<a, b>>].read[1] = a
         /\ [redo EXCEPT !.read = <<a, b>>].write = redo.write
         /\ [redo EXCEPT !.write = <<a, b>>].write[1] = a
         /\ [redo EXCEPT !.write = <<a, b>>].write[2] = b
         /\ [redo EXCEPT !.write = <<a, b>>].read = redo.read
  BY DEF TypeOK, Ranges

\* Rolling back some shards keeps the index well typed.
LEMMA RolledBackType ==
  ASSUME TypeOK, NEW S
  PROVE  RolledBack(S) \in [ShardIDs -> [Docs -> Seq(Nat)]]
<1>1. \A s \in ShardIDs : idx[s] \in [Docs -> Seq(Nat)]
  BY DEF TypeOK
<1>2. \A s \in ShardIDs : RollbackOn(idx[s], s, redo.read[1], redo.read[2]) \in [Docs -> Seq(Nat)]
  BY <1>1 DEF RollbackOn
<1> QED
  BY <1>1, <1>2 DEF RolledBack

\* Opening the WAL and rolling back.
LEMMA OpenInv == Inv /\ (OpenWAL \/ Rollback \/ RollbackFails) => Inv'
<1> SUFFICES ASSUME Inv, OpenWAL \/ Rollback \/ RollbackFails PROVE Inv'
  OBVIOUS
<1> USE DEF Inv
<1>1. CASE OpenWAL
  <2>1. TypeOK'
    BY <1>1 DEF TypeOK, OpenWAL, walVars, indexVars, shardVars, tickVars, countVars, crashVars
  <2>2. CtlInv'
    BY <1>1 DEF TypeOK, CtlInv, OpenWAL, walVars, tickVars, Committed, LastIndex
  <2> QED
    BY <2>1, <2>2
<1>2. CASE Rollback
  <2> DEFINE lo == redo.read[1]
  <2>1. /\ lo \in Nat /\ redo = redoDisk /\ open /\ lo <= Committed + 1
        /\ redo.write[2] \in Nat
    BY <1>2 DEF Rollback, TypeOK, Ranges, CtlInv
  <2>2. /\ first' \in Nat \ {0} /\ synced' \in Nat
        /\ first' = first \/ first' = lo - 1
    <3>1. CASE UNCHANGED <<first, synced>>
      BY <3>1 DEF TypeOK
    <3>2. CASE TruncateFront(lo - 1)
      BY <2>1, <3>2, TruncateFrontType
    <3> QED
      BY <1>2, <3>1, <3>2 DEF Rollback
  <2>3. idx' \in [ShardIDs -> [Docs -> Seq(Nat)]]
    BY <1>2, RolledBackType DEF Rollback, TypeOK
  <2>4. open' \in BOOLEAN /\ listed' \in BOOLEAN /\ open' = open
    BY <1>2 DEF Rollback, TypeOK
  <2>5. TypeOK'
    BY <1>2, <2>2, <2>3, <2>4
    DEF Rollback, TypeOK, redoVars, shardVars, tickVars, countVars, crashVars
  <2>6. CtlInv'
    BY <1>2, <2>1, <2>2, <2>4
    DEF Rollback, TypeOK, CtlInv, redoVars, tickVars, Committed, LastIndex
  <2> QED
    BY <2>5, <2>6
<1>3. CASE RollbackFails
  <2>1. idx' \in [ShardIDs -> [Docs -> Seq(Nat)]]
    BY <1>3, RolledBackType DEF RollbackFails, TypeOK
  <2>2. faults' \in Nat
    BY <1>3 DEF RollbackFails, TypeOK
  <2>3. TypeOK'
    BY <1>3, <2>1, <2>2
    DEF RollbackFails, TypeOK, walVars, redoVars, shardVars, procVars, tickVars, crashVars
  <2>4. CtlInv'
    BY <1>3 DEF RollbackFails, TypeOK, CtlInv, walVars, redoVars, procVars, tickVars,
                Committed, LastIndex
  <2> QED
    BY <2>3, <2>4
<1> QED
  BY <1>1, <1>2, <1>3

\* Sync, Bounds, and the ways a chunk is read, or given up.
LEMMA ReadInv == Inv /\ (Sync \/ Bounds \/ ReadChunk \/ ReadFails \/ ShardMissing) => Inv'
<1> SUFFICES ASSUME Inv, Sync \/ Bounds \/ ReadChunk \/ ReadFails \/ ShardMissing PROVE Inv'
  OBVIOUS
<1> USE DEF Inv
<1>1. CASE Sync
  <2>1. TypeOK'
    BY <1>1 DEF TypeOK, Sync, redoVars, indexVars, procVars, tickVars, countVars,
        LastIndex, shardVars, crashVars
  <2>2. CtlInv'
    BY <1>1 DEF TypeOK, CtlInv, Sync, redoVars, procVars, tickVars, Committed, LastIndex
  <2> QED
    BY <2>1, <2>2
<1>2. CASE Bounds
  <2>1. Committed \in Nat /\ LastIndex \in Nat
    BY DEF TypeOK, Ranges, Committed, LastIndex
  <2>2. start' \in Nat \ {0} /\ maxID' \in Nat
    BY <1>2, <2>1, ConstantsAssumption DEF Bounds, TypeOK, tickVars, shardVars, crashVars
  <2>3. TypeOK'
    BY <1>2, <2>2 DEF TypeOK, Bounds, walVars, redoVars, indexVars, procVars, tickVars,
        countVars, shardVars, crashVars
  <2>4. CtlInv'
    BY <1>2, <2>1
    DEF TypeOK, CtlInv, Bounds, walVars, redoVars, procVars, tickVars, Committed, LastIndex
  <2> QED
    BY <2>3, <2>4
<1>3. CASE ReadChunk
  <2>1. PICK h \in start .. maxID :
          /\ \A i \in start .. h : Readable(i)
          /\ hi' = h
          /\ redo' = [redo EXCEPT !.read = <<start, h>>]
          /\ redoDisk' = redo'
          /\ todo' = GroupsOf(start, h)
    BY <1>3 DEF ReadChunk
  <2>2. h \in Nat /\ start \in Nat /\ start <= h /\ h <= LastIndex
    BY <2>1 DEF TypeOK, Readable, LastIndex
  <2>3. GroupsOf(start, h) \subseteq Groups
    <3>1. \A i \in start .. h : log[i] \in Entries
      BY <2>2 DEF TypeOK, LastIndex
    <3> QED
      BY <3>1 DEF GroupsOf, Entries
  <2>4. TypeOK'
    BY <1>3, <2>1, <2>2, <2>3, RecordType
    DEF TypeOK, ReadChunk, walVars, indexVars, procVars, countVars,
        shardVars, crashVars
  <2>5. CtlInv'
    BY <1>3, <2>1, <2>2, RecordType
    DEF TypeOK, CtlInv, ReadChunk, walVars, procVars, Committed, LastIndex
  <2> QED
    BY <2>4, <2>5
<1>4. CASE ReadFails \/ ShardMissing
  BY <1>4 DEF TypeOK, CtlInv, ReadFails, ShardMissing, walVars, redoVars, indexVars, procVars,
        tickVars, countVars, Committed, LastIndex, shardVars, crashVars
<1> QED
  BY <1>1, <1>2, <1>3, <1>4

\* Batches change nothing but the index and the work left.
LEMMA BatchInv ==
  Inv /\ ((\E g \in Groups : WriteToShard(g)) \/ WriteToOther) => Inv'
<1> SUFFICES ASSUME Inv, (\E g \in Groups : WriteToShard(g)) \/ WriteToOther PROVE Inv'
  OBVIOUS
<1> USE DEF Inv
<1>1. ASSUME NEW g \in Groups, WriteToShard(g)
      PROVE  Inv'
  <2>1. start \in Nat \ {0} /\ hi \in Nat /\ log \in Seq(Entries) /\ hi <= Len(log)
    BY <1>1 DEF WriteToShard, TypeOK, CtlInv, LastIndex
  <2>2. \A s \in ShardIDs : idx[s] \in [Docs -> Seq(Nat)]
    BY DEF TypeOK
  <2>3. \A s \in ShardIDs : BatchOn(idx[s], g, start, hi) \in [Docs -> Seq(Nat)]
    BY <2>1, <2>2, BatchOnType
  <2>4. idx' \in [ShardIDs -> [Docs -> Seq(Nat)]]
    BY <1>1, <2>2, <2>3 DEF WriteToShard, TypeOK
  <2>5. TypeOK'
    BY <1>1, <2>4 DEF TypeOK, WriteToShard, walVars, redoVars, procVars, countVars,
        shardVars, crashVars
  <2>6. CtlInv'
    BY <1>1 DEF TypeOK, CtlInv, WriteToShard, walVars, redoVars, procVars, Committed, LastIndex
  <2> QED
    BY <2>5, <2>6
<1>2. CASE WriteToOther
  <2>1. \A s \in ShardIDs : idx[s] \in [Docs -> Seq(Nat)]
    BY DEF TypeOK
  <2>2. \A s \in ShardIDs : OtherBatchOn(idx[s], NeedUpdate, start, hi) \in [Docs -> Seq(Nat)]
    BY <2>1 DEF OtherBatchOn
  <2>3. idx' \in [ShardIDs -> [Docs -> Seq(Nat)]]
    BY <1>2, <2>1, <2>2 DEF WriteToOther, TypeOK
  <2>4. TypeOK'
    BY <1>2, <2>3 DEF TypeOK, WriteToOther, walVars, redoVars, procVars, countVars,
        shardVars, crashVars
  <2>5. CtlInv'
    BY <1>2 DEF TypeOK, CtlInv, WriteToOther, walVars, redoVars, procVars, Committed, LastIndex
  <2> QED
    BY <2>4, <2>5
<1> QED
  BY <1>1, <1>2

\* The commit and what follows it in a tick.
LEMMA CommitInv == Inv /\ (CommitChunk \/ Truncate \/ CheckShards \/ UpdateMetadata) => Inv'
<1> SUFFICES ASSUME Inv, CommitChunk \/ Truncate \/ CheckShards \/ UpdateMetadata PROVE Inv'
  OBVIOUS
<1> USE DEF Inv
<1>1. CASE CommitChunk
  <2>1. /\ redo' = [redo EXCEPT !.write = <<start, hi>>] /\ redoDisk' = redo'
        /\ start' = hi + 1
    BY <1>1 DEF CommitChunk
  <2>2. start \in Nat /\ hi \in Nat /\ start <= hi /\ start = Committed + 1 /\ open
    BY <1>1 DEF CommitChunk, TypeOK, CtlInv, LastIndex
  <2>3. /\ redo' \in [read : Ranges, write : Ranges]
        /\ redo'.write[2] = hi /\ redo'.read = redo.read
    BY <2>1, <2>2, RecordType
  <2>4. TypeOK'
    BY <1>1, <2>1, <2>2, <2>3 DEF TypeOK, CommitChunk, walVars, indexVars, procVars, countVars,
        shardVars, crashVars
  <2>5. redo.read[1] \in Nat /\ first \in Nat
    BY DEF TypeOK, Ranges
  <2>6. CtlInv'
    BY <1>1, <2>1, <2>2, <2>3, <2>5
    DEF CtlInv, CommitChunk, walVars, procVars, Committed, LastIndex
  <2> QED
    BY <2>4, <2>6
<1>2. CASE Truncate
  <2>1. /\ maxID \in Nat /\ maxID = Committed /\ redo = redoDisk
    BY <1>2 DEF Truncate, TypeOK, CtlInv
  <2>2. /\ first' \in Nat \ {0} /\ synced' \in Nat
        /\ first' = first \/ first' = maxID
    BY <1>2, <2>1, TruncateFrontType DEF Truncate
  <2>3. TypeOK'
    BY <1>2, <2>2 DEF TypeOK, Truncate, redoVars, indexVars, procVars, tickVars, countVars,
        shardVars, crashVars
  <2>4. CtlInv'
    BY <1>2, <2>1, <2>2
    DEF TypeOK, CtlInv, Truncate, redoVars, procVars, tickVars, Committed, LastIndex
  <2> QED
    BY <2>3, <2>4
<1>3. CASE CheckShards \/ UpdateMetadata
  <2>1. shardNum' \in 1 .. MaxShards /\ shardStored' \in 1 .. shardNum' /\ faults' \in Nat
    BY <1>3, ConstantsAssumption DEF CheckShards, UpdateMetadata, StoreIndex, shardVars, TypeOK
  <2>2. TypeOK'
    BY <1>3, <2>1 DEF TypeOK, CheckShards, UpdateMetadata, walVars, redoVars, procVars,
                      tickVars, crashVars
  <2>3. CtlInv'
    BY <1>3 DEF CtlInv, CheckShards, UpdateMetadata, walVars, redoVars, procVars, tickVars,
                Committed, LastIndex
  <2> QED
    BY <2>2, <2>3
<1> QED
  BY <1>1, <1>2, <1>3

\* Faults and crashes.
LEMMA FaultInv == Inv /\ (ConsumeFails \/ RedoWriteFails \/ Crash) => Inv'
<1> SUFFICES ASSUME Inv, ConsumeFails \/ RedoWriteFails \/ Crash PROVE Inv'
  OBVIOUS
<1> USE DEF Inv
<1>1. CASE ConsumeFails
  BY <1>1 DEF TypeOK, CtlInv, ConsumeFails, walVars, redoVars, indexVars, procVars,
        tickVars, Committed, LastIndex, shardVars, crashVars
<1>2. CASE RedoWriteFails
  <2>1. \E h \in Nat :
          \/ pc = "read" /\ redo' = [redo EXCEPT !.read = <<start, h>>]
          \/ pc = "write" /\ h = hi /\ redo' = [redo EXCEPT !.write = <<start, h>>]
    BY <1>2 DEF RedoWriteFails, TypeOK
  <2>2. PICK h \in Nat :
          \/ pc = "read" /\ redo' = [redo EXCEPT !.read = <<start, h>>]
          \/ pc = "write" /\ h = hi /\ redo' = [redo EXCEPT !.write = <<start, h>>]
    BY <2>1
  <2>3. start \in Nat /\ start = Committed + 1 /\ open
        /\ (pc = "write" => start <= hi)
    BY <1>2, <2>2 DEF TypeOK, CtlInv, LastIndex
  <2>4. /\ redo' \in [read : Ranges, write : Ranges]
        /\ \/ pc = "read" /\ redo'.read[1] = start /\ redo'.write = redo.write
           \/ pc = "write" /\ redo'.read = redo.read /\ redo'.write[2] = hi
    <3>1. CASE pc = "read" /\ redo' = [redo EXCEPT !.read = <<start, h>>]
      BY <2>3, <3>1, RecordType
    <3>2. CASE pc = "write" /\ h = hi /\ redo' = [redo EXCEPT !.write = <<start, h>>]
      BY <2>3, <3>2, RecordType
    <3> QED
      BY <2>2, <3>1, <3>2
  <2>5. TypeOK'
    <3>1. /\ UNCHANGED <<log, first, synced, redoDisk, shardNum, shardStored, idx, open, listed>>
          /\ UNCHANGED <<start, hi, maxID, todo, other, writes, crashes, hidden, walCut>>
          /\ pc' = "idle" /\ faults' = faults + 1
      BY <1>2 DEF RedoWriteFails, walVars, indexVars, procVars, tickVars, shardVars, crashVars
    <3>2. faults' \in Nat
      BY <3>1 DEF TypeOK
    <3> QED
      BY <2>4, <3>1, <3>2 DEF TypeOK
  <2>6. redo.read[1] \in Nat /\ first \in Nat /\ hi \in Nat
    BY DEF TypeOK, Ranges
  <2>7. CtlInv'
    BY <1>2, <2>3, <2>4, <2>6
    DEF CtlInv, RedoWriteFails, walVars, procVars, tickVars, Committed, LastIndex
  <2> QED
    BY <2>5, <2>7
<1>3. CASE Crash
  <2>1. log' \in Seq(Entries)
    BY <1>3 DEF Crash, TypeOK, LastIndex
  <2>2. open' \in BOOLEAN /\ listed' \in BOOLEAN /\ walCut' \in BOOLEAN
    BY <1>3 DEF Crash, TypeOK
  <2>3. hidden' \subseteq Docs
    BY <1>3 DEF Crash, TypeOK, Unknown
  <2>4. shardNum' \in 1 .. MaxShards /\ shardStored' \in 1 .. shardNum'
    BY <1>3, ConstantsAssumption DEF Crash, TypeOK
  <2>5. TypeOK'
    BY <1>3, <2>1, <2>2, <2>3, <2>4 DEF TypeOK, Crash, redoVars, tickVars
  <2>6. CtlInv'
    BY <1>3 DEF CtlInv, Crash, redoVars, tickVars, Committed
  <2> QED
    BY <2>5, <2>6
<1> QED
  BY <1>1, <1>2, <1>3

\* Every step of the shard, and of the world around it, keeps the invariant.
LEMMA StepInv == Inv /\ [Next]_vars => Inv'
<1> SUFFICES ASSUME Inv, [Next]_vars PROVE Inv'
  OBVIOUS
<1>1. CASE Environment
  BY <1>1, OpenInv, ReadInv, BatchInv, CommitInv, FaultInv DEF Environment, Consume
<1>2. ASSUME NEW d \in Docs,
             \/ CreateNamed(d) \/ CreateGenerated(d) \/ DeleteDocument(d)
             \/ \E insert \in BOOLEAN : UpdateDocument(d, insert)
      PROVE  Inv'
  BY <1>2, RequestInv
<1>3. CASE UNCHANGED vars
  BY <1>3 DEF Inv, TypeOK, CtlInv, vars, walVars, redoVars, indexVars, procVars,
        tickVars, countVars, Committed, LastIndex, shardVars, crashVars
<1> QED
  BY <1>1, <1>2, <1>3 DEF Next

\* Every variable keeps its type, whatever is requested of the shard and
\* whatever fails.
THEOREM TypeCorrect == Spec => []TypeOK
<1>1. Init => Inv
  BY InitInv
<1>2. Inv /\ [Next]_vars => Inv'
  BY StepInv
<1>3. Inv => TypeOK
  BY DEF Inv
<1> QED
  BY <1>1, <1>2, <1>3, PTL DEF Spec

\* No truncation removes an entry that still has to be committed, whichever
\* redo record the process resumes from, even after a power loss.
THEOREM Retained == Spec => []UncommittedRetained
<1>1. Init => Inv
  BY InitInv
<1>2. Inv /\ [Next]_vars => Inv'
  BY StepInv
<1>3. Inv => UncommittedRetained
  BY DEF Inv, TypeOK, Ranges, CtlInv, UncommittedRetained, CommitPositions, Readable,
         Committed, LastIndex
<1> QED
  BY <1>1, <1>2, <1>3, PTL DEF Spec

\* Chunks are committed one after the other, without gap or overlap.
THEOREM Contiguous == Spec => CommitsAreContiguous
<1> DEFINE Step == redo'.write # redo.write /\ open => redo'.write[1] = Committed + 1
<1>1. Init => Inv
  BY InitInv
<1>2. Inv /\ [Next]_vars => Inv'
  BY StepInv
<1>3. Inv /\ [Next]_vars => [Step]_vars
  <2> SUFFICES ASSUME Inv, Next, redo'.write # redo.write, open
               PROVE  redo'.write[1] = Committed + 1
    OBVIOUS
  <2>1. CASE CommitChunk \/ RedoWriteFails
    <3>1. TypeOK /\ start \in Nat /\ hi \in Nat
      BY DEF Inv, TypeOK
    <3>2. pc \in {"read", "write"} /\ start = Committed + 1
      BY <2>1 DEF CommitChunk, RedoWriteFails, Inv, CtlInv
    <3>3. \/ redo' = [redo EXCEPT !.write = <<start, hi>>]
          \/ \E h \in start .. maxID : redo' = [redo EXCEPT !.read = <<start, h>>]
      BY <2>1 DEF CommitChunk, RedoWriteFails
    <3>4. \A h \in start .. maxID : h \in Nat
      BY <3>1 DEF TypeOK
    <3>5. CASE redo' = [redo EXCEPT !.write = <<start, hi>>]
      BY <3>1, <3>2, <3>5, RecordType
    <3>6. ASSUME NEW h \in start .. maxID, redo' = [redo EXCEPT !.read = <<start, h>>]
          PROVE  FALSE
      BY <3>1, <3>4, <3>6, RecordType
    <3> QED
      BY <3>3, <3>5, <3>6
  <2>2. CASE ReadChunk
    BY <2>2 DEF ReadChunk, Inv, TypeOK
  <2> QED
    BY <2>1, <2>2
    DEF Next, Environment, Consume, OpenWAL, Rollback, RollbackFails, Sync,
        Bounds, ReadFails, ShardMissing, WriteToShard, WriteToOther, Truncate,
        CheckShards, UpdateMetadata, ConsumeFails, Crash, redoVars, CreateNamed,
        CreateGenerated, UpdateDocument, DeleteDocument, WALWrite
<1> QED
  BY <1>1, <1>2, <1>3, PTL DEF Spec, CommitsAreContiguous

-----------------------------------------------------------------------------
(* A document that was never deleted is found once it is committed.        *)

Undeleted(d)  == \A i \in 1 .. LastIndex : log[i].doc = d => log[i].act # Delete
Written(w, d) == \E i \in 1 .. w : log[i].doc = d
Found(d)      == FindShardByDocID(d) # {}

FoundUpTo(w) == \A d \in Docs \ hidden : Undeleted(d) /\ Written(w, d) => Found(d)

\* Only CreateDocument and UpdateDocument of an unknown document insert, so the
\* rollback, which takes inserts out of the shard they name, takes out nothing.
InsertsToLatest == \A i \in 1 .. LastIndex : log[i].act = Insert => log[i].sh = NeedLatest

CommitsBounded == redoDisk.write[2] <= LastIndex /\ Committed <= LastIndex

\* The groups of the chunk that are written.
GroupsDone ==
    pc \in {"write", "others"} =>
        \A g \in Groups \ todo : \A d \in GroupDocs(g, start, hi) \ hidden :
            Undeleted(d) => Found(d)

\* Before the deletes go to the older shards, the latest one has the documents.
LatestHas ==
    pc = "others" =>
        /\ other \in 0 .. Latest - 1
        /\ \A d \in GroupDocs(NeedUpdate, start, hi) \ hidden :
               Undeleted(d) => idx[Latest][d] # <<>>

FindInv ==
    /\ InsertsToLatest
    /\ CommitsBounded
    /\ FoundUpTo(redoDisk.write[2])
    /\ open => FoundUpTo(Committed)
    /\ GroupsDone
    /\ LatestHas

\* A document is found where a shard that exists has a copy.
LEMMA FoundIs == ASSUME NEW d PROVE Found(d) <=> \E s \in 0 .. Latest : idx[s][d] # <<>>
BY DEF Found, FindShardByDocID

\* What is found stays found: so does what is committed.
LEMMA FoundStep ==
  ASSUME NEW w, FoundUpTo(w), log' = log, hidden \subseteq hidden',
         \A d \in Docs \ hidden' : Undeleted(d) /\ Found(d) => Found(d)'
  PROVE  FoundUpTo(w)'
<1>1. ASSUME NEW d PROVE Undeleted(d)' = Undeleted(d) /\ Written(w, d)' = Written(w, d)
  BY DEF Undeleted, Written, LastIndex
<1> QED
  BY <1>1 DEF FoundUpTo

\* Steps that take no document away and are not in the middle of a chunk
\* afterwards; the commit positions are ones that memory or file had before.
LEMMA QuietFind ==
  ASSUME Inv, FindInv, log' = log, hidden \subseteq hidden',
         pc' \notin {"write", "others"},
         \A d \in Docs \ hidden' : Undeleted(d) /\ Found(d) => Found(d)',
         redoDisk'.write = redoDisk.write,
         redo'.write = redoDisk.write \/ redo'.write = redo.write,
         open' => \/ redo'.write = redoDisk.write
                  \/ open /\ redo'.write = redo.write
  PROVE  FindInv'
<1>1. ASSUME NEW w, FoundUpTo(w) PROVE FoundUpTo(w)'
  BY <1>1, FoundStep
<1>2. PICK a : a = redoDisk.write[2]
  OBVIOUS
<1>3. PICK m : m = redo.write[2]
  OBVIOUS
<1>4. FoundUpTo(a)' /\ (open => FoundUpTo(m)')
  BY <1>1, <1>2, <1>3 DEF FindInv, Committed
<1>5. FoundUpTo(redoDisk.write[2])' /\ (open => FoundUpTo(Committed))'
  BY <1>2, <1>3, <1>4 DEF FoundUpTo, Written, Committed
<1>6. InsertsToLatest' /\ CommitsBounded' /\ GroupsDone' /\ LatestHas'
  BY DEF FindInv, InsertsToLatest, CommitsBounded, GroupsDone, LatestHas, Committed, LastIndex
<1> QED
  BY <1>5, <1>6 DEF FindInv

\* A rollback takes no document away.
LEMMA RollbackFind ==
  ASSUME Inv, FindInv, Rollback \/ RollbackFails
  PROVE  FindInv'
<1> DEFINE lo == redo.read[1]
           h  == redo.read[2]
<1>1. idx \in [ShardIDs -> [Docs -> Seq(Nat)]] /\ lo \in Nat /\ h \in Nat
  BY DEF Inv, TypeOK, Ranges
<1>2. ASSUME RedoReadable, NEW s \in ShardIDs, NEW d \in Docs
      PROVE  RollbackOn(idx[s], s, lo, h)[d] = idx[s][d]
  <2>1. \A i \in lo .. h : i \in 1 .. LastIndex
    BY <1>1, <1>2 DEF RedoReadable, Readable, Inv, TypeOK, LastIndex
  <2>2. s # NeedLatest
    BY ConstantsAssumption DEF ShardIDs, NeedLatest
  <2>3. ASSUME d \in GroupDocs(s, lo, h) PROVE log[Min(GroupIDs(s, d, lo, h))].act # Insert
    <3>1. GroupIDs(s, d, lo, h) \subseteq lo .. h /\ GroupIDs(s, d, lo, h) # {}
      BY <2>3 DEF GroupIDs, GroupDocs
    <3>2. GroupIDs(s, d, lo, h) \in SUBSET Nat
      BY <1>1, <3>1
    <3>3. Min(GroupIDs(s, d, lo, h)) \in GroupIDs(s, d, lo, h)
      <4> HIDE DEF Min
      <4> QED
        BY <3>1, <3>2, MinOfNats
    <3>4. ASSUME NEW i \in GroupIDs(s, d, lo, h) PROVE log[i].act # Insert
      BY <2>1, <2>2, <3>4 DEF GroupIDs, FindInv, InsertsToLatest
    <3> QED
      BY <3>3, <3>4
  <2> QED
    BY <2>3 DEF RollbackOn
<1>3. ASSUME RedoReadable, NEW S, NEW s \in ShardIDs, NEW d \in Docs
      PROVE  RolledBack(S)[s][d] = idx[s][d]
  BY <1>1, <1>2, <1>3 DEF RolledBack
<1>4. \A s \in ShardIDs, d \in Docs : idx'[s][d] = idx[s][d]
  BY <1>3 DEF Rollback, RollbackFails
<1>5. /\ log' = log /\ hidden' = hidden /\ shardNum' = shardNum /\ pc' = "idle"
      /\ redo' = redo /\ redoDisk' = redoDisk /\ open' = open /\ open
  BY DEF Rollback, RollbackFails, walVars, redoVars, shardVars, procVars, countVars, crashVars,
         Inv, CtlInv
<1>6. \A s \in 0 .. Latest : s \in ShardIDs
  BY ConstantsAssumption DEF Inv, TypeOK, Latest, ShardIDs
<1>7. \A d \in Docs : Found(d)' = Found(d)
  BY <1>4, <1>5, <1>6 DEF Found, FindShardByDocID, Latest
<1> QED
  BY <1>5, <1>7, QuietFind

\* A crash takes only the documents in shards that were never stored.
LEMMA CrashFind ==
  ASSUME Inv, FindInv, Crash, ~ walCut'
  PROVE  FindInv'
<1>1. /\ log' = log /\ idx' = idx /\ redo' = redo /\ redoDisk' = redoDisk
      /\ pc' = "idle" /\ ~ open' /\ shardNum' = shardStored /\ hidden' = hidden \cup Unknown
  BY DEF Crash, redoVars
<1>2. shardNum \in 1 .. MaxShards /\ shardStored \in 1 .. shardNum
  BY DEF Inv, TypeOK
<1>3. ASSUME NEW d \in Docs \ hidden', Found(d) PROVE Found(d)'
  <2>1. PICK s \in 0 .. Latest : idx[s][d] # <<>>
    BY <1>3 DEF Found, FindShardByDocID
  <2>2. s \in ShardIDs /\ s \in Nat
    BY <1>2, ConstantsAssumption DEF Latest, ShardIDs
  <2>3. ~ (s >= shardStored)
    BY <1>1, <1>3, <2>1, <2>2 DEF Unknown
  <2>4. s \in 0 .. Latest'
    BY <1>1, <1>2, <2>2, <2>3 DEF Latest
  <2> QED
    BY <1>1, <2>1, <2>4 DEF Found, FindShardByDocID
<1> QED
  BY <1>1, <1>3, QuietFind

\* A chunk is read: nothing of it is written yet.
LEMMA ReadFind ==
  ASSUME Inv, FindInv, ReadChunk
  PROVE  FindInv'
<1>1. PICK h \in start .. maxID :
        /\ redo' = [redo EXCEPT !.read = <<start, h>>]
        /\ redoDisk' = redo'
        /\ hi' = h
        /\ todo' = GroupsOf(start, h)
  BY DEF ReadChunk
<1>2. /\ log' = log /\ idx' = idx /\ shardNum' = shardNum /\ hidden' = hidden /\ open' = open
      /\ open /\ start' = start /\ pc' = "write"
  BY DEF ReadChunk, walVars, indexVars, shardVars, procVars, countVars, crashVars, Inv, CtlInv
<1>3. redo'.write = redo.write /\ redoDisk'.write = redo.write
  BY <1>1 DEF Inv, TypeOK
<1>4. \A d : Found(d)' = Found(d)
  BY <1>2 DEF Found, FindShardByDocID, Latest
<1>5. PICK m : m = redo.write[2]
  OBVIOUS
<1>6. FoundUpTo(m)'
  BY <1>2, <1>4, <1>5, FoundStep DEF FindInv, Committed
<1>7. FoundUpTo(redoDisk.write[2])' /\ FoundUpTo(Committed)'
  BY <1>3, <1>5, <1>6 DEF FoundUpTo, Written, Committed
<1>8. GroupsDone' /\ LatestHas'
  <2>1. \A g : g \notin GroupsOf(start, h) => GroupDocs(g, start, h) = {}
    BY DEF GroupsOf, GroupDocs
  <2>2. \A g : GroupDocs(g, start, hi)' = GroupDocs(g, start, h)
    BY <1>1, <1>2 DEF GroupDocs
  <2> QED
    BY <1>1, <1>2, <2>1, <2>2 DEF GroupsDone, LatestHas
<1>9. InsertsToLatest' /\ CommitsBounded'
  BY <1>2, <1>3 DEF FindInv, InsertsToLatest, CommitsBounded, Committed, LastIndex
<1> QED
  BY <1>7, <1>8, <1>9 DEF FindInv

\* The first batch of a group stores every document of it that was not deleted.
LEMMA BatchFinds ==
  ASSUME Inv, pc \in {"write", "others"}, NEW content \in [Docs -> Seq(Nat)], NEW g,
         NEW d \in Docs, Undeleted(d)
  PROVE  /\ d \in GroupDocs(g, start, hi) =>
              /\ MergedAction(g, d, start, hi) \in {Insert, Update}
              /\ BatchOn(content, g, start, hi)[d] # <<>>
         /\ d \notin GroupDocs(g, start, hi) => BatchOn(content, g, start, hi)[d] = content[d]
<1>1. start \in Nat \ {0} /\ hi \in Nat /\ hi <= LastIndex /\ LastIndex \in Nat
  BY DEF Inv, TypeOK, CtlInv, LastIndex
<1>2. SUFFICES ASSUME d \in GroupDocs(g, start, hi)
               PROVE  /\ MergedAction(g, d, start, hi) \in {Insert, Update}
                      /\ BatchOn(content, g, start, hi)[d] # <<>>
  BY DEF BatchOn
<1> DEFINE ids == GroupIDs(g, d, start, hi)
<1>3. Max(ids) \in ids /\ ids \subseteq start .. hi
  BY <1>1, <1>2, GroupIDsBound
<1>4. log[Max(ids)].act # Delete
  <2>1. \A i \in ids : i \in 1 .. LastIndex /\ log[i].doc = d
    BY <1>1, <1>3 DEF GroupIDs
  <2> HIDE DEF ids
  <2> QED
    BY <1>3, <2>1 DEF Undeleted
<1>5. MergedAction(g, d, start, hi) \in {Insert, Update}
  BY <1>4 DEF MergedAction, Merged
<1>6. \A v : Append(content[d], v) # <<>> /\ <<v>> # <<>>
  <2>1. content[d] \in Seq(Nat)
    OBVIOUS
  <2>2. \A v : Len(Append(content[d], v)) = Len(content[d]) + 1 /\ Len(content[d]) \in Nat
    BY <2>1
  <2>3. \A v : Append(content[d], v) # <<>>
    BY <2>2
  <2> QED
    BY <2>3
<1>7. BatchOn(content, g, start, hi)[d] # <<>>
  BY <1>2, <1>5, <1>6 DEF BatchOn, Insert, Update, Delete
<1> QED
  BY <1>5, <1>7

\* Batches of a chunk: what is found stays found, and so do the groups done.
LEMMA ChunkFind ==
  ASSUME Inv, FindInv, pc \in {"write", "others"}, pc' \in {"write", "others"},
         UNCHANGED <<log, redo, redoDisk, open, hidden, shardNum, start, hi>>,
         \A d \in Docs \ hidden : Undeleted(d) /\ Found(d) => Found(d)',
         \A g \in todo \ todo' : \A d \in GroupDocs(g, start, hi) \ hidden :
             Undeleted(d) => Found(d)',
         LatestHas'
  PROVE  FindInv'
<1>1. ASSUME NEW w, FoundUpTo(w) PROVE FoundUpTo(w)'
  BY <1>1, FoundStep
<1>2. PICK a : a = redoDisk.write[2]
  OBVIOUS
<1>3. PICK m : m = redo.write[2]
  OBVIOUS
<1>4. FoundUpTo(a)' /\ (open => FoundUpTo(m)')
  BY <1>1, <1>2, <1>3 DEF FindInv, Committed
<1>5. FoundUpTo(redoDisk.write[2])' /\ (open => FoundUpTo(Committed))'
  BY <1>2, <1>3, <1>4 DEF FoundUpTo, Written, Committed
<1>6. GroupsDone'
  <2>1. \A g : GroupDocs(g, start, hi)' = GroupDocs(g, start, hi)
    BY DEF GroupDocs
  <2>2. \A d : Undeleted(d)' = Undeleted(d)
    BY DEF Undeleted, LastIndex
  <2>3. \A g : GroupDocs(g, start, hi) \subseteq Docs
    <3>1. \A i \in start .. hi : log[i] \in Entries
      BY DEF Inv, TypeOK, CtlInv, LastIndex
    <3> QED
      BY <3>1 DEF GroupDocs, Entries
  <2>4. Groups' = Groups
    BY DEF Groups, ShardIDs
  <2> QED
    BY <2>1, <2>2, <2>3, <2>4 DEF FindInv, GroupsDone
<1>7. InsertsToLatest' /\ CommitsBounded'
  BY DEF FindInv, InsertsToLatest, CommitsBounded, Committed, LastIndex
<1> QED
  BY <1>5, <1>6, <1>7 DEF FindInv

\* WriteToShard stores a group in a shard that exists.
LEMMA WriteFind ==
  ASSUME Inv, FindInv, NEW g \in Groups, WriteToShard(g)
  PROVE  FindInv'
<1> DEFINE s == IF g >= 0 THEN g ELSE Latest
<1>1. /\ pc = "write" /\ g \in todo /\ g < shardNum
      /\ UNCHANGED <<log, redo, redoDisk, open, hidden, shardNum, start, hi>>
      /\ idx' = [idx EXCEPT ![s] = BatchOn(@, g, start, hi)]
  BY DEF WriteToShard, walVars, redoVars, shardVars, procVars, countVars, crashVars
<1>2. shardNum \in 1 .. MaxShards /\ idx \in [ShardIDs -> [Docs -> Seq(Nat)]]
  BY DEF Inv, TypeOK
<1>3. s \in 0 .. Latest /\ s \in ShardIDs
  BY <1>1, <1>2, ConstantsAssumption DEF Latest, ShardIDs, Groups, NeedLatest, NeedUpdate
<1>4. \A t \in ShardIDs \ {s} : idx'[t] = idx[t]
  BY <1>1, <1>2
<1>5. idx'[s] = BatchOn(idx[s], g, start, hi) /\ idx[s] \in [Docs -> Seq(Nat)]
  BY <1>1, <1>2, <1>3
<1> HIDE DEF s
<1>6. ASSUME NEW d \in Docs, Undeleted(d)
      PROVE  /\ d \in GroupDocs(g, start, hi) => idx'[s][d] # <<>> /\ Found(d)'
             /\ Found(d) => Found(d)'
  <2>1. /\ d \in GroupDocs(g, start, hi) => idx'[s][d] # <<>>
        /\ d \notin GroupDocs(g, start, hi) => idx'[s][d] = idx[s][d]
    BY <1>1, <1>5, <1>6, BatchFinds
  <2>2. idx'[s][d] # <<>> => Found(d)'
    BY <1>1, <1>3 DEF Found, FindShardByDocID, Latest
  <2>3. ASSUME Found(d) PROVE Found(d)'
    <3>1. PICK t \in 0 .. Latest : idx[t][d] # <<>>
      BY <2>3 DEF Found, FindShardByDocID
    <3>2. t \in ShardIDs /\ t \in 0 .. Latest'
      BY <1>1, <1>2, ConstantsAssumption DEF Latest, ShardIDs
    <3>3. CASE t = s
      BY <2>1, <2>2, <3>1, <3>3
    <3>4. CASE t # s
      BY <1>4, <3>1, <3>2, <3>4 DEF Found, FindShardByDocID
    <3> QED
      BY <3>3, <3>4
  <2> QED
    BY <2>1, <2>2, <2>3
<1>7. \A d \in GroupDocs(g, start, hi) : d \in Docs
  <2>1. \A i \in start .. hi : log[i] \in Entries
    BY <1>1 DEF Inv, TypeOK, CtlInv, LastIndex
  <2> QED
    BY <2>1 DEF GroupDocs, Entries
<1>8. pc' \in {"write", "others"} /\ todo \ todo' \subseteq {g}
  BY <1>1 DEF WriteToShard
<1>9. LatestHas'
  <2> SUFFICES ASSUME pc' = "others" PROVE LatestHas'
    BY DEF LatestHas
  <2>1. g = NeedUpdate /\ shardNum > 1 /\ other' = 0
    BY <1>1 DEF WriteToShard
  <2>2. s = Latest /\ 0 \in 0 .. Latest - 1 /\ Latest' = Latest
    BY <1>1, <1>2, <2>1 DEF s, NeedUpdate, Latest
  <2>3. GroupDocs(NeedUpdate, start, hi)' = GroupDocs(g, start, hi)
    BY <1>1, <2>1 DEF GroupDocs
  <2>4. \A d : Undeleted(d)' = Undeleted(d)
    BY <1>1 DEF Undeleted, LastIndex
  <2> QED
    BY <1>1, <1>6, <1>7, <2>1, <2>2, <2>3, <2>4 DEF LatestHas
<1> QED
  BY <1>1, <1>6, <1>7, <1>8, <1>9, ChunkFind

\* The deletes of a group spare the latest shard.
LEMMA OtherFind ==
  ASSUME Inv, FindInv, WriteToOther
  PROVE  FindInv'
<1>1. /\ pc = "others" /\ other \in 0 .. Latest - 1
      /\ UNCHANGED <<log, redo, redoDisk, open, hidden, shardNum, start, hi>>
      /\ idx' = [idx EXCEPT ![other] = OtherBatchOn(@, NeedUpdate, start, hi)]
  BY DEF WriteToOther, walVars, redoVars, shardVars, procVars, countVars, crashVars,
         FindInv, LatestHas
<1>2. shardNum \in 1 .. MaxShards /\ idx \in [ShardIDs -> [Docs -> Seq(Nat)]]
  BY DEF Inv, TypeOK
<1>3. other \in ShardIDs /\ Latest \in ShardIDs /\ Latest # other /\ Latest \in 0 .. Latest'
  BY <1>1, <1>2, ConstantsAssumption DEF Latest, ShardIDs
<1>4. /\ \A t \in ShardIDs \ {other} : idx'[t] = idx[t]
      /\ idx'[other] = OtherBatchOn(idx[other], NeedUpdate, start, hi)
  BY <1>1, <1>2, <1>3
<1>5. ASSUME NEW d \in GroupDocs(NeedUpdate, start, hi) \ hidden, Undeleted(d)
      PROVE  idx'[Latest][d] # <<>> /\ Found(d)'
  <2>1. idx[Latest][d] # <<>>
    BY <1>1, <1>5 DEF FindInv, LatestHas
  <2>2. idx'[Latest][d] # <<>>
    BY <1>3, <1>4, <2>1
  <2> QED
    BY <1>3, <2>2 DEF Found, FindShardByDocID
<1>6. ASSUME NEW d \in Docs \ hidden, Undeleted(d), Found(d) PROVE Found(d)'
  <2>1. CASE d \in GroupDocs(NeedUpdate, start, hi)
    BY <1>5, <1>6, <2>1
  <2>2. CASE d \notin GroupDocs(NeedUpdate, start, hi)
    <3>1. OtherBatchOn(idx[other], NeedUpdate, start, hi)[d] = idx[other][d]
      BY <2>2 DEF OtherBatchOn
    <3>2. \A t \in ShardIDs : idx'[t][d] = idx[t][d]
      BY <1>4, <3>1
    <3>3. \A t \in 0 .. Latest : t \in ShardIDs /\ t \in 0 .. Latest'
      BY <1>1, <1>2, ConstantsAssumption DEF Latest, ShardIDs
    <3> QED
      BY <1>6, <3>2, <3>3 DEF Found, FindShardByDocID
  <2> QED
    BY <2>1, <2>2
<1>7. pc' \in {"write", "others"} /\ todo \ todo' \subseteq {NeedUpdate}
  BY <1>1 DEF WriteToOther
<1>8. LatestHas'
  <2> SUFFICES ASSUME pc' = "others" PROVE LatestHas'
    BY DEF LatestHas
  <2>1. other + 1 < Latest /\ other' = other + 1
    BY <1>1 DEF WriteToOther
  <2>2. Latest' = Latest /\ GroupDocs(NeedUpdate, start, hi)' = GroupDocs(NeedUpdate, start, hi)
    BY <1>1 DEF Latest, GroupDocs
  <2>3. other' \in 0 .. Latest' - 1
    BY <1>1, <1>2, <2>1, <2>2 DEF Latest
  <2>4. \A d : Undeleted(d)' = Undeleted(d)
    BY <1>1 DEF Undeleted, LastIndex
  <2> QED
    BY <1>1, <1>5, <2>2, <2>3, <2>4 DEF LatestHas
<1> QED
  BY <1>1, <1>5, <1>6, <1>7, <1>8, ChunkFind

\* The commit, and the commit whose record did not reach the file.
LEMMA CommitFind ==
  ASSUME Inv, FindInv, pc = "write", todo = {}, pc' \notin {"write", "others"},
         UNCHANGED <<log, idx, shardNum, hidden, open>>,
         redo' = [redo EXCEPT !.write = <<start, hi>>],
         redoDisk' = redo' \/ redoDisk' = redoDisk
  PROVE  FindInv'
<1>1. /\ start \in Nat \ {0} /\ hi \in start .. LastIndex /\ LastIndex \in Nat /\ open
      /\ start = redo.write[2] + 1 /\ redo.write[2] \in Nat /\ redoDisk.write[2] \in Nat
  BY DEF Inv, TypeOK, Ranges, CtlInv, Committed, LastIndex
<1>2. redo'.write[2] = hi
  BY DEF Inv, TypeOK
<1>3. ASSUME NEW d \in Docs \ hidden, Undeleted(d), NEW i \in 1 .. hi, log[i].doc = d
      PROVE  Found(d)
  <2>1. CASE i \in 1 .. redo.write[2]
    BY <1>1, <1>3, <2>1 DEF FindInv, FoundUpTo, Written, Committed
  <2>2. CASE i \in start .. hi
    <3>a. log \in Seq(Entries) /\ i \in 1 .. Len(log)
      BY <1>1, <2>2 DEF Inv, TypeOK, LastIndex
    <3>b. log[i] \in Entries
      BY <3>a
    <3>1. log[i].sh \in Groups
      BY <3>b DEF Entries
    <3>2. d \in GroupDocs(log[i].sh, start, hi)
      BY <1>3, <2>2 DEF GroupDocs
    <3> QED
      BY <1>3, <3>1, <3>2 DEF FindInv, GroupsDone
  <2> QED
    BY <1>1, <2>1, <2>2
<1>4. FoundUpTo(hi)
  BY <1>3 DEF FoundUpTo, Written
<1>5. ASSUME NEW w, FoundUpTo(w) PROVE FoundUpTo(w)'
  <2>1. \A d : Found(d)' = Found(d)
    BY DEF Found, FindShardByDocID, Latest
  <2> QED
    BY <1>5, <2>1, FoundStep
<1>6. PICK a : a = redoDisk.write[2]
  OBVIOUS
<1>7. PICK h : h = hi
  OBVIOUS
<1>8. FoundUpTo(a)' /\ FoundUpTo(h)'
  BY <1>4, <1>5, <1>6, <1>7 DEF FindInv
<1>9. FoundUpTo(redoDisk.write[2])' /\ FoundUpTo(Committed)'
  BY <1>2, <1>6, <1>7, <1>8 DEF FoundUpTo, Written, Committed
<1>10. CommitsBounded'
  <2>1. redoDisk.write[2] <= Len(log) /\ hi <= Len(log)
    BY <1>1 DEF FindInv, CommitsBounded, LastIndex
  <2>2. redoDisk'.write[2] = hi \/ redoDisk'.write[2] = redoDisk.write[2]
    BY <1>2
  <2>3. log' = log /\ redoDisk'.write[2] <= Len(log') /\ redo'.write[2] <= Len(log')
    BY <1>1, <1>2, <2>1, <2>2
  <2> QED
    BY <2>3 DEF CommitsBounded, Committed, LastIndex
<1>11. InsertsToLatest' /\ GroupsDone' /\ LatestHas'
  BY DEF FindInv, InsertsToLatest, GroupsDone, LatestHas, LastIndex
<1> QED
  BY <1>9, <1>10, <1>11 DEF FindInv

\* A request: what is committed or written does not depend on newer entries.
LEMMA RequestFind ==
  ASSUME Inv, FindInv, NEW d0 \in Docs, NEW act, NEW sh,
         act = Insert => sh = NeedLatest, WALWrite(d0, act, sh)
  PROVE  FindInv'
<1> DEFINE e == [doc |-> d0, act |-> act, sh |-> sh, val |-> writes + 1]
<1>1. /\ log' = Append(log, e)
      /\ UNCHANGED <<redo, redoDisk, shardNum, hidden, idx, open, pc, start, hi, todo, other>>
  BY DEF WALWrite, redoVars, indexVars, shardVars, procVars, tickVars, crashVars
<1>2. /\ log \in Seq(Entries) /\ Len(log) \in Nat /\ start \in Nat \ {0} /\ hi \in Nat
      /\ redo.write[2] \in Nat /\ redoDisk.write[2] \in Nat
  BY DEF Inv, TypeOK, Ranges
<1>3. /\ Len(log') = Len(log) + 1 /\ \A i \in 1 .. Len(log) : log'[i] = log[i]
      /\ log'[Len(log) + 1] = e
  BY <1>1, <1>2
<1>4. ASSUME NEW d PROVE (Undeleted(d)' => Undeleted(d)) /\ Found(d)' = Found(d)
  BY <1>1, <1>2, <1>3 DEF Undeleted, LastIndex, Found, FindShardByDocID, Latest
<1>5. ASSUME NEW w \in Nat, w <= Len(log), FoundUpTo(w) PROVE FoundUpTo(w)'
  <2>1. ASSUME NEW d PROVE Written(w, d)' => Written(w, d)
    BY <1>2, <1>3, <1>5 DEF Written
  <2> QED
    BY <1>1, <1>4, <1>5, <2>1 DEF FoundUpTo
<1>6. PICK a \in Nat : a = redoDisk.write[2]
  BY <1>2
<1>7. PICK m \in Nat : m = redo.write[2]
  BY <1>2
<1>8. a <= Len(log) /\ m <= Len(log)
  BY <1>6, <1>7 DEF FindInv, CommitsBounded, Committed, LastIndex
<1>9. FoundUpTo(a)' /\ (open => FoundUpTo(m)')
  BY <1>5, <1>6, <1>7, <1>8 DEF FindInv, Committed
<1>10. FoundUpTo(redoDisk.write[2])' /\ (open => FoundUpTo(Committed))'
  BY <1>1, <1>6, <1>7, <1>9 DEF FoundUpTo, Written, Committed
<1>11. InsertsToLatest'
  BY <1>2, <1>3 DEF FindInv, InsertsToLatest, LastIndex
<1>12. CommitsBounded'
  BY <1>1, <1>2, <1>3 DEF FindInv, CommitsBounded, Committed, LastIndex
<1>13. ASSUME pc \in {"write", "others"}, NEW g
       PROVE  GroupDocs(g, start, hi)' = GroupDocs(g, start, hi)
  <2>1. hi <= Len(log)
    BY <1>2, <1>13 DEF Inv, CtlInv, LastIndex
  <2>2. \A i \in start .. hi : log'[i] = log[i]
    BY <1>2, <1>3, <2>1
  <2> QED
    BY <1>1, <2>1, <2>2 DEF GroupDocs
<1>14. GroupsDone'
  BY <1>1, <1>4, <1>13 DEF FindInv, GroupsDone, Groups, ShardIDs
<1>15. LatestHas'
  BY <1>1, <1>4, <1>13 DEF FindInv, LatestHas, Latest
<1> QED
  BY <1>10, <1>11, <1>12, <1>14, <1>15 DEF FindInv

\* A new shard hides nothing.
LEMMA CheckFind ==
  ASSUME Inv, FindInv, CheckShards \/ UpdateMetadata
  PROVE  FindInv'
<1>1. /\ UNCHANGED <<log, idx, redo, redoDisk, open, hidden>>
      /\ shardNum' \in Nat /\ shardNum' >= shardNum /\ shardNum \in 1 .. MaxShards
      /\ pc' \notin {"write", "others"}
  BY ConstantsAssumption DEF CheckShards, UpdateMetadata, walVars, redoVars, shardVars,
     procVars, crashVars, Inv, TypeOK
<1>2. \A s \in 0 .. Latest : s \in 0 .. Latest'
  <2>1. PICK m \in Nat : m = shardNum'
    BY <1>1
  <2>2. PICK n \in Nat : n = shardNum /\ n <= m
    BY <1>1, <2>1, ConstantsAssumption
  <2>3. \A s \in 0 .. n - 1 : s \in 0 .. m - 1
    BY <2>2
  <2> QED
    BY <2>1, <2>2, <2>3 DEF Latest
<1>3. \A d : Found(d) => Found(d)'
  BY <1>1, <1>2 DEF Found, FindShardByDocID
<1>4. open' => open
  BY <1>1
<1> QED
  BY <1>1, <1>3, <1>4, QuietFind

\* The initial state: nothing is committed.
LEMMA InitFind == Init => FindInv
<1> SUFFICES ASSUME Init PROVE FindInv
  OBVIOUS
<1>1. Len(log) = 0 /\ redoDisk.write[2] = 0 /\ redo.write[2] = 0 /\ ~ open /\ pc = "idle"
  BY DEF Init, Absent
<1> QED
  BY <1>1 DEF FindInv, InsertsToLatest, CommitsBounded, FoundUpTo, Written, GroupsDone,
              LatestHas, Committed, LastIndex

\* Every step keeps committed documents findable, until the WAL loses entries.
LEMMA StepFind == Inv /\ FindInv /\ [Next]_vars /\ ~ walCut' => FindInv'
<1> SUFFICES ASSUME Inv, FindInv, [Next]_vars, ~ walCut' PROVE FindInv'
  OBVIOUS
<1>1. ASSUME NEW d \in Docs,
             \/ CreateNamed(d) \/ CreateGenerated(d) \/ DeleteDocument(d)
             \/ \E insert \in BOOLEAN : UpdateDocument(d, insert)
      PROVE  FindInv'
  <2>1. \E act, sh : (act = Insert => sh = NeedLatest) /\ WALWrite(d, act, sh)
    BY <1>1 DEF CreateNamed, CreateGenerated, DeleteDocument, UpdateDocument, Insert, Update, Delete
  <2> QED
    BY <2>1, RequestFind
<1>2. ASSUME UNCHANGED <<log, idx, shardNum, hidden>>
      PROVE  \A d : Found(d)' = Found(d)
  BY <1>2 DEF Found, FindShardByDocID, Latest
<1>3. CASE OpenWAL
  <2>1. /\ UNCHANGED <<log, idx, shardNum, hidden, redoDisk>>
        /\ pc' = "rollback" /\ redo' = redoDisk
    BY <1>3 DEF OpenWAL, walVars, indexVars, shardVars, countVars, crashVars
  <2> QED
    BY <1>2, <2>1, QuietFind
<1>4. CASE Rollback \/ RollbackFails
  BY <1>4, RollbackFind
<1>5. CASE Sync \/ Bounds \/ ReadFails \/ ShardMissing \/ Truncate \/ ConsumeFails
  <2>1. /\ UNCHANGED <<log, idx, shardNum, hidden, redo, redoDisk, open>>
        /\ pc' \notin {"write", "others"}
    BY <1>5 DEF Sync, Bounds, ReadFails, ShardMissing, Truncate, ConsumeFails,
                walVars, redoVars, indexVars, shardVars, procVars, countVars, crashVars
  <2>2. open' => open
    BY <2>1
  <2> QED
    BY <1>2, <2>1, <2>2, QuietFind
<1>6. CASE ReadChunk
  BY <1>6, ReadFind
<1>7. ASSUME NEW g \in Groups, WriteToShard(g) PROVE FindInv'
  BY <1>7, WriteFind
<1>8. CASE WriteToOther
  BY <1>8, OtherFind
<1>9. CASE CommitChunk
  <2>1. /\ pc = "write" /\ todo = {} /\ pc' \notin {"write", "others"}
        /\ UNCHANGED <<log, idx, shardNum, hidden, open>>
        /\ redo' = [redo EXCEPT !.write = <<start, hi>>] /\ redoDisk' = redo'
    BY <1>9 DEF CommitChunk, walVars, indexVars, shardVars, procVars, countVars, crashVars
  <2> QED
    BY <2>1, CommitFind
<1>10. CASE CheckShards \/ UpdateMetadata
  BY <1>10, CheckFind
<1>11. CASE RedoWriteFails
  <2>1. pc' = "idle" /\ UNCHANGED <<log, idx, shardNum, hidden, open, redoDisk>>
    BY <1>11 DEF RedoWriteFails, walVars, indexVars, shardVars, procVars, crashVars
  <2>2. CASE pc = "write" /\ todo = {} /\ redo' = [redo EXCEPT !.write = <<start, hi>>]
    BY <2>1, <2>2, CommitFind
  <2>3. ASSUME NEW h, redo' = [redo EXCEPT !.read = <<start, h>>]
        PROVE  FindInv'
    <3>1. redo'.write = redo.write
      BY <2>3 DEF Inv, TypeOK
    <3>2. open' => open
      BY <2>1
    <3> QED
      BY <1>2, <2>1, <3>1, <3>2, QuietFind
  <2> QED
    BY <1>11, <2>2, <2>3 DEF RedoWriteFails
<1>12. CASE Crash
  BY <1>12, CrashFind
<1>13. CASE UNCHANGED vars
  <2>1. UNCHANGED <<log, idx, shardNum, hidden, redo, redoDisk, open, pc, start, hi, todo, other>>
    BY <1>13 DEF vars, walVars, redoVars, indexVars, shardVars, procVars, tickVars, countVars,
                 crashVars
  <2> QED
    BY <2>1 DEF FindInv, InsertsToLatest, CommitsBounded, FoundUpTo, Written, Undeleted, Found,
                FindShardByDocID, GroupsDone, LatestHas, GroupDocs, Groups, ShardIDs, Latest,
                Committed, LastIndex
<1> QED
  BY <1>1, <1>3, <1>4, <1>5, <1>6, <1>7, <1>8, <1>9, <1>10, <1>11, <1>12, <1>13
  DEF Next, Environment, Consume

\* What a power loss takes from the WAL never comes back.
LEMMA CutStays == [Next]_vars /\ walCut => walCut'
BY DEF Next, Environment, Consume, OpenWAL, Rollback, RollbackFails, Sync, Bounds, ReadChunk,
       ReadFails, WriteToShard, ShardMissing, WriteToOther, CommitChunk, Truncate, CheckShards,
       UpdateMetadata, ConsumeFails, RedoWriteFails, Crash, CreateNamed, CreateGenerated,
       UpdateDocument, DeleteDocument, WALWrite, vars, countVars, crashVars

\* Whatever is requested, a document that was never deleted is found from the
\* commit of its first entry on, through groups written in any order, failed and
\* repeated chunks, failing stores of a new shard, rollbacks and crashes; except
\* after a power loss cost the WAL entries, and except the documents that a crash
\* left in a shard whose number was never stored.
THEOREM CommittedIsFound == Spec => []CommittedFindable
<1> DEFINE I == Inv /\ (walCut \/ FindInv)
<1>1. Init => I
  BY InitInv, InitFind
<1>2. I /\ [Next]_vars => I'
  BY StepInv, StepFind, CutStays
<1>3. I => CommittedFindable
  <2> SUFFICES ASSUME Inv, FindInv, NEW w \in CommitPositions, NEW d \in Docs \ hidden,
                      \E i \in 1 .. w : log[i].doc = d,
                      \A i \in 1 .. LastIndex : log[i].doc = d => log[i].act # Delete
               PROVE  FindShardByDocID(d) # {}
    BY DEF CommittedFindable
  <2>1. FoundUpTo(w)
    BY DEF FindInv, CommitPositions
  <2> QED
    BY <2>1 DEF FoundUpTo, Undeleted, Written, Found
<1> QED
  BY <1>1, <1>2, <1>3, PTL DEF Spec

-----------------------------------------------------------------------------
(* A shard fed by the replication stream.                                  *)

\* Every entry comes from CreateDocument with a caller-chosen ID.
StreamLog == \A i \in 1 .. LastIndex : log[i].act = Update /\ log[i].sh = NeedUpdate

\* Shards that do not exist are empty, but for what a crash left in them.
UnusedEmpty == \A t \in ShardIDs : t > Latest => \A d \in Docs \ hidden : idx[t][d] = <<>>

ChunkDocs == GroupDocs(NeedUpdate, start, hi)

\* The chunk's group was written: to the latest shard and, as deletes, to the
\* older shards up to `other`.
WrittenSoFar ==
    \A d \in ChunkDocs : /\ idx[Latest][d] = Replay(hi, d)
                         /\ \A t \in 0 .. other - 1 : idx[t][d] = <<>>

\* Between groups: the one group of the chunk is still to do, or stored.
WritePhase ==
    pc = "write" => /\ todo \subseteq {NeedUpdate}
                    /\ NeedUpdate \notin todo => \A d \in ChunkDocs \ hidden : Shows(d, Replay(hi, d))

OthersPhase ==
    pc = "others" => /\ todo \subseteq {NeedUpdate}
                     /\ other \in 0 .. Latest - 1
                     /\ WrittenSoFar

\* CommittedDocsExact, written out, for a WAL that lost nothing.
DocsExact == ExactUpTo(redoDisk.write[2]) /\ (open => ExactUpTo(Committed))

StreamInv ==
    /\ StreamLog
    /\ UnusedEmpty
    /\ CommitsBounded
    /\ DocsExact
    /\ WritePhase
    /\ OthersPhase

\* In a stream-fed log the merge of a chunk gives every document of it the
\* version that replaying the log up to the end of the chunk gives it.
LEMMA MergedIsReplay ==
  ASSUME TypeOK, StreamLog, hi <= LastIndex, NEW d \in ChunkDocs
  PROVE  /\ MergedAction(NeedUpdate, d, start, hi) = Update
         /\ <<MergedData(NeedUpdate, d, start, hi)>> = Replay(hi, d)
<1> DEFINE ids == GroupIDs(NeedUpdate, d, start, hi)
           all == {i \in 1 .. hi : log[i].doc = d}
<1>1. start \in Nat \ {0} /\ hi \in Nat /\ LastIndex \in Nat
  BY DEF TypeOK, LastIndex
<1>2. /\ ids \subseteq start .. hi /\ ids \subseteq 1 .. hi
      /\ Max(ids) \in ids /\ Min(ids) \in ids /\ \A i \in ids : Max(ids) >= i
  BY <1>1, GroupIDsBound DEF ChunkDocs
<1>3. \A i \in all : i \in 1 .. LastIndex /\ log[i].act = Update /\ log[i].sh = NeedUpdate
  BY <1>1 DEF StreamLog
<1>4. ids = {i \in all : i >= start}
  BY <1>1, <1>3 DEF GroupIDs
<1>5. all # {} /\ Max(all) \in all /\ \A i \in all : Max(all) >= i
  <2>1. all # {} /\ all \in SUBSET (1 .. hi)
    BY <1>2, <1>4
  <2> HIDE DEF all
  <2> QED
    BY <1>1, <2>1, MaxOfInterval
<1>6. Max(all) = Max(ids)
  <2>1. Max(ids) \in all /\ Max(ids) >= start
    BY <1>2, <1>4
  <2>2. Max(all) >= Max(ids) /\ Max(all) \in Nat /\ Max(ids) \in Nat
    BY <1>1, <1>2, <1>5, <2>1
  <2>3. Max(all) >= start
    BY <1>1, <2>1, <2>2
  <2>4. Max(all) \in ids
    BY <1>4, <1>5, <2>3
  <2>5. Max(ids) >= Max(all)
    BY <1>2, <2>4
  <2> HIDE DEF all, ids
  <2> QED
    BY <2>2, <2>5
<1>7. log[Min(ids)].act = Update /\ log[Max(ids)].act = Update
  BY <1>2, <1>3, <1>4
<1>8. MergedAction(NeedUpdate, d, start, hi) = Update
  BY <1>7 DEF MergedAction, Merged, Insert, Update, Delete
<1>9. Replay(hi, d) = <<log[Max(all)].val>>
  BY <1>5, <1>6, <1>7 DEF Replay, Update, Delete
<1> QED
  BY <1>6, <1>8, <1>9 DEF MergedData

\* A document without an entry in a stretch of the log replays to the same
\* version at both ends of it.
LEMMA ReplaySkips ==
  ASSUME NEW w \in Nat, NEW h \in Nat, w <= h, NEW d,
         \A i \in w + 1 .. h : log[i].doc # d
  PROVE  Replay(h, d) = Replay(w, d)
<1>1. {i \in 1 .. h : log[i].doc = d} = {i \in 1 .. w : log[i].doc = d}
  OBVIOUS
<1> QED
  BY <1>1 DEF Replay

\* A shard that exists is a shard ID, and still exists when there are more.
LEMMA ShardRange ==
  ASSUME NEW n \in 1 .. MaxShards, NEW m \in Nat, m >= n, NEW s \in 0 .. n - 1
  PROVE  s \in 0 .. m - 1 /\ s \in ShardIDs
  BY ConstantsAssumption DEF ShardIDs

\* A second-layer shard past the latest one is none of those a reader looks at.
LEMMA ShardBeyond ==
  ASSUME NEW n \in 1 .. MaxShards, NEW m \in Nat, m >= n, NEW t \in ShardIDs, t > m - 1
  PROVE  t > n - 1
  BY ConstantsAssumption DEF ShardIDs

\* A batch that leaves alone the documents that are committed up to w keeps
\* them exact; so does a new shard, which is empty.
LEMMA UntouchedExact ==
  ASSUME NEW w \in Nat, ExactUpTo(w), log' = log, hidden' = hidden,
         shardNum \in 1 .. MaxShards, shardNum' \in Nat, shardNum' >= shardNum,
         \A d \in Docs : NoEntryAfter(w, d) => \A s \in ShardIDs : idx'[s][d] = idx[s][d]
  PROVE  ExactUpTo(w)'
<1> SUFFICES ASSUME NEW d \in Docs \ hidden, NoEntryAfter(w, d)'
             PROVE  Shows(d, Replay(w, d))'
  BY DEF ExactUpTo
<1>1. NoEntryAfter(w, d) /\ Replay(w, d)' = Replay(w, d)
  BY DEF NoEntryAfter, LastIndex, Replay
<1>2. PICK s \in 0 .. Latest : /\ idx[s][d] = Replay(w, d)
                               /\ \A t \in ShardIDs \ {s} : idx[t][d] = <<>>
  BY <1>1 DEF ExactUpTo, Shows
<1>3. s \in 0 .. shardNum' - 1 /\ s \in ShardIDs
  BY ShardRange DEF Latest
<1>4. s \in 0 .. Latest'
  BY <1>3 DEF Latest
<1>5. idx'[s][d] = Replay(w, d)' /\ \A t \in ShardIDs \ {s} : idx'[t][d] = <<>>
  BY <1>1, <1>2, <1>3
<1>6. \A t \in ShardIDs' : t \in ShardIDs
  BY DEF ShardIDs
<1> QED
  BY <1>4, <1>5, <1>6 DEF Shows

\* Steps that touch neither the log nor the index: the commit positions are
\* ones that memory or the file had before.
LEMMA FrameCommitted ==
  ASSUME Inv, DocsExact, log' = log, idx' = idx, shardNum' = shardNum, hidden' = hidden,
         \/ redoDisk'.write = redoDisk.write
         \/ open /\ redoDisk'.write = redo.write,
         open' => \/ redo'.write = redoDisk.write
                  \/ open /\ redo'.write = redo.write
  PROVE  DocsExact'
<1>1. redo.write[2] \in Nat /\ redoDisk.write[2] \in Nat /\ shardNum \in 1 .. MaxShards
  BY DEF Inv, TypeOK, Ranges
<1>2. ASSUME NEW w \in Nat, ExactUpTo(w) PROVE ExactUpTo(w)'
  BY <1>1, <1>2, UntouchedExact
<1>3. PICK d \in Nat : d = redoDisk.write[2]
  BY <1>1
<1>4. PICK m \in Nat : m = redo.write[2]
  BY <1>1
<1>5. ExactUpTo(d)' /\ (open => ExactUpTo(m)')
  BY <1>2, <1>3, <1>4 DEF DocsExact, Committed
<1> QED
  BY <1>3, <1>4, <1>5 DEF DocsExact, Committed

\* CreateNamed: what is committed does not depend on newer entries.
LEMMA CreateStream ==
  ASSUME Inv, StreamInv, NEW d0 \in Docs, CreateNamed(d0)
  PROVE  StreamInv'
<1> DEFINE e == [doc |-> d0, act |-> Update, sh |-> NeedUpdate, val |-> writes + 1]
<1>1. /\ log' = Append(log, e)
      /\ UNCHANGED <<redo, redoDisk, shardNum, hidden, idx, open, pc, start, hi, todo, other>>
  BY DEF CreateNamed, WALWrite, redoVars, indexVars, procVars, tickVars,
        shardVars, crashVars
<1>2. /\ log \in Seq(Entries) /\ Len(log) \in Nat /\ start \in Nat \ {0} /\ hi \in Nat
      /\ redo.write[2] \in Nat /\ redoDisk.write[2] \in Nat
  BY DEF Inv, TypeOK, Ranges
<1>3. /\ Len(log') = Len(log) + 1 /\ \A i \in 1 .. Len(log) : log'[i] = log[i]
      /\ log'[Len(log) + 1] = e
  BY <1>1, <1>2
<1>4. ASSUME NEW w \in Nat, w <= Len(log), NEW d PROVE Replay(w, d)' = Replay(w, d)
  <2>1. {i \in 1 .. w : log'[i].doc = d} = {i \in 1 .. w : log[i].doc = d}
    BY <1>2, <1>3, <1>4
  <2>2. {i \in 1 .. w : log[i].doc = d} # {} =>
          log'[Max({i \in 1 .. w : log[i].doc = d})] = log[Max({i \in 1 .. w : log[i].doc = d})]
    <3> DEFINE S == {i \in 1 .. w : log[i].doc = d}
    <3>1. S \in SUBSET (1 .. w)
      OBVIOUS
    <3>2. S # {} => Max(S) \in 1 .. w
      <4> HIDE DEF S
      <4> QED
        BY <3>1, MaxOfInterval
    <3> QED
      BY <1>2, <1>3, <1>4, <3>2
  <2> QED
    BY <2>1, <2>2 DEF Replay
<1>5. ASSUME NEW w \in Nat, w <= Len(log), ExactUpTo(w) PROVE ExactUpTo(w)'
  <2> SUFFICES ASSUME NEW d \in Docs \ hidden, NoEntryAfter(w, d)' PROVE Shows(d, Replay(w, d))'
    BY <1>1 DEF ExactUpTo
  <2>1. NoEntryAfter(w, d)
    BY <1>2, <1>3, <1>5 DEF NoEntryAfter, LastIndex
  <2>2. Shows(d, Replay(w, d))
    BY <1>5, <2>1 DEF ExactUpTo
  <2> QED
    BY <1>1, <1>4, <1>5, <2>2 DEF Shows, Latest
<1>6. DocsExact'
  <2>1. PICK a \in Nat : a = redoDisk.write[2]
    BY <1>2
  <2>2. PICK m \in Nat : m = redo.write[2]
    BY <1>2
  <2>3. a <= Len(log) /\ m <= Len(log)
    BY <2>1, <2>2 DEF StreamInv, CommitsBounded, Committed, LastIndex
  <2>4. ExactUpTo(a)' /\ (open => ExactUpTo(m)')
    BY <1>5, <2>1, <2>2, <2>3 DEF StreamInv, DocsExact, Committed
  <2> QED
    BY <1>1, <2>1, <2>2, <2>4 DEF DocsExact, Committed
<1>7. StreamLog'
  BY <1>2, <1>3 DEF StreamInv, StreamLog, LastIndex
<1>8. UnusedEmpty' /\ CommitsBounded'
  BY <1>1, <1>2, <1>3 DEF StreamInv, UnusedEmpty, Latest, CommitsBounded, Committed, LastIndex
<1>9. ASSUME pc \in {"write", "others"}
      PROVE  ChunkDocs' = ChunkDocs /\ hi <= Len(log)
  <2>1. hi <= Len(log)
    BY <1>2, <1>9 DEF Inv, CtlInv, LastIndex
  <2>2. \A i \in start .. hi : log'[i] = log[i]
    BY <1>2, <1>3, <2>1
  <2> QED
    BY <1>1, <2>1, <2>2 DEF ChunkDocs, GroupDocs
<1>10. PICK h \in Nat : h = hi
  BY <1>2
<1>11. ASSUME pc \in {"write", "others"}, NEW d PROVE Replay(hi, d)' = Replay(hi, d)
  <2>1. Replay(h, d)' = Replay(h, d)
    BY <1>4, <1>9, <1>10, <1>11
  <2> QED
    BY <1>1, <1>10, <2>1 DEF Replay
<1>12. WritePhase'
  BY <1>1, <1>9, <1>11 DEF StreamInv, WritePhase, Shows, Latest
<1>13. OthersPhase'
  BY <1>1, <1>9, <1>11 DEF StreamInv, OthersPhase, WrittenSoFar, Latest
<1> QED
  BY <1>6, <1>7, <1>8, <1>12, <1>13 DEF StreamInv

\* Steps of the environment that leave log and index alone, and are not in the
\* middle of a chunk afterwards.
LEMMA QuietStream ==
  ASSUME Inv, StreamInv, log' = log, idx' = idx, shardNum' = shardNum, hidden' = hidden,
         pc' \notin {"write", "others"},
         \/ redoDisk'.write = redoDisk.write
         \/ open /\ redoDisk'.write = redo.write,
         redo'.write = redoDisk.write \/ redo'.write = redo.write,
         open' => \/ redo'.write = redoDisk.write
                  \/ open /\ redo'.write = redo.write
  PROVE  StreamInv'
<1>1. DocsExact'
  BY FrameCommitted DEF StreamInv
<1>2. StreamLog' /\ UnusedEmpty'
  BY DEF StreamInv, StreamLog, UnusedEmpty, LastIndex, Latest
<1>3. CommitsBounded'
  BY DEF StreamInv, CommitsBounded, Committed, LastIndex
<1>4. WritePhase' /\ OthersPhase'
  BY DEF WritePhase, OthersPhase
<1> QED
  BY <1>1, <1>2, <1>3, <1>4 DEF StreamInv

\* Rolling back a stream-fed shard changes no document: no group of the redo
\* range has a shard of its own.
LEMMA RollbackEffect ==
  ASSUME Inv, StreamInv, Rollback \/ RollbackFails
  PROVE  idx' = idx
<1> DEFINE lo == redo.read[1]
           h  == redo.read[2]
<1>1. idx \in [ShardIDs -> [Docs -> Seq(Nat)]] /\ lo \in Nat /\ h \in Nat
  BY DEF Inv, TypeOK, Ranges
<1>2. ASSUME RedoReadable, NEW s \in ShardIDs PROVE s \notin GroupsOf(lo, h)
  <2>1. \A i \in lo .. h : i \in 1 .. LastIndex
    BY <1>1, <1>2 DEF RedoReadable, Readable, Inv, TypeOK, LastIndex
  <2>2. \A i \in lo .. h : log[i].sh = NeedUpdate
    BY <2>1 DEF StreamInv, StreamLog
  <2>3. s # NeedUpdate
    BY ConstantsAssumption DEF ShardIDs, NeedUpdate
  <2> QED
    BY <2>2, <2>3 DEF GroupsOf
<1>3. ASSUME RedoReadable, NEW S PROVE RolledBack(S) = idx
  BY <1>1, <1>2, <1>3 DEF RolledBack
<1> QED
  BY <1>3 DEF Rollback, RollbackFails

\* So it keeps what is committed.
LEMMA RollbackStream ==
  ASSUME Inv, StreamInv, Rollback \/ RollbackFails
  PROVE  StreamInv'
<1>1. idx' = idx
  BY RollbackEffect
<1>2. /\ log' = log /\ shardNum' = shardNum /\ hidden' = hidden
      /\ redo' = redo /\ redoDisk' = redoDisk
      /\ open' = open /\ open /\ pc' = "idle"
  BY DEF Rollback, RollbackFails, walVars, redoVars, shardVars, procVars, countVars, crashVars,
         Inv, CtlInv
<1> QED
  BY <1>1, <1>2, QuietStream

\* A new second-layer shard, stored or not.
LEMMA CheckStream ==
  ASSUME Inv, StreamInv, CheckShards \/ UpdateMetadata
  PROVE  StreamInv'
<1>1. /\ log' = log /\ idx' = idx /\ redo' = redo /\ redoDisk' = redoDisk /\ open' = open
      /\ shardNum' \in Nat /\ shardNum' >= shardNum /\ shardNum \in 1 .. MaxShards
      /\ pc' \notin {"write", "others"} /\ hidden' = hidden
  BY ConstantsAssumption DEF CheckShards, UpdateMetadata, walVars, redoVars, shardVars,
     procVars, crashVars, Inv, TypeOK
<1>2. redo.write[2] \in Nat /\ redoDisk.write[2] \in Nat
  BY DEF Inv, TypeOK, Ranges
<1>3. ASSUME NEW w \in Nat, ExactUpTo(w) PROVE ExactUpTo(w)'
  BY <1>1, <1>3, UntouchedExact
<1>4. DocsExact'
  <2>1. PICK a \in Nat : a = redoDisk.write[2]
    BY <1>2
  <2>2. PICK m \in Nat : m = redo.write[2]
    BY <1>2
  <2>3. ExactUpTo(a)' /\ (open => ExactUpTo(m)')
    BY <1>3, <2>1, <2>2 DEF StreamInv, DocsExact, Committed
  <2> QED
    BY <1>1, <2>1, <2>2, <2>3 DEF DocsExact, Committed
<1>5. StreamLog' /\ CommitsBounded'
  BY <1>1 DEF StreamInv, StreamLog, CommitsBounded, Committed, LastIndex
<1>6. UnusedEmpty'
  <2>1. \A t \in ShardIDs : t > shardNum' - 1 => t > shardNum - 1
    BY <1>1, ShardBeyond
  <2> QED
    BY <1>1, <2>1 DEF StreamInv, UnusedEmpty, Latest, ShardIDs
<1>7. WritePhase' /\ OthersPhase'
  BY <1>1 DEF WritePhase, OthersPhase
<1> QED
  BY <1>4, <1>5, <1>6, <1>7 DEF StreamInv

\* A chunk of a stream-fed log has one group.
LEMMA ReadStream ==
  ASSUME Inv, StreamInv, ReadChunk
  PROVE  StreamInv'
<1>1. PICK h \in start .. maxID :
        /\ \A i \in start .. h : Readable(i)
        /\ redo' = [redo EXCEPT !.read = <<start, h>>]
        /\ redoDisk' = redo'
        /\ todo' = GroupsOf(start, h)
  BY DEF ReadChunk
<1>2. /\ log' = log /\ idx' = idx /\ shardNum' = shardNum /\ open' = open /\ open
      /\ pc' = "write" /\ hidden' = hidden
  BY DEF ReadChunk, walVars, indexVars, procVars, Inv, CtlInv, shardVars,
        countVars, crashVars
<1>3. start \in Nat /\ h \in Nat /\ start <= h /\ start .. h \subseteq 1 .. LastIndex
  BY <1>1 DEF Inv, TypeOK, Readable, LastIndex
<1>4. todo' = {NeedUpdate}
  <2>1. \A i \in start .. h : log[i].sh = NeedUpdate
    BY <1>3 DEF StreamInv, StreamLog
  <2>2. start \in start .. h
    BY <1>3
  <2> QED
    BY <1>1, <2>1, <2>2 DEF GroupsOf
<1>5. redo'.write = redo.write /\ redoDisk'.write = redo.write
  BY <1>1, <1>3, RecordType DEF Inv
<1>6. DocsExact'
  BY <1>2, <1>5, FrameCommitted DEF StreamInv
<1>7. StreamLog' /\ UnusedEmpty' /\ CommitsBounded'
  BY <1>2, <1>5 DEF StreamInv, StreamLog, UnusedEmpty, CommitsBounded, Committed, LastIndex, Latest
<1>8. WritePhase' /\ OthersPhase'
  BY <1>2, <1>4 DEF WritePhase, OthersPhase
<1> QED
  BY <1>6, <1>7, <1>8 DEF StreamInv

\* A document of the chunk has an entry after the commit position.
LEMMA ChunkDocsUncommitted ==
  ASSUME Inv, pc \in {"write", "others"}, NEW d \in ChunkDocs
  PROVE  ~ NoEntryAfter(redo.write[2], d) /\ redo = redoDisk
<1>1. start \in Nat /\ hi \in start .. LastIndex /\ start = redo.write[2] + 1 /\ LastIndex \in Nat
  BY DEF Inv, TypeOK, CtlInv, Committed, LastIndex
<1>2. redo.write[2] \in Nat /\ redo = redoDisk
  BY DEF Inv, TypeOK, Ranges, CtlInv
<1>3. PICK i \in start .. hi : log[i].doc = d
  BY DEF ChunkDocs, GroupDocs
<1>4. i \in redo.write[2] + 1 .. LastIndex
  BY <1>1, <1>2, <1>3
<1> QED
  BY <1>2, <1>3, <1>4 DEF NoEntryAfter

\* A batch that touches only documents of the chunk keeps what is committed.
LEMMA ChunkBatchExact ==
  ASSUME Inv, DocsExact, pc \in {"write", "others"},
         log' = log, shardNum' = shardNum, hidden' = hidden, redo' = redo, redoDisk' = redoDisk, open' = open,
         \A d \in Docs \ ChunkDocs : \A s \in ShardIDs : idx'[s][d] = idx[s][d]
  PROVE  DocsExact'
<1>1. shardNum \in 1 .. MaxShards /\ redo.write[2] \in Nat /\ open /\ redo = redoDisk
  BY DEF Inv, TypeOK, Ranges, CtlInv
<1>2. PICK w \in Nat : w = redo.write[2]
  BY <1>1
<1>3. \A d \in Docs : NoEntryAfter(w, d) => \A s \in ShardIDs : idx'[s][d] = idx[s][d]
  BY <1>2, ChunkDocsUncommitted
<1>4. ExactUpTo(w)
  BY <1>1, <1>2 DEF DocsExact, Committed
<1>5. shardNum' \in Nat /\ shardNum' >= shardNum
  BY <1>1
<1>6. ExactUpTo(w)'
  BY <1>1, <1>3, <1>4, <1>5, UntouchedExact
<1> QED
  BY <1>1, <1>2, <1>6 DEF DocsExact, Committed

\* The first batch of the chunk's group goes to the latest shard.
LEMMA WriteEffect ==
  ASSUME Inv, StreamInv, NEW g \in Groups, WriteToShard(g)
  PROVE  /\ pc = "write" /\ g = NeedUpdate /\ todo \subseteq {NeedUpdate}
         /\ UNCHANGED <<log, shardNum, hidden, redo, redoDisk, open, start, hi>>
         /\ shardNum \in 1 .. MaxShards /\ Latest \in 0 .. Latest /\ Latest \in ShardIDs
         /\ idx \in [ShardIDs -> [Docs -> Seq(Nat)]] /\ hi <= LastIndex
         /\ \A d \in Docs, s \in ShardIDs :
              idx'[s][d] = IF s = Latest /\ d \in ChunkDocs THEN Replay(hi, d) ELSE idx[s][d]
<1>1. /\ pc = "write" /\ g = NeedUpdate /\ todo \subseteq {NeedUpdate}
      /\ UNCHANGED <<log, shardNum, hidden, redo, redoDisk, open, start, hi>>
  BY DEF WriteToShard, StreamInv, WritePhase, walVars, redoVars, procVars,
        shardVars, countVars, crashVars
<1>2. /\ shardNum \in 1 .. MaxShards /\ Latest \in 0 .. Latest /\ Latest \in ShardIDs
      /\ idx \in [ShardIDs -> [Docs -> Seq(Nat)]] /\ hi <= LastIndex
  BY <1>1, ConstantsAssumption DEF Inv, TypeOK, CtlInv, Latest, ShardIDs, LastIndex
<1>3. idx' = [idx EXCEPT ![Latest] = BatchOn(@, NeedUpdate, start, hi)]
  BY <1>1 DEF WriteToShard, NeedUpdate
<1>4. ASSUME NEW d \in Docs, NEW s \in ShardIDs
      PROVE  idx'[s][d] = IF s = Latest /\ d \in ChunkDocs THEN Replay(hi, d) ELSE idx[s][d]
  <2>1. CASE s # Latest
    BY <1>2, <1>3, <2>1
  <2>2. CASE s = Latest /\ d \notin ChunkDocs
    BY <1>2, <1>3, <2>2 DEF BatchOn, ChunkDocs
  <2>3. CASE s = Latest /\ d \in ChunkDocs
    <3>1. /\ MergedAction(NeedUpdate, d, start, hi) = Update
          /\ <<MergedData(NeedUpdate, d, start, hi)>> = Replay(hi, d)
      BY <1>2, <2>3, MergedIsReplay DEF Inv, StreamInv
    <3>2. BatchOn(idx[s], NeedUpdate, start, hi)[d] = <<MergedData(NeedUpdate, d, start, hi)>>
      BY <2>3, <3>1 DEF BatchOn, ChunkDocs, Insert, Update, Delete
    <3> QED
      BY <1>2, <1>3, <2>3, <3>1, <3>2
  <2> QED
    BY <2>1, <2>2, <2>3
<1> QED
  BY <1>1, <1>2, <1>4

\* It leaves the committed documents exact.
LEMMA WriteStream ==
  ASSUME Inv, StreamInv, NEW g \in Groups, WriteToShard(g)
  PROVE  StreamInv'
<1>1. /\ pc = "write" /\ g = NeedUpdate /\ todo \subseteq {NeedUpdate}
      /\ UNCHANGED <<log, shardNum, hidden, redo, redoDisk, open, start, hi>>
  BY WriteEffect
<1>2. /\ shardNum \in 1 .. MaxShards /\ Latest \in 0 .. Latest /\ Latest \in ShardIDs
      /\ idx \in [ShardIDs -> [Docs -> Seq(Nat)]] /\ hi <= LastIndex
  BY WriteEffect
<1>4. \A d \in Docs, s \in ShardIDs :
        idx'[s][d] = IF s = Latest /\ d \in ChunkDocs THEN Replay(hi, d) ELSE idx[s][d]
  BY WriteEffect
<1>5. DocsExact'
  BY <1>1, <1>4, ChunkBatchExact DEF StreamInv
<1>6. StreamLog' /\ CommitsBounded'
  BY <1>1 DEF StreamInv, StreamLog, CommitsBounded, Committed, LastIndex
<1>7. UnusedEmpty'
  BY <1>1, <1>4 DEF StreamInv, UnusedEmpty, Latest, ShardIDs
<1>8. ChunkDocs' = ChunkDocs /\ Latest' = Latest /\ ChunkDocs \subseteq Docs
  <2>1. \A i \in start .. hi : log[i] \in Entries
    BY <1>1, <1>2 DEF Inv, TypeOK, CtlInv, LastIndex
  <2> QED
    BY <1>1, <2>1 DEF ChunkDocs, GroupDocs, Latest, Entries
<1>9. \A d : Replay(hi, d)' = Replay(hi, d)
  BY <1>1 DEF Replay
<1>10. CASE shardNum > 1
  <2>1. pc' = "others" /\ other' = 0 /\ todo' = todo
    BY <1>1, <1>10 DEF WriteToShard
  <2>2. 0 \in 0 .. Latest - 1
    BY <1>2, <1>10 DEF Latest
  <2>3. WrittenSoFar'
    BY <1>2, <1>4, <1>8, <1>9, <2>1 DEF WrittenSoFar
  <2>4. OthersPhase' /\ WritePhase'
    BY <1>1, <1>8, <2>1, <2>2, <2>3 DEF OthersPhase, WritePhase
  <2> QED
    BY <1>5, <1>6, <1>7, <2>4 DEF StreamInv
<1>11. CASE ~ (shardNum > 1)
  <2>1. pc' = "write" /\ todo' = todo \ {NeedUpdate}
    BY <1>1, <1>11 DEF WriteToShard
  <2>2. ASSUME NEW d \in ChunkDocs \ hidden PROVE Shows(d, Replay(hi, d))'
    <3>1. Latest = 0
      BY <1>2, <1>11 DEF Latest
    <3>2. \A t \in ShardIDs \ {0} : t > Latest
      BY <3>1, ConstantsAssumption DEF ShardIDs
    <3>3. \A t \in ShardIDs \ {0} : idx'[t][d] = <<>>
      BY <1>4, <1>8, <3>1, <3>2 DEF StreamInv, UnusedEmpty
    <3>4. idx'[0][d] = Replay(hi, d)
      BY <1>2, <1>4, <1>8, <3>1
    <3> QED
      BY <1>2, <1>8, <1>9, <3>1, <3>3, <3>4 DEF Shows, ShardIDs
  <2>3. OthersPhase' /\ WritePhase'
    BY <1>1, <1>8, <2>1, <2>2 DEF OthersPhase, WritePhase
  <2> QED
    BY <1>5, <1>6, <1>7, <2>3 DEF StreamInv
<1> QED
  BY <1>10, <1>11

\* The deletes for one older shard.
LEMMA OtherEffect ==
  ASSUME Inv, StreamInv, WriteToOther
  PROVE  /\ pc = "others" /\ todo \subseteq {NeedUpdate} /\ other \in 0 .. Latest - 1 /\ WrittenSoFar
         /\ UNCHANGED <<log, shardNum, hidden, redo, redoDisk, open, start, hi>>
         /\ shardNum \in 1 .. MaxShards /\ Latest \in Nat /\ Latest \in ShardIDs /\ other \in ShardIDs
         /\ idx \in [ShardIDs -> [Docs -> Seq(Nat)]] /\ hi <= LastIndex
         /\ \A d \in Docs, s \in ShardIDs :
              idx'[s][d] = IF s = other /\ d \in ChunkDocs THEN <<>> ELSE idx[s][d]
<1>1. /\ pc = "others" /\ todo \subseteq {NeedUpdate} /\ other \in 0 .. Latest - 1 /\ WrittenSoFar
      /\ UNCHANGED <<log, shardNum, hidden, redo, redoDisk, open, start, hi>>
  BY DEF WriteToOther, StreamInv, OthersPhase, walVars, redoVars, procVars,
        shardVars, countVars, crashVars
<1>2. /\ shardNum \in 1 .. MaxShards /\ Latest \in Nat /\ Latest \in ShardIDs /\ other \in ShardIDs
      /\ idx \in [ShardIDs -> [Docs -> Seq(Nat)]] /\ hi <= LastIndex
  BY <1>1, ConstantsAssumption DEF Inv, TypeOK, CtlInv, Latest, ShardIDs, LastIndex
<1>3. idx' = [idx EXCEPT ![other] = OtherBatchOn(@, NeedUpdate, start, hi)]
  BY DEF WriteToOther
<1>4. ASSUME NEW d \in Docs, NEW s \in ShardIDs
      PROVE  idx'[s][d] = IF s = other /\ d \in ChunkDocs THEN <<>> ELSE idx[s][d]
  <2>1. CASE s # other
    BY <1>2, <1>3, <2>1
  <2>2. CASE s = other /\ d \notin ChunkDocs
    BY <1>2, <1>3, <2>2 DEF OtherBatchOn, ChunkDocs
  <2>3. CASE s = other /\ d \in ChunkDocs
    <3>1. MergedAction(NeedUpdate, d, start, hi) = Update
      BY <1>2, <2>3, MergedIsReplay DEF Inv, StreamInv
    <3> QED
      BY <1>2, <1>3, <2>3, <3>1 DEF OtherBatchOn, ChunkDocs
  <2> QED
    BY <2>1, <2>2, <2>3
<1> QED
  BY <1>1, <1>2, <1>4

\* The last of them completes the chunk.
LEMMA OtherStream ==
  ASSUME Inv, StreamInv, WriteToOther
  PROVE  StreamInv'
<1>1. /\ pc = "others" /\ todo \subseteq {NeedUpdate} /\ other \in 0 .. Latest - 1 /\ WrittenSoFar
      /\ UNCHANGED <<log, shardNum, hidden, redo, redoDisk, open, start, hi>>
  BY OtherEffect
<1>2. /\ shardNum \in 1 .. MaxShards /\ Latest \in Nat /\ Latest \in ShardIDs /\ other \in ShardIDs
      /\ idx \in [ShardIDs -> [Docs -> Seq(Nat)]] /\ hi <= LastIndex
  BY OtherEffect
<1>4. \A d \in Docs, s \in ShardIDs :
        idx'[s][d] = IF s = other /\ d \in ChunkDocs THEN <<>> ELSE idx[s][d]
  BY OtherEffect
<1>5. DocsExact'
  BY <1>1, <1>4, ChunkBatchExact DEF StreamInv
<1>6. StreamLog' /\ CommitsBounded'
  BY <1>1 DEF StreamInv, StreamLog, CommitsBounded, Committed, LastIndex
<1>7. UnusedEmpty'
  BY <1>1, <1>4 DEF StreamInv, UnusedEmpty, Latest, ShardIDs
<1>8. ChunkDocs' = ChunkDocs /\ Latest' = Latest /\ ChunkDocs \subseteq Docs
  <2>1. \A i \in start .. hi : log[i] \in Entries
    BY <1>1, <1>2 DEF Inv, TypeOK, CtlInv, LastIndex
  <2> QED
    BY <1>1, <2>1 DEF ChunkDocs, GroupDocs, Latest, Entries
<1>9. \A d : Replay(hi, d)' = Replay(hi, d)
  BY <1>1 DEF Replay
<1>10. ASSUME NEW d \in ChunkDocs
       PROVE  idx'[Latest][d] = Replay(hi, d) /\ \A t \in 0 .. other : idx'[t][d] = <<>>
  <2>1. idx'[Latest][d] = Replay(hi, d)
    BY <1>1, <1>2, <1>4, <1>8 DEF WrittenSoFar
  <2>2. \A t \in 0 .. other : t \in ShardIDs /\ (t = other \/ t \in 0 .. other - 1)
    BY <1>1, <1>2, ConstantsAssumption DEF ShardIDs
  <2> QED
    BY <1>1, <1>4, <1>8, <2>1, <2>2 DEF WrittenSoFar
<1>11. CASE other + 1 < Latest
  <2>1. pc' = "others" /\ other' = other + 1 /\ todo' = todo
    BY <1>1, <1>11 DEF WriteToOther
  <2>2. other + 1 \in 0 .. Latest - 1 /\ 0 .. (other + 1) - 1 = 0 .. other
    BY <1>1, <1>2, <1>11
  <2>3. WrittenSoFar'
    BY <1>8, <1>9, <1>10, <2>1, <2>2 DEF WrittenSoFar
  <2>4. OthersPhase' /\ WritePhase'
    BY <1>1, <1>8, <2>1, <2>2, <2>3 DEF OthersPhase, WritePhase
  <2> QED
    BY <1>5, <1>6, <1>7, <2>4 DEF StreamInv
<1>12. CASE ~ (other + 1 < Latest)
  <2>1. pc' = "write" /\ todo' = todo \ {NeedUpdate}
    BY <1>1, <1>12 DEF WriteToOther
  <2>2. ASSUME NEW d \in ChunkDocs \ hidden PROVE Shows(d, Replay(hi, d))'
    <3>1. \A t \in ShardIDs \ {Latest} : t \in 0 .. other \/ t > Latest
      BY <1>1, <1>2, <1>12, ConstantsAssumption DEF ShardIDs
    <3>2. \A t \in ShardIDs : t > Latest => idx'[t][d] = <<>>
      BY <1>1, <1>2, <1>4, <1>8 DEF StreamInv, UnusedEmpty
    <3>3. \A t \in ShardIDs \ {Latest} : idx'[t][d] = <<>>
      BY <1>10, <3>1, <3>2
    <3>4. Latest \in 0 .. Latest'
      BY <1>2, <1>8
    <3> QED
      BY <1>8, <1>9, <1>10, <3>3, <3>4 DEF Shows, ShardIDs
  <2>3. OthersPhase' /\ WritePhase'
    BY <1>1, <1>8, <2>1, <2>2 DEF OthersPhase, WritePhase
  <2> QED
    BY <1>5, <1>6, <1>7, <2>3 DEF StreamInv
<1> QED
  BY <1>11, <1>12

\* Once the chunk is stored everything up to its end is exact.
LEMMA ChunkExact ==
  ASSUME Inv, StreamInv, pc = "write", todo = {}
  PROVE  ExactUpTo(hi)
<1>1. /\ start \in Nat \ {0} /\ hi \in start .. LastIndex /\ start = redo.write[2] + 1
      /\ redo.write[2] \in Nat /\ LastIndex \in Nat /\ open
  BY DEF Inv, TypeOK, Ranges, CtlInv, Committed, LastIndex
<1>2. SUFFICES ASSUME NEW d \in Docs \ hidden, NoEntryAfter(hi, d) PROVE Shows(d, Replay(hi, d))
  BY DEF ExactUpTo
<1>3. CASE d \in ChunkDocs
  BY <1>3 DEF StreamInv, WritePhase
<1>4. CASE d \notin ChunkDocs
  <2>1. \A i \in start .. hi : log[i].doc # d
    <3>1. \A i \in start .. hi : log[i].sh = NeedUpdate
      BY <1>1 DEF StreamInv, StreamLog
    <3> QED
      BY <1>4, <3>1 DEF ChunkDocs, GroupDocs
  <2>2. NoEntryAfter(redo.write[2], d)
    BY <1>1, <1>2, <2>1 DEF NoEntryAfter
  <2>3. Shows(d, Replay(redo.write[2], d))
    BY <1>1, <2>2 DEF StreamInv, DocsExact, ExactUpTo, Committed
  <2>4. Replay(hi, d) = Replay(redo.write[2], d)
    <3>1. \A i \in redo.write[2] + 1 .. hi : log[i].doc # d
      BY <1>1, <2>1
    <3> QED
      BY <1>1, <3>1, ReplaySkips
  <2> QED
    BY <2>3, <2>4
<1> QED
  BY <1>3, <1>4

\* The commit, and the commit whose record did not reach the file.
LEMMA CommitStream ==
  ASSUME Inv, StreamInv, pc = "write", todo = {}, pc' \notin {"write", "others"},
         log' = log, idx' = idx, shardNum' = shardNum, hidden' = hidden, open' = open,
         redo' = [redo EXCEPT !.write = <<start, hi>>],
         redoDisk' = redo' \/ redoDisk' = redoDisk
  PROVE  StreamInv'
<1>1. start \in Nat /\ hi \in start .. LastIndex /\ LastIndex \in Nat /\ TypeOK
  BY DEF Inv, TypeOK, CtlInv, LastIndex
<1>2. redo'.write[2] = hi /\ redoDisk.write[2] \in Nat /\ hi \in Nat /\ shardNum \in 1 .. MaxShards
  BY <1>1, RecordType DEF TypeOK, Ranges
<1>3. PICK a \in Nat : a = redoDisk.write[2]
  BY <1>2
<1>4. PICK h \in Nat : h = hi
  BY <1>2
<1>5. ASSUME NEW w \in Nat, ExactUpTo(w) PROVE ExactUpTo(w)'
  BY <1>2, <1>5, UntouchedExact
<1>6. ExactUpTo(a)' /\ ExactUpTo(h)'
  BY <1>3, <1>4, <1>5, ChunkExact DEF StreamInv, DocsExact
<1>7. DocsExact'
  BY <1>2, <1>3, <1>4, <1>6 DEF DocsExact, Committed
<1>8. StreamLog' /\ UnusedEmpty'
  BY DEF StreamInv, StreamLog, UnusedEmpty, LastIndex, Latest
<1>9. CommitsBounded'
  <2>1. hi <= Len(log') /\ redoDisk.write[2] <= Len(log')
    BY <1>1 DEF StreamInv, CommitsBounded, LastIndex
  <2>2. redoDisk'.write[2] = hi \/ redoDisk'.write[2] = redoDisk.write[2]
    BY <1>2
  <2> QED
    BY <1>2, <2>1, <2>2 DEF CommitsBounded, Committed, LastIndex
<1>10. WritePhase' /\ OthersPhase'
  BY DEF WritePhase, OthersPhase
<1> QED
  BY <1>7, <1>8, <1>9, <1>10 DEF StreamInv

\* The initial state of a stream-fed shard.
LEMMA InitStream == Init => StreamInv
<1> SUFFICES ASSUME Init PROVE StreamInv
  OBVIOUS
<1>1. Len(log) = 0 /\ shardNum = 1 /\ redoDisk.write[2] = 0 /\ ~open /\ redo.write[2] = 0
  BY DEF Init, Absent
<1>2. \A t \in ShardIDs, d \in Docs : idx[t][d] = <<>>
  BY DEF Init
<1>3. ExactUpTo(0)
  <2>1. \A d \in Docs : Replay(0, d) = <<>>
    BY DEF Replay
  <2>2. 0 \in 0 .. Latest /\ 0 \in ShardIDs
    BY <1>1, ConstantsAssumption DEF Latest, ShardIDs
  <2> QED
    BY <1>2, <2>1, <2>2 DEF ExactUpTo, Shows
<1>4. DocsExact
  BY <1>1, <1>3 DEF DocsExact
<1>5. StreamLog /\ UnusedEmpty /\ CommitsBounded
  BY <1>1, <1>2 DEF StreamLog, UnusedEmpty, CommitsBounded, LastIndex, Committed
<1>6. WritePhase /\ OthersPhase
  BY DEF Init, WritePhase, OthersPhase
<1> QED
  BY <1>4, <1>5, <1>6 DEF StreamInv

\* A crash that costs the WAL nothing: a document that is not hidden has all its
\* copies in shards the metadata knows.
LEMMA CrashStream ==
  ASSUME Inv, StreamInv, Crash, ~ walCut'
  PROVE  StreamInv'
<1>1. /\ log' = log /\ idx' = idx /\ redo' = redo /\ redoDisk' = redoDisk
      /\ pc' = "idle" /\ ~ open' /\ shardNum' = shardStored /\ hidden' = hidden \cup Unknown
  BY DEF Crash, redoVars
<1>2. /\ shardNum \in 1 .. MaxShards /\ shardStored \in 1 .. shardNum
      /\ redoDisk.write[2] \in Nat
  BY DEF Inv, TypeOK, Ranges
<1>3. ASSUME NEW d \in Docs \ hidden', NEW s \in ShardIDs, s >= shardStored
      PROVE  idx[s][d] = <<>>
  BY <1>1, <1>3 DEF Unknown
<1>4. UnusedEmpty'
  <2>1. \A t \in ShardIDs : t > shardStored - 1 => t >= shardStored
    BY <1>2 DEF ShardIDs
  <2> QED
    BY <1>1, <1>3, <2>1 DEF UnusedEmpty, Latest, ShardIDs
<1>5. ASSUME NEW d \in Docs \ hidden', NEW c, Shows(d, c) PROVE Shows(d, c)'
  <2>1. PICK s \in 0 .. Latest : /\ idx[s][d] = c
                                 /\ \A t \in ShardIDs \ {s} : idx[t][d] = <<>>
    BY <1>5 DEF Shows
  <2>2. s \in ShardIDs
    BY <1>2, ConstantsAssumption DEF Latest, ShardIDs
  <2>3. CASE s < shardStored
    <3>1. s \in 0 .. Latest'
      BY <1>1, <1>2, <2>2, <2>3 DEF Latest, ShardIDs
    <3> QED
      BY <1>1, <2>1, <3>1 DEF Shows, ShardIDs
  <2>4. CASE ~ (s < shardStored)
    <3>1. s >= shardStored
      BY <1>2, <2>2, <2>4 DEF ShardIDs
    <3>2. c = <<>> /\ \A t \in ShardIDs : idx[t][d] = <<>>
      BY <1>3, <2>1, <2>2, <3>1
    <3>3. 0 \in 0 .. Latest' /\ 0 \in ShardIDs
      BY <1>1, <1>2, ConstantsAssumption DEF Latest, ShardIDs
    <3> QED
      BY <1>1, <3>2, <3>3 DEF Shows, ShardIDs
  <2> QED
    BY <2>3, <2>4
<1>6. ASSUME NEW w \in Nat, ExactUpTo(w) PROVE ExactUpTo(w)'
  <2> SUFFICES ASSUME NEW d \in Docs \ hidden', NoEntryAfter(w, d)'
               PROVE  Shows(d, Replay(w, d))'
    BY DEF ExactUpTo
  <2>1. d \in Docs \ hidden
    BY <1>1
  <2>2. NoEntryAfter(w, d) /\ Replay(w, d)' = Replay(w, d)
    BY <1>1 DEF NoEntryAfter, LastIndex, Replay
  <2>3. Shows(d, Replay(w, d))
    BY <1>6, <2>1, <2>2 DEF ExactUpTo
  <2>4. PICK c : c = Replay(w, d)
    OBVIOUS
  <2>5. Shows(d, c)'
    BY <1>5, <2>3, <2>4
  <2> QED
    BY <2>2, <2>4, <2>5 DEF Shows
<1>7. DocsExact'
  <2>1. PICK a \in Nat : a = redoDisk.write[2]
    BY <1>2
  <2>2. ExactUpTo(a)'
    BY <1>6, <2>1 DEF StreamInv, DocsExact
  <2> QED
    BY <1>1, <2>1, <2>2 DEF DocsExact
<1>8. StreamLog' /\ CommitsBounded' /\ WritePhase' /\ OthersPhase'
  BY <1>1 DEF StreamInv, StreamLog, CommitsBounded, Committed, LastIndex, WritePhase, OthersPhase
<1> QED
  BY <1>4, <1>7, <1>8 DEF StreamInv

\* Every step of a stream-fed shard keeps the invariant of committed documents.
LEMMA StepStream == Inv /\ StreamInv /\ [StreamNext]_vars /\ ~ walCut' => StreamInv'
<1> SUFFICES ASSUME Inv, StreamInv, [StreamNext]_vars, ~ walCut' PROVE StreamInv'
  OBVIOUS
<1>1. ASSUME NEW d \in Docs, CreateNamed(d) PROVE StreamInv'
  BY <1>1, CreateStream
<1>2. CASE OpenWAL
  <2>1. /\ log' = log /\ idx' = idx /\ shardNum' = shardNum /\ hidden' = hidden /\ pc' = "rollback"
        /\ redoDisk' = redoDisk /\ redo' = redoDisk
    BY <1>2 DEF OpenWAL, walVars, indexVars, shardVars, countVars, crashVars
  <2> QED
    BY <2>1, QuietStream
<1>3. CASE Rollback \/ RollbackFails
  BY <1>3, RollbackStream
<1>4. CASE Sync \/ Bounds \/ ReadFails \/ ShardMissing \/ Truncate \/ ConsumeFails
  <2>1. /\ log' = log /\ idx' = idx /\ shardNum' = shardNum /\ hidden' = hidden
        /\ redo' = redo /\ redoDisk' = redoDisk /\ open' = open /\ pc' \notin {"write", "others"}
    BY <1>4 DEF Sync, Bounds, ReadFails, ShardMissing, Truncate, ConsumeFails, walVars, redoVars,
        indexVars, procVars, shardVars, countVars, crashVars
  <2>2. open' => open
    BY <2>1
  <2> QED
    BY <2>1, <2>2, QuietStream
<1>5. CASE ReadChunk
  BY <1>5, ReadStream
<1>6. ASSUME NEW g \in Groups, WriteToShard(g) PROVE StreamInv'
  BY <1>6, WriteStream
<1>7. CASE WriteToOther
  BY <1>7, OtherStream
<1>8. CASE CommitChunk
  <2>1. /\ pc = "write" /\ todo = {} /\ pc' \notin {"write", "others"}
        /\ log' = log /\ idx' = idx /\ shardNum' = shardNum /\ hidden' = hidden /\ open' = open
        /\ redo' = [redo EXCEPT !.write = <<start, hi>>] /\ redoDisk' = redo'
    BY <1>8 DEF CommitChunk, walVars, indexVars, procVars, shardVars, countVars, crashVars
  <2> QED
    BY <2>1, CommitStream
<1>9. CASE CheckShards \/ UpdateMetadata
  BY <1>9, CheckStream
<1>10. CASE RedoWriteFails
  <2>1. /\ pc' = "idle" /\ log' = log /\ idx' = idx /\ shardNum' = shardNum /\ hidden' = hidden /\ open' = open
        /\ redoDisk' = redoDisk
    BY <1>10 DEF RedoWriteFails, walVars, indexVars, procVars, shardVars, crashVars
  <2>2. CASE pc = "write" /\ todo = {} /\ redo' = [redo EXCEPT !.write = <<start, hi>>]
    BY <2>1, <2>2, CommitStream
  <2>3. ASSUME NEW h \in start .. maxID, redo' = [redo EXCEPT !.read = <<start, h>>]
        PROVE  StreamInv'
    <3>1. start \in Nat /\ h \in Nat /\ TypeOK
      BY DEF Inv, TypeOK
    <3>2. redo'.write = redo.write
      BY <2>3, <3>1, RecordType
    <3>3. open' => open
      BY <2>1
    <3> QED
      BY <2>1, <3>2, <3>3, QuietStream
  <2> QED
    BY <1>10, <2>2, <2>3 DEF RedoWriteFails
<1>11. CASE Crash
  BY <1>11, CrashStream
<1>12. CASE UNCHANGED vars
  <2>1. UNCHANGED <<log, idx, shardNum, hidden, redo, redoDisk, open, pc, start, hi, todo, other>>
    BY <1>12 DEF vars, walVars, redoVars, indexVars, procVars, tickVars, shardVars,
        countVars, crashVars
  <2>2. open' => open
    BY <2>1
  <2>3. DocsExact'
    BY <2>1, <2>2, FrameCommitted DEF StreamInv
  <2>4. StreamLog' /\ UnusedEmpty' /\ CommitsBounded'
    BY <2>1 DEF StreamInv, StreamLog, UnusedEmpty, CommitsBounded, Committed, LastIndex, Latest
  <2>5. ChunkDocs' = ChunkDocs /\ Latest' = Latest /\ \A d : Replay(hi, d)' = Replay(hi, d)
    BY <2>1 DEF ChunkDocs, GroupDocs, Latest, Replay
  <2>6. WritePhase'
    BY <2>1, <2>5 DEF StreamInv, WritePhase, Shows
  <2>7. OthersPhase'
    BY <2>1, <2>5 DEF StreamInv, OthersPhase, WrittenSoFar
  <2> QED
    BY <2>3, <2>4, <2>6, <2>7 DEF StreamInv
<1> QED
  BY <1>1, <1>2, <1>3, <1>4, <1>5, <1>6, <1>7, <1>8, <1>9, <1>10, <1>11, <1>12
  DEF StreamNext, Environment, Consume

\* Everything that happens to a stream-fed shard happens to a shard.
LEMMA StreamIsNext == [StreamNext]_vars => [Next]_vars
BY DEF StreamNext, Next

\* A stream-fed shard stores every document without an uncommitted entry exactly
\* once and in its last version, at every moment, through failed batches,
\* half-written redo records, failing stores of a new shard and crashes; except
\* after a power loss cost the WAL entries, and except the documents that a crash
\* left in a shard whose number was never stored.
THEOREM StreamExact == StreamSpec => []CommittedDocsExact
<1> DEFINE I == Inv /\ (walCut \/ StreamInv)
<1>1. Init => I
  BY InitInv, InitStream
<1>2. I /\ [StreamNext]_vars => I'
  BY StepInv, StepStream, StreamIsNext, CutStays
<1>3. I => CommittedDocsExact
  BY DEF StreamInv, DocsExact, CommittedDocsExact, CommitPositions
<1> QED
  BY <1>1, <1>2, <1>3, PTL DEF StreamSpec

-----------------------------------------------------------------------------
(* Versions only grow.  What makes it true is that a chunk is written only *)
(* after its range is in the redo file, and that a chunk which is cut off  *)
(* and read again ends no earlier than it did: the tick reaches as far,    *)
(* since nothing of the WAL is lost, and no group was full before.         *)

\* The version of a document is the WAL ID of the entry that wrote it.
Numbered ==
    /\ writes = LastIndex /\ writes <= MaxWrites
    /\ \A i \in 1 .. LastIndex : log[i].val = i

\* The last ID of the range in the redo file.
ReadUpTo == redoDisk.read[2]

\* Version v of document d comes from an entry that was announced.
Announced(v, d) == v \in 1 .. ReadUpTo /\ log[v].doc = d

StoredRead ==
    /\ ReadUpTo <= LastIndex
    /\ \A s \in ShardIDs, d \in Docs : \A i \in DOMAIN idx[s][d] : Announced(idx[s][d][i], d)

\* With w as the commit position, the announced range is committed, or it is
\* the chunk that a tick reads next.
Repeats(w) ==
    \/ ReadUpTo <= w
    \/ /\ redoDisk.read[1] = w + 1
       /\ ReadUpTo <= w + MaxBatchSize
       /\ NotFull(w + 1, ReadUpTo - 1)

TickReads ==
    /\ pc \in {"read", "write", "others"} => maxID <= Committed + MaxBatchSize
    /\ pc = "read" => ReadUpTo <= Committed \/ ReadUpTo <= maxID
    /\ pc \in {"write", "others"} => redoDisk.read = <<start, hi>>

GrowInv ==
    /\ Numbered
    /\ StoredRead
    /\ Repeats(redoDisk.write[2])
    /\ open => Repeats(Committed)
    /\ TickReads

\* The versions of d that are stored, wherever that is.
Versions(d) == UNION {{idx[s][d][i] : i \in DOMAIN idx[s][d]} : s \in ShardIDs}

\* The redo log and the tick in numbers.
LEMMA GrowTypes ==
  ASSUME Inv
  PROVE  /\ ReadUpTo \in Nat /\ redoDisk.read[1] \in Nat /\ Committed \in Nat /\ redoDisk.write[2] \in Nat
         /\ start \in Nat \ {0} /\ hi \in Nat /\ maxID \in Nat /\ LastIndex \in Nat /\ MaxBatchSize \in Nat \ {0}
         /\ pc \in {"read", "write", "others"} => open /\ start = Committed + 1
         /\ pc \in {"write", "others"} => redo = redoDisk /\ hi \in start .. LastIndex
<1>1. redo.read \in Nat \X Nat /\ redo.write \in Nat \X Nat /\ redoDisk.read \in Nat \X Nat /\ redoDisk.write \in Nat \X Nat
  BY DEF Inv, TypeOK, Ranges
<1> QED
  BY <1>1, ConstantsAssumption DEF Inv, TypeOK, CtlInv, ReadUpTo, Committed, LastIndex

\* NewestVersion is the newest of the stored versions, or 0 if there is none.
LEMMA MaxWithZero ==
  ASSUME NEW n \in Nat, NEW S \in SUBSET (1 .. n)
  PROVE  Max({0} \cup S) \in {0} \cup S /\ \A y \in {0} \cup S : Max({0} \cup S) >= y
<1>1. \E x \in {0} \cup S : \A y \in {0} \cup S : x >= y
  <2>1. CASE S = {}
    BY <2>1
  <2>2. CASE S # {}
    <3>1. PICK m \in S : \A y \in S : m >= y
      BY <2>2, MaxOfInterval
    <3>2. m >= 0
      OBVIOUS
    <3> QED
      BY <3>1, <3>2
  <2> QED
    BY <2>1, <2>2
<1> QED
  BY <1>1 DEF Max

\* If every version is still there, or a newer one, the newest is no older.
LEMMA NewestGrows ==
  ASSUME NEW n \in Nat, NEW S \in SUBSET (1 .. n), NEW T \in SUBSET (1 .. n),
         \A v \in S : \E w \in T : w >= v
  PROVE  Max({0} \cup T) >= Max({0} \cup S)
<1>1. Max({0} \cup S) \in {0} \cup S
  BY MaxWithZero
<1>2. Max({0} \cup T) \in {0} \cup T /\ \A y \in {0} \cup T : Max({0} \cup T) >= y
  BY MaxWithZero
<1> DEFINE a == Max({0} \cup S)
           b == Max({0} \cup T)
<1>3. a \in {0} \cup S /\ b \in {0} \cup T /\ \A y \in {0} \cup T : b >= y
  BY <1>1, <1>2
<1> HIDE DEF a, b
<1>4. b >= a
  <2>1. CASE a = 0
    <3>1. b \in Nat
      BY <1>3
    <3> QED
      BY <2>1, <3>1
  <2>2. CASE a \in S
    <3>1. PICK w \in T : w >= a
      BY <2>2
    <3>2. b >= w /\ w \in Nat /\ a \in Nat
      BY <1>3, <2>2
    <3> QED
      BY <1>3, <3>1, <3>2
  <2> QED
    BY <1>3, <2>1, <2>2
<1> QED
  BY <1>4 DEF a, b

\* The versions of d in the shards of S, with c as the content of the shards.
VersionsIn(c, d, S) == UNION {{c[t][d][i] : i \in DOMAIN c[t][d]} : t \in S}

\* Shards that hold nothing add nothing to what the first n hold.
LEMMA FirstShards ==
  ASSUME NEW c, NEW d, NEW n \in 1 .. MaxShards,
         \A t \in ShardIDs : t > n - 1 => c[t][d] = <<>>
  PROVE  VersionsIn(c, d, 0 .. n - 1) = VersionsIn(c, d, ShardIDs)
<1>1. \A t \in 0 .. n - 1 : t \in ShardIDs
  BY ConstantsAssumption DEF ShardIDs
<1>2. \A t \in ShardIDs : t \in 0 .. n - 1 \/ c[t][d] = <<>>
  BY ConstantsAssumption DEF ShardIDs
<1>3. VersionsIn(c, d, 0 .. n - 1) \subseteq VersionsIn(c, d, ShardIDs)
  BY <1>1 DEF VersionsIn
<1>4. ASSUME NEW t \in ShardIDs, NEW i \in DOMAIN c[t][d]
      PROVE  c[t][d][i] \in VersionsIn(c, d, 0 .. n - 1)
  <2>1. CASE t \in 0 .. n - 1
    BY <1>4, <2>1 DEF VersionsIn
  <2>2. CASE c[t][d] = <<>>
    BY <1>4, <2>2
  <2> QED
    BY <1>2, <2>1, <2>2
<1>5. VersionsIn(c, d, ShardIDs) \subseteq VersionsIn(c, d, 0 .. n - 1)
  BY <1>4 DEF VersionsIn
<1> QED
  BY <1>3, <1>5

\* A reader looks at all versions of a document that no crash hid.
LEMMA NewestIs ==
  ASSUME shardNum \in 1 .. MaxShards, UnusedEmpty, NEW d \in Docs \ hidden
  PROVE  NewestVersion(d) = Max({0} \cup Versions(d))
<1>1. \A t \in ShardIDs : t > shardNum - 1 => idx[t][d] = <<>>
  BY DEF UnusedEmpty, Latest
<1>2. VersionsIn(idx, d, 0 .. shardNum - 1) = VersionsIn(idx, d, ShardIDs)
  BY <1>1, FirstShards
<1> QED
  BY <1>2 DEF VersionsIn, NewestVersion, Versions, Latest

\* The same after a step.
LEMMA NewestIsPrime ==
  ASSUME shardNum' \in 1 .. MaxShards, UnusedEmpty', NEW d \in Docs, d \notin hidden'
  PROVE  NewestVersion(d)' = Max({0} \cup Versions(d)')
<1>1. \A t \in ShardIDs : t > shardNum' - 1 => idx'[t][d] = <<>>
  BY DEF UnusedEmpty, Latest, ShardIDs
<1>2. VersionsIn(idx', d, 0 .. shardNum' - 1) = VersionsIn(idx', d, ShardIDs)
  BY <1>1, FirstShards
<1> QED
  BY <1>2 DEF VersionsIn, NewestVersion, Versions, Latest, ShardIDs

\* A chunk of a stream-fed log has one group, of finitely many documents.
LEMMA ChunkLen ==
  ASSUME StreamLog, NEW lo \in Nat \ {0}, NEW h \in Nat, lo <= h, h <= LastIndex, LastIndex \in Nat
  PROVE  MaxShardLen(lo, h) \in Nat
<1>1. \A i \in lo .. h : i \in 1 .. LastIndex
  OBVIOUS
<1>2. GroupsOf(lo, h) = {NeedUpdate}
  <2>1. \A i \in lo .. h : log[i].sh = NeedUpdate
    BY <1>1 DEF StreamLog
  <2>2. lo \in lo .. h
    OBVIOUS
  <2> QED
    BY <2>1, <2>2 DEF GroupsOf
<1> DEFINE S == {j \in lo .. h : log[j].sh = NeedUpdate}
           D == GroupDocs(NeedUpdate, lo, h)
           f == [i \in S |-> log[i].doc]
<1>3. IsFiniteSet(S)
  <2>1. IsFiniteSet(lo .. h)
    BY FS_Interval
  <2>2. S \subseteq lo .. h
    OBVIOUS
  <2> HIDE DEF S
  <2> QED
    BY <2>1, <2>2, FS_Subset
<1>4. f \in Surjection(S, D)
  BY DEF Surjection, GroupDocs
<1> HIDE DEF S, D, f
<1>5. Cardinality(D) \in Nat
  BY <1>3, <1>4, FS_Surjection, FS_CardinalityType
<1>6. {Cardinality(GroupDocs(g, lo, h)) : g \in GroupsOf(lo, h)} = {Cardinality(D)}
  BY <1>2 DEF D
<1>7. MaxShardLen(lo, h) = Max({Cardinality(D)})
  BY <1>6 DEF MaxShardLen
<1> QED
  BY <1>5, <1>7 DEF Max

\* A repeated chunk ends no earlier than the one that was announced.
LEMMA ChunkReaches ==
  ASSUME StreamLog, LastIndex \in Nat,
         NEW w \in Nat, NEW b \in Nat, NEW h \in Nat, NEW m \in Nat,
         h > w, h <= LastIndex, b <= m, NotFull(w + 1, b - 1), ChunkEnds(w + 1, h, m)
  PROVE  b <= h
<1> SUFFICES ASSUME h < b PROVE FALSE
  OBVIOUS
<1>1. h \in w + 1 .. b - 1 /\ h # m
  OBVIOUS
<1>2. MaxShardLen(w + 1, h) < BatchSize
  BY <1>1 DEF NotFull
<1>3. MaxShardLen(w + 1, h) >= BatchSize
  BY <1>1 DEF ChunkEnds
<1>4. MaxShardLen(w + 1, h) \in Nat
  BY ChunkLen
<1> QED
  BY <1>2, <1>3, <1>4, ConstantsAssumption

\* Steps that leave the WAL, the index and the redo file alone.
LEMMA QuietGrow ==
  ASSUME Inv, GrowInv, log' = log, idx' = idx, writes' = writes, redoDisk' = redoDisk,
         open' => \/ open /\ redo'.write = redo.write
                  \/ redo'.write = redoDisk.write
  PROVE  /\ Numbered' /\ StoredRead' /\ Repeats(redoDisk.write[2])'
         /\ (open => Repeats(Committed))'
<1>1. Numbered' /\ StoredRead'
  BY DEF GrowInv, Numbered, StoredRead, Announced, ReadUpTo, LastIndex
<1>2. ASSUME NEW w PROVE Repeats(w)' = Repeats(w)
  BY DEF Repeats, ReadUpTo, NotFull, MaxShardLen, GroupDocs, GroupsOf
<1>3. Repeats(redoDisk.write[2])'
  BY <1>2 DEF GrowInv
<1>4. ASSUME open' PROVE Repeats(Committed)'
  <2>1. CASE open /\ redo'.write = redo.write
    BY <1>2, <2>1 DEF GrowInv, Committed
  <2>2. CASE redo'.write = redoDisk.write
    BY <1>2, <2>2 DEF GrowInv, Committed
  <2> QED
    BY <1>4, <2>1, <2>2
<1> QED
  BY <1>1, <1>3, <1>4

\* Bounds: the tick reaches the end of the announced range, because nothing
\* wraps while there are fewer entries than WAL IDs.
LEMMA BoundsGrow ==
  ASSUME MaxWrites < Word, Inv, StreamInv, GrowInv, Bounds
  PROVE  GrowInv'
<1>1. /\ log' = log /\ idx' = idx /\ writes' = writes /\ redoDisk' = redoDisk
      /\ open' = open /\ redo' = redo /\ pc = "bounds"
  BY DEF Bounds, walVars, redoVars, indexVars, procVars, countVars, shardVars,
        crashVars
<1>2. open /\ pc' \in {"idle", "read"}
  BY <1>1 DEF Bounds, Inv, CtlInv
<1>3. /\ Numbered' /\ StoredRead' /\ Repeats(redoDisk.write[2])' /\ (open => Repeats(Committed))'
  BY <1>1, QuietGrow
<1>4. CASE pc' = "idle"
  BY <1>3, <1>4 DEF GrowInv, TickReads
<1>5. CASE pc' = "read"
  <2>1. maxID' = IF (LastIndex - Committed) % Word > MaxBatchSize THEN Committed + MaxBatchSize ELSE LastIndex
    BY <1>5 DEF Bounds
  <2>2. /\ Committed \in Nat /\ LastIndex \in Nat /\ MaxBatchSize \in Nat /\ ReadUpTo \in Nat
        /\ Committed <= LastIndex /\ LastIndex <= MaxWrites /\ ReadUpTo <= LastIndex
    BY GrowTypes DEF StreamInv, CommitsBounded, GrowInv, Numbered, StoredRead
  <2>3. (LastIndex - Committed) % Word = LastIndex - Committed
    <3>1. LastIndex - Committed \in 0 .. Word - 1 /\ Word \in Nat \ {0}
      BY <2>2, ConstantsAssumption
    <3>2. \A x \in 0 .. Word - 1 : x % Word = x
      BY <3>1
    <3> QED
      BY <3>1, <3>2
  <2>4. maxID' <= Committed + MaxBatchSize
    BY <2>1, <2>2, <2>3
  <2>5. ReadUpTo <= Committed \/ ReadUpTo <= Committed + MaxBatchSize
    BY <1>2 DEF GrowInv, Repeats
  <2>6. ReadUpTo <= Committed \/ ReadUpTo <= maxID'
    BY <2>1, <2>2, <2>5
  <2>7. TickReads'
    BY <1>1, <1>5, <2>4, <2>6 DEF TickReads, Committed, ReadUpTo
  <2> QED
    BY <1>3, <2>7 DEF GrowInv
<1> QED
  BY <1>2, <1>4, <1>5

\* CreateNamed: the next entry has the next version, and the announced range
\* is the same.
LEMMA CreateGrow ==
  ASSUME Inv, StreamInv, GrowInv, NEW d0 \in Docs, CreateNamed(d0)
  PROVE  GrowInv'
<1> DEFINE e == [doc |-> d0, act |-> Update, sh |-> NeedUpdate, val |-> writes + 1]
<1>1. /\ log' = Append(log, e) /\ writes < MaxWrites /\ writes' = writes + 1
      /\ UNCHANGED <<redo, redoDisk, idx, open, pc, start, hi, maxID>>
  BY DEF CreateNamed, WALWrite, redoVars, indexVars, procVars, tickVars,
        shardVars, crashVars
<1>2. log \in Seq(Entries) /\ Len(log) \in Nat /\ writes \in Nat /\ MaxWrites \in Nat
  BY ConstantsAssumption DEF Inv, TypeOK
<1>3. /\ Len(log') = Len(log) + 1 /\ \A i \in 1 .. Len(log) : log'[i] = log[i]
      /\ log'[Len(log) + 1] = e
  BY <1>1, <1>2
<1>4. Numbered'
  BY <1>1, <1>2, <1>3 DEF GrowInv, Numbered, LastIndex
<1>5. ReadUpTo' = ReadUpTo /\ ReadUpTo \in Nat /\ ReadUpTo <= Len(log)
  BY <1>1, GrowTypes DEF ReadUpTo, GrowInv, StoredRead, LastIndex
<1>6. StoredRead'
  <2>1. ReadUpTo' <= LastIndex'
    BY <1>2, <1>3, <1>5 DEF LastIndex
  <2>2. \A v, d : Announced(v, d) => Announced(v, d)'
    BY <1>2, <1>3, <1>5 DEF Announced
  <2> QED
    BY <1>1, <2>1, <2>2 DEF GrowInv, StoredRead, ShardIDs
<1>7. ASSUME NEW w \in Nat, Repeats(w) PROVE Repeats(w)'
  <2>1. ASSUME NEW j \in w + 1 .. ReadUpTo - 1 PROVE MaxShardLen(w + 1, j)' = MaxShardLen(w + 1, j)
    <3>1. \A i \in w + 1 .. j : log'[i] = log[i]
      BY <1>2, <1>3, <1>5
    <3>2. GroupsOf(w + 1, j)' = GroupsOf(w + 1, j)
      BY <3>1 DEF GroupsOf
    <3>3. \A g : GroupDocs(g, w + 1, j)' = GroupDocs(g, w + 1, j)
      BY <3>1 DEF GroupDocs
    <3> QED
      BY <3>2, <3>3 DEF MaxShardLen
  <2>2. NotFull(w + 1, ReadUpTo - 1) => NotFull(w + 1, ReadUpTo - 1)'
    BY <1>5, <2>1 DEF NotFull
  <2> QED
    BY <1>1, <1>5, <1>7, <2>2 DEF Repeats
<1>8. redo'.write = redo.write /\ redoDisk'.write = redoDisk.write /\ redo.write[2] \in Nat /\ redoDisk.write[2] \in Nat
  BY <1>1, GrowTypes DEF Committed
<1>9. PICK a \in Nat : a = redoDisk.write[2]
  BY <1>8
<1>10. PICK m \in Nat : m = redo.write[2]
  BY <1>8
<1>11. Repeats(a)' /\ (open => Repeats(m)')
  BY <1>7, <1>9, <1>10 DEF GrowInv, Committed
<1>12. Repeats(redoDisk.write[2])' /\ (open => Repeats(Committed))'
  BY <1>1, <1>8, <1>9, <1>10, <1>11 DEF Repeats, Committed
<1>13. TickReads'
  BY <1>1 DEF GrowInv, TickReads, Committed, ReadUpTo
<1> QED
  BY <1>4, <1>6, <1>12, <1>13 DEF GrowInv

\* ReadChunk: the announced range moves on, or stays where it is and ends no
\* earlier.
LEMMA ReadGrow ==
  ASSUME Inv, StreamInv, GrowInv, ReadChunk
  PROVE  GrowInv'
<1>1. PICK h \in start .. maxID :
        /\ \A i \in start .. h : Readable(i)
        /\ ChunkEnds(start, h, maxID)
        /\ hi' = h
        /\ redo' = [redo EXCEPT !.read = <<start, h>>]
        /\ redoDisk' = redo'
  BY DEF ReadChunk
<1>2. /\ log' = log /\ idx' = idx /\ open' = open /\ writes' = writes /\ start' = start /\ maxID' = maxID
      /\ pc = "read" /\ pc' = "write"
  BY DEF ReadChunk, walVars, indexVars, procVars, countVars, shardVars,
        crashVars
<1>3. /\ Committed \in Nat /\ start = Committed + 1 /\ maxID \in Nat /\ LastIndex \in Nat
      /\ ReadUpTo \in Nat /\ MaxBatchSize \in Nat /\ open
      /\ maxID <= Committed + MaxBatchSize
      /\ ReadUpTo <= Committed \/ ReadUpTo <= maxID
  BY <1>2, GrowTypes DEF GrowInv, TickReads
<1>4. h \in Nat /\ h > Committed /\ h <= maxID
  BY <1>1, <1>3
<1>5. h <= LastIndex
  <2>1. h \in start .. h
    BY <1>1, <1>3, <1>4
  <2>2. Readable(h)
    BY <1>1, <2>1
  <2> QED
    BY <1>3, <1>4, <2>2 DEF Readable, Inv, TypeOK
<1>6. /\ redo'.read = <<start, h>> /\ redo'.write = redo.write
      /\ redoDisk'.read = <<start, h>> /\ redoDisk'.write = redo.write
  <2>1. redo \in [read : Ranges, write : Ranges]
    BY DEF Inv, TypeOK
  <2> QED
    BY <1>1, <2>1
<1>7. ReadUpTo' = h /\ Committed' = Committed
  BY <1>6 DEF ReadUpTo, Committed
<1>8. ReadUpTo <= h
  <2>1. CASE ReadUpTo <= Committed
    BY <1>3, <1>4, <2>1
  <2>2. CASE ~(ReadUpTo <= Committed)
    <3>1. NotFull(Committed + 1, ReadUpTo - 1)
      BY <1>3, <2>2 DEF GrowInv, Repeats
    <3>2. ChunkEnds(Committed + 1, h, maxID)
      BY <1>1, <1>3
    <3> QED
      BY <1>3, <1>4, <1>5, <2>2, <3>1, <3>2, ChunkReaches DEF StreamInv
  <2> QED
    BY <2>1, <2>2
<1>9. Numbered'
  BY <1>2 DEF GrowInv, Numbered, LastIndex
<1>10. StoredRead'
  <2>1. \A v, d : Announced(v, d) => Announced(v, d)'
    BY <1>2, <1>3, <1>4, <1>7, <1>8 DEF Announced
  <2>2. ReadUpTo' <= LastIndex'
    BY <1>2, <1>5, <1>7 DEF LastIndex
  <2> QED
    BY <1>2, <2>1, <2>2 DEF GrowInv, StoredRead, ShardIDs
<1>11. Repeats(Committed)'
  <2>1. PICK w \in Nat : w = Committed
    BY <1>3
  <2>2. NotFull(w + 1, h - 1)
    BY <1>1, <1>3, <2>1 DEF ChunkEnds
  <2>3. NotFull(w + 1, h - 1)'
    <3>1. ASSUME NEW j PROVE MaxShardLen(w + 1, j)' = MaxShardLen(w + 1, j)
      BY <1>2 DEF MaxShardLen, GroupDocs, GroupsOf
    <3> QED
      BY <2>2, <3>1 DEF NotFull
  <2>4. redoDisk'.read[1] = w + 1
    BY <1>3, <1>6, <2>1
  <2>5. h <= w + MaxBatchSize
    BY <1>3, <1>4, <2>1
  <2>6. Committed' = w /\ ReadUpTo' = h
    BY <1>7, <2>1
  <2> QED
    BY <2>3, <2>4, <2>5, <2>6 DEF Repeats
<1>12. Repeats(redoDisk.write[2])'
  BY <1>6, <1>11 DEF Committed
<1>13. TickReads'
  BY <1>2, <1>1, <1>3, <1>6, <1>7 DEF TickReads
<1> QED
  BY <1>9, <1>10, <1>11, <1>12, <1>13 DEF GrowInv

\* The commit of a chunk, in the file or only in memory.
LEMMA CommitGrow ==
  ASSUME Inv, GrowInv, pc = "write", pc' \notin {"write", "others"},
         log' = log, idx' = idx, writes' = writes, open' = open, maxID' = maxID,
         redo' = [redo EXCEPT !.write = <<start, hi>>],
         redoDisk' = redo' \/ (redoDisk' = redoDisk /\ pc' = "idle")
  PROVE  GrowInv'
<1>1. /\ Committed \in Nat /\ hi \in Nat /\ start = Committed + 1 /\ hi >= start /\ redo = redoDisk
      /\ maxID \in Nat /\ MaxBatchSize \in Nat /\ redoDisk.read = <<start, hi>>
      /\ maxID <= Committed + MaxBatchSize
  BY GrowTypes DEF GrowInv, TickReads
<1>2. redo'.read = redo.read /\ redo'.write = <<start, hi>> /\ redoDisk'.read = redoDisk.read
  <2>1. redo \in [read : Ranges, write : Ranges]
    BY DEF Inv, TypeOK
  <2> QED
    BY <1>1, <2>1
<1>3. ReadUpTo' = ReadUpTo /\ ReadUpTo = hi /\ Committed' = hi
  BY <1>1, <1>2 DEF ReadUpTo, Committed
<1>4. Numbered' /\ StoredRead'
  BY <1>3 DEF GrowInv, Numbered, StoredRead, Announced, LastIndex
<1>5. Repeats(Committed)'
  BY <1>1, <1>3 DEF Repeats
<1>6. Repeats(redoDisk.write[2])'
  <2>1. CASE redoDisk' = redo'
    BY <1>5, <2>1 DEF Committed
  <2>2. CASE redoDisk' = redoDisk
    <3>1. ASSUME NEW w PROVE Repeats(w)' = Repeats(w)
      BY <2>2 DEF Repeats, ReadUpTo, NotFull, MaxShardLen, GroupDocs, GroupsOf
    <3> QED
      BY <2>2, <3>1 DEF GrowInv
  <2> QED
    BY <2>1, <2>2
<1>7. TickReads'
  BY <1>1, <1>3 DEF TickReads
<1> QED
  BY <1>4, <1>5, <1>6, <1>7 DEF GrowInv

\* What the chunk makes of a document of it is newer than all that is stored.
LEMMA ChunkVersion ==
  ASSUME Inv, StreamInv, GrowInv, pc \in {"write", "others"}, NEW d \in ChunkDocs
  PROVE  \E m \in 1 .. ReadUpTo :
           /\ Replay(hi, d) = <<m>> /\ Announced(m, d)
           /\ \A v : Announced(v, d) => v <= m
<1> DEFINE all == {i \in 1 .. hi : log[i].doc = d}
<1>1. /\ hi \in Nat /\ LastIndex \in Nat /\ hi <= LastIndex /\ start \in Nat \ {0}
      /\ redoDisk.read = <<start, hi>>
  BY GrowTypes DEF GrowInv, TickReads
<1>2. ReadUpTo = hi
  BY <1>1 DEF ReadUpTo
<1>3. all # {} /\ all \in SUBSET (1 .. hi)
  <2>1. PICK i \in start .. hi : log[i].doc = d
    BY DEF ChunkDocs, GroupDocs
  <2>2. i \in all
    BY <1>1, <2>1
  <2> QED
    BY <2>2
<1>4. Max(all) \in all /\ \A i \in all : Max(all) >= i
  <2> HIDE DEF all
  <2> QED
    BY <1>1, <1>3, MaxOfInterval
<1>5. PICK m \in all : m = Max(all)
  BY <1>4
<1>6. m \in 1 .. LastIndex /\ m \in 1 .. hi /\ log[m].doc = d /\ log[m].val = m /\ log[m].act = Update
  BY <1>1, <1>5 DEF GrowInv, Numbered, StreamInv, StreamLog
<1>7. Replay(hi, d) = <<m>>
  BY <1>3, <1>5, <1>6 DEF Replay, Update, Delete
<1>8. \A v : Announced(v, d) => v <= m
  <2>1. \A v : Announced(v, d) => v \in all /\ v \in Nat
    BY <1>1, <1>2 DEF Announced
  <2>2. \A v \in all : m >= v
    BY <1>4, <1>5
  <2> QED
    BY <1>6, <2>1, <2>2
<1> QED
  BY <1>2, <1>6, <1>7, <1>8 DEF Announced

\* The batches of a chunk: GrowInv goes on to hold when a document of the chunk
\* is given its new version in a shard, or is taken out of it.
LEMMA BatchGrow ==
  ASSUME Inv, StreamInv, GrowInv, pc \in {"write", "others"}, pc' \in {"write", "others"},
         UNCHANGED <<log, redo, redoDisk, open, start, hi, maxID, writes>>,
         \A d \in Docs, s \in ShardIDs :
           \/ idx'[s][d] = idx[s][d]
           \/ d \in ChunkDocs /\ idx'[s][d] = Replay(hi, d)
           \/ idx'[s][d] = <<>>
  PROVE  GrowInv'
<1>1. Numbered'
  BY DEF GrowInv, Numbered, LastIndex
<1>2. \A v, d : Announced(v, d)' = Announced(v, d)
  BY DEF Announced, ReadUpTo
<1>3. ASSUME NEW s \in ShardIDs, NEW d \in Docs, NEW i \in DOMAIN idx'[s][d] PROVE Announced(idx'[s][d][i], d)
  <2>1. CASE idx'[s][d] = idx[s][d]
    BY <2>1, <1>3 DEF GrowInv, StoredRead
  <2>2. CASE d \in ChunkDocs /\ idx'[s][d] = Replay(hi, d)
    <3>1. PICK m : Replay(hi, d) = <<m>> /\ Announced(m, d)
      BY <2>2, ChunkVersion
    <3> QED
      BY <2>2, <3>1
  <2>3. CASE idx'[s][d] = <<>>
    BY <2>3
  <2> QED
    BY <2>1, <2>2, <2>3
<1>4. StoredRead'
  <2>1. ReadUpTo' <= LastIndex'
    BY DEF GrowInv, StoredRead, ReadUpTo, LastIndex
  <2> QED
    BY <1>2, <1>3, <2>1 DEF StoredRead, ShardIDs
<1>5. ASSUME NEW w PROVE Repeats(w)' = Repeats(w)
  BY DEF Repeats, ReadUpTo, NotFull, MaxShardLen, GroupDocs, GroupsOf
<1>6. Repeats(redoDisk.write[2])' /\ (open => Repeats(Committed))'
  BY <1>5 DEF GrowInv, Committed
<1>7. TickReads'
  BY DEF GrowInv, TickReads, Committed, ReadUpTo
<1> QED
  BY <1>1, <1>4, <1>6, <1>7 DEF GrowInv

\* A reader finds every version that was stored, or a newer one, as long as the
\* latest shard has what the chunk makes of its documents.
LEMMA BatchNewer ==
  ASSUME Inv, StreamInv, GrowInv, GrowInv', log' = log, redoDisk' = redoDisk,
         shardNum' \in 1 .. MaxShards, UnusedEmpty', hidden' = hidden,
         pc \in {"write", "others"}, Latest \in ShardIDs, NEW d \in Docs \ hidden,
         \/ \A s \in ShardIDs : idx'[s][d] = idx[s][d]
         \/ d \in ChunkDocs /\ idx'[Latest][d] = Replay(hi, d)
  PROVE  NewestVersion(d)' >= NewestVersion(d)
<1>1. ReadUpTo \in Nat /\ ReadUpTo' = ReadUpTo
  BY GrowTypes DEF ReadUpTo
<1>2. \A v : Announced(v, d)' = Announced(v, d)
  BY <1>1 DEF Announced
<1>3. \A v \in Versions(d) : Announced(v, d)
  BY DEF Versions, GrowInv, StoredRead
<1>4. \A v \in Versions(d)' : Announced(v, d)
  BY <1>2 DEF Versions, GrowInv, StoredRead
<1>5. Versions(d) \in SUBSET (1 .. ReadUpTo) /\ Versions(d)' \in SUBSET (1 .. ReadUpTo)
  BY <1>3, <1>4 DEF Announced
<1>6. \A v \in Versions(d) : \E w \in Versions(d)' : w >= v
  <2>1. CASE \A s \in ShardIDs : idx'[s][d] = idx[s][d]
    <3>1. Versions(d)' = Versions(d)
      BY <2>1 DEF Versions, ShardIDs
    <3>2. \A v \in Versions(d) : v >= v
      BY <1>5
    <3> QED
      BY <3>1, <3>2
  <2>2. CASE d \in ChunkDocs /\ idx'[Latest][d] = Replay(hi, d)
    <3>1. PICK m \in 1 .. ReadUpTo : Replay(hi, d) = <<m>> /\ \A v : Announced(v, d) => v <= m
      BY <2>2, ChunkVersion
    <3>2. m \in Versions(d)'
      <4>1. 1 \in DOMAIN idx'[Latest][d] /\ idx'[Latest][d][1] = m
        BY <2>2, <3>1
      <4>2. Latest \in ShardIDs'
        BY DEF ShardIDs
      <4> QED
        BY <4>1, <4>2 DEF Versions
    <3>3. \A v \in Versions(d) : m >= v
      BY <1>1, <1>3, <1>5, <3>1
    <3> QED
      BY <3>2, <3>3
  <2> QED
    BY <2>1, <2>2
<1> DEFINE S == Versions(d)
           T == Versions(d)'
<1>7. S \in SUBSET (1 .. ReadUpTo) /\ T \in SUBSET (1 .. ReadUpTo) /\ \A v \in S : \E w \in T : w >= v
  BY <1>5, <1>6
<1>8. NewestVersion(d) = Max({0} \cup S)
  BY NewestIs DEF Inv, TypeOK, StreamInv
<1>9. NewestVersion(d)' = Max({0} \cup T)
  BY NewestIsPrime
<1> HIDE DEF S, T
<1> QED
  BY <1>1, <1>7, <1>8, <1>9, NewestGrows

\* A shard that is new has no version, and nothing is announced.
LEMMA InitGrow == Init => GrowInv
<1> SUFFICES ASSUME Init PROVE GrowInv
  OBVIOUS
<1>1. Len(log) = 0 /\ writes = 0 /\ ReadUpTo = 0 /\ redoDisk.write[2] = 0 /\ ~open /\ pc = "idle"
  BY DEF Init, Absent, ReadUpTo
<1>2. \A s \in ShardIDs, d \in Docs : idx[s][d] = <<>>
  BY DEF Init
<1>3. Numbered /\ StoredRead
  BY <1>1, <1>2, ConstantsAssumption DEF Numbered, StoredRead, LastIndex
<1> QED
  BY <1>1, <1>3 DEF GrowInv, Repeats, TickReads

\* WriteToShard gives the reader nothing older.
LEMMA WriteGrow ==
  ASSUME Inv, StreamInv, GrowInv, NEW g \in Groups, WriteToShard(g)
  PROVE  GrowInv' /\ \A d \in Docs \ hidden : NewestVersion(d)' >= NewestVersion(d)
<1>1. /\ pc = "write" /\ UNCHANGED <<log, shardNum, hidden, redo, redoDisk, open, start, hi>> /\ Latest \in ShardIDs
      /\ \A d \in Docs, s \in ShardIDs :
           idx'[s][d] = IF s = Latest /\ d \in ChunkDocs THEN Replay(hi, d) ELSE idx[s][d]
  BY WriteEffect
<1>2. maxID' = maxID /\ writes' = writes /\ pc' \in {"write", "others"}
  BY <1>1 DEF WriteToShard, countVars, shardVars, crashVars
<1>3. GrowInv'
  BY <1>1, <1>2, BatchGrow
<1>4. shardNum' \in 1 .. MaxShards /\ UnusedEmpty'
  BY <1>1, WriteStream DEF StreamInv, Inv, TypeOK
<1>5. ASSUME NEW d \in Docs \ hidden PROVE NewestVersion(d)' >= NewestVersion(d)
  BY <1>1, <1>3, <1>4, BatchNewer
<1> QED
  BY <1>3, <1>5

\* The deletes take away only what the latest shard has in a newer version.
LEMMA OtherGrow ==
  ASSUME Inv, StreamInv, GrowInv, WriteToOther
  PROVE  GrowInv' /\ \A d \in Docs \ hidden : NewestVersion(d)' >= NewestVersion(d)
<1>1. /\ pc = "others" /\ UNCHANGED <<log, shardNum, hidden, redo, redoDisk, open, start, hi>> /\ Latest \in ShardIDs
      /\ other \in 0 .. Latest - 1 /\ Latest \in Nat /\ WrittenSoFar
      /\ \A d \in Docs, s \in ShardIDs :
           idx'[s][d] = IF s = other /\ d \in ChunkDocs THEN <<>> ELSE idx[s][d]
  BY OtherEffect
<1>2. maxID' = maxID /\ writes' = writes /\ pc' \in {"write", "others"}
  BY <1>1 DEF WriteToOther, countVars, shardVars, crashVars
<1>3. GrowInv'
  BY <1>1, <1>2, BatchGrow
<1>4. Latest # other
  BY <1>1
<1>5. shardNum' \in 1 .. MaxShards /\ UnusedEmpty'
  BY <1>1, OtherStream DEF StreamInv, Inv, TypeOK
<1>6. ASSUME NEW d \in Docs \ hidden PROVE NewestVersion(d)' >= NewestVersion(d)
  <2>1. d \in ChunkDocs => idx'[Latest][d] = Replay(hi, d)
    BY <1>1, <1>4 DEF WrittenSoFar
  <2> QED
    BY <1>1, <1>3, <1>5, <2>1, BatchNewer
<1> QED
  BY <1>3, <1>6

\* Every other step leaves the index alone.
LEMMA StepGrow ==
  ASSUME MaxWrites < Word
  PROVE  Inv /\ StreamInv /\ GrowInv /\ [StreamNext]_vars /\ ~ walCut'
         => /\ GrowInv'
            /\ idx' = idx \/ \A d \in Docs \ hidden : NewestVersion(d)' >= NewestVersion(d)
<1> SUFFICES ASSUME Inv, StreamInv, GrowInv, [StreamNext]_vars, ~ walCut'
             PROVE  /\ GrowInv'
                    /\ idx' = idx \/ \A d \in Docs \ hidden : NewestVersion(d)' >= NewestVersion(d)
  OBVIOUS
<1> USE DEF walVars, redoVars, indexVars, procVars, countVars, tickVars,
        shardVars, crashVars
<1>1. ASSUME NEW d \in Docs, CreateNamed(d) PROVE GrowInv' /\ idx' = idx
  BY <1>1, CreateGrow DEF CreateNamed, WALWrite
<1>2. ASSUME log' = log, idx' = idx, writes' = writes, redoDisk' = redoDisk,
             pc' \notin {"read", "write", "others"},
             open' => \/ open /\ redo'.write = redo.write
                      \/ redo'.write = redoDisk.write
      PROVE  GrowInv'
  <2>1. /\ Numbered' /\ StoredRead' /\ Repeats(redoDisk.write[2])' /\ (open => Repeats(Committed))'
    BY <1>2, QuietGrow
  <2> QED
    BY <1>2, <2>1 DEF GrowInv, TickReads
<1>3. CASE OpenWAL
  BY <1>2, <1>3 DEF OpenWAL
<1>4. CASE Rollback \/ RollbackFails
  <2>1. idx' = idx
    BY <1>4, RollbackEffect
  <2> QED
    BY <1>2, <1>4, <2>1 DEF Rollback, RollbackFails, Inv, CtlInv
<1>5. CASE Sync \/ ReadFails \/ ShardMissing \/ Truncate \/ CheckShards \/ UpdateMetadata \/ ConsumeFails
  BY <1>2, <1>5 DEF Sync, ReadFails, ShardMissing, Truncate, CheckShards, UpdateMetadata,
                    ConsumeFails
<1>6. CASE Bounds
  BY <1>6, BoundsGrow DEF Bounds
<1>7. CASE ReadChunk
  BY <1>7, ReadGrow DEF ReadChunk
<1>8. ASSUME NEW g \in Groups, WriteToShard(g)
      PROVE  GrowInv' /\ \A d \in Docs \ hidden : NewestVersion(d)' >= NewestVersion(d)
  BY <1>8, WriteGrow
<1>9. CASE WriteToOther
  BY <1>9, OtherGrow
<1>10. CASE CommitChunk
  BY <1>10, CommitGrow DEF CommitChunk
<1>11. CASE RedoWriteFails
  <2>1. /\ pc' = "idle" /\ log' = log /\ idx' = idx /\ writes' = writes /\ open' = open
        /\ redoDisk' = redoDisk /\ maxID' = maxID
    BY <1>11 DEF RedoWriteFails
  <2>2. CASE pc = "write" /\ redo' = [redo EXCEPT !.write = <<start, hi>>]
    BY <2>1, <2>2, CommitGrow
  <2>3. ASSUME NEW h, redo' = [redo EXCEPT !.read = <<start, h>>] PROVE GrowInv'
    <3>1. redo'.write = redo.write
      BY <2>3 DEF Inv, TypeOK
    <3> QED
      BY <1>2, <2>1, <3>1
  <2> QED
    BY <1>11, <2>1, <2>2, <2>3 DEF RedoWriteFails
<1>12. CASE Crash
  BY <1>2, <1>12 DEF Crash
<1>13. CASE UNCHANGED vars
  <2>1. UNCHANGED <<log, idx, writes, redo, redoDisk, open, pc, start, hi, maxID>>
    BY <1>13 DEF vars, shardVars, crashVars
  <2>2. /\ Numbered' /\ StoredRead' /\ Repeats(redoDisk.write[2])' /\ (open => Repeats(Committed))'
    BY <2>1, QuietGrow
  <2>3. TickReads'
    BY <2>1 DEF GrowInv, TickReads, Committed, ReadUpTo
  <2> QED
    BY <2>1, <2>2, <2>3 DEF GrowInv
<1> QED
  BY <1>1, <1>3, <1>4, <1>5, <1>6, <1>7, <1>8, <1>9, <1>10, <1>11, <1>12, <1>13
  DEF StreamNext, Environment, Consume

\* What crashes hide stays hidden.
LEMMA HiddenStays == [Next]_vars => hidden \subseteq hidden'
BY DEF Next, Environment, Consume, OpenWAL, Rollback, RollbackFails, Sync, Bounds, ReadChunk,
       ReadFails, WriteToShard, ShardMissing, WriteToOther, CommitChunk, Truncate, CheckShards,
       UpdateMetadata, ConsumeFails, RedoWriteFails, Crash, CreateNamed, CreateGenerated,
       UpdateDocument, DeleteDocument, WALWrite, vars, countVars, crashVars

\* A reader of a stream-fed shard never sees a document vanish or go back to an
\* older version, while an update moves it to the latest shard in two batches
\* (WriteToShard), after a failed batch or a crash makes a chunk apply again and
\* after a crash takes away shards that were not stored (NewShard), as long as
\* no power loss cost the WAL entries, no crash hid the document, and WAL IDs do
\* not wrap (ConsumeWAL).
THEOREM VersionsGrow ==
  ASSUME MaxWrites < Word
  PROVE  StreamSpec => VersionsOnlyGrow
<1> DEFINE All  == Inv /\ (walCut \/ (StreamInv /\ GrowInv))
           Step == walCut' \/ \A d \in Docs \ hidden' : NewestVersion(d)' >= NewestVersion(d)
<1>1. Init => All
  BY InitInv, InitStream, InitGrow
<1>2. All /\ [StreamNext]_vars => All'
  BY StepInv, StepStream, StepGrow, StreamIsNext, CutStays
<1>3. All /\ [StreamNext]_vars => [Step]_vars
  <2> SUFFICES ASSUME All, [StreamNext]_vars, ~ walCut', NEW d \in Docs \ hidden'
               PROVE  NewestVersion(d)' >= NewestVersion(d)
    OBVIOUS
  <2>1. Inv /\ StreamInv /\ GrowInv /\ Inv' /\ StreamInv' /\ d \in Docs \ hidden
    BY <1>2, CutStays, StreamIsNext, HiddenStays
  <2>2. CASE idx' = idx
    <3>1. Versions(d)' = Versions(d)
      BY <2>2 DEF Versions, ShardIDs
    <3> DEFINE S == Versions(d)
    <3>2. NewestVersion(d) = Max({0} \cup S)
      BY <2>1, NewestIs DEF Inv, TypeOK, StreamInv
    <3>3. NewestVersion(d)' = Max({0} \cup S)
      <4>1. NewestVersion(d)' = Max({0} \cup Versions(d)')
        BY <2>1, NewestIsPrime DEF Inv, TypeOK, StreamInv
      <4> QED
        BY <3>1, <4>1
    <3>4. S \in SUBSET (1 .. ReadUpTo) /\ ReadUpTo \in Nat
      BY <2>1, GrowTypes DEF Versions, GrowInv, StoredRead, Announced
    <3> HIDE DEF S
    <3>5. Max({0} \cup S) \in {0} \cup S
      BY <3>4, MaxWithZero
    <3>6. {0} \cup S \subseteq Nat
      BY <3>4
    <3>7. NewestVersion(d)' = NewestVersion(d) /\ NewestVersion(d) \in Nat
      BY <3>2, <3>3, <3>5, <3>6
    <3> QED
      BY <3>7
  <2> QED
    BY <2>1, <2>2, StepGrow
<1> QED
  BY <1>1, <1>2, <1>3, PTL DEF StreamSpec, VersionsOnlyGrow
=============================================================================
