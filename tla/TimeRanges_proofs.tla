-------------------------- MODULE TimeRanges_proofs --------------------------
(***************************************************************************)
(* Proofs about TimeRanges, for any documents, times and bounds.           *)
(*                                                                         *)
(* ReadsEveryAnswer speaks of documents whose time reached the range of    *)
(* their shard.  IInv says what is known of the others too: a document in  *)
(* the newest shard is in the collected range from the time it is written, *)
(* and the next copy puts it into the shard's own (CoverInv); the same is  *)
(* true of what is saved, for a restart (SavedInv).  GetReaders may stop   *)
(* its walk early because a shard ends before a newer one begins, as long  *)
(* as no document came late (OrderInv).                                    *)
(***************************************************************************)
EXTENDS TimeRanges, TLAPS, SequenceTheorems, FiniteSetTheorems, WellFoundedInduction

Entry == [doc : Docs, time : Times, shard : 0 .. MaxShards, del : BOOLEAN]

(***************************************************************************)
(* Operators: the least and greatest time, Widened, Merged                 *)
(***************************************************************************)
LEMMA NatMin == ASSUME NEW S, S \subseteq Nat, S # {} PROVE Min(S) \in S /\ \A t \in S : Min(S) <= t
<1> DEFINE L == OpToRel(<, Nat)
<1>1. IsWellFoundedOn(L, Nat)
  BY NatLessThanWellFounded
<1> HIDE DEF L
<1>2. PICK m \in S : \A n \in S : ~(<<n, m>> \in L)
  BY <1>1, WFMin
<1>3. \A n \in S : <<n, m>> \in Nat \X Nat
  OBVIOUS
<1>4. \A n \in S : ~(n < m)
  BY <1>2, <1>3 DEF L, OpToRel
<1>5. \A n \in S : m =< n
  BY <1>4
<1>6. Min(S) \in S /\ \A n \in S : Min(S) =< n
  BY <1>5 DEF Min
<1> QED
  BY <1>6

\* Some times have a latest one.
LEMMA TimeMax == ASSUME NEW S, S \subseteq 0 .. MaxTime, S # {} PROVE Max(S) \in S /\ \A t \in S : t <= Max(S)
<1> DEFINE D == {MaxTime - y : y \in S}
           L == OpToRel(<, Nat)
<1>0. MaxTime \in Nat
  BY BoundsAssumption
<1>1. D \subseteq Nat /\ D # {}
  <2>1. \A y \in S : MaxTime - y \in Nat
    BY <1>0
  <2> QED
    BY <2>1
<1>2. IsWellFoundedOn(L, Nat)
  BY NatLessThanWellFounded
<1> HIDE DEF L
<1>3. PICK m \in D : \A n \in D : ~(<<n, m>> \in L)
  BY <1>1, <1>2, WFMin
<1>4. \A n \in D : <<n, m>> \in Nat \X Nat
  BY <1>1
<1>5. \A n \in D : ~(n < m)
  BY <1>3, <1>4 DEF L, OpToRel
<1>6. PICK x \in S : m = MaxTime - x
  OBVIOUS
<1>7. \A y \in S : MaxTime - y \in D /\ y \in Nat /\ x \in Nat
  BY <1>0
<1> HIDE DEF D
<1>8. \A y \in S : x >= y
  BY <1>0, <1>5, <1>6, <1>7
<1>9. Max(S) \in S /\ \A y \in S : Max(S) >= y
  BY <1>8 DEF Max
<1> QED
  BY <1>7, <1>9

\* A time in a range that is set.
In(r, t) == r.min > 0 /\ r.min <= t /\ t <= r.max

\* SetTimestamp for a set of times: the new range has them and what the old
\* one had, and begins no earlier than both.
LEMMA WidenedFacts ==
    ASSUME NEW r \in Range2, NEW T, T \subseteq Times
    PROVE  /\ Widened(r, T) \in Range2
           /\ \A t \in T : In(Widened(r, T), t)
           /\ \A t \in Times : In(r, t) => In(Widened(r, T), t)
           /\ \A b \in Nat : (r.min > 0 => b <= r.min) /\ (\A t \in T : b <= t)
                             => (Widened(r, T).min > 0 => b <= Widened(r, T).min)
<1>0. MaxTime \in Nat /\ Times \subseteq 0 .. MaxTime /\ 0 .. MaxTime \subseteq Nat /\ r.min \in 0 .. MaxTime /\ r.max \in 0 .. MaxTime
  BY BoundsAssumption DEF Times, Range2
<1>1. CASE T = {}
  BY <1>1 DEF Widened
<1>2. CASE T # {} /\ r.min = 0
  <2>1. Widened(r, T) = [min |-> Min(T), max |-> Max(T)]
    BY <1>2 DEF Widened
  <2>2. Min(T) \in T /\ Max(T) \in T /\ \A t \in T : Min(T) <= t /\ t <= Max(T)
    BY <1>0, <1>2, NatMin, TimeMax
  <2>3. Min(T) \in Times /\ Max(T) \in Times
    BY <2>2
  <2> QED
    BY <1>0, <1>2, <2>1, <2>2, <2>3 DEF Range2, In, Times
<1>3. CASE T # {} /\ r.min # 0
  <2> DEFINE A == T \cup {r.min}
             B == T \cup {r.max}
  <2>1. Widened(r, T) = [min |-> Min(A), max |-> Max(B)]
    BY <1>3 DEF Widened
  <2>2. A \subseteq 0 .. MaxTime /\ B \subseteq 0 .. MaxTime /\ A # {} /\ B # {} /\ A \subseteq Nat
    BY <1>0
  <2>3. Min(A) \in A /\ Max(B) \in B /\ (\A t \in A : Min(A) <= t) /\ (\A t \in B : t <= Max(B))
    BY <2>2, NatMin, TimeMax
  <2>4. Min(A) \in 0 .. MaxTime /\ Max(B) \in 0 .. MaxTime /\ Min(A) > 0 /\ Min(A) <= r.min /\ r.max <= Max(B)
        /\ \A t \in T : Min(A) <= t /\ t <= Max(B)
    <3>1. \A t \in A : t > 0
      BY <1>0, <1>3 DEF Times
    <3> QED
      BY <2>2, <2>3, <3>1
  <2> DEFINE lo == Min(A)
             hi == Max(B)
  <2>5. lo \in T \/ lo = r.min
    BY <2>3
  <2> HIDE DEF A, B, lo, hi
  <2>6. Widened(r, T).min = lo /\ Widened(r, T).max = hi /\ Widened(r, T) \in Range2
    BY <2>1, <2>4 DEF Range2, lo, hi
  <2>7. lo \in 0 .. MaxTime /\ hi \in 0 .. MaxTime /\ lo > 0 /\ lo <= r.min /\ r.max <= hi
        /\ \A t \in T : lo <= t /\ t <= hi
    BY <2>4 DEF lo, hi
  <2>8. \A t \in Times : In(r, t) => In(Widened(r, T), t)
    BY <1>0, <2>6, <2>7 DEF In, Times
  <2> QED
    BY <1>0, <1>3, <2>5, <2>6, <2>7, <2>8 DEF In
<1> QED
  BY <1>1, <1>2, <1>3

\* What is left of a batch are entries of it.
LEMMA MergedTyped ==
    ASSUME queue \in Seq(Entry), NEW n \in 0 .. Len(queue)
    PROVE  Merged(n) \subseteq Entry /\ Merged(n) \subseteq {queue[i] : i \in 1 .. n}
<1>1. \A i \in 1 .. n : queue[i] \in Entry
  BY LenProperties, ElementOfSeq
<1> QED
  BY <1>1 DEF Merged

(***************************************************************************)
(* The inductive invariant                                                 *)
(***************************************************************************)
SavedType == [first : Range2, ranges : Seq(Range2), cover : Covers]

Typed == TypeOK /\ saved \in SavedType

\* A shard ends before a newer one begins, and all but the newest before the
\* collected range f does.
Ordered(f, rs) ==
    /\ \A i, j \in 1 .. Len(rs) : i < j /\ rs[j].min > 0 => rs[i].max <= rs[j].min
    /\ \A i \in 1 .. Len(rs) : i < Len(rs) /\ f.min > 0 => rs[i].max <= f.min

\* What c says of a document at place q is true of the collected range f and the
\* ranges rs.
KnownDoc(q, c, f, rs) ==
    q # Nowhere /\ c # "missed" =>
        /\ q.time \in Times /\ q.shard \in 1 .. Len(rs)
        /\ q.shard = Len(rs) => In(f, q.time)
        /\ c = "collected" => q.shard = Len(rs)
        /\ c = "covered" => In(rs[q.shard], q.time)

Known(p, c, f, rs) == \A d \in Docs : KnownDoc(p[d], c[d], f, rs)

OrderInv == ~late => Ordered(first, ranges) /\ Ordered(saved.first, saved.ranges)
CoverInv == Known(place, cover, first, ranges)
SavedInv == Known(place, saved.cover, saved.first, saved.ranges)

IInv == Typed /\ OrderInv /\ CoverInv /\ SavedInv

(***************************************************************************)
(* Types                                                                   *)
(***************************************************************************)
Places == [Docs -> [shard : 0 .. MaxShards, time : 0 .. MaxTime]]

QueueTyped ==
    /\ place \in Places /\ queue \in Seq(Entry)
    /\ taken \in 0 .. Len(queue) /\ todo \in SUBSET (0 .. MaxShards)
RangesTyped ==
    /\ first \in Range2 /\ ranges \in Seq(Range2) /\ Len(ranges) \in 1 .. MaxShards /\ cover \in Covers
    /\ saved \in SavedType /\ Len(saved.ranges) \in 1 .. MaxShards
TickTyped == pc \in {"idle", "write", "committed", "checked", "store"} /\ late \in BOOLEAN
CountTyped == writes \in 0 .. MaxWrites /\ faults \in 0 .. MaxFaults /\ crashes \in 0 .. MaxCrashes

\* The typing, by what an action touches together.
LEMMA TypedParts == Typed <=> QueueTyped /\ RangesTyped /\ TickTyped /\ CountTyped
<1>1. ASSUME Typed PROVE QueueTyped /\ RangesTyped /\ TickTyped /\ CountTyped
  <2>1. QueueTyped
    BY <1>1 DEF Typed, TypeOK, QueueTyped, Entry, Places
  <2>2. RangesTyped
    BY <1>1 DEF Typed, TypeOK, RangesTyped, Latest
  <2>3. TickTyped /\ CountTyped
    BY <1>1 DEF Typed, TypeOK, TickTyped, CountTyped
  <2> QED
    BY <2>1, <2>2, <2>3
<1>2. ASSUME QueueTyped, RangesTyped, TickTyped, CountTyped PROVE Typed
  <2>1. saved.first \in Range2 /\ saved.cover \in Covers
    BY <1>2 DEF RangesTyped, SavedType
  <2> QED
    BY <1>2, <2>1 DEF Typed, TypeOK, QueueTyped, RangesTyped, TickTyped, CountTyped, Entry, Places, Latest
<1> QED
  BY <1>1, <1>2

\* A range that is not set, and a document that is not stored, have their
\* types.
LEMMA UnsetTyped == Unset \in Range2 /\ Nowhere \in [shard : 0 .. MaxShards, time : 0 .. MaxTime]
  BY BoundsAssumption DEF Unset, Range2, Nowhere

\* The types hold initially.
LEMMA TypedInit == Init => Typed
<1> SUFFICES ASSUME Init PROVE QueueTyped /\ RangesTyped /\ TickTyped /\ CountTyped
  BY TypedParts
<1>1. Unset \in Range2 /\ 1 \in 1 .. MaxShards /\ NoCover \in Covers
  BY BoundsAssumption, UnsetTyped DEF NoCover, Covers
<1>2. <<Unset>> \in Seq(Range2) /\ Len(<<Unset>>) = 1
  BY <1>1
<1>3. queue \in Seq(Entry) /\ Len(queue) = 0
  BY EmptySeq DEF Init
<1>4. place \in Places /\ taken \in 0 .. Len(queue) /\ todo \in SUBSET (0 .. MaxShards)
  BY <1>3, UnsetTyped DEF Init, Places
<1>5. CountTyped /\ TickTyped
  <2>1. late \in BOOLEAN /\ pc = "idle"
    BY Zenon DEF Init
  <2>2. CountTyped
    BY BoundsAssumption DEF Init, CountTyped
  <2> QED
    BY <2>1, <2>2 DEF TickTyped
<1>6. RangesTyped
  BY <1>1, <1>2 DEF Init, RangesTyped, SavedType
<1> QED
  BY <1>3, <1>4, <1>5, <1>6 DEF QueueTyped

\* NewShard closes off the newest shard with the collected range and adds an
\* empty one.
LEMMA ClosedOffFacts ==
    ASSUME ranges \in Seq(Range2), Len(ranges) \in 1 .. MaxShards, first \in Range2
    PROVE  /\ ClosedOff \in Seq(Range2) /\ Len(ClosedOff) = Len(ranges) + 1
           /\ \A i \in 1 .. Len(ranges) : i # Len(ranges) => ClosedOff[i] = ranges[i]
           /\ ClosedOff[Len(ranges)] = first /\ ClosedOff[Len(ranges) + 1] = Unset
<1> DEFINE rs == [ranges EXCEPT ![Len(ranges)] = first]
<1>1. Unset \in Range2 /\ Len(ranges) \in Nat
  BY BoundsAssumption, LenProperties DEF Unset, Range2
<1>2. rs \in Seq(Range2) /\ Len(rs) = Len(ranges) /\ rs[Len(ranges)] = first
      /\ \A i \in 1 .. Len(ranges) : i # Len(ranges) => rs[i] = ranges[i]
  BY ExceptSeq, LenProperties
<1>3. ClosedOff = Append(rs, Unset)
  BY DEF ClosedOff, Latest
<1> HIDE DEF rs
<1> QED
  BY <1>1, <1>2, <1>3, AppendProperties

\* A step that meets an error counts it.
LEMMA FaultTyped == CountTyped /\ Fault => CountTyped'
<1> SUFFICES ASSUME CountTyped, Fault PROVE CountTyped'
  OBVIOUS
<1>1. faults + 1 \in 0 .. MaxFaults
  BY BoundsAssumption DEF CountTyped, Fault
<1> QED
  BY <1>1 DEF CountTyped, Fault

\* The entries of a group are typed.
LEMMA GroupTyped ==
    ASSUME QueueTyped, NEW g
    PROVE  Group(g) \subseteq Entry
<1>1. Merged(taken) \subseteq Entry
  BY MergedTyped DEF QueueTyped
<1> QED
  BY <1>1 DEF Group

\* Building entries widens the collected range by their times.
LEMMA BuildTyped ==
    ASSUME RangesTyped, TickTyped, NEW E, E \subseteq Entry, Build(E)
    PROVE  first' \in Range2 /\ late' \in BOOLEAN
<1> DEFINE T == {e.time : e \in E}
<1>1. T \subseteq Times /\ first' = Widened(first, T)
  BY DEF Build, Entry
<1>2. late' \in BOOLEAN
  BY DEF Build
<1> HIDE DEF T
<1> QED
  BY <1>1, <1>2, WidenedFacts DEF RangesTyped

\* A document that was written is placed.
LEMMA PlaceTyped ==
    ASSUME RangesTyped, NEW e \in Entry
    PROVE  PlaceOf(e) \in [shard : 0 .. MaxShards, time : 0 .. MaxTime]
<1>1. Target(e.shard) \in 0 .. MaxShards
  BY BoundsAssumption DEF Target, Latest, Entry, RangesTyped
<1>2. e.time \in 0 .. MaxTime
  BY BoundsAssumption DEF Entry, Times
<1> QED
  BY <1>1, <1>2, UnsetTyped DEF PlaceOf

\* Every step keeps the types.
LEMMA TypedNext == Typed /\ [Next]_vars => Typed'
<1> SUFFICES ASSUME QueueTyped, RangesTyped, TickTyped, CountTyped, [Next]_vars
             PROVE  QueueTyped' /\ RangesTyped' /\ TickTyped' /\ CountTyped'
  <2>1. Typed' <=> QueueTyped' /\ RangesTyped' /\ TickTyped' /\ CountTyped'
    BY TypedParts, PTL
  <2> QED
    BY <2>1, TypedParts
<1> USE BoundsAssumption DEF chunkVars, counters
<1>0. Len(queue) \in Nat /\ 0 \in 0 .. Len(queue) /\ {} \in SUBSET (0 .. MaxShards)
  BY LenProperties DEF QueueTyped
<1>2. ASSUME NEW d \in Docs, NEW t \in Times, NEW sh \in 0 .. MaxShards, NEW b \in BOOLEAN, Accept(d, t, sh, b)
      PROVE  QueueTyped' /\ RangesTyped' /\ TickTyped' /\ CountTyped'
  <2> DEFINE e == [doc |-> d, time |-> t, shard |-> sh, del |-> b]
  <2>1. e \in Entry /\ queue' = Append(queue, e)
    BY <1>2 DEF Accept, Entry
  <2> HIDE DEF e
  <2>2. queue' \in Seq(Entry) /\ Len(queue') = Len(queue) + 1
    BY <2>1, AppendProperties DEF QueueTyped
  <2>3. QueueTyped'
    BY <1>0, <1>2, <2>2 DEF Accept, QueueTyped
  <2>4. RangesTyped' /\ TickTyped'
    BY <1>2 DEF Accept, RangesTyped, TickTyped
  <2>5. CountTyped'
    BY <1>2 DEF Accept, CountTyped
  <2> QED
    BY <2>3, <2>4, <2>5
<1>3. CASE CreateDocument
  <2>1. 0 \in 0 .. MaxShards
    OBVIOUS
  <2> QED
    BY <1>2, <1>3, <2>1 DEF CreateDocument, NeedUpdate
<1>4. CASE UpdateDocument \/ DeleteDocument
  <2>1. \A d \in Docs : place[d].shard \in 0 .. MaxShards
    BY DEF QueueTyped, Places
  <2> QED
    BY <1>2, <1>4, <2>1 DEF UpdateDocument, DeleteDocument
<1>5. CASE Take
  <2>1. PICK n \in 1 .. Len(queue) : taken' = n /\ todo' = {queue[i].shard : i \in 1 .. n}
    BY <1>5 DEF Take
  <2>2. \A i \in 1 .. n : queue[i] \in Entry
    BY <1>0, <2>1, ElementOfSeq DEF QueueTyped
  <2>3. todo' \in SUBSET (0 .. MaxShards)
    BY <2>1, <2>2 DEF Entry
  <2>4. QueueTyped'
    BY <1>0, <1>5, <2>1, <2>3 DEF Take, QueueTyped
  <2> QED
    BY <1>5, <2>4 DEF Take, RangesTyped, TickTyped, CountTyped
<1>6. ASSUME NEW g \in 0 .. MaxShards, WriteToShard(g)
      PROVE  QueueTyped' /\ RangesTyped' /\ TickTyped' /\ CountTyped'
  <2>1. Group(g) \subseteq Entry
    BY GroupTyped
  <2>2. first' \in Range2 /\ late' \in BOOLEAN
    BY <1>6, <2>1, BuildTyped DEF WriteToShard
  <2>3. ASSUME NEW d \in Docs, \E e \in Group(g) : e.doc = d
        PROVE  PlaceOf(CHOOSE e \in Group(g) : e.doc = d) \in [shard : 0 .. MaxShards, time : 0 .. MaxTime]
    <3>1. (CHOOSE e \in Group(g) : e.doc = d) \in Entry
      BY <2>1, <2>3
    <3> QED
      BY <3>1, PlaceTyped
  <2>4. place' \in Places
    BY <1>6, <2>3 DEF WriteToShard, QueueTyped, Places
  <2>5. cover' \in Covers
    BY <1>6 DEF WriteToShard, RangesTyped, Covers
  <2>6. saved' \in SavedType /\ saved'.ranges = saved.ranges
    <3> DEFINE c == [d \in Docs |-> IF \E e \in Group(g) : e.doc = d THEN "missed" ELSE saved.cover[d]]
    <3>1. saved' = [saved EXCEPT !.cover = c]
      BY <1>6 DEF WriteToShard
    <3>2. c \in Covers
      BY DEF RangesTyped, SavedType, Covers
    <3> HIDE DEF c
    <3> QED
      BY <3>1, <3>2 DEF RangesTyped, SavedType
  <2>7. QueueTyped'
    BY <1>6, <2>4 DEF WriteToShard, QueueTyped
  <2>8. RangesTyped'
    BY <1>6, <2>2, <2>5, <2>6 DEF WriteToShard, RangesTyped
  <2>9. TickTyped' /\ CountTyped'
    BY <1>6, <2>2 DEF WriteToShard, TickTyped, CountTyped
  <2> QED
    BY <2>7, <2>8, <2>9
<1>7. CASE WriteFails
  <2>1. first' \in Range2 /\ late' \in BOOLEAN
    <3>1. PICK g \in todo : Build(Group(g)) \/ UNCHANGED <<first, late>>
      BY <1>7 DEF WriteFails
    <3>2. Group(g) \subseteq Entry
      BY GroupTyped
    <3> QED
      BY <3>1, <3>2, BuildTyped DEF RangesTyped, TickTyped
  <2>2. QueueTyped' /\ RangesTyped'
    BY <1>0, <1>7, <2>1 DEF WriteFails, GiveUp, QueueTyped, RangesTyped
  <2>3. TickTyped' /\ CountTyped'
    BY <1>7, <2>1, FaultTyped DEF WriteFails, GiveUp, TickTyped
  <2> QED
    BY <2>2, <2>3
<1>8. CASE ShardMissing
  BY <1>0, <1>8 DEF ShardMissing, GiveUp, QueueTyped, RangesTyped, TickTyped, CountTyped
<1>9. CASE CommitFails
  <2>1. CountTyped'
    BY <1>9, FaultTyped DEF CommitFails
  <2> QED
    BY <1>0, <1>9, <2>1 DEF CommitFails, GiveUp, QueueTyped, RangesTyped, TickTyped
<1>10. CASE CommitChunk
  <2>1. queue' \in Seq(Entry)
    <3>1. taken + 1 \in 1 .. Len(queue) + 1
      BY <1>0 DEF QueueTyped
    <3>2. queue' = SubSeq(queue, taken + 1, Len(queue))
      BY <1>10 DEF CommitChunk
    <3>3. \A i \in taken + 1 .. Len(queue) : queue[i] \in Entry
      BY <1>0, ElementOfSeq DEF QueueTyped
    <3> QED
      BY <1>0, <3>1, <3>2, <3>3, SubSeqProperties DEF QueueTyped
  <2>2. QueueTyped'
    <3>1. Len(queue') \in Nat
      BY <2>1, LenProperties
    <3>2. taken' = 0 /\ UNCHANGED <<place, todo>>
      BY <1>10 DEF CommitChunk
    <3> QED
      BY <2>1, <3>1, <3>2 DEF QueueTyped
  <2> QED
    BY <1>10, <2>2 DEF CommitChunk, RangesTyped, TickTyped, CountTyped
<1>11. CASE Fits \/ CheckFails \/ StoreFails
  <2>1. CountTyped'
    BY <1>11, FaultTyped DEF Fits, CheckFails, StoreFails, CountTyped
  <2> QED
    BY <1>11, <2>1 DEF Fits, CheckFails, StoreFails, QueueTyped, RangesTyped, TickTyped
<1>12. CASE Store \/ StoreElsewhere
  <2>1. saved' = [first |-> first, ranges |-> ranges, cover |-> cover] /\ UNCHANGED <<first, ranges, cover>>
    BY <1>12 DEF Store, StoreElsewhere, StoreIndex
  <2>2. RangesTyped'
    BY <2>1 DEF RangesTyped, SavedType
  <2> QED
    BY <1>12, <2>2 DEF Store, StoreElsewhere, QueueTyped, TickTyped, CountTyped
<1>13. CASE NewShard \/ NewShardFails
  <2>1. ranges' \in Seq(Range2) /\ Len(ranges') = Len(ranges) + 1 /\ Len(ranges) < MaxShards
    BY <1>13, ClosedOffFacts DEF NewShard, NewShardFails, Latest, RangesTyped
  <2>2. Len(ranges') \in 1 .. MaxShards
    BY <2>1 DEF RangesTyped
  <2>3. first' \in Range2 /\ cover' \in Covers
    BY <1>13, UnsetTyped DEF NewShard, NewShardFails, Copied, RangesTyped, Covers
  <2>4. RangesTyped'
    <3>1. saved' = saved \/ saved' = [first |-> first', ranges |-> ranges', cover |-> cover']
      BY <1>13 DEF NewShard, NewShardFails
    <3>2. saved' \in SavedType /\ Len(saved'.ranges) \in 1 .. MaxShards
      BY <2>1, <2>2, <2>3, <3>1 DEF RangesTyped, SavedType
    <3> QED
      BY <2>1, <2>2, <2>3, <3>2 DEF RangesTyped
  <2>5. CountTyped'
    BY <1>13, FaultTyped DEF NewShard, NewShardFails, CountTyped
  <2> QED
    BY <1>13, <2>4, <2>5 DEF NewShard, NewShardFails, QueueTyped, TickTyped
<1>14. CASE UpdateMetadataByShard
  <2>1. ranges' \in Seq(Range2) /\ Len(ranges') = Len(ranges)
    <3>1. ranges' = [ranges EXCEPT ![Len(ranges)] = first]
      BY <1>14 DEF UpdateMetadataByShard, Latest
    <3>2. Len(ranges) \in 1 .. Len(ranges)
      BY LenProperties DEF RangesTyped
    <3> QED
      BY <3>1, <3>2, ExceptSeq DEF RangesTyped
  <2>2. cover' \in Covers
    BY <1>14 DEF UpdateMetadataByShard, Copied, RangesTyped, Covers
  <2>3. RangesTyped'
    BY <1>14, <2>1, <2>2 DEF UpdateMetadataByShard, RangesTyped
  <2> QED
    BY <1>14, <2>3 DEF UpdateMetadataByShard, QueueTyped, TickTyped, CountTyped
<1>15. CASE Restart
  <2>1. RangesTyped'
    BY <1>15 DEF Restart, RangesTyped, SavedType
  <2>2. CountTyped'
    BY <1>15 DEF Restart, CountTyped
  <2> QED
    BY <1>0, <1>15, <2>1, <2>2 DEF Restart, GiveUp, QueueTyped, TickTyped
<1>16. CASE UNCHANGED vars
  BY <1>16 DEF vars, QueueTyped, RangesTyped, TickTyped, CountTyped
<1> QED
  BY <1>3, <1>4, <1>5, <1>6, <1>7, <1>8, <1>9, <1>10, <1>11, <1>12, <1>13, <1>14, <1>15, <1>16 DEF Next

(***************************************************************************)
(* What the steps of a tick do to the ranges                               *)
(***************************************************************************)

\* NewShard: the closed shard takes the collected range, and nothing is in the
\* new one.
LEMMA CloseOff ==
    ASSUME NEW f \in Range2, NEW rs \in Seq(Range2), NEW cs \in Seq(Range2),
           NEW n \in Nat \ {0}, Len(rs) = n, Len(cs) = n + 1,
           \A i \in 1 .. n : i # n => cs[i] = rs[i], cs[n] = f, cs[n + 1] = Unset
    PROVE  /\ Ordered(f, rs) => Ordered(Unset, cs)
           /\ \A q, c : KnownDoc(q, c, f, rs) =>
                  KnownDoc(q, IF c = "collected" THEN "covered" ELSE c, Unset, cs)
<1>0. Unset.min = 0
  BY DEF Unset
<1>1. ASSUME Ordered(f, rs) PROVE Ordered(Unset, cs)
  <2>1. ASSUME NEW i \in 1 .. n + 1, NEW j \in 1 .. n + 1, i < j, cs[j].min > 0
        PROVE  cs[i].max <= cs[j].min
    <3>1. j # n + 1
      BY <1>0, <2>1
    <3>2. i \in 1 .. n /\ j \in 1 .. n /\ i # n /\ cs[i] = rs[i]
      BY <2>1, <3>1
    <3>3. CASE j = n
      BY <1>1, <2>1, <3>2, <3>3 DEF Ordered
    <3>4. CASE j # n
      BY <1>1, <2>1, <3>2, <3>4 DEF Ordered
    <3> QED
      BY <3>3, <3>4
  <2> QED
    BY <1>0, <2>1 DEF Ordered
<1>2. ASSUME NEW q, NEW c, KnownDoc(q, c, f, rs), q # Nowhere, c # "missed"
      PROVE  KnownDoc(q, IF c = "collected" THEN "covered" ELSE c, Unset, cs)
  <2>1. /\ q.time \in Times /\ q.shard \in 1 .. n
        /\ q.shard = n => In(f, q.time)
        /\ c = "collected" => q.shard = n
        /\ c = "covered" => In(rs[q.shard], q.time)
    BY <1>2 DEF KnownDoc
  <2>2. q.shard \in 1 .. n + 1 /\ q.shard # n + 1
    BY <2>1
  <2>3. c \in {"collected", "covered"} => In(cs[q.shard], q.time)
    BY <2>1
  <2> QED
    BY <2>1, <2>2, <2>3 DEF KnownDoc
<1> QED
  BY <1>1, <1>2 DEF KnownDoc

\* UpdateMetadataByShard: the newest shard takes the collected range.
LEMMA CopyRange ==
    ASSUME NEW f \in Range2, NEW rs \in Seq(Range2), NEW cs \in Seq(Range2),
           NEW n \in Nat \ {0}, Len(rs) = n, Len(cs) = n,
           \A i \in 1 .. n : i # n => cs[i] = rs[i], cs[n] = f
    PROVE  /\ Ordered(f, rs) => Ordered(f, cs)
           /\ \A q, c : KnownDoc(q, c, f, rs) =>
                  KnownDoc(q, IF c = "collected" THEN "covered" ELSE c, f, cs)
<1>1. ASSUME Ordered(f, rs) PROVE Ordered(f, cs)
  <2>1. ASSUME NEW i \in 1 .. n, NEW j \in 1 .. n, i < j, cs[j].min > 0
        PROVE  cs[i].max <= cs[j].min
    <3>1. i # n /\ cs[i] = rs[i]
      BY <2>1
    <3>2. CASE j = n
      BY <1>1, <2>1, <3>1, <3>2 DEF Ordered
    <3>3. CASE j # n
      BY <1>1, <2>1, <3>1, <3>3 DEF Ordered
    <3> QED
      BY <3>2, <3>3
  <2>2. \A i \in 1 .. n : i < n /\ f.min > 0 => cs[i].max <= f.min
    BY <1>1 DEF Ordered
  <2> QED
    BY <2>1, <2>2 DEF Ordered
<1>2. ASSUME NEW q, NEW c, KnownDoc(q, c, f, rs), q # Nowhere, c # "missed"
      PROVE  KnownDoc(q, IF c = "collected" THEN "covered" ELSE c, f, cs)
  <2>1. /\ q.time \in Times /\ q.shard \in 1 .. n
        /\ q.shard = n => In(f, q.time)
        /\ c = "collected" => q.shard = n
        /\ c = "covered" => In(rs[q.shard], q.time)
    BY <1>2 DEF KnownDoc
  <2>2. c \in {"collected", "covered"} => In(cs[q.shard], q.time)
    BY <2>1
  <2> QED
    BY <2>1, <2>2 DEF KnownDoc
<1> QED
  BY <1>1, <1>2 DEF KnownDoc

\* Build: what was in the collected range stays there, the times of the entries
\* are in it too, and the order of the shards is kept unless one is too old.
LEMMA BuildRange ==
    ASSUME RangesTyped, NEW E, E \subseteq Entry, Build(E)
    PROVE  /\ \A e \in E : In(first', e.time)
           /\ \A t \in Times : In(first, t) => In(first', t)
           /\ ~late' => ~late
           /\ ~late' /\ Ordered(first, ranges) => Ordered(first', ranges)
<1> DEFINE T == {e.time : e \in E}
<1>1. T \subseteq Times /\ first' = Widened(first, T)
  BY DEF Build, Entry
<1>2. \A e \in E : e.time \in T
  OBVIOUS
<1>3. ~late' => ~late /\ \A t \in T : ~TooOld(t)
  BY DEF Build
<1> HIDE DEF T
<1>4. /\ \A t \in T : In(first', t)
      /\ \A t \in Times : In(first, t) => In(first', t)
      /\ \A b \in Nat : (first.min > 0 => b <= first.min) /\ (\A t \in T : b <= t)
                        => (first'.min > 0 => b <= first'.min)
  BY <1>1, WidenedFacts DEF RangesTyped
<1>5. ASSUME ~late', Ordered(first, ranges) PROVE Ordered(first', ranges)
  <2>0. Len(ranges) \in Nat /\ \A i \in 1 .. Len(ranges) : ranges[i] \in Range2
    BY LenProperties, ElementOfSeq DEF RangesTyped
  <2>1. ASSUME NEW i \in 1 .. Len(ranges), i < Len(ranges), NEW t \in T PROVE ranges[i].max <= t
    <3>1. i \in 1 .. Len(ranges) - 1
      BY <2>0, <2>1
    <3>2. ~(t < ranges[i].max)
      BY <1>3, <1>5, <3>1 DEF TooOld, Latest
    <3> QED
      BY <1>1, <2>0, <3>2, BoundsAssumption DEF Range2, Times
  <2>2. \A i \in 1 .. Len(ranges) : ranges[i].max \in Nat
    BY <2>0, BoundsAssumption DEF Range2
  <2>3. ASSUME NEW i \in 1 .. Len(ranges), i < Len(ranges), first'.min > 0 PROVE ranges[i].max <= first'.min
    <3>1. first.min > 0 => ranges[i].max <= first.min
      BY <1>5, <2>3 DEF Ordered
    <3> QED
      BY <1>4, <2>1, <2>2, <2>3, <3>1
  <2> QED
    BY <1>5, <2>3 DEF Ordered
<1> QED
  BY <1>2, <1>3, <1>4, <1>5

\* A range that grows knows as much of every document.
LEMMA WidenKnown ==
    ASSUME NEW f, NEW h, NEW rs, \A t \in Times : In(f, t) => In(h, t), NEW q, NEW c, KnownDoc(q, c, f, rs)
    PROVE  KnownDoc(q, c, h, rs)
BY DEF KnownDoc

(***************************************************************************)
(* The inductive step                                                      *)
(***************************************************************************)
Core == OrderInv /\ CoverInv /\ SavedInv

\* Nothing is known of a document that is not stored.
LEMMA CoreInit == Init => Core
<1> SUFFICES ASSUME Init PROVE Core
  OBVIOUS
<1>1. Unset.min = 0 /\ Len(<<Unset>>) = 1 /\ <<Unset>>[1] = Unset
  BY DEF Unset
<1>2. Ordered(Unset, <<Unset>>)
  BY <1>1 DEF Ordered
<1>3. \A d \in Docs : place[d] = Nowhere
  BY DEF Init
<1>4. CoverInv /\ SavedInv
  BY <1>3 DEF CoverInv, SavedInv, Known, KnownDoc
<1> QED
  BY <1>2, <1>4 DEF Init, Core, OrderInv

\* The invariant is inductive.
LEMMA CoreNext == IInv /\ [Next]_vars => Core'
<1> SUFFICES ASSUME IInv, [Next]_vars PROVE Core'
  OBVIOUS
<1> USE DEF chunkVars, counters
<1>0. QueueTyped /\ RangesTyped /\ TickTyped /\ Len(ranges) \in Nat \ {0}
  <2>1. QueueTyped /\ RangesTyped /\ TickTyped
    BY TypedParts DEF IInv
  <2> QED
    BY <2>1, BoundsAssumption DEF RangesTyped
<1>1. OrderInv /\ CoverInv /\ SavedInv
  BY DEF IInv
\* Most steps leave the ranges and what is known of them alone.
<1>2. ASSUME UNCHANGED <<place, first, ranges, cover, saved, late>> PROVE Core'
  BY <1>1, <1>2 DEF Core, OrderInv, CoverInv, SavedInv, Known
<1>3. CASE CreateDocument \/ UpdateDocument \/ DeleteDocument \/ Take \/ ShardMissing \/ CommitFails \/ CommitChunk
           \/ Fits \/ CheckFails \/ StoreFails
  BY <1>2, <1>3 DEF CreateDocument, UpdateDocument, DeleteDocument, Accept, Take, ShardMissing, CommitFails,
                    CommitChunk, Fits, CheckFails, StoreFails
<1>4. ASSUME NEW g \in 0 .. MaxShards, WriteToShard(g) PROVE Core'
  <2> DEFINE W(d) == \E e \in Group(g) : e.doc = d
  <2>1. Group(g) \subseteq Entry /\ \A e \in Group(g) : e.shard = g
    BY <1>0, GroupTyped DEF Group
  <2>2. /\ \A e \in Group(g) : In(first', e.time)
        /\ \A t \in Times : In(first, t) => In(first', t)
        /\ ~late' => ~late
        /\ ~late' /\ Ordered(first, ranges) => Ordered(first', ranges)
    BY <1>0, <1>4, <2>1, BuildRange DEF WriteToShard
  <2>3. /\ ranges' = ranges /\ saved'.first = saved.first /\ saved'.ranges = saved.ranges
        /\ \A d \in Docs : saved'.cover[d] = IF W(d) THEN "missed" ELSE saved.cover[d]
    BY <1>0, <1>4 DEF WriteToShard, RangesTyped, SavedType
  <2>4. OrderInv'
    BY <1>1, <2>2, <2>3 DEF OrderInv
  <2>5. ASSUME NEW d \in Docs, ~W(d) PROVE place'[d] = place[d] /\ cover'[d] = cover[d]
    BY <1>4, <2>5 DEF WriteToShard
  <2>6. SavedInv'
    BY <1>1, <2>3, <2>5 DEF SavedInv, Known, KnownDoc
  <2>7. ASSUME NEW d \in Docs PROVE KnownDoc(place'[d], cover'[d], first', ranges)
    <3>1. CASE ~W(d)
      <4>1. KnownDoc(place[d], cover[d], first, ranges)
        BY <1>1 DEF CoverInv, Known
      <4> QED
        BY <2>2, <2>5, <3>1, <4>1, WidenKnown
    <3>2. CASE W(d) /\ Target(g) # Latest
      BY <1>4, <3>2 DEF WriteToShard, KnownDoc
    <3>3. CASE W(d) /\ Target(g) = Latest
      <4> DEFINE x == CHOOSE e \in Group(g) : e.doc = d
      <4>1. x \in Group(g)
        BY <3>3
      <4>2. place'[d] = PlaceOf(x) /\ cover'[d] = "collected"
        BY <1>4, <3>3 DEF WriteToShard
      <4> HIDE DEF x
      <4>3. x.time \in Times /\ x.shard = g /\ In(first', x.time)
        BY <2>1, <2>2, <4>1 DEF Entry
      <4>4. place'[d] = Nowhere \/ place'[d] = [shard |-> Len(ranges), time |-> x.time]
        BY <3>3, <4>2, <4>3 DEF PlaceOf, Latest
      <4>5. Len(ranges) \in 1 .. Len(ranges)
        BY <1>0
      <4> QED
        BY <4>2, <4>3, <4>4, <4>5 DEF KnownDoc
    <3> QED
      BY <3>1, <3>2, <3>3
  <2>8. CoverInv'
    BY <2>3, <2>7 DEF CoverInv, Known
  <2> QED
    BY <2>4, <2>6, <2>8 DEF Core
<1>5. CASE WriteFails
  <2>1. UNCHANGED <<place, ranges, cover, saved>>
    BY <1>5 DEF WriteFails
  <2>2. PICK g \in todo : Build(Group(g)) \/ UNCHANGED <<first, late>>
    BY <1>5 DEF WriteFails
  <2>3. CASE UNCHANGED <<first, late>>
    BY <1>2, <2>1, <2>3
  <2>4. CASE Build(Group(g))
    <3>1. Group(g) \subseteq Entry
      BY <1>0, GroupTyped
    <3>2. /\ \A t \in Times : In(first, t) => In(first', t)
          /\ ~late' => ~late
          /\ ~late' /\ Ordered(first, ranges) => Ordered(first', ranges)
      BY <1>0, <2>4, <3>1, BuildRange
    <3>3. OrderInv' /\ SavedInv'
      BY <1>1, <2>1, <3>2 DEF OrderInv, SavedInv, Known
    <3>4. \A d \in Docs : KnownDoc(place[d], cover[d], first, ranges)
      BY <1>1 DEF CoverInv, Known
    <3>5. \A d \in Docs : KnownDoc(place[d], cover[d], first', ranges)
      BY <3>2, <3>4, WidenKnown
    <3> QED
      BY <2>1, <3>3, <3>5 DEF Core, CoverInv, Known
  <2> QED
    BY <2>2, <2>3, <2>4
<1>6. CASE NewShard \/ NewShardFails
  <2>1. /\ ranges' = ClosedOff /\ first' = Unset /\ cover' = Copied /\ UNCHANGED <<place, late>>
        /\ saved' = saved \/ (saved'.first = first' /\ saved'.ranges = ranges' /\ saved'.cover = cover')
    BY <1>6 DEF NewShard, NewShardFails
  <2>2. /\ ClosedOff \in Seq(Range2) /\ Len(ClosedOff) = Len(ranges) + 1
        /\ \A i \in 1 .. Len(ranges) : i # Len(ranges) => ClosedOff[i] = ranges[i]
        /\ ClosedOff[Len(ranges)] = first /\ ClosedOff[Len(ranges) + 1] = Unset
    BY <1>0, ClosedOffFacts DEF RangesTyped
  <2>3. /\ Ordered(first, ranges) => Ordered(Unset, ClosedOff)
        /\ \A q, c : KnownDoc(q, c, first, ranges) =>
               KnownDoc(q, IF c = "collected" THEN "covered" ELSE c, Unset, ClosedOff)
    <3> DEFINE cs == ClosedOff
               n == Len(ranges)
    <3>1. /\ cs \in Seq(Range2) /\ Len(cs) = n + 1 /\ \A i \in 1 .. n : i # n => cs[i] = ranges[i]
          /\ cs[n] = first /\ cs[n + 1] = Unset /\ n \in Nat \ {0} /\ Len(ranges) = n
          /\ first \in Range2 /\ ranges \in Seq(Range2)
      BY <1>0, <2>2 DEF RangesTyped
    <3> HIDE DEF cs, n
    <3>2. /\ Ordered(first, ranges) => Ordered(Unset, cs)
          /\ \A q, c : KnownDoc(q, c, first, ranges) =>
                 KnownDoc(q, IF c = "collected" THEN "covered" ELSE c, Unset, cs)
      BY <3>1, CloseOff
    <3> QED
      BY <3>2 DEF cs
  <2>4. CoverInv'
    <3>1. ASSUME NEW d \in Docs PROVE KnownDoc(place[d], Copied[d], Unset, ClosedOff)
      BY <1>1, <2>3 DEF CoverInv, Known, Copied
    <3> QED
      BY <2>1, <3>1 DEF CoverInv, Known
  <2>5. OrderInv'
    BY <1>1, <2>1, <2>3 DEF OrderInv
  <2>6. SavedInv'
    BY <1>1, <2>1, <2>4 DEF CoverInv, SavedInv, Known
  <2> QED
    BY <2>4, <2>5, <2>6 DEF Core
<1>7. CASE UpdateMetadataByShard
  <2>1. ranges' = [ranges EXCEPT ![Len(ranges)] = first] /\ cover' = Copied /\ UNCHANGED <<place, first, saved, late>>
    BY <1>7 DEF UpdateMetadataByShard, Latest
  <2>2. /\ Ordered(first, ranges) => Ordered(first, ranges')
        /\ \A q, c : KnownDoc(q, c, first, ranges) =>
               KnownDoc(q, IF c = "collected" THEN "covered" ELSE c, first, ranges')
    <3> DEFINE n == Len(ranges)
    <3>1. n \in Nat \ {0} /\ Len(ranges) = n /\ n \in 1 .. Len(ranges) /\ ranges' = [ranges EXCEPT ![n] = first]
          /\ first \in Range2 /\ ranges \in Seq(Range2)
      BY <1>0, <2>1 DEF RangesTyped
    <3> HIDE DEF n
    <3>2. /\ ranges' \in Seq(Range2) /\ Len(ranges') = n
          /\ \A i \in 1 .. n : ranges'[i] = IF i = n THEN first ELSE ranges[i]
      BY <3>1, ExceptSeq
    <3>3. ranges'[n] = first /\ \A i \in 1 .. n : i # n => ranges'[i] = ranges[i]
      BY <3>1, <3>2
    <3> DEFINE cs == ranges'
    <3>4. /\ cs \in Seq(Range2) /\ Len(cs) = n /\ cs[n] = first
          /\ \A i \in 1 .. n : i # n => cs[i] = ranges[i]
      BY <3>2, <3>3
    <3> HIDE DEF cs
    <3>5. /\ Ordered(first, ranges) => Ordered(first, cs)
          /\ \A q, c : KnownDoc(q, c, first, ranges) =>
                 KnownDoc(q, IF c = "collected" THEN "covered" ELSE c, first, cs)
      BY <3>1, <3>4, CopyRange
    <3> QED
      BY <3>5 DEF cs
  <2>3. CoverInv'
    <3>1. ASSUME NEW d \in Docs PROVE KnownDoc(place[d], Copied[d], first, ranges')
      BY <1>1, <2>2 DEF CoverInv, Known, Copied
    <3> QED
      BY <2>1, <3>1 DEF CoverInv, Known
  <2>4. OrderInv' /\ SavedInv'
    BY <1>1, <2>1, <2>2 DEF OrderInv, SavedInv, Known
  <2> QED
    BY <2>3, <2>4 DEF Core
<1>8. CASE Store \/ StoreElsewhere
  <2>1. /\ UNCHANGED <<place, first, ranges, cover, late>>
        /\ saved'.first = first /\ saved'.ranges = ranges /\ saved'.cover = cover
    BY <1>8 DEF Store, StoreElsewhere, StoreIndex
  <2> QED
    BY <1>1, <2>1 DEF Core, OrderInv, CoverInv, SavedInv, Known
<1>9. CASE Restart
  <2>1. first' = saved.first /\ ranges' = saved.ranges /\ cover' = saved.cover /\ UNCHANGED <<place, saved, late>>
    BY <1>9 DEF Restart
  <2> QED
    BY <1>1, <2>1 DEF Core, OrderInv, CoverInv, SavedInv, Known
<1>10. CASE UNCHANGED vars
  BY <1>2, <1>10 DEF vars
<1> QED
  BY <1>3, <1>4, <1>5, <1>6, <1>7, <1>8, <1>9, <1>10 DEF Next

\* The invariant holds in every reachable state.
LEMMA InvariantHolds == Spec => []IInv
<1>1. Init => IInv
  BY TypedInit, CoreInit DEF Core, IInv
<1>2. IInv /\ [Next]_vars => IInv'
  BY TypedNext, CoreNext DEF Core, IInv
<1> QED
  BY <1>1, <1>2, PTL DEF Spec

(***************************************************************************)
(* Results                                                                 *)
(***************************************************************************)

\* What the shard and the metadata store keep is typed, the tick never took more
\* entries than the queue holds, and there is always a shard to write to.
THEOREM TypeCorrect == Spec => []TypeOK
<1>1. IInv => TypeOK
  BY DEF IInv, Typed
<1> QED
  BY <1>1, InvariantHolds, PTL

\* Two different elements are two.
LEMMA PairSize == ASSUME NEW x, NEW y, x # y PROVE Cardinality({x} \cup {y}) = 2
<1>1. IsFiniteSet({x}) /\ Cardinality({x}) = 1 /\ y \notin {x}
  BY FS_Singleton
<1>2. Cardinality({x} \cup {y}) = Cardinality({x}) + 1
  BY <1>1, FS_AddElement
<1> QED
  BY <1>1, <1>2

\* A search reads with bounds that every answer satisfies, unless the query has
\* an optional bound.
LEMMA SearchBounds ==
    ASSUME NEW u \in Times, NEW r \in SearchedFor[u]
    PROVE  /\ r \in Range2
           /\ r.min > 0 => u >= r.min
           /\ r.max > 0 => u <= r.max
<1>1. PICK q \in Leaves \cup Bools : ~OptionalBound(q) /\ Matches(q, u) /\ r \in QueryRanges(q)
  BY DEF SearchedFor
<1>2. r \in QueryRanges(q) /\ u \in Times /\ Matches(q, u)
  BY <1>1
<1>3. ASSUME NEW l \in Leaves
      PROVE  /\ LeafRange(l) \in Range2
             /\ LeafMatches(l, u) => (LeafRange(l).min > 0 => u >= LeafRange(l).min) /\ (LeafRange(l).max > 0 => u <= LeafRange(l).max)
  <2>1. CASE l \in [op : {"range"}, min : 0 .. MaxTime, max : 0 .. MaxTime]
    <3>1. l.op = "range" /\ l.min \in 0 .. MaxTime /\ l.max \in 0 .. MaxTime
      BY <2>1
    <3>2. LeafRange(l) = [min |-> l.min, max |-> l.max]
      BY <3>1 DEF LeafRange
    <3> QED
      BY <3>1, <3>2 DEF LeafMatches, Range2
  <2>2. CASE l = [op |-> "other"]
    <3>1. LeafRange(l) = Unset /\ Unset.min = 0 /\ Unset.max = 0
      BY <2>2 DEF LeafRange, Unset
    <3> QED
      BY <3>1, UnsetTyped
  <2> QED
    BY <2>1, <2>2 DEF Leaves
<1>4. Unset.min = 0 /\ Unset.max = 0
  BY DEF Unset
<1>5. CASE q \in Leaves
  <2>1. q.op # "bool"
    BY <1>5 DEF Leaves
  <2>2. r = LeafRange(q) /\ LeafMatches(q, u)
    BY <1>2, <2>1 DEF QueryRanges, Matches
  <2> QED
    BY <1>2, <1>3, <1>5, <2>2
<1>6. CASE q \in Bools
  <2>1. q.op = "bool" /\ q.must \in Clauses /\ q.should \in Clauses
    BY <1>6 DEF Bools
  <2>2. \A c \in Clauses : c \subseteq Leaves
    BY DEF Clauses
  <2>3. CASE r = Unset
    BY <1>2, <1>4, <2>3, UnsetTyped
  <2>4. CASE r # Unset
    <3>1. PICK l \in q.must \cup q.should : r = LeafRange(l)
      BY <1>2, <2>1, <2>4 DEF QueryRanges
    <3>2. l \in Leaves
      BY <2>1, <2>2, <3>1
    <3>3. LeafMatches(l, u)
      <4>1. CASE l \in q.must
        BY <1>2, <2>1, <4>1 DEF Matches
      <4>2. CASE l \notin q.must
        <5>1. l \in q.should /\ q.must = {} /\ ~(Cardinality(q.should) > 1)
          BY <1>1, <2>1, <2>4, <3>1, <4>2 DEF OptionalBound
        <5>2. PICK k \in q.should : LeafMatches(k, u)
          BY <1>2, <2>1, <5>1 DEF Matches
        <5>3. q.should # {} /\ \E x, y \in Leaves : q.should = {x, y}
          BY <2>1, <5>1 DEF Clauses
        <5>4. PICK x \in Leaves, y \in Leaves : q.should = {x, y}
          BY <5>3
        <5>5. x = y
          <6> SUFFICES ASSUME x # y PROVE FALSE
            OBVIOUS
          <6>1. Cardinality({x} \cup {y}) = 2
            BY PairSize
          <6>2. {x} \cup {y} = q.should
            BY <5>4
          <6> QED
            BY <5>1, <6>1, <6>2
        <5>6. k = l
          BY <5>1, <5>2, <5>4, <5>5
        <5> QED
          BY <5>2, <5>6
      <4> QED
        BY <4>1, <4>2
    <3> QED
      BY <1>2, <1>3, <3>1, <3>2, <3>3
  <2> QED
    BY <2>3, <2>4
<1> QED
  BY <1>1, <1>5, <1>6

\* A shard in order that holds the answer is read: it is not outside of the
\* bounds, and no newer shard ends the search, since it would begin before the
\* bounds do and so before this one ends.
LEMMA ReadsShard ==
    ASSUME ranges \in Seq(Range2), Ordered(first, ranges), NEW i \in 1 .. Len(ranges), NEW t \in Times,
           In(ranges[i], t), NEW r \in Range2, r.min > 0 => t >= r.min, r.max > 0 => t <= r.max
    PROVE  i \in GetReaders(r)
<1>0. /\ MaxTime \in Nat /\ t \in Nat /\ r.min \in Nat /\ r.max \in Nat
      /\ \A j \in 1 .. Len(ranges) : ranges[j].min \in Nat /\ ranges[j].max \in Nat
  <2>1. \A j \in 1 .. Len(ranges) : ranges[j] \in Range2
    BY ElementOfSeq
  <2> QED
    BY <2>1, BoundsAssumption DEF Range2, Times
<1>1. ~Skipped(i, r)
  BY <1>0 DEF Skipped, In
<1>2. ASSUME NEW j \in i + 1 .. Len(ranges), EndsAt(j, r) PROVE FALSE
  <2>1. j \in 1 .. Len(ranges) /\ i < j
    BY <1>2, LenProperties
  <2>2. ranges[j].min > 0 /\ ranges[j].min < r.min
    BY <1>2 DEF EndsAt
  <2>3. ranges[i].max <= ranges[j].min
    BY <2>1, <2>2 DEF Ordered
  <2> QED
    BY <1>0, <2>1, <2>2, <2>3 DEF In
<1> QED
  BY <1>1, <1>2 DEF GetReaders, Latest

\* At any time GetReaders returns the second-layer shard of every answer whose
\* time reached the range of its shard, whatever was written, failed and restarted
\* before, unless a document came that is older than an older shard.
THEOREM SearchComplete == Spec => []ReadsEveryAnswer
<1>1. IInv => ReadsEveryAnswer
  <2> SUFFICES ASSUME IInv, ~late, NEW d \in Docs, place[d] # Nowhere, cover[d] = "covered",
                      NEW r \in SearchedFor[place[d].time]
               PROVE  place[d].shard \in GetReaders(r)
    BY DEF ReadsEveryAnswer
  <2>1. Ordered(first, ranges) /\ KnownDoc(place[d], cover[d], first, ranges)
    BY DEF IInv, OrderInv, CoverInv, Known
  <2>2. /\ place[d].time \in Times /\ place[d].shard \in 1 .. Len(ranges)
        /\ In(ranges[place[d].shard], place[d].time)
    BY <2>1 DEF KnownDoc
  <2>3. /\ r \in Range2
        /\ r.min > 0 => place[d].time >= r.min
        /\ r.max > 0 => place[d].time <= r.max
    BY <2>2, SearchBounds
  <2>4. ranges \in Seq(Range2)
    BY TypedParts DEF IInv, RangesTyped
  <2> QED
    BY <2>1, <2>2, <2>3, <2>4, ReadsShard
<1> QED
  BY <1>1, InvariantHolds, PTL

=============================================================================
