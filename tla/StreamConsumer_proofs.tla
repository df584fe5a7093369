----------------------- MODULE StreamConsumer_proofs -----------------------
(***************************************************************************)
(* Proofs about StreamConsumer, for any documents, messages, batch size    *)
(* and bounds.                                                             *)
(*                                                                         *)
(* Two inductive invariants.  LoopInv: what lies between the position, the *)
(* fetched messages and the cursor was fetched too, is dropped or was lost *)
(* on its way, so the batch leaves nothing out, whatever the retention and *)
(* AllowGap are.  DurInv adds, for retention that keeps to the saved       *)
(* position and deliveries that arrive (only then does DurableNotBehind    *)
(* hold: a gap leaves a document behind for good), that every document is  *)
(* at the last message applied or later while a batch is worked on, and    *)
(* that what a power loss could leave of it is so too unless its index is  *)
(* still among the touched ones.                                           *)
(***************************************************************************)
EXTENDS StreamConsumer, TLAPS, SequenceTheorems, WellFoundedInduction

(***************************************************************************)
(* Type correctness                                                        *)
(***************************************************************************)
StreamTyped == msgs \in Seq(Messages) /\ first \in 1 .. LastSeq + 1

PosTyped ==
    /\ cursor \in 0 .. LastSeq + 1
    /\ offset \in 0 .. LastSeq /\ applied \in 0 .. LastSeq /\ last \in 0 .. LastSeq

DataTyped ==
    /\ data \in [Docs -> 0 .. LastSeq] /\ disk \in [Docs -> SUBSET (0 .. LastSeq)]
    /\ touched \subseteq Indexes

FlagsTyped == paused \in BOOLEAN /\ parked \in BOOLEAN /\ stopping \in BOOLEAN

PcTyped == pc \in {"down", "top", "parked", "prepare", "fetch", "check", "apply", "flush", "save"}

BatchTyped == batch \in Seq(1 .. LastSeq) /\ next \in Nat \ {0} /\ done \subseteq 1 .. LastSeq

ServerTyped == unacked \subseteq first .. LastSeq /\ lost \subseteq 1 .. LastSeq

CountTyped == trims \in Nat /\ failures \in Nat

\* TypeOK, part by part.
LEMMA TypeOKParts ==
    TypeOK <=> /\ StreamTyped /\ PosTyped /\ DataTyped /\ FlagsTyped /\ PcTyped
               /\ BatchTyped /\ ServerTyped /\ CountTyped
BY DEF TypeOK, StreamTyped, PosTyped, DataTyped, FlagsTyped, PcTyped, BatchTyped, ServerTyped,
       CountTyped

\* A fetched message is one of the stream's, and names documents.
LEMMA FetchedMessage ==
    ASSUME StreamTyped, BatchTyped, NEW i \in 1 .. Len(batch)
    PROVE  /\ Len(msgs) \in Nat /\ batch[i] \in 1 .. Len(msgs)
           /\ msgs[batch[i]] \in Messages /\ msgs[batch[i]].docs \subseteq Docs
<1>1. batch[i] \in 1 .. Len(msgs)
  BY ElementOfSeq DEF BatchTyped, LastSeq
<1>2. msgs[batch[i]] \in Messages /\ Len(msgs) \in Nat
  BY <1>1, ElementOfSeq, LenProperties DEF StreamTyped
<1>3. QED
  BY <1>1, <1>2, ConstantsAssumption

\* Writing documents leaves every document in a version of the stream.
LEMMA WriteTyped ==
    ASSUME DataTyped, StreamTyped, NEW s \in 1 .. Len(msgs), NEW ds, WriteDocs(s, ds)
    PROVE  data' \in [Docs -> 0 .. LastSeq] /\ disk' \in [Docs -> SUBSET (0 .. LastSeq)]
<1>1. Len(msgs) \in Nat
  BY LenProperties DEF StreamTyped
<1>2. QED
  BY <1>1 DEF WriteDocs, VersionBy, DataTyped, LastSeq

\* The larger of the cursor and the first message that is left.
LEMMA DeliverMax ==
    ASSUME NEW a \in Nat, NEW b \in Nat
    PROVE  Max({a, b}) \in {a, b} /\ Max({a, b}) >= a /\ Max({a, b}) >= b
<1>1. \E x \in {a, b} : \A y \in {a, b} : x >= y
  OBVIOUS
<1>2. Max({a, b}) \in {a, b} /\ \A y \in {a, b} : Max({a, b}) >= y
  BY <1>1 DEF Max
<1>3. QED
  BY <1>2

\* The types hold initially.
LEMMA TypeInit == Init => TypeOK
<1> SUFFICES ASSUME Init PROVE TypeOK
  OBVIOUS
<1>1. <<>> \in Seq(Messages) /\ <<>> \in Seq(1 .. LastSeq) /\ LastSeq = 0
  BY EmptySeq DEF Init, LastSeq
<1>2. StreamTyped /\ PosTyped /\ BatchTyped /\ ServerTyped /\ CountTyped
  BY <1>1 DEF Init, StreamTyped, PosTyped, BatchTyped, ServerTyped, CountTyped, NoCursor
<1>3. DataTyped
  BY <1>1 DEF Init, DataTyped
<1>4. FlagsTyped /\ PcTyped
  BY Zenon DEF Init, FlagsTyped, PcTyped
<1>5. QED
  BY <1>2, <1>3, <1>4, TypeOKParts

\* Every step keeps the types.
LEMMA TypeStep == TypeOK /\ [Next]_vars => TypeOK'
<1> SUFFICES ASSUME StreamTyped, PosTyped, DataTyped, FlagsTyped, PcTyped, BatchTyped, ServerTyped,
                    CountTyped, [Next]_vars
             PROVE  /\ StreamTyped' /\ PosTyped' /\ DataTyped' /\ FlagsTyped' /\ PcTyped'
                    /\ BatchTyped' /\ ServerTyped' /\ CountTyped'
  BY DEF TypeOK, StreamTyped, PosTyped, DataTyped, FlagsTyped, PcTyped, BatchTyped, ServerTyped, CountTyped
<1> USE DEF streamVars, serverVars, nodeVars, ctlVars, stepVars, histVars, countVars
<1>1. Len(msgs) \in Nat
  BY LenProperties DEF StreamTyped
<1>2. CASE Publish
  <2>1. PICK m \in Messages : msgs' = Append(msgs, m)
    BY <1>2 DEF Publish
  <2>2. msgs' \in Seq(Messages) /\ Len(msgs') = Len(msgs) + 1
    BY <2>1, AppendProperties DEF StreamTyped
  <2>3. batch \in Seq(1 .. Len(msgs'))
    BY <1>1, <2>2, SeqMonotonic DEF BatchTyped, LastSeq
  <2>4. StreamTyped' /\ PosTyped' /\ BatchTyped' /\ ServerTyped'
    BY <1>1, <1>2, <2>2, <2>3 DEF Publish, StreamTyped, PosTyped, BatchTyped, ServerTyped, LastSeq
  <2>5. DataTyped'
    BY <1>1, <1>2, <2>2 DEF Publish, DataTyped, LastSeq
  <2>6. QED
    BY <1>2, <2>4, <2>5 DEF Publish, FlagsTyped, PcTyped, CountTyped
<1>3. CASE Trim
  <2>1. PICK f \in first + 1 .. LastSeq + 1 : first' = f /\ unacked' = {s \in unacked : s >= f}
    BY <1>3 DEF Trim
  <2>2. UNCHANGED <<msgs, lost>>
    BY <1>3 DEF Trim
  <2>5. ASSUME NEW s \in unacked' PROVE s \in f .. Len(msgs)
    <3>1. s \in first .. Len(msgs) /\ s >= f /\ f \in Int
      BY <1>1, <2>1 DEF ServerTyped, StreamTyped, LastSeq
    <3>2. QED
      BY <1>1, <3>1 DEF StreamTyped, LastSeq
  <2>3. ServerTyped'
    BY <2>1, <2>2, <2>5 DEF ServerTyped, LastSeq
  <2>4. QED
    BY <1>1, <1>3, <2>3 DEF Trim, StreamTyped, PosTyped, DataTyped, FlagsTyped, PcTyped, BatchTyped,
       CountTyped, LastSeq
<1>4. CASE Start \/ Pause \/ Resume \/ Stop
  <2>1. /\ UNCHANGED <<msgs, first, offset, data, disk, batch, next, last, done, trims>>
        /\ cursor' \in {cursor, NoCursor} /\ applied' \in {applied, offset} /\ touched' \in {touched, {}}
        /\ failures' \in {failures, failures + 1}
        /\ lost' = lost /\ unacked' \in {unacked, {}}
    BY <1>4 DEF Start, Pause, Resume, Stop, DropCursor
  <2>4. StreamTyped' /\ DataTyped' /\ BatchTyped'
    BY <2>1 DEF StreamTyped, DataTyped, BatchTyped, LastSeq
  <2>5. PosTyped' /\ ServerTyped' /\ CountTyped'
    BY <1>1, <2>1 DEF PosTyped, ServerTyped, CountTyped, LastSeq, NoCursor
  <2>2. FlagsTyped' /\ PcTyped'
    BY <1>4, Zenon DEF Start, Pause, Resume, Stop, FlagsTyped, PcTyped
  <2>3. QED
    BY <2>2, <2>4, <2>5
<1>5. CASE Top \/ Unpark
  <2>1. /\ UNCHANGED <<msgs, first, offset, data, disk, applied, touched, done, lost, trims, failures>>
        /\ cursor' \in {cursor, NoCursor} /\ unacked' \in {unacked, {}} /\ batch' \in {batch, <<>>}
        /\ next' \in {next, 1} /\ last' \in {last, 0}
    BY <1>5 DEF Top, Unpark, DropCursor
  <2>5. BatchTyped'
    <3>1. batch' \in Seq(1 .. Len(msgs))
      <4>1. CASE batch' = batch
        BY <4>1 DEF BatchTyped, LastSeq
      <4>2. CASE batch' = <<>>
        BY <4>2, EmptySeq
      <4>3. QED
        BY <2>1, <4>1, <4>2
    <3>3. next' \in Nat \ {0}
      BY <2>1 DEF BatchTyped
    <3>2. QED
      BY <2>1, <3>1, <3>3 DEF BatchTyped, LastSeq
  <2>6. StreamTyped' /\ DataTyped' /\ PosTyped' /\ ServerTyped' /\ CountTyped'
    BY <1>1, <2>1 DEF StreamTyped, DataTyped, PosTyped, ServerTyped, CountTyped, LastSeq, NoCursor
  <2>2. FlagsTyped'
    BY <1>5, Zenon DEF Top, Unpark, FlagsTyped
  <2>3. PcTyped'
    BY <1>5 DEF Top, Unpark, PcTyped
  <2>4. QED
    BY <2>2, <2>3, <2>5, <2>6
<1>6. CASE Prepare \/ ServerFails \/ FetchEnds \/ CheckFirst \/ ApplyEnds \/ SaveFails
  <2>1. CheckGap \in 0 .. Len(msgs) + 1
    BY <1>1 DEF CheckGap, PosTyped, StreamTyped, LastSeq
  <2>2. StreamTyped' /\ DataTyped' /\ FlagsTyped' /\ CountTyped'
    BY <1>6 DEF Prepare, ServerFails, FetchEnds, CheckFirst, ApplyEnds, SaveFails, StreamTyped, DataTyped,
                FlagsTyped, CountTyped, LastSeq
  <2>3. PosTyped'
    BY <1>1, <1>6, <2>1 DEF Prepare, ServerFails, FetchEnds, CheckFirst, ApplyEnds, SaveFails, Fails, DropCursor,
                PosTyped, LastSeq, NoCursor
  <2>4. BatchTyped'
    <3>1. UNCHANGED <<msgs, batch, done>> /\ next' \in {next, 1}
      BY <1>6 DEF Prepare, ServerFails, FetchEnds, CheckFirst, ApplyEnds, SaveFails
    <3>2. QED
      BY <3>1 DEF BatchTyped, LastSeq
  <2>6. PcTyped'
    BY <1>6 DEF Prepare, ServerFails, FetchEnds, CheckFirst, ApplyEnds, SaveFails, Fails, PcTyped
  <2>7. ServerTyped'
    <3>1. UNCHANGED <<msgs, first>> /\ unacked' \subseteq unacked /\ lost' \subseteq lost
      BY <1>6 DEF Prepare, ServerFails, FetchEnds, CheckFirst, ApplyEnds, SaveFails, Fails, DropCursor
    <3>2. QED
      BY <3>1 DEF ServerTyped, LastSeq
  <2>5. QED
    BY <2>2, <2>3, <2>4, <2>6, <2>7
<1>7. CASE HandOut /\ (Deliver \/ DeliveryLost)
  <2> DEFINE s == NextSeq
  <2>1. cursor \in Nat /\ first \in Nat \ {0}
    BY <1>1 DEF PosTyped, StreamTyped, LastSeq
  <2>2. s \in first .. Len(msgs)
    BY <1>1, <1>7, <2>1, DeliverMax DEF HandOut, NextSeq, LastSeq
  <2>3. /\ UNCHANGED <<msgs, first, offset, data, disk, applied, touched, paused, parked, stopping, pc, next, last, done>>
        /\ cursor' = s + 1 /\ unacked' = unacked \cup {s} /\ batch' \in {batch, Append(batch, s)}
        /\ lost' \in {lost, lost \cup {s}}
    BY <1>7 DEF HandOut, Deliver, DeliveryLost
  <2>4. CountTyped'
    BY <1>7 DEF HandOut, Deliver, DeliveryLost, CountTyped
  <2> HIDE DEF s
  <2>5. s \in 1 .. Len(msgs)
    BY <2>1, <2>2
  <2>6. batch' \in Seq(1 .. Len(msgs))
    BY <2>3, <2>5, AppendProperties DEF BatchTyped, LastSeq
  <2>7. BatchTyped'
    BY <2>3, <2>6 DEF BatchTyped, LastSeq
  <2>8. PosTyped' /\ ServerTyped'
    BY <1>1, <2>2, <2>3, <2>5 DEF PosTyped, ServerTyped, LastSeq
  <2>9. QED
    BY <2>3, <2>4, <2>7, <2>8 DEF StreamTyped, DataTyped, FlagsTyped, PcTyped, LastSeq
<1>14. ASSUME NEW s \in unacked, Redeliver(s)
       PROVE  /\ StreamTyped' /\ PosTyped' /\ DataTyped' /\ FlagsTyped' /\ PcTyped'
              /\ BatchTyped' /\ ServerTyped' /\ CountTyped'
  <2>1. /\ UNCHANGED <<msgs, first, offset, data, disk, applied, touched, paused, parked, stopping, pc, next, last,
                       done, lost, cursor, unacked, trims, failures>>
        /\ batch' = Append(batch, s)
    BY <1>14 DEF Redeliver
  <2>2. s \in 1 .. Len(msgs)
    BY <1>1 DEF ServerTyped, StreamTyped, LastSeq
  <2>3. batch' \in Seq(1 .. Len(msgs))
    BY <2>1, <2>2, AppendProperties DEF BatchTyped, LastSeq
  <2>4. BatchTyped'
    BY <2>1, <2>3 DEF BatchTyped, LastSeq
  <2>5. QED
    BY <2>1, <2>4 DEF StreamTyped, PosTyped, DataTyped, FlagsTyped, PcTyped, ServerTyped, CountTyped, LastSeq
<1>8. CASE ApplyOne
  <2> DEFINE s == batch[next]
  <2>1. next \in 1 .. Len(batch) /\ Len(batch) \in Nat
    BY <1>8, LenProperties DEF ApplyOne, BatchTyped
  <2>2. s \in 1 .. Len(msgs) /\ msgs[s].docs \subseteq Docs
    BY <2>1, FetchedMessage
  <2>3. /\ UNCHANGED <<msgs, first, cursor, unacked, lost, offset, applied, paused, parked, stopping, pc,
                       batch, trims, failures>>
        /\ next' = next + 1
        /\ \/ UNCHANGED <<data, disk, touched, last, done>>
           \/ WriteDocs(s, msgs[s].docs) /\ touched' = Touch(s) /\ last' = s /\ done' = done \cup {s}
    BY <1>8 DEF ApplyOne
  <2> HIDE DEF s
  <2>4. Touch(s) \subseteq Indexes
    BY <2>2, ConstantsAssumption DEF Touch, DataTyped
  <2>5. DataTyped'
    BY <2>2, <2>3, <2>4, WriteTyped DEF DataTyped, LastSeq
  <2>6. PosTyped'
    BY <1>1, <2>2, <2>3 DEF PosTyped, LastSeq
  <2>7. BatchTyped'
    <3>1. next' \in Nat \ {0} /\ UNCHANGED <<batch, msgs>>
      BY <2>3 DEF BatchTyped
    <3>2. done' \subseteq 1 .. Len(msgs)
      BY <2>2, <2>3 DEF BatchTyped, LastSeq
    <3>3. QED
      BY <3>1, <3>2 DEF BatchTyped, LastSeq
  <2>8. QED
    BY <2>3, <2>5, <2>6, <2>7 DEF StreamTyped, FlagsTyped, PcTyped, ServerTyped, CountTyped, LastSeq
<1>9. CASE ApplyFails
  <2> DEFINE s == batch[next]
  <2>1. next \in 1 .. Len(batch) /\ Len(batch) \in Nat
    BY <1>9, LenProperties DEF ApplyFails, BatchTyped
  <2>2. s \in 1 .. Len(msgs) /\ msgs[s].docs \subseteq Docs
    BY <2>1, FetchedMessage
  <2>3. /\ UNCHANGED <<msgs, first, offset, applied, touched, paused, parked, stopping, batch, next, last, done>>
        /\ \/ \E ds \in SUBSET msgs[s].docs : WriteDocs(s, ds)
           \/ UNCHANGED <<data, disk>>
        /\ pc' \in {pc, "flush", "top"} /\ cursor' \in {cursor, NoCursor}
        /\ unacked' \in {unacked, {}} /\ lost' = lost
    BY <1>9 DEF ApplyFails, DropCursor
  <2>4. CountTyped'
    BY <1>9 DEF ApplyFails, CountTyped
  <2> HIDE DEF s
  <2>5. DataTyped'
    BY <2>2, <2>3, WriteTyped DEF DataTyped, LastSeq
  <2>6. PosTyped'
    BY <1>1, <2>3 DEF PosTyped, LastSeq, NoCursor
  <2>7. PcTyped'
    BY <2>3 DEF PcTyped
  <2>8. QED
    BY <2>3, <2>4, <2>5, <2>6, <2>7 DEF StreamTyped, FlagsTyped, BatchTyped, ServerTyped, LastSeq
<1>10. CASE Flush \/ FlushFails
  <2>1. DataTyped'
    BY <1>10 DEF Flush, FlushFails, SyncWAL, DataTyped, LastSeq
  <2>4. UNCHANGED <<msgs, first, lost>> /\ unacked' \subseteq unacked
    BY <1>10 DEF Flush, FlushFails, Fails, DropCursor
  <2>5. ServerTyped'
    BY <2>4 DEF ServerTyped, LastSeq
  <2>2. PosTyped' /\ CountTyped' /\ PcTyped' /\ ServerTyped'
    BY <1>1, <1>10, <2>5 DEF Flush, FlushFails, Fails, DropCursor, PosTyped, CountTyped, PcTyped, LastSeq, NoCursor
  <2>3. QED
    BY <1>10, <2>1, <2>2 DEF Flush, FlushFails, StreamTyped, FlagsTyped, BatchTyped, LastSeq
<1>11. CASE Save
  BY <1>1, <1>11 DEF Save, StreamTyped, PosTyped, DataTyped, FlagsTyped, PcTyped, BatchTyped, ServerTyped,
     CountTyped, LastSeq
<1>12. CASE Crash
  <2>1. DataTyped'
    <3>1. data' \in [Docs -> 0 .. LastSeq]
      BY <1>12 DEF Crash, DataTyped
    <3>2. disk' \in [Docs -> SUBSET (0 .. LastSeq)]
      BY <1>12, <3>1 DEF Crash, DataTyped
    <3>3. QED
      BY <1>12, <3>1, <3>2 DEF Crash, DataTyped, LastSeq
  <2>2. PosTyped' /\ ServerTyped' /\ CountTyped'
    BY <1>1, <1>12 DEF Crash, DropCursor, PosTyped, ServerTyped, CountTyped, LastSeq, NoCursor
  <2>5. BatchTyped'
    <3>1. batch' = <<>> /\ next' = 1 /\ UNCHANGED <<msgs, done>>
      BY <1>12 DEF Crash
    <3>2. QED
      BY <3>1, EmptySeq DEF BatchTyped, LastSeq
  <2>3. FlagsTyped' /\ PcTyped'
    BY <1>12, Zenon DEF Crash, FlagsTyped, PcTyped
  <2>4. QED
    BY <1>12, <2>1, <2>2, <2>3, <2>5 DEF Crash, StreamTyped, LastSeq
<1>13. CASE UNCHANGED vars
  BY <1>13 DEF vars, StreamTyped, PosTyped, DataTyped, FlagsTyped, PcTyped, BatchTyped, ServerTyped, CountTyped,
               LastSeq
<1>15. QED
  BY <1>2, <1>3, <1>4, <1>5, <1>6, <1>7, <1>8, <1>9, <1>10, <1>11, <1>12, <1>13, <1>14
     DEF Next, Goroutine, Failures, Deliver, DeliveryLost

\* The consumer's state keeps its types: its position, its cursor, what it fetched
\* and the version of every document stay within the stream (Consumer, CoreApplier).
THEOREM TypeCorrect == Spec => []TypeOK
BY TypeInit, TypeStep, PTL DEF Spec

(***************************************************************************)
(* The loop leaves no message out                                          *)
(***************************************************************************)
Working == pc \in {"apply", "flush", "save"}
Fetching == pc \in {"fetch", "check", "apply"}

\* What is between the position and a fetched message, or the cursor, was
\* fetched as well, is dropped, or was lost; so is what is between the last
\* message applied and the cursor once the batch is applied.  What may be handed
\* out again is before the cursor.
BatchInv ==
    /\ Fetching =>
         /\ \A i \in DOMAIN batch : \A n \in applied + 1 .. batch[i] - 1 :
               n < first \/ n \in lost \/ \E h \in 1 .. i - 1 : batch[h] = n
         /\ \A n \in applied + 1 .. cursor - 1 : n < first \/ n \in lost \/ \E h \in DOMAIN batch : batch[h] = n
    /\ pc \in {"parked", "prepare"} => batch = <<>>
    /\ pc = "top" => \A n \in applied + 1 .. cursor - 1 : n < first \/ n \in lost
    /\ pc \in {"flush", "save"} => \A n \in last + 1 .. cursor - 1 : n < first \/ n \in lost
    /\ pc \notin {"down", "parked", "prepare"} => \A s \in unacked : s < cursor

\* The position in memory is the saved one; the batch is applied from it on.
ProgressInv ==
    /\ applied = offset
    /\ Working => last >= applied
    /\ pc \in {"flush", "save"} => last > applied
    /\ pc = "apply" => \A h \in DOMAIN batch : h < next => batch[h] <= last

DoneInv ==
    /\ OnlyDroppedAreMissed
    /\ Working => \A s \in 1 .. last : s \in done \/ s < first \/ s \in lost

LoopInv == TypeOK /\ BatchInv /\ ProgressInv /\ DoneInv

\* The loop's invariant holds initially.
LEMMA LoopInit == Init => LoopInv
<1> SUFFICES ASSUME Init PROVE LoopInv
  OBVIOUS
<1>1. pc = "down" /\ applied = 0 /\ offset = 0
  BY DEF Init
<1>2. BatchInv /\ ProgressInv /\ DoneInv
  BY <1>1 DEF BatchInv, ProgressInv, DoneInv, OnlyDroppedAreMissed, Working, Fetching
<1>3. QED
  BY <1>2, TypeInit DEF LoopInv

\* The arithmetic the steps below need.
LEMMA LoopTypes ==
    ASSUME TypeOK
    PROVE  /\ applied \in Nat /\ offset \in Nat /\ last \in Nat /\ cursor \in Nat /\ first \in Nat \ {0}
           /\ Len(msgs) \in Nat /\ Len(batch) \in Nat /\ DOMAIN batch = 1 .. Len(batch)
           /\ next \in Nat \ {0} /\ \A i \in DOMAIN batch : batch[i] \in 1 .. Len(msgs)
<1>1. Len(msgs) \in Nat
  BY LenProperties DEF TypeOK
<1>2. Len(batch) \in Nat /\ DOMAIN batch = 1 .. Len(batch)
  BY LenProperties DEF TypeOK
<1>3. \A i \in DOMAIN batch : batch[i] \in 1 .. Len(msgs)
  BY <1>2, ElementOfSeq DEF TypeOK, LastSeq
<1>4. QED
  BY <1>1, <1>2, <1>3 DEF TypeOK, LastSeq

\* Steps of the stream and of the goroutines that control the consumer.
LEMMA OutsideKeeps ==
    ASSUME LoopInv, UNCHANGED <<batch, next, applied, offset, pc, cursor, last, done, lost>>,
           unacked' \subseteq unacked, first' \in Nat, first' >= first
    PROVE  BatchInv' /\ ProgressInv' /\ DoneInv'
<1>1. /\ applied \in Nat /\ offset \in Nat /\ last \in Nat /\ cursor \in Nat /\ first \in Nat
      /\ DOMAIN batch = 1 .. Len(batch) /\ Len(batch) \in Nat
      /\ \A i \in DOMAIN batch : batch[i] \in 1 .. Len(msgs)
  BY LoopTypes DEF LoopInv
<1>2. /\ \A n \in Int : n < first => n < first'
      /\ \A n \in Int : (n < first \/ n \in lost) => (n < first' \/ n \in lost')
  BY <1>1
<1>3. BatchInv'
  <2>1. Fetching => \A i \in DOMAIN batch : \A n \in applied + 1 .. batch[i] - 1 :
                        (n < first' \/ n \in lost') \/ \E h \in 1 .. i - 1 : batch[h] = n
    BY <1>1, <1>2 DEF LoopInv, BatchInv
  <2>2. Fetching => \A n \in applied + 1 .. cursor - 1 : (n < first' \/ n \in lost') \/ \E h \in DOMAIN batch : batch[h] = n
    <3>1. Fetching => \A n \in applied + 1 .. cursor - 1 : n < first \/ n \in lost \/ \E h \in DOMAIN batch : batch[h] = n
      BY DEF LoopInv, BatchInv
    <3>2. \A n \in applied + 1 .. cursor - 1 : n \in Int
      BY <1>1
    <3>3. QED
      BY <1>2, <3>1, <3>2
  <2>3. /\ pc \in {"parked", "prepare"} => batch = <<>>
        /\ pc = "top" => \A n \in applied + 1 .. cursor - 1 : n < first' \/ n \in lost'
        /\ pc \in {"flush", "save"} => \A n \in last + 1 .. cursor - 1 : n < first' \/ n \in lost'
        /\ pc \notin {"down", "parked", "prepare"} => \A s \in unacked' : s < cursor
    <3>1. /\ \A n \in applied + 1 .. cursor - 1 : (n < first \/ n \in lost) => (n < first' \/ n \in lost')
          /\ \A n \in last + 1 .. cursor - 1 : (n < first \/ n \in lost) => (n < first' \/ n \in lost')
      BY <1>1, <1>2
    <3>2. QED
      BY <3>1 DEF LoopInv, BatchInv
  <2>4. QED
    BY <2>1, <2>2, <2>3 DEF BatchInv, Fetching
<1>4. ProgressInv'
  BY DEF LoopInv, ProgressInv, Working
<1>5. DoneInv'
  BY <1>1, <1>2 DEF LoopInv, DoneInv, OnlyDroppedAreMissed, Working
<1>6. QED
  BY <1>3, <1>4, <1>5

\* The goroutine starts over, ends or begins without a cursor.
LEMMA StartOver ==
    ASSUME LoopInv, UNCHANGED <<first, lost, offset>>, applied' = offset, done \subseteq done',
           \/ pc' = "down"
           \/ pc' = "top" /\ cursor' = NoCursor /\ unacked' = {}
    PROVE  BatchInv' /\ ProgressInv' /\ DoneInv'
<1>1. applied' \in Nat
  BY LoopTypes DEF LoopInv
<1>2. pc' = "top" => \A n \in applied' + 1 .. cursor' - 1 : n < first' \/ n \in lost'
  BY <1>1 DEF NoCursor
<1>3. BatchInv'
  BY <1>2 DEF BatchInv, Fetching
<1>4. ProgressInv' /\ DoneInv'
  BY DEF LoopInv, ProgressInv, DoneInv, OnlyDroppedAreMissed, Working
<1>5. QED
  BY <1>3, <1>4

\* The top of the loop forgets the batch or starts a new one.
LEMMA TopStep == LoopInv /\ Top => BatchInv' /\ ProgressInv' /\ DoneInv'
<1> SUFFICES ASSUME LoopInv, Top PROVE BatchInv' /\ ProgressInv' /\ DoneInv'
  OBVIOUS
<1>1. /\ pc = "top" /\ pc' \in {"down", "parked", "prepare", "fetch"} /\ batch' = <<>>
      /\ UNCHANGED <<first, lost, cursor, unacked, offset, applied, done>>
  BY DEF Top, streamVars, serverVars, nodeVars, histVars
<1>2. DOMAIN batch' = {}
  BY <1>1, EmptySeq
<1>3. BatchInv'
  BY <1>1, <1>2 DEF LoopInv, BatchInv, Fetching
<1>4. ProgressInv' /\ DoneInv'
  BY <1>1 DEF LoopInv, ProgressInv, DoneInv, OnlyDroppedAreMissed, Working
<1>5. QED
  BY <1>3, <1>4

\* A cursor is created one past the position, or past what the stream dropped.
LEMMA PrepareStep ==
    LoopInv /\ (Unpark \/ Prepare) => BatchInv' /\ ProgressInv' /\ DoneInv'
<1> SUFFICES ASSUME LoopInv, Unpark \/ Prepare PROVE BatchInv' /\ ProgressInv' /\ DoneInv'
  OBVIOUS
<1>1. /\ UNCHANGED <<batch, first, offset, applied, last, done>> /\ batch = <<>>
      /\ \/ pc' \in {"down", "prepare"} /\ lost' = lost
         \/ pc' = "top" /\ cursor' = NoCursor /\ unacked' = {} /\ lost' = lost
         \/ /\ pc' = "fetch" /\ cursor' = CheckGap /\ CheckGap # 0
            /\ unacked' = {} /\ lost' = {s \in lost : s <= applied}
  BY DEF Unpark, Prepare, Fails, DropCursor, streamVars, nodeVars, stepVars, histVars, LoopInv, BatchInv
<1>2. applied \in Nat /\ first \in Nat /\ applied' = offset
  BY <1>1, LoopTypes DEF LoopInv, ProgressInv
<1>3. CASE pc' # "fetch"
  <2>1. BatchInv'
    BY <1>1, <1>2, <1>3 DEF BatchInv, Fetching, NoCursor
  <2>2. ProgressInv' /\ DoneInv'
    BY <1>1, <1>2, <1>3 DEF LoopInv, ProgressInv, DoneInv, OnlyDroppedAreMissed, Working
  <2>3. QED
    BY <2>1, <2>2
<1>4. CASE pc' = "fetch"
  <2>1. \A n \in applied + 1 .. cursor' - 1 : n < first
    BY <1>1, <1>2, <1>4 DEF CheckGap
  <2>2. DOMAIN batch = {}
    BY <1>1, EmptySeq
  <2>3. BatchInv'
    BY <1>1, <1>4, <2>1, <2>2 DEF BatchInv
  <2>6. \A s \in 1 .. offset : s \in lost => s \in lost'
    BY <1>1, <1>2, <1>4
  <2>4. ProgressInv' /\ DoneInv'
    BY <1>1, <1>2, <1>4, <2>6 DEF LoopInv, ProgressInv, DoneInv, OnlyDroppedAreMissed, Working
  <2>5. QED
    BY <2>3, <2>4
<1>5. QED
  BY <1>3, <1>4

\* Fetch: a message comes that was delivered before, or the next one there is.
LEMMA FetchStep ==
    LoopInv /\ (Deliver \/ \E s \in unacked : Redeliver(s)) => BatchInv' /\ ProgressInv' /\ DoneInv'
<1> SUFFICES ASSUME LoopInv, Deliver \/ \E s \in unacked : Redeliver(s)
             PROVE  BatchInv' /\ ProgressInv' /\ DoneInv'
  OBVIOUS
<1>1. pc = "fetch" /\ UNCHANGED <<first, lost, offset, applied, pc, next, last, done>>
  BY DEF Deliver, HandOut, Redeliver, streamVars, nodeVars, histVars
<1>2. /\ applied \in Nat /\ cursor \in Nat /\ first \in Nat \ {0} /\ Len(msgs) \in Nat
      /\ Len(batch) \in Nat /\ DOMAIN batch = 1 .. Len(batch) /\ batch \in Seq(1 .. Len(msgs))
      /\ \A i \in DOMAIN batch : batch[i] \in 1 .. Len(msgs)
  BY LoopTypes DEF LoopInv, TypeOK, LastSeq
<1>3. PICK s \in 1 .. Len(msgs) :
        /\ batch' = Append(batch, s)
        /\ \A n \in applied + 1 .. s - 1 : n < first \/ n \in lost \/ n < cursor
        /\ \A n \in applied + 1 .. cursor' - 1 : n = s \/ n < first \/ n \in lost \/ n < cursor
        /\ \A n \in unacked' : n < cursor'
  <2>1. CASE Deliver
    <3> DEFINE s == NextSeq
    <3>1. s \in {cursor, first} /\ s >= cursor /\ s >= first
      BY <1>2, DeliverMax DEF NextSeq
    <3>2. s <= Len(msgs) /\ batch' = Append(batch, s) /\ cursor' = s + 1 /\ unacked' = unacked \cup {s}
      BY <2>1 DEF Deliver, HandOut, LastSeq
    <3>7. \A n \in unacked : n < cursor /\ n \in Int
      BY <1>1, <1>2 DEF LoopInv, BatchInv, TypeOK, LastSeq
    <3> HIDE DEF s
    <3>3. s \in 1 .. Len(msgs)
      BY <1>2, <3>1, <3>2
    <3>4. \A n \in applied + 1 .. s - 1 : n < first \/ n \in lost \/ n < cursor
      BY <1>2, <3>1
    <3>5. \A n \in applied + 1 .. cursor' - 1 : n = s \/ n < first \/ n \in lost \/ n < cursor
      BY <1>2, <3>1, <3>2
    <3>8. \A n \in unacked' : n < cursor'
      BY <1>2, <3>1, <3>2, <3>3, <3>7
    <3>6. QED
      BY <3>2, <3>3, <3>4, <3>5, <3>8
  <2>2. CASE \E s \in unacked : Redeliver(s)
    <3>1. PICK s \in unacked : batch' = Append(batch, s) /\ UNCHANGED <<cursor, unacked>>
      BY <2>2 DEF Redeliver, serverVars
    <3>2. s \in first .. Len(msgs) /\ s < cursor /\ \A n \in unacked : n < cursor
      BY <1>1 DEF LoopInv, BatchInv, TypeOK, LastSeq
    <3>3. s \in 1 .. Len(msgs)
      BY <1>2, <3>2
    <3>4. \A n \in applied + 1 .. s - 1 : n < first \/ n \in lost \/ n < cursor
      BY <1>2, <3>2, <3>3
    <3>5. \A n \in applied + 1 .. cursor' - 1 : n = s \/ n < first \/ n \in lost \/ n < cursor
      BY <1>2, <3>1
    <3>6. QED
      BY <3>1, <3>2, <3>3, <3>4, <3>5
  <2>3. QED
    BY <2>1, <2>2
<1>4. /\ DOMAIN batch' = 1 .. Len(batch) + 1 /\ batch'[Len(batch) + 1] = s
      /\ \A i \in 1 .. Len(batch) : batch'[i] = batch[i]
  BY <1>2, <1>3, AppendProperties, LenProperties
<1>5. /\ \A i \in DOMAIN batch : \A n \in applied + 1 .. batch[i] - 1 :
            n < first \/ n \in lost \/ \E h \in 1 .. i - 1 : batch[h] = n
      /\ \A n \in applied + 1 .. cursor - 1 : n < first \/ n \in lost \/ \E h \in DOMAIN batch : batch[h] = n
  BY <1>1 DEF LoopInv, BatchInv, Fetching
<1>6. \A n \in Int : n > applied /\ n < cursor => n < first \/ n \in lost \/ \E h \in 1 .. Len(batch) : batch'[h] = n
  BY <1>2, <1>4, <1>5
<1>7. ASSUME NEW i \in DOMAIN batch', NEW n \in applied + 1 .. batch'[i] - 1
      PROVE  n < first \/ n \in lost \/ \E h \in 1 .. i - 1 : batch'[h] = n
  <2>1. CASE i \in 1 .. Len(batch)
    <3>1. n < first \/ n \in lost \/ \E h \in 1 .. i - 1 : batch[h] = n
      BY <1>2, <1>4, <1>5, <1>7, <2>1
    <3>2. QED
      BY <1>4, <2>1, <3>1
  <2>2. CASE i = Len(batch) + 1
    <3>1. n < first \/ n \in lost \/ n < cursor
      BY <1>3, <1>4, <1>7, <2>2
    <3>2. n < first \/ n \in lost \/ \E h \in 1 .. Len(batch) : batch'[h] = n
      BY <1>2, <1>3, <1>4, <1>6, <1>7, <2>2, <3>1
    <3>3. i - 1 = Len(batch)
      BY <1>2, <2>2
    <3>4. QED
      BY <3>2, <3>3
  <2>3. QED
    BY <1>4, <1>7, <2>1, <2>2
<1>8. ASSUME NEW n \in applied + 1 .. cursor' - 1 PROVE n < first \/ n \in lost \/ \E h \in DOMAIN batch' : batch'[h] = n
  <2>1. n \in Int /\ n > applied /\ (n = s \/ n < first \/ n \in lost \/ n < cursor)
    BY <1>2, <1>3
  <2>2. CASE n = s
    BY <1>2, <1>4, <2>2
  <2>3. CASE n < cursor
    BY <1>2, <1>4, <1>6, <2>1, <2>3
  <2>4. QED
    BY <2>1, <2>2, <2>3
<1>9. BatchInv'
  BY <1>1, <1>3, <1>7, <1>8 DEF BatchInv
<1>10. ProgressInv' /\ DoneInv'
  BY <1>1 DEF LoopInv, ProgressInv, DoneInv, OnlyDroppedAreMissed, Working
<1>11. QED
  BY <1>9, <1>10

\* A message that does not arrive is the next one there is.
LEMMA LostStep == LoopInv /\ DeliveryLost => BatchInv' /\ ProgressInv' /\ DoneInv'
<1> SUFFICES ASSUME LoopInv, DeliveryLost PROVE BatchInv' /\ ProgressInv' /\ DoneInv'
  OBVIOUS
<1> DEFINE s == NextSeq
<1>1. /\ pc = "fetch" /\ UNCHANGED <<first, batch, offset, applied, pc, next, last, done>>
      /\ cursor' = s + 1 /\ unacked' = unacked \cup {s} /\ lost' = lost \cup {s}
  BY DEF DeliveryLost, HandOut, streamVars, nodeVars
<1>2. /\ applied \in Nat /\ cursor \in Nat /\ first \in Nat
      /\ \A i \in DOMAIN batch : batch[i] \in Nat
  BY LoopTypes DEF LoopInv
<1>3. s \in {cursor, first} /\ s >= cursor /\ s >= first
  BY <1>2, DeliverMax DEF NextSeq
<1> HIDE DEF s
<1>4. /\ \A i \in DOMAIN batch : \A n \in applied + 1 .. batch[i] - 1 :
            n < first \/ n \in lost \/ \E h \in 1 .. i - 1 : batch[h] = n
      /\ \A n \in applied + 1 .. cursor - 1 : n < first \/ n \in lost \/ \E h \in DOMAIN batch : batch[h] = n
      /\ \A n \in unacked : n < cursor /\ n \in Int
  BY <1>1, LoopTypes DEF LoopInv, BatchInv, Fetching, TypeOK, LastSeq
<1>5. ASSUME NEW n \in applied + 1 .. cursor' - 1
      PROVE  n < first \/ n \in lost' \/ \E h \in DOMAIN batch : batch[h] = n
  <2>1. CASE n \in applied + 1 .. cursor - 1
    BY <1>1, <1>4, <2>1
  <2>2. CASE n >= cursor
    BY <1>1, <1>2, <1>3, <2>2
  <2>3. QED
    BY <1>1, <1>2, <1>3, <2>1, <2>2
<1>6. \A n \in unacked' : n < cursor'
  BY <1>1, <1>2, <1>3, <1>4
<1>7. BatchInv'
  BY <1>1, <1>4, <1>5, <1>6 DEF BatchInv
<1>8. ProgressInv' /\ DoneInv'
  BY <1>1 DEF LoopInv, ProgressInv, DoneInv, OnlyDroppedAreMissed, Working
<1>9. QED
  BY <1>7, <1>8

\* The end of Fetch, and the look at the first message.
LEMMA CheckStep ==
    LoopInv /\ (FetchEnds \/ CheckFirst) => BatchInv' /\ ProgressInv' /\ DoneInv'
<1> SUFFICES ASSUME LoopInv, FetchEnds \/ CheckFirst PROVE BatchInv' /\ ProgressInv' /\ DoneInv'
  OBVIOUS
<1>1. /\ UNCHANGED <<batch, first, lost, offset, applied, done>> /\ Fetching
      /\ \/ pc' = "top" /\ cursor' = NoCursor /\ unacked' = {}
         \/ pc' = "top" /\ UNCHANGED <<cursor, unacked>> /\ batch = <<>>
         \/ pc' = "check" /\ UNCHANGED <<cursor, unacked>>
         \/ pc' = "apply" /\ UNCHANGED <<cursor, unacked>> /\ next' = 1 /\ last' = applied
  BY DEF FetchEnds, CheckFirst, Fails, DropCursor, streamVars, serverVars, histVars, nodeVars, stepVars, Fetching
<1>2. applied \in Nat /\ first \in Nat /\ applied' = offset /\ DOMAIN batch = 1 .. Len(batch) /\ Len(batch) \in Nat
  BY <1>1, LoopTypes DEF LoopInv, ProgressInv
<1>8. \A s \in unacked : s < cursor
  BY <1>1 DEF LoopInv, BatchInv, Fetching
<1>3. CASE pc' = "top" /\ cursor' = NoCursor /\ unacked' = {}
  BY <1>1, <1>2, <1>3, StartOver
<1>4. CASE pc' = "top" /\ UNCHANGED <<cursor, unacked>> /\ batch = <<>>
  <2>1. DOMAIN batch = {}
    BY <1>4, EmptySeq
  <2>2. \A n \in applied + 1 .. cursor - 1 : n < first \/ n \in lost
    BY <1>1, <2>1 DEF LoopInv, BatchInv
  <2>3. BatchInv'
    BY <1>1, <1>4, <1>8, <2>2 DEF BatchInv, Fetching
  <2>4. ProgressInv' /\ DoneInv'
    BY <1>1, <1>2, <1>4 DEF LoopInv, ProgressInv, DoneInv, OnlyDroppedAreMissed, Working
  <2>5. QED
    BY <2>3, <2>4
<1>5. CASE pc' = "check" /\ UNCHANGED <<cursor, unacked>>
  <2>1. BatchInv'
    BY <1>1, <1>5, <1>8 DEF LoopInv, BatchInv
  <2>2. ProgressInv' /\ DoneInv'
    BY <1>1, <1>2, <1>5 DEF LoopInv, ProgressInv, DoneInv, OnlyDroppedAreMissed, Working
  <2>3. QED
    BY <2>1, <2>2
<1>6. CASE pc' = "apply" /\ UNCHANGED <<cursor, unacked>> /\ next' = 1 /\ last' = applied
  <2>1. BatchInv'
    BY <1>1, <1>6, <1>8 DEF LoopInv, BatchInv
  <2>2. ProgressInv'
    BY <1>1, <1>2, <1>6 DEF ProgressInv, Working
  <2>3. DoneInv'
    BY <1>1, <1>2, <1>6 DEF LoopInv, ProgressInv, DoneInv, OnlyDroppedAreMissed, Working
  <2>4. QED
    BY <2>1, <2>2, <2>3
<1>7. QED
  BY <1>1, <1>3, <1>4, <1>5, <1>6

\* What is between the last message applied and the one to apply is dropped.
LEMMA NothingBetween ==
    ASSUME LoopInv, pc = "apply", next <= Len(batch),
           NEW n \in Nat, last < n, n < batch[next]
    PROVE  n < first \/ n \in lost
<1>1. /\ applied \in Nat /\ last \in Nat /\ Len(batch) \in Nat /\ DOMAIN batch = 1 .. Len(batch)
      /\ next \in DOMAIN batch /\ batch[next] \in Nat
  BY LoopTypes DEF LoopInv
<1>2. last >= applied /\ \A h \in DOMAIN batch : h < next => batch[h] <= last
  BY DEF LoopInv, ProgressInv, Working
<1>3. n \in applied + 1 .. batch[next] - 1
  BY <1>1, <1>2
<1>4. n < first \/ n \in lost \/ \E h \in 1 .. next - 1 : batch[h] = n
  BY <1>1, <1>3 DEF LoopInv, BatchInv, Fetching
<1>5. \A h \in 1 .. next - 1 : batch[h] <= last
  BY <1>1, <1>2
<1>6. QED
  BY <1>1, <1>4, <1>5

\* A message is applied after all before it in the batch.
LEMMA ApplyStep == LoopInv /\ ApplyOne => BatchInv' /\ ProgressInv' /\ DoneInv'
<1> SUFFICES ASSUME LoopInv, ApplyOne PROVE BatchInv' /\ ProgressInv' /\ DoneInv'
  OBVIOUS
<1> DEFINE s == batch[next]
<1>1. /\ pc = "apply" /\ next <= Len(batch) /\ next' = next + 1
      /\ UNCHANGED <<first, lost, cursor, unacked, offset, applied, pc, batch>>
      /\ \/ s <= last /\ UNCHANGED <<last, done>>
         \/ ~(s <= last) /\ last' = s /\ done' = done \cup {s}
  BY DEF ApplyOne, streamVars, serverVars
<1>2. /\ applied \in Nat /\ last \in Nat /\ Len(batch) \in Nat /\ DOMAIN batch = 1 .. Len(batch)
      /\ next \in DOMAIN batch /\ s \in Nat /\ \A h \in DOMAIN batch : batch[h] \in Nat
  BY <1>1, LoopTypes DEF LoopInv
<1>3. last >= applied /\ \A h \in DOMAIN batch : h < next => batch[h] <= last
  BY <1>1 DEF LoopInv, ProgressInv, Working
<1>4. \A n \in Nat : last < n /\ n < s => (n < first \/ n \in lost)
  BY <1>1, NothingBetween
<1>5. BatchInv'
  BY <1>1 DEF LoopInv, BatchInv, Fetching
<1> HIDE DEF s
<1>6. last' \in Nat /\ last' >= last /\ last' >= s
  BY <1>1, <1>2
<1>7. ProgressInv'
  <2>1. \A h \in DOMAIN batch : h < next + 1 => batch[h] <= last'
    BY <1>2, <1>3, <1>6 DEF s
  <2>2. applied' = offset'
    BY <1>1 DEF LoopInv, ProgressInv
  <2>3. last' >= applied
    BY <1>2, <1>3, <1>6
  <2>4. QED
    BY <1>1, <2>1, <2>2, <2>3 DEF ProgressInv
<1>8. DoneInv'
  <2>1. \A n \in 1 .. last : n \in done \/ n < first \/ n \in lost
    BY <1>1 DEF LoopInv, DoneInv, Working
  <2>2. \A n \in 1 .. last' : n \in done' \/ n < first \/ n \in lost
    BY <1>1, <1>2, <1>4, <2>1
  <2>3. OnlyDroppedAreMissed'
    BY <1>1 DEF LoopInv, DoneInv, OnlyDroppedAreMissed
  <2>4. QED
    BY <1>1, <2>2, <2>3 DEF DoneInv
<1>9. QED
  BY <1>5, <1>7, <1>8

\* The batch is applied, or given up because the consumer is stopped.
LEMMA EndStep ==
    LoopInv /\ (ApplyFails \/ ApplyEnds) => BatchInv' /\ ProgressInv' /\ DoneInv'
<1> SUFFICES ASSUME LoopInv, ApplyFails \/ ApplyEnds PROVE BatchInv' /\ ProgressInv' /\ DoneInv'
  OBVIOUS
<1>1. /\ pc = "apply" /\ UNCHANGED <<first, lost, offset, applied, batch, next, last, done>>
      /\ \/ UNCHANGED <<pc, cursor, unacked>>
         \/ pc' = (IF last > applied THEN "flush" ELSE "top") /\ ((cursor' = NoCursor /\ unacked' = {}) \/ (UNCHANGED <<cursor, unacked>> /\ next > Len(batch)))
  BY DEF ApplyFails, ApplyEnds, DropCursor, streamVars, serverVars, histVars, nodeVars, stepVars
<1>2. /\ applied \in Nat /\ last \in Nat /\ first \in Nat /\ cursor \in Nat /\ next \in Nat
      /\ Len(batch) \in Nat /\ DOMAIN batch = 1 .. Len(batch)
      /\ \A h \in DOMAIN batch : batch[h] \in Nat
  BY <1>1, LoopTypes DEF LoopInv
<1>3. last >= applied /\ \A h \in DOMAIN batch : h < next => batch[h] <= last
  BY <1>1 DEF LoopInv, ProgressInv, Working
<1>4. CASE UNCHANGED <<pc, cursor, unacked>>
  <2>1. first' \in Nat /\ first' >= first
    BY <1>1, <1>2
  <2>2. QED
    BY <1>1, <1>4, <2>1, OutsideKeeps
<1>5. CASE pc' = (IF last > applied THEN "flush" ELSE "top")
           /\ ((cursor' = NoCursor /\ unacked' = {}) \/ (UNCHANGED <<cursor, unacked>> /\ next > Len(batch)))
  <2>1. \A n \in last + 1 .. cursor' - 1 : n < first \/ n \in lost
    <3>1. CASE cursor' = NoCursor /\ unacked' = {}
      BY <1>2, <3>1 DEF NoCursor
    <3>2. CASE UNCHANGED <<cursor, unacked>> /\ next > Len(batch)
      <4>1. \A n \in applied + 1 .. cursor - 1 : n < first \/ n \in lost \/ \E h \in DOMAIN batch : batch[h] = n
        BY <1>1 DEF LoopInv, BatchInv, Fetching
      <4>2. \A h \in DOMAIN batch : batch[h] <= last
        BY <1>2, <1>3, <3>2
      <4>3. ASSUME NEW n \in last + 1 .. cursor - 1 PROVE n < first \/ n \in lost
        <5>1. n \in applied + 1 .. cursor - 1 /\ n > last /\ n \in Int
          BY <1>2, <1>3
        <5>2. \A h \in DOMAIN batch : batch[h] # n
          BY <1>2, <4>2, <5>1
        <5>3. QED
          BY <4>1, <5>1, <5>2
      <4>4. QED
        BY <3>2, <4>3
    <3>3. QED
      BY <1>5, <3>1, <3>2
  <2>6. \A n \in unacked' : n < cursor'
    BY <1>1, <1>5 DEF LoopInv, BatchInv
  <2>2. applied' = offset'
    BY <1>1 DEF LoopInv, ProgressInv
  <2>3. CASE last > applied
    <3>1. pc' = "flush"
      BY <1>5, <2>3
    <3>2. BatchInv'
      BY <1>1, <2>1, <2>6, <3>1 DEF BatchInv, Fetching
    <3>3. ProgressInv' /\ DoneInv'
      BY <1>1, <1>3, <2>2, <2>3, <3>1 DEF LoopInv, ProgressInv, DoneInv, OnlyDroppedAreMissed, Working
    <3>4. QED
      BY <3>2, <3>3
  <2>4. CASE ~(last > applied)
    <3>1. pc' = "top" /\ last = applied
      BY <1>2, <1>3, <1>5, <2>4
    <3>2. BatchInv'
      BY <1>1, <2>1, <2>6, <3>1 DEF BatchInv, Fetching
    <3>3. ProgressInv' /\ DoneInv'
      BY <1>1, <2>2, <3>1 DEF LoopInv, ProgressInv, DoneInv, OnlyDroppedAreMissed, Working
    <3>4. QED
      BY <3>2, <3>3
  <2>5. QED
    BY <2>3, <2>4
<1>6. QED
  BY <1>1, <1>4, <1>5

\* Flushing keeps the batch.
LEMMA FlushStep ==
    LoopInv /\ (Flush \/ FlushFails) => BatchInv' /\ ProgressInv' /\ DoneInv'
<1> SUFFICES ASSUME LoopInv, Flush \/ FlushFails PROVE BatchInv' /\ ProgressInv' /\ DoneInv'
  OBVIOUS
<1>1. /\ pc = "flush" /\ UNCHANGED <<first, lost, offset, applied, batch, next, last, done>>
      /\ (pc' = "save" /\ UNCHANGED <<cursor, unacked>>) \/ (pc' = "top" /\ cursor' = NoCursor /\ unacked' = {})
  BY DEF Flush, FlushFails, Fails, DropCursor, streamVars, serverVars, histVars, stepVars
<1>2. CASE pc' = "save" /\ UNCHANGED <<cursor, unacked>>
  BY <1>1, <1>2 DEF LoopInv, BatchInv, ProgressInv, DoneInv, OnlyDroppedAreMissed, Working, Fetching
<1>3. CASE pc' = "top" /\ cursor' = NoCursor /\ unacked' = {}
  <2>1. applied' = offset
    BY <1>1 DEF LoopInv, ProgressInv
  <2>2. QED
    BY <1>1, <1>3, <2>1, StartOver
<1>4. QED
  BY <1>1, <1>2, <1>3

\* The position moves to the last message applied; nothing in between is left
\* out.
LEMMA SaveStep == LoopInv /\ Save => BatchInv' /\ ProgressInv' /\ DoneInv'
<1> SUFFICES ASSUME LoopInv, Save PROVE BatchInv' /\ ProgressInv' /\ DoneInv'
  OBVIOUS
<1>1. /\ pc = "save" /\ pc' = "top" /\ UNCHANGED <<first, lost, cursor, batch, next, last, done>>
      /\ offset' = last /\ applied' = last /\ unacked' \subseteq unacked
  BY DEF Save, streamVars, stepVars, histVars
<1>2. BatchInv'
  BY <1>1 DEF LoopInv, BatchInv, Fetching
<1>3. ProgressInv'
  BY <1>1 DEF ProgressInv, Working
<1>4. DoneInv'
  BY <1>1 DEF LoopInv, DoneInv, OnlyDroppedAreMissed, Working
<1>5. QED
  BY <1>2, <1>3, <1>4

\* The loop's invariant is inductive.
LEMMA LoopStep == LoopInv /\ [Next]_vars => LoopInv'
<1> SUFFICES ASSUME LoopInv, [Next]_vars PROVE LoopInv'
  OBVIOUS
<1> USE DEF streamVars, serverVars, nodeVars, ctlVars, stepVars, histVars, countVars
<1>1. TypeOK'
  BY TypeStep DEF LoopInv
<1>2. SUFFICES BatchInv' /\ ProgressInv' /\ DoneInv'
  BY <1>1 DEF LoopInv
<1>3. first' \in Nat /\ first \in Nat
  BY <1>1, LoopTypes DEF LoopInv, TypeOK
<1>4. CASE Publish \/ Trim \/ Pause \/ Resume \/ Stop \/ UNCHANGED vars
  <2>1. UNCHANGED <<batch, next, applied, offset, pc, cursor, last, done, lost>> /\ unacked' \subseteq unacked
    BY <1>4 DEF Publish, Trim, Pause, Resume, Stop, vars
  <2>2. first' >= first
    BY <1>3, <1>4, LoopTypes DEF Publish, Trim, Pause, Resume, Stop, vars, LoopInv, LastSeq
  <2>3. QED
    BY <1>3, <2>1, <2>2, OutsideKeeps
<1>5. CASE Start \/ ServerFails \/ SaveFails \/ Crash
  <2>1. /\ UNCHANGED <<first, lost, offset, done>> /\ applied' \in {offset, applied}
        /\ (pc' = "down") \/ (pc' = "top" /\ cursor' = NoCursor /\ unacked' = {})
    BY <1>5 DEF Start, ServerFails, SaveFails, Crash, Fails, DropCursor
  <2>2. applied' = offset
    BY <2>1 DEF LoopInv, ProgressInv
  <2>3. QED
    BY <2>1, <2>2, StartOver
<1>6. QED
  BY <1>4, <1>5, TopStep, PrepareStep, FetchStep, LostStep, CheckStep, ApplyStep, EndStep, FlushStep, SaveStep
     DEF Next, Goroutine, Failures

\* A message at or before the saved position that was never applied was dropped
\* by the stream or lost on its way (prepare, checkGap, step): with any batch size
\* and any retention, through lost acks, failures, pauses and restarts, the
\* consumer itself leaves none out.
THEOREM NoneLeftOut == Spec => []OnlyDroppedAreMissed
<1>1. LoopInv => OnlyDroppedAreMissed
  BY DEF LoopInv, DoneInv
<1>2. QED
  BY <1>1, LoopInit, LoopStep, PTL DEF Spec

(***************************************************************************)
(* Versions of a document in the stream                                    *)
(***************************************************************************)
LEMMA SameMessages ==
    ASSUME UNCHANGED msgs, NEW n, NEW d
    PROVE  R!VersionsFrom(n, d)' = R!VersionsFrom(n, d)
BY DEF R!VersionsFrom, R!Version, R!Writers

\* A message that names a document gives it its version.
LEMMA WriterVersion ==
    ASSUME TypeOK, NEW s \in 1 .. Len(msgs), NEW d \in msgs[s].docs
    PROVE  R!Version(s, d) = VersionBy(s) /\ msgs[s].kind \in {"docs", "delete_index"}
<1>1. msgs[s] \in Messages /\ Len(msgs) \in Nat
  BY ElementOfSeq, LenProperties DEF TypeOK
<1>2. msgs[s].kind \in {"docs", "delete_index"}
  BY <1>1, ConstantsAssumption
<1> DEFINE W == R!Writers(s, d)
<1>3. s \in W /\ \A y \in W : y \in Nat /\ s >= y
  BY <1>1 DEF R!Writers
<1> HIDE DEF W
<1>4. Max(W) \in W /\ \A y \in W : Max(W) >= y
  BY <1>3 DEF Max
<1> DEFINE x == Max(W)
<1>5. R!Version(s, d) = IF W = {} \/ msgs[x].kind = "delete_index" THEN 0 ELSE x
  BY Zenon DEF R!Version, R!Max, Max, W
<1>6. x \in W /\ x >= s
  BY <1>3, <1>4
<1> HIDE DEF x
<1>7. x = s /\ W # {}
  BY <1>1, <1>3, <1>6
<1>8. QED
  BY <1>2, <1>5, <1>7 DEF VersionBy

\* A message that does not name it leaves it alone.
LEMMA OtherVersion ==
    ASSUME NEW s \in Nat \ {0}, NEW d, d \notin msgs[s].docs
    PROVE  R!Version(s, d) = R!Version(s - 1, d)
<1>1. R!Writers(s, d) = R!Writers(s - 1, d)
  BY DEF R!Writers
<1>2. QED
  BY <1>1 DEF R!Version

\* From a later position there are fewer versions.
LEMMA VersionsLater ==
    ASSUME TypeOK, NEW m \in Nat, NEW n \in Nat, m <= n, NEW d
    PROVE  R!VersionsFrom(n, d) \subseteq R!VersionsFrom(m, d)
BY LoopTypes DEF R!VersionsFrom

\* The version at a position is one of those from an earlier position.
LEMMA VersionFrom ==
    ASSUME TypeOK, NEW m \in Nat, NEW n \in 0 .. Len(msgs), m <= n, NEW d
    PROVE  R!Version(n, d) \in R!VersionsFrom(m, d)
BY LoopTypes DEF R!VersionsFrom

\* A message that does not name a document gives it no version.
LEMMA VersionsSkip ==
    ASSUME TypeOK, NEW s \in 1 .. Len(msgs), NEW d, d \notin msgs[s].docs
    PROVE  R!VersionsFrom(s - 1, d) \subseteq R!VersionsFrom(s, d)
<1>1. Len(msgs) \in Nat /\ s \in Nat \ {0}
  BY LoopTypes
<1>2. SUFFICES ASSUME NEW j \in s - 1 .. Len(msgs) PROVE R!Version(j, d) \in R!VersionsFrom(s, d)
  BY DEF R!VersionsFrom
<1>3. CASE j = s - 1
  <2>1. R!Version(j, d) = R!Version(s, d)
    BY <1>1, <1>3, OtherVersion
  <2>2. QED
    BY <1>1, <2>1 DEF R!VersionsFrom
<1>4. CASE j # s - 1
  BY <1>1, <1>4 DEF R!VersionsFrom
<1>5. QED
  BY <1>3, <1>4

\* Some of the numbers up to b have a greatest one.
LEMMA NatMaximum ==
    ASSUME NEW b \in Nat, NEW T, T \subseteq 1 .. b, T # {}
    PROVE  \E x \in T : \A y \in T : x >= y
<1> DEFINE D == {b - y : y \in T}
       L == OpToRel(<, Nat)
<1>1. D \subseteq Nat /\ D # {}
  <2>1. \A y \in T : b - y \in Nat
    OBVIOUS
  <2>2. QED
    BY <2>1
<1>2. IsWellFoundedOn(L, Nat)
  BY NatLessThanWellFounded
<1> HIDE DEF L
<1>3. PICK m \in D : \A n \in D : ~ (<<n, m>> \in L)
  BY <1>1, <1>2, WFMin
<1>4. \A n \in D : <<n, m>> \in Nat \X Nat
  BY <1>1
<1>5. \A n \in D : ~(n < m)
  BY <1>3, <1>4 DEF L, OpToRel
<1>6. PICK x \in T : m = b - x
  OBVIOUS
<1>7. \A y \in T : b - y \in D /\ y \in Nat /\ x \in Nat
  OBVIOUS
<1>8. \A y \in T : ~(b - y < b - x)
  BY <1>5, <1>6, <1>7
<1>9. \A y \in T : x >= y
  BY <1>7, <1>8
<1>10. QED
  BY <1>9

\* What is published later takes no version away.
LEMMA PublishedVersions ==
    ASSUME TypeOK, Publish, NEW n \in Nat, NEW d
    PROVE  R!VersionsFrom(n, d) \subseteq R!VersionsFrom(n, d)'
<1>1. PICK m \in Messages : msgs' = Append(msgs, m)
  BY DEF Publish
<1>2. /\ Len(msgs) \in Nat /\ Len(msgs') = Len(msgs) + 1
      /\ \A j \in 1 .. Len(msgs) : msgs'[j] = msgs[j]
  BY <1>1, AppendProperties, LenProperties DEF TypeOK
<1>3. ASSUME NEW j \in n .. Len(msgs) PROVE R!Version(j, d)' = R!Version(j, d)
  <2>1. R!Writers(j, d)' = R!Writers(j, d)
    BY <1>2 DEF R!Writers
  <2> DEFINE W == R!Writers(j, d)
  <2>2. W \subseteq 1 .. j
    BY DEF R!Writers
  <2>3. W # {} => R!Max(W) \in 1 .. Len(msgs)
    <3>1. SUFFICES ASSUME W # {} PROVE R!Max(W) \in 1 .. Len(msgs)
      OBVIOUS
    <3>2. \E x \in W : \A y \in W : x >= y
      BY <1>2, <2>2, <3>1, NatMaximum
    <3>3. R!Max(W) \in W
      BY <3>2 DEF R!Max
    <3>4. QED
      BY <1>2, <2>2, <3>3
  <2> HIDE DEF W
  <2>4. W # {} => msgs'[R!Max(W)] = msgs[R!Max(W)]
    BY <1>2, <2>3
  <2>5. R!Version(j, d) = IF W = {} \/ msgs[R!Max(W)].kind = "delete_index" THEN 0 ELSE R!Max(W)
    BY Zenon DEF R!Version, W
  <2>6. ASSUME NEW V, V = R!Writers(j, d)'
        PROVE  R!Version(j, d)' = IF V = {} \/ msgs'[R!Max(V)].kind = "delete_index" THEN 0 ELSE R!Max(V)
    BY <2>6, Zenon DEF R!Version
  <2>7. R!Version(j, d)' = IF W = {} \/ msgs'[R!Max(W)].kind = "delete_index" THEN 0 ELSE R!Max(W)
    BY <2>1, <2>6 DEF W
  <2>8. QED
    BY <2>4, <2>5, <2>7
<1>4. QED
  BY <1>2, <1>3 DEF R!VersionsFrom

(***************************************************************************)
(* The saved position is never ahead of the data                           *)
(***************************************************************************)
\* Retention that keeps to the saved position, and deliveries that arrive.
SafeInv == first <= offset + 1 /\ lost = {}

\* While a batch is applied every document is at its last message applied, or
\* later, and so is what a power loss would leave of it unless its index is
\* still to be flushed.
WorkInv ==
    /\ pc \in {"apply", "flush"} =>
         \A d \in Docs : /\ data[d] \in R!VersionsFrom(last, d)
                         /\ IndexOf[d] \notin touched => disk[d] \subseteq R!VersionsFrom(last, d)
    /\ pc = "save" => \A d \in Docs : disk[d] \cup {data[d]} \subseteq R!VersionsFrom(last, d)

DurInv == LoopInv /\ SafeInv /\ DurableNotBehind /\ WorkInv

\* The invariant of durable data holds initially.
LEMMA DurInit == Init => DurInv
<1> SUFFICES ASSUME Init PROVE DurInv
  OBVIOUS
<1>1. first = 1 /\ offset = 0 /\ pc = "down" /\ msgs = <<>> /\ lost = {}
  BY DEF Init
<1>2. \A d \in Docs : disk[d] \cup {data[d]} = {0}
  BY DEF Init
<1>3. ASSUME NEW d \in Docs PROVE 0 \in R!VersionsFrom(0, d)
  <2>1. R!Writers(0, d) = {}
    BY DEF R!Writers
  <2>2. R!Version(0, d) = 0
    BY <2>1 DEF R!Version
  <2>3. Len(msgs) = 0
    BY <1>1, EmptySeq
  <2>4. QED
    BY <2>2, <2>3 DEF R!VersionsFrom
<1>4. DurableNotBehind
  BY <1>1, <1>2, <1>3 DEF DurableNotBehind
<1>5. QED
  BY <1>1, <1>4, LoopInit DEF DurInv, SafeInv, WorkInv

\* Retention keeps to the saved position.
LEMMA SafeStep ==
    ASSUME SafeRetention, ~ LossyDelivery, DurInv, [Next]_vars
    PROVE  SafeInv'
<1> USE DEF streamVars, serverVars, nodeVars, ctlVars, stepVars, histVars, countVars
<1>1. first \in Nat /\ offset \in Nat /\ last \in Nat /\ applied \in Nat /\ Len(msgs) \in Nat
  BY LoopTypes DEF DurInv, LoopInv
<1>2. CASE Trim
  BY <1>1, <1>2 DEF Trim, SafeInv, DurInv
<1>3. CASE Save
  BY <1>1, <1>3 DEF Save, SafeInv, DurInv, LoopInv, ProgressInv
<1>4. CASE UNCHANGED <<first, offset>> /\ lost' \subseteq lost
  BY <1>4 DEF SafeInv, DurInv
<1>5. QED
  BY <1>2, <1>3, <1>4 DEF Next, Goroutine, Failures, Publish, Start, Pause, Resume, Stop, Top, Unpark, Prepare,
     Deliver, FetchEnds, CheckFirst, ApplyOne, ApplyEnds, Flush, ServerFails, ApplyFails, FlushFails, SaveFails,
     Redeliver, DeliveryLost, HandOut, Fails, Crash, vars

\* With safe retention no message is missing between the last one applied and
\* the one to apply.
LEMMA NextInLine ==
    ASSUME DurInv, pc = "apply", next <= Len(batch), batch[next] > last
    PROVE  batch[next] = last + 1 /\ batch[next] \in 1 .. Len(msgs)
<1>1. /\ applied \in Nat /\ last \in Nat /\ offset \in Nat /\ first \in Nat /\ batch[next] \in 1 .. Len(msgs)
      /\ Len(msgs) \in Nat
  BY LoopTypes DEF DurInv, LoopInv
<1>2. last >= applied /\ applied = offset /\ first <= offset + 1 /\ lost = {}
  BY DEF DurInv, LoopInv, ProgressInv, Working, SafeInv
<1>3. last + 1 < batch[next] => last + 1 < first \/ last + 1 \in lost
  BY <1>1, NothingBetween DEF DurInv
<1>4. QED
  BY <1>1, <1>2, <1>3

\* Steps that leave the documents and the position alone: those of the batch
\* are left alone too, or the batch begins.
LEMMA QuietStep ==
    ASSUME DurInv, UNCHANGED <<msgs, data, disk, offset>>,
           \/ pc' \notin {"apply", "flush", "save"}
           \/ pc' = "apply" /\ last' = offset
           \/ UNCHANGED <<last, touched>> /\ (pc' = pc \/ (pc = "apply" /\ pc' = "flush"))
    PROVE  DurableNotBehind' /\ WorkInv'
<1>1. \A n, d : R!VersionsFrom(n, d)' = R!VersionsFrom(n, d)
  BY SameMessages
<1>2. \A d \in Docs : disk[d] \cup {data[d]} \subseteq R!VersionsFrom(offset, d)
  BY DEF DurInv, DurableNotBehind
<1>3. ASSUME NEW d \in Docs, NEW n, n = offset'
      PROVE  disk'[d] \cup {data'[d]} \subseteq R!VersionsFrom(n, d)'
  BY <1>1, <1>2, <1>3
<1>4. DurableNotBehind'
  BY <1>3 DEF DurableNotBehind
<1>5. ASSUME NEW d \in Docs, NEW n, n = last', pc' \in {"apply", "flush"}
      PROVE  /\ data'[d] \in R!VersionsFrom(n, d)'
             /\ IndexOf[d] \notin touched' => disk'[d] \subseteq R!VersionsFrom(n, d)'
  BY <1>1, <1>2, <1>5 DEF DurInv, WorkInv
<1>6. ASSUME NEW d \in Docs, NEW n, n = last', pc' = "save"
      PROVE  disk'[d] \cup {data'[d]} \subseteq R!VersionsFrom(n, d)'
  BY <1>1, <1>2, <1>6 DEF DurInv, WorkInv
<1>7. WorkInv'
  BY <1>5, <1>6 DEF WorkInv
<1>8. QED
  BY <1>4, <1>7

\* A new message takes nothing from the versions the node may have.
LEMMA PublishStep ==
    ASSUME DurInv, Publish
    PROVE  DurableNotBehind' /\ WorkInv'
<1>1. UNCHANGED <<data, disk, offset, last, touched, pc>>
  BY DEF Publish, nodeVars, stepVars
<1>2. TypeOK /\ offset \in Nat /\ last \in Nat
  BY LoopTypes DEF DurInv, LoopInv
<1>3. \A n \in Nat : \A d : R!VersionsFrom(n, d) \subseteq R!VersionsFrom(n, d)'
  BY <1>2, PublishedVersions
<1>4. ASSUME NEW d \in Docs, NEW n, n = offset'
      PROVE  disk'[d] \cup {data'[d]} \subseteq R!VersionsFrom(n, d)'
  BY <1>1, <1>2, <1>3, <1>4 DEF DurInv, DurableNotBehind
<1>5. ASSUME NEW d \in Docs, NEW n, n = last', pc' \in {"apply", "flush"}
      PROVE  /\ data'[d] \in R!VersionsFrom(n, d)'
             /\ IndexOf[d] \notin touched' => disk'[d] \subseteq R!VersionsFrom(n, d)'
  BY <1>1, <1>2, <1>3, <1>5 DEF DurInv, WorkInv
<1>6. ASSUME NEW d \in Docs, NEW n, n = last', pc' = "save"
      PROVE  disk'[d] \cup {data'[d]} \subseteq R!VersionsFrom(n, d)'
  BY <1>1, <1>2, <1>3, <1>6 DEF DurInv, WorkInv
<1>7. QED
  BY <1>4, <1>5, <1>6 DEF DurableNotBehind, WorkInv

\* Applying a message moves its documents forward and marks their indexes as
\* touched.
LEMMA WriteStep ==
    ASSUME DurInv, ApplyOne \/ ApplyFails
    PROVE  DurableNotBehind' /\ WorkInv'
<1> USE DEF streamVars, serverVars, nodeVars, ctlVars, stepVars, histVars, countVars
<1> DEFINE s == batch[next]
<1>1. pc = "apply" /\ next <= Len(batch) /\ UNCHANGED <<msgs, offset>>
  BY DEF ApplyOne, ApplyFails
<1>2. /\ \A n, d : R!VersionsFrom(n, d)' = R!VersionsFrom(n, d)
      /\ \A d \in Docs : disk[d] \cup {data[d]} \subseteq R!VersionsFrom(offset, d)
      /\ \A d \in Docs : data[d] \in R!VersionsFrom(last, d)
      /\ \A d \in Docs : IndexOf[d] \notin touched => disk[d] \subseteq R!VersionsFrom(last, d)
  BY <1>1, SameMessages DEF DurInv, DurableNotBehind, WorkInv
<1>3. /\ TypeOK /\ offset \in Nat /\ last \in Nat /\ Len(msgs) \in Nat /\ offset <= last
      /\ data \in [Docs -> 0 .. LastSeq] /\ disk \in [Docs -> SUBSET (0 .. LastSeq)]
  BY <1>1, LoopTypes DEF DurInv, LoopInv, TypeOK, ProgressInv, Working
<1>4. CASE s <= last
  <2>1. UNCHANGED <<data, disk, touched, last, pc>>
    <3>1. s \in Nat
      BY <1>1, <1>3, LoopTypes
    <3>2. QED
      BY <1>3, <1>4, <3>1 DEF ApplyOne, ApplyFails
  <2>2. QED
    BY <1>1, <2>1, QuietStep
<1>5. CASE s > last
  <2>1. s = last + 1 /\ s \in 1 .. Len(msgs) /\ s \in Nat /\ offset <= s
    BY <1>1, <1>3, <1>5, NextInLine
  <2>2. ASSUME NEW d \in msgs[s].docs
        PROVE  /\ msgs[s].kind \in {"docs", "delete_index"} 
               /\ VersionBy(s) \in R!VersionsFrom(s, d) /\ VersionBy(s) \in R!VersionsFrom(last, d)
               /\ VersionBy(s) \in R!VersionsFrom(offset, d)
    <3>1. s \in 1 .. Len(msgs) /\ s \in 0 .. Len(msgs) /\ s \in Nat /\ last <= s /\ offset <= s
      BY <1>3, <2>1
    <3> HIDE DEF s
    <3>2. R!Version(s, d) = VersionBy(s) /\ msgs[s].kind \in {"docs", "delete_index"}
      BY <1>3, <2>2, <3>1, WriterVersion
    <3>3. \A n \in {s, last, offset} : n \in Nat /\ n <= s
      BY <1>3, <3>1
    <3>4. \A n \in {s, last, offset} : R!Version(s, d) \in R!VersionsFrom(n, d)
      BY <1>3, <3>1, <3>3, VersionFrom
    <3>5. QED
      BY <3>2, <3>4
  <2>3. ASSUME NEW d, d \notin msgs[s].docs
        PROVE  R!VersionsFrom(last, d) \subseteq R!VersionsFrom(s, d)
    <3>1. s - 1 = last
      BY <1>3, <2>1
    <3>2. QED
      BY <1>3, <2>1, <2>3, <3>1, VersionsSkip
  <2>4. msgs[s].docs \subseteq Docs
    <3>1. msgs[s] \in Messages
      BY <1>3, <2>1, ElementOfSeq DEF TypeOK
    <3>2. QED
      BY <3>1, ConstantsAssumption
  <2>5. CASE ApplyOne
    <3>1. /\ WriteDocs(s, msgs[s].docs) /\ touched' = Touch(s) /\ last' = s /\ pc' = "apply"
      BY <1>1, <1>3, <1>5, <2>1, <2>5 DEF ApplyOne
    <3> HIDE DEF s
    <3>2. ASSUME NEW d \in Docs
          PROVE  /\ disk'[d] \cup {data'[d]} \subseteq R!VersionsFrom(offset, d)
                 /\ data'[d] \in R!VersionsFrom(s, d)
                 /\ IndexOf[d] \notin touched' => disk'[d] \subseteq R!VersionsFrom(s, d)
      <4>1. CASE d \in msgs[s].docs
        <5>1. data'[d] = VersionBy(s)
          BY <3>1, <4>1 DEF WriteDocs
        <5>2. CASE msgs[s].kind = "docs"
          <6>1. disk'[d] = disk[d] \cup {VersionBy(s)} /\ IndexOf[d] \in touched'
            BY <3>1, <4>1, <5>2 DEF WriteDocs, VersionBy, Touch
          <6>2. QED
            BY <1>2, <2>2, <4>1, <5>1, <6>1
        <5>3. CASE msgs[s].kind = "delete_index"
          <6>1. disk'[d] = {VersionBy(s)}
            BY <3>1, <4>1, <5>3 DEF WriteDocs, VersionBy
          <6>2. QED
            BY <2>2, <4>1, <5>1, <6>1
        <5>4. QED
          BY <2>2, <4>1, <5>2, <5>3
      <4>2. CASE d \notin msgs[s].docs
        <5>1. data'[d] = data[d] /\ disk'[d] = disk[d]
          BY <3>1, <4>2 DEF WriteDocs
        <5>2. IndexOf[d] \notin touched' => IndexOf[d] \notin touched
          BY <3>1 DEF Touch
        <5>3. QED
          BY <1>2, <2>3, <4>2, <5>1, <5>2
      <4>3. QED
        BY <4>1, <4>2
    <3>3. ASSUME NEW d \in Docs, NEW n, n = offset'
          PROVE  disk'[d] \cup {data'[d]} \subseteq R!VersionsFrom(n, d)'
      BY <1>1, <1>2, <3>2, <3>3
    <3>4. ASSUME NEW d \in Docs, NEW n, n = last'
          PROVE  /\ data'[d] \in R!VersionsFrom(n, d)'
                 /\ IndexOf[d] \notin touched' => disk'[d] \subseteq R!VersionsFrom(n, d)'
      BY <1>2, <3>1, <3>2, <3>4
    <3>5. QED
      BY <3>1, <3>3, <3>4 DEF DurableNotBehind, WorkInv
  <2>6. CASE ApplyFails
    <3>1. /\ UNCHANGED <<last, touched>> /\ pc' \in {"apply", "flush", "top"}
          /\ \/ UNCHANGED <<data, disk>>
             \/ msgs[s].kind = "docs" /\ \E ds \in SUBSET msgs[s].docs : WriteDocs(s, ds)
      BY <1>1, <2>6 DEF ApplyFails
    <3> HIDE DEF s
    <3>2. CASE UNCHANGED <<data, disk>>
      BY <1>1, <3>1, <3>2, QuietStep
    <3>3. ASSUME NEW ds \in SUBSET msgs[s].docs, WriteDocs(s, ds), msgs[s].kind = "docs"
          PROVE  DurableNotBehind' /\ WorkInv'
      <4>1. ASSUME NEW d \in Docs
            PROVE  /\ disk'[d] \cup {data'[d]} \subseteq R!VersionsFrom(offset, d)
                   /\ data'[d] \in R!VersionsFrom(last, d)
                   /\ IndexOf[d] \notin touched => disk'[d] \subseteq R!VersionsFrom(last, d)
        <5>1. CASE d \in ds
          <6>1. data'[d] = VersionBy(s) /\ disk'[d] = disk[d] \cup {VersionBy(s)}
            BY <3>3, <5>1 DEF WriteDocs, VersionBy
          <6>2. QED
            BY <1>2, <2>2, <5>1, <6>1
        <5>2. CASE d \notin ds
          <6>1. data'[d] = data[d] /\ disk'[d] = disk[d]
            BY <3>3, <5>2 DEF WriteDocs
          <6>2. QED
            BY <1>2, <6>1
        <5>3. QED
          BY <5>1, <5>2
      <4>2. ASSUME NEW d \in Docs, NEW n, n = offset'
            PROVE  disk'[d] \cup {data'[d]} \subseteq R!VersionsFrom(n, d)'
        BY <1>1, <1>2, <4>1, <4>2
      <4>3. ASSUME NEW d \in Docs, NEW n, n = last'
            PROVE  /\ data'[d] \in R!VersionsFrom(n, d)'
                   /\ IndexOf[d] \notin touched' => disk'[d] \subseteq R!VersionsFrom(n, d)'
        BY <1>2, <3>1, <4>1, <4>3
      <4>4. QED
        BY <3>1, <4>2, <4>3 DEF DurableNotBehind, WorkInv
    <3>4. QED
      BY <3>1, <3>2, <3>3
  <2>7. QED
    BY <2>5, <2>6
<1>6. QED
  <2>1. s \in Nat
    BY <1>1, <1>3, LoopTypes
  <2>2. QED
    BY <1>3, <1>4, <1>5, <2>1

\* After Flush what is written is durable.
LEMMA SyncStep ==
    ASSUME DurInv, Flush \/ FlushFails
    PROVE  DurableNotBehind' /\ WorkInv'
<1> USE DEF streamVars, serverVars, nodeVars, ctlVars, stepVars, histVars, countVars
<1>1. /\ pc = "flush" /\ UNCHANGED <<msgs, offset, data, last>>
      /\ \/ pc' = "save" /\ SyncWAL(touched)
         \/ pc' = "top" /\ \E xs \in SUBSET touched : SyncWAL(xs)
  BY DEF Flush, FlushFails, Fails
<1>2. /\ \A n, d : R!VersionsFrom(n, d)' = R!VersionsFrom(n, d)
      /\ \A d \in Docs : disk[d] \cup {data[d]} \subseteq R!VersionsFrom(offset, d)
      /\ \A d \in Docs : data[d] \in R!VersionsFrom(last, d)
      /\ \A d \in Docs : IndexOf[d] \notin touched => disk[d] \subseteq R!VersionsFrom(last, d)
  BY <1>1, SameMessages DEF DurInv, DurableNotBehind, WorkInv
<1>3. ASSUME NEW d \in Docs, NEW n, n = offset'
      PROVE  disk'[d] \cup {data'[d]} \subseteq R!VersionsFrom(n, d)'
  <2>1. disk'[d] \in {disk[d], {data[d]}}
    BY <1>1 DEF SyncWAL
  <2>2. QED
    BY <1>1, <1>2, <1>3, <2>1
<1>4. ASSUME NEW d \in Docs, NEW n, n = last', pc' = "save"
      PROVE  disk'[d] \cup {data'[d]} \subseteq R!VersionsFrom(n, d)'
  <2>1. disk'[d] = IF IndexOf[d] \in touched THEN {data[d]} ELSE disk[d]
    BY <1>1, <1>4 DEF SyncWAL
  <2>2. QED
    BY <1>1, <1>2, <1>4, <2>1
<1>5. pc' \notin {"apply", "flush"}
  BY <1>1
<1>6. QED
  BY <1>3, <1>4, <1>5 DEF DurableNotBehind, WorkInv

\* Save happens with no index touched, so the new position is covered by what
\* is durable.
LEMMA SavePositionStep ==
    ASSUME DurInv, Save
    PROVE  DurableNotBehind' /\ WorkInv'
<1>1. pc = "save" /\ pc' = "top" /\ UNCHANGED <<msgs, data, disk>> /\ offset' = last
  BY DEF Save, streamVars
<1>2. /\ \A n, d : R!VersionsFrom(n, d)' = R!VersionsFrom(n, d)
      /\ \A d \in Docs : disk[d] \cup {data[d]} \subseteq R!VersionsFrom(last, d)
  BY <1>1, SameMessages DEF DurInv, WorkInv
<1>3. ASSUME NEW d \in Docs, NEW n, n = offset'
      PROVE  disk'[d] \cup {data'[d]} \subseteq R!VersionsFrom(n, d)'
  BY <1>1, <1>2, <1>3
<1>4. QED
  BY <1>1, <1>3 DEF DurableNotBehind, WorkInv

\* After a crash each document is one that was durable.
LEMMA CrashStep ==
    ASSUME DurInv, Crash
    PROVE  DurableNotBehind' /\ WorkInv'
<1>1. /\ UNCHANGED <<msgs, offset>> /\ pc' = "down"
      /\ \/ UNCHANGED <<data, disk>>
         \/ \A d \in Docs : data'[d] \in disk[d] /\ disk'[d] = {data'[d]}
  BY DEF Crash, streamVars
<1>2. /\ \A n, d : R!VersionsFrom(n, d)' = R!VersionsFrom(n, d)
      /\ \A d \in Docs : disk[d] \cup {data[d]} \subseteq R!VersionsFrom(offset, d)
  BY <1>1, SameMessages DEF DurInv, DurableNotBehind
<1>3. ASSUME NEW d \in Docs, NEW n, n = offset'
      PROVE  disk'[d] \cup {data'[d]} \subseteq R!VersionsFrom(n, d)'
  BY <1>1, <1>2, <1>3
<1>4. QED
  BY <1>1, <1>3 DEF DurableNotBehind, WorkInv

\* The invariant of durable data is inductive.
LEMMA DurStep == SafeRetention /\ ~ LossyDelivery => (DurInv /\ [Next]_vars => DurInv')
<1> SUFFICES ASSUME SafeRetention, ~ LossyDelivery, DurInv, [Next]_vars PROVE DurInv'
  OBVIOUS
<1> USE DEF streamVars, serverVars, nodeVars, ctlVars, stepVars, histVars, countVars
<1>1. LoopInv' /\ SafeInv'
  BY LoopStep, SafeStep DEF DurInv
<1>2. CASE Trim \/ Start \/ Pause \/ Resume \/ Stop \/ Top \/ Unpark \/ Prepare \/ Deliver \/ DeliveryLost
           \/ (\E s \in unacked : Redeliver(s)) \/ FetchEnds \/ CheckFirst \/ ApplyEnds \/ ServerFails \/ SaveFails \/ UNCHANGED vars
  <2>1. UNCHANGED <<msgs, data, disk, offset>>
    BY <1>2 DEF Trim, Start, Pause, Resume, Stop, Top, Unpark, Prepare, Deliver, DeliveryLost, HandOut,
                Redeliver, FetchEnds, CheckFirst, ApplyEnds, ServerFails, SaveFails, vars
  <2>2. applied = offset
    BY DEF DurInv, LoopInv, ProgressInv
  <2>3. \/ pc' \notin {"apply", "flush", "save"}
        \/ pc' = "apply" /\ last' = offset
        \/ UNCHANGED <<last, touched>> /\ (pc' = pc \/ (pc = "apply" /\ pc' = "flush"))
    <3>1. CASE Trim \/ Start \/ Pause \/ Resume \/ Stop \/ UNCHANGED vars
      BY <3>1 DEF Trim, Start, Pause, Resume, Stop, vars
    <3>2. CASE Top \/ Unpark \/ Prepare \/ Deliver \/ DeliveryLost \/ (\E s \in unacked : Redeliver(s)) \/ FetchEnds
      BY <3>2 DEF Top, Unpark, Prepare, Deliver, DeliveryLost, HandOut, Redeliver, FetchEnds, Fails
    <3>3. CASE CheckFirst \/ ApplyEnds \/ ServerFails \/ SaveFails
      BY <2>2, <3>3 DEF CheckFirst, ApplyEnds, ServerFails, SaveFails, Fails
    <3>4. QED
      BY <1>2, <3>1, <3>2, <3>3
  <2>4. QED
    BY <1>1, <2>1, <2>3, QuietStep DEF DurInv
<1>3. CASE Publish \/ ApplyOne \/ ApplyFails \/ Flush \/ FlushFails \/ Save \/ Crash
  BY <1>1, <1>3, PublishStep, WriteStep, SyncStep, SavePositionStep, CrashStep DEF DurInv
<1>4. QED
  BY <1>2, <1>3 DEF Next, Goroutine, Failures

\* With retention that keeps to the saved position and no lost delivery, the saved
\* position never points past data that a crash could still lose (step: Flush before Save; SyncWAL), also
\* when a Flush failed and forgot what was touched.
THEOREM PositionDurable ==
    ASSUME SafeRetention, ~ LossyDelivery
    PROVE  Spec => []DurableNotBehind
<1>1. DurInv => DurableNotBehind
  BY DEF DurInv
<1>2. DurInv /\ [Next]_vars => DurInv'
  BY DurStep
<1>3. QED
  BY <1>1, <1>2, DurInit, PTL DEF Spec

\* An initial consumer is an initial replica.
LEMMA ReplicaInit == Init => R!Init
BY DEF Init, R!Init

\* A step of the consumer is a step of the replica or leaves it unchanged.
LEMMA ReplicaStep ==
    DurInv /\ DurInv' /\ [Next]_vars => [R!Next]_<<msgs, offset, data>>
<1> SUFFICES ASSUME DurInv, DurInv', [Next]_vars
             PROVE  R!Next \/ UNCHANGED <<msgs, offset, data>>
  OBVIOUS
<1> USE DEF streamVars, serverVars, nodeVars, ctlVars, stepVars, histVars, countVars
<1>1. CASE Publish
  BY <1>1 DEF Publish, R!Next, R!Publish
<1>2. CASE Save
  <2>1. pc = "save" /\ offset' = last /\ UNCHANGED <<msgs, data>>
    BY <1>2 DEF Save
  <2>2. \A d \in Docs : data[d] \in R!VersionsFrom(last, d)
    BY <2>1 DEF DurInv, WorkInv
  <2>3. last \in offset + 1 .. Len(msgs)
    BY <2>1, LoopTypes DEF DurInv, LoopInv, ProgressInv, TypeOK, LastSeq
  <2>4. R!Advance
    BY <2>1, <2>2, <2>3 DEF R!Advance, R!NotBehind
  <2>5. QED
    BY <2>4 DEF R!Next
<1>3. CASE UNCHANGED <<msgs, offset>>
  <2>1. data' \in [Docs -> 0 .. Len(msgs)]
    BY <1>3 DEF DurInv, LoopInv, TypeOK, LastSeq
  <2>2. \A n, d : R!VersionsFrom(n, d)' = R!VersionsFrom(n, d)
    BY <1>3, SameMessages
  <2>3. \A d \in Docs : data'[d] \in R!VersionsFrom(offset, d)
    <3>1. ASSUME NEW d \in Docs, NEW n, n = offset' PROVE data'[d] \in R!VersionsFrom(n, d)'
      BY <3>1 DEF DurInv, DurableNotBehind
    <3>2. QED
      BY <1>3, <2>2, <3>1
  <2>4. R!Apply
    BY <1>3, <2>1, <2>3 DEF R!Apply, R!NotBehind
  <2>5. QED
    BY <2>4 DEF R!Next
<1>4. QED
  BY <1>1, <1>2, <1>3 DEF Next, Goroutine, Failures, Trim, Start, Pause, Resume, Stop, Top, Unpark, Prepare,
     Deliver, DeliveryLost, HandOut, Redeliver, FetchEnds, CheckFirst, ApplyOne, ApplyFails, ApplyEnds, Flush, FlushFails, SaveFails,
     ServerFails, Crash, vars

\* With retention that keeps to the saved position and no lost delivery the consumer
\* implements Replica
\* (run, step, Flush, Save): its position only moves forward and only to where the
\* documents already are, through every failure and restart.
THEOREM ConsumerRefines ==
    ASSUME SafeRetention, ~ LossyDelivery
    PROVE  Spec => ImplementsReplica
<1>1. DurInv /\ [Next]_vars => DurInv'
  BY DurStep
<1>2. QED
  BY <1>1, ReplicaInit, ReplicaStep, DurInit, PTL DEF Spec, ImplementsReplica, R!Spec
=============================================================================
