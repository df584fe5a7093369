--------------------------- MODULE StreamConsumer ---------------------------
(***************************************************************************)
(* The consumer of the replication stream in a node                        *)
(* (pkg/streaming/consumer.go, apply.go, offset.go): one goroutine that    *)
(* fetches batches, applies them, flushes the WAL, saves the position and  *)
(* acknowledges; Pause, Resume and Stop called from other goroutines; the  *)
(* JetStream server, which delivers from a cursor, stops at a number of    *)
(* unacknowledged messages and may drop old ones; lost acknowledgements    *)
(* and lost deliveries; crashes of the process and of the machine.         *)
(*                                                                         *)
(* A message names the documents it writes; applying it sets their version *)
(* to its sequence number.  delete_index removes them.  A message that can *)
(* never succeed is "bad" and writes nothing.                              *)
(*                                                                         *)
(* Simplifications: the stream never loses its newest messages, so the     *)
(* ErrAhead branch of prepare is left out; mapping messages write no       *)
(* document and are not told apart from bad ones; the status counters and  *)
(* the text of the last error are left out.                                *)
(*                                                                         *)
(* An operator with an underscore in its name is a faulty variant of the   *)
(* operator that follows it; no specification uses it.                     *)
(***************************************************************************)
EXTENDS Integers, Sequences, FiniteSetsExt, Functions

CONSTANTS
    Docs,           \* document IDs
    Indexes,        \* index names
    IndexOf,        \* the index each document belongs to
    Messages,       \* what may be published: records [kind, docs]
    Batch,          \* messages fetched at once
    AllowGap,       \* cfg.AllowGap
    SafeRetention,  \* the stream drops only messages the node has saved
    PowerLoss,      \* a crash may lose writes that were not flushed
    MaxMsgs,        \* bound: messages published
    MaxTrims,       \* bound: times retention drops messages
    LossyDelivery,  \* a delivery may be lost with the connection
    MaxFailures     \* bound: failed calls, lost deliveries, crashes and orderly stops

ASSUME ConstantsAssumption ==
    /\ IndexOf \in [Docs -> Indexes]
    /\ Messages \subseteq [kind : {"docs", "delete_index", "bad"}, docs : SUBSET Docs]
    /\ \A m \in Messages : m.kind = "bad" => m.docs = {}
    /\ Batch \in Nat \ {0}
    /\ AllowGap \in BOOLEAN /\ SafeRetention \in BOOLEAN
    /\ PowerLoss \in BOOLEAN /\ LossyDelivery \in BOOLEAN
    /\ MaxMsgs \in Nat /\ MaxTrims \in Nat /\ MaxFailures \in Nat

NoCursor == 0      \* cons == nil
MaxAckPending == 2 * Batch

VARIABLES
    msgs,       \* every message ever published; the index is the sequence
    first,      \* FirstSeq: older messages were dropped by retention
    cursor,     \* next sequence the JetStream consumer delivers, or NoCursor
    unacked,    \* what it delivered and has no acknowledgement for
    offset,     \* stream_offset in the node metadata, durable
    data,       \* version of every document on the node
    disk,       \* versions a document may be found in after a power loss
    applied,    \* c.applied
    touched,    \* CoreApplier.touched
    paused,     \* c.paused
    parked,     \* c.parked
    stopping,   \* the context of run was cancelled by Stop
    pc,         \* where the goroutine is
    batch,      \* sequences of the messages fetched
    next,       \* position in batch of the message to apply
    last,       \* local variable of step: last message applied
    done,       \* history: messages that were applied or skipped
    lost,       \* history: messages whose delivery was lost
    trims, failures

streamVars == <<msgs, first>>
serverVars == <<cursor, unacked>>
nodeVars   == <<offset, data, disk>>
ctlVars    == <<paused, parked, stopping>>
stepVars   == <<batch, next, last>>
histVars   == <<done, lost>>
countVars  == <<trims, failures>>
vars == <<streamVars, serverVars, nodeVars, applied, touched, ctlVars, pc, stepVars,
          histVars, countVars>>

LastSeq == Len(msgs)
running == pc # "down"
Drained == paused /\ parked          \* Status().Drained

-----------------------------------------------------------------------------
Init ==
    /\ msgs = <<>> /\ first = 1
    /\ cursor = NoCursor /\ unacked = {}
    /\ offset = 0
    /\ data = [d \in Docs |-> 0] /\ disk = [d \in Docs |-> {0}]
    /\ applied = 0 /\ touched = {}
    /\ paused = FALSE /\ parked = FALSE /\ stopping = FALSE
    /\ pc = "down"
    /\ batch = <<>> /\ next = 1 /\ last = 0
    /\ done = {} /\ lost = {}
    /\ trims = 0 /\ failures = 0

-----------------------------------------------------------------------------
(* The stream.                                                             *)

Publish ==
    /\ LastSeq < MaxMsgs
    /\ \E m \in Messages : msgs' = Append(msgs, m)
    /\ UNCHANGED <<first, serverVars, nodeVars, applied, touched, ctlVars, pc, stepVars,
                   histVars, countVars>>

\* Retention drops the oldest messages; they need no acknowledgement any more.
Trim ==
    /\ trims < MaxTrims
    /\ trims' = trims + 1
    /\ \E f \in first + 1 .. LastSeq + 1 :
        /\ SafeRetention => f <= offset + 1
        /\ first' = f
        /\ unacked' = {s \in unacked : s >= f}
    /\ UNCHANGED <<msgs, cursor, nodeVars, applied, touched, ctlVars, pc, stepVars,
                   histVars, failures>>

-----------------------------------------------------------------------------
(* Control, from other goroutines.                                         *)

\* cons = nil: what its cursor still waits for does not matter any more.
DropCursor == cursor' = NoCursor /\ unacked' = {}

\* StartFromConfig in a new process: a new Consumer loads the position and its
\* goroutine begins without a cursor.
Start ==
    /\ ~running
    /\ applied' = offset
    /\ DropCursor /\ touched' = {}
    /\ pc' = "top"
    /\ paused' = FALSE /\ parked' = FALSE /\ stopping' = FALSE
    /\ UNCHANGED <<streamVars, nodeVars, stepVars, histVars, countVars>>

\* Pause up to its wait; it returns once parked or not running.
Pause ==
    /\ ~paused
    /\ paused' = TRUE
    /\ UNCHANGED <<streamVars, serverVars, nodeVars, applied, touched, parked, stopping,
                   pc, stepVars, histVars, countVars>>

Resume ==
    /\ paused
    /\ paused' = FALSE
    /\ UNCHANGED <<streamVars, serverVars, nodeVars, applied, touched, parked, stopping,
                   pc, stepVars, histVars, countVars>>

\* Stop cancels the context and waits for the goroutine to end.
Stop ==
    /\ running /\ ~stopping
    /\ failures < MaxFailures
    /\ failures' = failures + 1
    /\ stopping' = TRUE
    /\ UNCHANGED <<streamVars, serverVars, nodeVars, applied, touched, paused, parked,
                   pc, stepVars, histVars, trims>>

-----------------------------------------------------------------------------
(* run: the loop of the goroutine.                                         *)

Top_ignoresPause ==
    /\ pc = "top"
    /\ \/ /\ stopping
          /\ pc' = "down" /\ parked' = FALSE
       \/ /\ ~stopping
          /\ pc' = IF cursor = NoCursor THEN "prepare" ELSE "fetch"
          /\ parked' = FALSE
    /\ batch' = <<>> /\ next' = 1 /\ last' = 0
    /\ UNCHANGED <<streamVars, serverVars, nodeVars, applied, touched, paused, stopping,
                   histVars, countVars>>

\* The head of the loop: end, park, or go on with or without a cursor.
Top ==
    /\ pc = "top"
    /\ \/ /\ stopping
          /\ pc' = "down" /\ parked' = FALSE
       \/ /\ ~stopping /\ paused
          /\ pc' = "parked" /\ parked' = TRUE
       \/ /\ ~stopping /\ ~paused
          /\ pc' = IF cursor = NoCursor THEN "prepare" ELSE "fetch"
          /\ parked' = FALSE
    /\ batch' = <<>> /\ next' = 1 /\ last' = 0
    /\ UNCHANGED <<streamVars, serverVars, nodeVars, applied, touched, paused, stopping,
                   histVars, countVars>>

\* parkIfPaused returns; after a pause the cursor is created anew.
Unpark ==
    /\ pc = "parked"
    /\ \/ /\ stopping
          /\ pc' = "down" /\ parked' = FALSE /\ UNCHANGED serverVars
       \/ /\ ~stopping /\ ~paused
          /\ pc' = "prepare" /\ parked' = FALSE /\ DropCursor
    /\ UNCHANGED <<streamVars, nodeVars, applied, touched, paused, stopping, stepVars,
                   histVars, countVars>>

CheckGap_skipsOne ==
    IF applied + 1 >= first THEN applied + 2
    ELSE IF AllowGap THEN first ELSE 0

CheckGap_refuses == IF applied + 1 >= first THEN applied + 1 ELSE 0

\* checkGap: the sequence to continue at, or 0 for ErrGap.  An empty stream
\* starts at LastSeq + 1, which is where `first` stands then.
CheckGap ==
    IF applied + 1 >= first THEN applied + 1
    ELSE IF AllowGap THEN first ELSE 0

\* c.fail and continue: the cursor is dropped, the loop starts over.
Fails == pc' = "top" /\ DropCursor

\* prepare; with a cancelled context its calls to the server fail.  The new
\* cursor delivers again what is after the position.
Prepare ==
    /\ pc = "prepare"
    /\ IF stopping \/ CheckGap = 0
       THEN Fails /\ UNCHANGED lost
       ELSE /\ pc' = "fetch"
            /\ cursor' = CheckGap /\ unacked' = {}
            /\ lost' = {s \in lost : s <= applied}
    /\ UNCHANGED <<streamVars, nodeVars, applied, touched, ctlVars, stepVars, done, countVars>>

\* A call to the server fails: in prepare, in Fetch, or for the stream info.
ServerFails ==
    /\ pc \in {"prepare", "fetch", "check"}
    /\ failures < MaxFailures
    /\ failures' = failures + 1
    /\ Fails
    /\ UNCHANGED <<streamVars, nodeVars, applied, touched, ctlVars, stepVars, histVars,
                   trims>>

\* The next message the server still has; it hands out no new one while
\* MaxAckPending are not acknowledged.
NextSeq == Max({cursor, first})

HandOut ==
    /\ pc = "fetch"
    /\ Len(batch) < Batch
    /\ NextSeq <= LastSeq
    /\ Cardinality(unacked) < MaxAckPending
    /\ cursor' = NextSeq + 1
    /\ unacked' = unacked \cup {NextSeq}
    /\ UNCHANGED <<streamVars, nodeVars, applied, touched, ctlVars, pc, next, last,
                   done, trims>>

\* Fetch receives it.
Deliver ==
    /\ HandOut
    /\ batch' = Append(batch, NextSeq)
    /\ UNCHANGED <<lost, failures>>

\* It is lost with the connection; the client connects again by itself and keeps
\* its cursor.
DeliveryLost ==
    /\ HandOut
    /\ LossyDelivery
    /\ failures < MaxFailures
    /\ failures' = failures + 1
    /\ lost' = lost \cup {NextSeq}
    /\ UNCHANGED batch

\* After AckWait the server hands out s again.
Redeliver(s) ==
    /\ pc = "fetch"
    /\ Len(batch) < Batch
    /\ \A k \in 1 .. Len(batch) : batch[k] # s
    /\ batch' = Append(batch, s)
    /\ UNCHANGED <<streamVars, serverVars, nodeVars, applied, touched, ctlVars, pc, next, last,
                   histVars, countVars>>

\* The batch is full or FetchWait is over.
FetchEnds ==
    /\ pc = "fetch"
    /\ pc' = IF batch = <<>> THEN "top" ELSE "check"
    /\ UNCHANGED <<streamVars, serverVars, nodeVars, applied, touched, ctlVars, stepVars,
                   histVars, countVars>>

\* step, before the loop: a first message beyond the position is looked into.
CheckFirst ==
    /\ pc = "check"
    /\ IF batch[1] > applied + 1 /\ (stopping \/ CheckGap = 0)
       THEN Fails /\ UNCHANGED <<next, last>>
       ELSE /\ pc' = "apply" /\ UNCHANGED serverVars
            /\ next' = 1 /\ last' = applied
    /\ UNCHANGED <<streamVars, nodeVars, applied, touched, ctlVars, batch, histVars, countVars>>

-----------------------------------------------------------------------------
(* Applying messages.                                                      *)

\* CreateDocument of d, or the removal of d with its index, for message s.
\* Writing a document goes to the WAL, which is not flushed; deleting an index
\* changes files and metadata at once.
VersionBy(s) == IF msgs[s].kind = "docs" THEN s ELSE 0

WriteDocs(s, ds) ==
    /\ data' = [d \in Docs |-> IF d \in ds THEN VersionBy(s) ELSE data[d]]
    /\ disk' = [d \in Docs |->
                  IF d \notin ds THEN disk[d]
                  ELSE IF msgs[s].kind = "docs" THEN disk[d] \cup {s} ELSE {0}]

\* CoreApplier.touched after message s
Touch(s) ==
    IF msgs[s].kind = "docs" THEN touched \cup {IndexOf[d] : d \in msgs[s].docs} ELSE touched

ApplyOne_again ==
    LET s == batch[next] IN
    /\ pc = "apply" /\ next <= Len(batch)
    /\ WriteDocs(s, msgs[s].docs)
    /\ touched' = Touch(s)
    /\ last' = s
    /\ done' = done \cup {s}
    /\ next' = next + 1
    /\ UNCHANGED <<streamVars, serverVars, offset, applied, ctlVars, pc, batch, lost, countVars>>

\* One turn of the loop over the batch: a message at or before `last` was
\* applied already; a bad one writes nothing and is skipped.
ApplyOne ==
    LET s == batch[next] IN
    /\ pc = "apply" /\ next <= Len(batch)
    /\ IF s <= last
       THEN UNCHANGED <<data, disk, touched, last, done>>
       ELSE /\ WriteDocs(s, msgs[s].docs)
            /\ touched' = Touch(s)
            /\ last' = s
            /\ done' = done \cup {s}
    /\ next' = next + 1
    /\ UNCHANGED <<streamVars, serverVars, offset, applied, ctlVars, pc, batch, lost, countVars>>

\* A transient failure: some documents of the message may be written.  applyOne
\* tries the same message again, or gives up when the consumer is stopped;
\* then what was applied so far is still made durable.
ApplyFails ==
    LET s == batch[next] IN
    /\ pc = "apply" /\ next <= Len(batch) /\ s > last
    /\ failures < MaxFailures
    /\ failures' = failures + 1
    /\ \/ msgs[s].kind = "docs" /\ \E ds \in SUBSET msgs[s].docs : WriteDocs(s, ds)
       \/ msgs[s].kind = "delete_index" /\ UNCHANGED <<data, disk>>
    /\ \/ UNCHANGED <<pc, serverVars>>
       \/ /\ stopping
          /\ pc' = IF last > applied THEN "flush" ELSE "top"
          /\ DropCursor
    /\ UNCHANGED <<streamVars, offset, applied, touched, ctlVars, stepVars, histVars,
                   trims>>

ApplyEnds ==
    /\ pc = "apply" /\ next > Len(batch)
    /\ pc' = IF last > applied THEN "flush" ELSE "top"
    /\ UNCHANGED <<streamVars, serverVars, nodeVars, applied, touched, ctlVars, stepVars,
                   histVars, countVars>>

\* SyncWAL of the indexes xs
SyncWAL(xs) == disk' = [d \in Docs |-> IF IndexOf[d] \in xs THEN {data[d]} ELSE disk[d]]

Flush_skips ==
    /\ pc = "flush"
    /\ UNCHANGED disk
    /\ touched' = {}
    /\ pc' = "save"
    /\ UNCHANGED <<streamVars, serverVars, offset, data, applied, ctlVars, stepVars, histVars, countVars>>

Flush ==
    /\ pc = "flush"
    /\ SyncWAL(touched)
    /\ touched' = {}
    /\ pc' = "save"
    /\ UNCHANGED <<streamVars, serverVars, offset, data, applied, ctlVars, stepVars, histVars, countVars>>

\* Syncing an index fails; touched is empty all the same.
FlushFails ==
    /\ pc = "flush"
    /\ failures < MaxFailures
    /\ failures' = failures + 1
    /\ \E xs \in SUBSET touched : SyncWAL(xs)
    /\ touched' = {}
    /\ Fails
    /\ UNCHANGED <<streamVars, offset, data, applied, ctlVars, stepVars, histVars,
                   trims>>

\* store.Save, c.applied.Store and the acknowledgements; a message fetched again
\* is acknowledged with newer ones only.  An acknowledgement may be lost.
Save ==
    /\ pc = "save"
    /\ offset' = last /\ applied' = last
    /\ \E acks \in SUBSET {s \in Range(batch) : s <= last} : unacked' = unacked \ acks
    /\ pc' = "top"
    /\ UNCHANGED <<streamVars, cursor, data, disk, touched, ctlVars, stepVars, histVars, countVars>>

SaveFails ==
    /\ pc = "save"
    /\ failures < MaxFailures
    /\ failures' = failures + 1
    /\ Fails
    /\ UNCHANGED <<streamVars, nodeVars, applied, touched, ctlVars, stepVars, histVars,
                   trims>>

-----------------------------------------------------------------------------
\* The process dies; with PowerLoss writes that were not flushed may be lost.
Crash ==
    /\ running
    /\ failures < MaxFailures
    /\ failures' = failures + 1
    /\ \/ UNCHANGED <<data, disk>>
       \/ /\ PowerLoss
          /\ data' \in {f \in [Docs -> 0 .. LastSeq] : \A d \in Docs : f[d] \in disk[d]}
          /\ disk' = [d \in Docs |-> {data'[d]}]
    /\ pc' = "down" /\ DropCursor /\ touched' = {}
    /\ paused' = FALSE /\ parked' = FALSE /\ stopping' = FALSE
    /\ batch' = <<>> /\ next' = 1 /\ last' = 0
    /\ UNCHANGED <<streamVars, offset, applied, histVars, trims>>

Goroutine ==
    \/ Top \/ Unpark \/ Prepare \/ Deliver \/ FetchEnds \/ CheckFirst
    \/ ApplyOne \/ ApplyEnds \/ Flush \/ Save

Failures ==
    \/ ServerFails \/ ApplyFails \/ FlushFails \/ SaveFails \/ DeliveryLost \/ Crash
    \/ \E s \in unacked : Redeliver(s)

Next ==
    \/ Publish \/ Trim
    \/ Start \/ Pause \/ Resume \/ Stop
    \/ Goroutine
    \/ Failures

\* The server hands out what it has, and what the node still needs of what it
\* handed out.
Fairness ==
    /\ WF_vars(Start) /\ WF_vars(Goroutine)
    /\ SF_vars(Deliver) /\ SF_vars(\E s \in unacked : s > applied /\ Redeliver(s))

Spec == Init /\ [][Next]_vars
FairSpec == Spec /\ Fairness

-----------------------------------------------------------------------------
(* Properties.                                                             *)

R == INSTANCE Replica WITH pos <- offset, doc <- data

\* The position, the cursor, the fetched batch and every version on the node
\* (Consumer, CoreApplier, the metadata) stay within what the stream holds.
TypeOK ==
    /\ msgs \in Seq(Messages) /\ first \in 1 .. LastSeq + 1
    /\ cursor \in 0 .. LastSeq + 1 /\ unacked \subseteq first .. LastSeq
    /\ offset \in 0 .. LastSeq /\ applied \in 0 .. LastSeq
    /\ data \in [Docs -> 0 .. LastSeq] /\ disk \in [Docs -> SUBSET (0 .. LastSeq)]
    /\ touched \subseteq Indexes
    /\ paused \in BOOLEAN /\ parked \in BOOLEAN /\ stopping \in BOOLEAN
    /\ pc \in {"down", "top", "parked", "prepare", "fetch", "check", "apply", "flush", "save"}
    /\ batch \in Seq(1 .. LastSeq) /\ next \in Nat \ {0} /\ last \in 0 .. LastSeq
    /\ done \subseteq 1 .. LastSeq /\ lost \subseteq 1 .. LastSeq
    /\ trims \in Nat /\ failures \in Nat

\* The saved position never points past data that a crash could still lose:
\* whatever version of a document a power failure leaves behind, it is one the
\* stream gave at the saved position or later.  (The promise of Flush and of
\* OffsetStore.Save; it needs that step flushes every index it touched before
\* it saves, also after a Flush that failed and forgot what was touched.)
DurableNotBehind ==
    \A d \in Docs : disk[d] \cup {data[d]} \subseteq R!VersionsFrom(offset, d)

\* The consumer implements the replica: its position only moves forward, and
\* only to where the documents already are, through failures and restarts.
ImplementsReplica == R!Spec

\* A message at or before the saved position that was never applied was
\* dropped by the stream, or its delivery was lost: step and prepare leave none
\* out themselves.  (step looks for a gap at the start of the stream only, so it
\* goes past a message that was handed out and never arrived.)
OnlyDroppedAreMissed == \A s \in 1 .. offset : s \in done \/ s < first \/ s \in lost

\* Pause returns: the goroutine parks, unless it is resumed or ends first.
PauseReturns == (paused /\ running) ~> (Drained \/ ~paused \/ ~running)

\* As many messages as the server hands out are not acknowledged, and all of
\* them are applied: it only hands out these again, and step acknowledges nothing
\* unless it applied something new.
Stalled == Cardinality(unacked) >= MaxAckPending /\ \A s \in unacked : s <= applied

\* A node that is not kept paused gets to save every message the stream holds,
\* unless lost acknowledgements stall its cursor (step, MaxAckPending).
CatchesUp == []<>(paused \/ Stalled \/ \A s \in first .. LastSeq : s <= offset)

\* The node never silently misses data: what it misses was dropped by the
\* stream.  It does not hold: see OnlyDroppedAreMissed.
NothingMissed == \A s \in 1 .. offset : s \in done \/ s < first

\* A backup is taken while the consumer is drained, and is a state the stream
\* really passed through.  It does not hold: a node that stopped within a batch
\* and is paused before the batch is applied again holds part of it.
DrainedIsStreamState ==
    Drained => \E k \in 0 .. LastSeq : \A d \in Docs : data[d] = R!Version(k, d)
=============================================================================
