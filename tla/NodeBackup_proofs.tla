-------------------------- MODULE NodeBackup_proofs --------------------------
(***************************************************************************)
(* Proofs about NodeBackup, for any indexes, messages, requests and        *)
(* bounds.                                                                 *)
(*                                                                         *)
(* The properties speak of the archive, of the pause flag and of the       *)
(* restored node; what makes them inductive is what a request may rely on  *)
(* while it runs (LocalInv).  Before the copy the consumer stays paused,   *)
(* parked and drained, unless someone resumed it, which is recorded as     *)
(* "early".  From the first read of the position on, everything up to it   *)
(* is applied, so a copy taken later, of a consumer that was resumed       *)
(* meanwhile, holds it too; that needs DocsInv, which relates position,    *)
(* WALs and indexes.  PauseInv relates the flag to what the one active     *)
(* request read as wasPaused.                                              *)
(***************************************************************************)
EXTENDS NodeBackup, TLAPS, FiniteSetTheorems

Msgs == 1 .. MaxMsgs

\* The steps of a request before the copy, during it, and all.
Early == {"new", "pause", "park", "drain", "create", "offset"}
CopySteps == {"copy", "count", "after", "compare"}
Steps == Early \cup CopySteps \cup {"respond", "done"}
Copying(r) == req[r].pc \in CopySteps
Req == [pc : Steps, was : BOOLEAN, before : Int, at : Int,
        copy : [Indexes -> SUBSET Msgs], docs : [Indexes -> Nat]]

(***************************************************************************)
(* Type correctness                                                        *)
(***************************************************************************)
ConsTyped ==
    /\ paused \in BOOLEAN /\ cpc \in {"top", "step", "save", "parked"}
    /\ wal \in [Indexes -> SUBSET Msgs] /\ data \in [Indexes -> SUBSET Msgs]
    /\ offset \in 0 .. MaxMsgs
    /\ cpc = "save" => offset < MaxMsgs

ReqTyped == req \in [Requests -> Req]

\* Where a request is in the list of indexes.
Placed(r) ==
    /\ req[r].pc \in Early => req[r].at = 1
    /\ req[r].pc \in {"copy", "count"} => req[r].at \in Indexes
    /\ req[r].pc \in {"after", "compare"} => \A x \in Indexes : x < req[r].at

LockInv ==
    /\ lock = {} \/ \E r \in Requests : lock = {r}
    /\ \A r \in Requests : (lock = {r}) <=> (req[r].pc = "offset" \/ Copying(r))

TargetTyped ==
    target \in [pc : {"empty", "move", "load", "restored"}, dirs : SUBSET Indexes, keys : SUBSET Keys]

ArchiveTyped ==
    archive \in [offset : Int, copy : [Indexes -> SUBSET Msgs], docs : [Indexes -> Nat]]

AuxTyped ==
    /\ failures \in Nat /\ overlap \in BOOLEAN
    /\ held \in {"no", "before", "during", "raced"} /\ resumed \in {"no", "copying", "early"}

Typed ==
    /\ ConsTyped /\ ReqTyped /\ (\A r \in Requests : Placed(r)) /\ LockInv
    /\ TargetTyped /\ ArchiveTyped /\ AuxTyped

\* The indexes are 1 up to their number.
LEMMA IndexFacts ==
    /\ 1 \in Indexes /\ Indexes \subseteq Int
    /\ \A x \in Indexes : x >= 1
    /\ \A x \in Indexes : x + 1 \notin Indexes => \A y \in Indexes : y < x + 1
<1>1. Cardinality(Indexes) \in Nat
  BY NodeBackupAssumption, FS_CardinalityType
<1>2. PICK n \in Nat : Indexes = 1 .. n
  BY <1>1, NodeBackupAssumption
<1>3. Indexes # {}
  BY NodeBackupAssumption
<1> QED
  BY <1>2, <1>3

\* The documents of an index can be counted.
LEMMA Countable == ASSUME NEW S \in SUBSET Msgs PROVE Cardinality(S) \in Nat
<1>1. IsFiniteSet(Msgs)
  BY FS_Interval, NodeBackupAssumption DEF Msgs
<1> QED
  BY <1>1, FS_Subset, FS_CardinalityType

(***************************************************************************)
(* What the steps of a request do                                          *)
(***************************************************************************)
LEMMA GoEffect ==
    ASSUME ReqTyped, NEW r \in Requests, NEW from, NEW to \in Steps, Go(r, from, to)
    PROVE  /\ ReqTyped'
           /\ req[r].pc = from /\ req'[r].pc = to
           /\ req'[r].was = req[r].was /\ req'[r].before = req[r].before /\ req'[r].at = req[r].at
           /\ req'[r].copy = req[r].copy /\ req'[r].docs = req[r].docs
           /\ \A s \in Requests \ {r} : req'[s] = req[s]
BY DEF Go, ReqTyped, Req

\* The request reads the flag.
LEMMA ReadPausedEffect ==
    ASSUME ReqTyped, NEW r \in Requests, ReadPaused(r), paused \in BOOLEAN
    PROVE  /\ ReqTyped'
           /\ req[r].pc = "new" /\ req'[r].pc = "pause"
           /\ req'[r].was = paused /\ req'[r].at = req[r].at
           /\ \A s \in Requests \ {r} : req'[s] = req[s]
BY DEF ReadPaused, ReqTyped, Req, Steps, Early

\* The request reads the position before the copy.
LEMMA BeforeOffsetEffect ==
    ASSUME ReqTyped, NEW r \in Requests, BeforeOffset(r), ConsTyped
    PROVE  /\ ReqTyped'
           /\ req[r].pc = "offset" /\ req'[r].pc = "copy"
           /\ req'[r].was = req[r].was /\ req'[r].before = offset /\ req'[r].at = req[r].at
           /\ \A s \in Requests \ {r} : req'[s] = req[s]
<1>1. offset \in Int
  BY NodeBackupAssumption DEF ConsTyped
<1>2. "copy" \in Steps
  BY DEF Steps, CopySteps
<1> QED
  BY <1>1, <1>2 DEF BeforeOffset, ReqTyped, Req

\* The request copies one index.
LEMMA CopyEffect ==
    ASSUME ReqTyped, NEW r \in Requests, CopyIndex(r), req[r].at \in Indexes, ConsTyped
    PROVE  /\ ReqTyped'
           /\ req[r].pc = "copy" /\ req'[r].pc = "count"
           /\ req'[r].was = req[r].was /\ req'[r].before = req[r].before /\ req'[r].at = req[r].at
           /\ req'[r].copy = [req[r].copy EXCEPT ![req[r].at] = data[req[r].at]]
           /\ req'[r].docs = req[r].docs
           /\ \A s \in Requests \ {r} : req'[s] = req[s]
BY DEF CopyIndex, ConsTyped, ReqTyped, Req, Steps, CopySteps

\* The request counts the documents of that index and goes to the next.
LEMMA CountEffect ==
    ASSUME ReqTyped, NEW r \in Requests, CountIndex(r), req[r].at \in Indexes, ConsTyped
    PROVE  /\ ReqTyped'
           /\ req[r].pc = "count"
           /\ req'[r].pc = IF req[r].at + 1 \in Indexes THEN "copy" ELSE "after"
           /\ req'[r].was = req[r].was /\ req'[r].before = req[r].before
           /\ req'[r].at = req[r].at + 1 /\ req'[r].copy = req[r].copy
           /\ req'[r].docs = [req[r].docs EXCEPT ![req[r].at] = Cardinality(data[req[r].at])]
           /\ \A s \in Requests \ {r} : req'[s] = req[s]
<1>1. Cardinality(data[req[r].at]) \in Nat
  BY Countable DEF ConsTyped
<1> QED
  BY <1>1 DEF CountIndex, ReqTyped, Req, Steps, CopySteps

\* A request that is new, or answered, has its type.
LEMMA DoneTyped == NewReq \in Req /\ [NewReq EXCEPT !.pc = "done"] \in Req
<1>1. [x \in Indexes |-> {}] \in [Indexes -> SUBSET Msgs]
  OBVIOUS
<1>2. [x \in Indexes |-> 0] \in [Indexes -> Nat]
  OBVIOUS
<1>3. "new" \in Steps /\ "done" \in Steps
  BY DEF Steps, Early
<1>4. NewReq \in Req
  BY <1>1, <1>2, <1>3 DEF NewReq, Req
<1> QED
  BY <1>3, <1>4 DEF Req

\* The request is answered.
LEMMA RespondEffect ==
    ASSUME ReqTyped, NEW r \in Requests, Respond(r)
    PROVE  /\ ReqTyped'
           /\ req[r].pc = "respond" /\ req'[r].pc = "done"
           /\ \A s \in Requests \ {r} : req'[s] = req[s]
BY DoneTyped DEF Respond, ReqTyped, NewReq

\* A restart, or the loss of the node, ends every request.
LEMMA RestartEffect ==
    ASSUME ReqTyped, Restart \/ Lose
    PROVE  /\ ReqTyped'
           /\ \A r \in Requests : req'[r].pc \in {"new", "done"} /\ (req'[r] = req[r] \/ req'[r].pc = "done")
<1>1. CASE Restart
  <2>1. \A r \in Requests : req'[r] = IF Active(r) THEN [NewReq EXCEPT !.pc = "done"] ELSE req[r]
    BY <1>1 DEF Restart
  <2>2. req' \in [Requests -> Req]
    BY <1>1, <2>1, DoneTyped DEF Restart, ReqTyped
  <2> QED
    BY <2>1, <2>2 DEF ReqTyped, Active, NewReq
<1>2. CASE Lose
  BY <1>2, DoneTyped DEF Lose, ReqTyped, NewReq
<1> QED
  BY <1>1, <1>2

\* Resuming records who was disturbed, and forgets nothing.
LEMMA ResumeTyped ==
    ASSUME ConsTyped, AuxTyped, NEW by, Resume(by)
    PROVE  ConsTyped' /\ resumed' \in {"no", "copying", "early"} /\ (resumed' # "early" => resumed # "early")
           /\ (resumed' = "no" => resumed = "no")
BY DEF Resume, ConsTyped, AuxTyped

\* A failure is counted.
LEMMA FaultCounts == ASSUME AuxTyped, Fault PROVE failures' \in Nat \ {0}
BY DEF AuxTyped, Fault

(***************************************************************************)
(* The types are kept                                                      *)
(***************************************************************************)
LEMMA ConsStep == ASSUME Typed, [Next]_vars PROVE ConsTyped'
<1> USE DEF Typed
<1>1. CASE Consumer
  <2>1. CASE Top \/ Unpark
    BY <2>1 DEF Top, Unpark, ConsTyped
  <2>2. CASE Apply
    <3>1. CASE offset + 1 > MaxMsgs
      BY <2>2, <3>1 DEF Apply, ConsTyped
    <3>2. CASE ~(offset + 1 > MaxMsgs)
      <4>1. offset \in Int /\ MaxMsgs \in Nat /\ offset + 1 \in Msgs
        BY <3>2, NodeBackupAssumption DEF ConsTyped, Msgs
      <4>2. wal' \in [Indexes -> SUBSET Msgs]
        BY <2>2, <3>2, <4>1 DEF Apply, ConsTyped
      <4> QED
        BY <2>2, <3>2, <4>1, <4>2 DEF Apply, ConsTyped
    <3> QED
      BY <3>1, <3>2
  <2>3. CASE SaveOffset
    BY <2>3, NodeBackupAssumption DEF SaveOffset, ConsTyped
  <2>4. ASSUME NEW x \in Indexes, ConsumeWAL(x) PROVE ConsTyped'
    BY <2>4 DEF ConsumeWAL, ConsTyped
  <2> QED
    BY <1>1, <2>1, <2>2, <2>3, <2>4 DEF Consumer
<1>2. CASE Operator
  <2>1. CASE Resume({})
    BY <2>1, ResumeTyped
  <2> QED
    BY <1>2, <2>1 DEF Operator, ConsTyped
<1>3. CASE Restart \/ Lose
  <2>1. CASE Restart
    BY <2>1 DEF Restart, ConsTyped
  <2>2. CASE Lose
    <3>1. wal' \in [Indexes -> SUBSET Msgs] /\ data' \in [Indexes -> SUBSET Msgs]
      BY <2>2 DEF Lose
    <3>2. 0 \in 0 .. MaxMsgs
      BY NodeBackupAssumption
    <3> QED
      BY <2>2, <3>1, <3>2 DEF Lose, ConsTyped
  <2> QED
    BY <1>3, <2>1, <2>2
<1>4. CASE Recover
  BY <1>4 DEF Recover, consVars, ConsTyped
<1>5. ASSUME NEW r \in Requests, Request(r) PROVE ConsTyped'
  <2>1. CASE Pause(r)
    BY <2>1 DEF Pause, ConsTyped
  <2>2. CASE Respond(r)
    BY <2>2, ResumeTyped DEF Respond, consVars, ConsTyped
  <2>3. CASE UNCHANGED consVars
    BY <2>3 DEF consVars, ConsTyped
  <2> QED
    BY <1>5, <2>1, <2>2, <2>3 DEF Request, Parked, Drained, Create, BeforeOffset, CopyIndex, CountIndex,
       AfterPending, Compare, TimesOut, RequestFails
<1>6. ASSUME NEW r \in Requests, NewRequest(r) PROVE ConsTyped'
  BY <1>6 DEF NewRequest, ReadPaused, consVars, ConsTyped
<1>7. CASE UNCHANGED vars
  BY <1>7 DEF vars, consVars, ConsTyped
<1> QED
  BY <1>1, <1>2, <1>3, <1>4, <1>5, <1>6, <1>7 DEF Next

\* The recorded events keep their types.
LEMMA AuxStep == ASSUME Typed, [Next]_vars PROVE AuxTyped'
<1> USE DEF Typed
<1>1. CASE Operator
  <2>1. resumed' \in {"no", "copying", "early"}
    BY <1>1, ResumeTyped DEF Operator, AuxTyped
  <2> QED
    BY <1>1, <2>1 DEF Operator, AuxTyped
<1>2. CASE Restart \/ Lose
  BY <1>2, FaultCounts DEF Restart, Lose, AuxTyped
<1>3. CASE Recover
  <2>1. failures' \in Nat
    BY <1>3, FaultCounts DEF Recover, StartRestore, RestoreFails, RestoreCrashes, Wipe, MoveIndex, LoadKey, AuxTyped
  <2> QED
    BY <1>3, <2>1 DEF Recover, auxVars, AuxTyped
<1>4. ASSUME NEW r \in Requests, Request(r) PROVE AuxTyped'
  <2>1. CASE Respond(r)
    BY <2>1, ResumeTyped DEF Respond, AuxTyped
  <2>2. CASE RequestFails(r)
    BY <2>2, FaultCounts DEF RequestFails, auxVars, AuxTyped
  <2>3. CASE UNCHANGED <<failures, auxVars>>
    BY <2>3 DEF auxVars, AuxTyped
  <2> QED
    BY <1>4, <2>1, <2>2, <2>3 DEF Request, Pause, Parked, Drained, Create, BeforeOffset, CopyIndex, CountIndex,
       AfterPending, Compare, TimesOut
<1>5. ASSUME NEW r \in Requests, NewRequest(r) PROVE AuxTyped'
  <2>1. overlap' \in BOOLEAN
    BY <1>5 DEF NewRequest, ReadPaused
  <2> QED
    BY <1>5, <2>1 DEF NewRequest, ReadPaused, AuxTyped
<1>6. CASE Consumer \/ UNCHANGED vars
  BY <1>6 DEF Consumer, vars, auxVars, AuxTyped
<1> QED
  BY <1>1, <1>2, <1>3, <1>4, <1>5, <1>6 DEF Next

\* The archive keeps its type.
LEMMA ArchiveStep == ASSUME Typed, [Next]_vars PROVE ArchiveTyped'
<1> USE DEF Typed
<1>1. ASSUME NEW r \in Requests, Compare(r) PROVE ArchiveTyped'
  <2>1. req[r] \in Req /\ offset \in Int
    BY NodeBackupAssumption DEF ReqTyped, ConsTyped
  <2>2. CASE archive' = archive
    BY <2>2 DEF ArchiveTyped
  <2>3. CASE archive' = [offset |-> offset, copy |-> req[r].copy, docs |-> req[r].docs]
    BY <2>1, <2>3 DEF ArchiveTyped, Req
  <2> QED
    BY <1>1, <2>2, <2>3 DEF Compare
<1>2. CASE UNCHANGED archive
  BY <1>2 DEF ArchiveTyped
<1> QED
  BY <1>1, <1>2 DEF Next, Consumer, Operator, Restart, Lose, Recover, Request, NewRequest, ReadPaused, Pause,
     Parked, Drained, Create, BeforeOffset, CopyIndex, CountIndex, AfterPending, TimesOut, RequestFails, Respond, vars

\* A restore has moved every index before it loads metadata, and is done only
\* when all of it is loaded.
TargetInv ==
    /\ TargetTyped
    /\ target.pc \in {"load", "restored"} => target.dirs = Indexes
    /\ target.pc = "restored" => target.keys = Keys

\* A restore has moved every index before it loads, and loaded every key at its
\* end.
LEMMA TargetStep == ASSUME TargetInv, [Next]_vars PROVE TargetInv'
<1> USE DEF TargetInv, TargetTyped
<1>1. CASE Recover
  <2>1. CASE StartRestore
    BY <2>1 DEF StartRestore
  <2>2. CASE RestoreFails \/ RestoreCrashes
    BY <2>2 DEF RestoreFails, RestoreCrashes
  <2>3. CASE Wipe
    BY <2>3 DEF Wipe
  <2>4. ASSUME NEW x \in Indexes, MoveIndex(x) PROVE TargetInv'
    BY <2>4 DEF MoveIndex
  <2>5. ASSUME NEW key \in Keys, LoadKey(key) PROVE TargetInv'
    BY <2>5 DEF LoadKey
  <2> QED
    BY <1>1, <2>1, <2>2, <2>3, <2>4, <2>5 DEF Recover
<1>2. CASE UNCHANGED target
  BY <1>2
<1> QED
  BY <1>1, <1>2 DEF Next, Consumer, Operator, Restart, Lose, Request, NewRequest, vars

\* Requests keep their types and their place in the list of indexes.
LEMMA ReqStep == ASSUME Typed, [Next]_vars PROVE ReqTyped' /\ \A r \in Requests : Placed(r)'
<1> USE DEF Typed
<1>1. CASE UNCHANGED req
  BY <1>1 DEF ReqTyped, Placed
<1>2. CASE Restart \/ Lose
  BY <1>2, RestartEffect DEF Placed, Early
<1>3. ASSUME NEW r \in Requests, NewRequest(r) PROVE ReqTyped' /\ \A s \in Requests : Placed(s)'
  <2>1. ReadPaused(r) /\ paused \in BOOLEAN
    BY <1>3 DEF NewRequest, ConsTyped
  <2> QED
    BY <2>1, ReadPausedEffect DEF Placed, Early
<1>4. ASSUME NEW r \in Requests, Request(r) PROVE ReqTyped' /\ \A s \in Requests : Placed(s)'
  <2> SUFFICES ReqTyped' /\ Placed(r)' /\ \A s \in Requests \ {r} : req'[s] = req[s]
    BY DEF Placed
  <2>1. ASSUME NEW from \in Steps, NEW to \in Steps, Go(r, from, to),
               to \in Early => from \in Early, to \notin {"copy", "count"},
               to \in {"after", "compare"} => from \in {"after", "compare"}
        PROVE  ReqTyped' /\ Placed(r)' /\ \A s \in Requests \ {r} : req'[s] = req[s]
    BY <2>1, GoEffect DEF Placed, Early
  <2>2. CASE \/ Pause(r) \/ Parked(r) \/ Drained(r) \/ Create(r)
             \/ AfterPending(r) \/ Compare(r) \/ TimesOut(r)
    BY <2>1, <2>2 DEF Pause, Parked, Drained, Create, AfterPending, Compare, TimesOut, Steps, Early, CopySteps
  <2>3. CASE RequestFails(r)
    BY <2>1, <2>3 DEF RequestFails, Steps, Early, CopySteps
  <2>4. CASE BeforeOffset(r)
    BY <2>4, BeforeOffsetEffect, IndexFacts DEF Placed, Early
  <2>5. CASE CopyIndex(r)
    <3>1. req[r].at \in Indexes
      BY <2>5 DEF CopyIndex, Placed
    <3> QED
      BY <2>5, <3>1, CopyEffect DEF Placed, Early
  <2>6. CASE CountIndex(r)
    <3>1. req[r].at \in Indexes
      BY <2>6 DEF CountIndex, Placed
    <3> QED
      BY <2>6, <3>1, CountEffect, IndexFacts DEF Placed, Early
  <2>7. CASE Respond(r)
    BY <2>7, RespondEffect DEF Placed, Early
  <2> QED
    BY <1>4, <2>2, <2>3, <2>4, <2>5, <2>6, <2>7 DEF Request
<1> QED
  BY <1>1, <1>2, <1>3, <1>4 DEF Next, Consumer, Operator, Recover, vars

\* A step of request r and its effect on the lock: r takes it, has it, gives it
\* back or leaves it alone.
LEMMA LockMoves ==
    ASSUME LockInv, NEW r \in Requests, \A s \in Requests \ {r} : req'[s] = req[s],
           \/ /\ lock' = lock
              /\ (req[r].pc = "offset" \/ Copying(r)) <=> (req[r].pc = "offset" \/ Copying(r))'
           \/ lock = {} /\ lock' = {r} /\ (req[r].pc = "offset" \/ Copying(r))'
           \/ lock = {r} /\ lock' = {} /\ ~(req[r].pc = "offset" \/ Copying(r))'
    PROVE  LockInv'
BY DEF LockInv, Copying

\* The lock is taken before the copy and released with it.
LEMMA LockStep == ASSUME Typed, [Next]_vars PROVE LockInv'
<1> USE DEF Typed
<1>1. CASE UNCHANGED <<req, lock>>
  BY <1>1 DEF LockInv, Copying
<1>2. CASE Restart \/ Lose
  <2>1. lock' = {}
    BY <1>2 DEF Restart, Lose
  <2> QED
    BY <1>2, <2>1, RestartEffect DEF LockInv, Copying, CopySteps
<1>3. ASSUME NEW r \in Requests, NewRequest(r) PROVE LockInv'
  <2>1. ReadPaused(r) /\ paused \in BOOLEAN /\ lock' = lock
    BY <1>3 DEF NewRequest, ReadPaused, ConsTyped
  <2> QED
    BY <2>1, ReadPausedEffect, LockMoves DEF Copying, CopySteps
<1>4. ASSUME NEW r \in Requests, Request(r) PROVE LockInv'
  <2>1. ASSUME NEW from, NEW to \in Steps, Go(r, from, to)
        PROVE  /\ req[r].pc = from /\ req'[r].pc = to
               /\ \A s \in Requests \ {r} : req'[s] = req[s]
    BY <2>1, GoEffect
  <2>2. CASE Pause(r) \/ Parked(r) \/ Drained(r) \/ TimesOut(r)
    <3>1. lock' = lock
      BY <2>2 DEF Pause, Parked, Drained, TimesOut
    <3>2. PICK from \in {"pause", "park", "drain"}, to \in {"park", "drain", "create", "respond"} : Go(r, from, to)
      BY <2>2 DEF Pause, Parked, Drained, TimesOut
    <3> QED
      BY <2>1, <3>1, <3>2, LockMoves DEF Copying, CopySteps, Steps, Early
  <2>3. CASE Create(r)
    BY <2>1, <2>3, LockMoves DEF Create, Copying, CopySteps, Steps, Early
  <2>4. CASE AfterPending(r)
    BY <2>1, <2>4, LockMoves DEF AfterPending, Copying, CopySteps, Steps, LockInv
  <2>5. CASE Compare(r)
    BY <2>1, <2>5, LockMoves DEF Compare, Copying, CopySteps, Steps, LockInv
  <2>6. CASE RequestFails(r)
    BY <2>1, <2>6, LockMoves DEF RequestFails, Copying, CopySteps, Steps, LockInv
  <2>7. CASE BeforeOffset(r)
    BY <2>7, BeforeOffsetEffect, LockMoves DEF BeforeOffset, Copying, CopySteps
  <2>8. CASE CopyIndex(r) \/ CountIndex(r)
    <3>1. req[r].at \in Indexes /\ lock' = lock
      BY <2>8 DEF CopyIndex, CountIndex, Placed
    <3> QED
      BY <2>8, <3>1, CopyEffect, CountEffect, LockMoves DEF Copying, CopySteps
  <2>9. CASE Respond(r)
    BY <2>9, RespondEffect, LockMoves DEF Respond, Copying, CopySteps
  <2> QED
    BY <1>4, <2>2, <2>3, <2>4, <2>5, <2>6, <2>7, <2>8, <2>9 DEF Request
<1> QED
  BY <1>1, <1>2, <1>3, <1>4 DEF Next, Consumer, Operator, Recover, vars

\* The types hold initially.
LEMMA TypedInit == Init => Typed /\ TargetInv
<1> SUFFICES ASSUME Init PROVE Typed /\ TargetInv
  OBVIOUS
<1>1. [x \in Indexes |-> {}] \in [Indexes -> SUBSET Msgs] /\ [x \in Indexes |-> 0] \in [Indexes -> Nat]
  OBVIOUS
<1>2. ConsTyped
  <2>1. 0 \in 0 .. MaxMsgs
    BY NodeBackupAssumption
  <2> QED
    BY <1>1, <2>1 DEF Init, ConsTyped
<1>3. ReqTyped /\ \A r \in Requests : req[r] = NewReq
  BY DoneTyped DEF Init, ReqTyped
<1>4. (\A r \in Requests : Placed(r)) /\ LockInv
  BY <1>3 DEF Init, Placed, LockInv, NewReq, Early, Copying, CopySteps
<1>5. ArchiveTyped
  BY <1>1 DEF Init, ArchiveTyped, NoArchive
<1>6. TargetInv /\ AuxTyped
  BY DEF Init, TargetInv, TargetTyped, AuxTyped
<1> QED
  BY <1>2, <1>3, <1>4, <1>5, <1>6 DEF Typed, TargetInv

\* Every step keeps the types.
LEMMA TypedStep == ASSUME Typed, TargetInv, [Next]_vars PROVE Typed' /\ TargetInv'
<1>1. TargetInv'
  BY TargetStep
<1> QED
  BY <1>1, ConsStep, ReqStep, LockStep, ArchiveStep, AuxStep DEF Typed, TargetInv

(***************************************************************************)
(* Documents and position                                                  *)
(***************************************************************************)
\* Message m is before the position, or written and about to be.
Reached(m) == m <= offset \/ (m = offset + 1 /\ cpc = "save")

\* No message up to the position is lost: it is in the WAL of its index or
\* applied.
HeldInv == \A m \in Msgs : Reached(m) => m \in wal[IndexOf(m)] \cup data[IndexOf(m)]

\* Without a crash an index holds no other message.
OnlyInv ==
    failures = 0 => \A x \in Indexes : \A m \in wal[x] \cup data[x] : IndexOf(m) = x /\ Reached(m)

DocsInv == HeldInv /\ OnlyInv

\* The consumer keeps every message up to the position in a WAL or an index.
LEMMA DocsStep == ASSUME Typed, DocsInv, [Next]_vars PROVE DocsInv'
<1> USE DEF Typed, DocsInv
<1>0. MaxMsgs \in Nat /\ \A m \in Msgs : IndexOf(m) \in Indexes
  BY NodeBackupAssumption DEF Msgs
<1>1. CASE Consumer
  <2>0. failures' = failures /\ offset \in Int
    BY <1>0, <1>1 DEF Consumer, ConsTyped
  <2>1. CASE Top \/ Unpark
    BY <2>0, <2>1 DEF Top, Unpark, HeldInv, OnlyInv, Reached
  <2>2. CASE Apply
    <3>1. CASE offset + 1 > MaxMsgs
      BY <2>0, <2>2, <3>1 DEF Apply, HeldInv, OnlyInv, Reached
    <3>2. CASE ~(offset + 1 > MaxMsgs)
      <4>1. offset + 1 \in Msgs
        BY <1>0, <2>0, <3>2 DEF ConsTyped, Msgs
      <4>2. wal' = [wal EXCEPT ![IndexOf(offset + 1)] = wal[IndexOf(offset + 1)] \cup {offset + 1}]
            /\ data' = data /\ offset' = offset /\ cpc' = "save" /\ cpc = "step"
        BY <2>2, <3>2 DEF Apply
      <4>3. \A x \in Indexes : wal'[x] = IF x = IndexOf(offset + 1) THEN wal[x] \cup {offset + 1} ELSE wal[x]
        BY <4>2 DEF ConsTyped
      <4>4. HeldInv'
        BY <1>0, <4>1, <4>2, <4>3 DEF HeldInv, Reached
      <4>5. OnlyInv'
        BY <1>0, <2>0, <4>1, <4>2, <4>3 DEF OnlyInv, Reached
      <4> QED
        BY <4>4, <4>5
    <3> QED
      BY <3>1, <3>2
  <2>3. CASE SaveOffset
    <3>1. \A m \in Int : Reached(m)' <=> Reached(m)
      BY <2>0, <2>3 DEF SaveOffset, Reached
    <3>2. Msgs \subseteq Int /\ \A x \in Indexes : wal[x] \cup data[x] \subseteq Msgs
      BY DEF Msgs, ConsTyped
    <3> QED
      BY <2>0, <2>3, <3>1, <3>2 DEF SaveOffset, HeldInv, OnlyInv
  <2>4. ASSUME NEW x \in Indexes, ConsumeWAL(x) PROVE DocsInv'
    <3>1. \A y \in Indexes : wal'[y] \cup data'[y] = wal[y] \cup data[y]
      BY <2>4 DEF ConsumeWAL, ConsTyped
    <3> QED
      BY <1>0, <2>0, <2>4, <3>1 DEF ConsumeWAL, HeldInv, OnlyInv, Reached
  <2> QED
    BY <1>1, <2>1, <2>2, <2>3, <2>4 DEF Consumer
<1>2. CASE Restart
  <2>1. failures' # 0
    BY <1>2, FaultCounts DEF Restart
  <2> QED
    BY <1>2, <2>1 DEF Restart, HeldInv, OnlyInv, Reached
<1>3. CASE Lose
  <2>1. offset' = 0 /\ cpc' = "top" /\ \A x \in Indexes : wal'[x] = {} /\ data'[x] = {}
    BY <1>3 DEF Lose
  <2> QED
    BY <2>1 DEF HeldInv, OnlyInv, Reached, Msgs
<1>4. CASE UNCHANGED <<cpc, wal, data, offset>> /\ (failures' = 0 => failures = 0)
  BY <1>4 DEF HeldInv, OnlyInv, Reached
<1>5. CASE Operator
  BY <1>4, <1>5 DEF Operator, Resume
<1>6. CASE Recover
  <2>1. failures' = 0 => failures = 0
    BY <1>6, FaultCounts DEF Recover, StartRestore, RestoreFails, RestoreCrashes, Wipe, MoveIndex, LoadKey
  <2> QED
    BY <1>4, <1>6, <2>1 DEF Recover, consVars
<1>7. ASSUME NEW r \in Requests, Request(r) \/ NewRequest(r) PROVE DocsInv'
  <2>1. failures' = 0 => failures = 0
    BY <1>7, FaultCounts DEF Request, NewRequest, ReadPaused, Pause, Parked, Drained, Create, BeforeOffset, CopyIndex,
       CountIndex, AfterPending, Compare, TimesOut, RequestFails, Respond
  <2>2. UNCHANGED <<cpc, wal, data, offset>>
    BY <1>7 DEF Request, NewRequest, ReadPaused, Pause, Parked, Drained, Create, BeforeOffset, CopyIndex,
       CountIndex, AfterPending, Compare, TimesOut, RequestFails, Respond, Resume, consVars
  <2> QED
    BY <1>4, <2>1, <2>2
<1> QED
  BY <1>1, <1>2, <1>3, <1>4, <1>5, <1>6, <1>7 DEF Next, vars, consVars

\* Initially there are no messages on the node.
LEMMA DocsInit == Init => DocsInv
<1> SUFFICES ASSUME Init PROVE DocsInv
  OBVIOUS
<1>1. offset = 0 /\ cpc = "top" /\ \A x \in Indexes : wal[x] = {} /\ data[x] = {}
  BY DEF Init
<1> QED
  BY <1>1 DEF DocsInv, HeldInv, OnlyInv, Reached, Msgs

(***************************************************************************)
(* What a request relies on                                                *)
(***************************************************************************)
UpTo(x, n) == {m \in Messages(x) : m <= n}

\* Index x is copied already.
Taken(r, x) == x < req[r].at \/ (x = req[r].at /\ req[r].pc = "count")

\* Before the copy the consumer stays paused, then parked, then drained.
ParkOK(r) ==
    /\ Settling(r) => paused
    /\ req[r].pc \in {"drain", "create", "offset"} => cpc = "parked"
    /\ req[r].pc = "offset" => ~Pending

\* During the copy everything up to the position read first is applied, and
\* in the copies made so far.
CopyOK(r) ==
    Copying(r) => /\ \A m \in Msgs : m <= req[r].before => m \in data[IndexOf(m)]
                  /\ \A x \in Indexes : Taken(r, x) => UpTo(x, req[r].before) \subseteq req[r].copy[x]

\* If nobody resumes the consumer, the node stands still.
StillOK(r) == Copying(r) => (paused /\ cpc = "parked" /\ ~Pending /\ req[r].before = offset)

\* Without a crash the copies hold nothing else, and their count is right.
ExactOK(r) ==
    Copying(r) => \A x \in Indexes : /\ Taken(r, x) => req[r].copy[x] = UpTo(x, req[r].before)
                                     /\ x < req[r].at => req[r].docs[x] = Cardinality(req[r].copy[x])

Local(r) ==
    /\ resumed # "early" => (ParkOK(r) /\ CopyOK(r))
    /\ resumed = "no" => StillOK(r)
    /\ (resumed = "no" /\ failures = 0) => ExactOK(r)

LocalInv == \A r \in Requests : Local(r)

\* A step that leaves a request, the documents and the position alone, and
\* does not resume the consumer, does not disturb the request.
LEMMA LocalFrame ==
    ASSUME NEW s \in Requests, Local(s), req'[s] = req[s], paused => paused',
           cpc' = cpc, wal' = wal, data' = data, offset' = offset, resumed' = resumed,
           failures' = 0 => failures = 0
    PROVE  Local(s)'
<1>1. ParkOK(s) => ParkOK(s)'
  BY DEF ParkOK, Settling, Pending
<1>2. CopyOK(s) => CopyOK(s)'
  BY DEF CopyOK, Copying, Taken, UpTo
<1>3. StillOK(s) => StillOK(s)'
  BY DEF StillOK, Copying, Pending
<1>4. ExactOK(s) => ExactOK(s)'
  BY DEF ExactOK, Copying, Taken, UpTo
<1> QED
  BY <1>1, <1>2, <1>3, <1>4 DEF Local

\* A request that is neither settling nor copying relies on nothing.
LEMMA LocalIdle ==
    ASSUME NEW s \in Requests, ~Settling(s), ~Copying(s)
    PROVE  Local(s)
BY DEF Local, ParkOK, CopyOK, StillOK, ExactOK, Settling

\* A consumer that is parked and paused does nothing but apply the WALs.
LEMMA ConsumerParked ==
    ASSUME Typed, Consumer, paused, cpc = "parked"
    PROVE  /\ paused' /\ cpc' = "parked" /\ offset' = offset
           /\ ~Pending => (UNCHANGED <<wal, data>> /\ ~Pending')
<1>1. CASE \E x \in Indexes : ConsumeWAL(x)
  BY <1>1 DEF ConsumeWAL, Pending
<1> QED
  BY <1>1 DEF Consumer, Top, Unpark, Apply, SaveOffset, Pending

\* The consumer does not touch the flag, and indexes only grow.
LEMMA ConsumerKeeps ==
    ASSUME Typed, Consumer
    PROVE  paused' = paused /\ \A x \in Indexes : data[x] \subseteq data'[x]
<1>1. ASSUME NEW x \in Indexes, ConsumeWAL(x) PROVE paused' = paused /\ \A y \in Indexes : data[y] \subseteq data'[y]
  BY <1>1 DEF ConsumeWAL, Typed, ConsTyped
<1> QED
  BY <1>1 DEF Consumer, Top, Unpark, Apply, SaveOffset

\* What a request relies on survives the steps of the consumer.
LEMMA LocalConsumer == ASSUME Typed, LocalInv, Consumer PROVE LocalInv'
<1> SUFFICES ASSUME NEW s \in Requests PROVE Local(s)'
  BY DEF LocalInv
<1>1. Local(s) /\ req' = req /\ resumed' = resumed /\ failures' = failures
  BY DEF LocalInv, Consumer, auxVars
<1>2. paused' = paused /\ \A x \in Indexes : data[x] \subseteq data'[x]
  BY ConsumerKeeps
<1>3. ParkOK(s) => ParkOK(s)'
  BY <1>1, <1>2, ConsumerParked DEF ParkOK, Settling
<1>4. CopyOK(s) => CopyOK(s)'
  <2>1. \A m \in Msgs : IndexOf(m) \in Indexes
    BY NodeBackupAssumption DEF Msgs
  <2> QED
    BY <1>1, <1>2, <2>1 DEF CopyOK, Copying, Taken, UpTo
<1>5. StillOK(s) => StillOK(s)'
  BY <1>1, ConsumerParked DEF StillOK, Copying
<1>6. ExactOK(s) => ExactOK(s)'
  BY <1>1 DEF ExactOK, Copying, Taken, UpTo
<1> QED
  BY <1>1, <1>3, <1>4, <1>5, <1>6 DEF Local

\* Someone resumes the consumer: if a request was settling that is recorded as
\* "early"; else those that copy keep what CopyOK says, and nothing more.
LEMMA LocalResume ==
    ASSUME AuxTyped, NEW by \in SUBSET Requests, Resume(by), NEW s \in Requests \ by, Local(s), req'[s] = req[s],
           failures' = failures
    PROVE  Local(s)'
<1>1. CASE resumed' = "early"
  BY <1>1 DEF Local
<1>2. CASE resumed' # "early" /\ Active(s)
  <2>1. ~Settling(s) /\ resumed' # "no" /\ resumed # "early"
    BY <1>2 DEF Resume, AuxTyped
  <2>2. ParkOK(s)'
    BY <2>1 DEF ParkOK, Settling
  <2>3. CopyOK(s)'
    <3>1. data' = data /\ CopyOK(s)
      BY <2>1 DEF Resume, Local
    <3> QED
      BY <3>1 DEF CopyOK, Copying, Taken, UpTo
  <2> QED
    BY <2>1, <2>2, <2>3 DEF Local
<1>3. CASE ~Active(s)
  <2>1. (~Settling(s))' /\ (~Copying(s))'
    BY <1>3 DEF Active, Settling, Copying, CopySteps
  <2> QED
    BY <2>1 DEF Local, ParkOK, CopyOK, StillOK, ExactOK, Settling
<1> QED
  BY <1>1, <1>2, <1>3

\* In a node that stands still an index holds the messages up to its position.
LEMMA ExactData ==
    ASSUME Typed, DocsInv, NEW r \in Requests, Local(r), Copying(r), resumed = "no", failures = 0,
           NEW x \in Indexes
    PROVE  data[x] = UpTo(x, req[r].before)
<1>1. cpc = "parked" /\ req[r].before = offset /\ \A m \in Msgs : m <= req[r].before => m \in data[IndexOf(m)]
  BY DEF Local, StillOK, CopyOK
<1>2. \A m \in data[x] : m \in Msgs /\ IndexOf(m) = x /\ m <= offset
  BY <1>1 DEF Typed, ConsTyped, DocsInv, OnlyInv, Reached
<1> QED
  BY <1>1, <1>2 DEF UpTo, Messages, Msgs

\* The steps of request r itself.
LEMMA LocalOwn ==
    ASSUME Typed, DocsInv, NEW r \in Requests, Local(r), Request(r) \/ NewRequest(r)
    PROVE  Local(r)'
<1> USE DEF Typed
<1>0. failures' = 0 => failures = 0
  BY FaultCounts DEF Request, NewRequest, ReadPaused, Pause, Parked, Drained, Create, BeforeOffset, CopyIndex,
     CountIndex, AfterPending, Compare, TimesOut, RequestFails, Respond
<1>1. CASE req'[r].pc \in {"pause", "respond", "done"}
  BY <1>1 DEF Local, ParkOK, CopyOK, StillOK, ExactOK, Settling, Copying, CopySteps
<1>2. ASSUME NEW from, NEW to \in Steps, Go(r, from, to)
      PROVE  req[r].pc = from /\ req'[r].pc = to
  BY <1>2, GoEffect
<1>3. CASE NewRequest(r) \/ Respond(r)
  <2>1. req'[r].pc \in {"pause", "done"}
    BY <1>3, ReadPausedEffect, RespondEffect DEF NewRequest, ConsTyped
  <2> QED
    BY <1>1, <2>1
<1>4. CASE TimesOut(r) \/ RequestFails(r) \/ Compare(r)
  <2>1. req'[r].pc = "respond"
    BY <1>2, <1>4 DEF TimesOut, RequestFails, Compare, Steps
  <2> QED
    BY <1>1, <2>1
<1>5. CASE req'[r].pc \in {"park", "drain", "create", "offset"} /\ ParkOK(r)'
  BY <1>5 DEF Local, CopyOK, StillOK, ExactOK, Copying, CopySteps
<1>6. CASE Pause(r)
  <2>1. req'[r].pc = "park" /\ paused'
    BY <1>2, <1>6 DEF Pause, Steps, Early
  <2> QED
    BY <1>5, <2>1 DEF ParkOK
<1>7. CASE Parked(r) \/ Drained(r)
  <2>1. CASE resumed = "early"
    BY <1>7, <2>1 DEF Local, Parked, Drained, auxVars
  <2>2. CASE resumed # "early"
    <3>1. /\ Parked(r) => req[r].pc = "park" /\ req'[r].pc = "drain"
          /\ Drained(r) => req[r].pc = "drain" /\ req'[r].pc = "create"
      BY <1>2, <1>7 DEF Parked, Drained, Steps, Early
    <3>2. ParkOK(r) /\ UNCHANGED consVars
      BY <1>7, <2>2 DEF Local, Parked, Drained
    <3>3. ParkOK(r)'
      BY <1>7, <3>1, <3>2 DEF ParkOK, Settling, Parked, Drained, consVars
    <3> QED
      BY <1>5, <1>7, <3>1, <3>3
  <2> QED
    BY <2>1, <2>2
<1>8. CASE Create(r)
  <2>1. CASE resumed = "early"
    BY <1>8, <2>1 DEF Local, Create, auxVars
  <2>2. CASE resumed # "early"
    <3>1. /\ req[r].pc = "create" /\ req'[r].pc \in {"respond", "offset"}
          /\ req'[r].pc = "offset" => ~Pending
      BY <1>2, <1>8 DEF Create, Steps, Early
    <3>2. ParkOK(r) /\ UNCHANGED consVars
      BY <1>8, <2>2 DEF Local, Create
    <3>3. ParkOK(r)'
      BY <3>1, <3>2 DEF ParkOK, Settling, Pending, consVars
    <3> QED
      BY <1>1, <1>5, <3>1, <3>3
  <2> QED
    BY <2>1, <2>2
<1>9. CASE BeforeOffset(r) /\ resumed # "early"
  <2>1. /\ req[r].pc = "offset" /\ req'[r].pc = "copy"
        /\ req'[r].before = offset /\ req'[r].at = req[r].at
    BY <1>9, BeforeOffsetEffect
  <2>2. ParkOK(r) /\ UNCHANGED consVars /\ resumed' = resumed
    BY <1>9 DEF Local, BeforeOffset, auxVars
  <2>3. paused /\ cpc = "parked" /\ \A x \in Indexes : wal[x] = {}
    BY <2>1, <2>2 DEF ParkOK, Settling, Pending
  <2>4. \A x \in Indexes : ~Taken(r, x)'
    <3>1. req'[r].at = 1
      BY <2>1 DEF Placed, Early
    <3>2. \A x \in Indexes : ~(x < 1)
      BY IndexFacts
    <3> QED
      BY <2>1, <3>1, <3>2 DEF Taken
  <2>5. \A m \in Msgs : m <= offset => m \in data[IndexOf(m)]
    <3>1. \A m \in Msgs : IndexOf(m) \in Indexes
      BY NodeBackupAssumption DEF Msgs
    <3> QED
      BY <2>3, <3>1 DEF DocsInv, HeldInv, Reached
  <2>6. CopyOK(r)' /\ ParkOK(r)'
    BY <2>1, <2>2, <2>4, <2>5 DEF CopyOK, ParkOK, Settling, consVars
  <2>7. StillOK(r)'
    BY <2>1, <2>2, <2>3 DEF StillOK, Pending, consVars
  <2>8. ExactOK(r)'
    BY <2>4 DEF ExactOK, Taken
  <2> QED
    BY <2>2, <2>6, <2>7, <2>8 DEF Local
<1>10. CASE CopyIndex(r) /\ resumed # "early"
  <2>0. req[r].at \in Indexes /\ req[r] \in Req /\ Indexes \subseteq Int
    BY <1>10, IndexFacts DEF CopyIndex, Placed, ReqTyped
  <2>1. /\ req[r].pc = "copy" /\ req'[r].pc = "count"
        /\ req'[r].before = req[r].before /\ req'[r].at = req[r].at
        /\ req'[r].copy = [req[r].copy EXCEPT ![req[r].at] = data[req[r].at]]
        /\ req'[r].docs = req[r].docs
    BY <1>10, <2>0, CopyEffect
  <2>2. CopyOK(r) /\ UNCHANGED consVars /\ resumed' = resumed /\ Copying(r) /\ failures' = failures
    BY <1>10, <2>1 DEF Local, CopyIndex, auxVars, Copying, CopySteps
  <2>3. \A x \in Indexes : req'[r].copy[x] = IF x = req[r].at THEN data[x] ELSE req[r].copy[x]
    BY <2>0, <2>1 DEF Req
  <2>4. \A x \in Indexes : Taken(r, x)' <=> (x = req[r].at \/ Taken(r, x))
    BY <2>1 DEF Taken
  <2>5. \A x \in Indexes : UpTo(x, req[r].before) \subseteq data[x]
    BY <2>2 DEF CopyOK, UpTo, Messages, Msgs
  <2>6. CopyOK(r)' /\ ParkOK(r)'
    BY <2>1, <2>2, <2>3, <2>4, <2>5 DEF CopyOK, ParkOK, Settling, consVars, UpTo
  <2>7. StillOK(r) => StillOK(r)'
    BY <2>1, <2>2 DEF StillOK, Pending, consVars
  <2>8. ASSUME resumed = "no", failures = 0 PROVE ExactOK(r)'
    <3>1. ExactOK(r) /\ \A x \in Indexes : data[x] = UpTo(x, req[r].before)
      BY <2>2, <2>8, ExactData DEF Local
    <3>2. \A x \in Indexes : Taken(r, x)' => req'[r].copy[x] = UpTo(x, req'[r].before)
      BY <2>1, <2>2, <2>3, <2>4, <3>1 DEF ExactOK
    <3>3. \A x \in Indexes : x < req[r].at => x # req[r].at
      <4>1. ASSUME NEW n \in Int, NEW x \in Int, x < n PROVE x # n
        BY <4>1
      <4> QED
        BY <2>0, <4>1, Zenon
    <3>4. \A x \in Indexes : x < req'[r].at => req'[r].docs[x] = Cardinality(req'[r].copy[x])
      BY <2>1, <2>2, <2>3, <3>1, <3>3 DEF ExactOK
    <3> QED
      BY <3>2, <3>4 DEF ExactOK, UpTo
  <2> QED
    BY <2>2, <2>6, <2>7, <2>8 DEF Local
<1>11. CASE CountIndex(r) /\ resumed # "early"
  <2>0. req[r].at \in Indexes /\ req[r] \in Req /\ Indexes \subseteq Int
    BY <1>11, IndexFacts DEF CountIndex, Placed, ReqTyped
  <2>1. /\ req[r].pc = "count" /\ req'[r].pc \in {"copy", "after"}
        /\ req'[r].before = req[r].before /\ req'[r].at = req[r].at + 1 /\ req'[r].copy = req[r].copy
        /\ req'[r].docs = [req[r].docs EXCEPT ![req[r].at] = Cardinality(data[req[r].at])]
    BY <1>11, <2>0, CountEffect
  <2>2. CopyOK(r) /\ UNCHANGED consVars /\ resumed' = resumed /\ Copying(r) /\ Copying(r)' /\ failures' = failures
    BY <1>11, <2>1 DEF Local, CountIndex, auxVars, Copying, CopySteps
  <2>3. \A x \in Indexes :
            req'[r].docs[x] = IF x = req[r].at THEN Cardinality(data[x]) ELSE req[r].docs[x]
    BY <2>0, <2>1 DEF Req
  <2>4. \A x \in Indexes : /\ Taken(r, x)' <=> Taken(r, x)
                           /\ x < req'[r].at => x = req[r].at \/ x < req[r].at
    <3>1. ASSUME NEW n \in Int, NEW x \in Int PROVE x < n + 1 <=> (x = n \/ x < n)
      OBVIOUS
    <3>2. \A x \in Indexes : x < req'[r].at <=> (x = req[r].at \/ x < req[r].at)
      BY <2>0, <2>1, <3>1, Zenon
    <3> QED
      BY <2>1, <3>2 DEF Taken
  <2>5. CopyOK(r)' /\ ParkOK(r)'
    BY <2>1, <2>2, <2>4 DEF CopyOK, ParkOK, Settling, consVars, UpTo
  <2>6. StillOK(r) => StillOK(r)'
    BY <2>1, <2>2 DEF StillOK, Pending, consVars
  <2>7. ASSUME resumed = "no", failures = 0 PROVE ExactOK(r)'
    <3>1. ExactOK(r) /\ \A x \in Indexes : data[x] = UpTo(x, req[r].before)
      BY <2>2, <2>7, ExactData DEF Local
    <3>2. Taken(r, req[r].at)
      BY <2>1 DEF Taken
    <3>3. \A x \in Indexes : Taken(r, x)' => req'[r].copy[x] = UpTo(x, req'[r].before)
      BY <2>1, <2>2, <2>4, <3>1 DEF ExactOK
    <3>4. \A x \in Indexes : x < req'[r].at => req'[r].docs[x] = Cardinality(req'[r].copy[x])
      BY <2>0, <2>1, <2>2, <2>3, <2>4, <3>1, <3>2 DEF ExactOK
    <3> QED
      BY <3>3, <3>4 DEF ExactOK, UpTo
  <2> QED
    BY <2>2, <2>5, <2>6, <2>7 DEF Local
<1>12. CASE AfterPending(r) /\ resumed # "early"
  <2>1. CASE req'[r].pc = "respond"
    BY <1>1, <2>1
  <2>2. CASE req'[r].pc # "respond"
    <3>1. Go(r, "after", "compare") /\ ~Pending
      BY <1>2, <1>12, <2>2 DEF AfterPending, Steps
    <3>2. /\ req[r].pc = "after" /\ req'[r].pc = "compare"
          /\ req'[r].before = req[r].before /\ req'[r].at = req[r].at
          /\ req'[r].copy = req[r].copy /\ req'[r].docs = req[r].docs
      BY <3>1, GoEffect DEF Steps, CopySteps
    <3>3. CopyOK(r) /\ UNCHANGED consVars /\ resumed' = resumed /\ Copying(r) /\ failures' = failures
      BY <1>12, <3>2 DEF Local, AfterPending, auxVars, Copying, CopySteps
    <3>4. CopyOK(r)' /\ ParkOK(r)'
      BY <3>2, <3>3 DEF CopyOK, ParkOK, Settling, consVars, UpTo, Taken
    <3>5. StillOK(r) => StillOK(r)'
      BY <3>2, <3>3 DEF StillOK, Pending, consVars
    <3>6. ExactOK(r) => ExactOK(r)'
      BY <3>2, <3>3 DEF ExactOK, Taken, UpTo
    <3> QED
      BY <3>3, <3>4, <3>5, <3>6 DEF Local
  <2> QED
    BY <2>1, <2>2
<1>13. CASE resumed = "early" /\ resumed' = resumed
  BY <1>13 DEF Local
<1>14. BeforeOffset(r) \/ CopyIndex(r) \/ CountIndex(r) \/ AfterPending(r) => resumed' = resumed
  BY DEF BeforeOffset, CopyIndex, CountIndex, AfterPending, auxVars
<1> QED
  BY <1>3, <1>4, <1>6, <1>7, <1>8, <1>9, <1>10, <1>11, <1>12, <1>13, <1>14 DEF Request

\* What a request relies on survives every step.
LEMMA LocalStep == ASSUME Typed, DocsInv, LocalInv, [Next]_vars PROVE LocalInv'
<1>0. ASSUME NEW s \in Requests PROVE Local(s)
  BY DEF LocalInv
<1>1. CASE Consumer
  BY <1>1, LocalConsumer
<1>2. CASE Operator
  <2> SUFFICES ASSUME NEW s \in Requests PROVE Local(s)'
    BY DEF LocalInv
  <2>1. CASE Resume({})
    BY <1>0, <1>2, <2>1, LocalResume DEF Operator, Typed
  <2>2. CASE paused' = TRUE /\ UNCHANGED <<cpc, wal, data, offset, resumed>>
    BY <1>0, <1>2, <2>2, LocalFrame DEF Operator
  <2> QED
    BY <1>2, <2>1, <2>2 DEF Operator
<1>3. CASE Restart \/ Lose
  <2> SUFFICES ASSUME NEW s \in Requests PROVE Local(s)'
    BY DEF LocalInv
  <2>1. req'[s].pc \in {"new", "done"}
    BY <1>3, RestartEffect DEF Typed
  <2> QED
    BY <2>1 DEF Local, ParkOK, CopyOK, StillOK, ExactOK, Settling, Copying, CopySteps
<1>4. CASE Recover
  <2>1. failures' = 0 => failures = 0
    BY <1>4, FaultCounts DEF Recover, StartRestore, RestoreFails, RestoreCrashes, Wipe, MoveIndex, LoadKey, Typed
  <2>2. UNCHANGED <<consVars, req, auxVars>>
    BY <1>4 DEF Recover
  <2> QED
    BY <1>0, <2>1, <2>2, LocalFrame DEF LocalInv, consVars, auxVars
<1>5. ASSUME NEW r \in Requests, Request(r) \/ NewRequest(r) PROVE LocalInv'
  <2> SUFFICES ASSUME NEW s \in Requests \ {r} PROVE Local(s)'
    BY <1>0, <1>5, LocalOwn DEF LocalInv
  <2>1. Request(r) => req'[s] = req[s]
    <3>1. CopyIndex(r) \/ CountIndex(r) => req[r].at \in Indexes
      BY DEF CopyIndex, CountIndex, Typed, Placed
    <3>2. \A from, to : Go(r, from, to) => req'[s] = req[s]
      BY DEF Go, Typed, ReqTyped
    <3> QED
      BY <3>1, <3>2, BeforeOffsetEffect, CopyEffect, CountEffect, RespondEffect DEF Typed, Request, Pause, Parked, Drained,
         Create, AfterPending, Compare, TimesOut, RequestFails
  <2>2. NewRequest(r) => req'[s] = req[s]
    BY ReadPausedEffect DEF NewRequest, Typed, ConsTyped
  <2>3. CASE Respond(r) /\ ~req[r].was
    <3>1. Resume({r}) /\ failures' = failures
      BY <2>3 DEF Respond
    <3> QED
      BY <1>0, <1>5, <2>1, <2>2, <3>1, LocalResume DEF Typed
  <2>4. CASE ~(Respond(r) /\ ~req[r].was)
    <3>1. failures' = 0 => failures = 0
      BY <1>5, FaultCounts DEF Typed, Request, NewRequest, ReadPaused, Pause, Parked, Drained, Create, BeforeOffset,
         CopyIndex, CountIndex, AfterPending, Compare, TimesOut, RequestFails, Respond
    <3>2. (paused => paused') /\ UNCHANGED <<cpc, wal, data, offset, resumed>>
      BY <1>5, <2>4 DEF Request, NewRequest, ReadPaused, Pause, Parked, Drained, Create, BeforeOffset, CopyIndex,
         CountIndex, AfterPending, Compare, TimesOut, RequestFails, Respond, consVars, auxVars
    <3> QED
      BY <1>0, <1>5, <2>1, <2>2, <3>1, <3>2, LocalFrame
  <2> QED
    BY <2>3, <2>4
<1>6. CASE UNCHANGED vars
  BY <1>0, <1>6, LocalFrame DEF LocalInv, vars, consVars, auxVars
<1> QED
  BY <1>1, <1>2, <1>3, <1>4, <1>5, <1>6 DEF Next

(***************************************************************************)
(* The archive                                                             *)
(***************************************************************************)
ArchiveInv == ArchiveNotBehind /\ ArchiveIsStreamState

\* What is recorded of resumes and failures is never taken back.
LEMMA MarksStay ==
    ASSUME Typed, [Next]_vars
    PROVE  /\ resumed' # "early" => resumed # "early"
           /\ resumed' = "no" => resumed = "no"
           /\ failures' = 0 => failures = 0
<1> USE DEF Typed
<1>1. /\ resumed' # "early" => resumed # "early"
      /\ resumed' = "no" => resumed = "no"
  <2>1. CASE \E by : Resume(by)
    BY <2>1, ResumeTyped
  <2>2. CASE resumed' = resumed
    BY <2>2
  <2> QED
    BY <2>1, <2>2 DEF Next, Consumer, Operator, Restart, Lose, Recover, Request, NewRequest, ReadPaused, Pause,
       Parked, Drained, Create, BeforeOffset, CopyIndex, CountIndex, AfterPending, Compare, TimesOut, RequestFails,
       Respond, vars, auxVars
<1>2. failures' = 0 => failures = 0
  BY FaultCounts DEF Next, Consumer, Operator, Restart, Lose, Recover, StartRestore, RestoreFails, RestoreCrashes, Wipe,
     MoveIndex, LoadKey, Request, NewRequest, ReadPaused, Pause, Parked, Drained, Create, BeforeOffset, CopyIndex,
     CountIndex, AfterPending, Compare, TimesOut, RequestFails, Respond, vars
<1> QED
  BY <1>1, <1>2

\* A request that replaces the archive keeps what is promised of it.
LEMMA ArchiveInvStep == ASSUME Typed, LocalInv, ArchiveInv, [Next]_vars PROVE ArchiveInv'
<1>1. CASE archive' = archive
  BY <1>1, MarksStay DEF ArchiveInv, ArchiveNotBehind, ArchiveIsStreamState, Covers
<1>2. ASSUME NEW r \in Requests, Compare(r), archive' # archive PROVE ArchiveInv'
  <2>1. /\ archive' = [offset |-> offset, copy |-> req[r].copy, docs |-> req[r].docs]
        /\ offset = req[r].before /\ resumed' = resumed /\ failures' = failures
    BY <1>2 DEF Compare, auxVars
  <2>2. Copying(r) /\ \A x \in Indexes : x < req[r].at /\ Taken(r, x)
    BY <1>2 DEF Compare, Go, Copying, CopySteps, Typed, Placed, Taken
  <2>3. resumed # "early" => \A x \in Indexes : UpTo(x, offset) \subseteq req[r].copy[x]
    BY <2>1, <2>2 DEF LocalInv, Local, CopyOK
  <2>4. resumed = "no" /\ failures = 0 =>
            \A x \in Indexes : /\ req[r].copy[x] = UpTo(x, offset)
                               /\ req[r].docs[x] = Cardinality(req[r].copy[x])
    BY <2>1, <2>2 DEF LocalInv, Local, ExactOK
  <2>5. ArchiveNotBehind'
    BY <2>1, <2>3 DEF ArchiveNotBehind, Covers, UpTo
  <2>6. ArchiveIsStreamState'
    BY <2>1, <2>4 DEF ArchiveIsStreamState, UpTo
  <2> QED
    BY <2>5, <2>6 DEF ArchiveInv
<1> QED
  BY <1>1, <1>2 DEF Next, Consumer, Operator, Restart, Lose, Recover, Request, NewRequest, ReadPaused, Pause, Parked,
     Drained, Create, BeforeOffset, CopyIndex, CountIndex, AfterPending, TimesOut, RequestFails, Respond, vars

(***************************************************************************)
(* The consumer is left as it was found                                    *)
(***************************************************************************)
NoneActive == \A r \in Requests : ~Active(r)

PauseInv ==
    ~overlap =>
        /\ \A r, s \in Requests : Active(r) /\ Active(s) => r = s
        /\ held = "before" => (paused /\ \A r \in Requests : Active(r) => req[r].was)
        /\ held = "no" => \A r \in Requests : Active(r) => (~req[r].was \/ (~paused /\ req[r].pc # "pause"))
        /\ held = "no" /\ NoneActive => ~paused

\* Who paused the consumer is known as long as requests do not overlap.
LEMMA PauseStep == ASSUME Typed, PauseInv, [Next]_vars PROVE PauseInv'
<1> USE DEF Typed, NoneActive
<1>1. CASE UNCHANGED <<paused, req, held, overlap>>
  BY <1>1 DEF PauseInv, Active
<1>2. CASE Consumer \/ Recover \/ UNCHANGED vars
  BY <1>1, <1>2, ConsumerKeeps DEF Consumer, Recover, vars, consVars, auxVars
<1>3. CASE Operator
  <2>1. UNCHANGED <<req, overlap>>
    BY <1>3 DEF Operator
  <2>2. CASE paused' = TRUE /\ held' = IF \E r \in Requests : Active(r) THEN "during" ELSE "before"
    BY <2>1, <2>2 DEF PauseInv, Active
  <2>3. CASE Resume({}) /\ held' = IF \E r \in Requests : req[r].pc = "pause" THEN "raced" ELSE "no"
    <3>1. paused' = FALSE
      BY <2>3 DEF Resume
    <3> QED
      BY <2>1, <2>3, <3>1 DEF PauseInv, Active
  <2> QED
    BY <1>3, <2>2, <2>3 DEF Operator
<1>4. CASE Restart \/ Lose
  <2>1. \A r \in Requests : ~Active(r)'
    BY <1>4, RestartEffect DEF Active
  <2>2. ~paused' /\ held' = "no"
    BY <1>4 DEF Restart, Lose
  <2> QED
    BY <2>1, <2>2 DEF PauseInv, Active
<1>5. ASSUME NEW r \in Requests, NewRequest(r) PROVE PauseInv'
  <2>1. /\ ReadPaused(r) /\ UNCHANGED <<paused, held>>
        /\ ~overlap' => ~overlap /\ NoneActive
    BY <1>5 DEF NewRequest, ReadPaused, consVars
  <2>2. /\ req[r].pc = "new" /\ req'[r].pc = "pause"
        /\ req'[r].was = paused
        /\ \A s \in Requests \ {r} : req'[s] = req[s]
    BY <2>1, ReadPausedEffect DEF ConsTyped
  <2> QED
    BY <2>1, <2>2 DEF PauseInv, Active
<1>6. ASSUME NEW r \in Requests, Request(r) PROVE PauseInv'
  <2>1. UNCHANGED <<held, overlap>>
    BY <1>6 DEF Request, Pause, Parked, Drained, Create, BeforeOffset, CopyIndex, CountIndex, AfterPending, Compare,
       TimesOut, RequestFails, Respond, auxVars
  <2>2. CASE Respond(r)
    <3>1. /\ req[r].pc = "respond" /\ req'[r].pc = "done"
          /\ \A s \in Requests \ {r} : req'[s] = req[s]
      BY <2>2, RespondEffect
    <3>2. IF req[r].was THEN paused' = paused ELSE paused' = FALSE
      BY <2>2 DEF Respond, Resume, consVars
    <3> QED
      BY <2>1, <3>1, <3>2 DEF PauseInv, Active
  <2>3. ASSUME NEW from, NEW to \in Steps, Go(r, from, to)
        PROVE  /\ req[r].pc = from /\ req'[r].pc = to /\ req'[r].was = req[r].was
               /\ \A s \in Requests \ {r} : req'[s] = req[s]
    BY <2>3, GoEffect
  <2>4. CASE Pause(r)
    <3>1. /\ req[r].pc = "pause" /\ req'[r].pc = "park" /\ req'[r].was = req[r].was
          /\ \A s \in Requests \ {r} : req'[s] = req[s]
      BY <2>3, <2>4 DEF Pause, Steps, Early
    <3>2. paused' = TRUE
      BY <2>4 DEF Pause
    <3> QED
      BY <2>1, <3>1, <3>2 DEF PauseInv, Active
  <2>5. CASE ~Pause(r) /\ ~Respond(r)
    <3>1. /\ req[r].pc \in Steps \ {"new", "done", "pause"} /\ req'[r].pc \in Steps \ {"new", "done", "pause"}
          /\ req'[r].was = req[r].was /\ \A s \in Requests \ {r} : req'[s] = req[s]
      <4>1. CopyIndex(r) \/ CountIndex(r) => req[r].at \in Indexes
        BY DEF CopyIndex, CountIndex, Placed
      <4>2. CASE BeforeOffset(r) \/ CopyIndex(r) \/ CountIndex(r)
        BY <4>1, <4>2, BeforeOffsetEffect, CopyEffect, CountEffect DEF Steps, CopySteps, Early
      <4>3. CASE RequestFails(r)
        BY <2>3, <4>3 DEF RequestFails, Steps, CopySteps
      <4>4. CASE Parked(r) \/ Drained(r) \/ Create(r) \/ TimesOut(r) \/ AfterPending(r) \/ Compare(r)
        BY <2>3, <4>4 DEF Parked, Drained, Create, TimesOut, AfterPending, Compare, Steps, CopySteps, Early
      <4> QED
        BY <1>6, <2>5, <4>2, <4>3, <4>4 DEF Request
    <3>2. paused' = paused
      BY <1>6, <2>5 DEF Request, Parked, Drained, Create, BeforeOffset, CopyIndex, CountIndex, AfterPending, Compare,
         TimesOut, RequestFails, consVars
    <3> QED
      BY <2>1, <3>1, <3>2 DEF PauseInv, Active
  <2> QED
    BY <2>2, <2>4, <2>5
<1> QED
  BY <1>2, <1>3, <1>4, <1>5, <1>6 DEF Next

(***************************************************************************)
(* The theorems                                                            *)
(***************************************************************************)
IInv == Typed /\ TargetInv /\ DocsInv /\ LocalInv /\ ArchiveInv /\ PauseInv

\* The invariant holds initially.
LEMMA IInvInit == Init => IInv
<1> SUFFICES ASSUME Init PROVE IInv
  OBVIOUS
<1>1. \A r \in Requests : req[r].pc = "new"
  BY DEF Init, NewReq
<1>2. LocalInv /\ PauseInv
  BY <1>1 DEF LocalInv, Local, ParkOK, CopyOK, StillOK, ExactOK, Settling, Copying, CopySteps, PauseInv, Active, Init
<1>3. ArchiveInv
  BY DEF Init, ArchiveInv, ArchiveNotBehind, ArchiveIsStreamState
<1> QED
  BY <1>2, <1>3, TypedInit, DocsInit DEF IInv

\* The invariant is inductive.
LEMMA IInvStep == IInv /\ [Next]_vars => IInv'
BY TypedStep, DocsStep, LocalStep, ArchiveInvStep, PauseStep DEF IInv

\* In every reachable state the inductive invariant holds.
THEOREM InvariantHolds == Spec => []IInv
BY IInvInit, IInvStep, PTL DEF Spec

\* The state keeps its types, and the lock is held exactly by the request that
\* makes an archive, whatever fails or restarts.
THEOREM TypeCorrect == Spec => []TypeOK
<1>1. IInv => TypeOK
  BY DEF IInv, Typed, TargetInv, TypeOK, ConsTyped, LockInv, Copying, CopySteps, TargetTyped, Msgs
<1> QED
  BY <1>1, InvariantHolds, PTL

\* backup.Create: an archive misses nothing up to the position it records,
\* although other requests resume the consumer under the copy, unless the
\* consumer is resumed before the copy begins.
THEOREM NothingMissed == Spec => []ArchiveNotBehind
BY InvariantHolds, PTL DEF IInv, ArchiveInv

\* backup.Create: if nobody resumes the consumer and nothing fails, an archive
\* is exactly a state of the stream, with the right document counts.
THEOREM ArchiveExact == Spec => []ArchiveIsStreamState
BY InvariantHolds, PTL DEF IInv, ArchiveInv

\* The handler Create: requests that do not overlap leave the consumer as an
\* operator had it.
THEOREM PauseRestored == Spec => []PauseAsFound
<1>1. IInv => PauseAsFound
  BY DEF IInv, PauseInv, NoneActive, PauseAsFound
<1> QED
  BY <1>1, InvariantHolds, PTL

\* Restore: a restored node has the index of every document up to its position
\* and, unless the consumer was resumed too early, the document.
THEOREM RestoreComplete == Spec => []RestoredComplete
<1>1. IInv => RestoredComplete
  <2> SUFFICES ASSUME IInv, target.pc = "restored", NEW m \in 1 .. MaxMsgs, ~(m > archive.offset)
               PROVE  /\ IndexOf(m) \in target.dirs \cap target.keys
                      /\ resumed # "early" => m \in archive.copy[IndexOf(m)]
    BY DEF RestoredComplete
  <2>1. IndexOf(m) \in Indexes
    BY NodeBackupAssumption
  <2>2. IndexOf(m) \in target.dirs \cap target.keys
    BY <2>1 DEF IInv, TargetInv, Keys
  <2>3. archive.offset \in Int /\ m \in Int /\ m >= 1
    BY DEF IInv, Typed, ArchiveTyped
  <2>4. archive # NoArchive
    BY <2>3 DEF NoArchive
  <2>5. resumed # "early" => m \in archive.copy[IndexOf(m)]
    BY <2>1, <2>3, <2>4 DEF IInv, ArchiveInv, ArchiveNotBehind, Covers, Messages
  <2> QED
    BY <2>2, <2>5
<1> QED
  BY <1>1, InvariantHolds, PTL
=============================================================================
