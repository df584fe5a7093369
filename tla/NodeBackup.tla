----------------------------- MODULE NodeBackup -----------------------------
(***************************************************************************)
(* Backing up a node that consumes the stream, and restoring the archive   *)
(* into an empty one (pkg/handlers/backup, pkg/backup, pkg/core/backup.go, *)
(* pkg/streaming/service.go).                                              *)
(*                                                                         *)
(* A backup request pauses the consumer, waits until it is parked and the  *)
(* WALs are drained, copies index after index and compares the node before *)
(* and after.  Requests overlap, a promotion by the coordinator and an     *)
(* operator resume the consumer at any moment, and every wait may time out.*)
(*                                                                         *)
(* The consumer is the one of StreamConsumer with one message per batch:   *)
(* message m goes to one index; its document is the number m.  The files   *)
(* of the archive are left out: an archive is what its copies hold.  An    *)
(* operator with an underscore in its name is a faulty variant of the one  *)
(* that follows it.                                                        *)
(***************************************************************************)
EXTENDS Integers, FiniteSets

CONSTANTS
    Indexes,       \* index names, 1 .. N in the order they are copied
    IndexOf(_),    \* the index a message goes to
    Requests,      \* backup requests, each made once
    MaxMsgs,       \* bound: messages in the stream
    MaxFailures,   \* bound: failing steps and crashes
    MaxEvents      \* bound: failures, and pauses, resumes and promotions by others

ASSUME NodeBackupAssumption ==
    /\ IsFiniteSet(Indexes) /\ Indexes # {} /\ Indexes = 1 .. Cardinality(Indexes)
    /\ {MaxMsgs, MaxFailures, MaxEvents} \subseteq Nat
    /\ \A m \in 1 .. MaxMsgs : IndexOf(m) \in Indexes

VARIABLES
    paused,     \* c.paused
    cpc,        \* where the consumer goroutine is
    wal,        \* documents of each index that are accepted and not applied
    data,       \* documents of each index that are applied
    offset,     \* the saved stream position
    req,        \* the backup requests
    lock,       \* createMu: the request that holds it, if any
    archive,    \* the archive made last
    node,       \* "up", or "lost" for good
    target,     \* the node the archive is restored into
    operator, failures,
    held,       \* whether an operator paused the consumer and did not resume it:
                \* "no", "before" a request began or "during" one; or "raced",
                \* if he resumed it after a request's look and before its pause
    overlap,    \* two requests were under way at the same time
    resumed     \* whether someone else resumed the consumer during a request:
                \* "no", "copying", or "early" if the request did not copy yet

consVars  == <<paused, cpc, wal, data, offset>>
auxVars   == <<held, overlap, resumed>>
vars == <<consVars, req, lock, archive, node, target, operator, failures, auxVars>>

NoArchive == [offset |-> -1, copy |-> [x \in Indexes |-> {}], docs |-> [x \in Indexes |-> 0]]
NewReq == [pc |-> "new", was |-> FALSE, before |-> 0, at |-> 1,
           copy |-> [x \in Indexes |-> {}], docs |-> [x \in Indexes |-> 0]]
Active(r)   == req[r].pc \notin {"new", "done"}
Settling(r) == req[r].pc \in {"park", "drain", "create", "offset"}
Messages(x) == {m \in 1 .. MaxMsgs : IndexOf(m) = x}
Pending == \E x \in Indexes : wal[x] # {}
OffsetKey == 0
Keys == Indexes \cup {OffsetKey}   \* the metadata: every index, the position

Init ==
    /\ paused = FALSE /\ cpc = "top"
    /\ wal = [x \in Indexes |-> {}] /\ data = [x \in Indexes |-> {}] /\ offset = 0
    /\ req = [r \in Requests |-> NewReq] /\ lock = {} /\ archive = NoArchive
    /\ node = "up" /\ target = [pc |-> "empty", dirs |-> {}, keys |-> {}]
    /\ operator = 0 /\ failures = 0
    /\ held = "no" /\ overlap = FALSE /\ resumed = "no"

Fault ==
    /\ failures < MaxFailures /\ operator + failures < MaxEvents
    /\ failures' = failures + 1

-----------------------------------------------------------------------------
(* The consumer goroutine and the goroutine that applies the WALs.         *)

\* parkIfPaused, between two batches
Top ==
    /\ cpc = "top"
    /\ cpc' = IF paused THEN "parked" ELSE "step"
    /\ UNCHANGED <<paused, wal, data, offset>>

Unpark == cpc = "parked" /\ ~paused /\ cpc' = "step" /\ UNCHANGED <<paused, wal, data, offset>>

\* step: the next message is written to the WAL of its index, or there is none
Apply ==
    LET m == offset + 1 IN
    /\ cpc = "step"
    /\ IF m > MaxMsgs THEN cpc' = "top" /\ UNCHANGED wal
       ELSE cpc' = "save" /\ wal' = [wal EXCEPT ![IndexOf(m)] = @ \cup {m}]
    /\ UNCHANGED <<paused, data, offset>>

\* flushed; the position is saved
SaveOffset == cpc = "save" /\ offset' = offset + 1 /\ cpc' = "top" /\ UNCHANGED <<paused, wal, data>>

ConsumeWAL(x) ==
    /\ wal[x] # {}
    /\ data' = [data EXCEPT ![x] = @ \cup wal[x]]
    /\ wal' = [wal EXCEPT ![x] = {}]
    /\ UNCHANGED <<paused, cpc, offset>>

Consumer ==
    /\ node = "up"
    /\ Top \/ Unpark \/ Apply \/ SaveOffset \/ \E x \in Indexes : ConsumeWAL(x)
    /\ UNCHANGED <<req, lock, archive, node, target, operator, failures, auxVars>>

-----------------------------------------------------------------------------
(* Pause and resume by someone who makes no backup.                        *)

Resume(by) ==
    /\ paused' = FALSE
    /\ resumed' = CASE \E r \in Requests \ by : Settling(r)         -> "early"
                    [] \A r \in Requests \ by : ~Active(r)         -> resumed
                    [] OTHER -> IF resumed = "no" THEN "copying" ELSE resumed
    /\ UNCHANGED <<cpc, wal, data, offset>>

\* POST /api/stream/pause and resume; promote resumes a node that is paused.
Operator ==
    /\ node = "up"
    /\ operator + failures < MaxEvents /\ operator' = operator + 1
    /\ \/ /\ paused' = TRUE
          /\ held' = IF \E r \in Requests : Active(r) THEN "during" ELSE "before"
          /\ UNCHANGED <<cpc, wal, data, offset, resumed>>
       \/ /\ paused /\ Resume({})
          /\ held' = IF \E r \in Requests : req[r].pc = "pause" THEN "raced" ELSE "no"
    /\ UNCHANGED <<req, lock, archive, node, target, failures, overlap>>

-----------------------------------------------------------------------------
(* The handler Create, and backup.Create.                                  *)

\* Request r, which is at `from`, goes on at `to`.
Go(r, from, to) == req[r].pc = from /\ req' = [req EXCEPT ![r].pc = to]

\* wasPaused := cons.Status().Paused
ReadPaused(r) ==
    /\ req[r].pc = "new"
    /\ req' = [req EXCEPT ![r].pc = "pause", ![r].was = paused]
    /\ overlap' = (overlap \/ \E s \in Requests : Active(s))
    /\ UNCHANGED <<consVars, lock, archive, failures, held, resumed>>

\* Pause sets the flag and waits until the goroutine is parked.
Pause(r) ==
    /\ Go(r, "pause", "park")
    /\ paused' = TRUE
    /\ UNCHANGED <<cpc, wal, data, offset, lock, archive, failures, auxVars>>

Parked_early(r) ==
    /\ Go(r, "park", "drain")
    /\ UNCHANGED <<consVars, lock, archive, failures, auxVars>>

Parked(r) ==
    /\ cpc = "parked"
    /\ Go(r, "park", "drain")
    /\ UNCHANGED <<consVars, lock, archive, failures, auxVars>>

Drained(r) ==
    /\ ~Pending
    /\ Go(r, "drain", "create")
    /\ UNCHANGED <<consVars, lock, archive, failures, auxVars>>

\* createMu.TryLock, and the first read of currentState
Create(r) ==
    /\ \/ lock # {} /\ Go(r, "create", "respond") /\ UNCHANGED lock
       \/ /\ lock = {}
          /\ \/ Pending /\ Go(r, "create", "respond") /\ UNCHANGED lock
             \/ ~Pending /\ Go(r, "create", "offset") /\ lock' = {r}
    /\ UNCHANGED <<consVars, archive, failures, auxVars>>

\* its second read
BeforeOffset(r) ==
    /\ req[r].pc = "offset"
    /\ req' = [req EXCEPT ![r].pc = "copy", ![r].before = offset]
    /\ UNCHANGED <<consVars, lock, archive, failures, auxVars>>

\* BackupShards of the next index, and then its DocCount
CopyIndex(r) ==
    LET x == req[r].at IN
    /\ req[r].pc = "copy"
    /\ req' = [req EXCEPT ![r].pc = "count", ![r].copy[x] = data[x]]
    /\ UNCHANGED <<consVars, lock, archive, failures, auxVars>>

CountIndex(r) ==
    LET x == req[r].at IN
    /\ req[r].pc = "count"
    /\ req' = [req EXCEPT ![r].pc = IF x + 1 \in Indexes THEN "copy" ELSE "after",
                          ![r].at = x + 1, ![r].docs[x] = Cardinality(data[x])]
    /\ UNCHANGED <<consVars, lock, archive, failures, auxVars>>

\* currentState again: the WALs, then the position, then the archive.  The
\* position never goes back, so the metadata dumped before holds the same one.
AfterPending(r) ==
    /\ IF Pending THEN Go(r, "after", "respond") /\ lock' = {}
       ELSE Go(r, "after", "compare") /\ UNCHANGED lock
    /\ UNCHANGED <<consVars, archive, failures, auxVars>>

Compare_skips(r) ==
    /\ Go(r, "compare", "respond") /\ lock' = {}
    /\ archive' = [offset |-> offset, copy |-> req[r].copy, docs |-> req[r].docs]
    /\ UNCHANGED <<consVars, failures, auxVars>>

Compare(r) ==
    /\ Go(r, "compare", "respond") /\ lock' = {}
    /\ archive' = IF offset # req[r].before THEN archive
                  ELSE [offset |-> offset, copy |-> req[r].copy, docs |-> req[r].docs]
    /\ UNCHANGED <<consVars, failures, auxVars>>

\* The wait for the consumer or for the WALs ends with the request's timeout.
TimesOut(r) ==
    /\ Go(r, "park", "respond") \/ Go(r, "drain", "respond")
    /\ UNCHANGED <<consVars, lock, archive, failures, auxVars>>

RequestFails_locked(r) ==
    /\ req[r].pc \in {"copy", "count", "after", "compare"}
    /\ Fault
    /\ Go(r, req[r].pc, "respond")
    /\ UNCHANGED <<consVars, lock, archive, auxVars>>

RequestFails_returns(r) ==
    /\ req[r].pc \in {"copy", "count", "after", "compare"}
    /\ Fault
    /\ Go(r, req[r].pc, "done")
    /\ lock' = lock \ {r}
    /\ UNCHANGED <<consVars, archive, auxVars>>

\* A step of the copy fails.
RequestFails(r) ==
    /\ req[r].pc \in {"copy", "count", "after", "compare"}
    /\ Fault
    /\ Go(r, req[r].pc, "respond")
    /\ lock' = lock \ {r}
    /\ UNCHANGED <<consVars, archive, auxVars>>

\* The deferred Resume, unless the consumer was paused before this request.
Respond(r) ==
    /\ req[r].pc = "respond"
    /\ req' = [req EXCEPT ![r] = [NewReq EXCEPT !.pc = "done"]]
    /\ IF req[r].was THEN UNCHANGED <<consVars, resumed>> ELSE Resume({r})
    /\ UNCHANGED <<lock, archive, failures, held, overlap>>

Request(r) ==
    /\ node = "up"
    /\ \/ Pause(r) \/ Parked(r) \/ Drained(r) \/ Create(r) \/ BeforeOffset(r) \/ CopyIndex(r)
       \/ CountIndex(r) \/ AfterPending(r) \/ Compare(r) \/ TimesOut(r) \/ RequestFails(r) \/ Respond(r)
    /\ UNCHANGED <<node, target, operator>>

NewRequest(r) == node = "up" /\ ReadPaused(r) /\ UNCHANGED <<node, target, operator>>

\* The process dies and starts again: WALs, indexes, saved position and
\* archives are on disk, everything else is new.
Restart ==
    /\ node = "up" /\ Fault
    /\ paused' = FALSE /\ cpc' = "top" /\ lock' = {} /\ held' = "no"
    /\ req' = [r \in Requests |-> IF Active(r) THEN [NewReq EXCEPT !.pc = "done"] ELSE req[r]]
    /\ UNCHANGED <<wal, data, offset, archive, node, target, operator, overlap, resumed>>

-----------------------------------------------------------------------------
(* Restore into a new node, with the commands an operator has.             *)

\* The machine is gone with all it held; the archive was fetched before.
Lose ==
    /\ node = "up" /\ archive # NoArchive
    /\ node' = "lost"
    /\ paused' = FALSE /\ cpc' = "top" /\ offset' = 0 /\ lock' = {} /\ held' = "no"
    /\ wal' = [x \in Indexes |-> {}] /\ data' = [x \in Indexes |-> {}]
    /\ req' = [r \in Requests |-> [NewReq EXCEPT !.pc = "done"]]
    /\ UNCHANGED <<archive, target, operator, failures, overlap, resumed>>

\* checkEmpty refuses a data directory that holds an index.
StartRestore ==
    /\ target.pc = "empty" /\ target.dirs = {}
    /\ target' = [target EXCEPT !.pc = "move"]
    /\ UNCHANGED failures

MoveIndex(x) ==
    /\ target.pc = "move" /\ x \notin target.dirs
    /\ target' = [target EXCEPT !.dirs = @ \cup {x},
                                !.pc = IF target.dirs \cup {x} = Indexes THEN "load" ELSE @]
    /\ UNCHANGED failures

LoadKey_partial(k) ==
    /\ target.pc = "load" /\ k \notin target.keys
    /\ target' = [target EXCEPT !.keys = @ \cup {k},
                                !.pc = IF k = OffsetKey THEN "restored" ELSE @]
    /\ UNCHANGED failures

\* metadata.Load writes key by key, in map order.
LoadKey(k) ==
    /\ target.pc = "load" /\ k \notin target.keys
    /\ target' = [target EXCEPT !.keys = @ \cup {k},
                                !.pc = IF target.keys \cup {k} = Keys THEN "restored" ELSE @]
    /\ UNCHANGED failures

\* A failing step removes the directories moved so far.
RestoreFails ==
    /\ target.pc \in {"move", "load"} /\ Fault
    /\ target' = [target EXCEPT !.pc = "empty", !.dirs = {}]

\* A crash removes nothing; only an emptied data directory can be used again.
RestoreCrashes ==
    /\ target.pc \in {"move", "load"} /\ Fault
    /\ target' = [target EXCEPT !.pc = "empty"]

Wipe ==
    /\ target.pc = "empty" /\ target.dirs # {}
    /\ target' = [target EXCEPT !.dirs = {}, !.keys = {}]
    /\ UNCHANGED failures

Recover ==
    /\ node = "lost"
    /\ \/ StartRestore \/ RestoreFails \/ RestoreCrashes \/ Wipe
       \/ \E x \in Indexes : MoveIndex(x)
       \/ \E k \in Keys : LoadKey(k)
    /\ UNCHANGED <<consVars, req, lock, archive, node, operator, auxVars>>

-----------------------------------------------------------------------------
Next ==
    \/ Consumer \/ Operator \/ Restart \/ Lose \/ Recover
    \/ \E r \in Requests : Request(r) \/ NewRequest(r)

Spec == Init /\ [][Next]_vars

-----------------------------------------------------------------------------
(* Properties.                                                             *)

\* The state is what the consumer, the handler and backup.Create keep; the
\* lock is held by a request that is copying.
TypeOK ==
    /\ paused \in BOOLEAN /\ cpc \in {"top", "step", "save", "parked"}
    /\ wal \in [Indexes -> SUBSET (1 .. MaxMsgs)] /\ data \in [Indexes -> SUBSET (1 .. MaxMsgs)]
    /\ offset \in 0 .. MaxMsgs
    /\ \A r \in Requests :
        (lock = {r}) <=> req[r].pc \in {"offset", "copy", "count", "after", "compare"}
    /\ target.dirs \subseteq Indexes /\ target.keys \subseteq Keys

\* Index x of the archive holds every message up to its position.
Covers(x) == {m \in Messages(x) : m <= archive.offset} \subseteq archive.copy[x]

\* An archive misses nothing up to the position it claims, although requests
\* overlap, time out and resume the consumer under each other's copy: a node
\* restored from it continues after that position and would never see a
\* missing message again.  Unless the consumer is resumed before the copy, see
\* below.
ArchiveNotBehind == archive # NoArchive /\ resumed # "early" => \A x \in Indexes : Covers(x)

\* What the comment of backup.Create promises of every archive.  It does not
\* hold: a consumer that is resumed between the two reads of currentState applies
\* a message and saves its position before the copy, and the WAL is not drained.
ArchiveNeverBehind == archive # NoArchive => \A x \in Indexes : Covers(x)

\* With nobody resuming the consumer during a request and no crash, an archive
\* is a state the stream passed through, and its document counts are the ones
\* VerifyDeep will find.
ArchiveIsStreamState ==
    archive # NoArchive /\ resumed = "no" /\ failures = 0 =>
        \A x \in Indexes : /\ archive.copy[x] = {m \in Messages(x) : m <= archive.offset}
                           /\ archive.docs[x] = Cardinality(archive.copy[x])

\* Backups leave the consumer as they found it, however they end: paused all the
\* time if an operator had paused it, else running once no request is under way.
\* Unless he resumes it between wasPaused and the pause: that resume is undone.
PauseAsFound ==
    ~overlap => /\ held = "before" => paused
                /\ held = "no" /\ (\A r \in Requests : ~Active(r)) => ~paused

\* A node that was restored, after any number of failed and crashed attempts,
\* has an index for every document up to its position.
RestoredComplete ==
    target.pc = "restored" =>
        \A m \in 1 .. MaxMsgs : \/ m > archive.offset
                                \/ /\ IndexOf(m) \in target.dirs \cap target.keys
                                   /\ resumed # "early" => m \in archive.copy[IndexOf(m)]
=============================================================================
