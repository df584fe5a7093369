--------------------------- MODULE ShardLifecycle ---------------------------
(***************************************************************************)
(* How the shards of an index are opened, consumed, closed and deleted.    *)
(*                                                                         *)
(* Requests open the WAL of a shard when they need it (OpenWAL, in         *)
(* pkg/core/index_shards_wal.go), which puts the shard into the list of    *)
(* WALs to consume (pkg/core/index_shards_wallist.go).  One goroutine      *)
(* walks over that list on every tick.  A refresh closes every shard of    *)
(* the index (index.go, Reopen and Close) and so does a deletion           *)
(* (deleteindex.go), which holds the lock of the index list meanwhile.     *)
(* IndexShard.Close hands over to the tick through an unbuffered channel   *)
(* that every OpenWAL makes anew.                                          *)
(*                                                                         *)
(* One index; what a consumed entry does to the documents is in ShardWAL.  *)
(* An action is what the code does between two steps that another          *)
(* goroutine can see.  `windows` is history: it records the races and the  *)
(* failures after which the code can no longer keep its promises, so that  *)
(* the properties can say that there are no others.                        *)
(***************************************************************************)
EXTENDS Integers, FiniteSets

CONSTANTS
    Shards,         \* the first-layer shards of the index
    Clients,        \* goroutines that serve requests
    MaxRequests,    \* bound: requests that are served
    MaxEntries,     \* bound: WAL entries appended to a shard
    MaxFaults       \* bound: calls that fail: opening, rolling back, closing

ASSUME ShardsAssumption == Shards # {} /\ IsFiniteSet(Shards)

ASSUME BoundsAssumption ==
    MaxRequests \in Nat /\ MaxEntries \in Nat /\ MaxFaults \in Nat

VARIABLES
    open,       \* IndexShard.open: the flag is 1
    wal,        \* IndexShard.wal is not nil
    chan,       \* IndexShard.close: which channel it is; 0 is the nil channel
    entries,    \* entries of the WAL that are not consumed, on disk
    listed,     \* ZINC_INDEX_SHARD_WAL_LIST: shards that a tick will visit
    tick,       \* the consuming goroutine: where it is and the tick's channels
    gor,        \* the tick's goroutine for each shard
    client,     \* each client's request
    closing,    \* Close of a shard, by the goroutine a client started for it
    cached,     \* the index is in ZINC_INDEX_LIST
    listLock,   \* ZINC_INDEX_LIST.lock: held by a deletion
    stored,     \* the index is in the metadata store
    windows,    \* history: races and failures that took place
    requests, faults    \* counters for the bounds

shardVars == <<open, wal, chan, entries>>
tickVars == <<tick, gor>>
indexVars == <<cached, listLock, stored>>
counters == <<requests, faults>>
vars == <<open, wal, chan, entries, listed, tick, gor, client, closing,
          cached, listLock, stored, windows, requests, faults>>

Idle == [op |-> "none", shard |-> CHOOSE s \in Shards : TRUE, pc |-> "idle"]

NotClosing == [pc |-> "no", chan |-> 0]

Init ==
    /\ open = [s \in Shards |-> FALSE] /\ wal = [s \in Shards |-> FALSE]
    /\ chan = [s \in Shards |-> 0] /\ entries = [s \in Shards |-> 0]
    /\ listed = {}
    /\ tick = [pc |-> "idle", cap |-> 0, closed |-> {}, updated |-> {}]
    /\ gor = [s \in Shards |-> "none"]
    /\ client = [c \in Clients |-> Idle]
    /\ closing = [c \in Clients |-> [s \in Shards |-> NotClosing]]
    /\ cached = TRUE /\ listLock = FALSE /\ stored = TRUE
    /\ windows = {} /\ requests = 0 /\ faults = 0

(***************************************************************************)
(* A request that needs a shard: a document to write, a search, the        *)
(* pending count.  It finds the index, opens the WAL and uses it.          *)
(***************************************************************************)
At(c, pc) == client[c].pc = pc

Goto(c, pc) == client' = [client EXCEPT ![c].pc = pc]

\* GetIndex: waits for the lock of the index list.
Begin(c, op, s, pc) ==
    /\ At(c, "idle") /\ requests < MaxRequests
    /\ cached /\ ~listLock
    /\ client' = [client EXCEPT ![c] = [op |-> op, shard |-> s, pc |-> pc]]
    /\ requests' = requests + 1

Use(c) ==
    \E s \in Shards :
        /\ Begin(c, "use", s, "open")
        /\ UNCHANGED <<shardVars, listed, tickVars, closing, indexVars, windows, faults>>

\* OpenWAL: the flag is read without the lock.
OpenCheck(c) ==
    /\ At(c, "open")
    /\ Goto(c, IF open[client[c].shard] THEN "use" ELSE "openlock")
    /\ UNCHANGED <<shardVars, listed, tickVars, closing, indexVars, windows, counters>>

\* The section under the shard's lock: someone else may have opened the WAL,
\* or Close has cleared the flag and has not closed the WAL yet.
OpenLocked(c) ==
    /\ At(c, "openlock")
    /\ LET s == client[c].shard IN
        IF wal[s] THEN Goto(c, "use") /\ UNCHANGED wal
        ELSE Goto(c, "setopen") /\ wal' = [wal EXCEPT ![s] = TRUE]
    /\ UNCHANGED <<open, chan, entries, listed, tickVars, closing, indexVars, windows, counters>>

\* wal.Open fails, and with it the request.
OpenFails(c) ==
    /\ At(c, "openlock") /\ ~wal[client[c].shard] /\ faults < MaxFaults
    /\ Goto(c, "idle")
    /\ faults' = faults + 1
    /\ UNCHANGED <<shardVars, listed, tickVars, closing, indexVars, windows, requests>>

\* A deletion is past the shard, or over.
PassedByDelete(s) ==
    ~cached \/ \E d \in Clients : client[d].op = "delete" /\ At(d, "closing") /\ closing[d][s].pc = "no"

SetOpen(c) ==
    /\ At(c, "setopen")
    /\ open' = [open EXCEPT ![client[c].shard] = TRUE]
    /\ windows' = IF PassedByDelete(client[c].shard) THEN windows \cup {"opened after delete"}
                  ELSE windows
    /\ Goto(c, "makechan")
    /\ UNCHANGED <<wal, chan, entries, listed, tickVars, closing, indexVars, counters>>

\* A mutant of MakeChan: the shard is put into the list before its rollback.
MakeChan_adds(c) ==
    /\ At(c, "makechan")
    /\ chan' = [chan EXCEPT ![client[c].shard] = @ + 1]
    /\ listed' = listed \cup {client[c].shard}
    /\ Goto(c, "rollback")
    /\ UNCHANGED <<open, wal, entries, tickVars, closing, indexVars, windows, counters>>

MakeChan(c) ==
    /\ At(c, "makechan")
    /\ chan' = [chan EXCEPT ![client[c].shard] = @ + 1]
    /\ Goto(c, "rollback")
    /\ UNCHANGED <<open, wal, entries, listed, tickVars, closing, indexVars, windows, counters>>

\* A mutant of Rollback: OpenWAL returns after the rollback, before Add.
Rollback_returns(c) ==
    /\ At(c, "rollback")
    /\ Goto(c, "use")
    /\ UNCHANGED <<shardVars, listed, tickVars, closing, indexVars, windows, counters>>

Rollback(c) ==
    /\ At(c, "rollback")
    /\ Goto(c, "add")
    /\ UNCHANGED <<shardVars, listed, tickVars, closing, indexVars, windows, counters>>

\* The shard stays open and is not put into the list.
RollbackFails(c) ==
    /\ At(c, "rollback") /\ faults < MaxFaults
    /\ Goto(c, "idle")
    /\ faults' = faults + 1
    /\ windows' = windows \cup {"rollback failed"}
    /\ UNCHANGED <<shardVars, listed, tickVars, closing, indexVars, requests>>

\* A tick that has sized its channels, or that is about to remove the shard by
\* its name, does not know of this Add.
AddWindows(s) ==
    (IF tick.pc = "list" THEN {"added between Len and List"} ELSE {})
        \cup (IF s \in tick.closed THEN {"added before Remove"} ELSE {})

Add(c) ==
    /\ At(c, "add")
    /\ LET s == client[c].shard IN
        /\ listed' = listed \cup {s}
        /\ windows' = windows \cup AddWindows(s)
    /\ Goto(c, "use")
    /\ UNCHANGED <<shardVars, tickVars, closing, indexVars, counters>>

\* wal.Write; the request fails when Close took the WAL away in between.
Append(c) ==
    /\ At(c, "use")
    /\ LET s == client[c].shard IN
        /\ entries[s] < MaxEntries
        /\ entries' = IF wal[s] THEN [entries EXCEPT ![s] = @ + 1] ELSE entries
    /\ client' = [client EXCEPT ![c] = Idle]
    /\ UNCHANGED <<open, wal, chan, listed, tickVars, closing, indexVars, windows, counters>>

\* A search or a count appends nothing.
Look(c) ==
    /\ At(c, "use")
    /\ client' = [client EXCEPT ![c] = Idle]
    /\ UNCHANGED <<shardVars, listed, tickVars, closing, indexVars, windows, counters>>

(***************************************************************************)
(* Refresh and deletion of the index.                                      *)
(***************************************************************************)
AllClose(c) == closing' = [closing EXCEPT ![c] = [s \in Shards |-> [pc |-> "check", chan |-> 0]]]

\* Reopen: Close of every shard, each in a goroutine.
Refresh(c) ==
    /\ Begin(c, "refresh", Idle.shard, "closing")
    /\ AllClose(c)
    /\ UNCHANGED <<shardVars, listed, tickVars, indexVars, windows, faults>>

DeleteIndex(c) ==
    /\ Begin(c, "delete", Idle.shard, "delete")
    /\ UNCHANGED <<shardVars, listed, tickVars, closing, indexVars, windows, faults>>

\* IndexList.Delete takes the lock and closes the index if it is still there.
DeleteLocks(c) ==
    /\ At(c, "delete") /\ ~listLock
    /\ listLock' = TRUE
    /\ IF cached THEN AllClose(c) ELSE UNCHANGED closing
    /\ Goto(c, "closing")
    /\ UNCHANGED <<shardVars, listed, tickVars, cached, stored, windows, counters>>

Waits(c, s) == closing[c][s].pc = "send"

\* A mutant of CloseCheck: no hand-over with the tick.
CloseCheck_nowait(c, s) ==
    /\ closing[c][s].pc = "check"
    /\ closing' = [closing EXCEPT ![c][s].pc = IF open[s] THEN "zero" ELSE "no"]
    /\ UNCHANGED <<shardVars, listed, tickVars, client, indexVars, windows, counters>>

\* A mutant of CloseCheck: no early return for a shard that is not open.
CloseCheck_always(c, s) ==
    /\ closing[c][s].pc = "check"
    /\ closing' = [closing EXCEPT ![c][s] = [pc |-> "send", chan |-> chan[s]]]
    /\ UNCHANGED <<shardVars, listed, tickVars, client, indexVars, windows, counters>>

\* IndexShard.Close up to the send: nothing to do unless the flag is set, or
\* wait on the channel the field holds now.
CloseCheck(c, s) ==
    /\ closing[c][s].pc = "check"
    /\ IF open[s]
       THEN /\ closing' = [closing EXCEPT ![c][s] = [pc |-> "send", chan |-> chan[s]]]
            /\ windows' = windows
                \cup (IF \E d \in Clients : At(d, "makechan") /\ client[d].shard = s
                      THEN {"closed before make"} ELSE {})
                \cup (IF \E d \in Clients \ {c} : closing[d][s].pc \in {"send", "zero"}
                      THEN {"two closes"} ELSE {})
       ELSE closing' = [closing EXCEPT ![c][s] = NotClosing] /\ UNCHANGED windows
    /\ UNCHANGED <<shardVars, listed, tickVars, client, indexVars, counters>>

\* After the tick took the value from the channel.
CloseZero(c, s) ==
    /\ closing[c][s].pc = "zero"
    /\ open' = [open EXCEPT ![s] = FALSE]
    /\ closing' = [closing EXCEPT ![c][s].pc = "lock"]
    /\ UNCHANGED <<wal, chan, entries, listed, tickVars, client, indexVars, windows, counters>>

\* The section under the shard's lock: the index writers and the WAL.
CloseLocked(c, s) ==
    /\ closing[c][s].pc = "lock"
    /\ wal' = [wal EXCEPT ![s] = FALSE]
    /\ closing' = [closing EXCEPT ![c][s] = NotClosing]
    /\ UNCHANGED <<open, chan, entries, listed, tickVars, client, indexVars, windows, counters>>

\* An index writer or the WAL does not close: the flag is cleared and the tick
\* forgets the shard, but the WAL stays, and OpenWAL finds nothing to do.
CloseFails(c, s) ==
    /\ closing[c][s].pc = "lock" /\ faults < MaxFaults
    /\ closing' = [closing EXCEPT ![c][s] = NotClosing]
    /\ faults' = faults + 1
    /\ windows' = windows \cup {"close failed"}
    /\ UNCHANGED <<shardVars, listed, tickVars, client, indexVars, requests>>

AllClosed(c) == \A s \in Shards : closing[c][s].pc = "no"

Refreshed(c) ==
    /\ At(c, "closing") /\ client[c].op = "refresh" /\ AllClosed(c)
    /\ client' = [client EXCEPT ![c] = Idle]
    /\ UNCHANGED <<shardVars, listed, tickVars, closing, indexVars, windows, counters>>

DeleteUnlocks(c) ==
    /\ At(c, "closing") /\ client[c].op = "delete" /\ AllClosed(c)
    /\ cached' = FALSE /\ listLock' = FALSE
    /\ Goto(c, "remove files")
    /\ UNCHANGED <<shardVars, listed, tickVars, closing, stored, windows, counters>>

\* A WAL that is open keeps what it holds in memory.
DeleteFiles(c) ==
    /\ At(c, "remove files")
    /\ entries' = [s \in Shards |-> IF wal[s] THEN entries[s] ELSE 0]
    /\ Goto(c, "delete metadata")
    /\ UNCHANGED <<open, wal, chan, listed, tickVars, closing, indexVars, windows, counters>>

DeleteMetadata(c) ==
    /\ At(c, "delete metadata")
    /\ stored' = FALSE
    /\ client' = [client EXCEPT ![c] = Idle]
    /\ UNCHANGED <<shardVars, listed, tickVars, closing, cached, listLock, windows, counters>>

(***************************************************************************)
(* IndexShardWALList.ConsumeWAL: one tick.                                 *)
(***************************************************************************)

\* Both channels are made for as many shards as are listed now.
TickLen ==
    /\ tick.pc = "idle"
    /\ tick' = [pc |-> "list", cap |-> Cardinality(listed), closed |-> {}, updated |-> {}]
    /\ UNCHANGED <<shardVars, listed, gor, client, closing, indexVars, windows, counters>>

TickList ==
    /\ tick.pc = "list"
    /\ gor' = [s \in Shards |-> IF s \in listed THEN "select" ELSE "none"]
    /\ tick' = [tick EXCEPT !.pc = "run"]
    /\ UNCHANGED <<shardVars, listed, client, closing, indexVars, windows, counters>>

\* A send into a channel that is full waits for a receiver, and there is none
\* before every goroutine has ended.
Sent(already, done) == IF Cardinality(already) < tick.cap THEN done ELSE "blocked"

Receiver(c, s) == Waits(c, s) /\ closing[c][s].chan = chan[s] /\ chan[s] # 0

\* The select takes the value of a Close that waits.
SelectClose(s) ==
    /\ gor[s] = "select"
    /\ \E c \in Clients :
        /\ Receiver(c, s)
        /\ closing' = [closing EXCEPT ![c][s].pc = "zero"]
    /\ gor' = [gor EXCEPT ![s] = Sent(tick.closed, "none")]
    /\ tick' = IF Cardinality(tick.closed) < tick.cap
               THEN [tick EXCEPT !.closed = @ \cup {s}] ELSE tick
    /\ UNCHANGED <<shardVars, listed, client, indexVars, windows, counters>>

SelectDefault(s) ==
    /\ gor[s] = "select"
    /\ \A c \in Clients : ~Receiver(c, s)
    /\ gor' = [gor EXCEPT ![s] = "consume"]
    /\ UNCHANGED <<shardVars, listed, tick, client, closing, indexVars, windows, counters>>

\* A mutant of Consume: the early return for an empty WAL is missing.
Consume_empty(s) ==
    /\ gor[s] = "consume"
    /\ entries' = [entries EXCEPT ![s] = @ - 1]
    /\ gor' = [gor EXCEPT ![s] = "none"]
    /\ UNCHANGED <<open, wal, chan, listed, tick, client, closing, indexVars, windows, counters>>

\* IndexShard.ConsumeWAL commits what the WAL holds; it reports whether there
\* was anything, and then the index is to be stored.
Consume(s) ==
    /\ gor[s] = "consume"
    /\ entries' = [entries EXCEPT ![s] = 0]
    /\ IF entries[s] = 0
       THEN gor' = [gor EXCEPT ![s] = "none"] /\ UNCHANGED tick
       ELSE /\ gor' = [gor EXCEPT ![s] = Sent(tick.updated, "none")]
            /\ tick' = IF Cardinality(tick.updated) < tick.cap
                       THEN [tick EXCEPT !.updated = @ \cup {s}] ELSE tick
    /\ UNCHANGED <<open, wal, chan, listed, client, closing, indexVars, windows, counters>>

\* eg.Wait: every goroutine of the tick has ended.
TickWait ==
    /\ tick.pc = "run" /\ \A s \in Shards : gor[s] = "none"
    /\ tick' = [tick EXCEPT !.pc = "remove"]
    /\ UNCHANGED <<shardVars, listed, gor, client, closing, indexVars, windows, counters>>

TickRemove(s) ==
    /\ tick.pc = "remove" /\ s \in tick.closed
    /\ listed' = listed \ {s}
    /\ tick' = [tick EXCEPT !.closed = @ \ {s}]
    /\ UNCHANGED <<shardVars, gor, client, closing, indexVars, windows, counters>>

\* UpdateMetadata of the index whose shards were updated, which stores it.
TickUpdate ==
    /\ tick.pc = "remove" /\ tick.closed = {}
    /\ stored' = (stored \/ tick.updated # {})
    /\ tick' = [tick EXCEPT !.pc = "idle", !.updated = {}, !.cap = 0]
    /\ UNCHANGED <<shardVars, listed, gor, client, closing, cached, listLock, windows, counters>>

(***************************************************************************)
(* The specification.                                                      *)
(***************************************************************************)
OpenStep(c) ==
    \/ OpenCheck(c) \/ OpenLocked(c) \/ SetOpen(c) \/ MakeChan(c)
    \/ Rollback(c) \/ Add(c)

CloseStep(c, s) == CloseCheck(c, s) \/ CloseZero(c, s) \/ CloseLocked(c, s)

DeleteStep(c) ==
    \/ DeleteLocks(c) \/ Refreshed(c) \/ DeleteUnlocks(c)
    \/ DeleteFiles(c) \/ DeleteMetadata(c)

ClientStep(c) ==
    \/ Use(c) \/ OpenStep(c) \/ OpenFails(c) \/ RollbackFails(c) \/ Append(c) \/ Look(c)
    \/ Refresh(c) \/ DeleteIndex(c) \/ DeleteStep(c)
    \/ \E s \in Shards : CloseStep(c, s) \/ CloseFails(c, s)

TickStep ==
    \/ TickLen \/ TickList \/ TickWait \/ TickUpdate
    \/ \E s \in Shards : SelectClose(s) \/ SelectDefault(s) \/ Consume(s) \/ TickRemove(s)

Next == TickStep \/ \E c \in Clients : ClientStep(c)

Spec == Init /\ [][Next]_vars

\* The tick goes on, and so does a request that was begun; that a request is
\* begun, that it appends something or that a call fails is not promised.
FairSpec ==
    /\ Spec
    /\ WF_vars(TickLen \/ TickList \/ TickWait \/ TickUpdate)
    /\ \A s \in Shards : WF_vars(SelectClose(s) \/ SelectDefault(s) \/ Consume(s) \/ TickRemove(s))
    /\ \A c \in Clients : /\ WF_vars(OpenStep(c) \/ Look(c)) /\ WF_vars(DeleteStep(c))
                          /\ \A s \in Shards : WF_vars(CloseStep(c, s))

(***************************************************************************)
(* Properties.                                                             *)
(***************************************************************************)
Windows == {"added between Len and List", "added before Remove", "closed before make",
            "two closes", "rollback failed", "close failed", "opened after delete"}

ClientPCs == {"idle", "open", "openlock", "setopen", "makechan", "rollback", "add", "use",
              "delete", "closing", "remove files", "delete metadata"}

\* The state is what the shards, the WAL list, the tick and the requests keep; no
\* WAL is consumed below zero and every race that is recorded has a name.
TypeOK ==
    /\ open \in [Shards -> BOOLEAN] /\ wal \in [Shards -> BOOLEAN]
    /\ chan \in [Shards -> Nat] /\ entries \in [Shards -> Nat]
    /\ listed \subseteq Shards
    /\ tick \in [pc : {"idle", "list", "run", "remove"}, cap : Nat,
                 closed : SUBSET Shards, updated : SUBSET Shards]
    /\ gor \in [Shards -> {"none", "select", "consume", "blocked"}]
    /\ client \in [Clients -> [op : {"none", "use", "refresh", "delete"}, shard : Shards,
                               pc : ClientPCs]]
    /\ closing \in [Clients -> [Shards -> [pc : {"no", "check", "send", "zero", "lock"},
                                           chan : Nat]]]
    /\ cached \in BOOLEAN /\ listLock \in BOOLEAN /\ stored \in BOOLEAN
    /\ windows \subseteq Windows
    /\ requests \in 0 .. MaxRequests /\ faults \in 0 .. MaxFaults

\* A request that is opening the WAL of s, and one of Close that took it over.
Opening(c, s) == client[c].shard = s /\ client[c].pc \in {"setopen", "makechan", "rollback", "add"}
Owner(c, s) == closing[c][s].pc \in {"zero", "lock"}

\* Whatever is opened, closed and deleted at the same time, a shard has one owner
\* at a time: a tick consumes a WAL only while it is open, nobody opens or rolls
\* it back and nobody is past the hand-over of Close; one at most opens it; and a
\* Close that got the hand-over is the only one and finds the WAL there.
OneOwner ==
    \A s \in Shards :
        /\ gor[s] = "consume" => wal[s] /\ \A c \in Clients : ~Opening(c, s) /\ ~Owner(c, s)
        /\ \A c \in Clients : Opening(c, s) \/ Owner(c, s) =>
            wal[s] /\ \A d \in Clients : Opening(d, s) \/ Owner(d, s) => c = d

\* A deletion that was answered is final: no tick stores the index again, unless
\* a request that found the index before opens one of its shards afterwards.
DeletedStaysDeleted ==
    (~cached /\ \A c \in Clients : client[c].op # "delete") /\ "opened after delete" \notin windows
        => ~stored

\* Refresh and deletion return, and the lock of the index list is free again,
\* unless one of the races or failures in `windows` took place.
CloseReturns == \A c \in Clients : At(c, "closing") ~> (~At(c, "closing") \/ windows # {})

\* What was appended to a WAL is consumed unless the shard is closed first, or
\* one of the races or failures in `windows` took place.
AppendedIsConsumed == \A s \in Shards : entries[s] > 0 ~> (entries[s] = 0 \/ ~wal[s] \/ windows # {})

\* The list records the WALs that are open: when no request and no tick is under
\* way, a shard that is open is listed.  It does not hold: a shard that is opened
\* again before the tick removed it by its name is taken off the list.
OpenIsListed ==
    tick.pc = "idle" /\ (\A c \in Clients : At(c, "idle"))
        => \A s \in Shards : open[s] => s \in listed
=============================================================================
