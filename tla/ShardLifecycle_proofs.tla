----------------------- MODULE ShardLifecycle_proofs -----------------------
(***************************************************************************)
(* Proofs that the invariants of ShardLifecycle hold for any set of shards *)
(* and clients and any bounds.                                             *)
(*                                                                         *)
(* OneOwner is not inductive: that a tick may consume a shard follows from *)
(* the shard being in the list, which was true when the tick read the list *)
(* and stays true until a Close takes the hand-over.  IInv says so.        *)
(***************************************************************************)
EXTENDS ShardLifecycle, TLAPS, FiniteSetTheorems

\* Someone has the shard for himself.
Busy(c, s) == Opening(c, s) \/ Owner(c, s)

\* The shard is open and nobody has it for himself.
Live(s) == wal[s] /\ open[s] /\ \A c \in Clients : ~Busy(c, s)

\* Close is called by requests that wait for it.
ClosingInv == \A c \in Clients, s \in Shards : closing[c][s].pc # "no" => At(c, "closing")

\* The goroutines of a tick exist while it runs, for shards of the list that no
\* Close has taken; between two ticks nothing is left to remove.
TickInv ==
    /\ tick.pc \in {"idle", "list"} => tick.closed = {}
    /\ \A s \in Shards :
        /\ gor[s] # "none" => tick.pc = "run"
        /\ gor[s] \in {"select", "consume"} => s \in listed /\ s \notin tick.closed

\* A listed shard is live, unless a Close took it over in this tick: then the
\* tick will remove it, or its goroutine is stuck on a full channel.
ListInv == \A s \in listed : s \notin tick.closed /\ gor[s] # "blocked" => Live(s)

\* The flag was set by the one who opens the shard and is not cleared by Close.
FlagSet(c, s) ==
    \/ client[c].shard = s /\ client[c].pc \in {"makechan", "rollback", "add"}
    \/ closing[c][s].pc = "zero"

\* Who has a shard for himself finds the WAL there, is alone, and finds the flag
\* set from the time it is set until Close clears it.
BusyInv ==
    \A s \in Shards, c \in Clients : Busy(c, s) =>
        /\ wal[s]
        /\ \A d \in Clients : Busy(d, s) => c = d
        /\ FlagSet(c, s) => open[s]

IInv == TypeOK /\ ClosingInv /\ TickInv /\ ListInv /\ BusyInv

(***************************************************************************)
(* Type correctness.                                                       *)
(***************************************************************************)
TickType == [pc : {"idle", "list", "run", "remove"}, cap : Nat,
             closed : SUBSET Shards, updated : SUBSET Shards]

GorType == [Shards -> {"none", "select", "consume", "blocked"}]

ClientType == [op : {"none", "use", "refresh", "delete"}, shard : Shards, pc : ClientPCs]

CloseType == [pc : {"no", "check", "send", "zero", "lock"}, chan : Nat]

\* TypeOK, in terms of these sets.
Typed ==
    /\ open \in [Shards -> BOOLEAN] /\ wal \in [Shards -> BOOLEAN]
    /\ chan \in [Shards -> Nat] /\ entries \in [Shards -> Nat]
    /\ listed \in SUBSET Shards /\ tick \in TickType /\ gor \in GorType
    /\ client \in [Clients -> ClientType] /\ closing \in [Clients -> [Shards -> CloseType]]
    /\ cached \in BOOLEAN /\ listLock \in BOOLEAN /\ stored \in BOOLEAN
    /\ windows \in SUBSET Windows
    /\ requests \in 0 .. MaxRequests /\ faults \in 0 .. MaxFaults

\* It says the same as TypeOK.
LEMMA TypeOKParts == TypeOK <=> Typed
BY DEF TypeOK, Typed, TickType, GorType, ClientType, CloseType

\* A client without a request has a shard to name, as there is one.
LEMMA IdleType == Idle \in ClientType
BY ShardsAssumption DEF Idle, ClientType, ClientPCs

\* Initially every variable has its type.
LEMMA InitTypeOK == Init => TypeOK
<1> SUFFICES ASSUME Init PROVE Typed
  BY TypeOKParts
<1>1. client \in [Clients -> ClientType]
  BY IdleType DEF Init
<1>2. closing \in [Clients -> [Shards -> CloseType]]
  BY DEF Init, NotClosing, CloseType
<1>3. tick \in TickType /\ gor \in GorType
  BY DEF Init, TickType, GorType
<1>4. requests \in 0 .. MaxRequests /\ faults \in 0 .. MaxFaults
  BY BoundsAssumption DEF Init
<1>5. QED
  BY <1>1, <1>2, <1>3, <1>4 DEF Init, Typed

\* Len is a natural number: the list holds finitely many shards.
LEMMA CardinalityListed == listed \in SUBSET Shards => Cardinality(listed) \in Nat
BY ShardsAssumption, FS_Subset, FS_CardinalityType

\* A request moves on.
LEMMA GotoType ==
    ASSUME client \in [Clients -> ClientType], NEW c \in Clients, NEW pc \in ClientPCs
    PROVE  [client EXCEPT ![c].pc = pc] \in [Clients -> ClientType]
BY DEF ClientType

\* A request starts or ends.
LEMMA RequestType ==
    ASSUME client \in [Clients -> ClientType], NEW c \in Clients, NEW r \in ClientType
    PROVE  [client EXCEPT ![c] = r] \in [Clients -> ClientType]
OBVIOUS

\* A Close moves on.
LEMMA CloseStepType ==
    ASSUME closing \in [Clients -> [Shards -> CloseType]], NEW c \in Clients, NEW s \in Shards,
           NEW pc \in {"no", "check", "send", "zero", "lock"}, NEW n \in Nat
    PROVE  /\ [closing EXCEPT ![c][s].pc = pc] \in [Clients -> [Shards -> CloseType]]
           /\ [closing EXCEPT ![c][s] = [pc |-> pc, chan |-> n]] \in [Clients -> [Shards -> CloseType]]
<1>1. [closing[c][s] EXCEPT !.pc = pc] \in CloseType /\ [pc |-> pc, chan |-> n] \in CloseType
  BY DEF CloseType
<1>2. QED
  BY <1>1

\* Every step keeps the types.
LEMMA NextTypeOK == TypeOK /\ Next => TypeOK'
<1> SUFFICES ASSUME Typed, Next PROVE Typed'
  BY DEF TypeOK, Typed, TickType, GorType, ClientType, CloseType
<1>1. ASSUME TickLen PROVE Typed'
  <2>1. tick' \in TickType
    BY <1>1, CardinalityListed DEF TickLen, TickType, Typed
  <2>2. UNCHANGED <<open, wal, chan, entries, listed, gor, client, closing, cached,
                    listLock, stored, windows, requests, faults>>
    BY <1>1 DEF TickLen, shardVars, indexVars, counters
  <2>3. QED
    BY <2>1, <2>2 DEF Typed
<1>2. ASSUME TickList PROVE Typed'
  <2>1. tick' \in TickType
    BY <1>2 DEF TickList, TickType, Typed
  <2>2. gor' \in GorType
    BY <1>2 DEF TickList, GorType, Typed
  <2>3. UNCHANGED <<open, wal, chan, entries, listed, client, closing, cached, listLock,
                    stored, windows, requests, faults>>
    BY <1>2 DEF TickList, shardVars, indexVars, counters
  <2>4. QED
    BY <2>1, <2>2, <2>3 DEF Typed
<1>3. ASSUME TickWait PROVE Typed'
  <2>1. tick' \in TickType
    BY <1>3 DEF TickWait, TickType, Typed
  <2>2. UNCHANGED <<open, wal, chan, entries, listed, gor, client, closing, cached,
                    listLock, stored, windows, requests, faults>>
    BY <1>3 DEF TickWait, shardVars, indexVars, counters
  <2>3. QED
    BY <2>1, <2>2 DEF Typed
<1>4. ASSUME TickUpdate PROVE Typed'
  <2>1. tick' \in TickType
    BY <1>4 DEF TickUpdate, TickType, Typed
  <2>2. stored' \in BOOLEAN
    BY <1>4 DEF TickUpdate, Typed
  <2>3. UNCHANGED <<open, wal, chan, entries, listed, gor, client, closing, cached,
                    listLock, windows, requests, faults>>
    BY <1>4 DEF TickUpdate, shardVars, counters
  <2>4. QED
    BY <2>1, <2>2, <2>3 DEF Typed
<1>5. ASSUME NEW s \in Shards, SelectClose(s) PROVE Typed'
  <2>1. tick' \in TickType
    BY <1>5 DEF SelectClose, TickType, Typed
  <2>2. gor' \in GorType
    BY <1>5 DEF SelectClose, Sent, GorType, Typed
  <2>3. closing' \in [Clients -> [Shards -> CloseType]]
    <3>1. PICK c \in Clients : closing' = [closing EXCEPT ![c][s].pc = "zero"]
      BY <1>5 DEF SelectClose
    <3>2. QED
      BY <3>1, CloseStepType DEF Typed
  <2>4. UNCHANGED <<open, wal, chan, entries, listed, client, cached, listLock, stored,
                    windows, requests, faults>>
    BY <1>5 DEF SelectClose, shardVars, indexVars, counters
  <2>5. QED
    BY <2>1, <2>2, <2>3, <2>4 DEF Typed
<1>6. ASSUME NEW s \in Shards, SelectDefault(s) PROVE Typed'
  <2>1. gor' \in GorType
    BY <1>6 DEF SelectDefault, GorType, Typed
  <2>2. UNCHANGED <<open, wal, chan, entries, listed, tick, client, closing, cached,
                    listLock, stored, windows, requests, faults>>
    BY <1>6 DEF SelectDefault, shardVars, indexVars, counters
  <2>3. QED
    BY <2>1, <2>2 DEF Typed
<1>7. ASSUME NEW s \in Shards, Consume(s) PROVE Typed'
  <2>1. entries' \in [Shards -> Nat]
    BY <1>7 DEF Consume, Typed
  <2>2. tick' \in TickType
    BY <1>7 DEF Consume, TickType, Typed
  <2>3. gor' \in GorType
    BY <1>7 DEF Consume, Sent, GorType, Typed
  <2>4. UNCHANGED <<open, wal, chan, listed, client, closing, cached, listLock, stored,
                    windows, requests, faults>>
    BY <1>7 DEF Consume, indexVars, counters
  <2>5. QED
    BY <2>1, <2>2, <2>3, <2>4 DEF Typed
<1>8. ASSUME NEW s \in Shards, TickRemove(s) PROVE Typed'
  <2>1. listed' \in SUBSET Shards
    BY <1>8 DEF TickRemove, Typed
  <2>2. tick' \in TickType
    BY <1>8 DEF TickRemove, TickType, Typed
  <2>3. UNCHANGED <<open, wal, chan, entries, gor, client, closing, cached, listLock,
                    stored, windows, requests, faults>>
    BY <1>8 DEF TickRemove, shardVars, indexVars, counters
  <2>4. QED
    BY <2>1, <2>2, <2>3 DEF Typed
<1>9. ASSUME NEW c \in Clients, Use(c) PROVE Typed'
  <2>1. client' \in [Clients -> ClientType]
    <3>1. PICK s \in Shards : client' = [client EXCEPT ![c] = [op |-> "use", shard |-> s, pc |-> "open"]]
      BY <1>9 DEF Use, Begin
    <3>2. [op |-> "use", shard |-> s, pc |-> "open"] \in ClientType
      BY DEF ClientType, ClientPCs
    <3>3. QED
      BY <3>1, <3>2, RequestType DEF Typed
  <2>2. requests' \in 0 .. MaxRequests
    <3>1. requests \in 0 .. MaxRequests /\ requests < MaxRequests /\ requests' = requests + 1
      BY <1>9 DEF Use, Begin, Typed
    <3>2. QED
      BY <3>1, BoundsAssumption
  <2>3. UNCHANGED <<open, wal, chan, entries, listed, tick, gor, closing, cached,
                    listLock, stored, windows, faults>>
    BY <1>9 DEF Use, Begin, shardVars, tickVars, indexVars
  <2>4. QED
    BY <2>1, <2>2, <2>3 DEF Typed
<1>10. ASSUME NEW c \in Clients, OpenCheck(c) PROVE Typed'
  <2>1. client' \in [Clients -> ClientType]
    BY <1>10, GotoType DEF OpenCheck, Goto, ClientPCs, Typed
  <2>2. UNCHANGED <<open, wal, chan, entries, listed, tick, gor, closing, cached,
                    listLock, stored, windows, requests, faults>>
    BY <1>10 DEF OpenCheck, shardVars, tickVars, indexVars, counters
  <2>3. QED
    BY <2>1, <2>2 DEF Typed
<1>11. ASSUME NEW c \in Clients, OpenLocked(c) PROVE Typed'
  <2>1. wal' \in [Shards -> BOOLEAN]
    BY <1>11 DEF OpenLocked, Typed
  <2>2. client' \in [Clients -> ClientType]
    <3>1. Goto(c, "use") \/ Goto(c, "setopen")
      BY <1>11 DEF OpenLocked
    <3>2. CASE Goto(c, "use")
      BY <3>2, GotoType DEF Goto, ClientPCs, Typed
    <3>3. CASE Goto(c, "setopen")
      BY <3>3, GotoType DEF Goto, ClientPCs, Typed
    <3>4. QED
      BY <3>1, <3>2, <3>3
  <2>3. UNCHANGED <<open, chan, entries, listed, tick, gor, closing, cached, listLock,
                    stored, windows, requests, faults>>
    BY <1>11 DEF OpenLocked, tickVars, indexVars, counters
  <2>4. QED
    BY <2>1, <2>2, <2>3 DEF Typed
<1>12. ASSUME NEW c \in Clients, SetOpen(c) PROVE Typed'
  <2>1. open' \in [Shards -> BOOLEAN]
    BY <1>12 DEF SetOpen, Typed
  <2>2. client' \in [Clients -> ClientType]
    BY <1>12, GotoType DEF SetOpen, Goto, ClientPCs, Typed
  <2>3. windows' \in SUBSET Windows
    BY <1>12 DEF SetOpen, Windows, Typed
  <2>4. UNCHANGED <<wal, chan, entries, listed, tick, gor, closing, cached, listLock,
                    stored, requests, faults>>
    BY <1>12 DEF SetOpen, tickVars, indexVars, counters
  <2>5. QED
    BY <2>1, <2>2, <2>3, <2>4 DEF Typed
<1>13. ASSUME NEW c \in Clients, MakeChan(c) PROVE Typed'
  <2>1. chan' \in [Shards -> Nat]
    <3>1. client[c].shard \in Shards
      BY DEF Typed, ClientType
    <3>2. chan \in [Shards -> Nat] /\ chan' = [chan EXCEPT ![client[c].shard] = @ + 1]
      BY <1>13 DEF MakeChan, Typed
    <3>3. QED
      BY <3>1, <3>2
  <2>2. client' \in [Clients -> ClientType]
    BY <1>13, GotoType DEF MakeChan, Goto, ClientPCs, Typed
  <2>3. UNCHANGED <<open, wal, entries, listed, tick, gor, closing, cached, listLock,
                    stored, windows, requests, faults>>
    BY <1>13 DEF MakeChan, tickVars, indexVars, counters
  <2>4. QED
    BY <2>1, <2>2, <2>3 DEF Typed
<1>14. ASSUME NEW c \in Clients, Rollback(c) PROVE Typed'
  <2>1. client' \in [Clients -> ClientType]
    BY <1>14, GotoType DEF Rollback, Goto, ClientPCs, Typed
  <2>2. UNCHANGED <<open, wal, chan, entries, listed, tick, gor, closing, cached,
                    listLock, stored, windows, requests, faults>>
    BY <1>14 DEF Rollback, shardVars, tickVars, indexVars, counters
  <2>3. QED
    BY <2>1, <2>2 DEF Typed
<1>15. ASSUME NEW c \in Clients, RollbackFails(c) PROVE Typed'
  <2>1. client' \in [Clients -> ClientType]
    BY <1>15, GotoType DEF RollbackFails, Goto, ClientPCs, Typed
  <2>2. windows' \in SUBSET Windows
    BY <1>15 DEF RollbackFails, Windows, Typed
  <2>3. faults' \in 0 .. MaxFaults
    <3>1. faults \in 0 .. MaxFaults /\ faults < MaxFaults /\ faults' = faults + 1
      BY <1>15 DEF RollbackFails, Typed
    <3>2. QED
      BY <3>1, BoundsAssumption
  <2>4. UNCHANGED <<open, wal, chan, entries, listed, tick, gor, closing, cached,
                    listLock, stored, requests>>
    BY <1>15 DEF RollbackFails, shardVars, tickVars, indexVars
  <2>5. QED
    BY <2>1, <2>2, <2>3, <2>4 DEF Typed
<1>16. ASSUME NEW c \in Clients, Add(c) PROVE Typed'
  <2>1. listed' \in SUBSET Shards
    <3>1. client[c].shard \in Shards /\ listed \in SUBSET Shards
      BY DEF Typed, ClientType
    <3>2. QED
      BY <1>16, <3>1 DEF Add
  <2>2. client' \in [Clients -> ClientType]
    BY <1>16, GotoType DEF Add, Goto, ClientPCs, Typed
  <2>3. windows' \in SUBSET Windows
    BY <1>16 DEF Add, AddWindows, Windows, Typed
  <2>4. UNCHANGED <<open, wal, chan, entries, tick, gor, closing, cached, listLock,
                    stored, requests, faults>>
    BY <1>16 DEF Add, shardVars, tickVars, indexVars, counters
  <2>5. QED
    BY <2>1, <2>2, <2>3, <2>4 DEF Typed
<1>17. ASSUME NEW c \in Clients, Append(c) PROVE Typed'
  <2>1. entries' \in [Shards -> Nat]
    <3>1. client[c].shard \in Shards
      BY DEF Typed, ClientType
    <3>2. entries \in [Shards -> Nat]
      BY DEF Typed
    <3>3. entries' = [entries EXCEPT ![client[c].shard] = @ + 1] \/ entries' = entries
      BY <1>17 DEF Append
    <3>4. QED
      BY <3>1, <3>2, <3>3
  <2>2. client' \in [Clients -> ClientType]
    BY <1>17, IdleType, RequestType DEF Append, Typed
  <2>3. UNCHANGED <<open, wal, chan, listed, tick, gor, closing, cached, listLock,
                    stored, windows, requests, faults>>
    BY <1>17 DEF Append, tickVars, indexVars, counters
  <2>4. QED
    BY <2>1, <2>2, <2>3 DEF Typed
<1>18. ASSUME NEW c \in Clients, Look(c) PROVE Typed'
  <2>1. client' \in [Clients -> ClientType]
    BY <1>18, IdleType, RequestType DEF Look, Typed
  <2>2. UNCHANGED <<open, wal, chan, entries, listed, tick, gor, closing, cached,
                    listLock, stored, windows, requests, faults>>
    BY <1>18 DEF Look, shardVars, tickVars, indexVars, counters
  <2>3. QED
    BY <2>1, <2>2 DEF Typed
<1>19. ASSUME NEW c \in Clients, Refresh(c) PROVE Typed'
  <2>1. client' \in [Clients -> ClientType]
    <3>1. [op |-> "refresh", shard |-> Idle.shard, pc |-> "closing"] \in ClientType
      BY IdleType DEF ClientType, ClientPCs
    <3>2. client' = [client EXCEPT ![c] = [op |-> "refresh", shard |-> Idle.shard, pc |-> "closing"]]
      BY <1>19 DEF Refresh, Begin
    <3>3. QED
      BY <3>1, <3>2, RequestType DEF Typed
  <2>2. closing' \in [Clients -> [Shards -> CloseType]]
    BY <1>19 DEF Refresh, AllClose, CloseType, Typed
  <2>3. requests' \in 0 .. MaxRequests
    <3>1. requests \in 0 .. MaxRequests /\ requests < MaxRequests /\ requests' = requests + 1
      BY <1>19 DEF Refresh, Begin, Typed
    <3>2. QED
      BY <3>1, BoundsAssumption
  <2>4. UNCHANGED <<open, wal, chan, entries, listed, tick, gor, cached, listLock,
                    stored, windows, faults>>
    BY <1>19 DEF Refresh, Begin, shardVars, tickVars, indexVars
  <2>5. QED
    BY <2>1, <2>2, <2>3, <2>4 DEF Typed
<1>20. ASSUME NEW c \in Clients, DeleteIndex(c) PROVE Typed'
  <2>1. client' \in [Clients -> ClientType]
    <3>1. [op |-> "delete", shard |-> Idle.shard, pc |-> "delete"] \in ClientType
      BY IdleType DEF ClientType, ClientPCs
    <3>2. client' = [client EXCEPT ![c] = [op |-> "delete", shard |-> Idle.shard, pc |-> "delete"]]
      BY <1>20 DEF DeleteIndex, Begin
    <3>3. QED
      BY <3>1, <3>2, RequestType DEF Typed
  <2>2. requests' \in 0 .. MaxRequests
    <3>1. requests \in 0 .. MaxRequests /\ requests < MaxRequests /\ requests' = requests + 1
      BY <1>20 DEF DeleteIndex, Begin, Typed
    <3>2. QED
      BY <3>1, BoundsAssumption
  <2>3. UNCHANGED <<open, wal, chan, entries, listed, tick, gor, closing, cached,
                    listLock, stored, windows, faults>>
    BY <1>20 DEF DeleteIndex, Begin, shardVars, tickVars, indexVars
  <2>4. QED
    BY <2>1, <2>2, <2>3 DEF Typed
<1>21. ASSUME NEW c \in Clients, DeleteLocks(c) PROVE Typed'
  <2>1. client' \in [Clients -> ClientType]
    BY <1>21, GotoType DEF DeleteLocks, Goto, ClientPCs, Typed
  <2>2. closing' \in [Clients -> [Shards -> CloseType]]
    <3>1. [s \in Shards |-> [pc |-> "check", chan |-> 0]] \in [Shards -> CloseType]
      BY DEF CloseType
    <3>2. QED
      BY <1>21, <3>1 DEF DeleteLocks, AllClose, Typed
  <2>3. listLock' \in BOOLEAN
    BY <1>21 DEF DeleteLocks, Typed
  <2>4. UNCHANGED <<open, wal, chan, entries, listed, tick, gor, cached, stored, windows,
                    requests, faults>>
    BY <1>21 DEF DeleteLocks, shardVars, tickVars, counters
  <2>5. QED
    BY <2>1, <2>2, <2>3, <2>4 DEF Typed
<1>22. ASSUME NEW c \in Clients, Refreshed(c) PROVE Typed'
  <2>1. client' \in [Clients -> ClientType]
    BY <1>22, IdleType, RequestType DEF Refreshed, Typed
  <2>2. UNCHANGED <<open, wal, chan, entries, listed, tick, gor, closing, cached,
                    listLock, stored, windows, requests, faults>>
    BY <1>22 DEF Refreshed, shardVars, tickVars, indexVars, counters
  <2>3. QED
    BY <2>1, <2>2 DEF Typed
<1>23. ASSUME NEW c \in Clients, DeleteUnlocks(c) PROVE Typed'
  <2>1. client' \in [Clients -> ClientType]
    BY <1>23, GotoType DEF DeleteUnlocks, Goto, ClientPCs, Typed
  <2>2. cached' \in BOOLEAN
    BY <1>23 DEF DeleteUnlocks, Typed
  <2>3. listLock' \in BOOLEAN
    BY <1>23 DEF DeleteUnlocks, Typed
  <2>4. UNCHANGED <<open, wal, chan, entries, listed, tick, gor, closing, stored,
                    windows, requests, faults>>
    BY <1>23 DEF DeleteUnlocks, shardVars, tickVars, counters
  <2>5. QED
    BY <2>1, <2>2, <2>3, <2>4 DEF Typed
<1>24. ASSUME NEW c \in Clients, DeleteFiles(c) PROVE Typed'
  <2>1. entries' \in [Shards -> Nat]
    BY <1>24 DEF DeleteFiles, Typed
  <2>2. client' \in [Clients -> ClientType]
    BY <1>24, GotoType DEF DeleteFiles, Goto, ClientPCs, Typed
  <2>3. UNCHANGED <<open, wal, chan, listed, tick, gor, closing, cached, listLock,
                    stored, windows, requests, faults>>
    BY <1>24 DEF DeleteFiles, tickVars, indexVars, counters
  <2>4. QED
    BY <2>1, <2>2, <2>3 DEF Typed
<1>25. ASSUME NEW c \in Clients, DeleteMetadata(c) PROVE Typed'
  <2>1. client' \in [Clients -> ClientType]
    BY <1>25, IdleType, RequestType DEF DeleteMetadata, Typed
  <2>2. stored' \in BOOLEAN
    BY <1>25 DEF DeleteMetadata, Typed
  <2>3. UNCHANGED <<open, wal, chan, entries, listed, tick, gor, closing, cached,
                    listLock, windows, requests, faults>>
    BY <1>25 DEF DeleteMetadata, shardVars, tickVars, counters
  <2>4. QED
    BY <2>1, <2>2, <2>3 DEF Typed
<1>26. ASSUME NEW c \in Clients, NEW s \in Shards, CloseCheck(c, s) PROVE Typed'
  <2>1. closing' \in [Clients -> [Shards -> CloseType]]
    <3>1. /\ chan[s] \in Nat /\ 0 \in Nat
          /\ closing \in [Clients -> [Shards -> CloseType]]
      BY DEF Typed
    <3>2. \/ closing' = [closing EXCEPT ![c][s] = [pc |-> "send", chan |-> chan[s]]]
          \/ closing' = [closing EXCEPT ![c][s] = [pc |-> "no", chan |-> 0]]
      BY <1>26 DEF CloseCheck, NotClosing
    <3>3. CASE closing' = [closing EXCEPT ![c][s] = [pc |-> "send", chan |-> chan[s]]]
      BY <3>1, <3>3, CloseStepType
    <3>4. CASE closing' = [closing EXCEPT ![c][s] = [pc |-> "no", chan |-> 0]]
      BY <3>1, <3>4, CloseStepType
    <3>5. QED
      BY <3>2, <3>3, <3>4
  <2>2. windows' \in SUBSET Windows
    BY <1>26 DEF CloseCheck, Windows, Typed
  <2>3. UNCHANGED <<open, wal, chan, entries, listed, tick, gor, client, cached,
                    listLock, stored, requests, faults>>
    BY <1>26 DEF CloseCheck, shardVars, tickVars, indexVars, counters
  <2>4. QED
    BY <2>1, <2>2, <2>3 DEF Typed
<1>27. ASSUME NEW c \in Clients, NEW s \in Shards, CloseZero(c, s) PROVE Typed'
  <2>1. open' \in [Shards -> BOOLEAN]
    BY <1>27 DEF CloseZero, Typed
  <2>2. closing' \in [Clients -> [Shards -> CloseType]]
    BY <1>27, CloseStepType DEF CloseZero, Typed
  <2>3. UNCHANGED <<wal, chan, entries, listed, tick, gor, client, cached, listLock,
                    stored, windows, requests, faults>>
    BY <1>27 DEF CloseZero, tickVars, indexVars, counters
  <2>4. QED
    BY <2>1, <2>2, <2>3 DEF Typed
<1>28. ASSUME NEW c \in Clients, NEW s \in Shards, CloseLocked(c, s) PROVE Typed'
  <2>1. wal' \in [Shards -> BOOLEAN]
    BY <1>28 DEF CloseLocked, Typed
  <2>2. closing' \in [Clients -> [Shards -> CloseType]]
    BY <1>28, CloseStepType DEF CloseLocked, NotClosing, Typed
  <2>3. UNCHANGED <<open, chan, entries, listed, tick, gor, client, cached, listLock,
                    stored, windows, requests, faults>>
    BY <1>28 DEF CloseLocked, tickVars, indexVars, counters
  <2>4. QED
    BY <2>1, <2>2, <2>3 DEF Typed
<1>29. ASSUME NEW c \in Clients, OpenFails(c) PROVE Typed'
  <2>1. client' \in [Clients -> ClientType]
    BY <1>29, GotoType DEF OpenFails, Goto, ClientPCs, Typed
  <2>2. faults' \in 0 .. MaxFaults
    <3>1. faults \in 0 .. MaxFaults /\ faults < MaxFaults /\ faults' = faults + 1
      BY <1>29 DEF OpenFails, Typed
    <3>2. QED
      BY <3>1, BoundsAssumption
  <2>3. UNCHANGED <<open, wal, chan, entries, listed, tick, gor, closing, cached,
                    listLock, stored, windows, requests>>
    BY <1>29 DEF OpenFails, shardVars, tickVars, indexVars
  <2>4. QED
    BY <2>1, <2>2, <2>3 DEF Typed
<1>30. ASSUME NEW c \in Clients, NEW s \in Shards, CloseFails(c, s) PROVE Typed'
  <2>1. closing' \in [Clients -> [Shards -> CloseType]]
    BY <1>30, CloseStepType DEF CloseFails, NotClosing, Typed
  <2>2. windows' \in SUBSET Windows
    BY <1>30 DEF CloseFails, Windows, Typed
  <2>3. faults' \in 0 .. MaxFaults
    <3>1. faults \in 0 .. MaxFaults /\ faults < MaxFaults /\ faults' = faults + 1
      BY <1>30 DEF CloseFails, Typed
    <3>2. QED
      BY <3>1, BoundsAssumption
  <2>4. UNCHANGED <<open, wal, chan, entries, listed, tick, gor, client, cached,
                    listLock, stored, requests>>
    BY <1>30 DEF CloseFails, shardVars, tickVars, indexVars
  <2>5. QED
    BY <2>1, <2>2, <2>3, <2>4 DEF Typed
<1>31. QED
  BY <1>1, <1>2, <1>3, <1>4, <1>5, <1>6, <1>7, <1>8, <1>9, <1>10, <1>11, <1>12, <1>13,
     <1>14, <1>15, <1>16, <1>17, <1>18, <1>19, <1>20, <1>21, <1>22, <1>23, <1>24, <1>25, <1>26, <1>27, <1>28,
     <1>29, <1>30
  DEF Next, TickStep, ClientStep, OpenStep, DeleteStep, CloseStep

\* Every variable keeps its type, whatever the shards, the clients and the bounds.
THEOREM TypeCorrect == Spec => []TypeOK
<1>1. TypeOK /\ UNCHANGED vars => TypeOK'
  BY DEF TypeOK, vars
<1>2. QED
  BY InitTypeOK, NextTypeOK, <1>1, PTL DEF Spec

(***************************************************************************)
(* One owner.                                                              *)
(***************************************************************************)

\* The first state satisfies the inductive invariant.
LEMMA InitIInv == Init => IInv
<1> SUFFICES ASSUME Init PROVE IInv
  OBVIOUS
<1>1. ClosingInv /\ TickInv /\ ListInv
  BY DEF Init, NotClosing, ClosingInv, TickInv, ListInv
<1>2. BusyInv
  BY DEF Init, Idle, NotClosing, BusyInv, Busy, FlagSet, Opening, Owner
<1>3. QED
  BY <1>1, <1>2, InitTypeOK DEF IInv

\* A step after which nobody has a shard who did not have it before.
LEMMA NobodyNew ==
    ASSUME ListInv, BusyInv, UNCHANGED <<open, wal, listed, tick, gor>>, listed \in SUBSET Shards,
           \A c \in Clients, s \in Shards : (Busy(c, s)' => Busy(c, s)) /\ (FlagSet(c, s)' => FlagSet(c, s))
    PROVE  ListInv' /\ BusyInv'
<1>1. ListInv'
  BY DEF ListInv, Live
<1>2. BusyInv'
  BY DEF BusyInv
<1>3. QED
  BY <1>1, <1>2

\* Every step keeps it.
LEMMA NextIInv == IInv /\ Next => IInv'
<1> SUFFICES ASSUME Typed, ClosingInv, TickInv, ListInv, BusyInv, Next PROVE IInv'
  BY TypeOKParts DEF IInv
<1>0. TypeOK'
  BY TypeOKParts, NextTypeOK
<1>1. ASSUME TickLen PROVE IInv'
  <2>1. ClosingInv'
    BY <1>1 DEF TickLen, ClosingInv, At
  <2>2. TickInv'
    BY <1>1 DEF TickLen, TickInv, TickType, Typed
  <2>3. ListInv'
    BY <1>1 DEF TickLen, shardVars, ListInv, Live, Busy, FlagSet, Opening, Owner,
       TickInv, TickType, Typed
  <2>4. BusyInv'
    BY <1>1 DEF TickLen, shardVars, BusyInv, Busy, FlagSet, Opening, Owner
  <2>5. QED
    BY <1>0, <2>1, <2>2, <2>3, <2>4 DEF IInv
<1>2. ASSUME TickList PROVE IInv'
  <2>1. ClosingInv'
    BY <1>2 DEF TickList, ClosingInv, At
  <2>2. TickInv'
    BY <1>2 DEF TickList, TickInv, TickType, GorType, Typed
  <2>3. ListInv'
    BY <1>2 DEF TickList, shardVars, ListInv, Live, Busy, FlagSet, Opening, Owner,
       TickInv, TickType, GorType, Typed
  <2>4. BusyInv'
    BY <1>2 DEF TickList, shardVars, BusyInv, Busy, FlagSet, Opening, Owner
  <2>5. QED
    BY <1>0, <2>1, <2>2, <2>3, <2>4 DEF IInv
<1>3. ASSUME TickWait PROVE IInv'
  <2>1. ClosingInv'
    BY <1>3 DEF TickWait, ClosingInv, At
  <2>2. TickInv'
    BY <1>3 DEF TickWait, TickInv, TickType, Typed
  <2>3. ListInv'
    BY <1>3 DEF TickWait, shardVars, ListInv, Live, Busy, FlagSet, Opening, Owner,
       TickType, Typed
  <2>4. BusyInv'
    BY <1>3 DEF TickWait, shardVars, BusyInv, Busy, FlagSet, Opening, Owner
  <2>5. QED
    BY <1>0, <2>1, <2>2, <2>3, <2>4 DEF IInv
<1>4. ASSUME TickUpdate PROVE IInv'
  <2>1. ClosingInv'
    BY <1>4 DEF TickUpdate, ClosingInv, At
  <2>2. TickInv'
    BY <1>4 DEF TickUpdate, TickInv, TickType, Typed
  <2>3. ListInv'
    BY <1>4 DEF TickUpdate, shardVars, ListInv, Live, Busy, FlagSet, Opening, Owner,
       TickType, Typed
  <2>4. BusyInv'
    BY <1>4 DEF TickUpdate, shardVars, BusyInv, Busy, FlagSet, Opening, Owner
  <2>5. QED
    BY <1>0, <2>1, <2>2, <2>3, <2>4 DEF IInv
<1>5. ASSUME NEW s \in Shards, SelectClose(s) PROVE IInv'
  <2>1. ClosingInv'
    BY <1>5 DEF SelectClose, Sent, Receiver, Waits, ClosingInv, At, CloseType, Typed
  <2>2. TickInv'
    BY <1>5 DEF SelectClose, Sent, Receiver, Waits, TickInv, TickType, GorType, Typed
  <2>3. ListInv'
    BY <1>5 DEF SelectClose, Sent, Receiver, Waits, shardVars, ListInv, Live, Busy,
       FlagSet, Opening, Owner, TickType, GorType, CloseType, Typed
  <2>4. BusyInv'
    BY <1>5 DEF SelectClose, Sent, Receiver, Waits, shardVars, BusyInv, Busy, FlagSet,
       Opening, Owner, TickInv, ListInv, Live, CloseType, Typed
  <2>5. QED
    BY <1>0, <2>1, <2>2, <2>3, <2>4 DEF IInv
<1>6. ASSUME NEW s \in Shards, SelectDefault(s) PROVE IInv'
  <2>1. ClosingInv'
    BY <1>6 DEF SelectDefault, ClosingInv, At
  <2>2. TickInv'
    BY <1>6 DEF SelectDefault, TickInv, GorType, Typed
  <2>3. ListInv'
    BY <1>6 DEF SelectDefault, shardVars, ListInv, Live, Busy, FlagSet, Opening, Owner,
       GorType, Typed
  <2>4. BusyInv'
    BY <1>6 DEF SelectDefault, shardVars, BusyInv, Busy, FlagSet, Opening, Owner
  <2>5. QED
    BY <1>0, <2>1, <2>2, <2>3, <2>4 DEF IInv
<1>7. ASSUME NEW s \in Shards, Consume(s) PROVE IInv'
  <2>1. ClosingInv'
    BY <1>7 DEF Consume, ClosingInv, At
  <2>2. TickInv'
    BY <1>7 DEF Consume, Sent, TickInv, TickType, GorType, Typed
  <2>3. ListInv'
    BY <1>7 DEF Consume, Sent, ListInv, Live, Busy, FlagSet, Opening, Owner, TickInv,
       TickType, GorType, Typed
  <2>4. BusyInv'
    BY <1>7 DEF Consume, BusyInv, Busy, FlagSet, Opening, Owner
  <2>5. QED
    BY <1>0, <2>1, <2>2, <2>3, <2>4 DEF IInv
<1>8. ASSUME NEW s \in Shards, TickRemove(s) PROVE IInv'
  <2>1. ClosingInv'
    BY <1>8 DEF TickRemove, ClosingInv, At
  <2>2. TickInv'
    BY <1>8 DEF TickRemove, TickInv, TickType, Typed
  <2>3. ListInv'
    BY <1>8 DEF TickRemove, shardVars, ListInv, Live, Busy, FlagSet, Opening, Owner,
       TickType, Typed
  <2>4. BusyInv'
    BY <1>8 DEF TickRemove, shardVars, BusyInv, Busy, FlagSet, Opening, Owner
  <2>5. QED
    BY <1>0, <2>1, <2>2, <2>3, <2>4 DEF IInv
<1>9. ASSUME NEW c \in Clients, Use(c) PROVE IInv'
  <2>1. ClosingInv'
    BY <1>9 DEF Use, Begin, ClosingInv, At, ClientType, Typed
  <2>2. UNCHANGED <<open, wal, listed, tick, gor>>
    BY <1>9 DEF Use, Begin, shardVars, tickVars
  <2>3. \A d \in Clients, t \in Shards : (Busy(d, t)' => Busy(d, t)) /\ (FlagSet(d, t)' => FlagSet(d, t))
    BY <1>9 DEF Use, Begin, Busy, FlagSet, Opening, Owner, At, ClientType, Typed
  <2>4. ListInv' /\ BusyInv'
    BY <2>2, <2>3, NobodyNew DEF Typed
  <2>5. TickInv'
    BY <2>2 DEF TickInv
  <2>6. QED
    BY <1>0, <2>1, <2>4, <2>5 DEF IInv
<1>10. ASSUME NEW c \in Clients, OpenCheck(c) PROVE IInv'
  <2>1. ClosingInv'
    BY <1>10 DEF OpenCheck, Goto, ClosingInv, At, ClientType, Typed
  <2>2. UNCHANGED <<open, wal, listed, tick, gor>>
    BY <1>10 DEF OpenCheck, shardVars, tickVars
  <2>3. \A d \in Clients, t \in Shards : (Busy(d, t)' => Busy(d, t)) /\ (FlagSet(d, t)' => FlagSet(d, t))
    BY <1>10 DEF OpenCheck, Goto, Busy, FlagSet, Opening, Owner, At, ClientType, Typed
  <2>4. ListInv' /\ BusyInv'
    BY <2>2, <2>3, NobodyNew DEF Typed
  <2>5. TickInv'
    BY <2>2 DEF TickInv
  <2>6. QED
    BY <1>0, <2>1, <2>4, <2>5 DEF IInv
<1>11. ASSUME NEW c \in Clients, OpenLocked(c) PROVE IInv'
  <2> DEFINE s == client[c].shard
  <2>1. s \in Shards /\ client \in [Clients -> ClientType] /\ listed \in SUBSET Shards
    BY DEF Typed, ClientType
  <2>2. UNCHANGED <<open, listed, tick, gor, closing>> /\ At(c, "openlock")
    BY <1>11 DEF OpenLocked, tickVars
  <2>3. ClosingInv'
    BY <1>11, <2>1, <2>2 DEF OpenLocked, Goto, ClosingInv, At, ClientType
  <2>4. TickInv'
    BY <2>2 DEF TickInv
  <2>5. CASE wal[s]
    <3>1. UNCHANGED wal /\ client' = [client EXCEPT ![c].pc = "use"]
      BY <1>11, <2>5 DEF OpenLocked, Goto
    <3>2. \A d \in Clients, t \in Shards : (Busy(d, t)' => Busy(d, t)) /\ (FlagSet(d, t)' => FlagSet(d, t))
      BY <2>1, <2>2, <3>1 DEF Busy, FlagSet, Opening, Owner, ClientType
    <3>3. QED
      BY <1>0, <2>1, <2>2, <2>3, <2>4, <3>1, <3>2, NobodyNew DEF IInv
  <2>6. CASE ~wal[s]
    <3>1. wal' = [wal EXCEPT ![s] = TRUE] /\ client' = [client EXCEPT ![c].pc = "setopen"]
      BY <1>11, <2>6 DEF OpenLocked, Goto
    <3>2. \A d \in Clients, t \in Shards :
              (Busy(d, t)' => Busy(d, t) \/ (d = c /\ t = s)) /\ (FlagSet(d,
              t)' => FlagSet(d, t))
      BY <2>1, <2>2, <3>1 DEF Busy, FlagSet, Opening, Owner, ClientType
    <3>3. \A d \in Clients : ~Busy(d, s)
      BY <2>1, <2>6 DEF BusyInv
    <3>4. wal \in [Shards -> BOOLEAN]
      BY DEF Typed
    <3>5. ListInv'
      BY <2>1, <2>2, <2>6, <3>1, <3>2, <3>4 DEF ListInv, Live
    <3>6. BusyInv'
      <4>1. ASSUME NEW t \in Shards, NEW d \in Clients, Busy(d, t)', t # s
            PROVE  wal'[t] /\ (\A e \in Clients : Busy(e, t)' => d = e) /\ (FlagSet(d, t)' => open'[t])
        BY <2>1, <2>2, <3>1, <3>2, <3>4, <4>1 DEF BusyInv
      <4>2. ASSUME NEW t \in Shards, NEW d \in Clients, Busy(d, t)', t = s
            PROVE  wal'[t] /\ (\A e \in Clients : Busy(e, t)' => d = e) /\ ~FlagSet(d, t)'
        <5>1. d = c /\ \A e \in Clients : Busy(e, t)' => e = c
          BY <2>1, <3>2, <3>3, <4>2
        <5>2. FlagSet(d, t) => Busy(d, t)
          BY DEF FlagSet, Busy, Opening, Owner
        <5>3. QED
          BY <2>1, <3>1, <3>2, <3>3, <3>4, <4>2, <5>1, <5>2
      <4>3. QED
        BY <2>1, <2>2, <4>1, <4>2 DEF BusyInv
    <3>7. QED
      BY <1>0, <2>3, <2>4, <3>5, <3>6 DEF IInv
  <2>7. QED
    BY <2>5, <2>6
<1>12. ASSUME NEW c \in Clients, SetOpen(c) PROVE IInv'
  <2> DEFINE s == client[c].shard
  <2>1. /\ s \in Shards /\ client \in [Clients -> ClientType] /\ listed \in SUBSET Shards
        /\ open \in [Shards -> BOOLEAN]
    BY DEF Typed, ClientType
  <2>2. /\ UNCHANGED <<wal, listed, tick, gor, closing>> /\ At(c, "setopen")
        /\ open' = [open EXCEPT ![s] = TRUE] /\ client' = [client EXCEPT ![c].pc = "makechan"]
    BY <1>12 DEF SetOpen, Goto, tickVars
  <2>3. ClosingInv'
    BY <2>1, <2>2 DEF ClosingInv, At, ClientType
  <2>4. TickInv'
    BY <2>2 DEF TickInv
  <2>5. \A d \in Clients, t \in Shards :
            (Busy(d, t)' => Busy(d, t)) /\ (FlagSet(d, t)' => FlagSet(d, t) \/ t = s)
    BY <2>1, <2>2 DEF Busy, FlagSet, Opening, Owner, At, ClientType
  <2>6. \A t \in Shards : open[t] \/ t = s => open'[t]
    BY <2>1, <2>2
  <2>7. ListInv'
    BY <2>1, <2>2, <2>5, <2>6 DEF ListInv, Live
  <2>8. BusyInv'
    BY <2>2, <2>5, <2>6 DEF BusyInv
  <2>9. QED
    BY <1>0, <2>3, <2>4, <2>7, <2>8 DEF IInv
<1>13. ASSUME NEW c \in Clients, MakeChan(c) PROVE IInv'
  <2>1. ClosingInv'
    BY <1>13 DEF MakeChan, Goto, ClosingInv, At, ClientType, Typed
  <2>2. UNCHANGED <<open, wal, listed, tick, gor>>
    BY <1>13 DEF MakeChan, tickVars
  <2>3. \A d \in Clients, t \in Shards : (Busy(d, t)' => Busy(d, t)) /\ (FlagSet(d, t)' => FlagSet(d, t))
    BY <1>13 DEF MakeChan, Goto, Busy, FlagSet, Opening, Owner, At, ClientType, Typed
  <2>4. ListInv' /\ BusyInv'
    BY <2>2, <2>3, NobodyNew DEF Typed
  <2>5. TickInv'
    BY <2>2 DEF TickInv
  <2>6. QED
    BY <1>0, <2>1, <2>4, <2>5 DEF IInv
<1>14. ASSUME NEW c \in Clients, Rollback(c) PROVE IInv'
  <2>1. ClosingInv'
    BY <1>14 DEF Rollback, Goto, ClosingInv, At, ClientType, Typed
  <2>2. UNCHANGED <<open, wal, listed, tick, gor>>
    BY <1>14 DEF Rollback, shardVars, tickVars
  <2>3. \A d \in Clients, t \in Shards : (Busy(d, t)' => Busy(d, t)) /\ (FlagSet(d, t)' => FlagSet(d, t))
    BY <1>14 DEF Rollback, Goto, Busy, FlagSet, Opening, Owner, At, ClientType, Typed
  <2>4. ListInv' /\ BusyInv'
    BY <2>2, <2>3, NobodyNew DEF Typed
  <2>5. TickInv'
    BY <2>2 DEF TickInv
  <2>6. QED
    BY <1>0, <2>1, <2>4, <2>5 DEF IInv
<1>15. ASSUME NEW c \in Clients, RollbackFails(c) PROVE IInv'
  <2>1. ClosingInv'
    BY <1>15 DEF RollbackFails, Goto, ClosingInv, At, ClientType, Typed
  <2>2. UNCHANGED <<open, wal, listed, tick, gor>>
    BY <1>15 DEF RollbackFails, shardVars, tickVars
  <2>3. \A d \in Clients, t \in Shards : (Busy(d, t)' => Busy(d, t)) /\ (FlagSet(d, t)' => FlagSet(d, t))
    BY <1>15 DEF RollbackFails, Goto, Busy, FlagSet, Opening, Owner, At, ClientType, Typed
  <2>4. ListInv' /\ BusyInv'
    BY <2>2, <2>3, NobodyNew DEF Typed
  <2>5. TickInv'
    BY <2>2 DEF TickInv
  <2>6. QED
    BY <1>0, <2>1, <2>4, <2>5 DEF IInv
<1>16. ASSUME NEW c \in Clients, Add(c) PROVE IInv'
  <2> DEFINE s == client[c].shard
  <2>1. s \in Shards /\ client \in [Clients -> ClientType] /\ listed \in SUBSET Shards
    BY DEF Typed, ClientType
  <2>2. /\ UNCHANGED <<open, wal, tick, gor, closing>> /\ At(c, "add")
        /\ listed' = listed \cup {s} /\ client' = [client EXCEPT ![c].pc = "use"]
    BY <1>16 DEF Add, Goto, shardVars, tickVars
  <2>3. ClosingInv'
    BY <2>1, <2>2 DEF ClosingInv, At, ClientType
  <2>4. TickInv'
    BY <2>2 DEF TickInv
  <2>5. \A d \in Clients, t \in Shards :
            (Busy(d, t)' => Busy(d, t) /\ d # c) /\ (FlagSet(d, t)' => FlagSet(d, t))
    BY <2>1, <2>2 DEF Busy, FlagSet, Opening, Owner, ClosingInv, At, ClientType
  <2>6. Busy(c, s) /\ FlagSet(c, s)
    BY <2>2 DEF Busy, FlagSet, Opening, At
  <2>7. wal[s] /\ open[s] /\ \A d \in Clients : Busy(d, s) => c = d
    BY <2>1, <2>6 DEF BusyInv
  <2>8. Live(s)'
    BY <2>1, <2>2, <2>5, <2>7 DEF Live
  <2>9. ListInv'
    BY <2>1, <2>2, <2>5, <2>8 DEF ListInv, Live
  <2>10. BusyInv'
    BY <2>2, <2>5 DEF BusyInv
  <2>11. QED
    BY <1>0, <2>3, <2>4, <2>9, <2>10 DEF IInv
<1>17. ASSUME NEW c \in Clients, Append(c) PROVE IInv'
  <2>1. ClosingInv'
    BY <1>17 DEF Append, Idle, ClosingInv, At, ClientType, Typed
  <2>2. UNCHANGED <<open, wal, listed, tick, gor>>
    BY <1>17 DEF Append, tickVars
  <2>3. \A d \in Clients, t \in Shards : (Busy(d, t)' => Busy(d, t)) /\ (FlagSet(d, t)' => FlagSet(d, t))
    BY <1>17 DEF Append, Idle, Busy, FlagSet, Opening, Owner, At, ClientType, Typed
  <2>4. ListInv' /\ BusyInv'
    BY <2>2, <2>3, NobodyNew DEF Typed
  <2>5. TickInv'
    BY <2>2 DEF TickInv
  <2>6. QED
    BY <1>0, <2>1, <2>4, <2>5 DEF IInv
<1>18. ASSUME NEW c \in Clients, Look(c) PROVE IInv'
  <2>1. ClosingInv'
    BY <1>18 DEF Look, Idle, ClosingInv, At, ClientType, Typed
  <2>2. UNCHANGED <<open, wal, listed, tick, gor>>
    BY <1>18 DEF Look, shardVars, tickVars
  <2>3. \A d \in Clients, t \in Shards : (Busy(d, t)' => Busy(d, t)) /\ (FlagSet(d, t)' => FlagSet(d, t))
    BY <1>18 DEF Look, Idle, Busy, FlagSet, Opening, Owner, At, ClientType, Typed
  <2>4. ListInv' /\ BusyInv'
    BY <2>2, <2>3, NobodyNew DEF Typed
  <2>5. TickInv'
    BY <2>2 DEF TickInv
  <2>6. QED
    BY <1>0, <2>1, <2>4, <2>5 DEF IInv
<1>19. ASSUME NEW c \in Clients, Refresh(c) PROVE IInv'
  <2>1. ClosingInv'
    BY <1>19 DEF Refresh, Begin, AllClose, Idle, ClosingInv, At, ClientType, CloseType,
       Typed
  <2>2. UNCHANGED <<open, wal, listed, tick, gor>>
    BY <1>19 DEF Refresh, Begin, shardVars, tickVars
  <2>3. \A d \in Clients, t \in Shards : (Busy(d, t)' => Busy(d, t)) /\ (FlagSet(d, t)' => FlagSet(d, t))
    BY <1>19 DEF Refresh, Begin, AllClose, Idle, Busy, FlagSet, Opening, Owner, At,
       ClientType, CloseType, Typed
  <2>4. ListInv' /\ BusyInv'
    BY <2>2, <2>3, NobodyNew DEF Typed
  <2>5. TickInv'
    BY <2>2 DEF TickInv
  <2>6. QED
    BY <1>0, <2>1, <2>4, <2>5 DEF IInv
<1>20. ASSUME NEW c \in Clients, DeleteIndex(c) PROVE IInv'
  <2>1. ClosingInv'
    BY <1>20 DEF DeleteIndex, Begin, Idle, ClosingInv, At, ClientType, Typed
  <2>2. UNCHANGED <<open, wal, listed, tick, gor>>
    BY <1>20 DEF DeleteIndex, Begin, shardVars, tickVars
  <2>3. \A d \in Clients, t \in Shards : (Busy(d, t)' => Busy(d, t)) /\ (FlagSet(d, t)' => FlagSet(d, t))
    BY <1>20 DEF DeleteIndex, Begin, Idle, Busy, FlagSet, Opening, Owner, At, ClientType,
       Typed
  <2>4. ListInv' /\ BusyInv'
    BY <2>2, <2>3, NobodyNew DEF Typed
  <2>5. TickInv'
    BY <2>2 DEF TickInv
  <2>6. QED
    BY <1>0, <2>1, <2>4, <2>5 DEF IInv
<1>21. ASSUME NEW c \in Clients, DeleteLocks(c) PROVE IInv'
  <2>1. ClosingInv'
    BY <1>21 DEF DeleteLocks, AllClose, Goto, ClosingInv, At, ClientType, CloseType, Typed
  <2>2. UNCHANGED <<open, wal, listed, tick, gor>>
    BY <1>21 DEF DeleteLocks, shardVars, tickVars
  <2>3. \A d \in Clients, t \in Shards : (Busy(d, t)' => Busy(d, t)) /\ (FlagSet(d, t)' => FlagSet(d, t))
    BY <1>21 DEF DeleteLocks, AllClose, Goto, Busy, FlagSet, Opening, Owner, At,
       ClientType, CloseType, Typed
  <2>4. ListInv' /\ BusyInv'
    BY <2>2, <2>3, NobodyNew DEF Typed
  <2>5. TickInv'
    BY <2>2 DEF TickInv
  <2>6. QED
    BY <1>0, <2>1, <2>4, <2>5 DEF IInv
<1>22. ASSUME NEW c \in Clients, Refreshed(c) PROVE IInv'
  <2>1. ClosingInv'
    BY <1>22 DEF Refreshed, Idle, AllClosed, ClosingInv, At, ClientType, Typed
  <2>2. UNCHANGED <<open, wal, listed, tick, gor>>
    BY <1>22 DEF Refreshed, shardVars, tickVars
  <2>3. \A d \in Clients, t \in Shards : (Busy(d, t)' => Busy(d, t)) /\ (FlagSet(d, t)' => FlagSet(d, t))
    BY <1>22 DEF Refreshed, Idle, AllClosed, Busy, FlagSet, Opening, Owner, At,
       ClientType, Typed
  <2>4. ListInv' /\ BusyInv'
    BY <2>2, <2>3, NobodyNew DEF Typed
  <2>5. TickInv'
    BY <2>2 DEF TickInv
  <2>6. QED
    BY <1>0, <2>1, <2>4, <2>5 DEF IInv
<1>23. ASSUME NEW c \in Clients, DeleteUnlocks(c) PROVE IInv'
  <2>1. ClosingInv'
    BY <1>23 DEF DeleteUnlocks, Goto, AllClosed, ClosingInv, At, ClientType, Typed
  <2>2. UNCHANGED <<open, wal, listed, tick, gor>>
    BY <1>23 DEF DeleteUnlocks, shardVars, tickVars
  <2>3. \A d \in Clients, t \in Shards : (Busy(d, t)' => Busy(d, t)) /\ (FlagSet(d, t)' => FlagSet(d, t))
    BY <1>23 DEF DeleteUnlocks, Goto, AllClosed, Busy, FlagSet, Opening, Owner, At,
       ClientType, Typed
  <2>4. ListInv' /\ BusyInv'
    BY <2>2, <2>3, NobodyNew DEF Typed
  <2>5. TickInv'
    BY <2>2 DEF TickInv
  <2>6. QED
    BY <1>0, <2>1, <2>4, <2>5 DEF IInv
<1>24. ASSUME NEW c \in Clients, DeleteFiles(c) PROVE IInv'
  <2>1. ClosingInv'
    BY <1>24 DEF DeleteFiles, Goto, ClosingInv, At, ClientType, Typed
  <2>2. UNCHANGED <<open, wal, listed, tick, gor>>
    BY <1>24 DEF DeleteFiles, tickVars
  <2>3. \A d \in Clients, t \in Shards : (Busy(d, t)' => Busy(d, t)) /\ (FlagSet(d, t)' => FlagSet(d, t))
    BY <1>24 DEF DeleteFiles, Goto, Busy, FlagSet, Opening, Owner, At, ClientType, Typed
  <2>4. ListInv' /\ BusyInv'
    BY <2>2, <2>3, NobodyNew DEF Typed
  <2>5. TickInv'
    BY <2>2 DEF TickInv
  <2>6. QED
    BY <1>0, <2>1, <2>4, <2>5 DEF IInv
<1>25. ASSUME NEW c \in Clients, DeleteMetadata(c) PROVE IInv'
  <2>1. ClosingInv'
    BY <1>25 DEF DeleteMetadata, Idle, ClosingInv, At, ClientType, Typed
  <2>2. UNCHANGED <<open, wal, listed, tick, gor>>
    BY <1>25 DEF DeleteMetadata, shardVars, tickVars
  <2>3. \A d \in Clients, t \in Shards : (Busy(d, t)' => Busy(d, t)) /\ (FlagSet(d, t)' => FlagSet(d, t))
    BY <1>25 DEF DeleteMetadata, Idle, Busy, FlagSet, Opening, Owner, At, ClientType, Typed
  <2>4. ListInv' /\ BusyInv'
    BY <2>2, <2>3, NobodyNew DEF Typed
  <2>5. TickInv'
    BY <2>2 DEF TickInv
  <2>6. QED
    BY <1>0, <2>1, <2>4, <2>5 DEF IInv
<1>26. ASSUME NEW c \in Clients, NEW s \in Shards, CloseCheck(c, s) PROVE IInv'
  <2>1. closing \in [Clients -> [Shards -> CloseType]] /\ listed \in SUBSET Shards
    BY DEF Typed
  <2>2. UNCHANGED <<open, wal, listed, tick, gor, client>> /\ closing[c][s].pc = "check"
    BY <1>26 DEF CloseCheck, shardVars, tickVars
  <2>3. PICK r \in {[pc |-> "send", chan |-> chan[s]], [pc |-> "no", chan |-> 0]} :
            closing' = [closing EXCEPT ![c][s] = r]
    BY <1>26 DEF CloseCheck, NotClosing
  <2>4. r.pc \in {"send", "no"}
    OBVIOUS
  <2>5. ClosingInv'
    BY <2>1, <2>2, <2>3 DEF ClosingInv, At
  <2>6. TickInv'
    BY <2>2 DEF TickInv
  <2>7. \A d \in Clients, t \in Shards : (Busy(d, t)' => Busy(d, t)) /\ (FlagSet(d, t)' => FlagSet(d, t))
    BY <2>1, <2>2, <2>3, <2>4 DEF Busy, FlagSet, Opening, Owner
  <2>8. QED
    BY <1>0, <2>1, <2>2, <2>5, <2>6, <2>7, NobodyNew DEF IInv
<1>27. ASSUME NEW c \in Clients, NEW s \in Shards, CloseZero(c, s) PROVE IInv'
  <2>1. /\ closing \in [Clients -> [Shards -> CloseType]] /\ listed \in SUBSET Shards
        /\ open \in [Shards -> BOOLEAN]
    BY DEF Typed
  <2>2. /\ UNCHANGED <<wal, listed, tick, gor, client>> /\ closing[c][s].pc = "zero"
        /\ open' = [open EXCEPT ![s] = FALSE] /\ closing' = [closing EXCEPT ![c][s].pc = "lock"]
    BY <1>27 DEF CloseZero, tickVars
  <2>3. ClosingInv'
    BY <2>1, <2>2 DEF ClosingInv, At
  <2>4. TickInv'
    BY <2>2 DEF TickInv
  <2>5. \A d \in Clients, t \in Shards :
            /\ Busy(d, t)' => Busy(d, t)
            /\ FlagSet(d, t)' => FlagSet(d, t) /\ ~(d = c /\ t = s)
    BY <2>1, <2>2 DEF Busy, FlagSet, Opening, Owner, ClosingInv, At, CloseType
  <2>6. Busy(c, s) /\ \A d \in Clients : FlagSet(d, s) => d = c
    BY <2>2 DEF BusyInv, Busy, FlagSet, Opening, Owner
  <2>7. ListInv'
    BY <2>1, <2>2, <2>5, <2>6 DEF ListInv, Live
  <2>8. BusyInv'
    BY <2>1, <2>2, <2>5, <2>6 DEF BusyInv
  <2>9. QED
    BY <1>0, <2>3, <2>4, <2>7, <2>8 DEF IInv
<1>28. ASSUME NEW c \in Clients, NEW s \in Shards, CloseLocked(c, s) PROVE IInv'
  <2>1. ClosingInv'
    BY <1>28 DEF CloseLocked, NotClosing, ClosingInv, At, CloseType, Typed
  <2>2. TickInv'
    BY <1>28 DEF CloseLocked, tickVars, TickInv
  <2>3. ListInv'
    BY <1>28 DEF CloseLocked, NotClosing, tickVars, ListInv, Live, Busy, FlagSet,
       Opening, Owner, CloseType, Typed
  <2>4. BusyInv'
    BY <1>28 DEF CloseLocked, NotClosing, BusyInv, Busy, FlagSet, Opening, Owner,
       ClosingInv, At, CloseType, Typed
  <2>5. QED
    BY <1>0, <2>1, <2>2, <2>3, <2>4 DEF IInv
<1>29. ASSUME NEW c \in Clients, OpenFails(c) PROVE IInv'
  <2>1. ClosingInv'
    BY <1>29 DEF OpenFails, Goto, ClosingInv, At, ClientType, Typed
  <2>2. UNCHANGED <<open, wal, listed, tick, gor>>
    BY <1>29 DEF OpenFails, shardVars, tickVars
  <2>3. \A d \in Clients, t \in Shards : (Busy(d, t)' => Busy(d, t)) /\ (FlagSet(d, t)' => FlagSet(d, t))
    BY <1>29 DEF OpenFails, Goto, Busy, FlagSet, Opening, Owner, At, ClientType, Typed
  <2>4. ListInv' /\ BusyInv'
    BY <2>2, <2>3, NobodyNew DEF Typed
  <2>5. TickInv'
    BY <2>2 DEF TickInv
  <2>6. QED
    BY <1>0, <2>1, <2>4, <2>5 DEF IInv
<1>30. ASSUME NEW c \in Clients, NEW s \in Shards, CloseFails(c, s) PROVE IInv'
  <2>1. ClosingInv'
    BY <1>30 DEF CloseFails, NotClosing, ClosingInv, At, CloseType, Typed
  <2>2. UNCHANGED <<open, wal, listed, tick, gor>>
    BY <1>30 DEF CloseFails, shardVars, tickVars
  <2>3. \A d \in Clients, t \in Shards : (Busy(d, t)' => Busy(d, t)) /\ (FlagSet(d, t)' => FlagSet(d, t))
    BY <1>30 DEF CloseFails, NotClosing, Busy, FlagSet, Opening, Owner, CloseType, Typed
  <2>4. ListInv' /\ BusyInv'
    BY <2>2, <2>3, NobodyNew DEF Typed
  <2>5. TickInv'
    BY <2>2 DEF TickInv
  <2>6. QED
    BY <1>0, <2>1, <2>4, <2>5 DEF IInv
<1>31. QED
  BY <1>1, <1>2, <1>3, <1>4, <1>5, <1>6, <1>7, <1>8, <1>9, <1>10, <1>11, <1>12, <1>13,
     <1>14, <1>15, <1>16, <1>17, <1>18, <1>19, <1>20, <1>21, <1>22, <1>23, <1>24, <1>25, <1>26, <1>27, <1>28,
     <1>29, <1>30
  DEF Next, TickStep, ClientStep, OpenStep, DeleteStep, CloseStep

\* A step that changes nothing keeps the invariant.
LEMMA IInvStutter == IInv /\ UNCHANGED vars => IInv'
BY DEF vars, IInv, TypeOK, ClosingInv, TickInv, ListInv, BusyInv, Live, Busy, FlagSet,
   Opening, Owner, At

\* The inductive invariant says more than OneOwner.
LEMMA IInvOneOwner == IInv => OneOwner
<1> SUFFICES ASSUME IInv, NEW s \in Shards
    PROVE  /\ gor[s] = "consume" => wal[s] /\ \A c \in Clients : ~Opening(c, s) /\ ~Owner(c, s)
           /\ \A c \in Clients : Opening(c, s) \/ Owner(c, s) =>
               wal[s] /\ \A d \in Clients : Opening(d, s) \/ Owner(d, s) => c = d
  BY DEF OneOwner
<1>1. gor[s] = "consume" => wal[s] /\ \A c \in Clients : ~Opening(c, s) /\ ~Owner(c, s)
  BY DEF IInv, TickInv, ListInv, Live, Busy
<1>2. \A c \in Clients : Opening(c, s) \/ Owner(c, s) =>
          wal[s] /\ \A d \in Clients : Opening(d, s) \/ Owner(d, s) => c = d
  BY DEF IInv, BusyInv, Busy
<1>3. QED
  BY <1>1, <1>2

\* Whatever the numbers of shards and clients: a tick consumes a shard only while
\* nobody opens or closes it, and nobody opens a shard that another one opens or
\* closes.
THEOREM OneOwnerAlways == Spec => []OneOwner
  BY InitIInv, NextIInv, IInvOneOwner, IInvStutter, PTL DEF Spec
(***************************************************************************)
(* A deletion is final.  Stored again is what a tick does whose goroutine  *)
(* consumed something: that shard is then live until the tick has stored   *)
(* the index (UpdateInv and ListInv), and no shard is open once a deletion *)
(* has passed it (PassedInv).                                              *)
(***************************************************************************)
DeletePCs == {"delete", "closing", "remove files", "delete metadata"}

OpInv == \A c \in Clients : client[c].op = "delete" => client[c].pc \in DeletePCs

\* A shard that this tick consumed is still listed, and its Close has to wait for
\* the next tick.
UpdateInv ==
    /\ tick.pc \in {"idle", "list"} => tick.updated = {}
    /\ \A s \in tick.updated : s \in listed /\ s \notin tick.closed /\ gor[s] = "none"

\* Close has cleared the flag when it takes the lock.
LockInv == \A c \in Clients, s \in Shards : closing[c][s].pc = "lock" => ~open[s]

PassedInv == "opened after delete" \notin windows => \A s \in Shards : PassedByDelete(s) => ~open[s]

DInv == IInv /\ OpInv /\ UpdateInv /\ LockInv /\ PassedInv /\ DeletedStaysDeleted

\* What no step of a tick changes.
LEMMA TickEffect == TickStep => UNCHANGED <<open, client, cached, windows>>
BY DEF TickStep, TickLen, TickList, TickWait, TickUpdate, SelectClose, SelectDefault, Consume, TickRemove,
   shardVars, indexVars

\* What no step of a client changes: the tick, and what other clients do.
LEMMA ClientEffect ==
    ASSUME Typed, NEW c \in Clients, ClientStep(c)
    PROVE  /\ UNCHANGED <<tick, gor>> /\ listed \subseteq listed' /\ windows \subseteq windows'
           /\ \A d \in Clients : d # c => client'[d] = client[d] /\ closing'[d] = closing[d]
<1> USE DEF Typed
<1>1. CASE Use(c)
  BY <1>1 DEF Use, Begin, tickVars
<1>2. CASE OpenStep(c)
  BY <1>2 DEF OpenStep, OpenCheck, OpenLocked, SetOpen, MakeChan, Rollback, Add, Goto, tickVars
<1>3. CASE OpenFails(c) \/ RollbackFails(c) \/ Append(c) \/ Look(c)
  BY <1>3 DEF OpenFails, RollbackFails, Append, Look, Goto, tickVars
<1>4. CASE Refresh(c) \/ DeleteIndex(c)
  BY <1>4 DEF Refresh, DeleteIndex, Begin, AllClose, tickVars
<1>5. CASE DeleteStep(c)
  BY <1>5 DEF DeleteStep, DeleteLocks, Refreshed, DeleteUnlocks, DeleteFiles, DeleteMetadata, AllClose, Goto, tickVars
<1>6. ASSUME NEW s \in Shards, CloseStep(c, s) \/ CloseFails(c, s)
      PROVE  /\ UNCHANGED <<tick, gor>> /\ listed \subseteq listed' /\ windows \subseteq windows'
             /\ \A d \in Clients : d # c => client'[d] = client[d] /\ closing'[d] = closing[d]
  BY <1>6 DEF CloseStep, CloseCheck, CloseZero, CloseLocked, CloseFails, tickVars
<1> QED
  BY <1>1, <1>2, <1>3, <1>4, <1>5, <1>6 DEF ClientStep

\* A client that deletes is at one of the steps of a deletion.
LEMMA OpNext == Typed /\ OpInv /\ Next => OpInv'
<1> SUFFICES ASSUME Typed, OpInv, Next PROVE OpInv'
  OBVIOUS
<1>1. CASE TickStep
  BY <1>1, TickEffect DEF OpInv
<1>2. ASSUME NEW c \in Clients, ClientStep(c) PROVE OpInv'
  <2>1. SUFFICES client'[c].op = "delete" => client'[c].pc \in DeletePCs
    BY <1>2, ClientEffect DEF OpInv
  <2>2. client[c] \in ClientType /\ client \in [Clients -> ClientType]
    BY DEF Typed
  <2>3. CASE Use(c)
    <3>1. PICK s \in Shards : client' = [client EXCEPT ![c] = [op |-> "use", shard |-> s, pc |-> "open"]]
      BY <2>3 DEF Use, Begin
    <3> QED
      BY <2>2, <3>1
  <2>4. CASE Refresh(c) \/ DeleteIndex(c)
    <3>1. \/ client' = [client EXCEPT ![c] = [op |-> "refresh", shard |-> Idle.shard, pc |-> "closing"]]
          \/ client' = [client EXCEPT ![c] = [op |-> "delete", shard |-> Idle.shard, pc |-> "delete"]]
      BY <2>4 DEF Refresh, DeleteIndex, Begin
    <3>2. \/ client'[c] = [op |-> "refresh", shard |-> Idle.shard, pc |-> "closing"]
          \/ client'[c] = [op |-> "delete", shard |-> Idle.shard, pc |-> "delete"]
      BY <2>2, <3>1
    <3>3. CASE client'[c] = [op |-> "refresh", shard |-> Idle.shard, pc |-> "closing"]
      BY <3>3
    <3>4. CASE client'[c] = [op |-> "delete", shard |-> Idle.shard, pc |-> "delete"]
      BY <3>4 DEF DeletePCs
    <3> QED
      BY <3>2, <3>3, <3>4
  <2>5. CASE OpenStep(c) \/ OpenFails(c) \/ RollbackFails(c)
    <3>1. client[c].pc \in {"open", "openlock", "setopen", "makechan", "rollback", "add"}
      BY <2>5 DEF OpenStep, OpenCheck, OpenLocked, SetOpen, MakeChan, Rollback, Add, OpenFails, RollbackFails, At
    <3>2. client[c].op # "delete"
      BY <3>1 DEF OpInv, DeletePCs
    <3>3. \E p \in ClientPCs : client' = [client EXCEPT ![c].pc = p]
      BY <2>5 DEF OpenStep, OpenCheck, OpenLocked, SetOpen, MakeChan, Rollback, Add, OpenFails, RollbackFails, Goto, ClientPCs
    <3>4. client'[c].op = client[c].op
      BY <2>2, <3>3 DEF ClientType
    <3> QED
      BY <3>2, <3>4
  <2>6. CASE Append(c) \/ Look(c) \/ Refreshed(c) \/ DeleteMetadata(c)
    <3>1. client'[c] = Idle
      BY <2>2, <2>6 DEF Append, Look, Refreshed, DeleteMetadata
    <3> QED
      BY <3>1 DEF Idle
  <2>7. CASE DeleteLocks(c) \/ DeleteUnlocks(c) \/ DeleteFiles(c)
    <3>1. PICK p \in DeletePCs : client' = [client EXCEPT ![c].pc = p]
      BY <2>7 DEF DeleteLocks, DeleteUnlocks, DeleteFiles, Goto, DeletePCs
    <3> QED
      BY <2>2, <3>1 DEF ClientType
  <2>8. CASE \E s \in Shards : CloseStep(c, s) \/ CloseFails(c, s)
    BY <2>8 DEF CloseStep, CloseCheck, CloseZero, CloseLocked, CloseFails, OpInv
  <2> QED
    BY <1>2, <2>3, <2>4, <2>5, <2>6, <2>7, <2>8 DEF ClientStep, DeleteStep
<1> QED
  BY <1>1, <1>2 DEF Next

\* A shard that was consumed in this tick stays listed until the tick is over.
LEMMA UpdateNext == IInv /\ UpdateInv /\ Next => UpdateInv'
<1> SUFFICES ASSUME IInv, UpdateInv, Next PROVE UpdateInv'
  OBVIOUS
<1>0. Typed /\ tick \in TickType /\ gor \in GorType
  BY TypeOKParts DEF IInv, Typed
<1>1. ASSUME NEW c \in Clients, ClientStep(c) PROVE UpdateInv'
  BY <1>0, <1>1, ClientEffect DEF UpdateInv
<1>2. CASE TickLen \/ TickUpdate
  <2>1. tick'.updated = {}
    <3>1. CASE TickLen
      BY <3>1 DEF TickLen
    <3>2. CASE TickUpdate
      BY <1>0, <3>2 DEF TickUpdate, TickType
    <3> QED
      BY <1>2, <3>1, <3>2
  <2> QED
    BY <2>1 DEF UpdateInv
<1>3. CASE TickList
  BY <1>0, <1>3 DEF TickList, UpdateInv, TickType
<1>4. CASE TickWait
  BY <1>0, <1>4 DEF TickWait, UpdateInv, TickType
<1>5. ASSUME NEW s \in Shards, SelectClose(s) PROVE UpdateInv'
  <2>1. gor[s] = "select" /\ s \notin tick.updated /\ listed' = listed /\ tick.pc = "run"
    BY <1>5 DEF SelectClose, UpdateInv, IInv, TickInv
  <2>2. tick'.updated = tick.updated /\ tick'.pc = tick.pc /\ tick'.closed \subseteq tick.closed \cup {s}
    BY <1>0, <1>5 DEF SelectClose, TickType
  <2>3. \A t \in Shards : t # s => gor'[t] = gor[t]
    BY <1>0, <1>5 DEF SelectClose, GorType
  <2> QED
    BY <1>0, <2>1, <2>2, <2>3 DEF UpdateInv, TickType
<1>6. ASSUME NEW s \in Shards, SelectDefault(s) PROVE UpdateInv'
  <2>1. s \notin tick.updated /\ UNCHANGED <<listed, tick>> /\ \A t \in Shards : t # s => gor'[t] = gor[t]
    BY <1>0, <1>6 DEF SelectDefault, UpdateInv, GorType
  <2> QED
    BY <1>0, <2>1 DEF UpdateInv, TickType
<1>7. ASSUME NEW s \in Shards, Consume(s) PROVE UpdateInv'
  <2>1. /\ s \notin tick.updated /\ listed' = listed /\ s \in listed /\ s \notin tick.closed /\ tick.pc = "run"
    BY <1>7 DEF Consume, UpdateInv, IInv, TickInv
  <2>2. /\ tick'.pc = tick.pc /\ tick'.closed = tick.closed
        /\ tick'.updated = tick.updated \/ (tick'.updated = tick.updated \cup {s} /\ gor'[s] = "none")
    BY <1>0, <1>7 DEF Consume, Sent, TickType, GorType
  <2>3. \A t \in Shards : t # s => gor'[t] = gor[t]
    BY <1>0, <1>7 DEF Consume, GorType
  <2> QED
    BY <1>0, <2>1, <2>2, <2>3 DEF UpdateInv, TickType
<1>8. ASSUME NEW s \in Shards, TickRemove(s) PROVE UpdateInv'
  BY <1>0, <1>8 DEF TickRemove, UpdateInv, TickType
<1> QED
  BY <1>1, <1>2, <1>3, <1>4, <1>5, <1>6, <1>7, <1>8 DEF Next, TickStep

\* The flag of a shard whose Close holds the lock is set by nobody: to open it is
\* to have the shard for oneself.
LEMMA LockNext == IInv /\ LockInv /\ Next => LockInv'
<1> SUFFICES ASSUME IInv, LockInv, Next PROVE LockInv'
  OBVIOUS
<1>0. Typed /\ closing \in [Clients -> [Shards -> CloseType]] /\ open \in [Shards -> BOOLEAN]
      /\ client \in [Clients -> ClientType]
  BY TypeOKParts DEF IInv, Typed
<1>1. CASE TickStep
  <2>1. \A c \in Clients, s \in Shards : closing'[c][s].pc = "lock" => closing[c][s].pc = "lock"
    <3>1. closing' = closing \/ \E d \in Clients, u \in Shards : closing' = [closing EXCEPT ![d][u].pc = "zero"]
      BY <1>1 DEF TickStep, TickLen, TickList, TickWait, TickUpdate, SelectClose, SelectDefault, Consume, TickRemove
    <3>2. ASSUME NEW d \in Clients, NEW u \in Shards, closing' = [closing EXCEPT ![d][u].pc = "zero"]
          PROVE  \A c \in Clients, s \in Shards : closing'[c][s].pc = "lock" => closing[c][s].pc = "lock"
      BY <1>0, <3>2 DEF CloseType
    <3> QED
      BY <3>1, <3>2
  <2> QED
    BY <1>1, <2>1, TickEffect DEF LockInv
<1>2. ASSUME NEW c \in Clients, SetOpen(c) PROVE LockInv'
  <2> DEFINE t == client[c].shard
  <2>1. /\ t \in Shards /\ closing' = closing /\ open' = [open EXCEPT ![t] = TRUE]
        /\ client[c].pc = "setopen"
    BY <1>0, <1>2 DEF SetOpen, At, ClientType
  <2>2. \A d \in Clients : closing[d][t].pc # "lock"
    <3> SUFFICES ASSUME NEW d \in Clients, closing[d][t].pc = "lock" PROVE FALSE
      OBVIOUS
    <3>1. Busy(c, t) /\ Busy(d, t)
      BY <2>1 DEF Busy, Opening, Owner
    <3>2. c = d
      BY <2>1, <3>1 DEF IInv, BusyInv
    <3> QED
      BY <2>1, <3>2 DEF IInv, ClosingInv, At
  <2> QED
    BY <1>0, <2>1, <2>2 DEF LockInv
<1>3. ASSUME NEW c \in Clients, NEW s \in Shards, CloseZero(c, s) PROVE LockInv'
  BY <1>0, <1>3 DEF CloseZero, LockInv, CloseType
<1>4. ASSUME NEW c \in Clients, NEW s \in Shards, CloseCheck(c, s) \/ CloseLocked(c, s) \/ CloseFails(c, s) PROVE LockInv'
  <2>1. open' = open
    BY <1>4 DEF CloseCheck, CloseLocked, CloseFails, shardVars
  <2>2. \A d \in Clients, u \in Shards : closing'[d][u].pc = "lock" => closing[d][u].pc = "lock"
    <3>1. PICK r \in {[pc |-> "send", chan |-> chan[s]], [pc |-> "no", chan |-> 0]} :
              closing' = [closing EXCEPT ![c][s] = r]
      BY <1>4 DEF CloseCheck, CloseLocked, CloseFails, NotClosing
    <3>2. r.pc # "lock"
      OBVIOUS
    <3> QED
      BY <1>0, <3>1, <3>2
  <2> QED
    BY <2>1, <2>2 DEF LockInv
<1>5. ASSUME NEW c \in Clients, Refresh(c) \/ DeleteLocks(c) PROVE LockInv'
  <2>1. open' = open
    BY <1>5 DEF Refresh, DeleteLocks, shardVars
  <2>2. \A d \in Clients, u \in Shards : closing'[d][u].pc = "lock" => closing[d][u].pc = "lock"
    <3>1. closing' = closing \/ closing' = [closing EXCEPT ![c] = [s \in Shards |-> [pc |-> "check", chan |-> 0]]]
      BY <1>5 DEF Refresh, DeleteLocks, AllClose
    <3>2. CASE closing' = [closing EXCEPT ![c] = [s \in Shards |-> [pc |-> "check", chan |-> 0]]]
      BY <1>0, <3>2
    <3> QED
      BY <3>1, <3>2
  <2> QED
    BY <2>1, <2>2 DEF LockInv
<1>6. ASSUME NEW c \in Clients,
             \/ Use(c) \/ OpenCheck(c) \/ OpenLocked(c) \/ MakeChan(c) \/ Rollback(c) \/ Add(c) \/ OpenFails(c) \/ RollbackFails(c)
             \/ Append(c) \/ Look(c) \/ DeleteIndex(c) \/ Refreshed(c) \/ DeleteUnlocks(c) \/ DeleteFiles(c)
             \/ DeleteMetadata(c)
      PROVE  LockInv'
  <2>1. open' = open /\ closing' = closing
    BY <1>6 DEF Use, Begin, OpenCheck, OpenLocked, MakeChan, Rollback, Add, OpenFails, RollbackFails, Append, Look, DeleteIndex,
       Refreshed, DeleteUnlocks, DeleteFiles, DeleteMetadata, shardVars
  <2> QED
    BY <2>1 DEF LockInv
<1> QED
  BY <1>1, <1>2, <1>3, <1>4, <1>5, <1>6 DEF Next, ClientStep, OpenStep, DeleteStep, CloseStep

\* No shard is open that a deletion has passed: it found the shard closed, or its
\* own Close cleared the flag; and an opener that comes later is recorded.
LEMMA PassedNext == IInv /\ OpInv /\ LockInv /\ PassedInv /\ Next => PassedInv'
<1> SUFFICES ASSUME IInv, OpInv, LockInv, PassedInv, Next, "opened after delete" \notin windows',
                    NEW s \in Shards, PassedByDelete(s)', open'[s]
             PROVE  FALSE
  BY DEF PassedInv
<1>0. Typed /\ closing \in [Clients -> [Shards -> CloseType]] /\ open \in [Shards -> BOOLEAN]
      /\ client \in [Clients -> ClientType]
  BY TypeOKParts DEF IInv, Typed
<1>1. CASE TickStep
  <2>1. UNCHANGED <<open, client, cached, windows>>
    BY <1>1, TickEffect
  <2>2. \A d \in Clients : closing'[d][s].pc = "no" => closing[d][s].pc = "no"
    <3>1. closing' = closing \/ \E d \in Clients, u \in Shards : closing' = [closing EXCEPT ![d][u].pc = "zero"]
      BY <1>1 DEF TickStep, TickLen, TickList, TickWait, TickUpdate, SelectClose, SelectDefault, Consume, TickRemove
    <3>2. ASSUME NEW e \in Clients, NEW u \in Shards, closing' = [closing EXCEPT ![e][u].pc = "zero"]
          PROVE  \A d \in Clients : closing'[d][s].pc = "no" => closing[d][s].pc = "no"
      BY <1>0, <3>2 DEF CloseType
    <3> QED
      BY <3>1, <3>2
  <2> QED
    BY <2>1, <2>2 DEF PassedByDelete, At, PassedInv
<1>2. ASSUME NEW c \in Clients, ClientStep(c) PROVE FALSE
  <2>0. /\ "opened after delete" \notin windows
        /\ \A d \in Clients : d # c => client'[d] = client[d] /\ closing'[d] = closing[d]
    BY <1>0, <1>2, ClientEffect
  \* It was passed before, unless this step did it.
  <2>1. ASSUME cached' = cached, open'[s] => open[s],
               ~(client'[c].op = "delete" /\ client'[c].pc = "closing" /\ closing'[c][s].pc = "no")
                 \/ (client[c].op = "delete" /\ client[c].pc = "closing" /\ closing[c][s].pc = "no")
        PROVE  FALSE
    BY <2>0, <2>1 DEF PassedByDelete, At, PassedInv
  <2>2. CASE Use(c)
    <3>1. PICK t \in Shards : client' = [client EXCEPT ![c] = [op |-> "use", shard |-> t, pc |-> "open"]]
      BY <2>2 DEF Use, Begin
    <3>2. client'[c].op = "use"
      BY <1>0, <3>1
    <3> QED
      BY <2>1, <2>2, <3>2 DEF Use, indexVars, shardVars
  <2>3. CASE Refresh(c) \/ DeleteIndex(c)
    <3>1. client'[c].op = "refresh" \/ client'[c].pc = "delete"
      <4>1. CASE Refresh(c)
        BY <1>0, <4>1 DEF Refresh, Begin
      <4>2. CASE DeleteIndex(c)
        BY <1>0, <4>2 DEF DeleteIndex, Begin
      <4> QED
        BY <2>3, <4>1, <4>2
    <3>2. cached' = cached /\ open' = open
      BY <2>3 DEF Refresh, DeleteIndex, indexVars, shardVars
    <3> QED
      BY <2>1, <3>1, <3>2
  <2>4. CASE OpenCheck(c) \/ OpenLocked(c) \/ MakeChan(c) \/ Rollback(c) \/ Add(c) \/ OpenFails(c) \/ RollbackFails(c) \/ DeleteFiles(c)
    <3>1. PICK p \in ClientPCs \ {"closing"} : client' = [client EXCEPT ![c].pc = p]
      BY <2>4 DEF OpenCheck, OpenLocked, MakeChan, Rollback, Add, OpenFails, RollbackFails, DeleteFiles, Goto, ClientPCs
    <3>2. client'[c].pc # "closing"
      BY <1>0, <3>1 DEF ClientType
    <3>3. cached' = cached /\ open' = open
      BY <2>4 DEF OpenCheck, OpenLocked, MakeChan, Rollback, Add, OpenFails, RollbackFails, DeleteFiles, indexVars, shardVars
    <3> QED
      BY <2>1, <3>2, <3>3
  <2>5. CASE Append(c) \/ Look(c) \/ Refreshed(c) \/ DeleteMetadata(c)
    <3>1. client'[c] = Idle
      BY <1>0, <2>5 DEF Append, Look, Refreshed, DeleteMetadata
    <3>2. client'[c].op # "delete"
      <4>1. Idle.op = "none"
        BY DEF Idle
      <4> QED
        BY <3>1, <4>1
    <3>3. cached' = cached /\ open' = open
      BY <2>5 DEF Append, Look, Refreshed, DeleteMetadata, indexVars, shardVars
    <3> QED
      BY <2>1, <3>2, <3>3
  <2>6. CASE SetOpen(c)
    <3> DEFINE t == client[c].shard
    <3>1. t \in Shards /\ ~PassedByDelete(t) /\ open' = [open EXCEPT ![t] = TRUE] /\ closing' = closing /\ cached' = cached
      BY <1>0, <2>6 DEF SetOpen, ClientType, indexVars
    <3>2. client'[c].pc = "makechan"
      BY <1>0, <2>6 DEF SetOpen, Goto, ClientType
    <3>3. PassedByDelete(s)
      BY <2>0, <3>1, <3>2 DEF PassedByDelete, At
    <3>4. open'[s] = open[s]
      BY <1>0, <3>1, <3>3
    <3> QED
      BY <2>1, <3>1, <3>2, <3>4
  <2>7. CASE DeleteLocks(c)
    <3>1. UNCHANGED <<cached, open>>
      BY <2>7 DEF DeleteLocks, shardVars
    <3>2. CASE ~cached
      BY <2>0, <3>1, <3>2 DEF PassedInv, PassedByDelete
    <3>3. CASE cached
      <4>1. closing' = [closing EXCEPT ![c] = [u \in Shards |-> [pc |-> "check", chan |-> 0]]]
        BY <2>7, <3>3 DEF DeleteLocks, AllClose
      <4>2. closing'[c][s].pc = "check"
        BY <1>0, <4>1
      <4> QED
        BY <2>1, <3>1, <4>2
    <3> QED
      BY <3>2, <3>3
  <2>8. CASE DeleteUnlocks(c)
    <3>1. PassedByDelete(s) /\ open' = open
      BY <2>8 DEF DeleteUnlocks, AllClosed, PassedByDelete, At, shardVars
    <3> QED
      BY <2>0, <3>1 DEF PassedInv
  <2>9. ASSUME NEW t \in Shards, CloseStep(c, t) \/ CloseFails(c, t) PROVE FALSE
    <3>1. UNCHANGED <<cached, client>> /\ (open'[s] => open[s])
      BY <1>0, <2>9 DEF CloseStep, CloseCheck, CloseZero, CloseLocked, CloseFails, indexVars, shardVars
    <3>2. closing'[c][s].pc = "no" => closing[c][s].pc = "no" \/ ~open[s]
      <4>1. CASE CloseCheck(c, t)
        <5>1. CASE s = t
          <6>1. CASE open[t]
            <7> DEFINE r == [pc |-> "send", chan |-> chan[t]]
            <7>1. closing' = [closing EXCEPT ![c][t] = r]
              BY <4>1, <6>1 DEF CloseCheck
            <7>2. r.pc = "send"
              OBVIOUS
            <7> HIDE DEF r
            <7>3. closing'[c][t] = r
              BY <1>0, <7>1
            <7>4. closing'[c][s].pc = "send"
              BY <5>1, <7>2, <7>3
            <7> QED
              BY <7>4
          <6> QED
            BY <5>1, <6>1
        <5>2. CASE s # t
          BY <1>0, <4>1, <5>2 DEF CloseCheck
        <5> QED
          BY <5>1, <5>2
      <4>2. CASE CloseZero(c, t)
        BY <1>0, <4>2 DEF CloseZero, CloseType
      <4>3. CASE CloseLocked(c, t) \/ CloseFails(c, t)
        <5>1. closing[c][t].pc = "lock" /\ closing' = [closing EXCEPT ![c][t] = NotClosing]
          BY <4>3 DEF CloseLocked, CloseFails
        <5>2. CASE s = t
          BY <5>1, <5>2 DEF LockInv
        <5>3. CASE s # t
          <6>1. closing'[c][s] = closing[c][s]
            BY <1>0, <5>1, <5>3
          <6> QED
            BY <6>1
        <5> QED
          BY <5>2, <5>3
      <4> QED
        BY <2>9, <4>1, <4>2, <4>3 DEF CloseStep
    <3> QED
      BY <2>1, <3>1, <3>2
  <2> QED
    BY <1>2, <2>2, <2>3, <2>4, <2>5, <2>6, <2>7, <2>8, <2>9 DEF ClientStep, OpenStep, DeleteStep
<1> QED
  BY <1>1, <1>2 DEF Next

\* Once the index is gone from the list, only a deletion that is still under way
\* or a tick with a live shard may leave it stored.
LEMMA DeletedNext == IInv /\ OpInv /\ UpdateInv /\ PassedInv /\ DeletedStaysDeleted /\ Next => DeletedStaysDeleted'
<1> SUFFICES ASSUME IInv, OpInv, UpdateInv, PassedInv, DeletedStaysDeleted, Next, ~cached',
                    \A c \in Clients : client'[c].op # "delete", "opened after delete" \notin windows', stored'
             PROVE  FALSE
  BY DEF DeletedStaysDeleted
<1>0. Typed /\ client \in [Clients -> ClientType] /\ tick \in TickType
  BY TypeOKParts DEF IInv, Typed
<1>1. CASE TickUpdate
  <2>1. UNCHANGED <<client, cached, windows>> /\ (stored \/ tick.updated # {})
    BY <1>1 DEF TickUpdate
  <2>2. ~stored
    BY <2>1 DEF DeletedStaysDeleted
  <2>3. PICK s \in Shards : s \in tick.updated
    BY <1>0, <2>1, <2>2 DEF TickType
  <2>4. open[s]
    BY <2>3 DEF IInv, UpdateInv, ListInv, Live
  <2> QED
    BY <2>1, <2>4 DEF PassedInv, PassedByDelete
<1>2. CASE TickStep /\ ~TickUpdate
  <2>1. stored' = stored
    BY <1>2 DEF TickStep, TickLen, TickList, TickWait, SelectClose, SelectDefault, Consume, TickRemove, indexVars
  <2> QED
    BY <1>2, <2>1, TickEffect DEF DeletedStaysDeleted
<1>3. ASSUME NEW c \in Clients, ClientStep(c) PROVE FALSE
  <2>0. /\ "opened after delete" \notin windows
        /\ \A d \in Clients : d # c => client'[d] = client[d]
    BY <1>0, <1>3, ClientEffect
  <2>1. ASSUME cached' = cached, stored' = stored, client[c].op # "delete" \/ client'[c].op = client[c].op PROVE FALSE
    BY <2>0, <2>1 DEF DeletedStaysDeleted
  <2>2. CASE Use(c) \/ Refresh(c) \/ DeleteIndex(c) \/ Append(c) \/ Look(c) \/ Refreshed(c)
    <3>1. client[c].pc \in {"idle", "use"} \/ client[c].op = "refresh"
      BY <2>2 DEF Use, Refresh, DeleteIndex, Append, Look, Refreshed, Begin, At
    <3>2. client[c].op # "delete"
      BY <3>1 DEF OpInv, DeletePCs
    <3>3. cached' = cached /\ stored' = stored
      BY <2>2 DEF Use, Refresh, DeleteIndex, Append, Look, Refreshed, indexVars
    <3> QED
      BY <2>1, <3>2, <3>3
  <2>3. CASE OpenStep(c) \/ OpenFails(c) \/ RollbackFails(c) \/ DeleteLocks(c) \/ DeleteFiles(c)
    <3>1. \E p \in ClientPCs : client' = [client EXCEPT ![c].pc = p]
      BY <2>3 DEF OpenStep, OpenCheck, OpenLocked, SetOpen, MakeChan, Rollback, Add, OpenFails, RollbackFails, DeleteLocks,
         DeleteFiles, Goto, ClientPCs
    <3>2. client'[c].op = client[c].op
      BY <1>0, <3>1 DEF ClientType
    <3>3. cached' = cached /\ stored' = stored
      BY <2>3 DEF OpenStep, OpenCheck, OpenLocked, SetOpen, MakeChan, Rollback, Add, OpenFails, RollbackFails, DeleteLocks,
         DeleteFiles, indexVars
    <3> QED
      BY <2>1, <3>2, <3>3
  <2>4. CASE DeleteUnlocks(c)
    BY <1>0, <2>4 DEF DeleteUnlocks, Goto, ClientType
  <2>5. CASE DeleteMetadata(c)
    BY <2>5 DEF DeleteMetadata
  <2>6. CASE \E s \in Shards : CloseStep(c, s) \/ CloseFails(c, s)
    BY <2>1, <2>6 DEF CloseStep, CloseCheck, CloseZero, CloseLocked, CloseFails, indexVars
  <2> QED
    BY <1>3, <2>2, <2>3, <2>4, <2>5, <2>6 DEF ClientStep, DeleteStep
<1> QED
  BY <1>1, <1>2, <1>3 DEF Next

\* A deletion that was answered is final, for any shards, clients and orders of
\* their steps, unless a request that had found the index opens a shard after the
\* deletion has passed it.
THEOREM DeletionFinal == Spec => []DeletedStaysDeleted
<1>1. Init => DInv
  <2> SUFFICES ASSUME Init PROVE DInv
    OBVIOUS
  <2>1. OpInv
    BY DEF Init, OpInv, Idle
  <2>2. UpdateInv /\ LockInv
    BY DEF Init, UpdateInv, LockInv, NotClosing
  <2>3. PassedInv /\ DeletedStaysDeleted
    BY DEF Init, PassedInv, DeletedStaysDeleted
  <2> QED
    BY <2>1, <2>2, <2>3, InitIInv DEF DInv
<1>2. DInv /\ Next => DInv'
  BY NextIInv, TypeOKParts, OpNext, UpdateNext, LockNext, PassedNext, DeletedNext DEF DInv, IInv
<1>3. DInv /\ UNCHANGED vars => DInv'
  <2> SUFFICES ASSUME DInv, UNCHANGED vars PROVE DInv'
    OBVIOUS
  <2>1. OpInv' /\ UpdateInv' /\ LockInv' /\ DeletedStaysDeleted'
    BY DEF vars, DInv, OpInv, UpdateInv, LockInv, DeletedStaysDeleted
  <2>2. PassedInv'
    BY DEF vars, DInv, PassedInv, PassedByDelete, At
  <2> QED
    BY <2>1, <2>2, IInvStutter DEF DInv
<1>4. DInv => DeletedStaysDeleted
  BY DEF DInv
<1> QED
  BY <1>1, <1>2, <1>3, <1>4, PTL DEF Spec

=============================================================================
