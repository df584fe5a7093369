----------------------------- MODULE Publisher -----------------------------
(***************************************************************************)
(* The coordinator's publisher and its disk buffer                         *)
(* (pkg/coordinator/publisher.go, pkg/coordinator/buffer/buffer.go):       *)
(* callers that publish one at a time under p.mu, the flush loop that      *)
(* drains the buffer without it, and the connection to JetStream, which    *)
(* may delay a message past the time-out, lose it, lose its acknowledgement*)
(* or go down.  The buffer is a transactional file and survives crashes.   *)
(*                                                                         *)
(* The connection delivers in order.  What counts against the server's     *)
(* limit is the message with the header that carries its ID; the client    *)
(* learns the limit when it connects, and the server closes a connection   *)
(* that exceeds it.  JetStream drops a message whose ID it stored within   *)
(* its duplicate window, a stretch of time that ends now: what it covers   *)
(* is a suffix of the stream.  An ack that answers an attempt the client   *)
(* gave up on is ignored.                                                  *)
(*                                                                         *)
(* An operator with an underscore in its name is a faulty variant of the   *)
(* operator that follows it; no specification uses it.                     *)
(***************************************************************************)
EXTENDS Integers, Sequences, FiniteSetsExt

CONSTANTS
    Msgs,            \* messages callers may publish, each once
    NoMsg,           \* no message
    Size,            \* len(data) of each message
    IDBytes,         \* bytes of a message ID
    HeaderBytes,     \* bytes of the header with the ID (jetstream.WithMsgID)
    MaxBytes,        \* capacity of the buffer
    MaxPayload,      \* largest message with its header the server takes
    PeekMax,         \* items drain takes from the buffer at once (64)
    MaxFaults,       \* bound: time-outs, lost acks, failed file writes
    MaxDisconnects,  \* bound: times the connection goes down
    MaxExpiries,     \* bound: times the duplicate window forgets
    MaxCrashes       \* bound: crashes of the coordinator

ASSUME ConstantsAssumption ==
    /\ NoMsg \notin Msgs
    /\ Size \in [Msgs -> Nat \ {0}] /\ IDBytes \in Nat /\ HeaderBytes \in Nat
    /\ MaxBytes \in Nat \ {0} /\ MaxPayload \in Nat \ {0} /\ PeekMax \in Nat \ {0}
    /\ MaxFaults \in Nat /\ MaxDisconnects \in Nat
    /\ MaxExpiries \in Nat /\ MaxCrashes \in Nat

VARIABLES
    stream,     \* the replication stream: message IDs in the order stored
    window,     \* first position of the stream inside the duplicate window
    net,        \* messages on their way to the server, in order
    acks,       \* acknowledgements on their way back
    connected,  \* nc.IsConnected
    limitKnown, \* nc.MaxPayload is not zero: connected once in this process
    buf,        \* the buffer: items [seq, id], oldest first
    nextSeq,    \* bbolt's sequence of the items bucket
    pub,        \* the caller inside publish: idle, send or append
    cur,        \* its message
    drainer,    \* the flush loop: idle, next, send, remove
    items,      \* what Peek returned
    k,          \* position in items of the message being sent
    given,      \* messages callers have tried to publish
    accepted,   \* messages Publish returned nil for, in that order
    faults, disconnects, expiries, crashes

streamVars == <<stream, window>>
connVars   == <<connected, limitKnown>>
bufVars    == <<buf, nextSeq>>
pubVars    == <<pub, cur>>
drainVars  == <<drainer, items, k>>
callerVars == <<given, accepted>>
countVars  == <<faults, disconnects, expiries, crashes>>
vars == <<streamVars, net, acks, connVars, bufVars, pubVars, drainVars, callerVars, countVars>>

EntryBytes(m) == IDBytes + Size[m]      \* buffer.size
BufferBytes == MapThenSumSet(LAMBDA i : EntryBytes(buf[i].id), DOMAIN buf)
SeqElems(s) == {s[i] : i \in DOMAIN s}
Duplicate(m) == \E i \in window .. Len(stream) : stream[i] = m
Fits(m) == Size[m] + HeaderBytes <= MaxPayload
Buffered(m) == \E i \in DOMAIN buf : buf[i].id = m

Init ==
    /\ stream = <<>> /\ window = 1 /\ net = <<>> /\ acks = {}
    /\ connected = FALSE /\ limitKnown = FALSE
    /\ buf = <<>> /\ nextSeq = 1
    /\ pub = "idle" /\ cur = NoMsg
    /\ drainer = "idle" /\ items = <<>> /\ k = 1
    /\ given = {} /\ accepted = <<>>
    /\ faults = 0 /\ disconnects = 0 /\ expiries = 0 /\ crashes = 0

Fault == faults < MaxFaults /\ faults' = faults + 1 /\ UNCHANGED <<disconnects, expiries, crashes>>

-----------------------------------------------------------------------------
(* The server and the connection.                                          *)

\* JetStream takes the next message: it stores it unless it is a duplicate,
\* and acknowledges it.  The ack of an attempt that was given up is ignored.
ServerTakes ==
    LET m == Head(net) IN
    /\ net # <<>> /\ Fits(m)
    /\ net' = Tail(net)
    /\ stream' = IF Duplicate(m) THEN stream ELSE Append(stream, m)
    /\ \/ acks' = (IF m \in SeqElems(Tail(net)) THEN acks ELSE acks \cup {m}) /\ UNCHANGED countVars
       \/ UNCHANGED acks /\ Fault
    /\ UNCHANGED <<window, connVars, bufVars, pubVars, drainVars, callerVars>>

\* The server closes the connection over a message beyond its limit, and with it
\* goes what follows.
ServerRefuses ==
    /\ net # <<>> /\ ~Fits(Head(net))
    /\ connected' = FALSE
    /\ net' = <<>> /\ acks' = {}
    /\ UNCHANGED <<streamVars, limitKnown, bufVars, pubVars, drainVars, callerVars, countVars>>

\* The duplicate window moves on.
WindowExpires ==
    /\ expiries < MaxExpiries
    /\ expiries' = expiries + 1
    /\ \E w \in window + 1 .. Len(stream) + 1 : window' = w
    /\ UNCHANGED <<stream, net, acks, connVars, bufVars, pubVars, drainVars, callerVars,
                   faults, disconnects, crashes>>

Connect ==
    /\ ~connected
    /\ connected' = TRUE /\ limitKnown' = TRUE
    /\ UNCHANGED <<streamVars, net, acks, bufVars, pubVars, drainVars, callerVars, countVars>>

\* The connection breaks: the tail of what is under way is lost.
Disconnect ==
    /\ connected
    /\ disconnects < MaxDisconnects
    /\ disconnects' = disconnects + 1
    /\ connected' = FALSE
    /\ \E n \in 0 .. Len(net) : net' = SubSeq(net, 1, n)
    /\ acks' = {}
    /\ UNCHANGED <<streamVars, limitKnown, bufVars, pubVars, drainVars, callerVars,
                   faults, expiries, crashes>>

\* checkSize looks at the data only.
TooLarge(m) == limitKnown /\ Size[m] > MaxPayload

\* send: the client refuses what is too large with its header, otherwise it waits
\* for the ack.
Unsendable(m) == limitKnown /\ ~Fits(m)
Transmit(m) == net' = Append(net, m) /\ acks' = acks \ {m}

\* The wait for the ack of m is over: nothing can come any more, or the
\* time-out is early and the message or its ack is still on the way.
TimeOut(m) ==
    IF m \in acks \cup SeqElems(net) THEN Fault ELSE UNCHANGED countVars

-----------------------------------------------------------------------------
(* Publish and PublishDocs.                                                *)

\* checkSize refuses the message before the lock is taken.
PublishTooLarge(m) ==
    /\ m \notin given
    /\ TooLarge(m)
    /\ given' = given \cup {m}
    /\ UNCHANGED <<streamVars, net, acks, connVars, bufVars, pubVars, drainVars,
                   accepted, countVars>>

\* The lock is taken and the path chosen: directly to the stream only when the
\* buffer is empty and the connection is up.  A send the client refuses is a
\* failed send.
Publish_direct(m) ==
    /\ pub = "idle" /\ m \notin given /\ ~TooLarge(m)
    /\ given' = given \cup {m} /\ cur' = m
    /\ IF connected /\ ~Unsendable(m)
       THEN pub' = "send" /\ Transmit(m)
       ELSE pub' = "append" /\ UNCHANGED <<net, acks>>
    /\ UNCHANGED <<streamVars, connVars, bufVars, drainVars, accepted, countVars>>

Publish(m) ==
    /\ pub = "idle" /\ m \notin given /\ ~TooLarge(m)
    /\ given' = given \cup {m} /\ cur' = m
    /\ IF buf = <<>> /\ connected /\ ~Unsendable(m)
       THEN pub' = "send" /\ Transmit(m)
       ELSE pub' = "append" /\ UNCHANGED <<net, acks>>
    /\ UNCHANGED <<streamVars, connVars, bufVars, drainVars, accepted, countVars>>

\* The stream acknowledged the message in time.
PublishAcked ==
    /\ pub = "send" /\ cur \in acks
    /\ acks' = acks \ {cur}
    /\ accepted' = Append(accepted, cur)
    /\ pub' = "idle" /\ cur' = NoMsg
    /\ UNCHANGED <<streamVars, net, connVars, bufVars, drainVars, given, countVars>>

\* The time-out, whatever became of the message: it goes to the buffer.
PublishTimesOut ==
    /\ pub = "send"
    /\ TimeOut(cur)
    /\ pub' = "append"
    /\ UNCHANGED <<streamVars, net, acks, connVars, bufVars, cur, drainVars, callerVars>>

\* buf.Append: accepted, or ErrFull / ErrTooLarge when it does not fit.
AppendToBuffer ==
    /\ pub = "append"
    /\ IF BufferBytes + EntryBytes(cur) <= MaxBytes
       THEN /\ buf' = Append(buf, [seq |-> nextSeq, id |-> cur])
            /\ nextSeq' = nextSeq + 1
            /\ accepted' = Append(accepted, cur)
       ELSE UNCHANGED <<bufVars, accepted>>
    /\ pub' = "idle" /\ cur' = NoMsg
    /\ UNCHANGED <<streamVars, net, acks, connVars, drainVars, given, countVars>>

\* The transaction of Append fails, e.g. the disk is full.
AppendFails ==
    /\ pub = "append"
    /\ Fault
    /\ pub' = "idle" /\ cur' = NoMsg
    /\ UNCHANGED <<streamVars, net, acks, connVars, bufVars, drainVars, given, accepted>>

-----------------------------------------------------------------------------
(* drain, run by the flush loop.                                           *)

DrainPeek ==
    /\ drainer = "idle" /\ buf # <<>>
    /\ items' = SubSeq(buf, 1, Min({PeekMax, Len(buf)}))
    /\ k' = 1
    /\ drainer' = "next"
    /\ UNCHANGED <<streamVars, net, acks, connVars, bufVars, pubVars, callerVars, countVars>>

EndDrain_unconditional(n) == k' = n /\ drainer' = "remove"

\* Items 1..n were sent: they are to be removed, if any.
EndDrain(n) == k' = n /\ drainer' = IF n > 0 THEN "remove" ELSE "idle"

DrainSend ==
    /\ drainer = "next"
    /\ IF Unsendable(items[k].id)
       THEN EndDrain(k - 1) /\ UNCHANGED <<net, acks>>
       ELSE Transmit(items[k].id) /\ drainer' = "send" /\ UNCHANGED k
    /\ UNCHANGED <<streamVars, connVars, bufVars, pubVars, items, callerVars, countVars>>

DrainAcked ==
    /\ drainer = "send" /\ items[k].id \in acks
    /\ acks' = acks \ {items[k].id}
    /\ IF k = Len(items)
       THEN EndDrain(k)
       ELSE drainer' = "next" /\ k' = k + 1
    /\ UNCHANGED <<streamVars, net, connVars, bufVars, pubVars, items, callerVars, countVars>>

DrainTimesOut_removes ==
    /\ drainer = "send"
    /\ TimeOut(items[k].id)
    /\ EndDrain(k)
    /\ UNCHANGED <<streamVars, net, acks, connVars, bufVars, pubVars, items, callerVars>>

DrainTimesOut ==
    /\ drainer = "send"
    /\ TimeOut(items[k].id)
    /\ EndDrain(k - 1)
    /\ UNCHANGED <<streamVars, net, acks, connVars, bufVars, pubVars, items, callerVars>>

DrainRemove_count ==
    /\ drainer = "remove"
    /\ buf' = SubSeq(buf, Len(items) + 1, Len(buf))
    /\ drainer' = "idle"
    /\ UNCHANGED <<streamVars, net, acks, connVars, nextSeq, pubVars, items, k,
                   callerVars, countVars>>

\* buf.Remove(upTo): the cursor deletes the first item while it is not past the
\* last one sent, whatever was appended meanwhile.
DrainRemove ==
    /\ drainer = "remove"
    /\ \E n \in 0 .. Len(buf) :
         /\ \A i \in 1 .. n : buf[i].seq <= items[k].seq
         /\ n < Len(buf) => buf[n + 1].seq > items[k].seq
         /\ buf' = SubSeq(buf, n + 1, Len(buf))
    /\ drainer' = "idle"
    /\ UNCHANGED <<streamVars, net, acks, connVars, nextSeq, pubVars, items, k,
                   callerVars, countVars>>

\* The transaction of Remove fails: the items are sent again.
RemoveFails ==
    /\ drainer = "remove"
    /\ Fault
    /\ drainer' = "idle"
    /\ UNCHANGED <<streamVars, net, acks, connVars, bufVars, pubVars, items, k, callerVars>>

-----------------------------------------------------------------------------
\* The coordinator dies and starts again with the same buffer.  The caller
\* inside publish gets no answer.
Crash ==
    /\ crashes < MaxCrashes
    /\ crashes' = crashes + 1
    /\ connected' = FALSE /\ limitKnown' = FALSE
    /\ \E n \in 0 .. Len(net) : net' = SubSeq(net, 1, n)
    /\ acks' = {}
    /\ pub' = "idle" /\ cur' = NoMsg
    /\ drainer' = "idle" /\ items' = <<>> /\ k' = 1
    /\ UNCHANGED <<streamVars, bufVars, callerVars, faults, disconnects, expiries>>

Drain == DrainPeek \/ DrainSend \/ DrainAcked \/ DrainRemove

Publishing ==
    \/ \E m \in Msgs : PublishTooLarge(m) \/ Publish(m)
    \/ PublishAcked \/ AppendToBuffer

Next ==
    \/ ServerTakes \/ ServerRefuses \/ WindowExpires \/ Connect \/ Disconnect
    \/ Publishing \/ PublishTimesOut \/ AppendFails
    \/ Drain \/ DrainTimesOut \/ RemoveFails
    \/ Crash

Fairness ==
    /\ WF_vars(ServerTakes \/ ServerRefuses) /\ WF_vars(Connect)
    /\ WF_vars(Drain) /\ WF_vars(AppendToBuffer)
    /\ WF_vars(PublishAcked \/ PublishTimesOut)
    /\ WF_vars(DrainAcked \/ DrainTimesOut)

Spec == Init /\ [][Next]_vars
FairSpec == Spec /\ Fairness

-----------------------------------------------------------------------------
(* Properties.                                                             *)

(* The types of the publisher's state; the flush loop works on an item it     *)
(* read from the buffer, and a caller in Publish has a message.             *)
TypeOK ==
    /\ stream \in Seq(Msgs) /\ window \in Nat \ {0}
    /\ net \in Seq(Msgs) /\ acks \subseteq Msgs
    /\ connected \in BOOLEAN /\ limitKnown \in BOOLEAN
    /\ buf \in Seq([seq : Nat, id : Msgs]) /\ nextSeq \in Nat
    /\ pub \in {"idle", "send", "append"} /\ cur \in Msgs \cup {NoMsg}
    /\ pub # "idle" => cur \in Msgs
    /\ drainer \in {"idle", "next", "send", "remove"}
    /\ items \in Seq([seq : Nat, id : Msgs]) /\ k \in Nat
    /\ drainer # "idle" => k \in DOMAIN items
    /\ given \subseteq Msgs /\ accepted \in Seq(Msgs)
    /\ faults \in Nat /\ disconnects \in Nat /\ expiries \in Nat /\ crashes \in Nat

Stored(m)   == m \in SeqElems(stream)
FirstPos(m) == Min({i \in DOMAIN stream : stream[i] = m})

\* The publisher never loses a message it accepted: it is in the stream or in
\* the buffer, whatever time-outs, lost acks, failed writes and crashes occur.
AcceptedKept == \A i \in DOMAIN accepted : Stored(accepted[i]) \/ Buffered(accepted[i])

\* Messages reach the stream in the order they were accepted: none is stored
\* before an earlier one, although callers and the flush loop send concurrently.
NoOvertaking ==
    \A i, j \in DOMAIN accepted :
        i < j /\ Stored(accepted[j]) =>
            Stored(accepted[i]) /\ FirstPos(accepted[i]) < FirstPos(accepted[j])

\* A message the server never takes was accepted before m.
Blocked(m) ==
    \E j \in DOMAIN accepted : accepted[j] = m /\ \E i \in 1 .. j : ~Fits(accepted[i])

\* Every accepted message that fits reaches the stream once failures stop, whoever
\* sends it and however often it is sent again, unless one that is too large was
\* accepted before it (checkSize lets it through while the limit is unknown, and
\* always when only its header exceeds the limit).
FittingReachStream ==
    \A m \in {x \in Msgs : Fits(x)} : (m \in SeqElems(accepted)) ~> (Stored(m) \/ Blocked(m))

\* What the comments of Publisher promise of every message: it is parked in the
\* buffer and sent in order once the stream is back.  It does not hold: a message
\* that is accepted and cannot be sent blocks the buffer.
AcceptedReachStream ==
    \A m \in Msgs : (m \in SeqElems(accepted)) ~> Stored(m)
=============================================================================
