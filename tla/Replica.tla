------------------------------ MODULE Replica ------------------------------
(***************************************************************************)
(* What a node that consumes the replication stream promises, without      *)
(* saying how: it has a durable position in the stream that only moves     *)
(* forward, and each of its documents is in a version that the stream gave *)
(* it at that position or later.  The position may lag behind the data,    *)
(* because messages are applied again after a failure; the data never lags *)
(* behind the position.                                                    *)
(***************************************************************************)
EXTENDS Integers, Sequences, FiniteSetsExt

CONSTANTS
    Docs,       \* document IDs
    Messages    \* what may be published: records [kind, docs]

VARIABLES
    msgs,       \* the stream, every message ever published
    pos,        \* stream_offset, the durable position of the node
    doc         \* version of every document: the sequence of the message that
                \* wrote it, 0 when the document does not exist

\* Messages up to sequence k that decide whether and how d exists.
Writers(k, d) == {j \in 1 .. k : d \in msgs[j].docs}

\* Version of d once messages 1..k are applied, one after the other.
Version(k, d) ==
    LET js == Writers(k, d)
    IN  IF js = {} \/ msgs[Max(js)].kind = "delete_index" THEN 0 ELSE Max(js)

\* Versions of d that the stream passes through from position k on.
VersionsFrom(k, d) == {Version(j, d) : j \in k .. Len(msgs)}

NotBehind(k, f) == \A d \in Docs : f[d] \in VersionsFrom(k, d)

Init == msgs = <<>> /\ pos = 0 /\ doc = [d \in Docs |-> 0]

Publish == \E m \in Messages : msgs' = Append(msgs, m) /\ UNCHANGED <<pos, doc>>

\* Documents change, the position does not: messages after it are applied.
Apply ==
    /\ doc' \in [Docs -> 0 .. Len(msgs)]
    /\ NotBehind(pos, doc')
    /\ UNCHANGED <<msgs, pos>>

\* The position moves on to what the documents have reached.
Advance ==
    /\ \E k \in pos + 1 .. Len(msgs) : NotBehind(k, doc) /\ pos' = k
    /\ UNCHANGED <<msgs, doc>>

Next == Publish \/ Apply \/ Advance
Spec == Init /\ [][Next]_<<msgs, pos, doc>>
=============================================================================
