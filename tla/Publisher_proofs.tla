-------------------------- MODULE Publisher_proofs --------------------------
(***************************************************************************)
(* Proofs about Publisher, for any set of messages, any sizes and bounds.  *)
(*                                                                         *)
(* AcceptedKept alone is not inductive: Remove is safe because the buffer  *)
(* is ordered by sequence number (SeqInv), the flush loop works on a       *)
(* prefix of it whose items up to the last one sent are stored (ItemsInv), *)
(* and an acknowledged message is stored (AcksInv).  The order of the      *)
(* stream rests on the order of the buffer (BufInv: what was accepted      *)
(* before a buffered message is stored or ahead of it) and on OrderInv:    *)
(* a message on its way, or stored, is behind all those accepted before    *)
(* it.  A caller that finds the buffer empty therefore finds everything    *)
(* accepted in the stream, also while the flush loop is still sending.     *)
(***************************************************************************)
EXTENDS Publisher, TLAPS, SequenceTheorems, WellFoundedInduction

Item == [seq : Nat, id : Msgs]

(***************************************************************************)
(* Type correctness                                                        *)
(***************************************************************************)
\* The part of TypeOK about the stream and the connection, and about the rest.
WireTyped ==
    /\ stream \in Seq(Msgs) /\ window \in Nat \ {0}
    /\ net \in Seq(Msgs) /\ acks \subseteq Msgs
    /\ connected \in BOOLEAN /\ limitKnown \in BOOLEAN

BufTyped == buf \in Seq(Item) /\ nextSeq \in Nat

PubTyped ==
    /\ pub \in {"idle", "send", "append"} /\ cur \in Msgs \cup {NoMsg}
    /\ pub # "idle" => cur \in Msgs
    /\ given \subseteq Msgs /\ accepted \in Seq(Msgs)

DrainTyped ==
    /\ drainer \in {"idle", "next", "send", "remove"}
    /\ items \in Seq(Item) /\ k \in Nat
    /\ drainer # "idle" => k \in DOMAIN items

CountTyped == faults \in Nat /\ disconnects \in Nat /\ expiries \in Nat /\ crashes \in Nat

\* TypeOK, part by part.
LEMMA TypeOKParts == TypeOK <=> WireTyped /\ BufTyped /\ PubTyped /\ DrainTyped /\ CountTyped
BY DEF TypeOK, WireTyped, BufTyped, PubTyped, DrainTyped, CountTyped, Item

\* What Peek returns is a part of the buffer that is not empty.
LEMMA PeekSome ==
    ASSUME NEW n \in Nat \ {0}
    PROVE  Min({PeekMax, n}) \in 1 .. n
<1>1. PeekMax \in Nat \ {0}
  BY ConstantsAssumption
<1>2. \E x \in {PeekMax, n} : \A y \in {PeekMax, n} : x =< y
  BY <1>1
<1>3. Min({PeekMax, n}) \in {PeekMax, n} /\ \A y \in {PeekMax, n} : Min({PeekMax, n}) =< y
  BY <1>2 DEF Min
<1>4. QED
  BY <1>1, <1>3

\* A failure is counted.
LEMMA FaultCounts == ASSUME CountTyped, Fault \/ UNCHANGED countVars PROVE CountTyped'
BY DEF CountTyped, Fault, countVars

\* Every step keeps the types.
LEMMA TypeStep == TypeOK /\ [Next]_vars => TypeOK'
<1> SUFFICES ASSUME WireTyped, BufTyped, PubTyped, DrainTyped, CountTyped, [Next]_vars
             PROVE  WireTyped' /\ BufTyped' /\ PubTyped' /\ DrainTyped' /\ CountTyped'
  BY DEF TypeOK, WireTyped, BufTyped, PubTyped, DrainTyped, CountTyped, Item
<1> USE DEF streamVars, connVars, bufVars, pubVars, drainVars, callerVars
<1>1. CASE ServerTakes
  <2>1. Head(net) \in Msgs /\ Tail(net) \in Seq(Msgs)
    BY <1>1, HeadTailProperties DEF ServerTakes, WireTyped
  <2>2. WireTyped'
    BY <1>1, <2>1 DEF ServerTakes, WireTyped
  <2>3. CountTyped'
    BY <1>1, FaultCounts DEF ServerTakes
  <2>4. QED
    BY <1>1, <2>2, <2>3 DEF ServerTakes, BufTyped, PubTyped, DrainTyped
<1>2. CASE WindowExpires
  <2>1. window' \in Nat \ {0}
    BY <1>2, LenProperties DEF WindowExpires, WireTyped
  <2>2. QED
    BY <1>2, <2>1 DEF WindowExpires, WireTyped, BufTyped, PubTyped, DrainTyped, CountTyped
<1>3. CASE Connect
  BY <1>3 DEF Connect, WireTyped, BufTyped, PubTyped, DrainTyped, CountTyped, countVars
<1>4. CASE Disconnect \/ Crash
  <2>1. PICK n \in 0 .. Len(net) : net' = SubSeq(net, 1, n)
    BY <1>4 DEF Disconnect, Crash
  <2>2. net' \in Seq(Msgs)
    BY <2>1 DEF WireTyped
  <2>3. WireTyped'
    BY <1>4, <2>2 DEF Disconnect, Crash, WireTyped
  <2>4. CountTyped'
    BY <1>4 DEF Disconnect, Crash, CountTyped
  <2>5. DrainTyped'
    <3>1. CASE Disconnect
      BY <3>1 DEF Disconnect, DrainTyped
    <3>2. CASE Crash
      BY <3>2, EmptySeq DEF Crash, DrainTyped
    <3>3. QED
      BY <1>4, <3>1, <3>2
  <2>6. QED
    BY <1>4, <2>3, <2>4, <2>5 DEF Disconnect, Crash, BufTyped, PubTyped
<1>5. ASSUME NEW m \in Msgs, PublishTooLarge(m) \/ Publish(m)
      PROVE  WireTyped' /\ BufTyped' /\ PubTyped' /\ DrainTyped' /\ CountTyped'
  <2>1. WireTyped'
    <3>1. Append(net, m) \in Seq(Msgs)
      BY AppendProperties DEF WireTyped
    <3>2. QED
      BY <1>5, <3>1 DEF PublishTooLarge, Publish, Transmit, WireTyped
  <2>2. QED
    BY <1>5, <2>1 DEF PublishTooLarge, Publish, BufTyped, PubTyped, DrainTyped, CountTyped, countVars
<1>6. CASE PublishAcked
  BY <1>6 DEF PublishAcked, WireTyped, BufTyped, PubTyped, DrainTyped, CountTyped, countVars
<1>7. CASE PublishTimesOut
  BY <1>7, FaultCounts DEF PublishTimesOut, TimeOut, WireTyped, BufTyped, PubTyped, DrainTyped
<1>8. CASE AppendToBuffer
  <2>1. cur \in Msgs
    BY <1>8 DEF AppendToBuffer, PubTyped
  <2> DEFINE it == [seq |-> nextSeq, id |-> cur]
  <2>2. it \in Item
    BY <2>1 DEF BufTyped, Item
  <2>3. BufTyped' /\ PubTyped'
    <3>1. \/ buf' = Append(buf, it) /\ nextSeq' = nextSeq + 1 /\ accepted' = Append(accepted, cur)
          \/ UNCHANGED <<buf, nextSeq, accepted>>
      BY <1>8 DEF AppendToBuffer
    <3> HIDE DEF it
    <3>2. Append(buf, it) \in Seq(Item) /\ Append(accepted, cur) \in Seq(Msgs)
      BY <2>1, <2>2, AppendProperties DEF BufTyped, PubTyped
    <3>3. BufTyped'
      <4>1. buf' \in Seq(Item)
        BY <3>1, <3>2, Zenon DEF BufTyped
      <4>2. nextSeq' \in Nat
        BY <3>1 DEF BufTyped
      <4>3. QED
        BY <4>1, <4>2 DEF BufTyped
    <3>4. pub' = "idle" /\ cur' = NoMsg /\ given' = given
      BY <1>8 DEF AppendToBuffer
    <3>5. QED
      BY <3>1, <3>2, <3>3, <3>4 DEF PubTyped
  <2>4. QED
    BY <1>8, <2>3 DEF AppendToBuffer, WireTyped, DrainTyped, CountTyped, countVars
<1>9. CASE AppendFails \/ RemoveFails
  BY <1>9, FaultCounts DEF AppendFails, RemoveFails, WireTyped, BufTyped, PubTyped, DrainTyped
<1>10. CASE DrainPeek
  <2>1. Len(buf) \in Nat \ {0}
    BY <1>10, EmptySeq DEF DrainPeek, BufTyped
  <2>2. items' = SubSeq(buf, 1, Min({PeekMax, Len(buf)})) /\ Min({PeekMax, Len(buf)}) \in 1 .. Len(buf)
    BY <1>10, <2>1, PeekSome DEF DrainPeek
  <2>3. items' \in Seq(Item) /\ 1 \in DOMAIN items'
    <3> DEFINE n == Min({PeekMax, Len(buf)})
    <3> HIDE DEF n
    <3>1. n \in 1 .. Len(buf) /\ items' = SubSeq(buf, 1, n) /\ Len(buf) \in Nat
      BY <2>1, <2>2 DEF n
    <3>2. \A i \in 1 .. n : buf[i] \in Item
      BY <3>1, ElementOfSeq DEF BufTyped
    <3>3. items' \in Seq(Item) /\ Len(items') = n
      BY <3>1, <3>2, SubSeqProperties
    <3>4. QED
      BY <3>1, <3>3, LenProperties
  <2>4. QED
    BY <1>10, <2>3 DEF DrainPeek, WireTyped, BufTyped, PubTyped, DrainTyped, CountTyped, countVars
<1>11. CASE DrainSend
  <2>1. items[k].id \in Msgs /\ k \in 1 .. Len(items)
    <3>1. k \in 1 .. Len(items) /\ items \in Seq(Item)
      BY <1>11 DEF DrainSend, DrainTyped
    <3>2. items[k] \in Item
      BY <3>1, ElementOfSeq
    <3>3. QED
      BY <3>1, <3>2 DEF Item
  <2>2. WireTyped'
    BY <1>11, <2>1 DEF DrainSend, WireTyped, Transmit
  <2>3. DrainTyped'
    BY <1>11, <2>1 DEF DrainSend, DrainTyped, EndDrain
  <2>4. QED
    BY <1>11, <2>2, <2>3 DEF DrainSend, BufTyped, PubTyped, CountTyped, countVars
<1>12. CASE DrainAcked \/ DrainTimesOut
  <2>1. k \in 1 .. Len(items) /\ UNCHANGED items
    BY <1>12 DEF DrainAcked, DrainTimesOut, DrainTyped
  <2>2. DrainTyped'
    BY <1>12, <2>1 DEF DrainAcked, DrainTimesOut, DrainTyped, EndDrain
  <2>3. CountTyped'
    BY <1>12, FaultCounts DEF DrainAcked, DrainTimesOut, TimeOut
  <2>4. QED
    BY <1>12, <2>2, <2>3 DEF DrainAcked, DrainTimesOut, WireTyped, BufTyped, PubTyped
<1>13. CASE DrainRemove
  <2>1. PICK n \in 0 .. Len(buf) : buf' = SubSeq(buf, n + 1, Len(buf))
    BY <1>13 DEF DrainRemove
  <2>2. buf' \in Seq(Item)
    BY <2>1, SubSeqProperties, LenProperties DEF BufTyped
  <2>3. QED
    BY <1>13, <2>2 DEF DrainRemove, WireTyped, BufTyped, PubTyped, DrainTyped, CountTyped, countVars
<1>14. CASE ServerRefuses
  BY <1>14, EmptySeq DEF ServerRefuses, WireTyped, BufTyped, PubTyped, DrainTyped, CountTyped, countVars
<1>15. CASE UNCHANGED vars
  BY <1>15 DEF vars, WireTyped, BufTyped, PubTyped, DrainTyped, CountTyped, countVars
<1>16. QED
  BY <1>1, <1>2, <1>3, <1>4, <1>5, <1>6, <1>7, <1>8, <1>9, <1>10, <1>11, <1>12, <1>13, <1>14, <1>15
     DEF Next, Publishing, Drain

\* The types hold initially.
LEMMA TypeInit == Init => TypeOK
<1> SUFFICES ASSUME Init PROVE TypeOK
  OBVIOUS
<1>1. <<>> \in Seq(Msgs) /\ <<>> \in Seq(Item)
  BY EmptySeq
<1>2. WireTyped
  <2>1. stream \in Seq(Msgs) /\ net \in Seq(Msgs)
    BY <1>1 DEF Init
  <2>2. window \in Nat \ {0} /\ acks \subseteq Msgs
    BY DEF Init
  <2>3. connected \in BOOLEAN /\ limitKnown \in BOOLEAN
    BY Zenon DEF Init
  <2>4. QED
    BY <2>1, <2>2, <2>3 DEF WireTyped
<1>3. BufTyped
  BY <1>1 DEF Init, BufTyped
<1>4. PubTyped
  BY <1>1 DEF Init, PubTyped
<1>5. DrainTyped
  BY <1>1 DEF Init, DrainTyped
<1>6. CountTyped
  BY DEF Init, CountTyped
<1>7. QED
  BY <1>2, <1>3, <1>4, <1>5, <1>6, TypeOKParts

\* The publisher's state keeps its types; in particular the flush loop always
\* works on an item that Peek returned (drain, publish).
THEOREM TypeCorrect == Spec => []TypeOK
BY TypeInit, TypeStep, PTL DEF Spec

(***************************************************************************)
(* The inductive invariant                                                 *)
(***************************************************************************)
\* A message is published once: whatever is on its way, stored or accepted was
\* given by a caller, and a caller's message is not accepted before he is done.
GivenInv ==
    /\ SeqElems(stream) \subseteq given /\ SeqElems(net) \subseteq given
    /\ SeqElems(accepted) \subseteq given
    /\ pub # "idle" => cur \in given /\ cur \notin SeqElems(accepted)
    /\ \A i, j \in DOMAIN accepted : accepted[i] = accepted[j] => i = j

\* An acknowledged message is stored.
AcksInv == \A m \in acks : Stored(m)

\* The buffer is ordered by sequence number.
SeqInv ==
    /\ \A a, b \in DOMAIN buf : a < b => buf[a].seq < buf[b].seq
    /\ \A b \in DOMAIN buf : buf[b].seq < nextSeq

\* The flush loop works on a prefix of the buffer, whose items it sends one
\* after the other, and will remove what is stored.
ItemsInv ==
    drainer # "idle" =>
        /\ Len(items) <= Len(buf) /\ \A i \in 1 .. Len(items) : items[i] = buf[i]
        /\ \A i \in 1 .. k : i < k \/ drainer = "remove" => Stored(items[i].id)

\* A buffered message was accepted, and everything accepted before it is stored
\* or further ahead in the buffer.
BufInv ==
    \A b \in DOMAIN buf : \E j \in DOMAIN accepted :
        /\ accepted[j] = buf[b].id
        /\ \A i \in 1 .. j - 1 : Stored(accepted[i]) \/ \E a \in 1 .. b - 1 : buf[a].id = accepted[i]

\* m is sent after the first n accepted messages are stored, so that each of
\* them is in the stream ahead of every copy of m.
StoredBefore(x, p) == \E q \in 1 .. p - 1 : stream[q] = x

Follows(m, n) ==
    /\ m \in SeqElems(net) => \A i \in 1 .. n : Stored(accepted[i])
    /\ \A p \in DOMAIN stream : stream[p] = m => \A i \in 1 .. n : StoredBefore(accepted[i], p)

OrderInv ==
    /\ \A j \in DOMAIN accepted : Follows(accepted[j], j - 1)
    /\ pub # "idle" => Follows(cur, Len(accepted))

IInv ==
    /\ TypeOK /\ GivenInv /\ AcksInv /\ SeqInv /\ ItemsInv /\ BufInv /\ OrderInv
    /\ AcceptedKept

(***************************************************************************)
(* Sequences                                                               *)
(***************************************************************************)
LEMMA ElemsAppend ==
    ASSUME NEW S, NEW s \in Seq(S), NEW e \in S
    PROVE  SeqElems(Append(s, e)) = SeqElems(s) \cup {e}
<1>1. DOMAIN s = 1 .. Len(s) /\ DOMAIN Append(s, e) = 1 .. Len(s) + 1 /\ Len(s) \in Nat
  BY AppendProperties, LenProperties
<1>2. (\A i \in 1 .. Len(s) : Append(s, e)[i] = s[i]) /\ Append(s, e)[Len(s) + 1] = e
  BY AppendProperties
<1>3. \A x : x \in SeqElems(Append(s, e)) <=> x \in SeqElems(s) \/ x = e
  BY <1>1, <1>2 DEF SeqElems
<1>4. QED
  BY <1>3

\* Taking the first element off a sequence adds no element.
LEMMA ElemsTail ==
    ASSUME NEW S, NEW s \in Seq(S), s # <<>>
    PROVE  SeqElems(Tail(s)) \subseteq SeqElems(s) /\ Head(s) \in SeqElems(s)
<1>1. DOMAIN s = 1 .. Len(s) /\ Len(s) \in Nat \ {0} /\ DOMAIN Tail(s) = 1 .. Len(s) - 1
  BY HeadTailProperties, LenProperties, EmptySeq
<1>2. (\A i \in 1 .. Len(s) - 1 : Tail(s)[i] = s[i + 1]) /\ Head(s) = s[1]
  BY <1>1, HeadTailProperties
<1>3. QED
  BY <1>1, <1>2 DEF SeqElems

\* A prefix has no other elements than the sequence.
LEMMA ElemsPrefix ==
    ASSUME NEW S, NEW s \in Seq(S), NEW n \in 0 .. Len(s)
    PROVE  SeqElems(SubSeq(s, 1, n)) \subseteq SeqElems(s)
<1>1. DOMAIN s = 1 .. Len(s) /\ Len(s) \in Nat /\ \A i \in 1 .. n : s[i] \in S
  BY LenProperties, ElementOfSeq
<1>2. /\ SubSeq(s, 1, n) \in Seq(S) /\ Len(SubSeq(s, 1, n)) = n
      /\ \A i \in 1 .. n : SubSeq(s, 1, n)[i] = s[i]
  BY <1>1, SubSeqProperties
<1>3. DOMAIN SubSeq(s, 1, n) = 1 .. n
  BY <1>2, LenProperties
<1>4. QED
  BY <1>1, <1>2, <1>3 DEF SeqElems

(***************************************************************************)
(* What a step does to the stream, to the connection and to the callers    *)
(***************************************************************************)
\* The stream is left alone, or the next message on the way is appended to it.
StreamStep ==
    \/ UNCHANGED stream
    \/ net # <<>> /\ stream' = Append(stream, Head(net))

\* Nothing is sent but a caller's new message while the buffer is empty, and the
\* item that the flush loop has come to.
NetStep ==
    \/ SeqElems(net') \subseteq SeqElems(net)
    \/ \E m \in Msgs : Publish(m) /\ buf = <<>> /\ SeqElems(net') = SeqElems(net) \cup {m}
    \/ DrainSend /\ SeqElems(net') = SeqElems(net) \cup {items[k].id}

\* A message is accepted by the caller who gave it: acknowledged or buffered.
AcceptStep ==
    \/ UNCHANGED accepted
    \/ PublishAcked
    \/ AppendToBuffer /\ accepted' = Append(accepted, cur)

\* A caller ends, goes on with his message, or begins.
CallerStep ==
    \/ pub' = "idle" /\ given \subseteq given'
    \/ pub # "idle" /\ pub' # "idle" /\ cur' = cur /\ given \subseteq given' /\ UNCHANGED accepted
    \/ UNCHANGED <<pub, cur, accepted>> /\ given \subseteq given'
    \/ \E m \in Msgs : Publish(m)

\* What a step can do to the stream, the network, the accepted messages and the
\* caller.
LEMMA Steps ==
    ASSUME TypeOK, [Next]_vars
    PROVE  StreamStep /\ NetStep /\ AcceptStep /\ CallerStep
<1> USE DEF streamVars, connVars, bufVars, pubVars, drainVars, callerVars
<1>1. stream \in Seq(Msgs) /\ net \in Seq(Msgs)
  BY DEF TypeOK
<1>2. CASE ServerTakes
  <2>1. StreamStep
    BY <1>2 DEF ServerTakes, StreamStep
  <2>2. NetStep
    BY <1>1, <1>2, ElemsTail DEF ServerTakes, NetStep
  <2>3. QED
    BY <1>2, <2>1, <2>2 DEF ServerTakes, AcceptStep, CallerStep
<1>3. CASE Disconnect \/ Crash
  <2>1. NetStep
    BY <1>1, <1>3, ElemsPrefix DEF Disconnect, Crash, NetStep
  <2>2. QED
    BY <1>3, <2>1 DEF Disconnect, Crash, StreamStep, AcceptStep, CallerStep
<1>4. ASSUME NEW m \in Msgs, Publish(m) PROVE StreamStep /\ NetStep /\ AcceptStep /\ CallerStep
  <2>1. SeqElems(Append(net, m)) = SeqElems(net) \cup {m}
    BY <1>1, ElemsAppend
  <2>2. (net' = Append(net, m) /\ buf = <<>>) \/ UNCHANGED net
    BY <1>4 DEF Publish, Transmit
  <2>3. NetStep
    BY <1>4, <2>1, <2>2 DEF NetStep
  <2>4. QED
    BY <1>4, <2>3 DEF Publish, StreamStep, AcceptStep, CallerStep
<1>5. CASE DrainSend
  <2>1. items[k].id \in Msgs
    <3>1. k \in 1 .. Len(items) /\ items \in Seq([seq : Nat, id : Msgs])
      BY <1>5 DEF DrainSend, TypeOK
    <3>2. items[k] \in [seq : Nat, id : Msgs]
      BY <3>1, ElementOfSeq
    <3>3. QED
      BY <3>2
  <2>2. SeqElems(Append(net, items[k].id)) = SeqElems(net) \cup {items[k].id}
    BY <1>1, <2>1, ElemsAppend
  <2>3. NetStep
    BY <1>5, <2>2 DEF DrainSend, Transmit, NetStep
  <2>4. QED
    BY <1>5, <2>3 DEF DrainSend, StreamStep, AcceptStep, CallerStep
<1>6. CASE \E m \in Msgs : PublishTooLarge(m)
  BY <1>6 DEF PublishTooLarge, StreamStep, NetStep, AcceptStep, CallerStep
<1>7. CASE PublishAcked \/ PublishTimesOut \/ AppendFails
  BY <1>7 DEF PublishAcked, PublishTimesOut, AppendFails, StreamStep, NetStep, AcceptStep, CallerStep
<1>8. CASE AppendToBuffer
  BY <1>8 DEF AppendToBuffer, StreamStep, NetStep, AcceptStep, CallerStep
<1>9. CASE WindowExpires \/ Connect \/ DrainPeek \/ DrainAcked \/ DrainTimesOut \/ DrainRemove \/ RemoveFails
  BY <1>9 DEF WindowExpires, Connect, DrainPeek, DrainAcked, DrainTimesOut, DrainRemove, RemoveFails,
              StreamStep, NetStep, AcceptStep, CallerStep
<1>10. CASE ServerRefuses
  <2>1. SeqElems(net') = {}
    BY <1>10 DEF ServerRefuses, SeqElems
  <2>2. QED
    BY <1>10, <2>1 DEF ServerRefuses, StreamStep, NetStep, AcceptStep, CallerStep
<1>11. CASE UNCHANGED vars
  BY <1>11 DEF vars, StreamStep, NetStep, AcceptStep, CallerStep
<1>12. QED
  BY <1>2, <1>3, <1>4, <1>5, <1>6, <1>7, <1>8, <1>9, <1>10, <1>11 DEF Next, Publishing, Drain

\* The stream only grows, at its end and by the head of the connection.
LEMMA StreamGrows ==
    ASSUME TypeOK, StreamStep
    PROVE  /\ Len(stream) \in Nat /\ DOMAIN stream = 1 .. Len(stream)
           /\ \A p \in DOMAIN stream : p \in DOMAIN stream' /\ stream'[p] = stream[p]
           /\ \A p \in DOMAIN stream' : p \in DOMAIN stream
                \/ /\ p = Len(stream) + 1 /\ net # <<>>
                   /\ stream'[p] = Head(net) /\ Head(net) \in SeqElems(net)
           /\ \A x : Stored(x) => x \in SeqElems(stream')
<1>1. stream \in Seq(Msgs) /\ net \in Seq(Msgs)
  BY DEF TypeOK
<1>2. Len(stream) \in Nat /\ DOMAIN stream = 1 .. Len(stream)
  BY <1>1, LenProperties
<1>3. CASE UNCHANGED stream
  BY <1>2, <1>3 DEF Stored
<1>4. CASE net # <<>> /\ stream' = Append(stream, Head(net))
  <2>1. Head(net) \in Msgs /\ Head(net) \in SeqElems(net)
    BY <1>1, <1>4, HeadTailProperties, ElemsTail
  <2>2. /\ stream' \in Seq(Msgs) /\ Len(stream') = Len(stream) + 1
        /\ \A p \in 1 .. Len(stream) : stream'[p] = stream[p]
        /\ stream'[Len(stream) + 1] = Head(net)
    BY <1>1, <1>4, <2>1, AppendProperties
  <2>3. DOMAIN stream' = 1 .. Len(stream) + 1
    BY <2>2, LenProperties
  <2>4. QED
    BY <1>2, <1>4, <2>1, <2>2, <2>3 DEF Stored, SeqElems
<1>5. QED
  BY <1>3, <1>4 DEF StreamStep

\* The accepted messages only grow, at their end and by a caller's message.
LEMMA AcceptGrows ==
    ASSUME TypeOK, AcceptStep
    PROVE  /\ Len(accepted) \in Nat /\ DOMAIN accepted = 1 .. Len(accepted)
           /\ \A i \in DOMAIN accepted : i \in DOMAIN accepted' /\ accepted'[i] = accepted[i]
           /\ UNCHANGED accepted \/ /\ pub # "idle" /\ pub' = "idle"
                                    /\ Len(accepted') = Len(accepted) + 1
                                    /\ DOMAIN accepted' = 1 .. Len(accepted) + 1
                                    /\ accepted'[Len(accepted) + 1] = cur
                                    /\ SeqElems(accepted') = SeqElems(accepted) \cup {cur}
<1>1. accepted \in Seq(Msgs) /\ (pub # "idle" => cur \in Msgs)
  BY DEF TypeOK
<1>2. Len(accepted) \in Nat /\ DOMAIN accepted = 1 .. Len(accepted)
  BY <1>1, LenProperties
<1>3. CASE UNCHANGED accepted
  BY <1>2, <1>3
<1>4. CASE ~UNCHANGED accepted
  <2>1. pub # "idle" /\ pub' = "idle" /\ accepted' = Append(accepted, cur)
    BY <1>4 DEF AcceptStep, PublishAcked, AppendToBuffer
  <2>2. /\ accepted' \in Seq(Msgs) /\ Len(accepted') = Len(accepted) + 1
        /\ \A i \in 1 .. Len(accepted) : accepted'[i] = accepted[i]
        /\ accepted'[Len(accepted) + 1] = cur
    BY <1>1, <2>1, AppendProperties
  <2>3. DOMAIN accepted' = 1 .. Len(accepted) + 1
    BY <2>2, LenProperties
  <2>4. SeqElems(accepted') = SeqElems(accepted) \cup {cur}
    BY <1>1, <2>1, ElemsAppend
  <2>5. \A i \in DOMAIN accepted : i \in DOMAIN accepted' /\ accepted'[i] = accepted[i]
    BY <1>2, <2>2, <2>3
  <2>6. QED
    BY <1>2, <2>1, <2>2, <2>3, <2>4, <2>5, Zenon
<1>5. QED
  BY <1>3, <1>4, Zenon

(***************************************************************************)
(* Every part of the invariant is kept                                     *)
(***************************************************************************)
\* The message that the flush loop sends was accepted, and everything accepted
\* before it is stored.
LEMMA DrainedFollows ==
    ASSUME IInv, drainer # "idle"
    PROVE  \E j \in DOMAIN accepted :
               /\ accepted[j] = items[k].id
               /\ \A i \in 1 .. j - 1 : Stored(accepted[i])
<1>1. k \in 1 .. Len(items) /\ Len(items) \in Nat /\ Len(buf) \in Nat /\ DOMAIN buf = 1 .. Len(buf)
  BY LenProperties DEF IInv, TypeOK
<1>2. k \in DOMAIN buf /\ \A a \in 1 .. k : items[a] = buf[a]
  BY <1>1 DEF IInv, ItemsInv
<1>3. PICK j \in DOMAIN accepted :
        /\ accepted[j] = buf[k].id
        /\ \A i \in 1 .. j - 1 : Stored(accepted[i]) \/ \E a \in 1 .. k - 1 : buf[a].id = accepted[i]
  BY <1>2 DEF IInv, BufInv
<1>4. \A a \in 1 .. k - 1 : Stored(buf[a].id)
  BY <1>1, <1>2 DEF IInv, ItemsInv
<1>5. accepted[j] = items[k].id
  BY <1>1, <1>2, <1>3
<1>6. \A i \in 1 .. j - 1 : Stored(accepted[i])
  BY <1>3, <1>4
<1>7. QED
  BY <1>5, <1>6

\* Only messages that were given to Publish are anywhere.
LEMMA GivenKept ==
    ASSUME IInv, [Next]_vars
    PROVE  GivenInv'
<1>1. StreamStep /\ NetStep /\ AcceptStep /\ CallerStep /\ TypeOK /\ GivenInv
  BY Steps DEF IInv
<1>2. given \subseteq given'
  BY <1>1 DEF CallerStep, Publish
<1>3. SeqElems(stream') \subseteq given'
  BY <1>1, <1>2, StreamGrows DEF GivenInv, SeqElems
<1>4. SeqElems(net') \subseteq given'
  <2>1. CASE DrainSend /\ SeqElems(net') = SeqElems(net) \cup {items[k].id}
    <3>1. items[k].id \in SeqElems(accepted)
      BY <2>1, DrainedFollows DEF DrainSend, SeqElems
    <3>2. QED
      BY <1>1, <1>2, <2>1, <3>1 DEF GivenInv
  <2>2. ASSUME NEW m \in Msgs, Publish(m), SeqElems(net') = SeqElems(net) \cup {m}
        PROVE  SeqElems(net') \subseteq given'
    BY <1>1, <2>2 DEF Publish, GivenInv
  <2>3. QED
    BY <1>1, <1>2, <2>1, <2>2 DEF NetStep, GivenInv
<1>5. SeqElems(accepted') \subseteq given'
  BY <1>1, <1>2, AcceptGrows DEF GivenInv
<1>6. pub' # "idle" => cur' \in given' /\ cur' \notin SeqElems(accepted')
  <2>1. ASSUME NEW m \in Msgs, Publish(m) PROVE cur' \in given' /\ cur' \notin SeqElems(accepted')
    BY <1>1, <2>1 DEF Publish, GivenInv
  <2>2. QED
    BY <1>1, <1>2, <2>1 DEF CallerStep, GivenInv
<1>7. \A i, j \in DOMAIN accepted' : accepted'[i] = accepted'[j] => i = j
  <2>1. CASE UNCHANGED accepted
    BY <1>1, <2>1 DEF GivenInv
  <2>2. CASE ~UNCHANGED accepted
    <3>1. /\ Len(accepted) \in Nat /\ DOMAIN accepted = 1 .. Len(accepted)
          /\ \A i \in DOMAIN accepted : accepted'[i] = accepted[i]
          /\ pub # "idle" /\ DOMAIN accepted' = 1 .. Len(accepted) + 1 /\ accepted'[Len(accepted) + 1] = cur
      BY <1>1, <2>2, AcceptGrows
    <3>2. \A i \in DOMAIN accepted : accepted[i] # cur
      BY <1>1, <3>1 DEF GivenInv, SeqElems
    <3>3. QED
      BY <1>1, <3>1, <3>2 DEF GivenInv
  <2>3. QED
    BY <2>1, <2>2
<1>8. QED
  BY <1>3, <1>4, <1>5, <1>6, <1>7 DEF GivenInv, SeqElems

\* Only a message in the stream is acknowledged.
LEMMA AcksKept ==
    ASSUME IInv, [Next]_vars
    PROVE  AcksInv'
<1> USE DEF streamVars, connVars, bufVars, pubVars, drainVars, callerVars
<1>1. StreamStep /\ TypeOK /\ AcksInv /\ \A x : Stored(x) => x \in SeqElems(stream')
  BY Steps, StreamGrows DEF IInv
<1>2. acks' \subseteq acks \/ ServerTakes
  BY DEF Next, Publishing, Drain, ServerRefuses, WindowExpires, Connect, Disconnect, PublishTooLarge, Publish, Transmit,
         PublishAcked, AppendToBuffer, PublishTimesOut, AppendFails, DrainPeek, DrainSend, DrainAcked,
         DrainRemove, DrainTimesOut, RemoveFails, Crash, vars
<1>3. CASE acks' \subseteq acks
  BY <1>1, <1>3 DEF AcksInv, Stored
<1>4. CASE ServerTakes
  <2>1. net \in Seq(Msgs) /\ net # <<>> /\ stream \in Seq(Msgs)
    BY <1>1, <1>4 DEF ServerTakes, TypeOK
  <2>2. Head(net) \in Msgs /\ window \in Nat \ {0} /\ DOMAIN stream = 1 .. Len(stream) /\ Len(stream) \in Nat
    BY <1>1, <2>1, HeadTailProperties, LenProperties DEF TypeOK
  <2>3. CASE Duplicate(Head(net))
    <3>1. Stored(Head(net))
      BY <2>2, <2>3 DEF Duplicate, Stored, SeqElems
    <3>2. QED
      BY <1>1, <1>4, <3>1 DEF ServerTakes, AcksInv, Stored
  <2>4. CASE ~Duplicate(Head(net))
    <3>1. Head(net) \in SeqElems(stream')
      BY <1>4, <2>1, <2>2, <2>4, ElemsAppend DEF ServerTakes
    <3>2. QED
      BY <1>1, <1>4, <3>1 DEF ServerTakes, AcksInv, Stored
  <2>5. QED
    BY <2>3, <2>4
<1>5. QED
  BY <1>2, <1>3, <1>4

\* What happens to the buffer: it is left alone, a caller's message is appended
\* to it, or the flush loop removes from it.
BufStep ==
    \/ UNCHANGED <<buf, nextSeq>>
    \/ AppendToBuffer /\ buf' = Append(buf, [seq |-> nextSeq, id |-> cur]) /\ nextSeq' = nextSeq + 1
                      /\ accepted' = Append(accepted, cur)
    \/ DrainRemove

\* What a step can do to the buffer.
LEMMA BufSteps == ASSUME [Next]_vars PROVE BufStep
<1> USE DEF streamVars, connVars, bufVars, pubVars, drainVars, callerVars
<1>1. CASE AppendToBuffer
  BY <1>1 DEF AppendToBuffer, BufStep
<1>2. CASE DrainRemove
  BY <1>2 DEF BufStep
<1>3. CASE ~AppendToBuffer /\ ~DrainRemove
  BY <1>3 DEF BufStep, Next, Publishing, Drain, ServerTakes, ServerRefuses, WindowExpires, Connect, Disconnect, PublishTooLarge,
         Publish, PublishAcked, PublishTimesOut, AppendFails, DrainPeek, DrainSend, DrainAcked,
         DrainTimesOut, RemoveFails, Crash, vars
<1>4. QED
  BY <1>1, <1>2, <1>3

\* Appending leaves what the buffer holds where it is.
LEMMA AppendGrows ==
    ASSUME TypeOK, pub # "idle", nextSeq' = nextSeq + 1,
           buf' = Append(buf, [seq |-> nextSeq, id |-> cur])
    PROVE  /\ Len(buf) \in Nat /\ DOMAIN buf = 1 .. Len(buf)
           /\ Len(buf') = Len(buf) + 1 /\ DOMAIN buf' = 1 .. Len(buf) + 1
           /\ \A b \in 1 .. Len(buf) : buf'[b] = buf[b]
           /\ buf'[Len(buf) + 1].id = cur /\ buf'[Len(buf) + 1].seq = nextSeq
<1> DEFINE it == [seq |-> nextSeq, id |-> cur]
<1>1. it \in Item /\ it.id = cur /\ it.seq = nextSeq /\ buf \in Seq(Item) /\ buf' = Append(buf, it)
  BY DEF TypeOK, Item
<1> HIDE DEF it
<1>2. /\ buf' \in Seq(Item) /\ Len(buf') = Len(buf) + 1
      /\ \A b \in 1 .. Len(buf) : buf'[b] = buf[b]
      /\ buf'[Len(buf) + 1] = it
  BY <1>1, AppendProperties
<1>3. Len(buf) \in Nat /\ DOMAIN buf = 1 .. Len(buf) /\ DOMAIN buf' = 1 .. Len(buf) + 1
  BY <1>1, <1>2, LenProperties
<1>4. QED
  BY <1>1, <1>2, <1>3

\* Remove takes the oldest items off the buffer, and they are stored.
LEMMA RemoveShifts ==
    ASSUME IInv, DrainRemove
    PROVE  \E n \in 0 .. Len(buf) :
               /\ Len(buf) \in Nat /\ DOMAIN buf = 1 .. Len(buf) /\ DOMAIN buf' = 1 .. Len(buf) - n
               /\ \A b \in 1 .. Len(buf) - n : buf'[b] = buf[b + n]
               /\ \A b \in 1 .. n : Stored(buf[b].id)
<1>1. /\ buf \in Seq(Item) /\ Len(buf) \in Nat /\ DOMAIN buf = 1 .. Len(buf)
      /\ Len(items) \in Nat /\ k \in 1 .. Len(items) /\ drainer = "remove"
  BY LenProperties DEF IInv, TypeOK, DrainRemove, Item
<1>2. k \in 1 .. Len(buf) /\ items[k] = buf[k] /\ \A i \in 1 .. k : items[i] = buf[i] /\ Stored(items[i].id)
  BY <1>1 DEF IInv, ItemsInv
<1>3. PICK n \in 0 .. Len(buf) :
        /\ \A i \in 1 .. n : buf[i].seq <= items[k].seq
        /\ buf' = SubSeq(buf, n + 1, Len(buf))
  BY DEF DrainRemove
<1>4. \A i \in 1 .. Len(buf) : buf[i] \in Item
  BY <1>1, ElementOfSeq
<1>5. n \in Nat /\ n <= k
  <2>1. CASE n <= k
    BY <1>1, <1>3, <2>1
  <2>2. CASE k < n
    <3>1. n \in 1 .. Len(buf) /\ buf[n].seq <= buf[k].seq
      BY <1>1, <1>2, <1>3, <2>2
    <3>2. buf[k].seq < buf[n].seq
      BY <1>1, <1>2, <2>2, <3>1 DEF IInv, SeqInv
    <3>3. buf[k].seq \in Nat /\ buf[n].seq \in Nat
      BY <1>2, <1>4, <3>1 DEF Item
    <3>4. QED
      BY <3>1, <3>2, <3>3
  <2>3. QED
    BY <1>1, <1>3, <2>1, <2>2
<1>6. \A b \in 1 .. n : Stored(buf[b].id)
  BY <1>1, <1>2, <1>5
<1>7. /\ buf' \in Seq(Item) /\ Len(buf') = Len(buf) - n
      /\ \A b \in 1 .. Len(buf) - n : buf'[b] = buf[b + n]
  <2>1. CASE n = Len(buf)
    <3>1. buf' = <<>>
      BY <1>1, <1>3, <2>1, SubSeqProperties
    <3>2. QED
      BY <1>1, <2>1, <3>1, EmptySeq
  <2>2. CASE n < Len(buf)
    <3> DEFINE f == n + 1
    <3>1. f \in Int /\ f <= Len(buf) /\ \A i \in f .. Len(buf) : buf[i] \in Item
      BY <1>1, <1>4, <1>5, <2>2
    <3> HIDE DEF f
    <3>2. /\ SubSeq(buf, f, Len(buf)) \in Seq(Item)
          /\ Len(SubSeq(buf, f, Len(buf))) = Len(buf) - f + 1
          /\ \A b \in 1 .. Len(buf) - f + 1 : SubSeq(buf, f, Len(buf))[b] = buf[f + b - 1]
      BY <1>1, <3>1, SubSeqProperties
    <3>3. Len(buf) - f + 1 = Len(buf) - n /\ \A b \in 1 .. Len(buf) - n : f + b - 1 = b + n
      BY <1>1, <1>5 DEF f
    <3>4. buf' = SubSeq(buf, f, Len(buf))
      BY <1>3 DEF f
    <3>5. QED
      BY <3>2, <3>3, <3>4
  <2>3. Len(buf) \in Nat /\ n \in 0 .. Len(buf)
    BY <1>1, <1>3
  <2>4. n = Len(buf) \/ n < Len(buf)
    BY <2>3
  <2>5. QED
    BY <2>1, <2>2, <2>4
<1>8. DOMAIN buf' = 1 .. Len(buf) - n
  BY <1>7, LenProperties
<1>9. QED
  BY <1>1, <1>6, <1>7, <1>8

\* The buffer stays ordered by sequence number, below the next one.
LEMMA SeqKept ==
    ASSUME IInv, [Next]_vars
    PROVE  SeqInv'
<1>1. BufStep /\ TypeOK /\ SeqInv /\ nextSeq \in Nat
  BY BufSteps DEF IInv, TypeOK
<1>2. \A b \in DOMAIN buf : buf[b].seq \in Nat
  <2>1. buf \in Seq(Item) /\ DOMAIN buf = 1 .. Len(buf)
    BY <1>1, LenProperties DEF TypeOK, Item
  <2>2. \A b \in DOMAIN buf : buf[b] \in Item
    BY <2>1, ElementOfSeq
  <2>3. QED
    BY <2>2 DEF Item
<1>3. CASE UNCHANGED <<buf, nextSeq>>
  BY <1>1, <1>3 DEF SeqInv
<1>4. CASE AppendToBuffer /\ buf' = Append(buf, [seq |-> nextSeq, id |-> cur]) /\ nextSeq' = nextSeq + 1
  <2>1. /\ Len(buf) \in Nat /\ DOMAIN buf = 1 .. Len(buf) /\ DOMAIN buf' = 1 .. Len(buf) + 1
        /\ \A b \in 1 .. Len(buf) : buf'[b] = buf[b]
        /\ buf'[Len(buf) + 1].seq = nextSeq
    <3>1. pub # "idle"
      BY <1>4 DEF AppendToBuffer
    <3>2. QED
      BY <1>1, <1>4, <3>1, AppendGrows
  <2>2. \A b \in 1 .. Len(buf) : buf[b].seq < nextSeq
    BY <1>1, <2>1 DEF SeqInv
  <2>3. \A b \in DOMAIN buf' : buf'[b].seq < nextSeq'
    BY <1>1, <1>2, <1>4, <2>1, <2>2
  <2>4. ASSUME NEW a \in DOMAIN buf', NEW b \in DOMAIN buf', a < b PROVE buf'[a].seq < buf'[b].seq
    <3>1. a \in 1 .. Len(buf) /\ buf'[a] = buf[a]
      BY <2>1, <2>4
    <3>2. CASE b = Len(buf) + 1
      BY <2>1, <2>2, <3>1, <3>2
    <3>3. CASE b \in 1 .. Len(buf)
      BY <1>1, <2>1, <2>4, <3>1, <3>3 DEF SeqInv
    <3>4. QED
      BY <2>1, <3>2, <3>3
  <2>5. QED
    BY <2>3, <2>4 DEF SeqInv
<1>5. CASE DrainRemove
  <2>1. PICK n \in 0 .. Len(buf) :
          /\ Len(buf) \in Nat /\ DOMAIN buf = 1 .. Len(buf) /\ DOMAIN buf' = 1 .. Len(buf) - n
          /\ \A b \in 1 .. Len(buf) - n : buf'[b] = buf[b + n]
    BY <1>5, RemoveShifts
  <2>2. UNCHANGED nextSeq
    BY <1>5 DEF DrainRemove
  <2>3. \A b \in DOMAIN buf' : b + n \in DOMAIN buf /\ buf'[b] = buf[b + n]
    BY <2>1
  <2>4. \A b \in DOMAIN buf' : buf'[b].seq < nextSeq'
    BY <1>1, <2>2, <2>3 DEF SeqInv
  <2>5. ASSUME NEW a \in DOMAIN buf', NEW b \in DOMAIN buf', a < b PROVE buf'[a].seq < buf'[b].seq
    <3>1. a + n < b + n
      BY <2>1, <2>5
    <3>2. QED
      BY <1>1, <2>3, <3>1 DEF SeqInv
  <2>6. QED
    BY <2>4, <2>5 DEF SeqInv
<1>6. QED
  BY <1>1, <1>3, <1>4, <1>5 DEF BufStep

\* What the flush loop does to its items: it gives them up, takes new ones, or
\* goes on with them while the buffer only grows.
DrainStep ==
    \/ drainer' = "idle"
    \/ DrainPeek
    \/ /\ drainer # "idle" /\ UNCHANGED items
       /\ UNCHANGED buf \/ (pub # "idle" /\ nextSeq' = nextSeq + 1
                              /\ buf' = Append(buf, [seq |-> nextSeq, id |-> cur]))
       /\ \/ k' = k /\ (drainer' = drainer \/ drainer' = "send")
          \/ k' = k - 1 /\ drainer' = "remove"
          \/ items[k].id \in acks /\ ((k' = k + 1 /\ drainer' = "next") \/ (k' = k /\ drainer' = "remove"))

\* What a step can do to the flush loop.
LEMMA DrainSteps ==
    ASSUME TypeOK, [Next]_vars
    PROVE  DrainStep
<1> USE DEF streamVars, connVars, bufVars, pubVars, drainVars, callerVars
<1>1. drainer \in {"idle", "next", "send", "remove"}
  BY DEF TypeOK
<1>2. CASE AppendToBuffer
  BY <1>1, <1>2 DEF AppendToBuffer, DrainStep
<1>3. CASE DrainPeek \/ DrainRemove \/ RemoveFails \/ Crash
  BY <1>3 DEF DrainRemove, RemoveFails, Crash, DrainStep
<1>4. CASE DrainSend
  BY <1>4 DEF DrainSend, EndDrain, DrainStep
<1>5. CASE DrainAcked
  <2>1. drainer # "idle" /\ UNCHANGED items /\ UNCHANGED buf /\ items[k].id \in acks
    BY <1>5 DEF DrainAcked
  <2>2. (k' = k + 1 /\ drainer' = "next") \/ (k' = k /\ drainer' \in {"remove", "idle"})
    BY <1>5 DEF DrainAcked, EndDrain
  <2>3. CASE drainer' = "idle"
    BY <2>3 DEF DrainStep
  <2>4. CASE (k' = k + 1 /\ drainer' = "next") \/ (k' = k /\ drainer' = "remove")
    BY <2>1, <2>4, Zenon DEF DrainStep
  <2>5. QED
    BY <2>2, <2>3, <2>4
<1>6. CASE DrainTimesOut
  BY <1>6 DEF DrainTimesOut, EndDrain, DrainStep
<1>7. CASE ServerTakes \/ ServerRefuses \/ WindowExpires \/ Connect \/ Disconnect \/ PublishAcked \/ PublishTimesOut \/ AppendFails
  BY <1>1, <1>7 DEF ServerTakes, ServerRefuses, WindowExpires, Connect, Disconnect, PublishAcked,
                    PublishTimesOut, AppendFails,
                    DrainStep
<1>8. CASE \E m \in Msgs : PublishTooLarge(m) \/ Publish(m)
  BY <1>1, <1>8 DEF PublishTooLarge, Publish, DrainStep
<1>9. CASE UNCHANGED vars
  BY <1>1, <1>9 DEF vars, DrainStep
<1>10. QED
  BY <1>2, <1>3, <1>4, <1>5, <1>6, <1>7, <1>8, <1>9 DEF Next, Publishing, Drain

\* What the flush loop read is still ahead in the buffer, and stored up to
\* where it is.
LEMMA ItemsKept ==
    ASSUME IInv, [Next]_vars
    PROVE  ItemsInv'
<1>1. DrainStep /\ TypeOK /\ ItemsInv /\ AcksInv /\ \A x : Stored(x) => x \in SeqElems(stream')
  BY Steps, StreamGrows, DrainSteps DEF IInv
<1>2. CASE drainer' = "idle"
  BY <1>2 DEF ItemsInv
<1>3. CASE DrainPeek
  <2>1. buf \in Seq(Item) /\ buf # <<>> /\ UNCHANGED buf /\ k' = 1 /\ drainer' = "next"
    BY <1>1, <1>3 DEF DrainPeek, TypeOK, Item, bufVars
  <2>2. Len(buf) \in Nat \ {0}
    BY <2>1, EmptySeq, LenProperties
  <2> DEFINE n == Min({PeekMax, Len(buf)})
  <2>3. n \in 1 .. Len(buf) /\ items' = SubSeq(buf, 1, n)
    BY <1>3, <2>2, PeekSome DEF DrainPeek
  <2> HIDE DEF n
  <2>4. \A i \in 1 .. n : buf[i] \in Item
    BY <2>1, <2>2, <2>3, ElementOfSeq
  <2>5. Len(items') = n /\ \A i \in 1 .. n : items'[i] = buf[i]
    BY <2>1, <2>2, <2>3, <2>4, SubSeqProperties
  <2>6. QED
    BY <2>1, <2>2, <2>3, <2>5 DEF ItemsInv
<1>4. CASE /\ drainer # "idle" /\ UNCHANGED items
           /\ UNCHANGED buf \/ (pub # "idle" /\ nextSeq' = nextSeq + 1
                                  /\ buf' = Append(buf, [seq |-> nextSeq, id |-> cur]))
           /\ \/ k' = k /\ (drainer' = drainer \/ drainer' = "send")
              \/ k' = k - 1 /\ drainer' = "remove"
              \/ items[k].id \in acks /\ ((k' = k + 1 /\ drainer' = "next") \/ (k' = k /\ drainer' = "remove"))
  <2>1. Len(items) \in Nat /\ k \in 1 .. Len(items)
    BY <1>1, <1>4, LenProperties DEF TypeOK
  <2>2. /\ Len(items) <= Len(buf) /\ \A i \in 1 .. Len(items) : items[i] = buf[i]
        /\ \A i \in 1 .. k : i < k \/ drainer = "remove" => Stored(items[i].id)
    BY <1>1, <1>4 DEF ItemsInv
  <2>3. Len(items') <= Len(buf') /\ \A i \in 1 .. Len(items') : items'[i] = buf'[i]
    <3>1. CASE UNCHANGED buf
      BY <1>4, <2>2, <3>1
    <3>2. CASE ~UNCHANGED buf
      <4>1. Len(buf) \in Nat /\ Len(buf') = Len(buf) + 1 /\ \A i \in 1 .. Len(buf) : buf'[i] = buf[i]
        BY <1>1, <1>4, <3>2, AppendGrows
      <4>2. QED
        BY <1>4, <2>1, <2>2, <4>1
    <3>3. QED
      BY <3>1, <3>2
  <2>4. \A i \in 1 .. k' : i < k' \/ drainer' = "remove" => Stored(items[i].id)
    <3>1. CASE k' = k /\ (drainer' = drainer \/ drainer' = "send")
      BY <2>1, <2>2, <3>1
    <3>2. CASE k' = k - 1 /\ drainer' = "remove"
      BY <2>1, <2>2, <3>2
    <3>3. CASE items[k].id \in acks /\ ((k' = k + 1 /\ drainer' = "next") \/ (k' = k /\ drainer' = "remove"))
      <4>1. \A i \in 1 .. k : Stored(items[i].id)
        BY <1>1, <2>1, <2>2, <3>3 DEF AcksInv
      <4>2. QED
        BY <2>1, <3>3, <4>1
    <3>4. QED
      BY <1>4, <3>1, <3>2, <3>3
  <2>5. \A i \in 1 .. k' : i < k' \/ drainer' = "remove" => items'[i].id \in SeqElems(stream')
    BY <1>1, <1>4, <2>4
  <2>6. QED
    BY <2>3, <2>5 DEF ItemsInv, Stored
<1>5. QED
  BY <1>1, <1>2, <1>3, <1>4 DEF DrainStep

\* What was accepted before a buffered message stays stored or ahead of it.
LEMMA BufKept ==
    ASSUME IInv, [Next]_vars
    PROVE  BufInv'
<1>1. BufStep /\ AcceptStep /\ TypeOK /\ BufInv /\ AcceptedKept
  BY BufSteps, Steps DEF IInv
<1>2. \A x : Stored(x) => x \in SeqElems(stream')
  BY Steps, StreamGrows DEF IInv
<1>3. /\ Len(accepted) \in Nat /\ DOMAIN accepted = 1 .. Len(accepted)
      /\ \A i \in DOMAIN accepted : i \in DOMAIN accepted' /\ accepted'[i] = accepted[i]
  BY <1>1, AcceptGrows
<1>4. SUFFICES ASSUME NEW b \in DOMAIN buf'
               PROVE  \E j \in DOMAIN accepted' :
                        /\ accepted'[j] = buf'[b].id
                        /\ \A i \in 1 .. j - 1 : \/ accepted'[i] \in SeqElems(stream')
                                                 \/ \E a \in 1 .. b - 1 : buf'[a].id = accepted'[i]
  BY DEF BufInv, Stored
\* An item that stays in the buffer, where nothing but stored items is removed.
<1>5. ASSUME NEW n \in Nat, b + n \in DOMAIN buf, buf'[b] = buf[b + n], DOMAIN buf = 1 .. Len(buf), b \in Nat,
             Len(buf) \in Nat,
             \A a \in 1 .. b - 1 : buf'[a] = buf[a + n], \A a \in 1 .. n : Stored(buf[a].id)
      PROVE  \E j \in DOMAIN accepted' :
                /\ accepted'[j] = buf'[b].id
                /\ \A i \in 1 .. j - 1 : \/ accepted'[i] \in SeqElems(stream')
                                         \/ \E a \in 1 .. b - 1 : buf'[a].id = accepted'[i]
  <2>1. PICK j \in DOMAIN accepted :
          /\ accepted[j] = buf[b + n].id
          /\ \A i \in 1 .. j - 1 : Stored(accepted[i]) \/ \E a \in 1 .. b + n - 1 : buf[a].id = accepted[i]
    BY <1>1, <1>5 DEF BufInv
  <2>2. j \in DOMAIN accepted' /\ accepted'[j] = buf'[b].id
    BY <1>3, <1>5, <2>1
  <2>3. ASSUME NEW i \in 1 .. j - 1
        PROVE  accepted'[i] \in SeqElems(stream') \/ \E a \in 1 .. b - 1 : buf'[a].id = accepted'[i]
    <3>1. i \in DOMAIN accepted /\ accepted'[i] = accepted[i]
      BY <1>3, <2>1
    <3>2. CASE Stored(accepted[i])
      BY <1>2, <3>1, <3>2
    <3>3. ASSUME NEW a \in 1 .. b + n - 1, buf[a].id = accepted[i]
          PROVE  accepted'[i] \in SeqElems(stream') \/ \E c \in 1 .. b - 1 : buf'[c].id = accepted'[i]
      <4>1. CASE a <= n
        BY <1>2, <1>5, <3>1, <3>3, <4>1
      <4>2. CASE n < a
        <5>1. a - n \in 1 .. b - 1 /\ (a - n) + n = a
          BY <1>5, <4>2
        <5>2. buf'[a - n].id = accepted'[i]
          BY <1>5, <3>1, <3>3, <5>1
        <5>3. QED
          BY <5>1, <5>2
      <4>3. QED
        BY <1>5, <4>1, <4>2
    <3>4. QED
      BY <2>1, <3>2, <3>3
  <2>4. QED
    BY <2>2, <2>3
<1>6. CASE UNCHANGED buf
  <2>1. DOMAIN buf = 1 .. Len(buf) /\ Len(buf) \in Nat
    BY <1>1, LenProperties DEF TypeOK
  <2>2. b \in Nat /\ b + 0 = b /\ b \in DOMAIN buf /\ \A a \in 1 .. b - 1 : a + 0 = a
    BY <1>4, <1>6, <2>1
  <2>3. QED
    BY <1>5, <1>6, <2>1, <2>2
<1>7. CASE /\ AppendToBuffer /\ buf' = Append(buf, [seq |-> nextSeq, id |-> cur]) /\ nextSeq' = nextSeq + 1
           /\ accepted' = Append(accepted, cur)
  <2>1. /\ Len(buf) \in Nat /\ DOMAIN buf = 1 .. Len(buf) /\ DOMAIN buf' = 1 .. Len(buf) + 1
        /\ \A a \in 1 .. Len(buf) : buf'[a] = buf[a]
        /\ buf'[Len(buf) + 1].id = cur
    <3>1. pub # "idle"
      BY <1>7 DEF AppendToBuffer
    <3>2. QED
      BY <1>1, <1>7, <3>1, AppendGrows
  <2>2. CASE b \in 1 .. Len(buf)
    <3>1. b \in Nat /\ b + 0 = b /\ b \in DOMAIN buf /\ \A a \in 1 .. b - 1 : a + 0 = a /\ buf'[a] = buf[a]
      BY <2>1, <2>2
    <3>2. QED
      BY <1>5, <2>1, <2>2, <3>1
  <2>3. CASE b = Len(buf) + 1
    <3>1. cur \in Msgs /\ accepted \in Seq(Msgs)
      BY <1>1, <1>7 DEF AppendToBuffer, TypeOK
    <3>2. Len(accepted) + 1 \in DOMAIN accepted' /\ accepted'[Len(accepted) + 1] = cur
      BY <1>3, <1>7, <3>1, AppendProperties, LenProperties
    <3>3. ASSUME NEW i \in 1 .. (Len(accepted) + 1) - 1
          PROVE  accepted'[i] \in SeqElems(stream') \/ \E a \in 1 .. b - 1 : buf'[a].id = accepted'[i]
      <4>1. i \in DOMAIN accepted /\ accepted'[i] = accepted[i]
        BY <1>3
      <4>2. CASE Stored(accepted[i])
        BY <1>2, <4>1, <4>2
      <4>3. CASE Buffered(accepted[i])
        BY <2>1, <2>3, <4>1, <4>3 DEF Buffered
      <4>4. QED
        BY <1>1, <4>1, <4>2, <4>3 DEF AcceptedKept
    <3>4. QED
      BY <2>1, <2>3, <3>2, <3>3
  <2>4. QED
    BY <1>4, <2>1, <2>2, <2>3
<1>8. CASE DrainRemove
  <2>1. PICK n \in 0 .. Len(buf) :
          /\ Len(buf) \in Nat /\ DOMAIN buf = 1 .. Len(buf) /\ DOMAIN buf' = 1 .. Len(buf) - n
          /\ \A a \in 1 .. Len(buf) - n : buf'[a] = buf[a + n]
          /\ \A a \in 1 .. n : Stored(buf[a].id)
    BY <1>8, RemoveShifts
  <2>2. n \in Nat /\ b \in Nat /\ b + n \in DOMAIN buf /\ buf'[b] = buf[b + n]
        /\ \A a \in 1 .. b - 1 : buf'[a] = buf[a + n]
    BY <1>4, <2>1
  <2>3. QED
    BY <1>5, <2>1, <2>2
<1>9. QED
  BY <1>1, <1>6, <1>7, <1>8 DEF BufStep

\* Remove takes out only messages that are stored.
LEMMA AcceptedKeptStep ==
    ASSUME IInv, [Next]_vars
    PROVE  AcceptedKept'
<1>1. BufStep /\ AcceptStep /\ TypeOK /\ AcceptedKept /\ AcksInv
  BY BufSteps, Steps DEF IInv
<1>2. \A x : Stored(x) => x \in SeqElems(stream')
  BY Steps, StreamGrows DEF IInv
<1>3. ASSUME NEW x, Stored(x) \/ Buffered(x)
      PROVE  x \in SeqElems(stream') \/ \E a \in DOMAIN buf' : buf'[a].id = x
  <2>1. CASE Stored(x)
    BY <1>2, <2>1
  <2>2. CASE Buffered(x)
    <3>1. PICK a \in DOMAIN buf : buf[a].id = x
      BY <2>2 DEF Buffered
    <3>2. CASE UNCHANGED buf
      BY <3>1, <3>2
    <3>3. CASE AppendToBuffer /\ buf' = Append(buf, [seq |-> nextSeq, id |-> cur]) /\ nextSeq' = nextSeq + 1
      <4>1. pub # "idle"
        BY <3>3 DEF AppendToBuffer
      <4>2. a \in DOMAIN buf' /\ buf'[a] = buf[a]
        BY <1>1, <3>1, <3>3, <4>1, AppendGrows
      <4>3. QED
        BY <3>1, <4>2
    <3>4. CASE DrainRemove
      <4>1. PICK n \in 0 .. Len(buf) :
              /\ Len(buf) \in Nat /\ DOMAIN buf = 1 .. Len(buf) /\ DOMAIN buf' = 1 .. Len(buf) - n
              /\ \A b \in 1 .. Len(buf) - n : buf'[b] = buf[b + n]
              /\ \A b \in 1 .. n : Stored(buf[b].id)
        BY <3>4, RemoveShifts
      <4>2. CASE a <= n
        BY <1>2, <3>1, <4>1, <4>2
      <4>3. CASE n < a
        <5>1. a - n \in 1 .. Len(buf) - n /\ (a - n) + n = a
          BY <3>1, <4>1, <4>3
        <5>2. a - n \in DOMAIN buf' /\ buf'[a - n] = buf[a]
          BY <4>1, <5>1
        <5>3. QED
          BY <3>1, <5>2
      <4>4. QED
        BY <3>1, <4>1, <4>2, <4>3
    <3>5. QED
      BY <1>1, <3>2, <3>3, <3>4 DEF BufStep
  <2>3. QED
    BY <1>3, <2>1, <2>2
<1>4. /\ Len(accepted) \in Nat /\ DOMAIN accepted = 1 .. Len(accepted)
      /\ \A i \in DOMAIN accepted : accepted'[i] = accepted[i]
      /\ UNCHANGED accepted \/ /\ DOMAIN accepted' = 1 .. Len(accepted) + 1
                               /\ accepted'[Len(accepted) + 1] = cur
  BY <1>1, AcceptGrows
<1>5. ASSUME NEW i \in DOMAIN accepted'
      PROVE  accepted'[i] \in SeqElems(stream') \/ \E a \in DOMAIN buf' : buf'[a].id = accepted'[i]
  <2>1. CASE i \in DOMAIN accepted
    BY <1>1, <1>3, <1>4, <2>1 DEF AcceptedKept
  <2>2. CASE i \notin DOMAIN accepted
    <3>1. accepted'[i] = cur
      BY <1>4, <2>2
    <3>2. CASE PublishAcked
      BY <1>1, <1>2, <3>1, <3>2 DEF PublishAcked, AcksInv
    <3>3. CASE AppendToBuffer /\ accepted' = Append(accepted, cur)
      <4>1. UNCHANGED accepted \/ (pub # "idle" /\ nextSeq' = nextSeq + 1
                                     /\ buf' = Append(buf, [seq |-> nextSeq, id |-> cur]))
        BY <3>3 DEF AppendToBuffer
      <4>2. Len(buf) \in Nat /\ DOMAIN buf' = 1 .. Len(buf) + 1 /\ buf'[Len(buf) + 1].id = cur
        BY <1>1, <1>4, <2>2, <4>1, AppendGrows
      <4>3. QED
        BY <3>1, <4>2
    <3>4. QED
      BY <1>1, <2>2, <3>2, <3>3 DEF AcceptStep
  <2>3. QED
    BY <2>1, <2>2
<1>6. QED
  BY <1>5 DEF AcceptedKept, Stored, Buffered

\* A message goes on following those accepted before it, unless it is sent
\* before they are stored.
LEMMA FollowsKept ==
    ASSUME TypeOK, StreamStep, NEW m, NEW n \in Nat, Follows(m, n),
           \A i \in 1 .. n : accepted'[i] = accepted[i],
           m \in SeqElems(net') => m \in SeqElems(net) \/ \A i \in 1 .. n : Stored(accepted[i])
    PROVE  Follows(m, n)'
<1>1. /\ Len(stream) \in Nat /\ DOMAIN stream = 1 .. Len(stream)
      /\ \A p \in DOMAIN stream : p \in DOMAIN stream' /\ stream'[p] = stream[p]
      /\ \A p \in DOMAIN stream' : p \in DOMAIN stream
           \/ /\ p = Len(stream) + 1 /\ net # <<>>
              /\ stream'[p] = Head(net) /\ Head(net) \in SeqElems(net)
      /\ \A x : Stored(x) => x \in SeqElems(stream')
  BY StreamGrows, Zenon
<1>2. m \in SeqElems(net') => \A i \in 1 .. n : accepted'[i] \in SeqElems(stream')
  BY <1>1 DEF Follows
<1>3. ASSUME NEW p \in DOMAIN stream', stream'[p] = m, NEW i \in 1 .. n
      PROVE  \E q \in 1 .. p - 1 : stream'[q] = accepted'[i]
  <2>1. CASE p \in DOMAIN stream
    <3>1. PICK q \in 1 .. p - 1 : stream[q] = accepted[i]
      BY <1>1, <1>3, <2>1 DEF Follows, StoredBefore
    <3>2. stream'[q] = stream[q]
      BY <1>1, <2>1, <3>1
    <3>3. QED
      BY <3>1, <3>2
  <2>2. CASE p = Len(stream) + 1 /\ m \in SeqElems(net)
    <3>1. Stored(accepted[i])
      BY <2>2 DEF Follows
    <3>2. PICK q \in DOMAIN stream : stream[q] = accepted[i]
      BY <3>1 DEF Stored, SeqElems
    <3>3. q \in 1 .. p - 1 /\ stream'[q] = accepted'[i]
      BY <1>1, <2>2, <3>2
    <3>4. QED
      BY <3>3
  <2>3. QED
    BY <1>1, <1>3, <2>1, <2>2
<1>4. QED
  BY <1>2, <1>3 DEF Follows, Stored, StoredBefore

\* A message is sent only once those accepted before it are stored.
LEMMA OrderKept ==
    ASSUME IInv, [Next]_vars
    PROVE  OrderInv'
<1>1. StreamStep /\ NetStep /\ AcceptStep /\ CallerStep /\ TypeOK /\ GivenInv /\ OrderInv /\ AcceptedKept
  BY Steps DEF IInv
<1>2. /\ Len(accepted) \in Nat /\ DOMAIN accepted = 1 .. Len(accepted)
      /\ \A i \in DOMAIN accepted : accepted'[i] = accepted[i]
      /\ UNCHANGED accepted \/ /\ pub # "idle" /\ DOMAIN accepted' = 1 .. Len(accepted) + 1
                               /\ accepted'[Len(accepted) + 1] = cur
  BY <1>1, AcceptGrows
<1>3. ASSUME NEW j \in DOMAIN accepted, NEW c, c = accepted[j] PROVE Follows(c, j - 1)'
  <2>1. j - 1 \in Nat /\ Follows(accepted[j], j - 1) /\ accepted'[j] = accepted[j]
    BY <1>1, <1>2 DEF OrderInv
  <2>2. accepted[j] \in SeqElems(net') =>
            accepted[j] \in SeqElems(net) \/ \A i \in 1 .. j - 1 : Stored(accepted[i])
    <3>1. ASSUME NEW m \in Msgs, Publish(m), accepted[j] = m PROVE FALSE
      BY <1>1, <3>1 DEF Publish, GivenInv, SeqElems
    <3>2. CASE DrainSend /\ accepted[j] = items[k].id
      <4>1. PICK h \in DOMAIN accepted : accepted[h] = items[k].id /\ \A i \in 1 .. h - 1 : Stored(accepted[i])
        BY <3>2, DrainedFollows DEF DrainSend
      <4>2. h = j
        BY <1>1, <3>2, <4>1 DEF GivenInv
      <4>3. QED
        BY <4>1, <4>2
    <3>3. QED
      BY <1>1, <3>1, <3>2 DEF NetStep
  <2>3. \A i \in 1 .. j - 1 : accepted'[i] = accepted[i]
    BY <1>2
  <2>4. QED
    BY <1>1, <1>3, <2>1, <2>2, <2>3, FollowsKept
<1>4. ASSUME pub # "idle", NEW c, c = cur, NEW n \in Nat, n = Len(accepted) PROVE Follows(c, n)'
  <2>1. Follows(c, n) /\ c \notin SeqElems(accepted)
    BY <1>1, <1>4 DEF OrderInv, GivenInv
  <2>2. c \in SeqElems(net') => c \in SeqElems(net)
    <3>1. ASSUME NEW m \in Msgs, Publish(m) PROVE FALSE
      BY <1>4, <3>1 DEF Publish
    <3>2. CASE DrainSend /\ c = items[k].id
      BY <2>1, <3>2, DrainedFollows DEF DrainSend, SeqElems
    <3>3. QED
      BY <1>1, <3>1, <3>2 DEF NetStep
  <2>3. \A i \in 1 .. n : accepted'[i] = accepted[i]
    BY <1>2, <1>4
  <2>4. QED
    BY <1>1, <2>1, <2>2, <2>3, FollowsKept
<1>5. ASSUME NEW j \in DOMAIN accepted', NEW c, c = accepted'[j] PROVE Follows(c, j - 1)'
  <2>1. CASE j \in DOMAIN accepted
    BY <1>2, <1>3, <1>5, <2>1
  <2>2. CASE j \notin DOMAIN accepted
    <3>1. j - 1 = Len(accepted) /\ c = cur /\ pub # "idle"
      BY <1>2, <1>5, <2>2
    <3>2. QED
      BY <1>2, <1>4, <3>1
  <2>3. QED
    BY <2>1, <2>2
<1>6. ASSUME pub' # "idle", NEW c, c = cur', NEW n \in Nat, n = Len(accepted') PROVE Follows(c, n)'
  <2>1. CASE pub # "idle" /\ UNCHANGED <<cur, accepted>>
    BY <1>4, <1>6, <2>1
  <2>2. ASSUME NEW m \in Msgs, Publish(m) PROVE Follows(c, n)'
    <3>1. c = m /\ UNCHANGED <<stream, accepted>> /\ m \notin given
      BY <1>6, <2>2 DEF Publish, streamVars
    <3>2. m \notin SeqElems(stream') /\ m \notin SeqElems(net)
      BY <1>1, <3>1 DEF GivenInv
    <3>3. m \in SeqElems(net') => buf = <<>>
      BY <2>2, <3>2 DEF Publish
    <3>4. buf = <<>> => \A i \in DOMAIN accepted : Stored(accepted[i])
      BY <1>1 DEF AcceptedKept, Buffered
    <3>5. m \in SeqElems(net') => \A i \in 1 .. n : accepted'[i] \in SeqElems(stream')
      BY <1>2, <1>6, <3>1, <3>3, <3>4 DEF Stored
    <3>6. \A p \in DOMAIN stream' : stream'[p] # m
      BY <3>2 DEF SeqElems
    <3>7. QED
      BY <3>1, <3>5, <3>6 DEF Follows, Stored
  <2>3. QED
    BY <1>1, <1>6, <2>1, <2>2 DEF CallerStep
<1>7. Len(accepted') \in Nat
  BY TypeStep, LenProperties DEF IInv, TypeOK
<1>8. QED
  BY <1>5, <1>6, <1>7 DEF OrderInv

(***************************************************************************)
(* The theorems                                                            *)
(***************************************************************************)
LEMMA InitInv == Init => IInv
<1> SUFFICES ASSUME Init PROVE IInv
  OBVIOUS
<1>1. DOMAIN stream = {} /\ DOMAIN net = {} /\ DOMAIN accepted = {} /\ DOMAIN buf = {}
  BY EmptySeq DEF Init
<1>2. acks = {} /\ pub = "idle" /\ drainer = "idle"
  BY DEF Init
<1>3. GivenInv /\ AcksInv /\ SeqInv /\ ItemsInv /\ BufInv /\ OrderInv /\ AcceptedKept
  BY <1>1, <1>2 DEF GivenInv, AcksInv, SeqInv, ItemsInv, BufInv, OrderInv, AcceptedKept, SeqElems
<1>4. QED
  BY <1>3, TypeInit DEF IInv

\* The invariant is inductive.
LEMMA StepInv == IInv /\ [Next]_vars => IInv'
<1> SUFFICES ASSUME IInv, [Next]_vars PROVE IInv'
  OBVIOUS
<1>1. TypeOK'
  BY TypeStep DEF IInv
<1>2. QED
  BY <1>1, GivenKept, AcksKept, SeqKept, ItemsKept, BufKept, OrderKept, AcceptedKeptStep DEF IInv

\* The publisher never loses a message it accepted (publish, drain, Append, Remove):
\* it is in the stream or in the buffer, for any messages, sizes and capacities and
\* any number of time-outs, lost acks, failed writes, disconnections and crashes.
THEOREM AcceptedNeverLost == Spec => []AcceptedKept
<1>1. IInv => AcceptedKept
  BY DEF IInv
<1>2. QED
  BY <1>1, InitInv, StepInv, PTL DEF Spec

\* Some natural numbers have a least one.
LEMMA NatMinimum ==
    ASSUME NEW T, T \subseteq Nat, T # {}
    PROVE  \E x \in T : \A y \in T : x <= y
<1> DEFINE R == OpToRel(<, Nat)
<1>1. IsWellFoundedOn(R, Nat)
  BY NatLessThanWellFounded
<1> HIDE DEF R
<1>2. PICK x \in T : \A y \in T : ~ (<<y, x>> \in R)
  BY <1>1, WFMin
<1>3. ASSUME NEW y \in T PROVE x <= y
  <2>1. <<y, x>> \in Nat \X Nat
    OBVIOUS
  <2>2. ~(y < x)
    BY <1>2, <2>1 DEF R, OpToRel
  <2>3. QED
    BY <2>2
<1>4. QED
  BY <1>3

\* The first position of a stored message is a position of it, and no other is less.
LEMMA FirstPosition ==
    ASSUME TypeOK, NEW m, Stored(m)
    PROVE  /\ FirstPos(m) \in DOMAIN stream /\ stream[FirstPos(m)] = m
           /\ \A p \in DOMAIN stream : stream[p] = m => FirstPos(m) <= p
<1> DEFINE P == {i \in DOMAIN stream : stream[i] = m}
<1>1. P \subseteq Nat /\ P # {}
  BY LenProperties DEF TypeOK, Stored, SeqElems
<1>2. \E x \in P : \A y \in P : x <= y
  BY <1>1, NatMinimum
<1>3. Min(P) \in P /\ \A y \in P : Min(P) <= y
  BY <1>2 DEF Min
<1>4. QED
  BY <1>3 DEF FirstPos

\* The invariant gives the order of the stream.
LEMMA InOrder == IInv => NoOvertaking
<1> SUFFICES ASSUME IInv, NEW i \in DOMAIN accepted, NEW j \in DOMAIN accepted,
                    i < j, Stored(accepted[j])
             PROVE  Stored(accepted[i]) /\ FirstPos(accepted[i]) < FirstPos(accepted[j])
  BY DEF NoOvertaking
<1>1. TypeOK /\ OrderInv /\ DOMAIN accepted \subseteq Nat \ {0}
      /\ DOMAIN stream = 1 .. Len(stream) /\ Len(stream) \in Nat
  BY LenProperties DEF IInv, TypeOK
<1> DEFINE p == FirstPos(accepted[j])
<1>2. p \in DOMAIN stream /\ stream[p] = accepted[j]
  BY <1>1, FirstPosition
<1>3. StoredBefore(accepted[i], p)
  BY <1>1, <1>2 DEF OrderInv, Follows
<1> HIDE DEF p
<1>4. PICK q \in 1 .. p - 1 : stream[q] = accepted[i]
  BY <1>3 DEF StoredBefore
<1>5. q \in DOMAIN stream /\ Stored(accepted[i])
  BY <1>1, <1>2, <1>4 DEF Stored, SeqElems
<1>6. FirstPos(accepted[i]) \in DOMAIN stream /\ FirstPos(accepted[i]) <= q
  BY <1>1, <1>4, <1>5, FirstPosition
<1>7. FirstPos(accepted[i]) < p
  BY <1>1, <1>2, <1>4, <1>6
<1>8. QED
  BY <1>5, <1>7 DEF p

\* Messages reach the stream in the order in which Publish accepted them, although
\* callers and the flush loop send concurrently and may send a message again.
THEOREM OrderPreserved == Spec => []NoOvertaking
BY InOrder, InitInv, StepInv, PTL DEF Spec
=============================================================================
