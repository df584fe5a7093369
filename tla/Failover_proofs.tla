--------------------------- MODULE Failover_proofs ---------------------------
(***************************************************************************)
(* Proofs about Failover, for any number of instances and nodes and any    *)
(* bounds.                                                                 *)
(*                                                                         *)
(* HistoryIsChain is not inductive: an entry is added by an instance that  *)
(* promoted earlier, from a copy of the cluster record it read earlier     *)
(* still.  IInv says what such copies are worth (RecordInv) and counts the *)
(* entries that are still to be written (StoryInv).  The action properties *)
(* and the lease have an invariant of their own on top of it.              *)
(***************************************************************************)
EXTENDS Failover, TLAPS, WellFoundedInduction

Points(k) == IF k = "loop" THEN LoopPoints ELSE ApiPoints

\* What a process of kind k may be.
Proc(k) ==
  {p \in ProcType(Points(k)) :
     p.at \in {"update", "record", "resume"} \/ (k = "api" /\ p.at = "load") => p.to \in Nodes}

ProcTyped ==
  /\ proc \in [Coords -> [Kinds -> ProcType(LoopPoints \cup ApiPoints)]]
  /\ \A c \in Coords, k \in Kinds : proc[c][k] \in Proc(k)

NodeStatus == [failures : 0..FailThreshold, answer : (Conditions \ {"down"}) \cup {"none"},
               applied : 0..MaxApplied, paused : BOOLEAN]
Entries == [epoch : Nat, from : Nodes, to : Nodes]
Views == [master : 0..NumNodes, epoch : Nat]

StoreTyped ==
  /\ lease \in [holder : Coords \cup {None}, left : 0..TTL]
  /\ leaseFresh \subseteq Coords
  /\ cluster \in ClusterType
  /\ history \subseteq Entries

InstanceTyped ==
  /\ leader \in [Coords -> BOOLEAN]
  /\ view \in [Coords -> Views]
  /\ status \in [Coords -> [Nodes -> NodeStatus]]
  /\ booting \subseteq Coords
  /\ due \in [Coords -> SUBSET {"lease", "poll"}]

NodeTyped ==
  /\ cond \in [Nodes -> Conditions]
  /\ applied \in [Nodes -> 0..MaxApplied]
  /\ paused \in [Nodes -> BOOLEAN]
  /\ changes \in 0..MaxChanges /\ faults \in 0..MaxFaults /\ requests \in 0..MaxRequests

\* The types of the variables without the bounds on epochs.
Typed == StoreTyped /\ InstanceTyped /\ NodeTyped /\ ProcTyped

(***************************************************************************)
(* Processes                                                               *)
(***************************************************************************)
\* A process that is not about to promote or to resume a node is at rest.
LEMMA AtTyped ==
  ASSUME NEW k \in Kinds, NEW a \in Points(k), a \notin {"update", "record", "resume"},
         ~(k = "api" /\ a = "load")
  PROVE  At(a) \in Proc(k)
<1> USE FailoverAssumption
<1>1. NoCluster \in ClusterType
  BY DEF NoCluster, ClusterType, Nodes
<1>2. At(a) = [at |-> a, cl |-> NoCluster, to |-> 0, left |-> 0, age |-> 0]
  BY DEF At
<1>3. At(a) \in ProcType(Points(k))
  BY <1>1, <1>2 DEF ProcType
<1>4. QED
  BY <1>2, <1>3 DEF Proc

\* Goto moves one process and no other.
LEMMA GotoMoves ==
  ASSUME NEW c \in Coords, NEW k \in Kinds, NEW p \in Proc(k), ProcTyped, Goto(c, k, p)
  PROVE  /\ ProcTyped'
         /\ \A d \in Coords, j \in Kinds : proc'[d][j] = IF d = c /\ j = k THEN p ELSE proc[d][j]
<1>1. p \in ProcType(LoopPoints \cup ApiPoints)
  BY DEF Proc, ProcType, Points
<1>2. proc' = [proc EXCEPT ![c] = [proc[c] EXCEPT ![k] = p]]
  BY DEF Goto, ProcTyped
<1>3. proc' \in [Coords -> [Kinds -> ProcType(LoopPoints \cup ApiPoints)]]
  BY <1>1, <1>2 DEF ProcTyped
<1>4. \A d \in Coords, j \in Kinds : proc'[d][j] = IF d = c /\ j = k THEN p ELSE proc[d][j]
  BY <1>2 DEF ProcTyped
<1>5. \A d \in Coords, j \in Kinds : proc'[d][j] \in Proc(j)
  BY <1>4 DEF ProcTyped
<1>6. QED
  BY <1>3, <1>4, <1>5 DEF ProcTyped, Proc, ProcType, ClusterType, Points, LoopPoints, ApiPoints, Nodes

\* The fields of a process have their types.
LEMMA ProcFields ==
  ASSUME ProcTyped, NEW c \in Coords, NEW k \in Kinds
  PROVE  /\ proc[c][k] \in Proc(k)
         /\ proc[c][k].at \in Points(k)
         /\ proc[c][k].cl \in ClusterType
         /\ proc[c][k].to \in 0..NumNodes
         /\ proc[c][k].left \in 0..TTL
         /\ proc[c][k].age \in 0..Cooldown
         /\ proc[c][k].at \in {"update", "record", "resume"} => proc[c][k].to \in Nodes
         /\ k = "api" /\ proc[c][k].at = "load" => proc[c][k].to \in Nodes
BY DEF ProcTyped, Proc, ProcType

\* Every point that At is used with.
LEMMA Rests ==
  /\ \A a \in {"off", "select", "acquire", "write", "poll", "refresh", "view", "load", "decide",
               "adopt", "adopted", "stopping"} : At(a) \in Proc("loop")
  /\ At("idle") \in Proc("api")
  /\ \A k \in Kinds : At(Rest(k)) \in Proc(k)
BY AtTyped DEF Kinds, Points, LoopPoints, ApiPoints, Rest

\* A process with a lease, a record, a node or another point is a process.
LEMMA ProcChanges ==
  ASSUME NEW k \in Kinds, NEW p \in Proc(k)
  PROVE  /\ \A a \in Points(k) : p.to \in Nodes => [p EXCEPT !.at = a] \in Proc(k)
         /\ \A cl \in ClusterType : [p EXCEPT !.cl = cl] \in Proc(k)
         /\ \A n \in Nodes : [p EXCEPT !.to = n] \in Proc(k)
         /\ \A x \in 0..TTL : [p EXCEPT !.left = x] \in Proc(k)
BY FailoverAssumption DEF Proc, ProcType, Nodes

\* A process that is about to promote node n, or to resume it.
LEMMA AtNode ==
  ASSUME NEW k \in Kinds, NEW a \in Points(k), NEW cl \in ClusterType, NEW n \in Nodes
  PROVE  /\ [At(a) EXCEPT !.cl = cl, !.to = n] \in Proc(k)
         /\ [At(a) EXCEPT !.to = n] \in Proc(k)
<1>1. NoCluster \in ClusterType
  BY FailoverAssumption DEF NoCluster, ClusterType, Nodes
<1>2. \A d \in ClusterType : [at |-> a, cl |-> d, to |-> n, left |-> 0, age |-> 0] \in Proc(k)
  BY FailoverAssumption DEF Proc, ProcType, Nodes
<1>3. [At(a) EXCEPT !.to = n] = [at |-> a, cl |-> NoCluster, to |-> n, left |-> 0, age |-> 0]
  BY DEF At
<1>4. [At(a) EXCEPT !.cl = cl, !.to = n] = [[At(a) EXCEPT !.cl = cl] EXCEPT !.to = n]
  BY Zenon DEF At
<1>5. [At(a) EXCEPT !.cl = cl] = [at |-> a, cl |-> cl, to |-> 0, left |-> 0, age |-> 0]
  BY DEF At
<1>6. [[at |-> a, cl |-> cl, to |-> 0, left |-> 0, age |-> 0] EXCEPT !.to = n]
      = [at |-> a, cl |-> cl, to |-> n, left |-> 0, age |-> 0]
  OBVIOUS
<1>7. [At(a) EXCEPT !.cl = cl, !.to = n] = [at |-> a, cl |-> cl, to |-> n, left |-> 0, age |-> 0]
  BY <1>4, <1>5, <1>6, Zenon
<1>8. QED
  BY <1>1, <1>2, <1>3, <1>7

(***************************************************************************)
(* Type correctness, one lemma for every group of actions                  *)
(***************************************************************************)
\* Forgetting what a process knew keeps the types.
LEMMA ForgetTyped ==
  ASSUME Typed, NEW c \in Coords, Forget(c), booting' \subseteq Coords
  PROVE  InstanceTyped' /\ leaseFresh' \subseteq Coords
<1>1. NotAsked \in NodeStatus
  BY FailoverAssumption DEF NotAsked, NodeStatus
<1>2. NoView \in Views
  BY FailoverAssumption DEF NoView, Views
<1>3. QED
  BY <1>1, <1>2 DEF Typed, StoreTyped, InstanceTyped, Forget

\* Starting, stopping and crashing an instance.
LEMMA LifeTyped ==
  ASSUME Typed, NEW c \in Coords, Start(c) \/ Stop(c) \/ Crash(c) \/ Release(c)
  PROVE  Typed'
<1> USE DEF Typed
<1>1. CASE Start(c)
  <2>1. ProcTyped'
    BY <1>1, GotoMoves, Rests DEF Start, Kinds
  <2>2. QED
    BY <1>1, <2>1, ForgetTyped DEF Start, StoreTyped, InstanceTyped, NodeTyped, nodes
<1>2. CASE Stop(c)
  <2>1. ProcTyped'
    BY <1>2, GotoMoves, Rests DEF Stop, Kinds
  <2>2. QED
    BY <1>2, <2>1 DEF Stop, StoreTyped, NodeTyped, InstanceTyped, nodes, store
<1>3. CASE Crash(c)
  <2>1. ProcTyped'
    <3>1. /\ At("off") \in Proc("loop") /\ At("idle") \in Proc("api")
          /\ {At("off"), At("idle")} \subseteq ProcType(LoopPoints \cup ApiPoints)
      BY Rests DEF Proc, ProcType, Points, Kinds
    <3>2. [loop |-> At("off"), api |-> At("idle")] \in [Kinds -> ProcType(LoopPoints \cup ApiPoints)]
      BY <3>1 DEF Kinds
    <3>3. proc' = [proc EXCEPT ![c] = [loop |-> At("off"), api |-> At("idle")]]
      BY <1>3 DEF Crash
    <3>4. proc' \in [Coords -> [Kinds -> ProcType(LoopPoints \cup ApiPoints)]]
      BY <3>2, <3>3 DEF ProcTyped
    <3>5. \A d \in Coords, j \in Kinds : proc'[d][j] \in Proc(j)
      BY <3>1, <3>3 DEF ProcTyped, Kinds
    <3>6. QED
      BY <3>4, <3>5 DEF ProcTyped
  <2>2. QED
    BY <1>3, <2>1, ForgetTyped, FailoverAssumption DEF Crash, StoreTyped, NodeTyped, InstanceTyped, nodes, Fault
<1>4. CASE Release(c)
  <2>1. ProcTyped'
    BY <1>4, GotoMoves, Rests DEF Release, Kinds
  <2>2. lease' \in [holder : Coords \cup {None}, left : 0..TTL] /\ leaseFresh' \subseteq Coords
    BY <1>4, FailoverAssumption DEF Release, StoreTyped
  <2>3. NodeTyped'
    BY <1>4, FailoverAssumption DEF Release, NodeTyped, nodes, Fault, NoFault
  <2>4. QED
    BY <1>4, <2>1, <2>2, <2>3 DEF Release, StoreTyped, InstanceTyped
<1>5. QED
  BY <1>1, <1>2, <1>3, <1>4

\* The lease.
LEMMA LeaseTyped ==
  ASSUME Typed, NEW c \in Coords, Acquire(c) \/ AcquireWrite(c) \/ AcquireFails(c)
  PROVE  Typed'
<1> USE DEF Typed
<1>1. [At("write") EXCEPT !.left = TTL] \in Proc("loop") /\ AfterLease(c) \in Proc("loop")
  BY Rests, ProcChanges, FailoverAssumption DEF Kinds, AfterLease
<1>2. ProcTyped'
  BY <1>1, GotoMoves DEF Kinds, Acquire, AcquireWrite, AcquireFails, Elected
<1>3. due' \in [Coords -> SUBSET {"lease", "poll"}]
  BY DEF Acquire, AcquireWrite, AcquireFails, Serve, InstanceTyped
<1>4. leader' \in [Coords -> BOOLEAN]
  BY DEF Acquire, AcquireWrite, AcquireFails, Elected, InstanceTyped
<1>5. lease' \in [holder : Coords \cup {None}, left : 0..TTL] /\ leaseFresh' \subseteq Coords
  <2>1. Loop(c).left \in 0..TTL
    BY ProcFields DEF Kinds, Loop
  <2>2. WriteLease(c) => lease' \in [holder : Coords \cup {None}, left : 0..TTL] /\ leaseFresh' \subseteq Coords
    BY <2>1 DEF WriteLease
  <2>3. QED
    BY <2>2 DEF Acquire, AcquireWrite, AcquireFails, StoreTyped
<1>6. NodeTyped'
  <2>1. faults' = faults \/ Fault
    BY DEF Acquire, AcquireWrite, AcquireFails
  <2>2. faults' \in 0..MaxFaults
    BY <2>1, FailoverAssumption DEF NodeTyped, Fault
  <2>3. UNCHANGED <<nodes, changes, requests>>
    BY DEF Acquire, AcquireWrite, AcquireFails
  <2>4. QED
    BY <2>2, <2>3 DEF NodeTyped, nodes
<1>7. QED
  BY <1>2, <1>3, <1>4, <1>5, <1>6 DEF Acquire, AcquireWrite, AcquireFails, StoreTyped, InstanceTyped

\* The poll of the nodes.
LEMMA PollTyped ==
  ASSUME Typed, NEW c \in Coords, Poll(c)
  PROVE  Typed'
<1> USE DEF Typed
<1>1. ProcTyped'
  BY Rests, GotoMoves DEF Kinds, Poll
<1>2. due' \in [Coords -> SUBSET {"lease", "poll"}]
  BY DEF Poll, Serve, InstanceTyped
<1>3. PICK lost \in SUBSET {n \in Nodes : cond[n] # "down"} :
        /\ IF lost = {} THEN NoFault ELSE Fault
        /\ status' = [status EXCEPT ![c] =
             [n \in Nodes |-> Asked(@[n], n, cond[n] # "down" /\ n \notin lost)]]
  BY DEF Poll
<1>4. \A s \in NodeStatus, n \in Nodes : Asked(s, n, cond[n] # "down" /\ n \notin lost) \in NodeStatus
  BY FailoverAssumption DEF NodeTyped, Asked, NodeStatus
<1>5. status' \in [Coords -> [Nodes -> NodeStatus]]
  BY <1>3, <1>4 DEF InstanceTyped
<1>6. faults' \in 0..MaxFaults
  BY <1>3, FailoverAssumption DEF NodeTyped, Fault, NoFault
<1>7. QED
  BY <1>1, <1>2, <1>5, <1>6 DEF Poll, StoreTyped, InstanceTyped, NodeTyped, nodes, store

(***************************************************************************)
(* The choice of the node to promote                                       *)
(***************************************************************************)
\* A set of natural numbers that is not empty has a least element.
LEMMA NatMinimum ==
  ASSUME NEW T, T \subseteq Nat, T # {}
  PROVE  \E x \in T : \A y \in T : x <= y
<1> DEFINE R == OpToRel(<, Nat)
<1>1. IsWellFoundedOn(R, Nat)
  BY NatLessThanWellFounded
<1> HIDE DEF R
<1>2. PICK x \in T : \A y \in T : ~ (<<y, x>> \in R)
  BY <1>1, WFMin
<1>3. ASSUME NEW y \in T PROVE x <= y
  <2>1. <<y, x>> \in Nat \X Nat
    OBVIOUS
  <2>2. ~(y < x)
    BY <1>2, <2>1 DEF R, OpToRel
  <2>3. QED
    BY <2>2
<1>4. QED
  BY <1>3

\* While there are candidates FailoverOnce promotes one, and none is better.
LEMMA CandidateIsBest ==
  ASSUME Typed, NEW c \in Coords, NEW m, Candidates(c, m) # {}
  PROVE  /\ Candidate(c, m) \in Candidates(c, m)
         /\ \A n \in Candidates(c, m) : Better(c, Candidate(c, m), n)
<1> DEFINE C == Candidates(c, m)
           Lag(n) == MaxApplied - status[c][n].applied
<1>1. C \subseteq Nodes /\ Nodes \subseteq Nat /\ C # {}
  BY FailoverAssumption DEF Candidates, Nodes
<1>2. \A n \in C : status[c][n].applied \in 0..MaxApplied
  BY <1>1 DEF Typed, InstanceTyped, NodeStatus
<1> HIDE DEF C
<1>3. \A n \in C : Lag(n) \in Nat
  BY <1>2, FailoverAssumption
<1>4. PICK x \in {Lag(n) : n \in C} : \A y \in {Lag(n) : n \in C} : x <= y
  BY <1>1, <1>3, NatMinimum
<1> DEFINE B == {n \in C : Lag(n) = x}
<1>5. B \subseteq Nat /\ B # {}
  BY <1>1, <1>4
<1>6. PICK b \in B : \A n \in B : b <= n
  BY <1>5, NatMinimum
<1>7. b \in C /\ \A n \in C : Better(c, b, n)
  <2>1. b \in C /\ Lag(b) = x
    BY <1>6
  <2>2. ASSUME NEW n \in C PROVE Better(c, b, n)
    <3>1. Lag(b) <= Lag(n)
      BY <1>4, <2>1
    <3>2. Lag(b) = Lag(n) => b <= n
      BY <1>6, <2>1
    <3>3. QED
      BY <1>1, <1>2, <2>1, <3>1, <3>2, FailoverAssumption DEF Better
  <2>3. QED
    BY <2>1, <2>2
<1>8. QED
  BY <1>7 DEF Candidate, C

(***************************************************************************)
(* Type correctness of the actions on the cluster record                   *)
(***************************************************************************)
\* The record that loadCluster reads or creates.
Loaded == IF cluster.rev = 0 THEN [rev |-> 1, master |-> 1, epoch |-> 1, age |-> 0] ELSE cluster

\* loadCluster gives the process the record, which it creates when there is
\* none.
LEMMA LoadTyped ==
  ASSUME Typed, NEW c \in Coords, NEW k \in Kinds, NEW p \in Proc(k), Load(c, k, p)
  PROVE  /\ cluster' = Loaded /\ cluster' \in ClusterType
         /\ [p EXCEPT !.cl = Loaded] \in Proc(k)
         /\ Goto(c, k, [p EXCEPT !.cl = Loaded])
         /\ ProcTyped'
<1>1. Loaded \in ClusterType
  BY FailoverAssumption DEF Typed, StoreTyped, Loaded, ClusterType, Nodes
<1>2. [p EXCEPT !.cl = Loaded] \in Proc(k)
  BY <1>1, ProcChanges
<1>3. cluster' = Loaded /\ Goto(c, k, [p EXCEPT !.cl = Loaded])
  BY DEF Load, Loaded
<1>4. QED
  BY <1>1, <1>2, <1>3, GotoMoves DEF Typed

\* A promotion writes a record.
LEMMA DecisionTyped ==
  ASSUME Typed, NEW c \in Coords, NEW k \in Kinds, proc[c][k].at \in {"update", "record"}
  PROVE  Decision(proc[c][k]) \in ClusterType
<1>1. proc[c][k].cl \in ClusterType /\ proc[c][k].to \in Nodes /\ proc[c][k].age \in 0..Cooldown
  BY ProcFields DEF Typed
<1>2. QED
  BY <1>1 DEF Decision, ClusterType

\* What an instance serves has its type.
LEMMA ViewTyped ==
  ASSUME Typed, NEW c \in Coords, NEW cl \in ClusterType, SetView(c, cl)
  PROVE  view' \in [Coords -> Views]
<1>1. [master |-> cl.master, epoch |-> cl.epoch] \in Views
  BY FailoverAssumption DEF ClusterType, Views, Nodes
<1>2. QED
  BY <1>1 DEF SetView, Typed, InstanceTyped

\* Reading the record, and the decision of FailoverOnce.
LEMMA RefreshTyped ==
  ASSUME Typed, NEW c \in Coords,
         RefreshLoad(c) \/ RefreshStore(c) \/ RefreshFails(c) \/ FailoverLoad(c) \/ FailoverDecide(c)
  PROVE  Typed'
<1> USE DEF Typed
<1>1. AfterView(c) \in Proc("loop") /\ "loop" \in Kinds
  BY Rests DEF AfterView, Kinds
<1>2. CASE RefreshLoad(c)
  <2>1. \/ Load(c, "loop", At("view"))
        \/ Load(c, "loop", At("adopted"))
    BY <1>2 DEF RefreshLoad
  <2>2. cluster' \in ClusterType /\ ProcTyped'
    BY <1>1, <2>1, LoadTyped, Rests
  <2>3. QED
    BY <1>2, <2>2 DEF RefreshLoad, StoreTyped, InstanceTyped, NodeTyped, nodes
<1>3. CASE RefreshStore(c)
  <2>1. ProcTyped'
    BY <1>1, <1>3, GotoMoves, Rests DEF RefreshStore
  <2>2. view' \in [Coords -> Views]
    BY <1>1, <1>3, ProcFields, ViewTyped DEF RefreshStore, Loop
  <2>3. QED
    BY <1>3, <2>1, <2>2 DEF RefreshStore, StoreTyped, InstanceTyped, NodeTyped, nodes, store
<1>4. CASE RefreshFails(c)
  <2>1. ProcTyped'
    BY <1>1, <1>4, GotoMoves, Rests DEF RefreshFails
  <2>2. QED
    BY <1>4, <2>1, FailoverAssumption DEF RefreshFails, Fault, StoreTyped, InstanceTyped, NodeTyped, nodes, store
<1>5. CASE FailoverLoad(c)
  <2>1. \/ Load(c, "loop", At("decide"))
        \/ Goto(c, "loop", At("select")) /\ UNCHANGED cluster
    BY <1>5 DEF FailoverLoad
  <2>2. cluster' \in ClusterType /\ ProcTyped'
    BY <1>1, <2>1, LoadTyped, GotoMoves, Rests DEF StoreTyped
  <2>3. faults' \in 0..MaxFaults
    BY <1>5, FailoverAssumption DEF FailoverLoad, Fault, NoFault, NodeTyped
  <2>4. QED
    BY <1>5, <2>2, <2>3 DEF FailoverLoad, StoreTyped, InstanceTyped, NodeTyped, nodes
<1>6. CASE FailoverDecide(c)
  <2> DEFINE cl == Loop(c).cl
             new == [At("update") EXCEPT !.cl = cl, !.to = Candidate(c, cl.master)]
  <2>1. cl \in ClusterType
    BY <1>1, ProcFields DEF Loop
  <2>2. Replace(c, cl) => new \in Proc("loop")
    <3> SUFFICES ASSUME Replace(c, cl) PROVE new \in Proc("loop")
      OBVIOUS
    <3>1. Candidate(c, cl.master) \in Nodes
      BY CandidateIsBest DEF Replace, Candidates
    <3>2. QED
      BY <1>1, <2>1, <3>1, AtNode DEF Points, LoopPoints
  <2>3. ProcTyped'
    <3>1. Goto(c, "loop", At("select")) \/ (Replace(c, cl) /\ Goto(c, "loop", new))
      BY <1>6 DEF FailoverDecide
    <3>2. QED
      BY <1>1, <2>2, <3>1, GotoMoves, Rests
  <2>4. view' \in [Coords -> Views]
    BY <1>6, <2>1, ViewTyped DEF FailoverDecide
  <2>5. QED
    BY <1>6, <2>3, <2>4 DEF FailoverDecide, StoreTyped, InstanceTyped, NodeTyped, nodes, store
<1>7. QED
  BY <1>2, <1>3, <1>4, <1>5, <1>6

\* A promotion, by FailoverOnce or through the API.
LEMMA PromoteTyped ==
  ASSUME Typed, NEW c \in Coords, NEW k \in Kinds,
         Update(c, k) \/ UpdateFails(c, k) \/ Record(c, k) \/ Resume(c, k)
  PROVE  Typed'
<1> USE DEF Typed
<1> DEFINE p == proc[c][k]
<1>1. p \in Proc(k) /\ At(Rest(k)) \in Proc(k)
  BY ProcFields, Rests
<1>2. CASE Update(c, k)
  <2>1. p.at = "update" /\ p.to \in Nodes /\ Decision(p) \in ClusterType
    BY <1>2, ProcFields, DecisionTyped DEF Update
  <2>2. [p EXCEPT !.at = "record"] \in Proc(k) /\ At(IF k = "loop" THEN "adopt" ELSE "idle") \in Proc(k)
    BY <1>1, <2>1, ProcChanges, Rests DEF Points, LoopPoints, ApiPoints, Kinds
  <2>3. \/ cluster' = Decision(p) /\ Goto(c, k, [p EXCEPT !.at = "record"])
        \/ UNCHANGED cluster /\ Goto(c, k, At(IF k = "loop" THEN "adopt" ELSE "idle"))
    BY <1>2 DEF Update
  <2>4. ProcTyped' /\ cluster' \in ClusterType
    BY <2>1, <2>2, <2>3, GotoMoves DEF StoreTyped
  <2>5. QED
    BY <1>2, <2>4 DEF Update, StoreTyped, InstanceTyped, NodeTyped, nodes
<1>3. CASE UpdateFails(c, k)
  <2>1. Decision(p) \in ClusterType
    BY <1>3, DecisionTyped DEF UpdateFails
  <2>2. ProcTyped'
    BY <1>1, <1>3, GotoMoves DEF UpdateFails
  <2>3. QED
    BY <1>3, <2>1, <2>2, FailoverAssumption DEF UpdateFails, Fault, StoreTyped, InstanceTyped, NodeTyped, nodes
<1>4. CASE Record(c, k)
  <2>1. p.at = "record" /\ p.to \in Nodes /\ p.cl \in ClusterType /\ Decision(p) \in ClusterType
    BY <1>4, ProcFields, DecisionTyped DEF Record
  <2>2. [epoch |-> p.cl.epoch + 1, from |-> p.cl.master, to |-> p.to] \in Entries
    BY <2>1 DEF Entries, ClusterType
  <2>3. history' \subseteq Entries /\ faults' \in 0..MaxFaults
    BY <1>4, <2>2, FailoverAssumption DEF Record, StoreTyped, NodeTyped, NoFault, Fault
  <2>4. [At("resume") EXCEPT !.to = p.to] \in Proc(k)
    BY <2>1, AtNode DEF Points, LoopPoints, ApiPoints
  <2>5. ProcTyped'
    BY <1>1, <1>4, <2>4, GotoMoves DEF Record
  <2>6. view' \in [Coords -> Views]
    BY <1>4, <2>1, ViewTyped DEF Record
  <2>7. QED
    BY <1>4, <2>3, <2>5, <2>6 DEF Record, StoreTyped, InstanceTyped, NodeTyped, nodes
<1>5. CASE Resume(c, k)
  <2>1. ProcTyped'
    BY <1>1, <1>5, GotoMoves DEF Resume
  <2>2. paused' \in [Nodes -> BOOLEAN]
    BY <1>5 DEF Resume, NodeTyped
  <2>3. faults' \in 0..MaxFaults
    BY <1>5, FailoverAssumption DEF Resume, NodeTyped, Fault, NoFault
  <2>4. QED
    BY <1>5, <2>1, <2>2, <2>3 DEF Resume, StoreTyped, InstanceTyped, NodeTyped, store
<1>6. QED
  BY <1>2, <1>3, <1>4, <1>5

\* A promotion by hand.
LEMMA RequestTyped ==
  ASSUME Typed, NEW c \in Coords, RequestLoad(c) \/ \E n \in Nodes : Request(c, n)
  PROVE  Typed'
<1> USE DEF Typed
<1> DEFINE p == proc[c]["api"]
<1>1. p \in Proc("api") /\ "api" \in Kinds /\ p.to \in 0..NumNodes
  BY ProcFields DEF Kinds
<1>2. CASE RequestLoad(c)
  <2>1. p.at = "load" /\ [p EXCEPT !.at = "update"] \in Proc("api")
    BY <1>1, <1>2, ProcFields, ProcChanges DEF RequestLoad, Points, ApiPoints
  <2>2. \/ Load(c, "api", [p EXCEPT !.at = "update"])
        \/ Goto(c, "api", At("idle")) /\ UNCHANGED cluster
    BY <1>2 DEF RequestLoad
  <2>3. cluster' \in ClusterType /\ ProcTyped'
    BY <1>1, <2>1, <2>2, LoadTyped, GotoMoves, Rests DEF StoreTyped
  <2>4. faults' \in 0..MaxFaults
    BY <1>2, FailoverAssumption DEF RequestLoad, Fault, NoFault, NodeTyped
  <2>5. QED
    BY <1>2, <2>3, <2>4 DEF RequestLoad, StoreTyped, InstanceTyped, NodeTyped, nodes
<1>3. ASSUME NEW n \in Nodes, Request(c, n) PROVE Typed'
  <2>1. ProcTyped'
    <3>1. [At("load") EXCEPT !.to = n] \in Proc("api")
      <4>1. NoCluster \in ClusterType
        BY FailoverAssumption DEF NoCluster, ClusterType, Nodes
      <4>2. QED
        BY <1>1, <4>1, AtNode DEF Points, ApiPoints
    <3>2. QED
      BY <1>1, <1>3, <3>1, GotoMoves DEF Request
  <2>2. QED
    BY <1>3, <2>1, FailoverAssumption DEF Request, StoreTyped, InstanceTyped, NodeTyped, nodes, store
<1>4. QED
  BY <1>2, <1>3

(***************************************************************************)
(* Type correctness of nodes and time                                      *)
(***************************************************************************)
\* What Tick makes of a process.
Aged(p) ==
  [p EXCEPT !.left = Less(@),
            !.cl = IF p.at = "decide" THEN Older(@) ELSE @,
            !.age = IF p.at = "update" /\ @ < Cooldown THEN @ + 1 ELSE @]

\* Time moves the lease, the record and the age of a process, nothing else of it.
LEMMA AgedFields ==
  ASSUME NEW k \in Kinds, NEW p \in Proc(k)
  PROVE  /\ Aged(p) \in Proc(k)
         /\ Aged(p).at = p.at /\ Aged(p).to = p.to
         /\ Aged(p).left = Less(p.left)
         /\ Aged(p).cl = IF p.at = "decide" THEN Older(p.cl) ELSE p.cl
<1> USE FailoverAssumption
<1> DEFINE l == Less(p.left)
           d == IF p.at = "decide" THEN Older(p.cl) ELSE p.cl
           a == IF p.at = "update" /\ p.age < Cooldown THEN p.age + 1 ELSE p.age
           q == [p EXCEPT !.left = l]
           r == [q EXCEPT !.cl = d]
           s == [r EXCEPT !.age = a]
<1>1. p \in ProcType(Points(k))
  BY DEF Proc
<1>2. l \in 0..TTL /\ a \in 0..Cooldown
  BY <1>1 DEF ProcType, Less
<1>3. p.cl \in ClusterType /\ Older(p.cl) \in ClusterType
  BY <1>1 DEF ProcType, ClusterType, Older
<1>4. d \in ClusterType
  BY <1>3
<1>5. Aged(p) = s
  BY Zenon DEF Aged
<1> HIDE DEF l, d, a
<1>6. /\ q \in ProcType(Points(k))
      /\ q.at = p.at /\ q.to = p.to /\ q.left = l
  BY <1>1, <1>2 DEF ProcType
<1> HIDE DEF q
<1>7. /\ r \in ProcType(Points(k))
      /\ r.at = p.at /\ r.to = p.to /\ r.left = l /\ r.cl = d
  BY <1>4, <1>6 DEF ProcType
<1> HIDE DEF r
<1>8. /\ s \in ProcType(Points(k))
      /\ s.at = p.at /\ s.to = p.to /\ s.left = l /\ s.cl = d
  BY <1>2, <1>7 DEF ProcType
<1> HIDE DEF s
<1>9. s \in Proc(k)
  BY <1>8 DEF Proc
<1>10. QED
  BY <1>5, <1>8, <1>9 DEF l, d

\* Time moves every process.
LEMMA TickMoves ==
  ASSUME ProcTyped, Tick
  PROVE  /\ ProcTyped'
         /\ \A c \in Coords, k \in Kinds : proc'[c][k] = Aged(proc[c][k])
<1>1. proc' = [c \in Coords |-> [k \in Kinds |-> Aged(proc[c][k])]]
  BY DEF Tick, Aged
<1>2. \A c \in Coords, k \in Kinds : proc'[c][k] = Aged(proc[c][k])
  BY <1>1
<1>3. \A c \in Coords, k \in Kinds : Aged(proc[c][k]) \in Proc(k)
  BY AgedFields DEF ProcTyped
<1>4. \A k \in Kinds : Proc(k) \subseteq ProcType(LoopPoints \cup ApiPoints)
  BY DEF Proc, ProcType, Points
<1>5. proc' \in [Coords -> [Kinds -> ProcType(LoopPoints \cup ApiPoints)]]
  BY <1>1, <1>3, <1>4
<1>6. QED
  BY <1>2, <1>3, <1>5 DEF ProcTyped

\* Time and the nodes themselves keep the types.
LEMMA NodesTyped ==
  ASSUME Typed, Tick \/ \E n \in Nodes : NodeChanges(n) \/ NodePaused(n) \/ NodeApplies(n)
  PROVE  Typed'
<1> USE DEF Typed
<1>1. CASE Tick
  <2>1. ProcTyped'
    BY <1>1, TickMoves
  <2>2. lease' \in [holder : Coords \cup {None}, left : 0..TTL]
    <3>1. \A x \in 0..TTL : Less(x) \in 0..TTL
      BY FailoverAssumption DEF Less
    <3>2. lease' = [lease EXCEPT !.left = Less(lease.left)]
      BY <1>1 DEF Tick
    <3>3. QED
      BY <3>1, <3>2 DEF StoreTyped
  <2>3. cluster' \in ClusterType
    <3>1. \A cl \in ClusterType : Older(cl) \in ClusterType
      BY FailoverAssumption DEF ClusterType, Older
    <3>2. cluster' = IF cluster.rev = 0 THEN cluster ELSE Older(cluster)
      BY <1>1 DEF Tick
    <3>3. QED
      BY <3>1, <3>2 DEF StoreTyped
  <2>4. due' \in [Coords -> SUBSET {"lease", "poll"}]
    BY <1>1 DEF Tick
  <2>5. QED
    BY <1>1, <2>1, <2>2, <2>3, <2>4 DEF Tick, StoreTyped, InstanceTyped, NodeTyped, nodes
<1>2. ASSUME NEW n \in Nodes, NodeChanges(n) PROVE Typed'
  <2>1. cond' \in [Nodes -> Conditions] /\ paused' \in [Nodes -> BOOLEAN] /\ changes' \in 0..MaxChanges
    BY <1>2, FailoverAssumption DEF NodeChanges, NodeTyped
  <2>2. QED
    BY <1>2, <2>1 DEF NodeChanges, StoreTyped, InstanceTyped, NodeTyped, ProcTyped, store
<1>3. ASSUME NEW n \in Nodes, NodePaused(n) PROVE Typed'
  <2>1. paused' \in [Nodes -> BOOLEAN] /\ changes' \in 0..MaxChanges
    BY <1>3, FailoverAssumption DEF NodePaused, NodeTyped
  <2>2. QED
    BY <1>3, <2>1 DEF NodePaused, StoreTyped, InstanceTyped, NodeTyped, ProcTyped, store
<1>4. ASSUME NEW n \in Nodes, NodeApplies(n) PROVE Typed'
  <2>1. applied' \in [Nodes -> 0..MaxApplied]
    BY <1>4, FailoverAssumption DEF NodeApplies, NodeTyped
  <2>2. QED
    BY <1>4, <2>1 DEF NodeApplies, StoreTyped, InstanceTyped, NodeTyped, ProcTyped, store
<1>5. QED
  BY <1>1, <1>2, <1>3, <1>4

\* The types hold at first and are kept by every step.
LEMMA TypedInit == Init => Typed
<1> SUFFICES ASSUME Init PROVE Typed
  OBVIOUS
<1> USE FailoverAssumption DEF Init
<1>1. NotAsked \in NodeStatus /\ NoView \in Views /\ NoCluster \in ClusterType
  BY DEF NotAsked, NodeStatus, NoView, Views, NoCluster, ClusterType, Nodes
<1>2. StoreTyped
  BY <1>1 DEF StoreTyped
<1>3. InstanceTyped
  BY <1>1 DEF InstanceTyped
<1>4. NodeTyped
  BY DEF NodeTyped
<1>5. ProcTyped
  <2>1. /\ At("off") \in Proc("loop") /\ At("idle") \in Proc("api")
        /\ {At("off"), At("idle")} \subseteq ProcType(LoopPoints \cup ApiPoints)
    BY Rests DEF Proc, ProcType, Points, Kinds
  <2>2. [loop |-> At("off"), api |-> At("idle")] \in [Kinds -> ProcType(LoopPoints \cup ApiPoints)]
    BY <2>1 DEF Kinds
  <2>3. QED
    BY <2>1, <2>2 DEF ProcTyped, Kinds
<1>6. QED
  BY <1>2, <1>3, <1>4, <1>5 DEF Typed

\* Every step keeps the types.
LEMMA TypedStep == Typed /\ [Next]_vars => Typed'
<1> SUFFICES ASSUME Typed, [Next]_vars PROVE Typed'
  OBVIOUS
<1>1. ASSUME NEW c \in Coords, LoopStep(c) \/ ApiStep(c) \/ Faulty(c) PROVE Typed'
  BY <1>1, LifeTyped, LeaseTyped, PollTyped, RefreshTyped, PromoteTyped, RequestTyped
     DEF LoopStep, ApiStep, Faulty, Kinds
<1>2. CASE UNCHANGED vars
  BY <1>2 DEF vars, store, nodes, Typed, StoreTyped, InstanceTyped, NodeTyped, ProcTyped
<1>3. QED
  BY <1>1, <1>2, LifeTyped, RequestTyped, NodesTyped DEF Next

(***************************************************************************)
(* What a step does to the cluster record, the history and the processes   *)
(* that hold a copy of the record.  Every step is one of these six.        *)
(***************************************************************************)
\* A process that holds no copy it is going to use.
Idle(p) == p.cl = NoCluster /\ p.at \notin {"decide", "update", "record"}

Others(c, k) == \A d \in Coords, j \in Kinds : ~(d = c /\ j = k) => proc'[d][j] = proc[d][j]

QuietStep ==
  /\ UNCHANGED <<cluster, history>>
  /\ \A c \in Coords, k \in Kinds : proc'[c][k] = proc[c][k] \/ Idle(proc'[c][k])

LoadStep(c, k) ==
  /\ cluster' = Loaded /\ UNCHANGED history
  /\ Others(c, k)
  /\ proc'[c][k].cl = Loaded
  /\ proc'[c][k].at \in {"view", "adopted", "decide"} \/ (k = "api" /\ proc'[c][k].at = "update")

DecideStep(c) ==
  /\ UNCHANGED <<cluster, history>>
  /\ Others(c, "loop")
  /\ Loop(c).at = "decide" /\ Replace(c, Loop(c).cl)
  /\ proc'[c]["loop"].at = "update" /\ proc'[c]["loop"].cl = Loop(c).cl
  /\ proc'[c]["loop"].to = Candidate(c, Loop(c).cl.master)
  /\ UNCHANGED <<status, applied>>

PromoteStep(c, k) ==
  /\ proc[c][k].at = "update" /\ proc[c][k].cl.rev = cluster.rev
  /\ cluster' = Decision(proc[c][k]) /\ UNCHANGED history
  /\ Others(c, k)
  /\ \/ Idle(proc'[c][k])
     \/ /\ proc'[c][k].at = "record"
        /\ proc'[c][k].cl = proc[c][k].cl /\ proc'[c][k].to = proc[c][k].to
  /\ UNCHANGED <<status, applied>>

\* The history entry of a promotion.
Entry(p) == [epoch |-> p.cl.epoch + 1, from |-> p.cl.master, to |-> p.to]

RecordStep(c, k) ==
  /\ proc[c][k].at = "record"
  /\ history' \subseteq history \cup {Entry(proc[c][k])} /\ UNCHANGED cluster
  /\ Others(c, k) /\ Idle(proc'[c][k])

StepCases ==
  \/ QuietStep
  \/ \E c \in Coords, k \in Kinds : LoadStep(c, k) \/ PromoteStep(c, k) \/ RecordStep(c, k)
  \/ \E c \in Coords : DecideStep(c)
  \/ Tick

\* A process that starts over, or acts for node n without a record, is idle.
LEMMA IdleAt ==
  ASSUME NEW a, a \notin {"decide", "update", "record"}
  PROVE  /\ Idle(At(a))
         /\ \A n : Idle([At(a) EXCEPT !.to = n])
         /\ \A x : Idle([At(a) EXCEPT !.left = x])
BY DEF Idle, At

\* A step that moves one process to an idle place is quiet.
LEMMA QuietGoto ==
  ASSUME Typed, NEW c \in Coords, NEW k \in Kinds, NEW p \in Proc(k), Idle(p), Goto(c, k, p),
         UNCHANGED <<cluster, history>>
  PROVE  QuietStep
BY GotoMoves DEF Typed, QuietStep

\* Steps about the lease, the polls and the nodes touch neither the cluster
\* record nor its copies in a process that promotes.
LEMMA QuietActions ==
  ASSUME Typed, NEW c \in Coords,
         \/ Start(c) \/ Stop(c) \/ Crash(c) \/ Release(c)
         \/ Acquire(c) \/ AcquireWrite(c) \/ AcquireFails(c)
         \/ Poll(c) \/ RefreshStore(c) \/ RefreshFails(c)
         \/ Resume(c, "loop") \/ Resume(c, "api") \/ \E n \in Nodes : Request(c, n)
  PROVE  QuietStep
<1>1. "loop" \in Kinds /\ "api" \in Kinds
  BY DEF Kinds
<1>2. CASE Start(c) \/ Stop(c) \/ Release(c) \/ Poll(c)
  BY <1>1, <1>2, QuietGoto, Rests, IdleAt DEF Start, Stop, Release, Poll, store
<1>3. CASE Crash(c)
  <2>1. proc' = [proc EXCEPT ![c] = [loop |-> At("off"), api |-> At("idle")]]
    BY <1>3 DEF Crash
  <2>2. \A d \in Coords, k \in Kinds : proc'[d][k] = proc[d][k] \/ proc'[d][k] \in {At("off"), At("idle")}
    BY <2>1 DEF Typed, ProcTyped, Kinds
  <2>3. Idle(At("off")) /\ Idle(At("idle"))
    BY IdleAt
  <2>4. UNCHANGED <<cluster, history>>
    BY <1>3 DEF Crash
  <2>5. QED
    BY <2>2, <2>3, <2>4 DEF QuietStep
<1>4. CASE Acquire(c) \/ AcquireWrite(c) \/ AcquireFails(c)
  <2>1. /\ [At("write") EXCEPT !.left = TTL] \in Proc("loop") /\ AfterLease(c) \in Proc("loop")
        /\ Idle([At("write") EXCEPT !.left = TTL]) /\ Idle(AfterLease(c))
    BY <1>1, Rests, ProcChanges, IdleAt, FailoverAssumption DEF AfterLease
  <2>2. QED
    BY <1>1, <1>4, <2>1, QuietGoto DEF Acquire, AcquireWrite, AcquireFails, Elected
<1>5. CASE RefreshStore(c) \/ RefreshFails(c)
  <2>1. AfterView(c) \in Proc("loop") /\ Idle(AfterView(c)) /\ At("select") \in Proc("loop") /\ Idle(At("select"))
    BY Rests, IdleAt DEF AfterView
  <2>2. QED
    BY <1>1, <1>5, <2>1, QuietGoto DEF RefreshStore, RefreshFails, store
<1>6. ASSUME NEW k \in Kinds, Resume(c, k) PROVE QuietStep
  BY <1>6, Rests, IdleAt, QuietGoto DEF Resume, Rest, store
<1>7. ASSUME NEW n \in Nodes, Request(c, n) PROVE QuietStep
  <2>1. [At("load") EXCEPT !.to = n] \in Proc("api") /\ Idle([At("load") EXCEPT !.to = n])
    <3>1. NoCluster \in ClusterType
      BY FailoverAssumption DEF NoCluster, ClusterType, Nodes
    <3>2. QED
      BY <1>1, <3>1, AtNode, IdleAt DEF Points, ApiPoints
  <2>2. QED
    BY <1>1, <1>7, <2>1, QuietGoto DEF Request, store
<1>8. QED
  BY <1>1, <1>2, <1>3, <1>4, <1>5, <1>6, <1>7

\* Reading or creating the record.
LEMMA LoadActions ==
  ASSUME Typed, NEW c \in Coords, NEW k \in Kinds, NEW p \in Proc(k), Load(c, k, p), UNCHANGED history,
         p.at \in {"view", "adopted", "decide"} \/ (k = "api" /\ p.at = "update")
  PROVE  LoadStep(c, k)
<1>1. [p EXCEPT !.cl = Loaded].at = p.at /\ [p EXCEPT !.cl = Loaded].cl = Loaded
  BY DEF Proc, ProcType
<1>2. cluster' = Loaded /\ Goto(c, k, [p EXCEPT !.cl = Loaded]) /\ [p EXCEPT !.cl = Loaded] \in Proc(k)
  BY LoadTyped
<1>3. proc'[c][k] = [p EXCEPT !.cl = Loaded] /\ Others(c, k)
  BY <1>2, GotoMoves DEF Typed, Others
<1>4. QED
  BY <1>1, <1>2, <1>3 DEF LoadStep

\* Reading the record, and deciding from it, give a process a current copy.
LEMMA ClusterActions ==
  ASSUME Typed, NEW c \in Coords, RefreshLoad(c) \/ FailoverLoad(c) \/ FailoverDecide(c) \/ RequestLoad(c)
  PROVE  StepCases
<1>1. "loop" \in Kinds /\ "api" \in Kinds /\ \A a : At(a).at = a
  BY DEF Kinds, At
<1>2. CASE RefreshLoad(c)
  BY <1>1, <1>2, LoadActions, Rests DEF RefreshLoad, StepCases
<1>3. CASE FailoverLoad(c)
  BY <1>1, <1>3, LoadActions, QuietGoto, IdleAt, Rests DEF FailoverLoad, StepCases
<1>4. CASE FailoverDecide(c)
  <2> DEFINE cl == Loop(c).cl
             new == [At("update") EXCEPT !.cl = cl, !.to = Candidate(c, cl.master)]
  <2>1. CASE Goto(c, "loop", At("select"))
    BY <1>1, <1>4, <2>1, QuietGoto, IdleAt, Rests DEF FailoverDecide, StepCases, store
  <2>2. CASE Replace(c, cl) /\ Goto(c, "loop", new)
    <3>1. cl \in ClusterType /\ Candidate(c, cl.master) \in Nodes
      BY <1>1, <2>2, ProcFields, CandidateIsBest DEF Loop, Typed, Replace, Candidates
    <3>2. new \in Proc("loop") /\ new.at = "update" /\ new.cl = cl /\ new.to = Candidate(c, cl.master)
      <4>1. "update" \in Points("loop")
        BY DEF Points, LoopPoints
      <4>2. new \in Proc("loop")
        BY <1>1, <3>1, <4>1, AtNode
      <4>3. new.at = "update" /\ new.cl = cl /\ new.to = Candidate(c, cl.master)
        BY DEF At
      <4>4. QED
        BY <4>2, <4>3
    <3>3. proc'[c]["loop"] = new /\ Others(c, "loop")
      BY <1>1, <2>2, <3>2, GotoMoves DEF Others, Typed
    <3>4. Loop(c).at = "decide" /\ UNCHANGED <<cluster, history, status, applied>>
      BY <1>4 DEF FailoverDecide, store, nodes
    <3>5. DecideStep(c)
      BY <2>2, <3>2, <3>3, <3>4 DEF DecideStep
    <3>6. QED
      BY <3>5 DEF StepCases
  <2>3. QED
    BY <1>4, <2>1, <2>2 DEF FailoverDecide
<1>5. CASE RequestLoad(c)
  <2> DEFINE p == proc[c]["api"]
  <2>1. p \in Proc("api") /\ p.to \in Nodes
    BY <1>1, <1>5, ProcFields DEF Typed, RequestLoad
  <2>2. [p EXCEPT !.at = "update"] \in Proc("api") /\ [p EXCEPT !.at = "update"].at = "update"
    BY <1>1, <2>1, ProcChanges DEF Points, ApiPoints, Proc, ProcType
  <2>3. QED
    BY <1>1, <1>5, <2>2, LoadActions, QuietGoto, IdleAt, Rests DEF RequestLoad, StepCases
<1>6. QED
  BY <1>2, <1>3, <1>4, <1>5

\* The compare-and-set of promote, and the history entry after it.
LEMMA PromoteActions ==
  ASSUME Typed, NEW c \in Coords, NEW k \in Kinds, Update(c, k) \/ UpdateFails(c, k) \/ Record(c, k)
  PROVE  StepCases
<1> DEFINE p == proc[c][k]
<1>1. p \in Proc(k) /\ (p.at \in {"update", "record"} => p.to \in Nodes)
  BY ProcFields DEF Typed
<1>2. Idle(At(Rest(k))) /\ At(Rest(k)) \in Proc(k)
  BY Rests, IdleAt DEF Rest
<1>3. CASE Update(c, k)
  <2>1. CASE cluster.rev = p.cl.rev /\ cluster' = Decision(p) /\ Goto(c, k, [p EXCEPT !.at = "record"])
    <3>1. /\ [p EXCEPT !.at = "record"] \in Proc(k)
          /\ [p EXCEPT !.at = "record"].at = "record"
          /\ [p EXCEPT !.at = "record"].cl = p.cl /\ [p EXCEPT !.at = "record"].to = p.to
      BY <1>1, <1>3, ProcChanges DEF Update, Points, LoopPoints, ApiPoints, Proc, ProcType
    <3>2. proc'[c][k] = [p EXCEPT !.at = "record"] /\ Others(c, k)
      BY <2>1, <3>1, GotoMoves DEF Others, Typed
    <3>3. p.at = "update" /\ UNCHANGED <<history, status, applied>>
      BY <1>3 DEF Update, nodes
    <3>4. PromoteStep(c, k)
      BY <2>1, <3>1, <3>2, <3>3 DEF PromoteStep
    <3>5. QED
      BY <3>4 DEF StepCases
  <2>2. CASE UNCHANGED cluster /\ Goto(c, k, At(IF k = "loop" THEN "adopt" ELSE "idle"))
    <3>1. At(IF k = "loop" THEN "adopt" ELSE "idle") \in Proc(k) /\ Idle(At(IF k = "loop" THEN "adopt" ELSE "idle"))
      BY Rests, IdleAt DEF Kinds
    <3>2. QED
      BY <1>3, <2>2, <3>1, QuietGoto DEF Update, StepCases
  <2>3. QED
    BY <1>3, <2>1, <2>2 DEF Update
<1>4. CASE UpdateFails(c, k)
  <2>1. CASE UNCHANGED cluster
    BY <1>2, <1>4, <2>1, QuietGoto DEF UpdateFails, StepCases
  <2>2. CASE cluster.rev = p.cl.rev /\ cluster' = Decision(p)
    <3>1. PromoteStep(c, k)
      BY <1>2, <1>4, <2>2, GotoMoves DEF UpdateFails, PromoteStep, Others, Typed, nodes
    <3>2. QED
      BY <3>1 DEF StepCases
  <2>3. QED
    BY <1>4, <2>1, <2>2 DEF UpdateFails
<1>5. CASE Record(c, k)
  <2> DEFINE q == IF status[c][p.to].paused THEN [At("resume") EXCEPT !.to = p.to] ELSE At(Rest(k))
  <2>1. [At("resume") EXCEPT !.to = p.to] \in Proc(k) /\ Idle([At("resume") EXCEPT !.to = p.to])
    <3>1. NoCluster \in ClusterType
      BY FailoverAssumption DEF NoCluster, ClusterType, Nodes
    <3>2. QED
      BY <1>1, <1>5, <3>1, AtNode, IdleAt DEF Record, Points, LoopPoints, ApiPoints
  <2>2. q \in Proc(k) /\ Idle(q)
    BY <1>2, <2>1
  <2>3. Goto(c, k, q)
    BY <1>5 DEF Record
  <2>4. Others(c, k) /\ Idle(proc'[c][k])
    BY <2>2, <2>3, GotoMoves DEF Others, Typed
  <2>5. RecordStep(c, k)
    BY <1>5, <2>4 DEF Record, RecordStep, Entry
  <2>6. QED
    BY <2>5 DEF StepCases
<1>6. QED
  BY <1>3, <1>4, <1>5

\* Every step is one of the six.
LEMMA AllSteps ==
  ASSUME Typed, [Next]_vars
  PROVE  StepCases
<1>1. ASSUME UNCHANGED <<cluster, history, proc>> PROVE StepCases
  BY <1>1 DEF StepCases, QuietStep
<1>2. ASSUME NEW c \in Coords, LoopStep(c) \/ ApiStep(c) \/ Faulty(c) PROVE StepCases
  BY <1>2, QuietActions, ClusterActions, PromoteActions DEF LoopStep, ApiStep, Faulty, Kinds, StepCases
<1>3. ASSUME NEW c \in Coords, Start(c) \/ Release(c) \/ \E n \in Nodes : Request(c, n) PROVE StepCases
  BY <1>3, QuietActions DEF StepCases
<1>4. ASSUME NEW n \in Nodes, NodeChanges(n) \/ NodePaused(n) \/ NodeApplies(n) PROVE StepCases
  BY <1>1, <1>4 DEF NodeChanges, NodePaused, NodeApplies, store
<1>5. CASE UNCHANGED vars
  BY <1>1, <1>5 DEF vars, store
<1>6. CASE Tick
  BY <1>6 DEF StepCases
<1>7. QED
  BY <1>2, <1>3, <1>4, <1>5, <1>6 DEF Next

(***************************************************************************)
(* The copies of the cluster record                                        *)
(***************************************************************************)
\* Epoch and revision of the record advance together, so that a process whose
\* copy has the current revision knows the current epoch and master, and one
\* that promoted has moved the record past its copy.
CopyInv(p) ==
  /\ p.cl.epoch = p.cl.rev /\ p.cl.rev <= cluster.rev
  /\ p.at \in {"decide", "update", "record"} => p.cl.rev >= 1
  /\ p.at = "record" => p.cl.rev < cluster.rev
  /\ p.at \in {"decide", "update"} /\ p.cl.rev = cluster.rev => p.cl.master = cluster.master

RecordInv ==
  /\ cluster.epoch = cluster.rev
  /\ \A c \in Coords, k \in Kinds : CopyInv(proc[c][k])

\* Initially there is no record and no copy of it.
LEMMA RecordStart == Init => RecordInv
BY DEF Init, RecordInv, CopyInv, NoCluster, At, Kinds

\* A copy with the current revision is the record; epochs only grow.
LEMMA RecordKept ==
  ASSUME Typed, Typed', RecordInv, StepCases
  PROVE  RecordInv' /\ cluster'.epoch >= cluster.epoch
<1>1. cluster \in ClusterType /\ cluster' \in ClusterType
  BY DEF Typed, StoreTyped
<1>2. \A c \in Coords, k \in Kinds : proc[c][k].cl \in ClusterType
  BY ProcFields DEF Typed
<1>3. cluster.epoch = cluster.rev /\ cluster.rev \in Nat /\ \A c \in Coords, k \in Kinds : CopyInv(proc[c][k])
  BY <1>1 DEF RecordInv, ClusterType
<1>4. CASE QuietStep
  <2>1. \A p : Idle(p) => p.cl.epoch = 0 /\ p.cl.rev = 0 /\ p.at \notin {"decide", "update", "record"}
    BY DEF Idle, NoCluster
  <2>2. QED
    BY <1>3, <1>4, <2>1 DEF QuietStep, RecordInv, CopyInv
<1>5. ASSUME NEW c \in Coords, NEW k \in Kinds, LoadStep(c, k)
      PROVE  RecordInv' /\ cluster'.epoch >= cluster.epoch
  <2>1. /\ Loaded.epoch = Loaded.rev /\ Loaded.rev >= 1
        /\ cluster.rev # 0 => Loaded = cluster
        /\ cluster.rev = 0 => Loaded.rev = 1
    BY <1>1, <1>3 DEF Loaded, ClusterType
  <2>2. cluster' = Loaded
    BY <1>5 DEF LoadStep
  <2>3. CopyInv(proc[c][k])'
    BY <1>1, <1>5, <2>1, <2>2 DEF LoadStep, CopyInv, ClusterType
  <2>4. ASSUME NEW d \in Coords, NEW j \in Kinds, ~(d = c /\ j = k)
        PROVE  CopyInv(proc[d][j])'
    <3>1. proc'[d][j] = proc[d][j]
      BY <1>5, <2>4 DEF LoadStep, Others
    <3>2. QED
      BY <1>2, <1>3, <2>1, <2>2, <3>1 DEF CopyInv, ClusterType
  <2>5. QED
    BY <1>1, <1>3, <2>1, <2>2, <2>3, <2>4 DEF RecordInv, ClusterType
<1>6. ASSUME NEW c \in Coords, NEW k \in Kinds, PromoteStep(c, k)
      PROVE  RecordInv' /\ cluster'.epoch >= cluster.epoch
  <2> DEFINE p == proc[c][k]
  <2>1. /\ p.at = "update" /\ p.cl.rev = cluster.rev /\ p.cl.epoch = cluster.epoch
        /\ cluster'.rev = cluster.rev + 1 /\ cluster'.epoch = cluster.epoch + 1
    BY <1>3, <1>6 DEF PromoteStep, CopyInv, Decision
  <2>2. CopyInv(proc[c][k])'
    <3>1. CASE Idle(proc'[c][k])
      BY <1>3, <2>1, <3>1 DEF Idle, NoCluster, CopyInv
    <3>2. CASE proc'[c][k].at = "record" /\ proc'[c][k].cl = p.cl
      BY <1>3, <2>1, <3>2 DEF CopyInv
    <3>3. QED
      BY <1>6, <3>1, <3>2 DEF PromoteStep
  <2>3. ASSUME NEW d \in Coords, NEW j \in Kinds, ~(d = c /\ j = k)
        PROVE  CopyInv(proc[d][j])'
    <3>1. proc'[d][j] = proc[d][j]
      BY <1>6, <2>3 DEF PromoteStep, Others
    <3>2. QED
      BY <1>2, <1>3, <2>1, <3>1 DEF CopyInv, ClusterType
  <2>4. QED
    BY <1>3, <2>1, <2>2, <2>3 DEF RecordInv
<1>7. ASSUME NEW c \in Coords, NEW k \in Kinds, RecordStep(c, k)
      PROVE  RecordInv' /\ cluster'.epoch >= cluster.epoch
  BY <1>3, <1>7 DEF RecordStep, Others, RecordInv, CopyInv, Idle, NoCluster
<1>8. ASSUME NEW c \in Coords, DecideStep(c)
      PROVE  RecordInv' /\ cluster'.epoch >= cluster.epoch
  <2>1. CopyInv(proc[c]["loop"])'
    BY <1>3, <1>8 DEF DecideStep, CopyInv, Loop, Kinds
  <2>2. QED
    BY <1>3, <1>8, <2>1 DEF DecideStep, Others, RecordInv, CopyInv
<1>9. CASE Tick
  <2>1. cluster'.rev = cluster.rev /\ cluster'.epoch = cluster.epoch /\ cluster'.master = cluster.master
    BY <1>1, <1>9 DEF Tick, Older, ClusterType
  <2>2. ASSUME NEW c \in Coords, NEW k \in Kinds PROVE CopyInv(proc[c][k])'
    <3>1. proc[c][k] \in Proc(k) /\ proc'[c][k] = Aged(proc[c][k])
      BY <1>9, TickMoves, ProcFields DEF Typed
    <3>2. /\ proc'[c][k].at = proc[c][k].at
          /\ proc'[c][k].cl = IF proc[c][k].at = "decide" THEN Older(proc[c][k].cl) ELSE proc[c][k].cl
      BY <3>1, AgedFields
    <3>3. /\ proc'[c][k].cl.rev = proc[c][k].cl.rev /\ proc'[c][k].cl.epoch = proc[c][k].cl.epoch
          /\ proc'[c][k].cl.master = proc[c][k].cl.master
      BY <1>2, <3>2 DEF Older, ClusterType
    <3>4. QED
      BY <1>3, <2>1, <3>2, <3>3 DEF CopyInv
  <2>3. QED
    BY <1>3, <2>1, <2>2 DEF RecordInv
<1>10. QED
  BY <1>4, <1>5, <1>6, <1>7, <1>8, <1>9 DEF StepCases

(***************************************************************************)
(* The promotion history                                                   *)
(***************************************************************************)
\* The history, with the entries of promotions that were not recorded yet.
Story ==
  history \cup UNION {{Entry(proc[c][k]) : k \in {j \in Kinds : proc[c][j].at = "record"}} : c \in Coords}

\* The history and the promotions under way form one chain up to the record.
StoryInv ==
  /\ \A h \in Story :
       /\ h.epoch \in 2..cluster.epoch
       /\ h.epoch = cluster.epoch => h.to = cluster.master
  /\ \A g, h \in Story :
       /\ g.epoch = h.epoch => g = h
       /\ h.epoch = g.epoch + 1 => h.from = g.to

\* What is part of the story.
LEMMA StoryMember ==
  ASSUME NEW h
  PROVE  h \in Story <=> \/ h \in history
                         \/ \E c \in Coords, k \in Kinds : proc[c][k].at = "record" /\ h = Entry(proc[c][k])
BY DEF Story

\* Story in the next state, member by member.
LEMMA StoryMemberNext ==
  ASSUME NEW h
  PROVE  h \in Story' <=> \/ h \in history'
                          \/ \E c \in Coords, k \in Kinds : proc'[c][k].at = "record" /\ h = Entry(proc'[c][k])
BY DEF Story

\* Entries have epochs.
LEMMA StoryTyped ==
  ASSUME Typed
  PROVE  \A h \in Story : h.epoch \in Nat
<1>1. ASSUME NEW c \in Coords, NEW k \in Kinds PROVE Entry(proc[c][k]).epoch \in Nat
  BY ProcFields DEF Typed, Entry, ClusterType
<1>2. QED
  BY <1>1, StoryMember DEF Typed, StoreTyped, Entries

\* An entry enters the story when the record changes and stays in it when it is
\* written.
LEMMA StoryKept ==
  ASSUME Typed, Typed', RecordInv, StoryInv, StepCases
  PROVE  StoryInv'
<1>1. cluster \in ClusterType /\ cluster' \in ClusterType /\ cluster'.epoch >= cluster.epoch
  BY RecordKept DEF Typed, StoreTyped
<1>2. cluster.epoch = cluster.rev /\ cluster.epoch \in Nat /\ \A c \in Coords, k \in Kinds : CopyInv(proc[c][k])
  BY <1>1 DEF RecordInv, ClusterType
<1>3. ASSUME Story' \subseteq Story, cluster'.epoch = cluster.epoch, cluster'.master = cluster.master
      PROVE  StoryInv'
  BY <1>3 DEF StoryInv
<1>4. CASE QuietStep
  <2>1. Story' \subseteq Story
    BY <1>4, StoryMember, StoryMemberNext DEF QuietStep, Idle
  <2>2. QED
    BY <1>3, <1>4, <2>1 DEF QuietStep
<1>5. ASSUME NEW c \in Coords, NEW k \in Kinds, LoadStep(c, k) PROVE StoryInv'
  <2>1. Story' \subseteq Story
    BY <1>5, StoryMember, StoryMemberNext DEF LoadStep, Others
  <2>2. CASE cluster.rev = 0
    <3>1. Story = {}
      BY <1>2, <2>2 DEF StoryInv
    <3>2. QED
      BY <2>1, <3>1 DEF StoryInv
  <2>3. CASE cluster.rev # 0
    BY <1>3, <1>5, <2>1, <2>3 DEF LoadStep, Loaded
  <2>4. QED
    BY <2>2, <2>3
<1>6. ASSUME NEW c \in Coords, NEW k \in Kinds, PromoteStep(c, k) PROVE StoryInv'
  <2> DEFINE e == Entry(proc[c][k])
  <2>1. /\ proc[c][k].cl.rev = cluster.rev /\ proc[c][k].cl.rev >= 1 /\ proc[c][k].cl.epoch = cluster.epoch
        /\ proc[c][k].cl.master = cluster.master
    BY <1>2, <1>6 DEF PromoteStep, CopyInv
  <2>2. cluster'.epoch = cluster.epoch + 1 /\ cluster'.master = proc[c][k].to
    BY <1>6, <2>1 DEF PromoteStep, Decision
  <2>3. e.epoch = cluster'.epoch /\ e.from = cluster.master /\ e.to = cluster'.master /\ cluster.epoch >= 1
    BY <1>2, <2>1, <2>2 DEF Entry
  <2>4. Story' \subseteq Story \cup {e}
    <3>1. proc'[c][k].at = "record" => Entry(proc'[c][k]) = e
      BY <1>6 DEF PromoteStep, Idle, Entry
    <3>2. QED
      BY <1>6, <3>1, StoryMember, StoryMemberNext DEF PromoteStep, Others
  <2>5. \A h \in Story : h.epoch \in 2..cluster.epoch /\ (h.epoch = cluster.epoch => h.to = cluster.master)
    BY DEF StoryInv
  <2> HIDE DEF e
  <2>6. ASSUME NEW h \in Story'
        PROVE  h.epoch \in 2..cluster'.epoch /\ (h.epoch = cluster'.epoch => h.to = cluster'.master)
    BY <1>2, <2>2, <2>3, <2>4, <2>5
  <2>7. ASSUME NEW g \in Story', NEW h \in Story'
        PROVE  (g.epoch = h.epoch => g = h) /\ (h.epoch = g.epoch + 1 => h.from = g.to)
    <3>1. CASE g \in Story /\ h \in Story
      BY <3>1 DEF StoryInv
    <3>2. CASE g = e
      BY <1>2, <2>2, <2>3, <2>4, <2>5, <3>2
    <3>3. CASE g \in Story /\ h = e
      BY <1>2, <2>2, <2>3, <2>5, <3>3
    <3>4. QED
      BY <2>4, <3>1, <3>2, <3>3
  <2>8. QED
    BY <2>6, <2>7 DEF StoryInv
<1>7. ASSUME NEW c \in Coords, NEW k \in Kinds, RecordStep(c, k) PROVE StoryInv'
  <2>1. Story' \subseteq Story
    BY <1>7, StoryMember, StoryMemberNext DEF RecordStep, Others, Idle
  <2>2. QED
    BY <1>3, <1>7, <2>1 DEF RecordStep
<1>8. ASSUME NEW c \in Coords, DecideStep(c) PROVE StoryInv'
  <2>1. Story' \subseteq Story
    BY <1>8, StoryMember, StoryMemberNext DEF DecideStep, Others
  <2>2. QED
    BY <1>3, <1>8, <2>1 DEF DecideStep
<1>9. CASE Tick
  <2>1. cluster'.epoch = cluster.epoch /\ cluster'.master = cluster.master /\ history' = history
    BY <1>1, <1>9 DEF Tick, Older, ClusterType
  <2>2. ASSUME NEW c \in Coords, NEW k \in Kinds
        PROVE  /\ proc'[c][k].at = proc[c][k].at
               /\ proc'[c][k].at = "record" => Entry(proc'[c][k]) = Entry(proc[c][k])
    <3>1. proc[c][k] \in Proc(k) /\ proc'[c][k] = Aged(proc[c][k])
      BY <1>9, TickMoves, ProcFields DEF Typed
    <3>2. /\ proc'[c][k].at = proc[c][k].at /\ proc'[c][k].to = proc[c][k].to
          /\ proc'[c][k].cl = IF proc[c][k].at = "decide" THEN Older(proc[c][k].cl) ELSE proc[c][k].cl
      BY <3>1, AgedFields
    <3>3. QED
      BY <3>2 DEF Entry
  <2>3. Story' \subseteq Story
    BY <2>1, <2>2, StoryMember, StoryMemberNext
  <2>4. QED
    BY <1>3, <2>1, <2>3
<1>10. QED
  BY <1>4, <1>5, <1>6, <1>7, <1>8, <1>9 DEF StepCases

(***************************************************************************)
(* What the instances serve                                                *)
(***************************************************************************)
\* No instance serves a decision that was not made.
ViewInv == \A c \in Coords : view[c].epoch <= cluster.epoch

\* A step that stores one decision that was made.
LEMMA ViewOfOne ==
  ASSUME Typed, ViewInv, NEW c \in Coords, NEW cl, SetView(c, cl), cl.epoch <= cluster.epoch
  PROVE  \A d \in Coords : view'[d].epoch <= cluster.epoch
BY DEF ViewInv, SetView, Typed, InstanceTyped

\* An instance's view is never ahead of the record it was read from.
LEMMA ViewStep ==
  ASSUME Typed, RecordInv, ViewInv, [Next]_vars
  PROVE  \A d \in Coords : view'[d].epoch <= cluster.epoch
<1> DEFINE Goal == \A d \in Coords : view'[d].epoch <= cluster.epoch
<1>1. cluster.epoch \in Nat /\ cluster.epoch = cluster.rev
  BY DEF Typed, StoreTyped, ClusterType, RecordInv
<1>2. UNCHANGED view => Goal
  BY DEF ViewInv
<1>3. ASSUME NEW c \in Coords, Start(c) \/ Crash(c) PROVE Goal
  BY <1>1, <1>3 DEF Start, Crash, Forget, NoView, ViewInv, Typed, InstanceTyped
<1>4. ASSUME NEW c \in Coords, NEW k \in Kinds
      PROVE  /\ proc[c][k].cl.epoch <= cluster.epoch
             /\ proc[c][k].at = "record" => Decision(proc[c][k]).epoch <= cluster.epoch
  <2>1. proc[c][k].cl \in ClusterType /\ CopyInv(proc[c][k])
    BY ProcFields DEF Typed, RecordInv
  <2>2. QED
    BY <1>1, <2>1 DEF CopyInv, ClusterType, Decision
<1>5. ASSUME NEW c \in Coords, RefreshStore(c) \/ FailoverDecide(c) PROVE Goal
  BY <1>4, <1>5, ViewOfOne DEF RefreshStore, FailoverDecide, Loop, Kinds
<1>6. ASSUME NEW c \in Coords, NEW k \in Kinds, Record(c, k) PROVE Goal
  BY <1>4, <1>6, ViewOfOne DEF Record
<1>7. ASSUME NEW c \in Coords, LoopStep(c) \/ ApiStep(c) \/ Faulty(c)
      PROVE  UNCHANGED view \/ RefreshStore(c) \/ FailoverDecide(c) \/ Crash(c) \/ \E k \in Kinds : Record(c, k)
  BY <1>7 DEF LoopStep, ApiStep, Faulty, Kinds, Acquire, AcquireWrite, Poll, RefreshLoad, FailoverLoad,
              Update, Resume, Stop, RequestLoad, AcquireFails, RefreshFails, UpdateFails
<1>8. ASSUME NEW c \in Coords, Release(c) \/ \E n \in Nodes : Request(c, n) PROVE UNCHANGED view
  BY <1>8 DEF Release, Request
<1>9. ASSUME NEW n \in Nodes, NodeChanges(n) \/ NodePaused(n) \/ NodeApplies(n) PROVE UNCHANGED view
  BY <1>9 DEF NodeChanges, NodePaused, NodeApplies
<1>10. ASSUME UNCHANGED vars \/ Tick PROVE Goal
  BY <1>2, <1>10 DEF vars, Tick
<1> HIDE DEF Goal
<1>11. Goal
  BY <1>2, <1>3, <1>5, <1>6, <1>7, <1>8, <1>9, <1>10 DEF Next
<1>12. QED
  BY <1>11 DEF Goal

(***************************************************************************)
(* The inductive invariant, and what follows from it                       *)
(***************************************************************************)
IInv == Typed /\ RecordInv /\ StoryInv /\ ViewInv

\* The invariant holds initially.
LEMMA IInvInit == Init => IInv
<1> SUFFICES ASSUME Init PROVE IInv
  OBVIOUS
<1>1. Typed /\ RecordInv
  BY TypedInit, RecordStart
<1>2. \A c \in Coords, k \in Kinds : proc[c][k].at # "record"
  BY DEF Init, At, Kinds
<1>3. Story = {}
  BY <1>2, StoryMember DEF Init
<1>4. StoryInv /\ ViewInv
  BY <1>3 DEF StoryInv, ViewInv, Init, NoView, NoCluster
<1>5. QED
  BY <1>1, <1>4 DEF IInv

\* The invariant is inductive.
LEMMA IInvStep == IInv /\ [Next]_vars => IInv'
<1> SUFFICES ASSUME IInv, [Next]_vars PROVE IInv'
  OBVIOUS
<1>1. Typed' /\ StepCases
  BY TypedStep, AllSteps DEF IInv
<1>2. RecordInv' /\ cluster'.epoch >= cluster.epoch
  BY <1>1, RecordKept DEF IInv
<1>3. StoryInv'
  BY <1>1, StoryKept DEF IInv
<1>4. ViewInv'
  <2>1. \A d \in Coords : view'[d].epoch <= cluster.epoch /\ view'[d].epoch \in Nat
    BY <1>1, ViewStep DEF IInv, Typed, InstanceTyped, Views
  <2>2. cluster.epoch \in Nat /\ cluster'.epoch \in Nat
    BY <1>1 DEF IInv, Typed, StoreTyped, ClusterType
  <2>3. QED
    BY <1>2, <2>1, <2>2 DEF ViewInv
<1>5. QED
  BY <1>1, <1>2, <1>3, <1>4 DEF IInv

\* The invariant holds in every reachable state.
LEMMA IInvHolds == Spec => []IInv
BY IInvInit, IInvStep, PTL DEF Spec

\* The invariant gives the types, with the bounds on epochs.
LEMMA IInvTypes == IInv => TypeOK
<1> SUFFICES ASSUME IInv PROVE TypeOK
  OBVIOUS
<1>1. \A c \in Coords :
        /\ DOMAIN proc[c] = Kinds
        /\ proc[c]["loop"] \in ProcType(LoopPoints) /\ proc[c]["api"] \in ProcType(ApiPoints)
        /\ \A k \in Kinds : proc[c][k].at \in {"update", "record", "resume"} => proc[c][k].to \in Nodes
  BY DEF IInv, Typed, ProcTyped, Proc, Points, Kinds
<1>2. \A h \in history : h \in [epoch : 2..cluster.epoch, from : Nodes, to : Nodes]
  <2> SUFFICES ASSUME NEW h \in history PROVE h \in [epoch : 2..cluster.epoch, from : Nodes, to : Nodes]
    OBVIOUS
  <2>1. h \in Entries /\ h.epoch \in 2..cluster.epoch
    BY StoryMember DEF IInv, Typed, StoreTyped, StoryInv
  <2>2. QED
    BY <2>1 DEF Entries
<1>3. view \in [Coords -> [master : 0..NumNodes, epoch : 0..cluster.epoch]]
  <2>1. cluster.epoch \in Nat
    BY DEF IInv, Typed, StoreTyped, ClusterType
  <2>2. ASSUME NEW c \in Coords PROVE view[c] \in [master : 0..NumNodes, epoch : 0..cluster.epoch]
    BY <2>1 DEF IInv, ViewInv, Typed, InstanceTyped, Views
  <2>3. QED
    BY <2>2 DEF IInv, Typed, InstanceTyped
<1>4. QED
  BY <1>1, <1>2, <1>3 DEF IInv, Typed, StoreTyped, InstanceTyped, NodeTyped, NodeStatus, TypeOK

\* Every variable of the coordinators keeps its type; no recorded or served
\* decision has an epoch that the cluster record has not reached.
THEOREM TypeCorrect == Spec => []TypeOK
BY IInvHolds, IInvTypes, PTL

\* The promotion history is one chain that ends at the cluster record, however
\* many instances promote at once, by FailoverOnce or through the API, and
\* whichever calls to the state store fail or lose their answer (promote).
THEOREM HistoryChained == Spec => []HistoryIsChain
<1>1. IInv => HistoryIsChain
  <2> SUFFICES ASSUME IInv PROVE HistoryIsChain
    OBVIOUS
  <2>1. history \subseteq Story
    BY DEF Story
  <2>2. QED
    BY <2>1 DEF IInv, StoryInv, HistoryIsChain
<1>2. QED
  BY <1>1, IInvHolds, PTL

(***************************************************************************)
(* The cool-down                                                           *)
(***************************************************************************)
\* A loop that decides from the current record does not think it older than it
\* is; one that goes on to promote decided when it was old enough.
CooldownInv ==
  \A c \in Coords :
    LET p == Loop(c) IN
    /\ p.at = "decide" /\ p.cl.rev = cluster.rev => p.cl.age <= cluster.age
    /\ p.at = "update" /\ p.cl.rev = cluster.rev => cluster.age >= Cooldown

\* A decision that was taken after the cool-down stays so: its record ages, or
\* is stale.
LEMMA CooldownKept ==
  ASSUME IInv, IInv', CooldownInv, StepCases
  PROVE  CooldownInv'
<1> SUFFICES ASSUME NEW c \in Coords
             PROVE  LET p == proc'[c]["loop"] IN
                    /\ p.at = "decide" /\ p.cl.rev = cluster'.rev => p.cl.age <= cluster'.age
                    /\ p.at = "update" /\ p.cl.rev = cluster'.rev => cluster'.age >= Cooldown
  BY DEF CooldownInv, Loop
<1> DEFINE p == proc[c]["loop"]
           q == proc'[c]["loop"]
<1>1. /\ cluster \in ClusterType /\ cluster' \in ClusterType
      /\ p \in Proc("loop") /\ p.cl \in ClusterType /\ CopyInv(p)
      /\ "loop" \in Kinds
  BY ProcFields DEF IInv, Typed, StoreTyped, RecordInv, Kinds
<1>2. /\ p.at = "decide" /\ p.cl.rev = cluster.rev => p.cl.age <= cluster.age
      /\ p.at = "update" /\ p.cl.rev = cluster.rev => cluster.age >= Cooldown
  BY DEF CooldownInv, Loop
<1>3. CASE q = p /\ cluster' = cluster
  BY <1>2, <1>3
<1>4. CASE q.at \notin {"decide", "update"}
  BY <1>4
<1>5. CASE QuietStep
  BY <1>1, <1>3, <1>4, <1>5 DEF QuietStep, Idle
<1>6. ASSUME NEW d \in Coords, NEW k \in Kinds, LoadStep(d, k)
      PROVE  /\ q.at = "decide" /\ q.cl.rev = cluster'.rev => q.cl.age <= cluster'.age
             /\ q.at = "update" /\ q.cl.rev = cluster'.rev => cluster'.age >= Cooldown
  <2>1. CASE d = c /\ k = "loop"
    BY <1>1, <1>6, <2>1 DEF LoadStep, ClusterType
  <2>2. CASE ~(d = c /\ k = "loop")
    <3>1. q = p /\ cluster' = Loaded
      BY <1>1, <1>6, <2>2 DEF LoadStep, Others
    <3>2. CASE cluster.rev = 0
      BY <1>1, <3>1, <3>2 DEF CopyInv, ClusterType
    <3>3. CASE cluster.rev # 0
      BY <1>3, <3>1, <3>3 DEF Loaded
    <3>4. QED
      BY <3>2, <3>3
  <2>3. QED
    BY <2>1, <2>2
<1>7. ASSUME NEW d \in Coords, NEW k \in Kinds, PromoteStep(d, k)
      PROVE  /\ q.at = "decide" /\ q.cl.rev = cluster'.rev => q.cl.age <= cluster'.age
             /\ q.at = "update" /\ q.cl.rev = cluster'.rev => cluster'.age >= Cooldown
  <2>1. cluster'.rev = cluster.rev + 1
    BY <1>7 DEF PromoteStep, Decision
  <2>2. q = p \/ q.at \notin {"decide", "update"}
    BY <1>1, <1>7 DEF PromoteStep, Others, Idle
  <2>3. QED
    BY <1>1, <2>1, <2>2 DEF CopyInv, ClusterType
<1>8. ASSUME NEW d \in Coords, NEW k \in Kinds, RecordStep(d, k)
      PROVE  cluster' = cluster /\ (q = p \/ q.at \notin {"decide", "update"})
  BY <1>1, <1>8 DEF RecordStep, Others, Idle
<1>9. ASSUME NEW d \in Coords, DecideStep(d)
      PROVE  /\ q.at = "decide" /\ q.cl.rev = cluster'.rev => q.cl.age <= cluster'.age
             /\ q.at = "update" /\ q.cl.rev = cluster'.rev => cluster'.age >= Cooldown
  <2>1. CASE d = c
    BY <1>1, <1>2, <1>9, <2>1, FailoverAssumption DEF DecideStep, Replace, Loop, ClusterType
  <2>2. CASE d # c
    BY <1>1, <1>3, <1>9, <2>2 DEF DecideStep, Others
  <2>3. QED
    BY <2>1, <2>2
<1>10. CASE Tick
  <2>1. cluster'.rev = cluster.rev
    BY <1>1, <1>10 DEF Tick, Older, ClusterType
  <2>2. q.at = p.at /\ q.cl = IF p.at = "decide" THEN Older(p.cl) ELSE p.cl
    BY <1>1, <1>10, TickMoves, AgedFields DEF IInv, Typed
  <2>3. cluster.rev # 0 => cluster'.age = IF cluster.age < Cooldown THEN cluster.age + 1 ELSE cluster.age
    BY <1>1, <1>10 DEF Tick, Older, ClusterType
  <2>4. Older(p.cl).rev = p.cl.rev /\ Older(p.cl).age = IF p.cl.age < Cooldown THEN p.cl.age + 1 ELSE p.cl.age
    BY <1>1 DEF Older, ClusterType
  <2>5. p.at \in {"decide", "update"} => p.cl.rev >= 1
    BY <1>1 DEF CopyInv
  <2>6. CASE p.at = "decide"
    BY <1>1, <1>2, <2>1, <2>2, <2>3, <2>4, <2>5, <2>6, FailoverAssumption DEF ClusterType
  <2>7. CASE p.at = "update"
    BY <1>1, <1>2, <2>1, <2>2, <2>3, <2>5, <2>7, FailoverAssumption DEF ClusterType
  <2>8. QED
    BY <1>4, <2>2, <2>6, <2>7
<1>11. QED
  BY <1>3, <1>4, <1>5, <1>6, <1>7, <1>8, <1>9, <1>10 DEF StepCases

\* An instance fails over in the step that promotes with its loop.
LEMMA FailsOverPromotes ==
  ASSUME IInv, StepCases, NEW c \in Coords, FailsOver(c)
  PROVE  PromoteStep(c, "loop") /\ CopyInv(Loop(c))
<1> DEFINE p == proc[c]["loop"]
           q == proc'[c]["loop"]
<1>1. cluster \in ClusterType /\ p.cl \in ClusterType /\ CopyInv(p) /\ "loop" \in Kinds
  BY ProcFields DEF IInv, Typed, StoreTyped, RecordInv, Kinds
<1>2. p.at = "update" /\ q.at # "update" /\ cluster'.rev # cluster.rev
  BY DEF FailsOver, Loop
<1>3. ~QuietStep /\ ~Tick /\ ~\E d \in Coords : DecideStep(d)
  BY <1>1, <1>2 DEF QuietStep, DecideStep, Tick, Older, ClusterType
<1>4. ASSUME NEW d \in Coords, NEW k \in Kinds PROVE ~LoadStep(d, k) /\ ~RecordStep(d, k)
  BY <1>1, <1>2 DEF LoadStep, RecordStep, Loaded, CopyInv, ClusterType
<1>5. ASSUME NEW d \in Coords, NEW k \in Kinds, PromoteStep(d, k) PROVE d = c /\ k = "loop"
  BY <1>1, <1>2, <1>5 DEF PromoteStep, Others
<1>6. QED
  BY <1>1, <1>3, <1>4, <1>5 DEF StepCases, Loop

\* However many instances decide at once, and however long a call takes: a step
\* of FailoverOnce that changes the master finds the last change of it at least
\* PromoteCooldown ago (FailoverOnce, promote).
THEOREM CooldownRespected == Spec => CooldownBetweenFailovers
<1>1. Init => CooldownInv
  BY DEF Init, CooldownInv, Loop, At
<1>2. IInv /\ IInv' /\ CooldownInv /\ [Next]_vars => CooldownInv'
  BY AllSteps, CooldownKept DEF IInv
<1>3. IInv /\ CooldownInv /\ [Next]_vars => [\A c \in Coords : FailsOver(c) => cluster.age >= Cooldown]_vars
  <2> SUFFICES ASSUME IInv, CooldownInv, [Next]_vars, NEW c \in Coords, FailsOver(c)
               PROVE  cluster.age >= Cooldown
    OBVIOUS
  <2>1. StepCases
    BY AllSteps DEF IInv
  <2>2. PromoteStep(c, "loop")
    BY <2>1, FailsOverPromotes
  <2>3. QED
    BY <2>2 DEF PromoteStep, CooldownInv, Loop
<1>4. QED
  BY <1>1, <1>2, <1>3, IInvHolds, PTL DEF Spec, CooldownBetweenFailovers

(***************************************************************************)
(* The node that takes over                                                *)
(***************************************************************************)
\* A node holds at least what it was known to hold, and the loop that promotes
\* has chosen the best of the candidates of the record it read.
KnownInv == \A c \in Coords, n \in Nodes : status[c][n].applied <= applied[n]

Best(c, m, t) == t \in Candidates(c, m) /\ \A n \in Candidates(c, m) : Better(c, t, n)

BestInv == \A c \in Coords : Loop(c).at = "update" => Best(c, Loop(c).cl.master, Loop(c).to)

\* A step leaves what an instance knows of the nodes alone, or it is a poll or
\* a new process; the positions of the nodes only grow.
LEMMA StatusSteps ==
  ASSUME Typed, [Next]_vars
  PROVE  /\ \A n \in Nodes : applied[n] <= applied'[n]
         /\ \A c \in Coords :
              \/ status'[c] = status[c]
              \/ /\ proc'[c]["loop"].at # "update"
                 /\ UNCHANGED applied
                 /\ \A n \in Nodes : status'[c][n].applied \in {0, applied[n], status[c][n].applied}
<1> DEFINE Goal == /\ \A n \in Nodes : applied[n] <= applied'[n]
                   /\ \A c \in Coords :
                        \/ status'[c] = status[c]
                        \/ /\ proc'[c]["loop"].at # "update"
                           /\ UNCHANGED applied
                           /\ \A n \in Nodes : status'[c][n].applied \in {0, applied[n], status[c][n].applied}
<1>1. \A n \in Nodes : applied[n] \in Nat
  BY DEF Typed, NodeTyped
<1>2. ASSUME UNCHANGED <<status, applied>> PROVE Goal
  BY <1>1, <1>2
<1>3. ASSUME NEW c \in Coords, UNCHANGED applied, proc'[c]["loop"].at # "update",
             \A d \in Coords \ {c} : status'[d] = status[d],
             \A n \in Nodes : status'[c][n].applied \in {0, applied[n], status[c][n].applied}
      PROVE  Goal
  BY <1>1, <1>3
<1>4. ASSUME NEW c \in Coords, Start(c) \/ Crash(c) PROVE Goal
  <2>1. status' = [status EXCEPT ![c] = [n \in Nodes |-> NotAsked]] /\ UNCHANGED applied
    BY <1>4 DEF Start, Crash, Forget, nodes
  <2>2. proc'[c]["loop"].at \in {"acquire", "off"}
    <3>1. CASE Start(c)
      BY <3>1, GotoMoves, Rests DEF Start, Typed, At, Kinds
    <3>2. CASE Crash(c)
      BY <3>2 DEF Crash, Typed, ProcTyped, At
    <3>3. QED
      BY <1>4, <3>1, <3>2
  <2>3. \A d \in Coords \ {c} : status'[d] = status[d]
    BY <2>1 DEF Typed, InstanceTyped
  <2>4. \A n \in Nodes : status'[c][n].applied = 0
    BY <2>1 DEF Typed, InstanceTyped, NotAsked
  <2>5. QED
    BY <1>3, <2>1, <2>2, <2>3, <2>4
<1>5. ASSUME NEW c \in Coords, Poll(c) PROVE Goal
  <2>1. proc'[c]["loop"].at = "refresh" /\ UNCHANGED applied
    BY <1>5, GotoMoves, Rests DEF Poll, Typed, At, Kinds, nodes
  <2>2. PICK lost \in SUBSET {n \in Nodes : cond[n] # "down"} :
          status' = [status EXCEPT ![c] =
             [n \in Nodes |-> Asked(@[n], n, cond[n] # "down" /\ n \notin lost)]]
    BY <1>5 DEF Poll
  <2>3. \A d \in Coords \ {c} : status'[d] = status[d]
    BY <2>2 DEF Typed, InstanceTyped
  <2>4. ASSUME NEW n \in Nodes PROVE status'[c][n].applied \in {applied[n], status[c][n].applied}
    <3>1. status'[c][n] = Asked(status[c][n], n, cond[n] # "down" /\ n \notin lost)
      BY <2>2 DEF Typed, InstanceTyped
    <3>2. status[c][n] \in NodeStatus
      BY DEF Typed, InstanceTyped
    <3>3. QED
      BY <3>1, <3>2 DEF Asked, NodeStatus
  <2>5. QED
    BY <1>3, <2>1, <2>3, <2>4
<1>6. ASSUME NEW c \in Coords, LoopStep(c) \/ ApiStep(c) \/ Faulty(c)
      PROVE  UNCHANGED <<status, applied>> \/ Poll(c) \/ Crash(c)
  BY <1>6 DEF LoopStep, ApiStep, Faulty, Kinds, Acquire, AcquireWrite, RefreshLoad, RefreshStore, FailoverLoad,
              FailoverDecide, Record, Update, Resume, Stop, RequestLoad, AcquireFails, RefreshFails, UpdateFails, nodes
<1>7. ASSUME NEW c \in Coords, Release(c) \/ \E n \in Nodes : Request(c, n) PROVE UNCHANGED <<status, applied>>
  BY <1>7 DEF Release, Request, nodes
<1>8. ASSUME NEW n \in Nodes, NodeChanges(n) \/ NodePaused(n) PROVE UNCHANGED <<status, applied>>
  BY <1>8 DEF NodeChanges, NodePaused
<1>9. ASSUME NEW n \in Nodes, NodeApplies(n) PROVE Goal
  BY <1>1, <1>9 DEF NodeApplies, Typed, NodeTyped
<1>10. ASSUME UNCHANGED vars \/ Tick PROVE UNCHANGED <<status, applied>>
  BY <1>10 DEF vars, Tick, nodes
<1> HIDE DEF Goal
<1>11. Goal
  BY <1>2, <1>4, <1>5, <1>6, <1>7, <1>8, <1>9, <1>10 DEF Next
<1>12. QED
  BY <1>11 DEF Goal

\* What an instance knows of a node's position is at most what the node has
\* applied.
LEMMA KnownKept ==
  ASSUME Typed, Typed', KnownInv, [Next]_vars
  PROVE  KnownInv'
<1> SUFFICES ASSUME NEW c \in Coords, NEW n \in Nodes PROVE status'[c][n].applied <= applied'[n]
  BY DEF KnownInv
<1>1. applied[n] \in Nat /\ applied'[n] \in Nat /\ status[c][n].applied \in Nat /\ applied[n] <= applied'[n]
  BY StatusSteps DEF Typed, NodeTyped, InstanceTyped, NodeStatus
<1>2. status'[c][n].applied \in {0, applied[n], status[c][n].applied}
  BY StatusSteps
<1>3. status[c][n].applied <= applied[n]
  BY DEF KnownInv
<1>4. QED
  BY <1>1, <1>2, <1>3

\* The best candidate depends on what the instance knows only.
LEMMA SameBest ==
  ASSUME NEW c \in Coords, status'[c] = status[c], NEW m, NEW t, Best(c, m, t)
  PROVE  Best(c, m, t)'
BY DEF Best, Candidates, Better

\* The candidate that FailoverOnce chose stays the best of those known to its
\* instance, until it is promoted or the instance polls again.
LEMMA BestKept ==
  ASSUME IInv, IInv', BestInv, [Next]_vars
  PROVE  BestInv'
<1> SUFFICES ASSUME NEW c \in Coords, NEW m, NEW t,
                    proc'[c]["loop"].at = "update",
                    m = proc'[c]["loop"].cl.master, t = proc'[c]["loop"].to
             PROVE  Best(c, m, t)'
  BY DEF BestInv, Loop, Best, Candidates, Better
<1> DEFINE p == proc[c]["loop"]
           q == proc'[c]["loop"]
<1>1. status'[c] = status[c] /\ "loop" \in Kinds
  BY StatusSteps DEF IInv, Kinds
<1> SUFFICES Best(c, m, t)
  BY <1>1, SameBest
<1>2. CASE q.at = p.at /\ q.to = p.to /\ q.cl = p.cl
  BY <1>2 DEF BestInv, Loop
<1>3. CASE DecideStep(c)
  <2>1. q.cl = p.cl /\ q.to = Candidate(c, p.cl.master) /\ Candidates(c, p.cl.master) # {}
    BY <1>3 DEF DecideStep, Loop, Replace
  <2>2. QED
    BY <2>1, CandidateIsBest DEF IInv, Best
<1>4. CASE Tick
  <2>1. p \in Proc("loop") /\ q = Aged(p)
    BY <1>1, <1>4, TickMoves, ProcFields DEF IInv, Typed
  <2>2. QED
    BY <1>1, <1>2, <2>1, AgedFields
<1>5. ASSUME StepCases, ~Tick, ~DecideStep(c) PROVE q = p
  BY <1>1, <1>5 DEF StepCases, QuietStep, LoadStep, PromoteStep, RecordStep, DecideStep, Others, Idle
<1>6. QED
  BY <1>2, <1>3, <1>4, <1>5, AllSteps DEF IInv

\* The replica that FailoverOnce promotes holds, when it takes over, at least
\* what every other healthy replica was known to hold, however much time has
\* passed since the nodes were asked (PollOnce, FailoverOnce).
THEOREM FreshestPromoted == Spec => FreshestTakesOver
<1>1. Init => KnownInv /\ BestInv
  BY DEF Init, KnownInv, BestInv, NotAsked, Loop, At
<1>2. IInv /\ IInv' /\ KnownInv /\ BestInv /\ [Next]_vars => KnownInv' /\ BestInv'
  BY KnownKept, BestKept DEF IInv
<1>3. IInv /\ KnownInv /\ BestInv /\ [Next]_vars
      => [\A c \in Coords : FailsOver(c) =>
            \A n \in Candidates(c, cluster.master) : applied[cluster'.master] >= status[c][n].applied]_vars
  <2> SUFFICES ASSUME IInv, KnownInv, BestInv, [Next]_vars, NEW c \in Coords, FailsOver(c),
                      NEW n \in Candidates(c, cluster.master)
               PROVE  applied[cluster'.master] >= status[c][n].applied
    OBVIOUS
  <2> DEFINE p == Loop(c)
  <2>1. PromoteStep(c, "loop") /\ CopyInv(p)
    BY AllSteps, FailsOverPromotes DEF IInv
  <2>2. p.at = "update" /\ p.cl.master = cluster.master /\ cluster'.master = p.to
    BY <2>1 DEF PromoteStep, CopyInv, Decision, Loop
  <2>3. Better(c, p.to, n) /\ p.to \in Nodes /\ n \in Nodes
    BY <2>2 DEF BestInv, Best, Candidates
  <2>4. applied[p.to] \in Nat /\ status[c][p.to].applied \in Nat /\ status[c][n].applied \in Nat
    BY <2>3 DEF IInv, Typed, NodeTyped, InstanceTyped, NodeStatus
  <2>5. status[c][p.to].applied <= applied[p.to]
    BY <2>3 DEF KnownInv
  <2>6. QED
    BY <2>2, <2>3, <2>4, <2>5 DEF Better
<1>4. QED
  BY <1>1, <1>2, <1>3, IInvHolds, PTL DEF Spec, FreshestTakesOver

(***************************************************************************)
(* The leader lease, when the loops keep their pace                        *)
(***************************************************************************)
\* An instance that writes the lease read it when nobody else held it; a leader
\* that is not shutting down holds it with at most one tick gone, and then it is
\* about to renew it.
LeaseOf(c) ==
  /\ Loop(c).at = "write" => Loop(c).left = TTL /\ (c \in leaseFresh => ~Held(c))
  /\ Loop(c).at = "off" => ~leader[c]
  /\ leader[c] /\ Loop(c).at # "stopping" =>
       /\ lease.holder = c
       /\ \/ lease.left = TTL
          \/ lease.left = TTL - 1 /\ (Loop(c).at = "write" \/ "lease" \in due[c])

LeaseInv == \A c \in Coords : LeaseOf(c)

\* The points of a loop that say something about the lease.
LeasePoints == {"write", "off", "stopping"}

\* An instance for which a step changes nothing about the lease.
LEMMA LeaseUntouched ==
  ASSUME NEW c \in Coords, LeaseOf(c),
         UNCHANGED lease, leader'[c] = leader[c], due'[c] = due[c], c \in leaseFresh' => c \in leaseFresh,
         \/ proc'[c]["loop"] = proc[c]["loop"]
         \/ proc'[c]["loop"].at \notin LeasePoints /\ proc[c]["loop"].at \notin LeasePoints
  PROVE  LeaseOf(c)'
BY DEF LeaseOf, Loop, LeasePoints, Held

\* An instance that starts over or loses the lead.
LEMMA NotLeader ==
  ASSUME NEW c \in Coords, ~leader'[c], proc'[c]["loop"].at # "write"
  PROVE  LeaseOf(c)'
BY DEF LeaseOf, Loop

\* Actions that have nothing to do with the lease.
LEMMA LeaseNeutral ==
  ASSUME Typed, LeaseInv, NEW c \in Coords, NEW k \in Kinds, NEW p \in Proc(k), Goto(c, k, p),
         UNCHANGED <<lease, leaseFresh, leader, due>>,
         k = "loop" => p.at \notin LeasePoints /\ Loop(c).at \notin LeasePoints
  PROVE  LeaseInv'
<1>1. \A d \in Coords : \/ proc'[d]["loop"] = proc[d]["loop"]
                        \/ proc'[d]["loop"].at \notin LeasePoints /\ proc[d]["loop"].at \notin LeasePoints
  BY GotoMoves DEF Typed, Loop, Kinds
<1>2. QED
  BY <1>1, LeaseUntouched DEF LeaseInv

\* The lease actions of one instance leave the others alone.
LEMMA LeaseOthers ==
  ASSUME LeaseInv, NEW c \in Coords, UNCHANGED lease,
         \A d \in Coords \ {c} : /\ leader'[d] = leader[d] /\ due'[d] = due[d]
                                 /\ d \in leaseFresh' => d \in leaseFresh
                                 /\ proc'[d]["loop"] = proc[d]["loop"],
         LeaseOf(c)'
  PROVE  LeaseInv'
BY LeaseUntouched DEF LeaseInv

\* Starting, stopping, crashing and releasing leave at most one owner of the
\* lease.
LEMMA LeaseLife ==
  ASSUME Typed, LeaseInv, NEW c \in Coords, Start(c) \/ Stop(c) \/ Crash(c) \/ Release(c)
  PROVE  LeaseInv'
<1>1. "loop" \in Kinds /\ \A a : At(a).at = a
  BY DEF Kinds, At
<1>2. CASE Start(c) \/ Stop(c) \/ Crash(c)
  <2>1. proc'[c]["loop"].at \in {"acquire", "off"} /\ \A d \in Coords \ {c} : proc'[d]["loop"] = proc[d]["loop"]
    <3>1. CASE Start(c)
      BY <1>1, <3>1, GotoMoves, Rests DEF Start, Typed
    <3>2. CASE Stop(c)
      BY <1>1, <3>2, GotoMoves, Rests DEF Stop, Typed
    <3>3. CASE Crash(c)
      BY <1>1, <3>3 DEF Crash, Typed, ProcTyped
    <3>4. QED
      BY <1>2, <3>1, <3>2, <3>3
  <2>2. /\ ~leader'[c] /\ UNCHANGED lease /\ leaseFresh' \subseteq leaseFresh
        /\ \A d \in Coords \ {c} : leader'[d] = leader[d] /\ due'[d] = due[d]
    BY <1>2 DEF Start, Stop, Crash, Forget, Typed, InstanceTyped, store
  <2>3. LeaseOf(c)'
    BY <2>1, <2>2, NotLeader
  <2>4. QED
    BY <2>1, <2>2, <2>3, LeaseOthers
<1>3. CASE Release(c)
  <2>1. /\ Loop(c).at = "select" /\ proc'[c]["loop"].at = "stopping"
        /\ \A d \in Coords \ {c} : proc'[d]["loop"] = proc[d]["loop"]
    BY <1>1, <1>3, GotoMoves, Rests DEF Release, Typed
  <2>2. LeaseOf(c)'
    BY <2>1 DEF LeaseOf, Loop
  <2>3. CASE UNCHANGED <<lease, leaseFresh>>
    BY <1>3, <2>1, <2>2, <2>3, LeaseOthers DEF Release
  <2>4. CASE lease.holder = c /\ leaseFresh' = {}
    <3>1. ASSUME NEW d \in Coords \ {c} PROVE LeaseOf(d)'
      <4>1. LeaseOf(d) /\ leader'[d] = leader[d] /\ proc'[d]["loop"] = proc[d]["loop"]
        BY <1>3, <2>1 DEF LeaseInv, Release
      <4>2. QED
        BY <2>4, <4>1 DEF LeaseOf, Loop
    <3>2. QED
      BY <2>2, <3>1 DEF LeaseInv
  <2>5. QED
    BY <1>3, <2>3, <2>4 DEF Release
<1>4. QED
  BY <1>2, <1>3

\* Nobody else leads when an instance writes a lease that it read as free.
LEMMA LeaseWritten ==
  ASSUME Typed, LeaseInv, TTL >= 2, NEW c \in Coords, c \in leaseFresh, Loop(c).at = "write", WriteLease(c),
         \A d \in Coords \ {c} : leader'[d] = leader[d] /\ proc'[d]["loop"] = proc[d]["loop"],
         proc'[c]["loop"].at \notin LeasePoints
  PROVE  LeaseInv'
<1>1. ~Held(c) /\ lease' = [holder |-> c, left |-> TTL] /\ leaseFresh' = {}
  BY DEF LeaseInv, LeaseOf, WriteLease
<1>2. LeaseOf(c)'
  BY <1>1 DEF LeaseOf, Loop, LeasePoints
<1>3. ASSUME NEW d \in Coords \ {c} PROVE LeaseOf(d)'
  <2>1. LeaseOf(d) /\ leader'[d] = leader[d] /\ proc'[d]["loop"] = proc[d]["loop"]
    BY DEF LeaseInv
  <2>2. ~(leader[d] /\ Loop(d).at # "stopping")
    BY <1>1, <2>1, FailoverAssumption DEF LeaseOf, Held
  <2>3. QED
    BY <1>1, <2>1, <2>2 DEF LeaseOf, Loop
<1>4. QED
  BY <1>2, <1>3 DEF LeaseInv

\* Acquiring writes the lease only over the revision that was read.
LEMMA LeaseActions ==
  ASSUME Typed, LeaseInv, TTL >= 2, NEW c \in Coords, Acquire(c) \/ AcquireWrite(c) \/ AcquireFails(c)
  PROVE  LeaseInv'
<1>1. "loop" \in Kinds /\ \A a : At(a).at = a
  BY DEF Kinds, At
<1>2. AfterLease(c) \in Proc("loop") /\ AfterLease(c).at \in {"poll", "select"}
  BY <1>1, Rests DEF AfterLease
<1>3. ASSUME Goto(c, "loop", AfterLease(c))
      PROVE  /\ proc'[c]["loop"].at \in {"poll", "select"}
             /\ \A d \in Coords \ {c} : proc'[d]["loop"] = proc[d]["loop"]
  BY <1>1, <1>2, <1>3, GotoMoves DEF Typed
<1>4. \A d \in Coords \ {c} : leader'[d] = leader[d] /\ due'[d] = due[d]
  BY DEF Acquire, AcquireWrite, AcquireFails, Elected, Serve, Typed, InstanceTyped
<1>5. ASSUME Elected(c, FALSE), UNCHANGED <<lease, leaseFresh>> PROVE LeaseInv'
  <2>1. ~leader'[c] /\ Goto(c, "loop", AfterLease(c))
    BY <1>5 DEF Elected, Typed, InstanceTyped
  <2>2. LeaseOf(c)'
    BY <1>3, <2>1, NotLeader
  <2>3. QED
    BY <1>3, <1>4, <1>5, <2>1, <2>2, LeaseOthers
<1>6. CASE Acquire(c)
  <2>1. CASE Elected(c, FALSE) /\ UNCHANGED leaseFresh
    BY <1>5, <1>6, <2>1 DEF Acquire
  <2>2. CASE /\ ~Held(c) /\ leaseFresh' = leaseFresh \cup {c} /\ UNCHANGED leader
             /\ Goto(c, "loop", [At("write") EXCEPT !.left = TTL])
    <3>1. /\ [At("write") EXCEPT !.left = TTL] \in Proc("loop")
          /\ [At("write") EXCEPT !.left = TTL].at = "write" /\ [At("write") EXCEPT !.left = TTL].left = TTL
      BY <1>1, Rests, ProcChanges, FailoverAssumption DEF At
    <3>2. /\ proc'[c]["loop"].at = "write" /\ proc'[c]["loop"].left = TTL
          /\ \A d \in Coords \ {c} : proc'[d]["loop"] = proc[d]["loop"]
      <4>1. /\ proc'[c]["loop"] = [At("write") EXCEPT !.left = TTL]
            /\ \A d \in Coords \ {c} : proc'[d]["loop"] = proc[d]["loop"]
        BY <1>1, <2>2, <3>1, GotoMoves DEF Typed
      <4>2. QED
        BY <3>1, <4>1
    <3>3. UNCHANGED lease /\ Loop(c).at \in {"select", "acquire"}
      BY <1>6 DEF Acquire, Serve
    <3>4. LeaseOf(c)'
      <4>1. LeaseOf(c) /\ leader'[c] = leader[c] /\ ~Held(c)'
        BY <2>2, <3>3 DEF LeaseInv, Held
      <4>2. QED
        BY <3>2, <3>3, <4>1 DEF LeaseOf, Loop
    <3>5. QED
      BY <1>4, <2>2, <3>2, <3>3, <3>4, LeaseOthers
  <2>3. QED
    BY <1>6, <2>1, <2>2 DEF Acquire
<1>7. CASE AcquireWrite(c)
  <2>1. CASE c \in leaseFresh /\ WriteLease(c) /\ Elected(c, TRUE)
    BY <1>3, <1>4, <1>7, <2>1, LeaseWritten DEF AcquireWrite, Elected, LeasePoints
  <2>2. QED
    BY <1>5, <1>7, <2>1 DEF AcquireWrite
<1>8. CASE AcquireFails(c)
  <2>1. CASE Loop(c).at = "write" /\ c \in leaseFresh /\ WriteLease(c)
    BY <1>3, <1>4, <1>8, <2>1, LeaseWritten DEF AcquireFails, Elected, LeasePoints
  <2>2. QED
    BY <1>5, <1>8, <2>1 DEF AcquireFails
<1>9. QED
  BY <1>6, <1>7, <1>8

\* A poll, the record and promotions have nothing to do with the lease.
LEMMA LeaseLoop ==
  ASSUME Typed, LeaseInv, NEW c \in Coords,
         \/ Poll(c) \/ RefreshLoad(c) \/ RefreshStore(c) \/ RefreshFails(c)
         \/ FailoverLoad(c) \/ FailoverDecide(c)
  PROVE  LeaseInv'
<1>1. "loop" \in Kinds /\ \A a : At(a).at = a
  BY DEF Kinds, At
<1>2. CASE Poll(c)
  <2>1. /\ proc'[c]["loop"].at = "refresh" /\ Loop(c).at \in {"select", "poll"}
        /\ \A d \in Coords \ {c} : proc'[d]["loop"] = proc[d]["loop"]
    BY <1>1, <1>2, GotoMoves, Rests DEF Poll, Serve, Typed
  <2>2. /\ UNCHANGED <<lease, leaseFresh, leader>>
        /\ \A d \in Coords \ {c} : due'[d] = due[d]
        /\ "lease" \in due[c] => "lease" \in due'[c]
    BY <1>2 DEF Poll, Serve, Typed, InstanceTyped, store
  <2>3. LeaseOf(c)'
    BY <2>1, <2>2 DEF LeaseInv, LeaseOf, Loop
  <2>4. QED
    BY <2>1, <2>2, <2>3, LeaseOthers
<1>3. AfterView(c) \in Proc("loop") /\ AfterView(c).at \in {"load", "select"}
  BY <1>1, Rests DEF AfterView
<1>4. CASE RefreshLoad(c) \/ FailoverLoad(c)
  <2>1. PICK a \in {"view", "adopted", "decide", "select"} :
          Goto(c, "loop", At(a)) \/ Load(c, "loop", At(a))
    BY <1>4 DEF RefreshLoad, FailoverLoad
  <2>2. At(a) \in Proc("loop")
    BY <2>1, Rests
  <2>3. /\ Loop(c).at \in {"refresh", "adopt", "load"}
        /\ UNCHANGED <<lease, leaseFresh, leader, due>>
    BY <1>4 DEF RefreshLoad, FailoverLoad
  <2>4. CASE Goto(c, "loop", At(a))
    BY <1>1, <2>1, <2>2, <2>3, <2>4, LeaseNeutral DEF LeasePoints
  <2>5. CASE Load(c, "loop", At(a))
    <3>1. Goto(c, "loop", [At(a) EXCEPT !.cl = Loaded]) /\ [At(a) EXCEPT !.cl = Loaded] \in Proc("loop")
      BY <1>1, <2>2, <2>5, LoadTyped
    <3>2. [At(a) EXCEPT !.cl = Loaded].at = a
      BY DEF At
    <3>3. QED
      BY <1>1, <2>1, <2>3, <3>1, <3>2, LeaseNeutral DEF LeasePoints
  <2>6. QED
    BY <2>1, <2>4, <2>5
<1>5. CASE RefreshStore(c) \/ RefreshFails(c)
  <2>1. PICK p \in {AfterView(c), At("select")} : Goto(c, "loop", p)
    BY <1>5 DEF RefreshStore, RefreshFails
  <2>2. p \in Proc("loop") /\ p.at \in {"load", "select"}
    BY <1>1, <1>3, <2>1, Rests
  <2>3. /\ Loop(c).at \in {"refresh", "adopt", "view", "adopted"}
        /\ UNCHANGED <<lease, leaseFresh, leader, due>>
    BY <1>5 DEF RefreshStore, RefreshFails, store
  <2>4. QED
    BY <1>1, <2>1, <2>2, <2>3, LeaseNeutral DEF LeasePoints
<1>6. CASE FailoverDecide(c)
  <2> DEFINE cl == Loop(c).cl
             new == [At("update") EXCEPT !.cl = cl, !.to = Candidate(c, cl.master)]
  <2>1. Loop(c).at = "decide" /\ UNCHANGED <<lease, leaseFresh, leader, due>>
    BY <1>6 DEF FailoverDecide, store
  <2>2. CASE Goto(c, "loop", At("select"))
    BY <1>1, <2>1, <2>2, Rests, LeaseNeutral DEF LeasePoints
  <2>3. CASE Replace(c, cl) /\ Goto(c, "loop", new)
    <3>1. cl \in ClusterType /\ Candidate(c, cl.master) \in Nodes /\ "update" \in Points("loop")
      BY <1>1, <2>3, ProcFields, CandidateIsBest DEF Loop, Typed, Replace, Candidates, Points, LoopPoints
    <3>2. new \in Proc("loop")
      BY <1>1, <3>1, AtNode
    <3>3. new.at = "update"
      BY DEF At
    <3> HIDE DEF new
    <3>4. QED
      BY <1>1, <2>1, <2>3, <3>2, <3>3, LeaseNeutral DEF LeasePoints
  <2>4. QED
    BY <1>6, <2>2, <2>3 DEF FailoverDecide
<1>7. QED
  BY <1>2, <1>4, <1>5, <1>6

\* A promotion does not touch the lease.
LEMMA LeasePromote ==
  ASSUME Typed, Typed', LeaseInv, NEW c \in Coords, NEW k \in Kinds,
         Update(c, k) \/ UpdateFails(c, k) \/ Record(c, k) \/ Resume(c, k)
  PROVE  LeaseInv'
<1>1. /\ proc[c][k].at \in {"update", "record", "resume"}
      /\ UNCHANGED <<lease, leaseFresh, leader, due>>
  BY DEF Update, UpdateFails, Record, Resume, store
<1>2. PICK p : Goto(c, k, p) /\ (k = "loop" => p.at \in {"record", "adopt", "select", "resume"})
  <2>1. proc[c][k] \in Proc(k)
    BY ProcFields DEF Typed
  <2>2. /\ [proc[c][k] EXCEPT !.at = "record"].at = "record"
        /\ k = "loop" => At(IF k = "loop" THEN "adopt" ELSE "idle").at = "adopt" /\ At(Rest(k)).at = "select"
        /\ [At("resume") EXCEPT !.to = proc[c][k].to].at = "resume"
    BY <2>1 DEF Rest, At, Proc, ProcType
  <2>3. QED
    BY <2>2 DEF Update, UpdateFails, Record, Resume
<1>3. \A d \in Coords : \/ proc'[d]["loop"] = proc[d]["loop"]
                        \/ proc'[d]["loop"].at \notin LeasePoints /\ proc[d]["loop"].at \notin LeasePoints
  BY <1>1, <1>2 DEF Goto, LeasePoints, Typed, ProcTyped, Kinds
<1>4. QED
  BY <1>1, <1>3, LeaseUntouched DEF LeaseInv

\* Time runs out for a lease only after the loop of its holder was served.
LEMMA LeaseRest ==
  ASSUME Typed, LeaseInv, Timely, TTL >= 2,
         \/ Tick \/ UNCHANGED vars
         \/ \E c \in Coords : RequestLoad(c) \/ \E n \in Nodes : Request(c, n)
         \/ \E n \in Nodes : NodeChanges(n) \/ NodePaused(n) \/ NodeApplies(n)
  PROVE  LeaseInv'
<1>1. ASSUME UNCHANGED <<lease, leaseFresh, leader, due>>,
             \A d \in Coords : proc'[d]["loop"] = proc[d]["loop"]
      PROVE  LeaseInv'
  BY <1>1, LeaseUntouched DEF LeaseInv
<1>2. CASE UNCHANGED vars
  BY <1>1, <1>2 DEF vars, store
<1>3. ASSUME NEW c \in Coords, RequestLoad(c) \/ \E n \in Nodes : Request(c, n) PROVE LeaseInv'
  <2>1. UNCHANGED <<lease, leaseFresh, leader, due>>
    BY <1>3 DEF RequestLoad, Request, store
  <2>2. PICK p : Goto(c, "api", p)
    BY <1>3 DEF RequestLoad, Request, Load
  <2>3. \A d \in Coords : proc'[d]["loop"] = proc[d]["loop"]
    BY <2>2 DEF Goto, Typed, ProcTyped, Kinds
  <2>4. QED
    BY <1>1, <2>1, <2>3
<1>4. ASSUME NEW n \in Nodes, NodeChanges(n) \/ NodePaused(n) \/ NodeApplies(n) PROVE LeaseInv'
  BY <1>1, <1>4 DEF NodeChanges, NodePaused, NodeApplies, store
<1>5. CASE Tick
  <2> SUFFICES ASSUME NEW c \in Coords PROVE LeaseOf(c)'
    BY DEF LeaseInv
  <2>1. Loop(c).at \in {"off", "select"} /\ due[c] = {}
    BY <1>5 DEF Tick
  <2>2. proc'[c]["loop"].at = Loop(c).at
    BY <1>5, TickMoves, ProcFields, AgedFields DEF Typed, Loop, Kinds
  <2>3. leader'[c] = leader[c]
    BY <1>5 DEF Tick
  <2>4. CASE ~leader[c]
    BY <2>1, <2>2, <2>3, <2>4, NotLeader
  <2>5. CASE leader[c]
    <3>1. Loop(c).at = "select" /\ lease.holder = c /\ lease.left = TTL
      BY <2>1, <2>5 DEF LeaseInv, LeaseOf
    <3>2. lease'.holder = c /\ lease'.left = TTL - 1
      <4>1. lease' = [lease EXCEPT !.left = Less(lease.left)]
        BY <1>5 DEF Tick
      <4>2. Less(TTL) = TTL - 1
        BY FailoverAssumption DEF Less
      <4>3. QED
        BY <3>1, <4>1, <4>2 DEF Typed, StoreTyped
    <3>3. due'[c] = {"lease", "poll"}
      BY <1>5, <3>1 DEF Tick, On
    <3>4. QED
      BY <2>2, <3>1, <3>2, <3>3 DEF LeaseOf, Loop
  <2>6. QED
    BY <2>4, <2>5
<1>6. QED
  BY <1>2, <1>3, <1>4, <1>5

\* With clocks that agree and loops that serve every tick before the next one,
\* a lease of two ticks or more has one leader at a time, whatever calls to the
\* state store fail and whichever instances crash, restart or release the lease
\* (Acquire, Release, tryLease, Run).
THEOREM OneLeaderAtATime == ASSUME Timely, TTL >= 2 PROVE Spec => []OneLeader
<1>1. Init => LeaseInv
  BY DEF Init, LeaseInv, LeaseOf, Loop, At
<1>2. IInv /\ IInv' /\ LeaseInv /\ [Next]_vars => LeaseInv'
  <2> SUFFICES ASSUME IInv, IInv', LeaseInv, [Next]_vars PROVE LeaseInv'
    OBVIOUS
  <2>1. Typed /\ Typed'
    BY DEF IInv
  <2>2. ASSUME NEW c \in Coords, LoopStep(c) \/ ApiStep(c) \/ Faulty(c) PROVE LeaseInv'
    BY <2>1, <2>2, LeaseLife, LeaseActions, LeaseLoop, LeasePromote, LeaseRest DEF LoopStep, ApiStep, Faulty, Kinds
  <2>3. QED
    BY <2>1, <2>2, LeaseLife, LeaseRest DEF Next
<1>3. LeaseInv => OneLeader
  BY DEF LeaseInv, LeaseOf, OneLeader
<1>4. QED
  BY <1>1, <1>2, <1>3, IInvHolds, PTL DEF Spec
=============================================================================
