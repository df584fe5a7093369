------------------------------- MODULE Failover -------------------------------
(* The coordinator instances of a cluster: the leader lease, the run loop that *)
(* polls the nodes and replaces a lost master, and promotion by hand through   *)
(* the HTTP API (pkg/coordinator: state/state.go, coordinator.go, monitor.go,  *)
(* failover.go, api.go).                                                       *)
(*                                                                             *)
(* The state store is linearizable.  Its revisions are only compared for       *)
(* equality, so the lease's revision is the set leaseFresh of the instances    *)
(* whose last read is still current.  Time is relative: a lease has an amount  *)
(* left, a decision an age, and Tick moves both; no absolute clock is needed   *)
(* and time never ends.  The clocks of the instances agree, as Lease requires. *)
(* An operator with an underscore in its name is a faulty variant of the       *)
(* definition that follows it, kept to show that a property can fail.          *)
EXTENDS Integers, FiniteSets

CONSTANTS
  Coords,         \* the coordinator instances
  NumNodes,       \* ZincSearch nodes are 1..NumNodes, in configuration order
  Conditions,     \* what a node can be: a subset of AllConditions
  TTL,            \* LeaseTTL, in ticks
  Cooldown,       \* PromoteCooldown, in ticks
  FailThreshold,  \* failed polls in a row after which a node is down
  MaxApplied,     \* bound on the stream positions of the nodes
  MaxChanges,     \* bound on changes of the nodes' condition, pauses included
  MaxFaults,      \* bound on crashes, failed calls to the store and lost polls
  MaxRequests,    \* bound on what operators ask for: promotions and shutdowns
  Timely,         \* TRUE: every loop finishes its ticks before time moves on
  None            \* no instance: the lease does not exist

Nodes == 1..NumNodes
AllConditions == {"down", "ok", "lagging", "degraded", "gap"}

ASSUME FailoverAssumption ==
  /\ NumNodes \in Nat \ {0}
  /\ Conditions \subseteq AllConditions /\ "ok" \in Conditions
  /\ TTL \in Nat /\ Cooldown \in Nat /\ FailThreshold \in Nat \ {0}
  /\ MaxApplied \in Nat /\ MaxChanges \in Nat /\ MaxFaults \in Nat /\ MaxRequests \in Nat
  /\ Timely \in BOOLEAN
  /\ None \notin Coords

VARIABLES
  lease,       \* the record under "leader": holder and what is left of it
  leaseFresh,  \* instances whose read of the lease has the current revision
  cluster,     \* the record under "cluster"; rev 0: it does not exist
  history,     \* the records under "history/"
  leader,      \* Coordinator.leader
  view,        \* Coordinator.cluster, the decision an instance serves
  status,      \* Coordinator.status
  proc,        \* where the loop and the API request of an instance are
  booting,     \* instances that run the three calls in front of Run's loop
  due,         \* Timely: ticks a loop has to serve before time moves on
  cond, applied, paused,   \* the nodes
  changes, faults, requests

store == <<lease, leaseFresh, cluster, history>>
nodes == <<cond, applied, paused>>
vars == <<store, leader, view, status, proc, booting, due, nodes, changes, faults, requests>>

Kinds == {"loop", "api"}
-----------------------------------------------------------------------------
(* Records and classification                                                  *)

\* What Run reads of a node that was not asked yet.
NotAsked == [failures |-> 0, answer |-> "none", applied |-> 0, paused |-> FALSE]
NoCluster == [rev |-> 0, master |-> 1, epoch |-> 0, age |-> 0]
NoView == [master |-> 0, epoch |-> 0]

\* A process at rest.  cl: the cluster record it read; to: the node to promote;
\* left, age: of the lease or decision it is about to write.
At(at) == [at |-> at, cl |-> NoCluster, to |-> 0, left |-> 0, age |-> 0]
Rest(k) == IF k = "loop" THEN "select" ELSE "idle"
Loop(c) == proc[c]["loop"]
On(c) == Loop(c).at # "off"

Goto(c, k, p) == proc' = [proc EXCEPT ![c][k] = p]

\* classify: what the last answers of a node make of it.
State(s) ==
  CASE s.failures >= FailThreshold -> "down"
    [] s.failures > 0 /\ s.failures < FailThreshold -> "suspect"
    [] OTHER -> [none |-> "unknown", gap |-> "needs_restore", degraded |-> "degraded",
                 lagging |-> "lagging", ok |-> "up"][s.answer]

\* A plausible bug: the positions are compared the wrong way round.
Better_behind(c, n, m) ==
  \/ status[c][n].applied < status[c][m].applied
  \/ status[c][n].applied = status[c][m].applied /\ n <= m

\* FailoverOnce prefers the node that is further along, then the first configured.
Better(c, n, m) ==
  \/ status[c][n].applied > status[c][m].applied
  \/ status[c][n].applied = status[c][m].applied /\ n <= m

\* The replicas that are up, and the one of them that FailoverOnce promotes.
Candidates(c, master) == {n \in Nodes \ {master} : State(status[c][n]) = "up"}
Candidate(c, master) ==
  CHOOSE n \in Candidates(c, master) : \A m \in Candidates(c, master) : Better(c, n, m)

\* The record that process p promotes with, written over the one it read.
Decision(p) == [rev |-> p.cl.rev + 1, master |-> p.to, epoch |-> p.cl.epoch + 1, age |-> p.age]
-----------------------------------------------------------------------------
Init ==
  /\ lease = [holder |-> None, left |-> 0] /\ leaseFresh = {}
  /\ cluster = NoCluster /\ history = {}
  /\ leader = [c \in Coords |-> FALSE]
  /\ view = [c \in Coords |-> NoView]
  /\ status = [c \in Coords |-> [n \in Nodes |-> NotAsked]]
  /\ proc = [c \in Coords |-> [loop |-> At("off"), api |-> At("idle")]]
  /\ booting = {} /\ due = [c \in Coords |-> {}]
  /\ cond = [n \in Nodes |-> "ok"] /\ applied = [n \in Nodes |-> 0] /\ paused = [n \in Nodes |-> FALSE]
  /\ changes = 0 /\ faults = 0 /\ requests = 0

\* One failed call, lost answer or crash.
Fault == faults < MaxFaults /\ faults' = faults + 1
NoFault == UNCHANGED faults

\* What a new process knows.
Forget(c) ==
  /\ leader' = [leader EXCEPT ![c] = FALSE]
  /\ view' = [view EXCEPT ![c] = NoView]
  /\ status' = [status EXCEPT ![c] = [n \in Nodes |-> NotAsked]]
  /\ leaseFresh' = leaseFresh \ {c}
  /\ due' = [due EXCEPT ![c] = {}]

\* New and the first call of Run.  The API of an earlier process has ended.
Start(c) ==
  /\ Loop(c).at = "off" /\ proc[c]["api"].at = "idle"
  /\ Goto(c, "loop", At("acquire"))
  /\ Forget(c) /\ booting' = booting \cup {c}
  /\ UNCHANGED <<lease, cluster, history, nodes, changes, faults, requests>>

\* The select of Run serves a ticker.  The first lease and poll have no ticker.
Serve(c, ticker, first) ==
  \/ /\ Loop(c).at = "select"
     /\ Timely => ticker \in due[c]
     /\ due' = [due EXCEPT ![c] = @ \ {ticker}]
  \/ Loop(c).at = first /\ UNCHANGED due

-----------------------------------------------------------------------------
(* The lease                                                                   *)

AfterLease(c) == IF c \in booting THEN At("poll") ELSE At("select")

\* tryLease stores what Acquire answered.
Elected(c, ok) ==
  /\ leader' = [leader EXCEPT ![c] = ok]
  /\ Goto(c, "loop", AfterLease(c))

\* A plausible bug: a lease that ran out is not taken over.
Held_forever(c) == lease.holder \notin {None, c}

\* Another instance holds the lease and has time left.
Held(c) == lease.holder \notin {None, c} /\ lease.left > 0

\* Acquire reads the lease.  Somebody else holds it, or this instance will write.
Acquire(c) ==
  /\ Serve(c, "lease", "acquire")
  /\ \/ Held(c) /\ Elected(c, FALSE) /\ UNCHANGED leaseFresh
     \/ /\ ~Held(c)
        /\ leaseFresh' = leaseFresh \cup {c}
        /\ Goto(c, "loop", [At("write") EXCEPT !.left = TTL])
        /\ UNCHANGED leader
  /\ UNCHANGED <<lease, cluster, history, view, status, booting, nodes, changes, faults, requests>>

WriteLease(c) == lease' = [holder |-> c, left |-> Loop(c).left] /\ leaseFresh' = {}

\* Acquire creates or updates the lease, if nobody wrote it since it was read.
AcquireWrite(c) ==
  /\ Loop(c).at = "write"
  /\ \/ c \in leaseFresh /\ WriteLease(c) /\ Elected(c, TRUE)
     \/ c \notin leaseFresh /\ UNCHANGED <<lease, leaseFresh>> /\ Elected(c, FALSE)
  /\ UNCHANGED <<cluster, history, view, status, booting, due, nodes, changes, faults, requests>>

\* A plausible bug: an error of the store leaves the leader flag as it was.
AcquireFails_keepsLeader(c) ==
  /\ Loop(c).at = "write" /\ Fault
  /\ Goto(c, "loop", AfterLease(c))
  /\ UNCHANGED <<store, leader, view, status, booting, due, nodes, changes, requests>>

\* The store answers with an error; a write may have reached it all the same.
AcquireFails(c) ==
  /\ Fault
  /\ Elected(c, FALSE)
  /\ \/ Serve(c, "lease", "acquire") /\ UNCHANGED <<lease, leaseFresh>>
     \/ Loop(c).at = "write" /\ UNCHANGED <<due, lease, leaseFresh>>
     \/ Loop(c).at = "write" /\ c \in leaseFresh /\ WriteLease(c) /\ UNCHANGED due
  /\ UNCHANGED <<cluster, history, view, status, booting, nodes, changes, requests>>

\* Run is told to end: Release, which may fail, ...
Release(c) ==
  /\ Loop(c).at = "select"
  /\ requests < MaxRequests /\ requests' = requests + 1
  /\ \/ NoFault /\ lease.holder = c /\ lease' = [lease EXCEPT !.left = 0] /\ leaseFresh' = {}
     \/ NoFault /\ lease.holder # c /\ UNCHANGED <<lease, leaseFresh>>
     \/ Fault /\ UNCHANGED <<lease, leaseFresh>>
  /\ Goto(c, "loop", At("stopping"))
  /\ UNCHANGED <<cluster, history, leader, view, status, booting, due, nodes, changes>>

\* ... then the flag is cleared; a request that still runs goes on without it.
Stop(c) ==
  /\ Loop(c).at = "stopping"
  /\ leader' = [leader EXCEPT ![c] = FALSE]
  /\ due' = [due EXCEPT ![c] = {}]
  /\ Goto(c, "loop", At("off"))
  /\ UNCHANGED <<store, view, status, booting, nodes, changes, faults, requests>>

Crash(c) ==
  /\ On(c) /\ Fault
  /\ Forget(c) /\ booting' = booting \ {c}
  /\ proc' = [proc EXCEPT ![c] = [loop |-> At("off"), api |-> At("idle")]]
  /\ UNCHANGED <<lease, cluster, history, nodes, changes, requests>>
-----------------------------------------------------------------------------
(* Polling                                                                     *)

\* PollOnce for one node: whether it answered, and what.
Asked(s, n, answered) ==
  IF answered
  THEN [failures |-> 0, answer |-> cond[n], applied |-> applied[n], paused |-> paused[n]]
  ELSE [s EXCEPT !.failures = IF @ < FailThreshold THEN @ + 1 ELSE @]

\* PollOnce: a node that is down, or whose answer is lost or late, fails the poll.
Poll(c) ==
  /\ Serve(c, "poll", "poll")
  /\ \E lost \in SUBSET {n \in Nodes : cond[n] # "down"} :
       /\ IF lost = {} THEN NoFault ELSE Fault
       /\ status' = [status EXCEPT ![c] =
            [n \in Nodes |-> Asked(@[n], n, cond[n] # "down" /\ n \notin lost)]]
  /\ Goto(c, "loop", At("refresh"))
  /\ UNCHANGED <<store, leader, view, booting, nodes, changes, requests>>
-----------------------------------------------------------------------------
(* The cluster record                                                          *)

\* A plausible bug: the first record has no epoch.
Load_noEpoch(c, k, p) ==
  LET cl == IF cluster.rev = 0 THEN [rev |-> 1, master |-> 1, epoch |-> 0, age |-> 0] ELSE cluster
  IN  cluster' = cl /\ Goto(c, k, [p EXCEPT !.cl = cl])

\* loadCluster: read the record, or create it with the first node as master.
\* Losing the race to create it means reading the winner's.
Load(c, k, p) ==
  LET cl == IF cluster.rev = 0 THEN [rev |-> 1, master |-> 1, epoch |-> 1, age |-> 0] ELSE cluster
  IN  cluster' = cl /\ Goto(c, k, [p EXCEPT !.cl = cl])

AfterView(c) == IF leader[c] /\ c \notin booting THEN At("load") ELSE At("select")
SetView(c, cl) == view' = [view EXCEPT ![c] = [master |-> cl.master, epoch |-> cl.epoch]]

\* refreshCluster of Run and, after a lost race, of FailoverOnce.
RefreshLoad(c) ==
  /\ \/ Loop(c).at = "refresh" /\ Load(c, "loop", At("view"))
     \/ Loop(c).at = "adopt" /\ Load(c, "loop", At("adopted"))
  /\ UNCHANGED <<lease, leaseFresh, history, leader, view, status, booting, due, nodes, changes, faults, requests>>

\* ... stores what it read; Run then checks the flag and calls FailoverOnce.
RefreshStore(c) ==
  /\ \/ Loop(c).at = "view" /\ Goto(c, "loop", AfterView(c))
     \/ Loop(c).at = "adopted" /\ Goto(c, "loop", At("select"))
  /\ SetView(c, Loop(c).cl)
  /\ booting' = booting \ {c}
  /\ UNCHANGED <<store, leader, status, due, nodes, changes, faults, requests>>

\* The read fails: Run goes on without a new view.
RefreshFails(c) ==
  /\ Fault
  /\ \/ Loop(c).at = "refresh" /\ Goto(c, "loop", AfterView(c))
     \/ Loop(c).at = "adopt" /\ Goto(c, "loop", At("select"))
  /\ booting' = booting \ {c}
  /\ UNCHANGED <<store, leader, view, status, due, nodes, changes, requests>>

\* FailoverOnce reads the record ...
FailoverLoad(c) ==
  /\ Loop(c).at = "load"
  /\ \/ NoFault /\ Load(c, "loop", At("decide"))
     \/ Fault /\ Goto(c, "loop", At("select")) /\ UNCHANGED cluster
  /\ UNCHANGED <<lease, leaseFresh, history, leader, view, status, booting, due, nodes, changes, requests>>

\* A plausible bug: the cool-down is not waited for.
Replace_atOnce(c, cl) ==
  /\ State(status[c][cl.master]) \in {"down", "needs_restore"}
  /\ Candidates(c, cl.master) # {}

\* The master of the record is to be replaced, and there is a node to replace it.
Replace(c, cl) ==
  /\ State(status[c][cl.master]) \in {"down", "needs_restore"}
  /\ cl.age >= Cooldown
  /\ Candidates(c, cl.master) # {}

\* ... and decides from it and from the last answers of the nodes.
FailoverDecide(c) ==
  LET cl == Loop(c).cl IN
  /\ Loop(c).at = "decide"
  /\ SetView(c, cl)
  /\ \/ ~Replace(c, cl) /\ Goto(c, "loop", At("select"))
     \/ Replace(c, cl) /\ Goto(c, "loop", [At("update") EXCEPT !.cl = cl, !.to = Candidate(c, cl.master)])
  /\ UNCHANGED <<store, leader, status, booting, due, nodes, changes, faults, requests>>

\* POST /v1/failover on the leader; Promote refuses a node that cannot be reached.
Request(c, n) ==
  /\ proc[c]["api"].at = "idle" /\ leader[c]
  /\ requests < MaxRequests /\ requests' = requests + 1
  /\ State(status[c][n]) \in {"up", "lagging", "degraded"}
  /\ Goto(c, "api", [At("load") EXCEPT !.to = n])
  /\ UNCHANGED <<store, leader, view, status, booting, due, nodes, changes, faults>>

\* Promote reads the record; nothing is left to do when the node is master.
RequestLoad(c) ==
  LET p == proc[c]["api"] IN
  /\ p.at = "load"
  /\ \/ /\ NoFault /\ cluster.rev # 0 /\ cluster.master = p.to
        /\ Goto(c, "api", At("idle")) /\ UNCHANGED cluster
     \/ /\ NoFault /\ ~(cluster.rev # 0 /\ cluster.master = p.to)
        /\ Load(c, "api", [p EXCEPT !.at = "update"])
     \/ Fault /\ Goto(c, "api", At("idle")) /\ UNCHANGED cluster
  /\ UNCHANGED <<lease, leaseFresh, history, leader, view, status, booting, due, nodes, changes, requests>>

\* A plausible bug: the record is written without comparing its revision.
Update_unchecked(c, k) ==
  LET p == proc[c][k] IN
  /\ p.at = "update"
  /\ cluster' = Decision(p) /\ Goto(c, k, [p EXCEPT !.at = "record"])
  /\ UNCHANGED <<lease, leaseFresh, history, leader, view, status, booting, due, nodes, changes, faults, requests>>

\* promote: the compare-and-set.  FailoverOnce adopts the decision that won.
Update(c, k) ==
  LET p == proc[c][k] IN
  /\ p.at = "update"
  /\ \/ /\ cluster.rev = p.cl.rev
        /\ cluster' = Decision(p) /\ Goto(c, k, [p EXCEPT !.at = "record"])
     \/ /\ cluster.rev # p.cl.rev /\ UNCHANGED cluster
        /\ Goto(c, k, At(IF k = "loop" THEN "adopt" ELSE "idle"))
  /\ UNCHANGED <<lease, leaseFresh, history, leader, view, status, booting, due, nodes, changes, faults, requests>>

\* The store answers with an error; the write may have reached it.
UpdateFails(c, k) ==
  LET p == proc[c][k] IN
  /\ p.at = "update" /\ Fault
  /\ Goto(c, k, At(Rest(k)))
  /\ \/ UNCHANGED cluster
     \/ cluster.rev = p.cl.rev /\ cluster' = Decision(p)
  /\ UNCHANGED <<lease, leaseFresh, history, leader, view, status, booting, due, nodes, changes, requests>>

\* The new decision is served and recorded; an error of the store is only logged.
Record(c, k) ==
  LET p == proc[c][k] IN
  /\ p.at = "record"
  /\ SetView(c, Decision(p))
  /\ \/ NoFault /\ history' = history \cup {[epoch |-> p.cl.epoch + 1, from |-> p.cl.master, to |-> p.to]}
     \/ Fault /\ UNCHANGED history
  /\ Goto(c, k, IF status[c][p.to].paused THEN [At("resume") EXCEPT !.to = p.to] ELSE At(Rest(k)))
  /\ UNCHANGED <<lease, leaseFresh, cluster, leader, status, booting, due, nodes, changes, requests>>

\* A promoted node that was paused when it was last asked is told to consume.
Resume(c, k) ==
  LET p == proc[c][k] IN
  /\ p.at = "resume"
  /\ \/ NoFault /\ cond[p.to] # "down" /\ paused' = [paused EXCEPT ![p.to] = FALSE]
     \/ NoFault /\ cond[p.to] = "down" /\ UNCHANGED paused
     \/ Fault /\ UNCHANGED paused
  /\ Goto(c, k, At(Rest(k)))
  /\ UNCHANGED <<store, leader, view, status, booting, due, cond, applied, changes, requests>>
-----------------------------------------------------------------------------
(* Nodes and time                                                              *)

\* A node changes its condition; a restarted node consumes again.
NodeChanges(n) ==
  /\ changes < MaxChanges /\ changes' = changes + 1
  /\ \E x \in Conditions \ {cond[n]} : cond' = [cond EXCEPT ![n] = x]
  /\ paused' = IF cond[n] = "down" THEN [paused EXCEPT ![n] = FALSE] ELSE paused
  /\ UNCHANGED <<store, leader, view, status, proc, booting, due, applied, faults, requests>>

\* A node is paused, e.g. for a backup.
NodePaused(n) ==
  /\ changes < MaxChanges /\ changes' = changes + 1
  /\ cond[n] # "down" /\ ~paused[n] /\ paused' = [paused EXCEPT ![n] = TRUE]
  /\ UNCHANGED <<store, leader, view, status, proc, booting, due, cond, applied, faults, requests>>

NodeApplies(n) ==
  /\ cond[n] \in {"ok", "lagging"} /\ ~paused[n] /\ applied[n] < MaxApplied
  /\ applied' = [applied EXCEPT ![n] = @ + 1]
  /\ UNCHANGED <<store, leader, view, status, proc, booting, due, cond, paused, changes, faults, requests>>

Less(x) == IF x > 0 THEN x - 1 ELSE 0
Older(cl) == [cl EXCEPT !.age = IF @ < Cooldown THEN @ + 1 ELSE @]

\* Time passes for every record, stored, to be judged or about to be written.  When Timely, the loops
\* have served their tickers and wait in select.
Tick ==
  /\ Timely => \A c \in Coords : Loop(c).at \in {"off", "select"} /\ due[c] = {}
  /\ lease' = [lease EXCEPT !.left = Less(@)]
  /\ cluster' = IF cluster.rev = 0 THEN cluster ELSE Older(cluster)
  /\ proc' = [c \in Coords |-> [k \in Kinds |->
       LET p == proc[c][k] IN
       [p EXCEPT !.left = Less(@),
                 !.cl = IF p.at = "decide" THEN Older(@) ELSE @,
                 !.age = IF p.at = "update" /\ @ < Cooldown THEN @ + 1 ELSE @]]]
  /\ due' = [c \in Coords |-> IF Timely /\ On(c) THEN {"lease", "poll"} ELSE {}]
  /\ UNCHANGED <<leaseFresh, history, leader, view, status, booting, nodes, changes, faults, requests>>
-----------------------------------------------------------------------------
LoopStep(c) ==
  \/ Acquire(c) \/ AcquireWrite(c) \/ Poll(c)
  \/ RefreshLoad(c) \/ RefreshStore(c)
  \/ FailoverLoad(c) \/ FailoverDecide(c)
  \/ Update(c, "loop") \/ Record(c, "loop") \/ Resume(c, "loop")
  \/ Stop(c)

ApiStep(c) == RequestLoad(c) \/ Update(c, "api") \/ Record(c, "api") \/ Resume(c, "api")

Faulty(c) ==
  \/ AcquireFails(c) \/ RefreshFails(c) \/ UpdateFails(c, "loop") \/ UpdateFails(c, "api") \/ Crash(c)

Next ==
  \/ \E c \in Coords :
       \/ Start(c) \/ Release(c)
       \/ LoopStep(c) \/ ApiStep(c) \/ Faulty(c)
       \/ \E n \in Nodes : Request(c, n)
  \/ \E n \in Nodes : NodeChanges(n) \/ NodePaused(n) \/ NodeApplies(n)
  \/ Tick

Spec == Init /\ [][Next]_vars

\* Goroutines run and time passes; nobody is bound to start or stop an instance.
FairSpec == Spec /\ WF_vars(Tick) /\ \A c \in Coords : WF_vars(LoopStep(c)) /\ WF_vars(ApiStep(c))
-----------------------------------------------------------------------------
(* Properties                                                                  *)

LoopPoints == {"off", "select", "acquire", "write", "poll", "refresh", "view", "load", "decide",
               "adopt", "adopted", "update", "record", "resume", "stopping"}
ApiPoints == {"idle", "load", "update", "record", "resume"}

ClusterType == [rev : Nat, master : Nodes, epoch : Nat, age : 0..Cooldown]
ProcType(points) == [at : points, cl : ClusterType, to : 0..NumNodes, left : 0..TTL, age : 0..Cooldown]

\* Every variable has its type, and only an instance that is about to write a
\* lease or a promotion carries one (Lease, Cluster, NodeStatus, Coordinator).
TypeOK ==
  /\ lease \in [holder : Coords \cup {None}, left : 0..TTL]
  /\ leaseFresh \subseteq Coords
  /\ cluster \in ClusterType
  /\ \A h \in history : h \in [epoch : 2..cluster.epoch, from : Nodes, to : Nodes]
  /\ leader \in [Coords -> BOOLEAN]
  /\ view \in [Coords -> [master : 0..NumNodes, epoch : 0..cluster.epoch]]
  /\ status \in [Coords -> [Nodes -> [failures : 0..FailThreshold, answer : (Conditions \ {"down"}) \cup {"none"},
                                      applied : 0..MaxApplied, paused : BOOLEAN]]]
  /\ \A c \in Coords :
       /\ DOMAIN proc[c] = Kinds
       /\ proc[c]["loop"] \in ProcType(LoopPoints) /\ proc[c]["api"] \in ProcType(ApiPoints)
       /\ \A k \in Kinds : proc[c][k].at \in {"update", "record", "resume"} => proc[c][k].to \in Nodes
  /\ booting \subseteq Coords
  /\ due \in [Coords -> SUBSET {"lease", "poll"}]
  /\ cond \in [Nodes -> Conditions] /\ applied \in [Nodes -> 0..MaxApplied] /\ paused \in [Nodes -> BOOLEAN]
  /\ changes \in 0..MaxChanges /\ faults \in 0..MaxFaults /\ requests \in 0..MaxRequests

\* The promotion history tells one story however many instances promote at once
\* and whatever is lost: an epoch has one entry, an entry starts from the master
\* that the entry before it made, and the last one names the current master.
HistoryIsChain ==
  /\ \A h \in history : h.epoch = cluster.epoch => h.to = cluster.master
  /\ \A g, h \in history :
       /\ g.epoch = h.epoch => g = h
       /\ h.epoch = g.epoch + 1 => h.from = g.to

\* FailoverOnce of instance c changes the record in this step.
FailsOver(c) == Loop(c).at = "update" /\ cluster'.rev # cluster.rev /\ proc'[c]["loop"].at # "update"

\* PromoteCooldown: no automatic promotion follows the last change of the master,
\* by whichever instance, sooner than the cool-down.
CooldownBetweenFailovers == [][\A c \in Coords : FailsOver(c) => cluster.age >= Cooldown]_vars

\* Readers are sent to a replica that holds at least what every other healthy
\* replica was known to hold, however old the answers are when it takes over.
FreshestTakesOver ==
  [][\A c \in Coords : FailsOver(c) =>
       \A n \in Candidates(c, cluster.master) : applied[cluster'.master] >= status[c][n].applied]_vars

\* As long as the loops keep their pace and clocks agree, one instance at a time
\* believes to be the leader, through errors of the store, crashes and restarts
\* (one that is shutting down has released the lease before it clears its flag).
OneLeader ==
  \A c, d \in Coords :
    leader[c] /\ leader[d] /\ c # d => \E e \in {c, d} : Loop(e).at = "stopping"

\* A master that stays lost is replaced while there is a healthy replica and an
\* instance that runs, whatever failed before.
MasterReplaced ==
  <>[]((/\ \E c \in Coords : On(c)
        /\ cluster.rev # 0 /\ cond[cluster.master] \in {"down", "gap"})
       => \A n \in Nodes : cond[n] # "ok")
=============================================================================
