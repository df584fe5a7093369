------------------------------ MODULE Backups ------------------------------
(***************************************************************************)
(* The backups a coordinator keeps: taking one from a replica, storing it  *)
(* in the blob store, recording it in the state store, pruning, deleting   *)
(* orphan objects and verifying what is stored (pkg/coordinator/backups.go,*)
(* verifier.go, blob/, the backup routes of api.go).  One job runs per     *)
(* instance at a time (jobMu).  Leadership is not consulted once a job     *)
(* runs, so a job of a former leader overlaps those of the new one: any    *)
(* instance may start one at any time, by its schedule or on request.      *)
(*                                                                         *)
(* An archive is the number of its creation, which is also the order of    *)
(* CreatedAt, and its name.  Times are ages in ticks that stop counting    *)
(* where no comparison in the code can tell them apart any more.  The      *)
(* revision of a record is modelled by job.fresh: the records nobody else  *)
(* wrote since the job read them, i.e. whose revision is still the one it  *)
(* holds.                                                                  *)
(*                                                                         *)
(* Left out: two archives of one name (same second, same offset, two       *)
(* nodes) and the staging copy on the node.  An operator with an           *)
(* underscore in its name is a faulty variant of the one that follows it.  *)
(***************************************************************************)
EXTENDS Integers, FiniteSets, FiniteSetsExt, Functions

CONSTANTS
    Instances,    \* coordinator instances
    Retention,    \* cfg.BackupRetention
    OrphanGrace,  \* cfg.OrphanGrace, in ticks
    Timely,       \* an upload is recorded, and a list used, within half the grace
    MaxBackups,   \* bound: archives made
    MaxFailures   \* bound: failing calls, crashes, useless and rotting archives

ASSUME BackupsAssumption ==
    /\ Retention \in Nat \ {0}
    /\ OrphanGrace \in Nat \ {0}
    /\ Timely \in BOOLEAN
    /\ {MaxBackups, MaxFailures} \subseteq Nat

VARIABLES
    made,      \* archives made so far
    useless,   \* archives that are intact but cannot be restored
    objects,   \* age of every object in the blob store
    rotten,    \* objects whose stored bytes are, or were, not the archive's
    recs,      \* status of every record in the state store
    job,       \* the job of every instance
    failures   \* failing calls, crashes, useless and rotten archives so far

vars == <<made, useless, objects, rotten, recs, job, failures>>

Names    == 1 .. MaxBackups
Statuses == {"uploaded", "verified", "bad"}
NoName   == 0

Nothing == [n \in {} |-> "uploaded"]   \* an empty list of records
Usable(list) == {n \in DOMAIN list : list[n] # "bad"}
Verified(list) == {n \in DOMAIN list : list[n] = "verified"}
Newest(k, S) == {n \in S : Cardinality({m \in S : m > n}) < k}
Intact(n) == n \in DOMAIN objects /\ n \notin rotten

NoJob == [pc |-> "idle", name |-> NoName, seen |-> Nothing, fresh |-> {},
          todo |-> {}, result |-> "", since |-> 0]

Init ==
    /\ made = 0 /\ useless = {} /\ objects = [n \in {} |-> 0] /\ rotten = {}
    /\ recs = Nothing
    /\ job = [i \in Instances |-> NoJob]
    /\ failures = 0

-----------------------------------------------------------------------------
(* Time and failures.                                                      *)

Older(age, cap) == IF age < cap THEN age + 1 ELSE cap

\* An upload that is not recorded yet, or a list of records that objects are
\* still to be compared with, is as old as half the grace.  Both may add up.
HalfGrace == OrphanGrace \div 2
Overdue == \E i \in Instances : job[i].pc \in {"record", "prune", "forget"}
                                /\ job[i].since >= HalfGrace

Tick ==
    /\ Timely => ~Overdue
    /\ objects' = [n \in DOMAIN objects |-> Older(objects[n], OrphanGrace + 1)]
    /\ job' = [i \in Instances |-> [job[i] EXCEPT
                !.since = IF job[i].pc \in {"record", "prune", "forget"}
                          THEN Older(@, HalfGrace) ELSE 0]]
    /\ UNCHANGED <<made, useless, rotten, recs, failures>>

\* Something fails: a call to a node or a store, an instance, the storage.
Fault == failures < MaxFailures /\ failures' = failures + 1

\* The storage loses the bytes of an object.
Rot(n) ==
    /\ Fault
    /\ n \in DOMAIN objects \ rotten
    /\ rotten' = rotten \cup {n}
    /\ UNCHANGED <<made, useless, objects, recs, job>>

\* The process dies; the job, and jobMu with it, are gone.
Crash(i) ==
    /\ job[i].pc # "idle"
    /\ Fault
    /\ job' = [job EXCEPT ![i] = NoJob]
    /\ UNCHANGED <<made, useless, objects, rotten, recs>>

-----------------------------------------------------------------------------
(* BackupOnce.                                                             *)

\* Job i goes on at pc, or ends and unlocks jobMu.
Goto(i, pc) == job' = [job EXCEPT ![i].pc = pc]
EndJob(i)   == job' = [job EXCEPT ![i] = NoJob]

\* A job starts when it is due or requested and jobMu is free: startDueJobs,
\* runJob, createBackup.  pickBackupNode, CreateBackup and DownloadBackup give
\* an archive; without a replica that is up, or when the node fails, the job
\* ends and nothing has changed.
CreateBackup(i) ==
    /\ job[i].pc = "idle"
    /\ made < MaxBackups
    /\ made' = made + 1
    /\ \/ UNCHANGED <<useless, failures>>
       \/ useless' = useless \cup {made + 1} /\ Fault
    /\ job' = [job EXCEPT ![i].pc = "put", ![i].name = made + 1]
    /\ UNCHANGED <<objects, rotten, recs>>

Uploaded(i, checksum) ==
    job' = [job EXCEPT ![i].pc = "record", ![i].result = checksum, ![i].since = 0]

\* blobs.Put stores all or nothing; the bytes may have changed on the way.
Put(i) ==
    LET n == job[i].name IN
    /\ job[i].pc = "put"
    /\ \/ /\ objects' = [m \in DOMAIN objects \cup {n} |-> IF m = n THEN 0 ELSE objects[m]]
          /\ \/ Uploaded(i, "intact") /\ UNCHANGED <<rotten, failures>>
             \/ Uploaded(i, "damaged") /\ rotten' = rotten \cup {n} /\ Fault
       \/ EndJob(i) /\ Fault /\ UNCHANGED <<objects, rotten>>
    /\ UNCHANGED <<made, useless, recs>>

DeleteObject(n) == objects' = Restrict(objects, DOMAIN objects \ {n})

\* The checksum computed during the upload must be the one the node reported:
\* the copy is recorded or else deleted.  A deletion that fails is ignored and
\* leaves what a crash at this point leaves.
Record(i) ==
    LET n == job[i].name IN
    /\ job[i].pc = "record"
    /\ \/ /\ job[i].result = "damaged"
          /\ DeleteObject(n) /\ EndJob(i) /\ UNCHANGED <<recs, failures>>
       \/ /\ job[i].result = "intact"
          /\ UNCHANGED objects
          /\ \/ /\ recs' = [m \in DOMAIN recs \cup {n} |-> IF m = n THEN "uploaded" ELSE recs[m]]
                /\ job' = [job EXCEPT ![i] = [NoJob EXCEPT !.pc = "list"]]
                /\ UNCHANGED failures
             \/ EndJob(i) /\ Fault /\ UNCHANGED recs
    /\ UNCHANGED <<made, useless, rotten>>

-----------------------------------------------------------------------------
(* Prune and handleOrphans.                                                *)

Kept_fewer(list) == Newest(Retention - 1, Usable(list)) \cup Newest(1, Verified(list))

\* The newest usable backups and the newest verified one.
Kept(list) == Newest(Retention, Usable(list)) \cup Newest(1, Verified(list))

\* listBackups of Prune.  Without a usable backup nothing is deleted.
ListToPrune(i) ==
    /\ job[i].pc = "list"
    /\ \/ /\ Usable(recs) # {}
          /\ job' = [job EXCEPT ![i].pc = "prune", ![i].seen = recs,
                                ![i].todo = DOMAIN recs \ Kept(recs)]
          /\ UNCHANGED failures
       \/ Usable(recs) = {} /\ EndJob(i) /\ UNCHANGED failures
       \/ EndJob(i) /\ Fault
    /\ UNCHANGED <<made, useless, objects, rotten, recs>>

\* The next record to prune, newest first: its object is deleted before it.
PruneObject(i) ==
    LET n == Max(job[i].todo) IN
    /\ job[i].pc = "prune" /\ job[i].todo # {}
    /\ \/ DeleteObject(n) /\ Goto(i, "forget") /\ UNCHANGED failures
       \/ job' = [job EXCEPT ![i].todo = @ \ {n}] /\ Fault /\ UNCHANGED objects
    /\ UNCHANGED <<made, useless, rotten, recs>>

Written_unnoticed(i, n, mine) == job' = [job EXCEPT ![i] = mine]

\* Record n was written or deleted by job i, which goes on as `mine`: the
\* revision that the other jobs hold is outdated.
Written(i, n, mine) ==
    job' = [j \in Instances |-> IF j = i THEN mine ELSE [job[j] EXCEPT !.fresh = @ \ {n}]]

PruneRecord(i) ==
    LET n == Max(job[i].todo)
        next == [job[i] EXCEPT !.pc = "prune", !.todo = @ \ {n}] IN
    /\ job[i].pc = "forget"
    /\ \/ recs' = Restrict(recs, DOMAIN recs \ {n}) /\ Written(i, n, next) /\ UNCHANGED failures
       \/ job' = [job EXCEPT ![i] = next] /\ Fault /\ UNCHANGED recs
    /\ UNCHANGED <<made, useless, objects, rotten>>

Orphans_young(i) == DOMAIN objects \ DOMAIN job[i].seen

\* Objects the list of records does not know and that are past the grace.
Orphans(i) == {n \in DOMAIN objects \ DOMAIN job[i].seen : objects[n] > OrphanGrace}

\* blobs.List of handleOrphans
ListOrphans(i) ==
    /\ job[i].pc = "prune" /\ job[i].todo = {}
    /\ \/ job' = [job EXCEPT ![i].pc = "orphans", ![i].todo = Orphans(i)] /\ UNCHANGED failures
       \/ EndJob(i) /\ Fault
    /\ UNCHANGED <<made, useless, objects, rotten, recs>>

DeleteOrphan(i) ==
    /\ job[i].pc = "orphans"
    /\ IF job[i].todo = {} THEN EndJob(i) /\ UNCHANGED <<objects, failures>>
       ELSE LET n == Min(job[i].todo) IN
            /\ job' = [job EXCEPT ![i].todo = @ \ {n}]
            /\ \/ DeleteObject(n) /\ UNCHANGED failures
               \/ Fault /\ UNCHANGED objects
    /\ UNCHANGED <<made, useless, rotten, recs>>

-----------------------------------------------------------------------------
(* VerifyOnce.                                                             *)

\* VerifyOnce starts when it is due or requested and lists the records.
StartVerify(i) ==
    /\ job[i].pc = "idle"
    /\ job' = [job EXCEPT ![i].pc = "check", ![i].seen = recs,
                          ![i].fresh = DOMAIN recs, ![i].todo = Usable(recs)]
    /\ UNCHANGED <<made, useless, objects, rotten, recs, failures>>

CheckStored_exists(i) ==
    LET n == Max(job[i].todo) IN
    /\ job[i].pc = "check" /\ job[i].todo # {}
    /\ job' = [job EXCEPT ![i].pc = "mark", ![i].name = n,
                        ![i].result = IF n \in DOMAIN objects THEN "intact" ELSE "damaged"]
    /\ UNCHANGED <<made, useless, objects, rotten, recs, failures>>

\* checkStored for the next usable record, newest first: read the object.
CheckStored(i) ==
    LET n == Max(job[i].todo) IN
    /\ job[i].pc = "check" /\ job[i].todo # {}
    /\ \/ /\ job' = [job EXCEPT ![i].pc = "mark", ![i].name = n,
                        ![i].result = IF Intact(n) THEN "intact" ELSE "damaged"]
          /\ UNCHANGED failures
       \/ job' = [job EXCEPT ![i].todo = @ \ {n}] /\ Fault
    /\ UNCHANGED <<made, useless, objects, rotten, recs>>

\* deepVerify of the newest record the job does not hold for bad: FetchBackup
\* reads the record again and the object, Deep restores the archive.
DeepVerify(i) ==
    LET n == Max(Usable(job[i].seen)) IN
    /\ job[i].pc = "check" /\ job[i].todo = {}
    /\ \/ Usable(job[i].seen) = {} /\ EndJob(i) /\ UNCHANGED failures
       \/ /\ Usable(job[i].seen) # {}
          /\ \/ /\ n \in DOMAIN recs
                /\ job' = [job EXCEPT ![i].pc = "mark", ![i].name = n,
                            ![i].result = IF Intact(n) /\ n \notin useless
                                          THEN "verified" ELSE "damaged"]
                /\ UNCHANGED failures
             \/ n \notin DOMAIN recs /\ EndJob(i) /\ UNCHANGED failures
             \/ EndJob(i) /\ Fault
    /\ UNCHANGED <<made, useless, objects, rotten, recs>>

\* saveRecord is refused for a record that someone else wrote or deleted.
Save_any(i, n) == n \in DOMAIN recs
Save(i, n) == n \in job[i].fresh

NewStatus(i, n) ==
    CASE job[i].result = "damaged"  -> "bad"
      [] job[i].result = "verified" -> "verified"
      [] OTHER                      -> job[i].seen[n]

\* saveRecord with what was found; the copy in memory is changed first, so a
\* record held for bad is not restored even when saving that fails.
Mark(i) ==
    LET n    == job[i].name
        deep == n \notin job[i].todo
        st   == NewStatus(i, n)
        after == IF deep THEN NoJob ELSE [job[i] EXCEPT !.seen[n] = st, !.todo = @ \ {n},
                               !.name = NoName, !.result = "", !.pc = "check"] IN
    /\ job[i].pc = "mark"
    /\ \/ /\ Save(i, n)
          /\ recs' = [recs EXCEPT ![n] = st]
          /\ Written(i, n, after)
          /\ UNCHANGED failures
       \/ /\ \/ ~Save(i, n) /\ UNCHANGED failures
             \/ Fault
          /\ job' = [job EXCEPT ![i] = after]
          /\ UNCHANGED recs
    /\ UNCHANGED <<made, useless, objects, rotten>>

-----------------------------------------------------------------------------
\* A running job goes on.
Step(i) ==
    \/ Put(i) \/ Record(i)
    \/ ListToPrune(i) \/ PruneObject(i) \/ PruneRecord(i) \/ ListOrphans(i) \/ DeleteOrphan(i)
    \/ CheckStored(i) \/ DeepVerify(i) \/ Mark(i)

Next ==
    \/ Tick
    \/ \E n \in Names : Rot(n)
    \/ \E i \in Instances : CreateBackup(i) \/ StartVerify(i) \/ Step(i) \/ Crash(i)

\* A job that runs goes on, and the poll loop starts the verification that is
\* due again and again.
Fairness == \A i \in Instances : WF_vars(Step(i)) /\ WF_vars(StartVerify(i))

Spec     == Init /\ [][Next]_vars
FairSpec == Spec /\ Fairness

-----------------------------------------------------------------------------
(* Properties.                                                             *)

\* The state is what backups.go keeps: records and objects of archives that
\* were made, and a job per instance that is at one of its steps.
TypeOK ==
    /\ made \in 0 .. MaxBackups /\ useless \subseteq 1 .. made
    /\ DOMAIN objects \subseteq 1 .. made /\ Range(objects) \subseteq 0 .. OrphanGrace + 1
    /\ rotten \subseteq 1 .. made
    /\ DOMAIN recs \subseteq 1 .. made /\ Range(recs) \subseteq Statuses
    /\ \A i \in Instances :
        /\ job[i].pc \in {"idle", "put", "record", "list", "prune", "forget",
                          "orphans", "check", "mark"}
        /\ job[i].todo \subseteq 1 .. made /\ job[i].fresh \subseteq DOMAIN recs

\* LatestUsable: the newest verified backup, else the newest not known bad.
LatestUsable ==
    LET S == IF Verified(recs) # {} THEN Verified(recs) ELSE Usable(recs)
    IN  IF S = {} THEN NoName ELSE Max(S)

\* As long as no archive was useless and no object rotted, once a backup was
\* recorded there is always one to recover from, with its object stored and
\* intact: whatever two instances prune, verify and delete as orphans at the
\* same time, and wherever one of them crashes.
AlwaysRecoverable ==
    useless \cup rotten = {} /\ DOMAIN recs # {} => \E n \in Usable(recs) : Intact(n)

\* handleOrphans deletes no object that is recorded or is about to be: not the
\* upload of another instance, which its list of records cannot know, and not
\* one that was recorded after the list was read.
OrphansOnly ==
    [][\A i \in Instances : \A n \in DOMAIN objects \ DOMAIN objects' :
        job[i].pc = "orphans" /\ n \in job[i].todo =>
            /\ n \notin DOMAIN recs
            /\ \A j \in Instances : ~(job[j].pc = "record" /\ job[j].name = n)]_vars

\* A backup found to be bad is never used again: no job that read the record
\* before it was condemned writes back what it remembers.
BadStaysBad ==
    [][\A n \in DOMAIN recs : recs[n] = "bad" /\ n \in DOMAIN recs' => recs'[n] = "bad"]_vars

\* Prune keeps the newest verified backup, as its comment says: the object it
\* deletes is not the one LatestUsable would choose for having been verified.  It
\* does not hold: another instance may verify a backup after Prune made its list.
NewestVerifiedKept ==
    [][\A n \in Newest(1, Verified(recs)) :
        n \in DOMAIN objects => n \in DOMAIN objects']_vars

\* Damage does not go unnoticed: a record whose object rotted or is missing is
\* marked bad or pruned, whichever steps fail, conflict or crash before.
DamageFound ==
    \A n \in Names :
        (n \in Usable(recs) /\ ~Intact(n)) ~> (n \notin Usable(recs))
=============================================================================
