--------------------------- MODULE Backups_proofs ---------------------------
(***************************************************************************)
(* Proofs about Backups, for any instances, retention, grace and bounds.   *)
(*                                                                         *)
(* Static says what every job holds at each step and that an archive which *)
(* is not recorded yet belongs to one job and is in no list; every action  *)
(* is shown to keep it by what it does to its own job (Shape) and what it  *)
(* leaves alone (Quiet).  On it rest FreshInv, for BadStaysBad: a revision *)
(* that is still current tells the job whether the record is bad; TimeInv, *)
(* for OrphansOnly: objects that are recorded, or will be, are younger     *)
(* than the grace when orphans are listed; and TopInv, for                 *)
(* AlwaysRecoverable: the newest record of all is the one no instance      *)
(* prunes, condemns or takes for an orphan, however old its list.          *)
(***************************************************************************)
EXTENDS Backups, TLAPS, FiniteSetTheorems, WellFoundedInduction

Steps == {"idle", "put", "record", "list", "prune", "forget", "orphans", "check", "mark"}
Results == {"", "intact", "damaged", "verified"}

\* Lists of records: functions from some names to statuses.
Lists == UNION {[D -> Statuses] : D \in SUBSET Names}
IsList(f) ==
    /\ f = [n \in DOMAIN f |-> f[n]] /\ DOMAIN f \subseteq Names
    /\ \A n \in DOMAIN f : f[n] \in Statuses

Job == [pc : Steps, name : Nat, seen : Lists, fresh : SUBSET Names, todo : SUBSET Names,
        result : Results, since : 0 .. HalfGrace]

JobTyped == job \in [Instances -> Job]
Others(i) == \A j \in Instances \ {i} : job'[j] = job[j]

(***************************************************************************)
(* Lists, ages and the newest of some names                                *)
(***************************************************************************)
LEMMA ListFacts == ASSUME NEW f PROVE f \in Lists <=> IsList(f)
BY DEF Lists, IsList

\* The empty list.
LEMMA NothingListed == Nothing \in Lists /\ DOMAIN Nothing = {}
<1>1. DOMAIN Nothing = {} /\ IsList(Nothing)
  BY DEF Nothing, IsList
<1> QED
  BY <1>1, ListFacts

\* The constants in numbers.
LEMMA HalfFacts ==
    /\ HalfGrace \in Nat /\ HalfGrace + HalfGrace <= OrphanGrace
    /\ OrphanGrace \in Nat /\ MaxBackups \in Nat /\ Names \subseteq Nat
BY BackupsAssumption DEF HalfGrace, Names

\* An instance without a job, and one that goes on to list, have their types.
LEMMA NoJobTyped == NoJob \in Job /\ [NoJob EXCEPT !.pc = "list"] \in Job
<1>1. 0 \in 0 .. HalfGrace /\ NoName \in Nat
  BY HalfFacts DEF NoName
<1>2. NoJob \in Job
  BY <1>1, NothingListed DEF NoJob, Job, Steps, Results
<1> QED
  BY <1>2 DEF Job, Steps

\* Some names have a newest one.
LEMMA NameMax ==
    ASSUME NEW S, S \subseteq Names, S # {}
    PROVE  Max(S) \in S /\ \A m \in S : m <= Max(S)
<1> DEFINE D == {MaxBackups - y : y \in S}
           L == OpToRel(<, Nat)
<1>1. D \subseteq Nat /\ D # {}
  <2>1. \A y \in S : MaxBackups - y \in Nat
    BY BackupsAssumption DEF Names
  <2> QED
    BY <2>1
<1>2. IsWellFoundedOn(L, Nat)
  BY NatLessThanWellFounded
<1> HIDE DEF L
<1>3. PICK m \in D : \A n \in D : ~(<<n, m>> \in L)
  BY <1>1, <1>2, WFMin
<1>4. \A n \in D : <<n, m>> \in Nat \X Nat
  BY <1>1
<1>5. \A n \in D : ~(n < m)
  BY <1>3, <1>4 DEF L, OpToRel
<1>6. PICK x \in S : m = MaxBackups - x
  OBVIOUS
<1>7. \A y \in S : MaxBackups - y \in D /\ y \in Nat /\ x \in Nat /\ MaxBackups \in Nat
  BY HalfFacts
<1> HIDE DEF D
<1>8. \A y \in S : x >= y
  BY <1>5, <1>6, <1>7
<1>9. Max(S) \in S /\ \A y \in S : Max(S) >= y
  BY <1>8 DEF Max
<1> QED
  BY <1>9, HalfFacts

\* ... and an oldest one.
LEMMA NameMin == ASSUME NEW S, S \subseteq Names, S # {} PROVE Min(S) \in S
<1> DEFINE L == OpToRel(<, Nat)
<1>1. IsWellFoundedOn(L, Nat)
  BY NatLessThanWellFounded
<1> HIDE DEF L
<1>2. S \subseteq Nat
  BY HalfFacts
<1>3. PICK m \in S : \A n \in S : ~(<<n, m>> \in L)
  BY <1>1, <1>2, WFMin
<1>4. \A n \in S : <<n, m>> \in Nat \X Nat
  BY <1>2
<1>5. \A n \in S : ~(n < m)
  BY <1>3, <1>4 DEF L, OpToRel
<1>6. \A n \in S : m =< n
  BY <1>2, <1>5
<1> QED
  BY <1>6 DEF Min

\* Usable records are records.
LEMMA UsableNames == ASSUME NEW f \in Lists PROVE DOMAIN f \subseteq Names /\ Usable(f) \subseteq DOMAIN f
BY ListFacts DEF IsList, Usable

(***************************************************************************)
(* What the steps of a job do                                              *)
(***************************************************************************)
LEMMA JobSet ==
    ASSUME JobTyped, NEW i \in Instances, NEW v \in Job, job' = [job EXCEPT ![i] = v]
    PROVE  JobTyped' /\ job'[i] = v /\ Others(i)
BY DEF JobTyped, Others

\* A backup begins: the job has the archive's name.
LEMMA CreateEffect ==
    ASSUME JobTyped, made \in 0 .. MaxBackups, NEW i \in Instances, CreateBackup(i)
    PROVE  /\ JobTyped' /\ Others(i) /\ job[i].pc = "idle"
           /\ job'[i].pc = "put" /\ job'[i].name = made + 1 /\ job'[i].seen = job[i].seen
           /\ job'[i].fresh = job[i].fresh /\ job'[i].todo = job[i].todo /\ job'[i].since = job[i].since
<1>1. made + 1 \in Nat
  BY HalfFacts
<1> QED
  BY <1>1 DEF CreateBackup, JobTyped, Job, Others, Steps

\* The upload is done, intact or damaged.
LEMMA UploadedEffect ==
    ASSUME JobTyped, NEW i \in Instances, NEW c \in {"intact", "damaged"}, Uploaded(i, c)
    PROVE  /\ JobTyped' /\ Others(i)
           /\ job'[i].pc = "record" /\ job'[i].name = job[i].name /\ job'[i].seen = job[i].seen
           /\ job'[i].fresh = job[i].fresh /\ job'[i].todo = job[i].todo
           /\ job'[i].result = c /\ job'[i].since = 0
<1>1. 0 \in 0 .. HalfGrace
  BY HalfFacts
<1> QED
  BY <1>1 DEF Uploaded, JobTyped, Job, Others, Steps, Results

\* The job ends.
LEMMA EndEffect ==
    ASSUME JobTyped, NEW i \in Instances, EndJob(i) PROVE JobTyped' /\ Others(i) /\ job'[i] = NoJob
BY NoJobTyped, JobSet DEF EndJob

\* A verification begins with the list of records.
LEMMA VerifyEffect ==
    ASSUME JobTyped, recs \in Lists, NEW i \in Instances, StartVerify(i)
    PROVE  /\ JobTyped' /\ Others(i) /\ job[i].pc = "idle"
           /\ job'[i].pc = "check" /\ job'[i].seen = recs /\ job'[i].fresh = DOMAIN recs
           /\ job'[i].todo = Usable(recs) /\ job'[i].since = job[i].since
<1>1. DOMAIN recs \in SUBSET Names /\ Usable(recs) \in SUBSET Names /\ "check" \in Steps
  BY UsableNames DEF Steps
<1> QED
  BY <1>1 DEF StartVerify, JobTyped, Job, Others

\* The verifier knows what to mark.
LEMMA FoundEffect ==
    ASSUME JobTyped, NEW i \in Instances, NEW n \in Names, NEW c \in Results,
           job' = [job EXCEPT ![i].pc = "mark", ![i].name = n, ![i].result = c]
    PROVE  /\ JobTyped' /\ Others(i)
           /\ job'[i].pc = "mark" /\ job'[i].name = n /\ job'[i].result = c /\ job'[i].seen = job[i].seen
           /\ job'[i].fresh = job[i].fresh /\ job'[i].todo = job[i].todo /\ job'[i].since = job[i].since
BY HalfFacts DEF JobTyped, Job, Others, Steps

\* Writing a record makes the other jobs' revisions of it stale, and nothing
\* else.
LEMMA WrittenEffect ==
    ASSUME JobTyped, NEW i \in Instances, NEW n, NEW v \in Job, Written(i, n, v)
    PROVE  /\ JobTyped' /\ job'[i] = v
           /\ \A j \in Instances \ {i} :
                /\ job'[j].pc = job[j].pc /\ job'[j].name = job[j].name /\ job'[j].seen = job[j].seen
                /\ job'[j].fresh = job[j].fresh \ {n} /\ job'[j].todo = job[j].todo
                /\ job'[j].result = job[j].result /\ job'[j].since = job[j].since
BY DEF Written, JobTyped, Job

\* Time passes for the jobs.
LEMMA TickEffect ==
    ASSUME JobTyped, Tick
    PROVE  /\ JobTyped'
           /\ \A j \in Instances :
                /\ job'[j].pc = job[j].pc /\ job'[j].name = job[j].name /\ job'[j].seen = job[j].seen
                /\ job'[j].fresh = job[j].fresh /\ job'[j].todo = job[j].todo /\ job'[j].result = job[j].result
                /\ job'[j].since = IF job[j].pc \in {"record", "prune", "forget"}
                                   THEN Older(job[j].since, HalfGrace) ELSE 0
<1>1. ASSUME NEW a \in 0 .. HalfGrace PROVE Older(a, HalfGrace) \in 0 .. HalfGrace
  BY HalfFacts DEF Older
<1>2. 0 \in 0 .. HalfGrace
  BY HalfFacts
<1> QED
  BY <1>1, <1>2 DEF Tick, JobTyped, Job

(***************************************************************************)
(* Stores and jobs fit together                                            *)
(***************************************************************************)
Making(i) == job[i].pc \in {"put", "record"}

Glob ==
    /\ made \in 0 .. MaxBackups /\ useless \subseteq 1 .. made /\ rotten \subseteq 1 .. made
    /\ DOMAIN objects \subseteq 1 .. made
    /\ \A n \in DOMAIN objects : objects[n] \in 0 .. OrphanGrace + 1
    /\ recs \in Lists /\ DOMAIN recs \subseteq 1 .. made
    /\ failures \in Nat

\* What a job holds at each of its steps.
Shape(i) ==
    /\ DOMAIN job[i].seen \subseteq 1 .. made /\ job[i].todo \subseteq 1 .. made
    /\ job[i].fresh \subseteq DOMAIN recs /\ job[i].fresh \subseteq DOMAIN job[i].seen
    /\ job[i].pc \notin {"check", "mark"} => job[i].fresh = {}
    /\ job[i].pc \in {"idle", "put", "record", "list"} => (job[i].todo = {} /\ DOMAIN job[i].seen = {})
    /\ job[i].pc \in {"idle", "put", "list"} => job[i].since = 0
    /\ Making(i) => job[i].name \in (1 .. made) \ DOMAIN recs
    /\ job[i].pc = "put" => job[i].name \notin DOMAIN objects
    /\ job[i].pc \in {"prune", "forget"} => job[i].todo \subseteq DOMAIN job[i].seen
    /\ job[i].pc = "forget" => job[i].todo # {}
    /\ job[i].pc \in {"check", "mark"} => job[i].todo \subseteq Usable(job[i].seen)
    /\ job[i].pc = "mark" => job[i].name \in Usable(job[i].seen)

\* An archive that is not recorded yet belongs to one job, and no list has it.
Own(i, j) ==
    Making(i) => /\ job[i].name \notin DOMAIN job[j].seen
                 /\ i # j /\ Making(j) => job[i].name # job[j].name

Static ==
    /\ Glob /\ JobTyped
    /\ \A i \in Instances : Shape(i)
    /\ \A i, j \in Instances : Own(i, j)

\* What a step of job i may do to the stores and to the other jobs.
Quiet(i) ==
    /\ \A j \in Instances \ {i} :
        /\ job'[j].pc = job[j].pc /\ job'[j].name = job[j].name /\ job'[j].seen = job[j].seen
        /\ job'[j].todo = job[j].todo /\ job'[j].result = job[j].result /\ job'[j].since = job[j].since
        /\ job'[j].fresh \subseteq job[j].fresh /\ job'[j].fresh \subseteq DOMAIN recs'
    /\ made' \in {made, made + 1} /\ useless \subseteq useless' /\ rotten \subseteq rotten'
    /\ \A n \in DOMAIN recs' \ DOMAIN recs : job[i].pc = "record" /\ n = job[i].name
    /\ \A n \in DOMAIN objects' \ DOMAIN objects : job[i].pc = "put" /\ n = job[i].name
    /\ \A n \in DOMAIN objects \cap DOMAIN objects' : objects'[n] = objects[n]
    /\ Making(i)' => \/ Making(i) /\ job'[i].name = job[i].name
                     \/ job'[i].name = made + 1
    /\ DOMAIN job'[i].seen \subseteq DOMAIN job[i].seen \cup DOMAIN recs

StepOf(i) == CreateBackup(i) \/ StartVerify(i) \/ Step(i) \/ Crash(i)

\* Deleting an object leaves the others alone.
LEMMA DeletedObject ==
    ASSUME NEW n, DeleteObject(n)
    PROVE  /\ DOMAIN objects' = DOMAIN objects \ {n}
           /\ \A m \in DOMAIN objects' : objects'[m] = objects[m]
BY DEF DeleteObject, Restrict

\* A failure is counted.
LEMMA FaultCounts == ASSUME failures \in Nat, Fault PROVE failures' \in Nat
BY DEF Fault

\* An instance without a job holds nothing.
LEMMA NoJobFacts ==
    /\ NoJob.pc = "idle" /\ NoJob.fresh = {} /\ NoJob.todo = {} /\ NoJob.since = 0
    /\ DOMAIN NoJob.seen = {}
BY NothingListed DEF NoJob

\* A job that ends or starts over holds nothing.
LEMMA EndShape ==
    ASSUME NEW i \in Instances, job'[i] = NoJob \/ job'[i] = [NoJob EXCEPT !.pc = "list"]
    PROVE  Shape(i)' /\ ~Making(i)' /\ DOMAIN job'[i].seen = {}
<1>1. /\ job'[i].pc \in {"idle", "list"} /\ job'[i].fresh = {} /\ job'[i].todo = {} /\ job'[i].since = 0
      /\ DOMAIN job'[i].seen = {}
  <2>1. CASE job'[i] = NoJob
    BY <2>1, NoJobFacts
  <2>2. CASE job'[i] = [NoJob EXCEPT !.pc = "list"]
    BY <2>2, NothingListed DEF NoJob
  <2> QED
    BY <2>1, <2>2
<1> QED
  BY <1>1 DEF Shape, Making

\* A step that leaves the other jobs alone leaves their revisions valid.
LEMMA QuietOthers ==
    ASSUME Static, NEW i \in Instances, Others(i), DOMAIN recs \subseteq DOMAIN recs', NEW j \in Instances \ {i}
    PROVE  /\ job'[j].pc = job[j].pc /\ job'[j].name = job[j].name /\ job'[j].seen = job[j].seen
           /\ job'[j].todo = job[j].todo /\ job'[j].result = job[j].result /\ job'[j].since = job[j].since
           /\ job'[j].fresh \subseteq job[j].fresh /\ job'[j].fresh \subseteq DOMAIN recs'
BY DEF Static, Shape, Others

\* The general case: the lemmas below give Quiet and the shape of job i for
\* every action, the others follow.
LEMMA QuietKeeps ==
    ASSUME Static, NEW i \in Instances, Glob', JobTyped', Shape(i)', Quiet(i)
    PROVE  Static'
<1> USE DEF Static
<1>0. made \in Nat /\ made <= made' /\ 1 .. made \subseteq 1 .. made' /\ made + 1 \notin 1 .. made
  BY HalfFacts DEF Glob, Quiet
<1>1. ASSUME NEW j \in Instances \ {i} PROVE Shape(j)'
  <2>1. Shape(j) /\ Own(j, i) /\ Own(i, j)
    OBVIOUS
  <2>2. Making(j) => job[j].name \notin DOMAIN recs' /\ (job[j].pc = "put" => job[j].name \notin DOMAIN objects')
    BY <2>1 DEF Quiet, Own, Shape, Making
  <2> QED
    BY <1>0, <2>1, <2>2 DEF Quiet, Shape, Making
<1>2. ASSUME NEW j \in Instances \ {i} PROVE Own(j, i)' /\ Own(i, j)'
  <2>1. Shape(j) /\ Own(j, i) /\ Own(i, j) /\ Shape(i)
    OBVIOUS
  <2>2. /\ job'[j].pc = job[j].pc /\ job'[j].name = job[j].name /\ job'[j].seen = job[j].seen
    BY DEF Quiet
  <2>3. Making(j) => job[j].name \in 1 .. made /\ job[j].name \notin DOMAIN job'[i].seen
    BY <2>1 DEF Quiet, Own, Shape
  <2>4. Making(i)' => job'[i].name \notin DOMAIN job[j].seen
    BY <1>0, <2>1 DEF Quiet, Own, Shape
  <2>5. Making(i)' /\ Making(j) => job'[i].name # job[j].name
    BY <1>0, <2>1, <2>3 DEF Quiet, Own
  <2> QED
    BY <2>2, <2>3, <2>4, <2>5 DEF Own, Making
<1>3. Own(i, i)'
  <2>1. Making(i)' => DOMAIN job'[i].seen = {}
    BY DEF Shape, Making
  <2> QED
    BY <2>1 DEF Own
<1>4. ASSUME NEW j \in Instances \ {i}, NEW m \in Instances \ {i} PROVE Own(j, m)'
  <2>1. Own(j, m)
    OBVIOUS
  <2> QED
    BY <2>1 DEF Own, Quiet, Making
<1> QED
  BY <1>1, <1>2, <1>3, <1>4

Stepped(i) == Glob' /\ JobTyped' /\ Shape(i)' /\ Quiet(i)

\* A job that ends, with no change but of the objects and the failures.
LEMMA EndStepped ==
    ASSUME Static, NEW i \in Instances, EndJob(i), UNCHANGED <<made, useless, rotten, recs>>,
           failures' \in Nat, DOMAIN objects' \subseteq DOMAIN objects,
           \A n \in DOMAIN objects' : objects'[n] = objects[n]
    PROVE  Stepped(i)
<1>1. JobTyped' /\ Others(i) /\ job'[i] = NoJob
  BY EndEffect DEF Static
<1>2. Shape(i)' /\ ~Making(i)' /\ DOMAIN job'[i].seen = {}
  BY <1>1, EndShape
<1>3. Glob'
  BY DEF Static, Glob
<1>4. Quiet(i)
  BY <1>1, <1>2, QuietOthers DEF Quiet
<1> QED
  BY <1>1, <1>2, <1>3, <1>4 DEF Stepped

\* Starting a backup.
LEMMA CreateStepped == ASSUME Static, NEW i \in Instances, CreateBackup(i) PROVE Stepped(i)
<1> USE DEF Static
<1>1. /\ JobTyped' /\ Others(i) /\ job[i].pc = "idle"
      /\ job'[i].pc = "put" /\ job'[i].name = made + 1 /\ job'[i].seen = job[i].seen
      /\ job'[i].fresh = job[i].fresh /\ job'[i].todo = job[i].todo /\ job'[i].since = job[i].since
  BY CreateEffect DEF Glob
<1>2. /\ made \in Nat /\ made' = made + 1 /\ made' \in 0 .. MaxBackups /\ UNCHANGED <<objects, rotten, recs>>
      /\ 1 .. made \subseteq 1 .. made' /\ made + 1 \in 1 .. made' /\ made + 1 \notin 1 .. made
  BY HalfFacts DEF CreateBackup, Glob
<1>3. useless \subseteq useless' /\ useless' \subseteq 1 .. made' /\ failures' \in Nat
  BY <1>2, FaultCounts DEF CreateBackup, Glob
<1>4. Glob'
  BY <1>2, <1>3 DEF Glob
<1>5. Shape(i)'
  BY <1>1, <1>2 DEF Shape, Making, Glob
<1>6. Quiet(i)
  BY <1>1, <1>2, <1>3, QuietOthers DEF Quiet
<1> QED
  BY <1>1, <1>4, <1>5, <1>6 DEF Stepped

\* Uploading.
LEMMA PutStepped == ASSUME Static, NEW i \in Instances, Put(i) PROVE Stepped(i)
<1> USE DEF Static
<1>1. CASE EndJob(i) /\ Fault /\ UNCHANGED <<objects, rotten>>
  BY <1>1, EndStepped, FaultCounts DEF Put, Glob
<1>2. ASSUME NEW c \in {"intact", "damaged"}, Uploaded(i, c), failures' \in Nat,
             rotten' = rotten \/ rotten' = rotten \cup {job[i].name},
             objects' = [m \in DOMAIN objects \cup {job[i].name} |-> IF m = job[i].name THEN 0 ELSE objects[m]]
      PROVE  Stepped(i)
  <2>1. /\ JobTyped' /\ Others(i)
        /\ job'[i].pc = "record" /\ job'[i].name = job[i].name /\ job'[i].seen = job[i].seen
        /\ job'[i].fresh = job[i].fresh /\ job'[i].todo = job[i].todo
        /\ job'[i].result = c /\ job'[i].since = 0
    BY <1>2, UploadedEffect
  <2>2. job[i].pc = "put" /\ UNCHANGED <<made, useless, recs>>
    BY DEF Put
  <2>3. job[i].name \in (1 .. made) \ DOMAIN recs
    BY <2>2 DEF Shape, Making
  <2>4. /\ DOMAIN objects' = DOMAIN objects \cup {job[i].name}
        /\ \A n \in DOMAIN objects' : objects'[n] = IF n = job[i].name THEN 0 ELSE objects[n]
    BY <1>2
  <2>5. Glob'
    <3>1. 0 \in 0 .. OrphanGrace + 1
      BY HalfFacts
    <3> QED
      BY <1>2, <2>2, <2>3, <2>4, <3>1 DEF Glob
  <2>6. Shape(i)'
    BY <2>1, <2>2, <2>3 DEF Shape, Making
  <2>7. Quiet(i)
    BY <1>2, <2>1, <2>2, <2>4, QuietOthers DEF Quiet, Making, Shape
  <2> QED
    BY <2>1, <2>5, <2>6, <2>7 DEF Stepped
<1>3. Fault => failures' \in Nat
  BY FaultCounts DEF Glob
<1> QED
  BY <1>1, <1>2, <1>3 DEF Put, Glob

\* Recording the upload.
LEMMA RecordStepped == ASSUME Static, NEW i \in Instances, Record(i) PROVE Stepped(i)
<1> USE DEF Static
<1>1. CASE EndJob(i) /\ UNCHANGED recs
  <2>1. failures' \in Nat
    BY <1>1, FaultCounts DEF Record, Glob
  <2>2. DOMAIN objects' \subseteq DOMAIN objects /\ \A n \in DOMAIN objects' : objects'[n] = objects[n]
    BY DeletedObject DEF Record
  <2> QED
    BY <1>1, <2>1, <2>2, EndStepped DEF Record
<1>2. ASSUME recs' = [m \in DOMAIN recs \cup {job[i].name} |-> IF m = job[i].name THEN "uploaded" ELSE recs[m]],
             job' = [job EXCEPT ![i] = [NoJob EXCEPT !.pc = "list"]], UNCHANGED <<objects, failures>>
      PROVE  Stepped(i)
  <2>1. JobTyped' /\ Others(i) /\ job'[i] = [NoJob EXCEPT !.pc = "list"]
    BY <1>2, JobSet, NoJobTyped
  <2>2. Shape(i)' /\ ~Making(i)' /\ DOMAIN job'[i].seen = {}
    BY <2>1, EndShape
  <2>3. job[i].pc = "record" /\ UNCHANGED <<made, useless, rotten>>
    BY DEF Record
  <2>4. job[i].name \in (1 .. made) \ DOMAIN recs
    BY <2>3 DEF Shape, Making
  <2>5. /\ DOMAIN recs' = DOMAIN recs \cup {job[i].name}
        /\ \A n \in DOMAIN recs' : recs'[n] = IF n = job[i].name THEN "uploaded" ELSE recs[n]
    BY <1>2
  <2>6. recs' \in Lists
    <3>1. IsList(recs)
      BY ListFacts DEF Glob
    <3>2. job[i].name \in Names
      BY <2>4, HalfFacts DEF Glob, Names
    <3>3. recs' = [n \in DOMAIN recs' |-> recs'[n]]
      BY <1>2
    <3>4. IsList(recs')
      BY <2>5, <3>1, <3>2, <3>3 DEF IsList, Statuses
    <3> QED
      BY <3>4, ListFacts
  <2>7. Glob'
    BY <1>2, <2>3, <2>4, <2>5, <2>6 DEF Glob
  <2>8. Quiet(i)
    BY <1>2, <2>1, <2>2, <2>3, <2>5, QuietOthers DEF Quiet
  <2> QED
    BY <2>1, <2>2, <2>7, <2>8 DEF Stepped
<1> QED
  BY <1>1, <1>2 DEF Record

\* Listing the records to prune.
LEMMA ListStepped == ASSUME Static, NEW i \in Instances, ListToPrune(i) PROVE Stepped(i)
<1> USE DEF Static
<1>1. CASE EndJob(i)
  BY <1>1, EndStepped, FaultCounts DEF ListToPrune, Glob
<1>2. CASE job' = [job EXCEPT ![i].pc = "prune", ![i].seen = recs, ![i].todo = DOMAIN recs \ Kept(recs)]
           /\ UNCHANGED failures
  <2>1. DOMAIN recs \subseteq Names /\ "prune" \in Steps /\ recs \in Lists
    BY UsableNames DEF Glob, Steps
  <2>2. /\ JobTyped' /\ Others(i)
        /\ job'[i].pc = "prune" /\ job'[i].seen = recs /\ job'[i].todo = DOMAIN recs \ Kept(recs)
        /\ job'[i].fresh = job[i].fresh
    BY <1>2, <2>1 DEF JobTyped, Job, Others
  <2>3. job[i].pc = "list" /\ UNCHANGED <<made, useless, objects, rotten, recs>>
    BY DEF ListToPrune
  <2>4. Glob'
    BY <1>2, <2>3 DEF Glob
  <2>5. Shape(i)'
    BY <2>2, <2>3 DEF Shape, Making, Glob
  <2>6. Quiet(i)
    BY <2>2, <2>3, QuietOthers DEF Quiet, Making
  <2> QED
    BY <2>2, <2>4, <2>5, <2>6 DEF Stepped
<1> QED
  BY <1>1, <1>2 DEF ListToPrune

\* A step that keeps the list, moves within a pass and deletes at most objects.
LEMMA PassStepped ==
    ASSUME Static, NEW i \in Instances, JobTyped', Others(i), ~Making(i)', job'[i].seen = job[i].seen, Shape(i)',
           UNCHANGED <<made, useless, rotten, recs>>, failures' \in Nat,
           DOMAIN objects' \subseteq DOMAIN objects, \A n \in DOMAIN objects' : objects'[n] = objects[n]
    PROVE  Stepped(i)
<1>1. Glob'
  BY DEF Static, Glob
<1>2. Quiet(i)
  BY QuietOthers DEF Quiet
<1> QED
  BY <1>1, <1>2 DEF Stepped

\* Deleting the object of a record.
LEMMA PruneObjectStepped == ASSUME Static, NEW i \in Instances, PruneObject(i) PROVE Stepped(i)
<1> USE DEF Static
<1> DEFINE n == Max(job[i].todo)
<1>1. /\ job[i].pc = "prune" /\ job[i].todo # {} /\ UNCHANGED <<made, useless, rotten, recs>>
      /\ job[i].seen \in Lists /\ job[i].todo \in SUBSET Names /\ "forget" \in Steps /\ "prune" \in Steps
      /\ job[i].pc \in Steps
  BY DEF PruneObject, JobTyped, Job, Steps
<1>2. CASE DeleteObject(n) /\ Goto(i, "forget") /\ UNCHANGED failures
  <2>1. /\ JobTyped' /\ Others(i)
        /\ job'[i].pc = "forget" /\ job'[i].seen = job[i].seen /\ job'[i].todo = job[i].todo
        /\ job'[i].fresh = job[i].fresh
    BY <1>1, <1>2 DEF Goto, JobTyped, Job, Others
  <2>2. DOMAIN objects' \subseteq DOMAIN objects /\ \A m \in DOMAIN objects' : objects'[m] = objects[m]
    BY <1>2, DeletedObject
  <2>3. Shape(i)' /\ ~Making(i)'
    BY <1>1, <2>1 DEF Shape, Making
  <2> QED
    BY <1>1, <1>2, <2>1, <2>2, <2>3, PassStepped DEF Glob
<1>3. CASE job' = [job EXCEPT ![i].todo = @ \ {n}] /\ Fault /\ UNCHANGED objects
  <2>1. /\ JobTyped' /\ Others(i)
        /\ job'[i].pc = "prune" /\ job'[i].seen = job[i].seen /\ job'[i].todo = job[i].todo \ {n}
        /\ job'[i].fresh = job[i].fresh
    BY <1>1, <1>3 DEF JobTyped, Job, Others
  <2>2. Shape(i)' /\ ~Making(i)'
    BY <1>1, <2>1 DEF Shape, Making
  <2> QED
    BY <1>1, <1>3, <2>1, <2>2, PassStepped, FaultCounts DEF Glob
<1> QED
  BY <1>2, <1>3 DEF PruneObject

\* The job after PruneRecord.
PrunedJob(i) == [job[i] EXCEPT !.pc = "prune", !.todo = @ \ {Max(job[i].todo)}]

\* The job after a record was pruned.
LEMMA PrunedJobFacts ==
    ASSUME Static, NEW i \in Instances
    PROVE  /\ PrunedJob(i) \in Job /\ PrunedJob(i).pc = "prune" /\ PrunedJob(i).todo = job[i].todo \ {Max(job[i].todo)}
           /\ PrunedJob(i).seen = job[i].seen /\ PrunedJob(i).fresh = job[i].fresh
           /\ PrunedJob(i).since = job[i].since /\ PrunedJob(i).name = job[i].name
<1>1. job[i] \in Job
  BY DEF Static, JobTyped
<1> QED
  BY <1>1 DEF PrunedJob, Job, Steps

\* Deleting the record.
LEMMA PruneRecordStepped == ASSUME Static, NEW i \in Instances, PruneRecord(i) PROVE Stepped(i)
<1> USE DEF Static
<1> DEFINE n == Max(job[i].todo)
<1>1. job[i].pc = "forget" /\ UNCHANGED <<made, useless, objects, rotten>> /\ job[i].fresh = {}
  BY DEF PruneRecord, Shape
<1>2. ASSUME JobTyped', job'[i] = PrunedJob(i) PROVE Shape(i)' /\ ~Making(i)' /\ job'[i].seen = job[i].seen
  BY <1>1, <1>2, PrunedJobFacts DEF Shape, Making
<1>3. CASE job' = [job EXCEPT ![i] = PrunedJob(i)] /\ Fault /\ UNCHANGED recs
  <2>1. JobTyped' /\ Others(i) /\ job'[i] = PrunedJob(i)
    BY <1>3, JobSet, PrunedJobFacts
  <2> QED
    BY <1>1, <1>2, <1>3, <2>1, PassStepped, FaultCounts DEF Glob
<1>4. CASE recs' = Restrict(recs, DOMAIN recs \ {n}) /\ Written(i, n, PrunedJob(i)) /\ UNCHANGED failures
  <2>1. /\ JobTyped' /\ job'[i] = PrunedJob(i)
        /\ \A j \in Instances \ {i} :
             /\ job'[j].pc = job[j].pc /\ job'[j].name = job[j].name /\ job'[j].seen = job[j].seen
             /\ job'[j].fresh = job[j].fresh \ {n} /\ job'[j].todo = job[j].todo
             /\ job'[j].result = job[j].result /\ job'[j].since = job[j].since
    BY <1>4, WrittenEffect, PrunedJobFacts
  <2>2. Shape(i)' /\ ~Making(i)' /\ job'[i].seen = job[i].seen
    BY <1>2, <2>1
  <2>3. DOMAIN recs' = DOMAIN recs \ {n} /\ \A m \in DOMAIN recs' : recs'[m] = recs[m]
    BY <1>4 DEF Restrict
  <2>4. recs' \in Lists
    <3>1. IsList(recs)
      BY ListFacts DEF Glob
    <3>2. recs' = [m \in DOMAIN recs' |-> recs'[m]]
      BY <1>4 DEF Restrict
    <3>3. IsList(recs')
      BY <2>3, <3>1, <3>2 DEF IsList
    <3> QED
      BY <3>3, ListFacts
  <2>5. Glob'
    BY <1>1, <1>4, <2>3, <2>4 DEF Glob
  <2>6. \A j \in Instances \ {i} : job'[j].fresh \subseteq job[j].fresh /\ job'[j].fresh \subseteq DOMAIN recs'
    BY <2>1, <2>3 DEF Shape
  <2>7. Quiet(i)
    BY <1>1, <2>1, <2>2, <2>3, <2>6 DEF Quiet
  <2> QED
    BY <2>1, <2>2, <2>5, <2>7 DEF Stepped
<1> QED
  BY <1>3, <1>4 DEF PruneRecord, PrunedJob

\* Listing and deleting orphans.
LEMMA OrphanStepped == ASSUME Static, NEW i \in Instances, ListOrphans(i) \/ DeleteOrphan(i) PROVE Stepped(i)
<1> USE DEF Static
<1>1. UNCHANGED <<made, useless, rotten, recs>> /\ failures' \in Nat
  BY FaultCounts DEF ListOrphans, DeleteOrphan, Glob
<1>2. DOMAIN objects' \subseteq DOMAIN objects /\ \A m \in DOMAIN objects' : objects'[m] = objects[m]
  BY DeletedObject DEF ListOrphans, DeleteOrphan
<1>3. CASE EndJob(i)
  BY <1>1, <1>2, <1>3, EndStepped
<1>4. ASSUME NEW S \in SUBSET (1 .. made), job[i].fresh = {},
             \/ job' = [job EXCEPT ![i].pc = "orphans", ![i].todo = S]
             \/ job' = [job EXCEPT ![i].todo = S] /\ job[i].pc = "orphans"
      PROVE  Stepped(i)
  <2>1. S \in SUBSET Names /\ "orphans" \in Steps
    BY HalfFacts DEF Glob, Names, Steps
  <2>2. /\ JobTyped' /\ Others(i)
        /\ job'[i].pc = "orphans" /\ job'[i].todo = S /\ job'[i].seen = job[i].seen
        /\ job'[i].fresh = job[i].fresh
    BY <1>4, <2>1 DEF JobTyped, Job, Others
  <2>3. Shape(i)' /\ ~Making(i)'
    BY <1>1, <1>4, <2>2 DEF Shape, Making
  <2> QED
    BY <1>1, <1>2, <2>2, <2>3, PassStepped
<1>5. CASE ListOrphans(i) /\ ~EndJob(i)
  <2>1. job[i].pc = "prune" /\ job' = [job EXCEPT ![i].pc = "orphans", ![i].todo = Orphans(i)]
    BY <1>5 DEF ListOrphans
  <2>2. Orphans(i) \in SUBSET (1 .. made) /\ job[i].fresh = {}
    BY <2>1 DEF Orphans, Glob, Shape
  <2> QED
    BY <1>4, <2>1, <2>2
<1>6. CASE DeleteOrphan(i) /\ ~EndJob(i)
  <2>1. job[i].pc = "orphans" /\ job' = [job EXCEPT ![i].todo = @ \ {Min(job[i].todo)}]
    BY <1>6 DEF DeleteOrphan
  <2>2. job[i].todo \ {Min(job[i].todo)} \in SUBSET (1 .. made) /\ job[i].fresh = {}
    BY <2>1 DEF Shape
  <2>3. job' = [job EXCEPT ![i].todo = job[i].todo \ {Min(job[i].todo)}]
    BY <2>1 DEF JobTyped, Job
  <2> QED
    BY <1>4, <2>1, <2>2, <2>3
<1> QED
  BY <1>3, <1>5, <1>6

\* Starting a verification.
LEMMA VerifyStepped == ASSUME Static, NEW i \in Instances, StartVerify(i) PROVE Stepped(i)
<1> USE DEF Static
<1>1. /\ JobTyped' /\ Others(i) /\ job[i].pc = "idle"
      /\ job'[i].pc = "check" /\ job'[i].seen = recs /\ job'[i].fresh = DOMAIN recs
      /\ job'[i].todo = Usable(recs) /\ job'[i].since = job[i].since
  BY VerifyEffect DEF Glob
<1>2. UNCHANGED <<made, useless, objects, rotten, recs, failures>>
  BY DEF StartVerify
<1>3. Glob'
  BY <1>2 DEF Glob
<1>4. Shape(i)'
  BY <1>1, <1>2, UsableNames DEF Shape, Making, Glob
<1>5. Quiet(i)
  BY <1>1, <1>2, QuietOthers DEF Quiet, Making
<1> QED
  BY <1>1, <1>3, <1>4, <1>5 DEF Stepped

\* What a job found of a record it lists as usable.
LEMMA FoundStepped ==
    ASSUME Static, NEW i \in Instances, job[i].pc = "check", NEW n \in Usable(job[i].seen), NEW c \in Results,
           job' = [job EXCEPT ![i].pc = "mark", ![i].name = n, ![i].result = c],
           UNCHANGED <<made, useless, objects, rotten, recs, failures>>
    PROVE  Stepped(i)
<1> USE DEF Static
<1>1. n \in Names
  BY UsableNames DEF JobTyped, Job
<1>2. /\ JobTyped' /\ Others(i)
      /\ job'[i].pc = "mark" /\ job'[i].name = n /\ job'[i].result = c /\ job'[i].seen = job[i].seen
      /\ job'[i].fresh = job[i].fresh /\ job'[i].todo = job[i].todo /\ job'[i].since = job[i].since
  BY <1>1, FoundEffect
<1>3. Shape(i)' /\ ~Making(i)'
  BY <1>2 DEF Shape, Making
<1> QED
  BY <1>2, <1>3, PassStepped DEF Glob

\* The next record to check, and the one to restore.
LEMMA NextToCheck ==
    ASSUME Static, NEW i \in Instances, job[i].pc = "check"
    PROVE  /\ job[i].todo # {} => Max(job[i].todo) \in job[i].todo /\ Max(job[i].todo) \in Usable(job[i].seen)
           /\ Usable(job[i].seen) # {} => Max(Usable(job[i].seen)) \in Usable(job[i].seen)
<1>1. job[i].todo \subseteq Names /\ Usable(job[i].seen) \subseteq Names /\ job[i].todo \subseteq Usable(job[i].seen)
  BY UsableNames DEF Static, JobTyped, Job, Shape
<1> QED
  BY <1>1, NameMax

\* Checking a stored object.
LEMMA CheckStepped == ASSUME Static, NEW i \in Instances, CheckStored(i) PROVE Stepped(i)
<1> USE DEF Static
<1>1. job[i].pc = "check" /\ job[i].todo # {} /\ UNCHANGED <<made, useless, objects, rotten, recs>>
  BY DEF CheckStored
<1>2. CASE job' = [job EXCEPT ![i].todo = @ \ {Max(job[i].todo)}] /\ Fault
  <2>1. /\ JobTyped' /\ Others(i)
        /\ job'[i].pc = "check" /\ job'[i].seen = job[i].seen /\ job'[i].todo = job[i].todo \ {Max(job[i].todo)}
        /\ job'[i].fresh = job[i].fresh
    BY <1>1, <1>2 DEF JobTyped, Job, Others
  <2>2. Shape(i)' /\ ~Making(i)'
    BY <1>1, <2>1 DEF Shape, Making
  <2> QED
    BY <1>1, <1>2, <2>1, <2>2, PassStepped, FaultCounts DEF Glob
<1>3. CASE ~(job' = [job EXCEPT ![i].todo = @ \ {Max(job[i].todo)}] /\ Fault)
  <2>1. PICK c \in Results : job' = [job EXCEPT ![i].pc = "mark", ![i].name = Max(job[i].todo), ![i].result = c]
    BY <1>3 DEF CheckStored, Results
  <2>2. UNCHANGED failures
    BY <1>3 DEF CheckStored
  <2> QED
    BY <1>1, <2>1, <2>2, NextToCheck, FoundStepped
<1> QED
  BY <1>2, <1>3

\* Restoring the newest backup for a trial.
LEMMA DeepStepped == ASSUME Static, NEW i \in Instances, DeepVerify(i) PROVE Stepped(i)
<1> USE DEF Static
<1>1. job[i].pc = "check" /\ UNCHANGED <<made, useless, objects, rotten, recs>>
  BY DEF DeepVerify
<1>2. CASE EndJob(i)
  BY <1>1, <1>2, EndStepped, FaultCounts DEF DeepVerify, Glob
<1>3. CASE ~EndJob(i)
  <2>1. Usable(job[i].seen) # {} /\ UNCHANGED failures
    BY <1>3 DEF DeepVerify
  <2>2. PICK c \in Results :
            job' = [job EXCEPT ![i].pc = "mark", ![i].name = Max(Usable(job[i].seen)), ![i].result = c]
    BY <1>3 DEF DeepVerify, Results
  <2> QED
    BY <1>1, <2>1, <2>2, NextToCheck, FoundStepped
<1> QED
  BY <1>2, <1>3

\* The job after Mark.
MarkedJob(i) ==
    IF job[i].name \notin job[i].todo THEN NoJob
    ELSE [job[i] EXCEPT !.seen[job[i].name] = NewStatus(i, job[i].name), !.todo = @ \ {job[i].name},
                        !.name = NoName, !.result = "", !.pc = "check"]

\* The job after a record was marked.
LEMMA MarkedJobFacts ==
    ASSUME Static, NEW i \in Instances, job[i].pc = "mark"
    PROVE  /\ NewStatus(i, job[i].name) \in Statuses /\ MarkedJob(i) \in Job
           /\ job[i].name \in job[i].todo =>
                /\ MarkedJob(i).pc = "check" /\ MarkedJob(i).todo = job[i].todo \ {job[i].name}
                /\ MarkedJob(i).fresh = job[i].fresh /\ MarkedJob(i).since = job[i].since
                /\ MarkedJob(i).seen = [job[i].seen EXCEPT ![job[i].name] = NewStatus(i, job[i].name)]
<1> DEFINE n == job[i].name
           st == NewStatus(i, n)
<1>1. job[i] \in Job /\ job[i].seen \in Lists /\ n \in DOMAIN job[i].seen
  BY DEF Static, JobTyped, Job, Shape, Usable
<1>2. IsList(job[i].seen)
  BY <1>1, ListFacts
<1>3. st \in Statuses
  BY <1>1, <1>2 DEF NewStatus, IsList, Statuses
<1> HIDE DEF st
<1>4. [job[i].seen EXCEPT ![n] = st] \in Lists
  <2> DEFINE g == [job[i].seen EXCEPT ![n] = st]
  <2>1. DOMAIN g = DOMAIN job[i].seen /\ \A m \in DOMAIN g : g[m] = IF m = n THEN st ELSE job[i].seen[m]
    BY <1>2 DEF IsList
  <2>2. g = [m \in DOMAIN g |-> g[m]]
    BY <1>2 DEF IsList
  <2>3. IsList(g)
    BY <1>2, <1>3, <2>1, <2>2 DEF IsList
  <2> QED
    BY <2>3, ListFacts
<1>5. CASE n \notin job[i].todo
  BY <1>3, <1>5, NoJobTyped DEF MarkedJob, st
<1>6. CASE n \in job[i].todo
  <2>1. MarkedJob(i) = [job[i] EXCEPT !.seen[n] = st, !.todo = job[i].todo \ {n},
                        !.name = NoName, !.result = "", !.pc = "check"]
    BY <1>1, <1>6 DEF MarkedJob, Job, st
  <2>2. MarkedJob(i) = [job[i] EXCEPT !.seen = [job[i].seen EXCEPT ![n] = st], !.todo = job[i].todo \ {n},
                        !.name = NoName, !.result = "", !.pc = "check"]
    BY <1>1, <2>1 DEF Job
  <2>3. NoName \in Nat /\ "" \in Results /\ "check" \in Steps
    BY DEF NoName, Results, Steps
  <2>4. MarkedJob(i) \in Job
    BY <1>1, <1>4, <2>2, <2>3 DEF Job
  <2>5. /\ MarkedJob(i).pc = "check" /\ MarkedJob(i).todo = job[i].todo \ {job[i].name}
        /\ MarkedJob(i).fresh = job[i].fresh /\ MarkedJob(i).since = job[i].since
        /\ MarkedJob(i).seen = [job[i].seen EXCEPT ![n] = st]
    BY <1>1, <2>2 DEF Job
  <2> QED
    BY <1>3, <2>4, <2>5 DEF st
<1> QED
  BY <1>5, <1>6

\* saveRecord is refused, or fails.
Unsaved(i) == Others(i) /\ recs' = recs

\* saveRecord succeeds: the other jobs' revision of the record is outdated.
Saved(i) ==
    /\ job[i].name \in job[i].fresh
    /\ DOMAIN recs' = DOMAIN recs
    /\ \A m \in DOMAIN recs : recs'[m] = IF m = job[i].name THEN NewStatus(i, job[i].name) ELSE recs[m]
    /\ \A j \in Instances \ {i} :
        /\ job'[j].pc = job[j].pc /\ job'[j].name = job[j].name /\ job'[j].seen = job[j].seen
        /\ job'[j].fresh = job[j].fresh \ {job[i].name} /\ job'[j].todo = job[j].todo
        /\ job'[j].result = job[j].result /\ job'[j].since = job[j].since

\* saveRecord writes the record or finds that another instance did.
LEMMA MarkEffect ==
    ASSUME Static, NEW i \in Instances, Mark(i)
    PROVE  /\ job[i].pc = "mark" /\ JobTyped' /\ job'[i] = MarkedJob(i) /\ recs' \in Lists
           /\ UNCHANGED <<made, useless, objects, rotten>> /\ failures' \in Nat
           /\ Unsaved(i) \/ Saved(i)
<1> DEFINE n == job[i].name
<1>1. job[i].pc = "mark" /\ UNCHANGED <<made, useless, objects, rotten>>
  BY DEF Mark
<1>2. MarkedJob(i) \in Job /\ NewStatus(i, n) \in Statuses
  BY <1>1, MarkedJobFacts
<1>3. failures' \in Nat
  BY FaultCounts DEF Mark, Static, Glob
<1>4. \/ job' = [job EXCEPT ![i] = MarkedJob(i)] /\ recs' = recs
      \/ Save(i, n) /\ recs' = [recs EXCEPT ![n] = NewStatus(i, n)] /\ Written(i, n, MarkedJob(i))
  BY DEF Mark, MarkedJob
<1>5. CASE job' = [job EXCEPT ![i] = MarkedJob(i)] /\ recs' = recs
  BY <1>1, <1>2, <1>3, <1>5, JobSet DEF Static, Glob, Unsaved
<1>6. CASE Save(i, n) /\ recs' = [recs EXCEPT ![n] = NewStatus(i, n)] /\ Written(i, n, MarkedJob(i))
  <2>1. IsList(recs)
    BY ListFacts DEF Static, Glob
  <2>2. DOMAIN recs' = DOMAIN recs /\ \A m \in DOMAIN recs : recs'[m] = IF m = n THEN NewStatus(i, n) ELSE recs[m]
    BY <1>6, <2>1 DEF IsList
  <2>3. recs' = [m \in DOMAIN recs' |-> recs'[m]]
    BY <1>6, <2>1 DEF IsList
  <2>4. IsList(recs')
    BY <1>2, <2>1, <2>2, <2>3 DEF IsList
  <2>5. recs' \in Lists
    BY <2>4, ListFacts
  <2>6. JobTyped
    BY DEF Static
  <2>7. JobTyped' /\ job'[i] = MarkedJob(i) /\ Saved(i)
    BY <1>2, <1>6, <2>2, <2>6, WrittenEffect DEF Saved, Save
  <2> QED
    BY <1>1, <1>3, <2>5, <2>7
<1> QED
  BY <1>4, <1>5, <1>6

\* Marking a record.
LEMMA MarkStepped == ASSUME Static, NEW i \in Instances, Mark(i) PROVE Stepped(i)
<1> USE DEF Static
<1>1. /\ job[i].pc = "mark" /\ JobTyped' /\ job'[i] = MarkedJob(i) /\ recs' \in Lists
      /\ UNCHANGED <<made, useless, objects, rotten>> /\ failures' \in Nat
      /\ Unsaved(i) \/ Saved(i)
  BY MarkEffect
<1>2. DOMAIN recs' = DOMAIN recs
  BY <1>1 DEF Unsaved, Saved
<1>3. Glob'
  BY <1>1, <1>2 DEF Glob
<1>4. Shape(i)' /\ ~Making(i)' /\ DOMAIN job'[i].seen \subseteq DOMAIN job[i].seen
  <2>1. CASE job[i].name \notin job[i].todo
    <3>1. job'[i] = NoJob
      BY <1>1, <2>1 DEF MarkedJob
    <3> QED
      BY <3>1, EndShape
  <2>2. CASE job[i].name \in job[i].todo
    <3>1. /\ job'[i].pc = "check" /\ job'[i].todo = job[i].todo \ {job[i].name} /\ job'[i].fresh = job[i].fresh
          /\ job'[i].seen = [job[i].seen EXCEPT ![job[i].name] = NewStatus(i, job[i].name)]
      BY <1>1, <2>2, MarkedJobFacts
    <3>2. /\ DOMAIN job'[i].seen = DOMAIN job[i].seen
          /\ \A m \in DOMAIN job[i].seen \ {job[i].name} : job'[i].seen[m] = job[i].seen[m]
      BY <3>1
    <3>3. job'[i].todo \subseteq Usable(job'[i].seen)
      BY <1>1, <3>1, <3>2 DEF Shape, Usable
    <3> QED
      BY <1>1, <1>2, <3>1, <3>2, <3>3 DEF Shape, Making
  <2> QED
    BY <2>1, <2>2
<1>5. Quiet(i)
  <2>1. CASE Unsaved(i)
    BY <1>1, <1>2, <1>4, <2>1, QuietOthers DEF Unsaved, Quiet
  <2>2. CASE Saved(i)
    <3>1. \A j \in Instances \ {i} : job'[j].fresh \subseteq job[j].fresh /\ job'[j].fresh \subseteq DOMAIN recs'
      BY <1>2, <2>2 DEF Saved, Shape
    <3> QED
      BY <1>1, <1>2, <1>4, <2>2, <3>1 DEF Saved, Quiet
  <2> QED
    BY <1>1, <2>1, <2>2
<1> QED
  BY <1>1, <1>3, <1>4, <1>5 DEF Stepped

\* A crash of an instance.
LEMMA CrashStepped == ASSUME Static, NEW i \in Instances, Crash(i) PROVE Stepped(i)
BY EndStepped, FaultCounts DEF Crash, EndJob, Static, Glob

\* Every step of an instance.
LEMMA StepStepped == ASSUME Static, NEW i \in Instances, StepOf(i) PROVE Stepped(i)
BY CreateStepped, VerifyStepped, PutStepped, RecordStepped, ListStepped, PruneObjectStepped, PruneRecordStepped,
   OrphanStepped, CheckStepped, DeepStepped, MarkStepped, CrashStepped DEF StepOf, Step

\* Time passes for the objects.
LEMMA TickObjects ==
    ASSUME Glob, Tick
    PROVE  /\ DOMAIN objects' = DOMAIN objects
           /\ \A n \in DOMAIN objects : /\ objects'[n] = Older(objects[n], OrphanGrace + 1)
                                        /\ objects'[n] \in 0 .. OrphanGrace + 1
<1>1. \A a \in 0 .. OrphanGrace + 1 : Older(a, OrphanGrace + 1) \in 0 .. OrphanGrace + 1
  BY HalfFacts DEF Older
<1>2. DOMAIN objects' = DOMAIN objects /\ \A n \in DOMAIN objects : objects'[n] = Older(objects[n], OrphanGrace + 1)
  BY DEF Tick
<1> QED
  BY <1>1, <1>2 DEF Glob

\* Static is inductive.
LEMMA StaticStep == ASSUME Static, [Next]_vars PROVE Static'
<1> USE DEF Static
<1>1. ASSUME NEW i \in Instances, StepOf(i) PROVE Static'
  BY <1>1, StepStepped, QuietKeeps DEF Stepped
<1>2. CASE Tick
  <2>1. UNCHANGED <<made, useless, rotten, recs, failures>>
    BY <1>2 DEF Tick
  <2>2. Glob'
    BY <1>2, <2>1, TickObjects DEF Glob
  <2>3. JobTyped' /\ DOMAIN objects' = DOMAIN objects
    BY <1>2, TickEffect, TickObjects
  <2>4. ASSUME NEW i \in Instances PROVE Shape(i)'
    BY <1>2, <2>1, <2>3, TickEffect DEF Shape, Making
  <2>5. ASSUME NEW i \in Instances, NEW j \in Instances PROVE Own(i, j)'
    BY <1>2, TickEffect DEF Own, Making
  <2> QED
    BY <2>2, <2>3, <2>4, <2>5
<1>3. ASSUME NEW n \in Names, Rot(n) PROVE Static'
  <2>1. UNCHANGED <<made, useless, objects, recs, job>> /\ rotten' \subseteq rotten \cup DOMAIN objects /\ failures' \in Nat
    BY <1>3, FaultCounts DEF Rot, Glob
  <2> QED
    BY <2>1 DEF Glob, JobTyped, Shape, Own, Making
<1>4. CASE UNCHANGED vars
  BY <1>4 DEF vars, Glob, JobTyped, Shape, Own, Making
<1> QED
  BY <1>1, <1>2, <1>3, <1>4 DEF Next, StepOf

\* Static holds initially.
LEMMA StaticInit == Init => Static
<1> SUFFICES ASSUME Init PROVE Static
  OBVIOUS
<1>1. JobTyped /\ \A i \in Instances : job[i] = NoJob
  BY NoJobTyped DEF Init, JobTyped
<1>2. DOMAIN recs = {} /\ recs \in Lists
  BY NothingListed DEF Init
<1>3. DOMAIN objects = {}
  BY DEF Init
<1>4. Glob
  BY <1>2, <1>3, HalfFacts DEF Init, Glob
<1>5. ASSUME NEW i \in Instances
      PROVE  /\ job[i].pc = "idle" /\ job[i].fresh = {} /\ job[i].todo = {} /\ job[i].since = 0
             /\ DOMAIN job[i].seen = {}
  BY <1>1, NoJobFacts
<1>6. ASSUME NEW i \in Instances PROVE Shape(i)
  BY <1>5 DEF Shape, Making
<1>7. ASSUME NEW i \in Instances, NEW j \in Instances PROVE Own(i, j)
  BY <1>5 DEF Own, Making
<1> QED
  BY <1>1, <1>4, <1>6, <1>7 DEF Static

(***************************************************************************)
(* A bad record stays bad                                                  *)
(***************************************************************************)
\* A record that nobody else wrote is bad only if the job knows it.
FreshInv == \A i \in Instances : \A n \in job[i].fresh : recs[n] = "bad" => job[i].seen[n] = "bad"

\* Only Mark changes the status of a record.
LEMMA StatusKept ==
    ASSUME Static, NEW i \in Instances, StepOf(i), ~Mark(i), NEW n \in DOMAIN recs, n \in DOMAIN recs'
    PROVE  recs'[n] = recs[n]
<1>1. CASE recs' = recs
  BY <1>1
<1>2. CASE Record(i)
  <2>1. job[i].name \notin DOMAIN recs
    BY <1>2 DEF Record, Static, Shape, Making
  <2> QED
    BY <1>2, <2>1 DEF Record
<1>3. CASE PruneRecord(i)
  BY <1>3 DEF PruneRecord, Restrict
<1> QED
  BY <1>1, <1>2, <1>3 DEF StepOf, Step, CreateBackup, StartVerify, Crash, Put, ListToPrune, PruneObject, ListOrphans,
     DeleteOrphan, CheckStored, DeepVerify

\* The record that Mark writes was not bad.
LEMMA MarksUsable ==
    ASSUME Static, FreshInv, NEW i \in Instances, job[i].pc = "mark", job[i].name \in job[i].fresh
    PROVE  recs[job[i].name] # "bad"
BY DEF Static, Shape, FreshInv, Usable

\* Checking changes neither the list the verifier works from nor its revisions.
LEMMA VerifierEffect ==
    ASSUME Static, NEW i \in Instances, CheckStored(i) \/ DeepVerify(i)
    PROVE  job'[i] = NoJob \/ (job'[i].seen = job[i].seen /\ job'[i].fresh = job[i].fresh)
<1>1. CASE EndJob(i)
  BY <1>1, EndEffect DEF Static
<1>2. CASE ~EndJob(i)
  BY <1>2 DEF CheckStored, DeepVerify, Static, JobTyped, Job
<1> QED
  BY <1>1, <1>2

\* A current revision goes on to tell whether the record is bad.
LEMMA FreshStep == ASSUME Static, FreshInv, [Next]_vars PROVE FreshInv'
<1>1. ASSUME NEW i \in Instances, StepOf(i) PROVE FreshInv'
  <2>1. Quiet(i) /\ Shape(i)' /\ JobTyped'
    BY <1>1, StepStepped DEF Stepped
  <2>2. ASSUME NEW j \in Instances \ {i}, NEW n \in job'[j].fresh PROVE recs'[n] = "bad" => job'[j].seen[n] = "bad"
    <3>1. n \in job[j].fresh /\ n \in DOMAIN recs /\ n \in DOMAIN recs' /\ job'[j].seen = job[j].seen
      BY <2>1, <2>2 DEF Quiet, Static, Shape
    <3>2. CASE recs'[n] = recs[n]
      BY <3>1, <3>2 DEF FreshInv
    <3>3. CASE Mark(i)
      <4>1. Unsaved(i) \/ Saved(i)
        BY <3>3, MarkEffect
      <4>2. CASE Saved(i)
        <5>1. n # job[i].name
          BY <2>2, <4>2 DEF Saved
        <5> QED
          BY <3>1, <3>2, <4>2, <5>1 DEF Saved
      <4> QED
        BY <3>2, <4>1, <4>2 DEF Unsaved
    <3> QED
      BY <1>1, <3>1, <3>2, <3>3, StatusKept
  <2>3. ASSUME NEW n \in job'[i].fresh PROVE recs'[n] = "bad" => job'[i].seen[n] = "bad"
    <3>1. job'[i].pc \in {"check", "mark"}
      BY <2>1, <2>3 DEF Shape
    <3>2. CASE StartVerify(i)
      <4>1. job'[i].seen = recs /\ recs' = recs
        BY <3>2, VerifyEffect DEF StartVerify, Static, Glob
      <4> QED
        BY <4>1
    <3>3. CASE CheckStored(i) \/ DeepVerify(i)
      <4>1. job'[i].seen = job[i].seen /\ job'[i].fresh = job[i].fresh
        BY <3>1, <3>3, VerifierEffect, NoJobFacts
      <4>2. recs' = recs
        BY <3>3 DEF CheckStored, DeepVerify
      <4> QED
        BY <2>3, <4>1, <4>2 DEF FreshInv
    <3>4. CASE Mark(i)
      <4>1. job[i].pc = "mark" /\ job'[i] = MarkedJob(i) /\ (Unsaved(i) \/ Saved(i))
        BY <3>4, MarkEffect
      <4>2. job[i].name \in job[i].todo
        BY <3>1, <4>1, NoJobFacts DEF MarkedJob
      <4>3. /\ job'[i].fresh = job[i].fresh
            /\ job'[i].seen = [job[i].seen EXCEPT ![job[i].name] = NewStatus(i, job[i].name)]
        BY <4>1, <4>2, MarkedJobFacts
      <4>4. n \in job[i].fresh /\ n \in DOMAIN job[i].seen /\ n \in DOMAIN recs
        BY <2>3, <4>3 DEF Static, Shape
      <4>5. job'[i].seen[n] = IF n = job[i].name THEN NewStatus(i, job[i].name) ELSE job[i].seen[n]
        BY <4>3, <4>4
      <4>6. CASE n = job[i].name /\ Unsaved(i)
        BY <4>1, <4>4, <4>6, MarksUsable DEF Unsaved
      <4>7. CASE n = job[i].name /\ Saved(i)
        BY <4>4, <4>5, <4>7 DEF Saved
      <4>8. CASE n # job[i].name
        BY <4>1, <4>4, <4>5, <4>8 DEF Unsaved, Saved, FreshInv
      <4> QED
        BY <4>1, <4>6, <4>7, <4>8
    <3>5. CASE EndJob(i)
      <4>1. job'[i] = NoJob
        BY <3>5, EndEffect DEF Static
      <4> QED
        BY <3>1, <4>1, NoJobFacts
    <3>6. CASE CreateBackup(i) \/ Put(i) \/ Record(i) \/ ListToPrune(i) \/ PruneObject(i) \/ PruneRecord(i)
               \/ ListOrphans(i) \/ DeleteOrphan(i) \/ Crash(i)
      <4>1. job[i].pc \notin {"check", "mark"} \/ Crash(i)
        BY <3>6 DEF CreateBackup, Put, Record, ListToPrune, PruneObject, PruneRecord, ListOrphans, DeleteOrphan
      <4>2. CASE Crash(i)
        BY <3>5, <4>2 DEF Crash, EndJob
      <4>3. CASE job'[i].pc = job[i].pc
        BY <3>1, <3>5, <4>1, <4>2, <4>3
      <4>4. CASE ~Crash(i) /\ ~EndJob(i) /\ job'[i].pc # job[i].pc
        <5>1. JobTyped /\ \A c : Uploaded(i, c) => job'[i].pc = "record"
          BY DEF Uploaded, Static, JobTyped, Job
        <5>2. Record(i) => job'[i].pc = "list"
          <6>1. Record(i) => job' = [job EXCEPT ![i] = [NoJob EXCEPT !.pc = "list"]]
            BY <4>4 DEF Record
          <6>2. [NoJob EXCEPT !.pc = "list"].pc = "list"
            BY DEF NoJob
          <6> QED
            BY <5>1, <6>1, <6>2 DEF JobTyped
        <5>3. PruneRecord(i) => job'[i].pc = "prune"
          <6>1. PruneRecord(i) => (job' = [job EXCEPT ![i] = PrunedJob(i)] \/ Written(i, Max(job[i].todo), PrunedJob(i)))
            BY DEF PruneRecord, PrunedJob
          <6>2. PruneRecord(i) => job'[i] = PrunedJob(i)
            BY <5>1, <6>1 DEF Written, JobTyped
          <6> QED
            BY <6>2, PrunedJobFacts
        <5>4. CreateBackup(i) \/ ListToPrune(i) \/ PruneObject(i) \/ ListOrphans(i) \/ DeleteOrphan(i) =>
                job'[i].pc \in {"put", "prune", "forget", "orphans"}
          BY <4>4, <5>1 DEF CreateBackup, ListToPrune, PruneObject, ListOrphans, DeleteOrphan, Goto, JobTyped, Job
        <5> QED
          BY <3>1, <3>6, <4>4, <5>1, <5>2, <5>3, <5>4 DEF Put
      <4> QED
        BY <3>5, <4>2, <4>3, <4>4
    <3> QED
      BY <1>1, <3>2, <3>3, <3>4, <3>6 DEF StepOf, Step
  <2> QED
    BY <2>2, <2>3 DEF FreshInv
<1>2. CASE Tick
  <2>1. recs' = recs
    BY <1>2 DEF Tick
  <2> QED
    BY <1>2, <2>1, TickEffect DEF FreshInv, Static
<1>3. CASE UNCHANGED <<recs, job>>
  BY <1>3 DEF FreshInv
<1> QED
  BY <1>1, <1>2, <1>3 DEF Next, StepOf, Rot, vars

\* The step of BadStaysBad.
LEMMA BadStep ==
    ASSUME Static, FreshInv, [Next]_vars, NEW n \in DOMAIN recs, recs[n] = "bad", n \in DOMAIN recs'
    PROVE  recs'[n] = "bad"
<1>1. ASSUME NEW i \in Instances, StepOf(i) PROVE recs'[n] = "bad"
  <2>1. CASE Mark(i)
    <3>1. job[i].pc = "mark" /\ (Unsaved(i) \/ Saved(i))
      BY <2>1, MarkEffect
    <3>2. Saved(i) => n # job[i].name
      BY <3>1, MarksUsable DEF Saved
    <3> QED
      BY <3>1, <3>2 DEF Unsaved, Saved
  <2> QED
    BY <1>1, <2>1, StatusKept
<1>2. CASE UNCHANGED recs
  BY <1>2
<1> QED
  BY <1>1, <1>2 DEF Next, StepOf, Tick, Rot, vars

(***************************************************************************)
(* What a step of a job comes to                                           *)
(***************************************************************************)
Outcome(i) ==
    \/ job'[i].pc \in {"idle", "put", "list"} /\ DOMAIN job'[i].seen = {}
    \/ /\ job[i].pc = "put" /\ job'[i].pc = "record" /\ job'[i].since = 0 /\ DOMAIN job'[i].seen = {}
       /\ job'[i].name \in DOMAIN objects' /\ objects'[job'[i].name] = 0
    \/ /\ job[i].pc = "list" /\ job'[i].pc = "prune" /\ UNCHANGED <<recs, objects>>
       /\ job'[i].seen = recs /\ job'[i].todo = DOMAIN recs \ Kept(recs)
    \/ /\ job[i].pc \in {"prune", "forget"} /\ job'[i].pc \in {"prune", "forget"}
       /\ job'[i].seen = job[i].seen /\ job'[i].todo \subseteq job[i].todo /\ job'[i].since = job[i].since
    \/ /\ job[i].pc = "prune" /\ job'[i].pc = "orphans" /\ UNCHANGED <<recs, objects>>
       /\ job'[i].seen = job[i].seen /\ job'[i].todo = Orphans(i)
    \/ /\ job[i].pc = "orphans" /\ job'[i].pc = "orphans"
       /\ job'[i].seen = job[i].seen /\ job'[i].todo \subseteq job[i].todo
    \/ job'[i].pc = "check" /\ job'[i].seen = recs /\ UNCHANGED <<recs, objects>>
    \/ job'[i].pc = "check" /\ job'[i].seen = job[i].seen /\ UNCHANGED <<recs, objects>>
    \/ /\ job'[i].pc = "mark" /\ job'[i].seen = job[i].seen /\ UNCHANGED <<recs, objects>>
       /\ job'[i].result = "damaged" => ~Intact(job'[i].name) \/ job'[i].name \in useless
    \/ /\ job[i].pc = "mark" /\ job'[i].pc = "check" /\ Mark(i)
       /\ job'[i].seen = [job[i].seen EXCEPT ![job[i].name] = NewStatus(i, job[i].name)]

\* What a step of an instance can do to objects, records and its job.
LEMMA Outcomes == ASSUME Static, NEW i \in Instances, StepOf(i) PROVE Outcome(i)
<1>0. JobTyped /\ Glob /\ Shape(i)
  BY DEF Static
<1>1. CASE EndJob(i)
  <2>1. job'[i] = NoJob
    BY <1>0, <1>1, EndEffect
  <2> QED
    BY <2>1, NoJobFacts DEF Outcome
<1>2. CASE CreateBackup(i)
  <2>1. job[i].pc = "idle" /\ job'[i].pc = "put" /\ job'[i].seen = job[i].seen
    BY <1>0, <1>2, CreateEffect DEF Glob
  <2> QED
    BY <1>0, <2>1 DEF Outcome, Shape
<1>3. CASE Put(i) /\ ~EndJob(i)
  <2>1. PICK c \in {"intact", "damaged"} : Uploaded(i, c)
    BY <1>3 DEF Put
  <2>2. job'[i].pc = "record" /\ job'[i].since = 0 /\ job'[i].name = job[i].name /\ job'[i].seen = job[i].seen
    BY <1>0, <2>1, UploadedEffect
  <2>3. job[i].pc = "put" /\ job[i].name \in DOMAIN objects' /\ objects'[job[i].name] = 0
    BY <1>3 DEF Put
  <2> QED
    BY <1>0, <2>2, <2>3 DEF Outcome, Shape
<1>4. CASE Record(i) /\ ~EndJob(i)
  <2>1. job' = [job EXCEPT ![i] = [NoJob EXCEPT !.pc = "list"]]
    BY <1>4 DEF Record
  <2>2. job'[i] = [NoJob EXCEPT !.pc = "list"]
    BY <1>0, <2>1 DEF JobTyped
  <2>3. job'[i].pc = "list"
    BY <2>2 DEF NoJob
  <2>4. DOMAIN job'[i].seen = {}
    BY <2>2, EndShape
  <2> QED
    BY <2>3, <2>4 DEF Outcome
<1>5. CASE ListToPrune(i) /\ ~EndJob(i)
  <2>1. job' = [job EXCEPT ![i].pc = "prune", ![i].seen = recs, ![i].todo = DOMAIN recs \ Kept(recs)]
        /\ UNCHANGED <<recs, objects>> /\ job[i].pc = "list"
    BY <1>5 DEF ListToPrune
  <2>2. job'[i].pc = "prune" /\ job'[i].seen = recs /\ job'[i].todo = DOMAIN recs \ Kept(recs)
    BY <1>0, <2>1 DEF JobTyped, Job
  <2> QED
    BY <2>1, <2>2 DEF Outcome
<1>6. CASE PruneObject(i)
  <2>1. job[i].pc = "prune"
        /\ (job' = [job EXCEPT ![i].pc = "forget"] \/ job' = [job EXCEPT ![i].todo = @ \ {Max(job[i].todo)}])
    BY <1>6 DEF PruneObject, Goto
  <2>2. /\ job'[i].pc \in {"prune", "forget"} /\ job'[i].seen = job[i].seen /\ job'[i].todo \subseteq job[i].todo
        /\ job'[i].since = job[i].since
    BY <1>0, <2>1 DEF JobTyped, Job
  <2> QED
    BY <2>1, <2>2 DEF Outcome
<1>7. CASE PruneRecord(i)
  <2>1. job' = [job EXCEPT ![i] = PrunedJob(i)] \/ Written(i, Max(job[i].todo), PrunedJob(i))
    BY <1>7 DEF PruneRecord, PrunedJob
  <2>2. job'[i] = PrunedJob(i) /\ job[i].pc = "forget"
    BY <1>0, <1>7, <2>1 DEF Written, JobTyped, PruneRecord
  <2> QED
    BY <2>2, PrunedJobFacts DEF Outcome
<1>8. CASE ListOrphans(i) /\ ~EndJob(i)
  <2>1. job' = [job EXCEPT ![i].pc = "orphans", ![i].todo = Orphans(i)] /\ UNCHANGED <<recs, objects>> /\ job[i].pc = "prune"
    BY <1>8 DEF ListOrphans
  <2>2. job'[i].pc = "orphans" /\ job'[i].seen = job[i].seen /\ job'[i].todo = Orphans(i)
    BY <1>0, <2>1 DEF JobTyped, Job
  <2> QED
    BY <2>1, <2>2 DEF Outcome
<1>9. CASE DeleteOrphan(i) /\ ~EndJob(i)
  <2>1. job' = [job EXCEPT ![i].todo = @ \ {Min(job[i].todo)}] /\ job[i].pc = "orphans"
    BY <1>9 DEF DeleteOrphan
  <2>2. job'[i].pc = "orphans" /\ job'[i].seen = job[i].seen /\ job'[i].todo \subseteq job[i].todo
    BY <1>0, <2>1 DEF JobTyped, Job
  <2> QED
    BY <2>1, <2>2 DEF Outcome
<1>10. CASE StartVerify(i)
  <2>1. job'[i].pc = "check" /\ job'[i].seen = recs
    BY <1>0, <1>10, VerifyEffect DEF Glob
  <2> QED
    BY <1>10, <2>1 DEF Outcome, StartVerify
<1>11. ASSUME NEW n, NEW c, job' = [job EXCEPT ![i].pc = "mark", ![i].name = n, ![i].result = c],
              UNCHANGED <<recs, objects>>, c = "damaged" => ~Intact(n) \/ n \in useless
       PROVE  Outcome(i)
  <2>1. job'[i].pc = "mark" /\ job'[i].seen = job[i].seen /\ job'[i].name = n /\ job'[i].result = c
    BY <1>0, <1>11 DEF JobTyped, Job
  <2> QED
    BY <1>11, <2>1 DEF Outcome
<1>12. CASE CheckStored(i)
  <2>1. CASE job' = [job EXCEPT ![i].todo = @ \ {Max(job[i].todo)}]
    <3>1. job'[i].pc = "check" /\ job'[i].seen = job[i].seen
      BY <1>0, <1>12, <2>1 DEF CheckStored, JobTyped, Job
    <3> QED
      BY <1>12, <3>1 DEF Outcome, CheckStored
  <2>2. CASE job' = [job EXCEPT ![i].pc = "mark", ![i].name = Max(job[i].todo),
                        ![i].result = IF Intact(Max(job[i].todo)) THEN "intact" ELSE "damaged"]
    <3> DEFINE n == Max(job[i].todo)
               c == IF Intact(n) THEN "intact" ELSE "damaged"
    <3>1. UNCHANGED <<recs, objects>>
      BY <1>12 DEF CheckStored
    <3>2. c = "damaged" => ~Intact(n) \/ n \in useless
      OBVIOUS
    <3>3. job' = [job EXCEPT ![i].pc = "mark", ![i].name = n, ![i].result = c]
      BY <2>2
    <3> HIDE DEF n, c
    <3> QED
      BY <1>11, <3>1, <3>2, <3>3
  <2> QED
    BY <1>12, <2>1, <2>2 DEF CheckStored
<1>13. CASE DeepVerify(i) /\ ~EndJob(i)
  <2> DEFINE n == Max(Usable(job[i].seen))
             c == IF Intact(n) /\ n \notin useless THEN "verified" ELSE "damaged"
  <2>1. UNCHANGED <<recs, objects>>
    BY <1>13 DEF DeepVerify
  <2>2. c = "damaged" => ~Intact(n) \/ n \in useless
    OBVIOUS
  <2>3. job' = [job EXCEPT ![i].pc = "mark", ![i].name = n, ![i].result = c]
    BY <1>13 DEF DeepVerify
  <2> HIDE DEF n, c
  <2> QED
    BY <1>11, <2>1, <2>2, <2>3
<1>14. CASE Mark(i)
  <2>1. job[i].pc = "mark" /\ job'[i] = MarkedJob(i)
    BY <1>14, MarkEffect
  <2>2. CASE job[i].name \notin job[i].todo
    BY <2>1, <2>2, NoJobFacts DEF MarkedJob, Outcome
  <2>3. CASE job[i].name \in job[i].todo
    BY <1>14, <2>1, <2>3, MarkedJobFacts DEF Outcome
  <2> QED
    BY <2>2, <2>3
<1>15. CASE Crash(i)
  BY <1>1, <1>15 DEF Crash, EndJob
<1> QED
  BY <1>1, <1>2, <1>3, <1>4, <1>5, <1>6, <1>7, <1>8, <1>9, <1>10, <1>12, <1>13, <1>14, <1>15 DEF StepOf, Step

\* The objects that a step of job i deletes.
LEMMA Deletes ==
    ASSUME Static, NEW i \in Instances, StepOf(i), NEW n \in DOMAIN objects \ DOMAIN objects'
    PROVE  \/ job[i].pc = "record" /\ n = job[i].name
           \/ job[i].pc \in {"prune", "orphans"} /\ n \in job[i].todo
<1>1. CASE Record(i)
  <2>1. DeleteObject(job[i].name) \/ UNCHANGED objects
    BY <1>1 DEF Record
  <2>2. n = job[i].name
    BY <2>1, DeletedObject
  <2> QED
    BY <1>1, <2>2 DEF Record
<1>2. CASE PruneObject(i)
  <2>1. n = Max(job[i].todo) /\ job[i].pc = "prune" /\ job[i].todo # {}
    BY <1>2, DeletedObject DEF PruneObject
  <2>2. job[i].todo \subseteq Names
    BY DEF Static, JobTyped, Job
  <2> QED
    BY <2>1, <2>2, NameMax
<1>3. CASE DeleteOrphan(i)
  <2>1. n = Min(job[i].todo) /\ job[i].pc = "orphans" /\ job[i].todo # {}
    BY <1>3, DeletedObject DEF DeleteOrphan
  <2>2. job[i].todo \subseteq Names
    BY DEF Static, JobTyped, Job
  <2> QED
    BY <2>1, <2>2, NameMin
<1>4. CASE Put(i)
  BY <1>4 DEF Put
<1> QED
  BY <1>1, <1>2, <1>3, <1>4 DEF StepOf, Step, CreateBackup, StartVerify, Crash, ListToPrune, PruneRecord, ListOrphans,
     CheckStored, DeepVerify, Mark

(***************************************************************************)
(* Orphans                                                                 *)
(***************************************************************************)
\* With timely jobs: an object on its way into the records is stored and
\* younger than half the grace, one recorded after the list was read is younger
\* than the age of the list and half the grace, and what is to be deleted as an
\* orphan is not recorded and will not be.
Age(i) ==
    /\ job[i].pc = "record" => job[i].name \in DOMAIN objects /\ objects[job[i].name] <= job[i].since
    /\ job[i].pc \in {"prune", "forget"} =>
        \A n \in (DOMAIN objects \cap DOMAIN recs) \ DOMAIN job[i].seen : objects[n] <= job[i].since + HalfGrace
    /\ job[i].pc = "orphans" =>
        \A n \in job[i].todo : n \notin DOMAIN recs /\ \A j \in Instances : Making(j) => job[j].name # n

TimeInv == \A i \in Instances : Age(i)

\* Ages are numbers, and a job's age is at most half the grace.
LEMMA Ages ==
    ASSUME Static, NEW i \in Instances, NEW n \in DOMAIN objects
    PROVE  objects[n] \in Int /\ job[i].since \in Int /\ 0 <= job[i].since /\ job[i].since <= HalfGrace
BY HalfFacts DEF Static, Glob, JobTyped, Job

\* The step of job i and job j.
LEMMA TimeOther ==
    ASSUME Static, TimeInv, NEW i \in Instances, StepOf(i), NEW j \in Instances \ {i}
    PROVE  Age(j)'
<1>1. Quiet(i) /\ Age(i) /\ Age(j) /\ Shape(i) /\ Shape(j) /\ Own(i, j) /\ Own(j, i)
  BY StepStepped DEF Stepped, TimeInv, Static
<1>2. /\ job'[j].pc = job[j].pc /\ job'[j].name = job[j].name /\ job'[j].seen = job[j].seen
      /\ job'[j].todo = job[j].todo /\ job'[j].since = job[j].since
  BY <1>1 DEF Quiet
<1>3. ASSUME job[j].pc = "record"
      PROVE  job[j].name \in DOMAIN objects' /\ objects'[job[j].name] <= job[j].since
  <2>1. job[j].name \in DOMAIN objects /\ objects[job[j].name] <= job[j].since
    BY <1>1, <1>3 DEF Age
  <2>2. ~(job[i].pc = "record" /\ job[j].name = job[i].name)
    BY <1>1, <1>3 DEF Own, Making
  <2>3. ~(job[i].pc \in {"prune", "orphans"} /\ job[j].name \in job[i].todo)
    BY <1>1, <1>3 DEF Own, Making, Shape, Age
  <2>4. job[j].name \in DOMAIN objects'
    BY <2>1, <2>2, <2>3, Deletes
  <2> QED
    BY <1>1, <2>1, <2>4 DEF Quiet
<1>4. ASSUME job[j].pc \in {"prune", "forget"}, NEW n \in (DOMAIN objects' \cap DOMAIN recs') \ DOMAIN job[j].seen
      PROVE  objects'[n] <= job[j].since + HalfGrace
  <2>1. CASE n \in DOMAIN recs
    <3>1. n \in DOMAIN objects
      BY <1>1, <2>1 DEF Quiet, Shape, Making
    <3> QED
      BY <1>1, <1>4, <2>1, <3>1 DEF Quiet, Age
  <2>2. CASE n \notin DOMAIN recs
    <3>1. job[i].pc = "record" /\ n = job[i].name
      BY <1>1, <2>2 DEF Quiet
    <3>2. n \in DOMAIN objects /\ objects[n] <= job[i].since
      BY <1>1, <3>1 DEF Age
    <3>3. objects'[n] = objects[n]
      BY <1>1, <3>2 DEF Quiet
    <3>4. objects[n] \in Int /\ job[i].since \in Int /\ job[i].since <= HalfGrace /\ job[j].since \in Int /\ 0 <= job[j].since
      BY <3>2, Ages
    <3> QED
      BY <3>2, <3>3, <3>4, HalfFacts
  <2> QED
    BY <2>1, <2>2
<1>5. ASSUME job[j].pc = "orphans", NEW n \in job[j].todo
      PROVE  n \notin DOMAIN recs' /\ \A m \in Instances : Making(m)' => job'[m].name # n
  <2>1. n \notin DOMAIN recs /\ (\A m \in Instances : Making(m) => job[m].name # n)
    BY <1>1, <1>5 DEF Age
  <2>2. n \notin DOMAIN recs'
    BY <1>1, <2>1 DEF Quiet, Making
  <2>3. n \in 1 .. made /\ made + 1 \notin 1 .. made
    BY <1>1, <1>5, HalfFacts DEF Shape, Static, Glob
  <2>4. Making(i)' => job'[i].name # n
    BY <1>1, <2>1, <2>3 DEF Quiet
  <2>5. ASSUME NEW m \in Instances \ {i} PROVE Making(m)' => job'[m].name # n
    BY <1>1, <2>1 DEF Quiet, Making
  <2> QED
    BY <2>2, <2>4, <2>5
<1> QED
  BY <1>2, <1>3, <1>4, <1>5 DEF Age

\* The instance's own step keeps the ages of what it holds.
LEMMA TimeOwn ==
    ASSUME Static, TimeInv, NEW i \in Instances, StepOf(i)
    PROVE  Age(i)'
<1>0. Quiet(i) /\ Age(i) /\ Outcome(i) /\ Shape(i) /\ Shape(i)'
  BY StepStepped, Outcomes DEF Stepped, TimeInv, Static
<1>1. CASE job'[i].pc = "record"
  <2>1. job'[i].name \in DOMAIN objects' /\ objects'[job'[i].name] = 0 /\ job'[i].since = 0
    BY <1>0, <1>1 DEF Outcome
  <2> QED
    BY <1>1, <2>1 DEF Age
<1>2. CASE job'[i].pc \in {"prune", "forget"}
  <2>1. CASE job'[i].seen = recs /\ recs' = recs
    BY <1>2, <2>1 DEF Age
  <2>2. CASE job[i].pc \in {"prune", "forget"} /\ job'[i].seen = job[i].seen /\ job'[i].since = job[i].since
    <3>1. ASSUME NEW n \in (DOMAIN objects' \cap DOMAIN recs') \ DOMAIN job[i].seen
          PROVE  objects'[n] <= job[i].since + HalfGrace
      <4>1. n \in DOMAIN recs /\ n \in DOMAIN objects /\ objects'[n] = objects[n]
        BY <1>0, <2>2 DEF Quiet
      <4> QED
        BY <1>0, <2>2, <4>1 DEF Age
    <3> QED
      BY <1>2, <2>2, <3>1 DEF Age
  <2> QED
    BY <1>0, <1>2, <2>1, <2>2 DEF Outcome
<1>3. CASE job'[i].pc = "orphans"
  <2>1. ASSUME NEW m \in Instances PROVE Making(m)' => (Making(m) /\ job'[m].name = job[m].name)
    <3>1. CASE m = i
      BY <1>3, <3>1 DEF Making
    <3>2. CASE m # i
      BY <1>0, <3>2 DEF Quiet, Making
    <3> QED
      BY <3>1, <3>2
  <2>2. CASE job[i].pc = "orphans" /\ job'[i].todo \subseteq job[i].todo
    <3>1. DOMAIN recs' \subseteq DOMAIN recs
      BY <1>0, <2>2 DEF Quiet
    <3> QED
      BY <1>0, <1>3, <2>1, <2>2, <3>1 DEF Age
  <2>3. CASE job[i].pc = "prune" /\ job'[i].todo = Orphans(i) /\ UNCHANGED <<recs, objects>>
    <3>1. ASSUME NEW n \in Orphans(i) PROVE n \notin DOMAIN recs /\ \A m \in Instances : Making(m) => job[m].name # n
      <4>1. n \in DOMAIN objects /\ n \notin DOMAIN job[i].seen /\ objects[n] > OrphanGrace
        BY <3>1 DEF Orphans
      <4>2. objects[n] \in Int /\ \A m \in Instances : job[m].since \in Int /\ 0 <= job[m].since /\ job[m].since <= HalfGrace
        BY <4>1, Ages
      <4>3. n \notin DOMAIN recs
        <5>1. ~(objects[n] <= job[i].since + HalfGrace)
          BY <4>1, <4>2, HalfFacts
        <5> QED
          BY <1>0, <2>3, <4>1, <5>1 DEF Age
      <4>4. ASSUME NEW m \in Instances, Making(m) PROVE job[m].name # n
        <5>1. ~(objects[n] <= job[m].since)
          BY <4>1, <4>2, HalfFacts
        <5>2. Age(m) /\ Shape(m)
          BY DEF TimeInv, Static
        <5> QED
          BY <4>1, <4>4, <5>1, <5>2 DEF Age, Shape, Making
      <4> QED
        BY <4>3, <4>4
    <3> QED
      BY <1>3, <2>1, <2>3, <3>1 DEF Age
  <2> QED
    BY <1>0, <1>3, <2>2, <2>3 DEF Outcome
<1> QED
  BY <1>1, <1>2, <1>3 DEF Age

\* Objects that are recorded, or will be, stay younger than the grace when
\* listed.
LEMMA TimeStep == ASSUME Timely, Static, TimeInv, [Next]_vars PROVE TimeInv'
<1>1. ASSUME NEW i \in Instances, StepOf(i) PROVE TimeInv'
  BY <1>1, TimeOther, TimeOwn DEF TimeInv
<1>2. CASE Tick
  <2> SUFFICES ASSUME NEW i \in Instances PROVE Age(i)'
    BY DEF TimeInv
  <2>1. recs' = recs /\ ~Overdue /\ Glob /\ JobTyped /\ Age(i)
    BY <1>2 DEF Tick, Static, TimeInv
  <2>2. /\ \A j \in Instances : job'[j].pc = job[j].pc /\ job'[j].name = job[j].name
        /\ job'[i].seen = job[i].seen /\ job'[i].todo = job[i].todo
        /\ job[i].pc \in {"record", "prune", "forget"} => job'[i].since = Older(job[i].since, HalfGrace)
    BY <1>2, <2>1, TickEffect
  <2>3. job[i].pc \in {"record", "prune", "forget"} => job'[i].since = job[i].since + 1 /\ job[i].since \in Int
    <3>1. job[i].since \in Int
      BY <2>1 DEF JobTyped, Job
    <3>2. job[i].pc \in {"record", "prune", "forget"} => job[i].since < HalfGrace
      BY <2>1, <3>1, HalfFacts DEF Overdue
    <3> QED
      BY <2>2, <3>1, <3>2 DEF Older
  <2>4. DOMAIN objects' = DOMAIN objects
        /\ \A n \in DOMAIN objects : objects[n] \in Int /\ objects'[n] \in Int /\ objects'[n] <= objects[n] + 1
    <3>1. \A a \in 0 .. OrphanGrace + 1 : Older(a, OrphanGrace + 1) <= a + 1 /\ Older(a, OrphanGrace + 1) \in Int
      BY HalfFacts DEF Older
    <3>2. \A n \in DOMAIN objects : objects[n] \in 0 .. OrphanGrace + 1
      BY <2>1 DEF Glob
    <3> QED
      BY <1>2, <2>1, <3>1, <3>2, TickObjects
  <2>5. ASSUME NEW a \in Int, NEW b \in Int, NEW c \in Int, a <= b, c <= a + 1 PROVE c <= b + 1
    BY <2>5
  <2>6. job[i].pc = "record" => job[i].name \in DOMAIN objects' /\ objects'[job[i].name] <= job[i].since + 1
    BY <2>1, <2>3, <2>4, <2>5 DEF Age
  <2>7. job[i].pc \in {"prune", "forget"} =>
          \A n \in (DOMAIN objects' \cap DOMAIN recs') \ DOMAIN job[i].seen : objects'[n] <= job[i].since + 1 + HalfGrace
    <3> SUFFICES ASSUME job[i].pc \in {"prune", "forget"}, NEW n \in (DOMAIN objects' \cap DOMAIN recs') \ DOMAIN job[i].seen
                 PROVE  objects'[n] <= job[i].since + 1 + HalfGrace
      OBVIOUS
    <3>1. objects[n] <= job[i].since + HalfGrace
      BY <2>1, <2>4 DEF Age
    <3> QED
      BY <2>3, <2>4, <3>1, HalfFacts
  <2> QED
    BY <2>1, <2>2, <2>3, <2>6, <2>7 DEF Age, Making
<1>3. CASE UNCHANGED <<objects, recs, job>>
  BY <1>3 DEF TimeInv, Age, Making
<1> QED
  BY <1>1, <1>2, <1>3 DEF Next, StepOf, Rot, vars

(***************************************************************************)
(* There is a backup to recover from                                       *)
(***************************************************************************)
\* The newest record.
Top(n) == n \in DOMAIN recs /\ \A m \in DOMAIN recs : m <= n

\* No job prunes it or holds it for bad.
Spares(i, n) ==
    /\ job[i].pc \in {"prune", "forget"} => n \notin job[i].todo
    /\ n \in DOMAIN job[i].seen => job[i].seen[n] # "bad"
    /\ job[i].pc = "mark" /\ job[i].name = n => job[i].result # "damaged"

\* As long as nothing is useless or rotten, the newest record is usable and its
\* object stored, and no list has a newer one.
TopInv ==
    useless \cup rotten = {} =>
        /\ \A n \in Names : Top(n) => (recs[n] # "bad" /\ n \in DOMAIN objects /\ \A i \in Instances : Spares(i, n))
        /\ \A i \in Instances : \A m \in DOMAIN job[i].seen : \E n \in DOMAIN recs : m <= n

\* Prune keeps the newest usable record.
LEMMA KeepsTop ==
    ASSUME recs \in Lists, NEW n \in Names, Top(n), recs[n] # "bad"
    PROVE  n \in Kept(recs)
<1>1. n \in Usable(recs) /\ Usable(recs) \subseteq DOMAIN recs /\ DOMAIN recs \subseteq Names
  BY UsableNames DEF Top, Usable
<1>2. {m \in Usable(recs) : m > n} = {}
  BY <1>1, HalfFacts DEF Top
<1>3. Cardinality({m \in Usable(recs) : m > n}) = 0
  BY <1>2, FS_EmptySet
<1>4. Retention \in Nat \ {0}
  BY BackupsAssumption
<1>5. n \in Newest(Retention, Usable(recs))
  BY <1>1, <1>3, <1>4 DEF Newest
<1> QED
  BY <1>5 DEF Kept

\* The records that a step of job i deletes.
LEMMA Forgets ==
    ASSUME Static, NEW i \in Instances, StepOf(i), NEW n \in DOMAIN recs \ DOMAIN recs'
    PROVE  job[i].pc = "forget" /\ n \in job[i].todo
<1>1. CASE PruneRecord(i)
  <2>1. n = Max(job[i].todo) /\ job[i].pc = "forget"
    BY <1>1 DEF PruneRecord, Restrict
  <2>2. job[i].todo \subseteq Names /\ job[i].todo # {}
    BY <2>1 DEF Static, JobTyped, Job, Shape
  <2> QED
    BY <2>1, <2>2, NameMax
<1>2. CASE Mark(i)
  BY <1>2, MarkEffect DEF Unsaved, Saved
<1>3. CASE Record(i)
  BY <1>3 DEF Record
<1> QED
  BY <1>1, <1>2, <1>3 DEF StepOf, Step, CreateBackup, StartVerify, Crash, Put, ListToPrune, PruneObject, ListOrphans,
     DeleteOrphan, CheckStored, DeepVerify

Undamaged == useless \cup rotten = {}

\* There is a newest record and it is not deleted.
LEMMA TopStays ==
    ASSUME Static, TopInv, Undamaged, NEW i \in Instances, StepOf(i), DOMAIN recs # {}
    PROVE  \E n \in Names : Top(n) /\ n \in DOMAIN recs'
<1>1. DOMAIN recs \subseteq Names
  BY UsableNames DEF Static, Glob
<1>2. PICK n \in Names : Top(n)
  BY <1>1, NameMax DEF Top
<1>3. n \in DOMAIN recs'
  BY <1>2, Forgets DEF Top, TopInv, Undamaged, Spares
<1> QED
  BY <1>2, <1>3

\* The newest record after the step was that before, or is new.
LEMMA TopFrom ==
    ASSUME Static, TopInv, Undamaged, NEW i \in Instances, StepOf(i), NEW n \in Names, Top(n)'
    PROVE  Top(n) \/ (job[i].pc = "record" /\ n = job[i].name /\ n \notin DOMAIN recs)
<1>1. CASE n \in DOMAIN recs
  <2>1. PICK m \in Names : Top(m) /\ m \in DOMAIN recs'
    BY <1>1, TopStays
  <2>2. n <= m /\ m <= n
    BY <1>1, <2>1 DEF Top
  <2>3. n = m
    BY <2>2, HalfFacts
  <2> QED
    BY <2>1, <2>3
<1>2. CASE n \notin DOMAIN recs
  <2>1. n \in DOMAIN recs' /\ Quiet(i)
    BY StepStepped DEF Top, Stepped
  <2> QED
    BY <1>2, <2>1 DEF Quiet
<1> QED
  BY <1>1, <1>2

\* A step of job i spares the newest record.
LEMMA TopSpared ==
    ASSUME Static, TimeInv, TopInv, Undamaged, NEW i \in Instances, StepOf(i), NEW n \in Names, Top(n), n \in DOMAIN recs'
    PROVE  recs'[n] # "bad" /\ n \in DOMAIN objects' /\ \A j \in Instances : Spares(j, n)'
<1>1. recs[n] # "bad" /\ n \in DOMAIN objects /\ n \in DOMAIN recs /\ \A j \in Instances : Spares(j, n)
  BY DEF TopInv, Undamaged, Top
<1>2. Quiet(i) /\ Outcome(i) /\ Shape(i) /\ Shape(i)' /\ Age(i)
  BY StepStepped, Outcomes DEF Stepped, Static, TimeInv
<1>3. ASSUME Mark(i), n = job[i].name PROVE NewStatus(i, n) # "bad"
  <2>1. job[i].pc = "mark" /\ job[i].result # "damaged" /\ job[i].seen[n] # "bad"
    BY <1>1, <1>2, <1>3 DEF Mark, Spares, Shape, Usable
  <2> QED
    BY <2>1 DEF NewStatus
<1>4. recs'[n] # "bad"
  <2>1. CASE Mark(i)
    <3>1. Unsaved(i) \/ Saved(i)
      BY <2>1, MarkEffect
    <3> QED
      BY <1>1, <1>3, <2>1, <3>1 DEF Unsaved, Saved
  <2>2. CASE ~Mark(i)
    BY <1>1, <2>2, StatusKept
  <2> QED
    BY <2>1, <2>2
<1>5. n \in DOMAIN objects'
  <2>1. ~(job[i].pc = "record" /\ n = job[i].name)
    BY <1>1, <1>2 DEF Shape, Making
  <2>2. ~(job[i].pc \in {"prune", "orphans"} /\ n \in job[i].todo)
    BY <1>1, <1>2 DEF Spares, Age
  <2> QED
    BY <1>1, <2>1, <2>2, Deletes
<1>6. ASSUME NEW j \in Instances \ {i} PROVE Spares(j, n)'
  BY <1>1, <1>2 DEF Quiet, Spares
<1>7. Spares(i, n)'
  <2>1. job'[i].pc \in {"prune", "forget"} => n \notin job'[i].todo
    <3>1. n \in Kept(recs)
      BY <1>1, KeepsTop DEF Static, Glob
    <3> QED
      BY <1>1, <1>2, <3>1 DEF Outcome, Spares
  <2>2. n \in DOMAIN job'[i].seen => job'[i].seen[n] # "bad"
    <3>1. CASE job'[i].seen = recs \/ job'[i].seen = job[i].seen \/ DOMAIN job'[i].seen = {}
      BY <1>1, <3>1 DEF Spares
    <3>2. CASE Mark(i) /\ job'[i].seen = [job[i].seen EXCEPT ![job[i].name] = NewStatus(i, job[i].name)]
      BY <1>1, <1>3, <3>2 DEF Spares
    <3> QED
      BY <1>2, <3>1, <3>2 DEF Outcome
  <2>3. job'[i].pc = "mark" /\ job'[i].name = n => job'[i].result # "damaged"
    <3>1. Intact(n) /\ n \notin useless
      BY <1>1 DEF Intact, Undamaged
    <3> QED
      BY <1>2, <3>1 DEF Outcome
  <2> QED
    BY <2>1, <2>2, <2>3 DEF Spares
<1> QED
  BY <1>4, <1>5, <1>6, <1>7

\* A new record is spared by all jobs, which do not know it.
LEMMA NewSpared ==
    ASSUME Static, TimeInv, NEW i \in Instances, StepOf(i), job[i].pc = "record",
           NEW n, n = job[i].name, n \in DOMAIN recs'
    PROVE  recs'[n] # "bad" /\ n \in DOMAIN objects' /\ \A j \in Instances : Spares(j, n)'
<1>1. Static' /\ Quiet(i) /\ Outcome(i) /\ Age(i) /\ Shape(i)
  BY StepStepped, Outcomes, QuietKeeps DEF Stepped, Static, TimeInv
<1>2. n \notin DOMAIN recs /\ n \in DOMAIN objects
  BY <1>1 DEF Shape, Making, Age
<1>3. Record(i)
  BY <1>2, Forgets DEF StepOf, Step, CreateBackup, StartVerify, Crash, Put, ListToPrune, PruneObject, PruneRecord,
     ListOrphans, DeleteOrphan, CheckStored, DeepVerify, Mark
<1>4. UNCHANGED objects /\ recs'[n] = "uploaded"
  BY <1>2, <1>3 DEF Record
<1>5. ASSUME NEW j \in Instances PROVE n \notin DOMAIN job'[j].seen
  <2>1. Making(i) /\ Own(i, j)
    BY DEF Making, Static
  <2>2. CASE j = i
    BY <1>1, <1>2, <2>2 DEF Outcome, Shape
  <2>3. CASE j # i
    BY <1>1, <2>1, <2>3 DEF Quiet, Own
  <2> QED
    BY <2>2, <2>3
<1>6. ASSUME NEW j \in Instances PROVE Spares(j, n)'
  <2>1. Shape(j)'
    BY <1>1 DEF Static
  <2> QED
    BY <1>5, <2>1 DEF Shape, Spares, Usable
<1> QED
  BY <1>2, <1>4, <1>6

\* The newest record stays beyond what any instance prunes, condemns or
\* deletes.
LEMMA TopStep == ASSUME Static, TimeInv, TopInv, [Next]_vars PROVE TopInv'
<1>1. ASSUME NEW i \in Instances, StepOf(i) PROVE TopInv'
  <2> SUFFICES ASSUME Undamaged'
               PROVE  /\ \A n \in Names : Top(n)' => (recs'[n] # "bad" /\ n \in DOMAIN objects' /\ \A j \in Instances : Spares(j, n)')
                      /\ \A j \in Instances : \A m \in DOMAIN job'[j].seen : \E n \in DOMAIN recs' : m <= n
    BY DEF TopInv, Undamaged
  <2>1. Undamaged /\ Quiet(i)
    BY <1>1, StepStepped DEF Stepped, Quiet, Undamaged
  <2>2. ASSUME NEW n \in Names, Top(n)'
        PROVE  recs'[n] # "bad" /\ n \in DOMAIN objects' /\ \A j \in Instances : Spares(j, n)'
    <3>1. n \in DOMAIN recs'
      BY <2>2 DEF Top
    <3>2. Top(n) \/ (job[i].pc = "record" /\ n = job[i].name /\ n \notin DOMAIN recs)
      BY <1>1, <2>1, <2>2, TopFrom
    <3> QED
      BY <1>1, <2>1, <3>1, <3>2, TopSpared, NewSpared
  <2>3. ASSUME NEW j \in Instances, NEW m \in DOMAIN job'[j].seen PROVE \E n \in DOMAIN recs' : m <= n
    <3>1. m \in DOMAIN job[j].seen \/ m \in DOMAIN recs
      BY <2>1, <2>3 DEF Quiet
    <3>2. m \in Nat
      BY <3>1, UsableNames, HalfFacts DEF Static, Glob, JobTyped, Job
    <3>3. PICK n \in DOMAIN recs : m <= n
      BY <2>1, <3>1, <3>2 DEF TopInv, Undamaged
    <3>4. PICK top \in Names : Top(top) /\ top \in DOMAIN recs'
      BY <1>1, <2>1, <3>3, TopStays
    <3>5. n \in Nat /\ top \in Nat /\ n <= top
      BY <3>3, <3>4, UsableNames, HalfFacts DEF Static, Glob, Top
    <3>6. m <= top
      BY <3>2, <3>3, <3>5
    <3> QED
      BY <3>4, <3>6
  <2> QED
    BY <2>2, <2>3
<1>2. CASE Tick
  <2>1. UNCHANGED <<useless, rotten, recs>> /\ DOMAIN objects' = DOMAIN objects
    BY <1>2, TickObjects DEF Tick, Static
  <2> QED
    BY <1>2, <2>1, TickEffect DEF TopInv, Top, Spares, Static
<1>3. ASSUME NEW n \in Names, Rot(n) PROVE TopInv'
  BY <1>3 DEF Rot, TopInv
<1>4. CASE UNCHANGED vars
  BY <1>4 DEF vars, TopInv, Top, Spares
<1> QED
  BY <1>1, <1>2, <1>3, <1>4 DEF Next, StepOf

(***************************************************************************)
(* The theorems                                                            *)
(***************************************************************************)
LEMMA StaticHolds == Spec => [](Static /\ FreshInv)
<1>1. Init => Static /\ FreshInv
  <2>1. Init => \A i \in Instances : job[i].fresh = {}
    BY NoJobFacts DEF Init
  <2> QED
    BY <2>1, StaticInit DEF FreshInv
<1>2. Static /\ FreshInv /\ [Next]_vars => (Static /\ FreshInv)'
  BY StaticStep, FreshStep
<1> QED
  BY <1>1, <1>2, PTL DEF Spec

\* Records and objects are of archives that were made, a job is at one of its
\* steps and holds revisions of records that exist.
THEOREM TypeCorrect == Spec => []TypeOK
<1>1. Static => TypeOK
  <2> SUFFICES ASSUME Static PROVE TypeOK
    OBVIOUS
  <2>1. Range(recs) \subseteq Statuses /\ Range(objects) \subseteq 0 .. OrphanGrace + 1
    BY ListFacts DEF Static, Glob, IsList, Range
  <2>2. ASSUME NEW i \in Instances
        PROVE  /\ job[i].pc \in Steps
               /\ job[i].todo \subseteq 1 .. made /\ job[i].fresh \subseteq DOMAIN recs
    BY DEF Static, Shape, JobTyped, Job
  <2> QED
    BY <2>1, <2>2 DEF Static, Glob, TypeOK, Steps
<1> QED
  BY <1>1, StaticHolds, PTL

\* saveRecord and checkStored: a record marked bad is never given another
\* status, whoever else verifies at the same time.
THEOREM BadIsFinal == Spec => BadStaysBad
<1>1. Static /\ FreshInv /\ [Next]_vars =>
        [\A n \in DOMAIN recs : recs[n] = "bad" /\ n \in DOMAIN recs' => recs'[n] = "bad"]_vars
  BY BadStep
<1> QED
  BY <1>1, StaticHolds, PTL DEF Spec, BadStaysBad

\* With Timely the invariants hold in every reachable state.
LEMMA TimeHolds == ASSUME Timely PROVE Spec => [](Static /\ TimeInv /\ TopInv)
<1>1. Init => TimeInv /\ TopInv
  <2> SUFFICES ASSUME Init PROVE TimeInv /\ TopInv
    OBVIOUS
  <2>1. \A i \in Instances : job[i].pc = "idle" /\ DOMAIN job[i].seen = {}
    BY NoJobFacts DEF Init
  <2>2. DOMAIN recs = {}
    BY NothingListed DEF Init
  <2> QED
    BY <2>1, <2>2 DEF TimeInv, Age, TopInv, Top
<1>2. Static /\ TimeInv /\ TopInv /\ [Next]_vars => (Static /\ TimeInv /\ TopInv)'
  BY StaticStep, TimeStep, TopStep
<1> QED
  BY <1>1, <1>2, StaticInit, PTL DEF Spec

\* handleOrphans: with uploads recorded and lists used within half the grace,
\* no object is deleted as an orphan that is recorded or about to be.
THEOREM NoOrphanInUse == ASSUME Timely PROVE Spec => OrphansOnly
<1>1. Static /\ TimeInv /\ TopInv /\ [Next]_vars =>
        [\A i \in Instances : \A n \in DOMAIN objects \ DOMAIN objects' :
            job[i].pc = "orphans" /\ n \in job[i].todo =>
                /\ n \notin DOMAIN recs
                /\ \A j \in Instances : ~(job[j].pc = "record" /\ job[j].name = n)]_vars
  BY DEF TimeInv, Age, Making
<1> QED
  BY <1>1, TimeHolds, PTL DEF Spec, OrphansOnly

\* Prune, handleOrphans and VerifyOnce of any instances at the same time: as
\* long as no archive is useless or rotten, the newest backup recorded can
\* always be recovered.
THEOREM Recoverable == ASSUME Timely PROVE Spec => []AlwaysRecoverable
<1>1. Static /\ TimeInv /\ TopInv => AlwaysRecoverable
  <2> SUFFICES ASSUME Static, TopInv, Undamaged, DOMAIN recs # {} PROVE \E n \in Usable(recs) : Intact(n)
    BY DEF AlwaysRecoverable, Undamaged
  <2>1. DOMAIN recs \subseteq Names
    BY UsableNames DEF Static, Glob
  <2>2. PICK n \in Names : Top(n)
    BY <2>1, NameMax DEF Top
  <2>3. n \in Usable(recs) /\ Intact(n)
    BY <2>2 DEF TopInv, Undamaged, Top, Usable, Intact
  <2> QED
    BY <2>3
<1> QED
  BY <1>1, TimeHolds, PTL
=============================================================================
