-------------------------- MODULE JobManager_proof --------------------------
(***************************************************************************)
(* Theorems about JobManager for every set of references, keys and         *)
(* requests and every bound.                                               *)
(***************************************************************************)
EXTENDS JobManager, TLAPS

----------------------------------------------------------------------------
(* Records and rows.                                                       *)

(* The ladder of classify ends in a kind for every outcome.                *)
LEMMA ClassifyKind ==
    ASSUME NEW stage, NEW code, NEW evidence, NEW ok
    PROVE  Classify(stage, code, evidence, ok) \in Kinds
  BY DEF Classify, EvidenceKind, Kinds

(* A new record has its kind and names no successor.                       *)
LEMMA RecordTyped ==
    ASSUME NEW kind \in RecordKinds
    PROVE  /\ Record(kind) \in RecordType
           /\ Record(kind).kind = kind /\ Record(kind).to = 0
  BY JobManagerAssumption DEF Record, RecordType

(* A new row of _create or _new_attempt.                                   *)
LEMMA FreshRowTyped ==
    ASSUME NEW r \in Ref, NEW k \in Key, NEW attempt \in Nat,
           NEW kind \in RecordKinds, boot \in Nat
    PROVE  LET new == NewRow(r, k, attempt, kind)
           IN  /\ new \in Row
               /\ new.ref = r /\ new.key = k /\ new.attempt = attempt
               /\ new.stage = "QUEUED" /\ new.rec = Record(kind)
  BY RecordTyped DEF NewRow, Row, Stages, LiveStages

(* What a rewrite of the table leaves alone in every row.                  *)
SameJobs(rows, new) ==
    /\ new \in Seq(Row) /\ Len(new) = Len(rows)
    /\ \A v \in 1..Len(rows) :
          /\ new[v].ref = rows[v].ref /\ new[v].key = rows[v].key
          /\ new[v].attempt = rows[v].attempt /\ new[v].boot = rows[v].boot

(* set_job: one stage changes.                                             *)
LEMMA StageRewrite ==
    ASSUME NEW rows \in Seq(Row), NEW u \in 1..Len(rows), NEW stage \in Stages
    PROVE  LET new == [rows EXCEPT ![u].stage = stage]
           IN  /\ SameJobs(rows, new)
               /\ \A v \in 1..Len(rows) :
                     /\ new[v].stage = IF v = u THEN stage ELSE rows[v].stage
                     /\ new[v].rec = rows[v].rec
<1> DEFINE row == [rows[u] EXCEPT !.stage = stage]
<1>1. rows[u] \in Row
  OBVIOUS
<1>2. /\ row \in Row /\ row.stage = stage /\ row.rec = rows[u].rec
      /\ row.ref = rows[u].ref /\ row.key = rows[u].key
      /\ row.attempt = rows[u].attempt /\ row.boot = rows[u].boot
  BY <1>1 DEF Row
<1>3. [rows EXCEPT ![u].stage = stage] = [rows EXCEPT ![u] = row]
  OBVIOUS
<1> HIDE DEF row
<1>4. QED
  BY <1>2, <1>3 DEF SameJobs

(* set_failure: one record changes.                                        *)
LEMMA RecRewrite ==
    ASSUME NEW rows \in Seq(Row), NEW u \in 1..Len(rows), NEW rec \in RecordType
    PROVE  LET new == [rows EXCEPT ![u].rec = rec]
           IN  /\ SameJobs(rows, new)
               /\ \A v \in 1..Len(rows) :
                     /\ new[v].rec = IF v = u THEN rec ELSE rows[v].rec
                     /\ new[v].stage = rows[v].stage
<1> DEFINE row == [rows[u] EXCEPT !.rec = rec]
<1>1. rows[u] \in Row
  OBVIOUS
<1>2. /\ row \in Row /\ row.rec = rec /\ row.stage = rows[u].stage
      /\ row.ref = rows[u].ref /\ row.key = rows[u].key
      /\ row.attempt = rows[u].attempt /\ row.boot = rows[u].boot
  BY <1>1 DEF Row
<1>3. [rows EXCEPT ![u].rec = rec] = [rows EXCEPT ![u] = row]
  OBVIOUS
<1> HIDE DEF row
<1>4. QED
  BY <1>2, <1>3 DEF SameJobs

(* The stamp of a successor.                                               *)
LEMMA ToRewrite ==
    ASSUME NEW rows \in Seq(Row), NEW u \in 1..Len(rows), NEW to \in 0..MaxJobs
    PROVE  LET new == [rows EXCEPT ![u].rec.to = to]
           IN  /\ SameJobs(rows, new)
               /\ \A v \in 1..Len(rows) :
                     /\ new[v].stage = rows[v].stage
                     /\ new[v].rec.kind = rows[v].rec.kind
                     /\ new[v].rec.to = IF v = u THEN to ELSE rows[v].rec.to
<1> DEFINE rec == [rows[u].rec EXCEPT !.to = to]
<1>1. rows[u] \in Row
  OBVIOUS
<1>2. /\ rec \in RecordType /\ rec.kind = rows[u].rec.kind
      /\ rec.to = to
  BY <1>1 DEF Row, RecordType
<1>3. [rows EXCEPT ![u].rec.to = to] = [rows EXCEPT ![u].rec = rec]
  OBVIOUS
<1> HIDE DEF rec
<1>4. QED
  BY <1>2, <1>3, RecRewrite

(* The stamp of a refusal.                                                 *)
LEMMA RefusedRewrite ==
    ASSUME NEW rows \in Seq(Row), NEW u \in 1..Len(rows)
    PROVE  LET new == [rows EXCEPT ![u].rec.refused = TRUE]
           IN  /\ SameJobs(rows, new)
               /\ \A v \in 1..Len(rows) :
                     /\ new[v].stage = rows[v].stage
                     /\ new[v].rec.kind = rows[v].rec.kind
                     /\ new[v].rec.to = rows[v].rec.to
<1> DEFINE rec == [rows[u].rec EXCEPT !.refused = TRUE]
<1>1. rows[u] \in Row
  OBVIOUS
<1>2. /\ rec \in RecordType /\ rec.kind = rows[u].rec.kind
      /\ rec.to = rows[u].rec.to
  BY <1>1 DEF Row, RecordType
<1>3. [rows EXCEPT ![u].rec.refused = TRUE] = [rows EXCEPT ![u].rec = rec]
  OBVIOUS
<1> HIDE DEF rec
<1>4. QED
  BY <1>2, <1>3, RecRewrite

(* Time passes a record's not_before.                                      *)
LEMMA DueRewrite ==
    ASSUME NEW rows \in Seq(Row), NEW u \in 1..Len(rows)
    PROVE  LET new == [rows EXCEPT ![u].rec.due = TRUE]
           IN  /\ SameJobs(rows, new)
               /\ \A v \in 1..Len(rows) :
                     /\ new[v].stage = rows[v].stage
                     /\ new[v].rec.kind = rows[v].rec.kind
                     /\ new[v].rec.to = rows[v].rec.to
<1> DEFINE rec == [rows[u].rec EXCEPT !.due = TRUE]
<1>1. rows[u] \in Row
  OBVIOUS
<1>2. /\ rec \in RecordType /\ rec.kind = rows[u].rec.kind
      /\ rec.to = rows[u].rec.to
  BY <1>1 DEF Row, RecordType
<1>3. [rows EXCEPT ![u].rec.due = TRUE] = [rows EXCEPT ![u].rec = rec]
  OBVIOUS
<1> HIDE DEF rec
<1>4. QED
  BY <1>2, <1>3, RecRewrite

(* A row is added.                                                         *)
LEMMA AppendTyped ==
    ASSUME NEW rows \in Seq(Row), NEW row \in Row
    PROVE  LET new == Append(rows, row)
           IN  /\ new \in Seq(Row) /\ Len(new) = Len(rows) + 1
               /\ new[Len(rows) + 1] = row
               /\ \A v \in 1..Len(rows) : new[v] = rows[v]
  OBVIOUS

----------------------------------------------------------------------------
(* Opening an attempt.                                                     *)

(* How _new_attempt leaves the table: the row it was called for is stamped *)
(* and a successor is appended, or it is refused; every stage is kept.     *)
Attempted(rows, u, attempt) ==
    \/ /\ Len(jobs') = Len(rows) + 1
       /\ Len(rows) < MaxJobs
       /\ jobs'[Len(rows) + 1] = NewRow(rows[u].ref, rows[u].key, attempt, "carried")
       /\ backends' = [backends EXCEPT ![Len(rows) + 1] = "new"]
       /\ \A v \in 1..Len(rows) :
             jobs'[v].rec.to = IF v = u THEN Len(rows) + 1 ELSE rows[v].rec.to
    \/ /\ Len(jobs') = Len(rows)
       /\ backends' = backends
       /\ \A v \in 1..Len(rows) : jobs'[v].rec.to = rows[v].rec.to

(* Opening the next attempt after a typed row keeps the types (_new_attempt).*)
LEMMA OpenAttemptTyped ==
    ASSUME TypeOK,
           NEW rows \in Seq(Row), Len(rows) = Len(jobs), NEW u \in 1..Len(rows),
           NEW attempt \in Nat, NEW sourced \in BOOLEAN,
           OpenAttempt(rows, u, attempt, sourced)
    PROVE  /\ jobs' \in Seq(Row) /\ Len(jobs') <= MaxJobs /\ Len(jobs') >= Len(rows)
           /\ aliases' \subseteq Uuid \X Ref
           /\ refState' \in [Ref -> RefStates]
           /\ backends' \in [Uuid -> BackendStates]
           /\ \A v \in 1..Len(rows) :
                 /\ jobs'[v].ref = rows[v].ref /\ jobs'[v].key = rows[v].key
                 /\ jobs'[v].attempt = rows[v].attempt /\ jobs'[v].boot = rows[v].boot
                 /\ jobs'[v].stage = rows[v].stage
                 /\ jobs'[v].rec.kind = rows[v].rec.kind
           /\ Attempted(rows, u, attempt)
<1> DEFINE new == Len(rows) + 1
           stamped == [rows EXCEPT ![u].rec.to = new]
           row == NewRow(rows[u].ref, rows[u].key, attempt, "carried")
<1>1. rows[u].ref \in Ref /\ rows[u].key \in Key
  <2>1. rows[u] \in Row
    OBVIOUS
  <2>2. QED
    BY <2>1 DEF Row
<1>2. row \in Row
  BY <1>1, FreshRowTyped DEF TypeOK, RecordKinds
<1>3. CASE sourced \/ rows[u].key \in sources
  <2>1. /\ HasRoom
        /\ jobs' = Append(stamped, row)
        /\ backends' = [backends EXCEPT ![new] = "new"]
        /\ aliases' = aliases \cup {<<new, r>> : r \in RefsOf(u) \ {rows[u].ref}}
        /\ refState' = [refState EXCEPT ![rows[u].ref] = "QUEUED"]
    BY <1>3 DEF OpenAttempt, CarriedAliases
  <2>2. Len(rows) < MaxJobs /\ new \in 0..MaxJobs /\ new \in Uuid
    BY <2>1, JobManagerAssumption DEF HasRoom, Uuid
  <2>3. /\ stamped \in Seq(Row) /\ Len(stamped) = Len(rows)
        /\ \A v \in 1..Len(rows) :
              /\ stamped[v].ref = rows[v].ref /\ stamped[v].key = rows[v].key
              /\ stamped[v].attempt = rows[v].attempt
              /\ stamped[v].boot = rows[v].boot
              /\ stamped[v].stage = rows[v].stage
              /\ stamped[v].rec.kind = rows[v].rec.kind
              /\ stamped[v].rec.to = IF v = u THEN new ELSE rows[v].rec.to
    BY <2>2, ToRewrite DEF SameJobs
  <2> HIDE DEF stamped, row
  <2>4. /\ jobs' \in Seq(Row) /\ Len(jobs') = new /\ jobs'[new] = row
        /\ \A v \in 1..Len(rows) : jobs'[v] = stamped[v]
    <3>1. new = Len(stamped) + 1 /\ jobs' = Append(stamped, row)
      BY <2>1, <2>3
    <3>2. QED
      BY <3>1, <2>3, <1>2, AppendTyped
  <2>5. aliases' \subseteq Uuid \X Ref
    <3>1. RefsOf(u) \ {rows[u].ref} \subseteq Ref
      <4>1. jobs[u] \in Row
        BY DEF TypeOK
      <4>2. QED
        BY <4>1 DEF RefsOf, Row
    <3>2. QED
      BY <2>1, <2>2, <3>1 DEF TypeOK
  <2>6. refState' \in [Ref -> RefStates] /\ backends' \in [Uuid -> BackendStates]
    BY <2>1, <2>2, <1>1 DEF TypeOK, RefStates, Stages, LiveStages, BackendStates
  <2>7. Attempted(rows, u, attempt)
    BY <2>1, <2>2, <2>3, <2>4 DEF Attempted, row
  <2>8. QED
    BY <2>2, <2>3, <2>4, <2>5, <2>6, <2>7
<1>4. CASE ~(sourced \/ rows[u].key \in sources)
  <2>1. /\ jobs' = [rows EXCEPT ![u].rec.refused = TRUE]
        /\ UNCHANGED <<aliases, refState, backends>>
    BY <1>4 DEF OpenAttempt
  <2>2. /\ jobs' \in Seq(Row) /\ Len(jobs') = Len(rows)
        /\ \A v \in 1..Len(rows) :
              /\ jobs'[v].ref = rows[v].ref /\ jobs'[v].key = rows[v].key
              /\ jobs'[v].attempt = rows[v].attempt /\ jobs'[v].boot = rows[v].boot
              /\ jobs'[v].stage = rows[v].stage
              /\ jobs'[v].rec.kind = rows[v].rec.kind
              /\ jobs'[v].rec.to = rows[v].rec.to
    BY <2>1, RefusedRewrite DEF SameJobs
  <2>3. Attempted(rows, u, attempt)
    BY <2>1, <2>2 DEF Attempted
  <2>4. QED
    BY <2>1, <2>2, <2>3 DEF TypeOK
<1>5. QED
  BY <1>3, <1>4

----------------------------------------------------------------------------
(* Type correctness.  It is inductive once the rows that the threads name  *)
(* are known to exist.                                                     *)

JobsNamed ==
    /\ loop # Idle => loop.job \in Rows
    /\ \A t \in Admin : admin[t].at \in {"hit", "waited"} => admin[t].job \in Rows

TypeInv == TypeOK /\ JobsNamed

(* No step deletes a row or changes what it was created with.              *)
RowsKept ==
    /\ Len(jobs') >= Len(jobs)
    /\ \A v \in Rows :
          /\ jobs'[v].ref = jobs[v].ref /\ jobs'[v].key = jobs[v].key
          /\ jobs'[v].attempt = jobs[v].attempt /\ jobs'[v].boot = jobs[v].boot

(* A row of a typed table is typed, field by field.                        *)
LEMMA RowTyped ==
    ASSUME TypeOK, NEW u \in Rows
    PROVE  /\ u \in Uuid /\ u \in 1..Len(jobs) /\ u # 0
           /\ jobs[u].ref \in Ref /\ jobs[u].key \in Key /\ jobs[u].stage \in Stages
           /\ jobs[u].attempt \in Nat /\ jobs[u].boot \in Nat
           /\ jobs[u].rec \in RecordType
<1>1. u \in 1..Len(jobs) /\ Len(jobs) \in Nat /\ Len(jobs) <= MaxJobs
  BY DEF Rows, TypeOK
<1>2. jobs[u] \in Row
  BY <1>1 DEF TypeOK
<1>3. u \in Uuid
  BY <1>1, JobManagerAssumption DEF Uuid
<1>4. QED
  BY <1>1, <1>2, <1>3 DEF Row

(* The rows of a typed table are numbered from 1.                          *)
LEMMA RowsDomain == ASSUME TypeOK PROVE Rows = 1..Len(jobs) /\ Len(jobs) \in Nat
  BY DEF TypeOK, Rows

(* The initial state has the types.                                        *)
LEMMA InitTyped == Init => TypeInv
<1> SUFFICES ASSUME Init PROVE TypeInv
  OBVIOUS
<1>1. jobs \in Seq(Row) /\ Len(jobs) <= MaxJobs
  BY JobManagerAssumption DEF Init
<1>2. TypeOK
  BY <1>1, JobManagerAssumption
  DEF Init, TypeOK, RefStates, LoopType, AdminType, Phases, BackendStates, Uuid
<1>3. JobsNamed
  BY DEF Init, JobsNamed, Idle
<1>4. QED
  BY <1>2, <1>3 DEF TypeInv

(* The threads' names survive a step that keeps the rows and the threads.  *)
LEMMA NamesKept ==
    ASSUME TypeInv, jobs' \in Seq(Row), Len(jobs') >= Len(jobs), RowsKept
    PROVE  Rows \subseteq Rows'
  BY RowsDomain DEF TypeInv, Rows

(* One admin thread moves on.                                              *)
LEMMA AdminMoves ==
    ASSUME TypeInv, jobs' \in Seq(Row), RowsKept, NEW t \in Admin,
           NEW next \in AdminType, admin' = [admin EXCEPT ![t] = next],
           next.at \in {"hit", "waited"} => next.job \in Rows', UNCHANGED loop
    PROVE  JobsNamed' /\ admin' \in [Admin -> AdminType]
<1>1. Rows \subseteq Rows'
  BY NamesKept DEF RowsKept
<1>2. admin' \in [Admin -> AdminType] /\ admin'[t] = next
      /\ \A s \in Admin : s # t => admin'[s] = admin[s]
  BY DEF TypeInv, TypeOK
<1>3. QED
  BY <1>1, <1>2 DEF TypeInv, JobsNamed

(* A step of an admin thread that writes the table.                        *)
LEMMA AdminRowsTyped ==
    ASSUME TypeInv, NEW t \in Admin, CacheHit(t) \/ CacheHitDone(t)
    PROVE  TypeInv' /\ RowsKept
<1> USE DEF TypeInv
<1>1. CASE CacheHit(t)
  <2> USE <1>1
  <2> DEFINE row == NewRow(admin[t].ref, admin[t].key, 1, "null")
             new == Len(jobs) + 1
  <2>1. admin[t].ref \in Ref /\ admin[t].key \in Key
    BY DEF CacheHit, AdminAt, TypeOK, AdminType, Idle, Closed
  <2>2. row \in Row
    BY <2>1, FreshRowTyped DEF TypeOK, RecordKinds
  <2>3. jobs' = Append(jobs, row) /\ Len(jobs) < MaxJobs
    BY DEF CacheHit, HasRoom
  <2> HIDE DEF row
  <2>4. /\ jobs' \in Seq(Row) /\ Len(jobs') = new /\ new \in Rows' /\ new \in Uuid
        /\ Len(jobs') <= MaxJobs
        /\ \A v \in 1..Len(jobs) : jobs'[v] = jobs[v]
    BY <2>2, <2>3, AppendTyped, JobManagerAssumption DEF TypeOK, Rows, Uuid
  <2>5. RowsKept
    BY <2>4, RowsDomain DEF RowsKept, TypeOK
  <2>6. admin' = [admin EXCEPT ![t] = [at |-> "hit", ref |-> admin[t].ref, job |-> new]]
    BY DEF CacheHit
  <2>7. TypeOK'
    BY <2>1, <2>4, <2>6
    DEF CacheHit, TypeOK, AdminType, cache, refs, compile, machine
  <2>8. JobsNamed'
    BY <2>4, <2>5, <2>6, NamesKept DEF CacheHit, JobsNamed, TypeOK
  <2>9. QED
    BY <2>5, <2>7, <2>8
<1>2. CASE CacheHitDone(t)
  <2> USE <1>2
  <2>1. admin[t].ref \in Ref /\ admin[t].job \in Rows
    BY DEF CacheHitDone, AdminAt, TypeOK, AdminType, JobsNamed, Idle, Closed
  <2>2. /\ jobs' \in Seq(Row) /\ Len(jobs') = Len(jobs) /\ RowsKept
    <3>1. PICK u \in 1..Len(jobs) : jobs' = [jobs EXCEPT ![u].stage = "PREPARED"]
      BY <2>1, RowsDomain DEF CacheHitDone
    <3>2. SameJobs(jobs, [jobs EXCEPT ![u].stage = "PREPARED"])
      BY StageRewrite DEF TypeOK, Stages
    <3>3. QED
      BY <3>1, <3>2, RowsDomain DEF SameJobs, RowsKept
  <2>3. TypeOK'
    BY <2>1, <2>2
    DEF CacheHitDone, TypeOK, RefStates, Stages, AdminType, cache, refs, compile, machine
  <2>4. JobsNamed'
    BY <2>2, NamesKept DEF CacheHitDone, JobsNamed, TypeOK, Closed
  <2>5. QED
    BY <2>2, <2>3, <2>4
<1>3. QED
  BY <1>1, <1>2

(* A step of an admin thread that reads the table, or writes beside it.    *)
LEMMA AdminReadsTyped ==
    ASSUME TypeInv, NEW t \in Admin,
           \/ \E r \in Ref, k \in Key : Ingest(t, r, k) \/ IngestChanged(t, r, k)
           \/ CacheMiss(t) \/ PrepareDone(t)
           \/ (\E u \in Uuid : WaitRead(t, u)) \/ WaitMark(t)
           \/ (\E r \in Ref : RecoverClear(t, r))
    PROVE  TypeInv' /\ RowsKept
<1> USE DEF TypeInv
<1>1. jobs' = jobs
  BY DEF Ingest, IngestChanged, CacheMiss, PrepareDone, WaitRead, WaitMark,
         RecoverClear, table, durable
<1>2. RowsKept
  BY <1>1, RowsDomain DEF RowsKept
<1>3. ASSUME NEW r \in Ref, NEW k \in Key, Ingest(t, r, k) PROVE TypeInv'
  BY <1>1, <1>3 DEF Ingest, TypeOK, JobsNamed, Rows, AdminType, RefStates,
         table, compile, machine
<1>4. ASSUME NEW r \in Ref, NEW k \in Key, IngestChanged(t, r, k) PROVE TypeInv'
  BY <1>1, <1>4 DEF IngestChanged, TypeOK, JobsNamed, Rows, AdminType, Closed, RefStates,
         table, cache, compile, machine
<1>5. CASE CacheMiss(t)
  <2>1. admin[t].ref \in Ref /\ admin[t].key \in Key
    BY <1>5 DEF CacheMiss, AdminAt, TypeOK, AdminType, Idle, Closed
  <2>2. PICK next \in {Closed, [at |-> "submit", ref |-> admin[t].ref,
                               key |-> admin[t].key]} :
               admin' = [admin EXCEPT ![t] = next]
    BY <1>5 DEF CacheMiss
  <2>3. next \in AdminType /\ next.at \notin {"hit", "waited"}
    BY <2>1, <2>2 DEF AdminType, Closed
  <2>4. JobsNamed' /\ admin' \in [Admin -> AdminType]
    BY <1>1, <1>2, <1>5, <2>2, <2>3, AdminMoves DEF CacheMiss, TypeOK
  <2>5. QED
    BY <1>1, <1>2, <1>5, <2>4
    DEF CacheMiss, TypeOK, durable, table, cache, refs, compile, machine
<1>6. CASE PrepareDone(t)
  <2>1. admin[t].ref \in Ref /\ admin[t].stage \in Stages
    BY <1>6 DEF PrepareDone, AdminAt, TypeOK, AdminType, Idle, Closed
  <2>2. JobsNamed' /\ admin' \in [Admin -> AdminType]
    BY <1>1, <1>2, <1>6, AdminMoves DEF PrepareDone, TypeOK, AdminType, Closed
  <2>3. refState' \in [Ref -> RefStates]
    BY <1>6, <2>1 DEF PrepareDone, TypeOK, RefStates, Stages, LiveStages
  <2>4. QED
    BY <1>1, <1>2, <1>6, <2>2, <2>3 DEF PrepareDone, TypeOK, table, cache, compile, machine
<1>7. ASSUME NEW u \in Uuid, WaitRead(t, u) PROVE TypeInv'
  <2>1. jobs[u].stage \in Stages /\ u \in Rows
    BY <1>7, RowTyped DEF WaitRead
  <2>2. QED
    BY <1>1, <1>7, <2>1 DEF WaitRead, TypeOK, JobsNamed, Rows, AdminType,
         durable, table, cache, refs, compile, machine
<1>8. CASE WaitMark(t)
  <2>1. admin[t].stage \in RefStates
    BY <1>8 DEF WaitMark, AdminAt, TypeOK, AdminType, Idle, Closed, RefStates
  <2>2. refState' \in [Ref -> RefStates]
    BY <1>8, <2>1 DEF WaitMark, MarkRefs, TypeOK
  <2>3. JobsNamed' /\ admin' \in [Admin -> AdminType]
    BY <1>1, <1>2, <1>8, AdminMoves DEF WaitMark, TypeOK, AdminType, Closed
  <2>4. QED
    BY <1>1, <1>2, <1>8, <2>2, <2>3 DEF WaitMark, TypeOK, table, cache, compile, machine
<1>9. ASSUME NEW r \in Ref, RecoverClear(t, r) PROVE TypeInv'
  BY <1>1, <1>9 DEF RecoverClear, TypeOK, JobsNamed, Rows, AdminType,
         table, cache, refs, compile, machine
<1>10. QED
  BY <1>2, <1>3, <1>4, <1>5, <1>6, <1>7, <1>8, <1>9

(* Submit and recover: the steps of an admin thread that may open a job.   *)
LEMMA SubmitTyped ==
    ASSUME TypeInv, NEW t \in Admin, Submit(t)
    PROVE  TypeInv' /\ RowsKept
<1> USE DEF TypeInv
<1> DEFINE r == admin[t].ref
           k == admin[t].key
           own == FindJob(r, k)
           Answer == \E stage \in Stages : Answered(t, stage)
<1>1. r \in Ref /\ k \in Key
  BY DEF Submit, AdminAt, TypeOK, AdminType, Idle, Closed
<1>2. own \subseteq Rows /\ LiveFor(k) \subseteq Rows
  BY DEF FindJob, LiveFor
<1>3. UNCHANGED <<cache, refSource, inhibition, lockOwner, loop, phase, machine>>
  BY DEF Submit
<1>4. SubmitOver(t, r, k, own)
  BY DEF Submit
<1>5. ASSUME jobs' \in Seq(Row), Len(jobs') <= MaxJobs, RowsKept,
             aliases' \subseteq Uuid \X Ref, refState' \in [Ref -> RefStates],
             backends' \in [Uuid -> BackendStates], Answer
      PROVE  TypeInv'
  <2>1. PICK stage \in Stages :
           admin' = [admin EXCEPT ![t] = [at |-> "answered", ref |-> r, stage |-> stage]]
    BY <1>5 DEF Answered
  <2>2. JobsNamed' /\ admin' \in [Admin -> AdminType]
    BY <1>1, <1>3, <1>5, <2>1, AdminMoves DEF AdminType
  <2>3. QED
    BY <1>3, <1>5, <2>2 DEF TypeOK, cache, machine
<1>6. ASSUME NEW u \in Rows, Join(t, u) PROVE TypeInv' /\ RowsKept
  <2>1. jobs[u].stage \in Stages /\ u \in Uuid
    BY RowTyped
  <2>2. aliases' \subseteq Uuid \X Ref /\ Answer
    BY <1>1, <1>6, <2>1 DEF Join, TypeOK
  <2>3. RowsKept
    BY <1>6, RowsDomain DEF Join, RowsKept
  <2>4. QED
    BY <1>5, <1>6, <2>2, <2>3 DEF Join, TypeOK
<1>7. ASSUME NEW u \in Rows, SubmitTerminal(t, u) PROVE TypeInv' /\ RowsKept
  <2>1. /\ jobs[u].stage \in Stages /\ jobs[u].attempt + 1 \in Nat
        /\ u \in 1..Len(jobs) /\ "QUEUED" \in Stages
    BY RowTyped DEF Stages, LiveStages
  <2>2. CASE OpenAttempt(jobs, u, jobs[u].attempt + 1, TRUE) /\ Answered(t, "QUEUED")
    <3>1. /\ jobs' \in Seq(Row) /\ Len(jobs') <= MaxJobs /\ RowsKept
          /\ aliases' \subseteq Uuid \X Ref /\ refState' \in [Ref -> RefStates]
          /\ backends' \in [Uuid -> BackendStates]
      BY <2>1, <2>2, OpenAttemptTyped, RowsDomain DEF RowsKept, TypeOK
    <3>2. QED
      BY <1>5, <2>1, <2>2, <3>1
  <2>3. CASE Answered(t, jobs[u].stage) /\ UNCHANGED <<table, refState, backends>>
    <3>1. RowsKept
      BY <2>3, RowsDomain DEF RowsKept, table
    <3>2. QED
      BY <1>5, <2>1, <2>3, <3>1 DEF TypeOK, table
  <2>4. QED
    BY <1>7, <2>2, <2>3 DEF SubmitTerminal
<1>8. ASSUME Create(r, k), Answered(t, "QUEUED") PROVE TypeInv' /\ RowsKept
  <2> DEFINE row == NewRow(r, k, 1, "null")
  <2>1. row \in Row
    BY <1>1, FreshRowTyped DEF TypeOK, RecordKinds
  <2>2. /\ jobs' = Append(jobs, row) /\ Len(jobs) < MaxJobs
        /\ backends' = [backends EXCEPT ![Len(jobs) + 1] = "new"]
        /\ UNCHANGED <<aliases, refState>>
    BY <1>8 DEF Create, HasRoom
  <2> HIDE DEF row
  <2>3. /\ jobs' \in Seq(Row) /\ Len(jobs') = Len(jobs) + 1 /\ Len(jobs') <= MaxJobs
        /\ \A v \in 1..Len(jobs) : jobs'[v] = jobs[v]
    BY <2>1, <2>2, AppendTyped, JobManagerAssumption DEF TypeOK
  <2>4. RowsKept
    BY <2>3, RowsDomain DEF RowsKept
  <2>5. backends' \in [Uuid -> BackendStates]
    BY <2>2, RowsDomain, JobManagerAssumption DEF TypeOK, Uuid, BackendStates
  <2>6. "QUEUED" \in Stages
    BY DEF Stages, LiveStages
  <2>7. QED
    BY <1>5, <1>8, <2>2, <2>3, <2>4, <2>5, <2>6 DEF TypeOK
<1>9. ASSUME Answered(t, "PREPARED"), UNCHANGED <<table, refState, backends>>
      PROVE  TypeInv' /\ RowsKept
  <2>1. RowsKept
    BY <1>9, RowsDomain DEF RowsKept, table
  <2>2. QED
    BY <1>5, <1>9, <2>1 DEF TypeOK, table, Stages
<1>10. SubmitFresh(t, r, k) => TypeInv' /\ RowsKept
  BY <1>2, <1>6, <1>8 DEF SubmitFresh, Oldest
<1>11. QED
  <2> HIDE DEF own
  <2>1. Newest(own) \subseteq Rows
    BY <1>2 DEF Newest
  <2>2. QED
    BY <1>4, <1>6, <1>7, <1>9, <1>10, <2>1 DEF SubmitOver

(* An operator's requeue keeps the types (recover_ref, requeue).           *)
LEMMA RecoverTyped ==
    ASSUME TypeInv, NEW t \in Admin, RecoverRequeue(t)
    PROVE  TypeInv' /\ RowsKept
<1> USE DEF TypeInv
<1> DEFINE r == admin[t].ref
<1>1. admin' = [admin EXCEPT ![t] = Closed]
  BY DEF RecoverRequeue
<1>2. UNCHANGED <<cache, refSource, inhibition, lockOwner, loop, phase, machine>>
  BY DEF RecoverRequeue
<1>3. ASSUME jobs' \in Seq(Row), Len(jobs') <= MaxJobs, RowsKept,
             aliases' \subseteq Uuid \X Ref, refState' \in [Ref -> RefStates],
             backends' \in [Uuid -> BackendStates]
      PROVE  TypeInv'
  <2>1. JobsNamed' /\ admin' \in [Admin -> AdminType]
    BY <1>1, <1>2, <1>3, AdminMoves DEF AdminType, Closed
  <2>2. QED
    BY <1>2, <1>3, <2>1 DEF TypeOK, cache, machine
<1>4. ASSUME UNCHANGED <<table, refState, backends>> PROVE TypeInv' /\ RowsKept
  <2>1. RowsKept
    BY <1>4, RowsDomain DEF RowsKept, table
  <2>2. QED
    BY <1>3, <1>4, <2>1 DEF TypeOK, table
<1>5. ASSUME NEW u \in Rows, OpenAttempt(jobs, u, 1, FALSE) PROVE TypeInv' /\ RowsKept
  <2>1. /\ jobs' \in Seq(Row) /\ Len(jobs') <= MaxJobs /\ RowsKept
        /\ aliases' \subseteq Uuid \X Ref /\ refState' \in [Ref -> RefStates]
        /\ backends' \in [Uuid -> BackendStates]
    BY <1>5, OpenAttemptTyped, RowsDomain DEF RowsKept, TypeOK
  <2>2. QED
    BY <1>3, <2>1
<1>6. ASSUME NEW k, RequeueRow(r, k) PROVE TypeInv' /\ RowsKept
  BY <1>4, <1>5, <1>6 DEF RequeueRow, Newest, FindJob
<1>7. QED
  BY <1>4, <1>6 DEF RecoverRequeue

(* The serve loop opens or records.                                        *)
LEMMA KeptNames ==
    ASSUME TypeInv, jobs' \in Seq(Row), RowsKept, loop' \in {loop, Idle}, UNCHANGED admin
    PROVE  JobsNamed'
  BY NamesKept DEF TypeInv, JobsNamed, RowsKept

(* A due retry keeps the types (retry_due).                                *)
LEMMA RetryDueTyped ==
    ASSUME TypeInv, NEW u \in Uuid, RetryDue(u)
    PROVE  TypeInv' /\ RowsKept
<1> USE DEF TypeInv
<1>1. /\ u \in Rows /\ OpenAttempt(jobs, u, jobs[u].attempt + 1, FALSE)
      /\ UNCHANGED <<cache, refSource, inhibition, lockOwner, loop, admin, phase, machine>>
  BY DEF RetryDue
<1>5. u \in 1..Len(jobs) /\ jobs[u].attempt + 1 \in Nat
  BY <1>1, RowTyped
<1>2. /\ jobs' \in Seq(Row) /\ Len(jobs') <= MaxJobs /\ RowsKept
      /\ aliases' \subseteq Uuid \X Ref /\ refState' \in [Ref -> RefStates]
      /\ backends' \in [Uuid -> BackendStates]
  BY <1>1, <1>5, OpenAttemptTyped, RowsDomain DEF RowsKept, TypeOK
<1>3. JobsNamed'
  BY <1>1, <1>2, KeptNames
<1>4. QED
  BY <1>1, <1>2, <1>3 DEF TypeOK, cache, machine

(* set_job and set_failure as steps.                                       *)
LEMMA StageStep ==
    ASSUME TypeOK, NEW u \in Rows, NEW stage \in Stages,
           jobs' = [jobs EXCEPT ![u].stage = stage]
    PROVE  /\ jobs' \in Seq(Row) /\ Len(jobs') = Len(jobs) /\ Rows' = Rows /\ RowsKept
           /\ Len(jobs') <= MaxJobs
           /\ \A v \in Rows : /\ jobs'[v].stage = IF v = u THEN stage ELSE jobs[v].stage
                              /\ jobs'[v].rec = jobs[v].rec
<1>1. Rows = 1..Len(jobs) /\ jobs \in Seq(Row) /\ Len(jobs) <= MaxJobs
  BY RowsDomain DEF TypeOK
<1> DEFINE new == [jobs EXCEPT ![u].stage = stage]
<1>2. /\ SameJobs(jobs, new)
      /\ \A v \in 1..Len(jobs) :
            /\ new[v].stage = IF v = u THEN stage ELSE jobs[v].stage
            /\ new[v].rec = jobs[v].rec
  BY <1>1, StageRewrite, ZenonT(60)
<1>3. jobs' = new
  OBVIOUS
<1> HIDE DEF new
<1>4. jobs' \in Seq(Row) /\ Len(jobs') = Len(jobs) /\ RowsKept
  <2>1. SameJobs(jobs, jobs')
    BY <1>2, <1>3
  <2>2. QED
    BY <1>1, <2>1 DEF SameJobs, RowsKept
<1>5. Rows' = Rows
  BY <1>1, <1>4 DEF Rows
<1>6. QED
  BY <1>1, <1>2, <1>3, <1>4, <1>5

(* Rewriting one row's record keeps the types of the table.                *)
LEMMA RecStep ==
    ASSUME TypeOK, NEW u \in Rows, NEW rec \in RecordType,
           jobs' = [jobs EXCEPT ![u].rec = rec]
    PROVE  /\ jobs' \in Seq(Row) /\ Len(jobs') = Len(jobs) /\ Rows' = Rows /\ RowsKept
           /\ Len(jobs') <= MaxJobs
           /\ \A v \in Rows : /\ jobs'[v].rec = IF v = u THEN rec ELSE jobs[v].rec
                              /\ jobs'[v].stage = jobs[v].stage
<1>1. Rows = 1..Len(jobs) /\ jobs \in Seq(Row) /\ Len(jobs) <= MaxJobs
  BY RowsDomain DEF TypeOK
<1> DEFINE new == [jobs EXCEPT ![u].rec = rec]
<1>2. /\ SameJobs(jobs, new)
      /\ \A v \in 1..Len(jobs) :
            /\ new[v].rec = IF v = u THEN rec ELSE jobs[v].rec
            /\ new[v].stage = jobs[v].stage
  BY <1>1, RecRewrite, ZenonT(60)
<1>3. jobs' = new
  OBVIOUS
<1> HIDE DEF new
<1>4. jobs' \in Seq(Row) /\ Len(jobs') = Len(jobs) /\ RowsKept
  <2>1. SameJobs(jobs, jobs')
    BY <1>2, <1>3
  <2>2. QED
    BY <1>1, <2>1 DEF SameJobs, RowsKept
<1>5. Rows' = Rows
  BY <1>1, <1>4 DEF Rows
<1>6. QED
  BY <1>1, <1>2, <1>3, <1>4, <1>5

(* Rewriting the stage and the record of one row keeps the types of the table.*)
LEMMA BothStep ==
    ASSUME TypeOK, NEW u \in Rows, NEW stage \in Stages, NEW rec \in RecordType,
           jobs' = [[jobs EXCEPT ![u].stage = stage] EXCEPT ![u].rec = rec]
    PROVE  /\ jobs' \in Seq(Row) /\ Len(jobs') = Len(jobs) /\ Rows' = Rows /\ RowsKept
           /\ Len(jobs') <= MaxJobs
           /\ \A v \in Rows : /\ jobs'[v].rec = IF v = u THEN rec ELSE jobs[v].rec
                              /\ jobs'[v].stage = IF v = u THEN stage ELSE jobs[v].stage
<1> DEFINE mid == [jobs EXCEPT ![u].stage = stage]
<1>1. Rows = 1..Len(jobs) /\ jobs \in Seq(Row) /\ Len(jobs) <= MaxJobs
  BY RowsDomain DEF TypeOK
<1>2. /\ SameJobs(jobs, mid)
      /\ \A v \in 1..Len(jobs) :
            /\ mid[v].stage = IF v = u THEN stage ELSE jobs[v].stage
            /\ mid[v].rec = jobs[v].rec
  BY <1>1, StageRewrite, ZenonT(60)
<1> DEFINE new == [mid EXCEPT ![u].rec = rec]
<1>3. jobs' = new
  OBVIOUS
<1> HIDE DEF mid
<1>4. mid \in Seq(Row) /\ u \in 1..Len(mid) /\ Len(mid) = Len(jobs)
  BY <1>1, <1>2 DEF SameJobs
<1>5. /\ SameJobs(mid, new)
      /\ \A v \in 1..Len(mid) :
            /\ new[v].rec = IF v = u THEN rec ELSE mid[v].rec
            /\ new[v].stage = mid[v].stage
  BY <1>4, RecRewrite
<1> HIDE DEF new
<1>6. jobs' \in Seq(Row) /\ Len(jobs') = Len(jobs) /\ RowsKept
  <2>1. SameJobs(jobs, mid) /\ SameJobs(mid, jobs')
    BY <1>2, <1>3, <1>5
  <2>2. SameJobs(jobs, jobs')
    BY <1>4, <2>1 DEF SameJobs
  <2>3. QED
    BY <1>1, <2>2 DEF SameJobs, RowsKept
<1>7. Rows' = Rows
  BY <1>1, <1>6 DEF Rows
<1>8. QED
  BY <1>1, <1>2, <1>3, <1>4, <1>5, <1>6, <1>7

(* Polling a backend keeps the types (pump).                               *)
LEMMA PollTyped ==
    ASSUME TypeInv, NEW u \in Uuid, Poll(u)
    PROVE  TypeInv' /\ RowsKept
<1> USE DEF TypeInv
<1>1. /\ u \in Rows
      /\ UNCHANGED <<aliases, cache, refs, inhibition, lockOwner, admin, phase, machine>>
  BY DEF Poll
<1>2. PICK stage \in Stages : jobs' = [jobs EXCEPT ![u].stage = stage]
  BY JobManagerAssumption DEF Poll, Stages, LiveStages
<1>3. backends' \in [Uuid -> BackendStates]
  BY DEF Poll, TypeOK, BackendStates
<1>4. loop' \in {loop, [at |-> "publish", job |-> u], [at |-> "record", job |-> u]}
  BY DEF Poll
<1>5. /\ jobs' \in Seq(Row) /\ Rows' = Rows /\ RowsKept /\ Len(jobs') <= MaxJobs
  BY <1>1, <1>2, StageStep
<1>6. loop' \in LoopType /\ JobsNamed'
  BY <1>1, <1>4, <1>5 DEF TypeOK, LoopType, JobsNamed, Idle
<1>7. QED
  BY <1>1, <1>3, <1>5, <1>6 DEF TypeOK, cache, refs, machine

(* Recording a terminal outcome keeps the types (_finish_terminal).        *)
LEMMA RecordTerminalTyped ==
    ASSUME TypeInv, RecordTerminal
    PROVE  TypeInv' /\ RowsKept
<1> USE DEF TypeInv
<1> DEFINE u == loop.job
           stage == jobs[u].stage
           rec(evidence) == Record(Classify(stage, stage, evidence, memlock))
           rows(evidence) == [jobs EXCEPT ![u].rec = rec(evidence)]
<1>1. u \in Rows /\ loop' = Idle
      /\ UNCHANGED <<cache, refSource, inhibition, lockOwner, admin, phase, machine>>
  BY DEF RecordTerminal, LoopAt, JobsNamed, Idle
<1>2. /\ u \in 1..Len(jobs) /\ jobs[u].attempt + 1 \in Nat /\ stage \in Stages
      /\ stage \in RefStates
  BY <1>1, RowTyped DEF RefStates
<1>3. PICK evidence \in SUBSET Evidence :
         \/ OpenAttempt(rows(evidence), u, jobs[u].attempt + 1, FALSE)
         \/ /\ jobs' = rows(evidence)
            /\ refState' = MarkRefs(RefsOf(u), stage)
            /\ UNCHANGED <<aliases, backends>>
  BY DEF RecordTerminal
<1>4. rec(evidence) \in RecordType
  <2>1. Classify(stage, stage, evidence, memlock) \in RecordKinds
    BY ClassifyKind DEF RecordKinds
  <2>2. QED
    BY <2>1, RecordTyped
<1>5. SameJobs(jobs, rows(evidence))
  BY <1>2, <1>4, RecRewrite DEF TypeOK
<1> HIDE DEF rec, rows, stage
<1>6. /\ jobs' \in Seq(Row) /\ Len(jobs') <= MaxJobs /\ RowsKept
      /\ aliases' \subseteq Uuid \X Ref /\ refState' \in [Ref -> RefStates]
      /\ backends' \in [Uuid -> BackendStates]
  <2>1. CASE OpenAttempt(rows(evidence), u, jobs[u].attempt + 1, FALSE)
    <3>1. /\ rows(evidence) \in Seq(Row) /\ Len(rows(evidence)) = Len(jobs)
          /\ u \in 1..Len(rows(evidence))
      BY <1>2, <1>5 DEF SameJobs
    <3>2. /\ jobs' \in Seq(Row) /\ Len(jobs') <= MaxJobs /\ Len(jobs') >= Len(jobs)
          /\ aliases' \subseteq Uuid \X Ref /\ refState' \in [Ref -> RefStates]
          /\ backends' \in [Uuid -> BackendStates]
          /\ \A v \in 1..Len(jobs) :
                /\ jobs'[v].ref = rows(evidence)[v].ref
                /\ jobs'[v].key = rows(evidence)[v].key
                /\ jobs'[v].attempt = rows(evidence)[v].attempt
                /\ jobs'[v].boot = rows(evidence)[v].boot
      BY <1>2, <2>1, <3>1, OpenAttemptTyped
    <3>3. QED
      BY <1>5, <3>2, RowsDomain DEF RowsKept, SameJobs
  <2>2. CASE /\ jobs' = rows(evidence)
             /\ refState' = MarkRefs(RefsOf(u), stage)
             /\ UNCHANGED <<aliases, backends>>
    <3>1. refState' \in [Ref -> RefStates]
      BY <1>2, <2>2 DEF MarkRefs, TypeOK
    <3>2. QED
      BY <1>5, <2>2, <3>1, RowsDomain DEF SameJobs, RowsKept, TypeOK
  <2>3. QED
    BY <1>3, <2>1, <2>2
<1>7. JobsNamed'
  BY <1>1, <1>6, KeptNames
<1>8. QED
  BY <1>1, <1>6, <1>7 DEF TypeOK, LoopType, cache, machine

(* The steps of a publication keep the types (_publish_result).            *)
LEMMA PublishTyped ==
    ASSUME TypeInv,
           PublishRename \/ PublishFails \/ RecordUnpublished \/ PublishCommit
               \/ MarkPrepared
    PROVE  TypeInv' /\ RowsKept
<1> USE DEF TypeInv
<1> DEFINE u == loop.job
<1>1. /\ u \in Rows /\ jobs[u].key \in Key
      /\ \A at \in {"mark", "commit", "unpublished"} :
            [loop EXCEPT !.at = at] = [at |-> at, job |-> u]
  <2>1. loop # Idle
    BY DEF PublishRename, PublishFails, RecordUnpublished, PublishCommit, MarkPrepared,
           LoopAt, Idle
  <2>2. u \in Rows
    BY <2>1 DEF JobsNamed
  <2>3. QED
    BY <2>1, <2>2, RowTyped DEF TypeOK, LoopType
<1>2. UNCHANGED <<aliases, sources, workdirs, refSource, inhibition, compile, admin, phase,
                  machine>>
  BY DEF PublishRename, PublishFails, RecordUnpublished, PublishCommit, MarkPrepared,
         table, cache, refs
<1>3. ASSUME jobs' = jobs PROVE jobs' \in Seq(Row) /\ Len(jobs') <= MaxJobs /\ RowsKept
  BY <1>3, RowsDomain DEF RowsKept, TypeOK
<1>4. ASSUME jobs' \in Seq(Row), Len(jobs') <= MaxJobs, RowsKept,
             artifacts' \subseteq Key, dirs' \subseteq Key, refState' \in [Ref -> RefStates],
             loop' \in {Idle, [at |-> "mark", job |-> u], [at |-> "commit", job |-> u],
                        [at |-> "unpublished", job |-> u]}
      PROVE  TypeInv'
  <2>1. u \in Rows' /\ Rows \subseteq Rows' /\ u \in Uuid
    BY <1>1, <1>4, NamesKept, RowTyped DEF RowsKept
  <2>2. loop' \in LoopType /\ JobsNamed'
    BY <1>2, <1>4, <2>1 DEF LoopType, JobsNamed, Idle
  <2>3. QED
    BY <1>2, <1>4, <2>2 DEF TypeOK, compile, machine
<1>5. CASE PublishRename
  BY <1>1, <1>3, <1>4, <1>5 DEF PublishRename, TypeOK, table, refs
<1>6. CASE PublishFails
  <2>1. jobs' \in Seq(Row) /\ RowsKept /\ Len(jobs') <= MaxJobs
    BY <1>1, <1>6, StageStep DEF PublishFails, Stages, TerminalErrors
  <2>2. QED
    BY <1>1, <1>4, <1>6, <2>1 DEF PublishFails, TypeOK, refs
<1>7. CASE RecordUnpublished
  <2> DEFINE rec == Record(Classify("COMPILE_FAILED", "COMPILE_FAILED", {}, memlock))
  <2>1. rec \in RecordType
    BY ClassifyKind, RecordTyped DEF RecordKinds
  <2>2. jobs' = [jobs EXCEPT ![u].rec = rec] /\ loop' = Idle
        /\ refState' = MarkRefs(RefsOf(u), "COMPILE_FAILED") /\ UNCHANGED cache
    BY <1>7 DEF RecordUnpublished
  <2> HIDE DEF rec
  <2>3. jobs' \in Seq(Row) /\ RowsKept /\ Len(jobs') <= MaxJobs
    BY <1>1, <2>1, <2>2, RecStep
  <2>4. refState' \in [Ref -> RefStates]
    BY <2>2 DEF MarkRefs, TypeOK, RefStates, Stages, TerminalErrors
  <2>5. QED
    BY <1>4, <2>2, <2>3, <2>4 DEF TypeOK, cache
<1>8. CASE PublishCommit
  BY <1>1, <1>3, <1>4, <1>8 DEF PublishCommit, TypeOK, table, refs
<1>9. CASE MarkPrepared
  <2>1. refState' \in [Ref -> RefStates]
    BY <1>9 DEF MarkPrepared, MarkRefs, TypeOK, RefStates, Stages
  <2>2. QED
    BY <1>3, <1>4, <1>9, <2>1 DEF MarkPrepared, TypeOK, table, cache
<1>10. QED
  BY <1>5, <1>6, <1>7, <1>8, <1>9

(* The serve loop keeps the types.                                         *)
LEMMA LoopTyped ==
    ASSUME TypeInv, LoopStep
    PROVE  TypeInv' /\ RowsKept
  BY RetryDueTyped, PollTyped, RecordTerminalTyped, PublishTyped DEF LoopStep

(* The admin threads keep the types.                                       *)
LEMMA AdminTyped ==
    ASSUME TypeInv, NEW t \in Admin, AdminStep(t)
    PROVE  TypeInv' /\ RowsKept
  BY AdminRowsTyped, AdminReadsTyped, SubmitTyped, RecoverTyped DEF AdminStep

(* Compile threads and the world.                                          *)
LEMMA CompileTyped ==
    ASSUME TypeInv, NEW u \in Uuid, CompileStep(u)
    PROVE  TypeInv' /\ RowsKept
<1> USE DEF TypeInv
<1>1. jobs' = jobs /\ loop' = loop /\ admin' = admin
  BY DEF CompileStep, Acquire, FindBusy, Finish, table, durable
<1>2. RowsKept
  BY <1>1, RowsDomain DEF RowsKept
<1>3. JobsNamed'
  BY <1>1 DEF JobsNamed, Rows
<1>4. u \in 0..MaxJobs /\ 0 \in 0..MaxJobs
  BY JobManagerAssumption DEF Uuid
<1>5. TypeOK'
  <2>1. CASE Acquire(u)
    BY <1>4, <2>1 DEF Acquire, TypeOK, BackendStates, table, refs, machine
  <2>2. CASE FindBusy(u)
    BY <2>2 DEF FindBusy, TypeOK, BackendStates, durable, table, cache, refs, machine
  <2>3. CASE \E result \in {"ok", "failed"} : Finish(u, result)
    BY <1>4, <2>3 DEF Finish, TypeOK, BackendStates, durable, table, cache, refs, machine
  <2>4. QED
    BY <2>1, <2>2, <2>3 DEF CompileStep
<1>6. QED
  BY <1>2, <1>3, <1>5

(* Inhibitions, prunes, the clock and a restart keep the types.            *)
LEMMA WorldTyped ==
    ASSUME TypeInv, WorldStep
    PROVE  TypeInv' /\ RowsKept
<1> USE DEF TypeInv
<1>1. ASSUME NEW u \in Uuid, BackoffElapses(u) PROVE TypeInv' /\ RowsKept
  <2> DEFINE new == [jobs EXCEPT ![u].rec.due = TRUE]
  <2>1. /\ u \in Rows /\ jobs' = new
        /\ UNCHANGED <<aliases, cache, refs, inhibition, process, machine>>
    BY <1>1 DEF BackoffElapses
  <2>2. SameJobs(jobs, new)
    BY <2>1, RowsDomain, DueRewrite DEF TypeOK
  <2> HIDE DEF new
  <2>3. jobs' \in Seq(Row) /\ Len(jobs') <= MaxJobs /\ RowsKept
    BY <2>1, <2>2, RowsDomain DEF SameJobs, RowsKept, TypeOK
  <2>4. JobsNamed'
    BY <2>1, <2>3, KeptNames DEF process
  <2>5. QED
    BY <2>1, <2>3, <2>4 DEF TypeOK, cache, refs, process, compile, machine
<1>2. ASSUME NEW new \in Inhibitions, Inhibit(new) PROVE TypeInv' /\ RowsKept
  BY <1>2, RowsDomain DEF Inhibit, TypeOK, JobsNamed, RowsKept, Rows,
         table, cache, refs, process, compile, machine
<1>3. ASSUME NEW k \in Prunable, Prune(k) PROVE TypeInv' /\ RowsKept
  BY <1>3, RowsDomain DEF Prune, TypeOK, JobsNamed, RowsKept, Rows,
         table, process, compile, machine
<1>4. CASE Restart
  <2>1. UNCHANGED <<table, cache, refs, inhibition>> /\ RowsKept
    BY <1>4, RowsDomain DEF Restart, durable, table, RowsKept
  <2>2. JobsNamed'
    BY <1>4 DEF Restart, JobsNamed, Idle, Closed
  <2>3. TypeOK'
    BY <1>4, <2>1, JobManagerAssumption
    DEF Restart, TypeOK, BackendStates, LoopType, AdminType, Phases, table, cache, refs
  <2>4. QED
    BY <2>1, <2>2, <2>3
<1>5. QED
  BY <1>1, <1>2, <1>3, <1>4 DEF WorldStep

(* Startup.                                                                *)
LEMMA StartupTyped ==
    ASSUME TypeInv, StartupStep
    PROVE  TypeInv' /\ RowsKept
<1> USE DEF TypeInv
<1>1. ASSUME jobs' \in Seq(Row), Len(jobs') <= MaxJobs, RowsKept, UNCHANGED process
      PROVE  JobsNamed'
  BY <1>1, KeptNames DEF process
<1>2. ASSUME NEW u \in Rows
      PROVE  /\ InterruptRecord(u) \in RecordType
             /\ [refState EXCEPT ![jobs[u].ref] = "INTERRUPTED"] \in [Ref -> RefStates]
  <2>1. InterruptRecord(u) \in RecordType
    BY ClassifyKind, RecordTyped DEF InterruptRecord, RecordKinds, Kinds
  <2>2. QED
    BY <2>1, RowTyped DEF TypeOK, RefStates, Stages, TerminalErrors
<1>3. ASSUME NEW u \in Uuid, RecoverScratch(u) PROVE TypeInv' /\ RowsKept
  <2>1. jobs' \in Seq(Row) /\ Len(jobs') <= MaxJobs /\ RowsKept
    BY <1>3, StageStep DEF RecoverScratch, Interrupted, Stages, TerminalErrors
  <2>2. JobsNamed'
    BY <1>1, <1>3, <2>1 DEF RecoverScratch
  <2>3. QED
    BY <1>2, <1>3, <2>1, <2>2 DEF RecoverScratch, TypeOK, process, compile, machine
<1>4. CASE Adopt
  BY <1>4, RowsDomain DEF Adopt, TypeOK, JobsNamed, RowsKept, Rows, Phases,
         table, refs, compile, machine
<1>5. CASE Serve
  BY <1>5, RowsDomain DEF Serve, TypeOK, JobsNamed, RowsKept, Rows, Phases,
         durable, table, cache, refs, compile, machine
<1>6. ASSUME NEW u \in Uuid, ReconcileLive(u) PROVE TypeInv' /\ RowsKept
  <2>1. jobs' \in Seq(Row) /\ Len(jobs') <= MaxJobs /\ RowsKept
    BY <1>2, <1>6, BothStep DEF ReconcileLive, Interrupted, Stages, TerminalErrors
  <2>2. JobsNamed'
    BY <1>1, <1>6, <2>1 DEF ReconcileLive
  <2>3. QED
    BY <1>2, <1>6, <2>1, <2>2 DEF ReconcileLive, TypeOK, cache, process, compile, machine
<1>7. ASSUME NEW u \in Uuid, ReconcileUnrecorded(u) PROVE TypeInv' /\ RowsKept
  <2>1. jobs' \in Seq(Row) /\ Len(jobs') <= MaxJobs /\ RowsKept
    BY <1>2, <1>7, RecStep DEF ReconcileUnrecorded
  <2>2. JobsNamed'
    BY <1>1, <1>7, <2>1 DEF ReconcileUnrecorded
  <2>3. QED
    BY <1>2, <1>7, <2>1, <2>2 DEF ReconcileUnrecorded, TypeOK, cache, process, compile, machine
<1>8. QED
  BY <1>3, <1>4, <1>5, <1>6, <1>7 DEF StartupStep

(* No step breaks the types.                                               *)
LEMMA NextTyped ==
    ASSUME TypeInv, [Next]_vars
    PROVE  TypeInv' /\ RowsKept
<1>1. CASE UNCHANGED vars
  BY <1>1, RowsDomain DEF vars, durable, process, table, cache, refs, compile, machine,
         TypeInv, TypeOK, JobsNamed, RowsKept, Rows
<1>2. CASE Next
  BY <1>2, AdminTyped, LoopTyped, CompileTyped, WorldTyped, StartupTyped DEF Next
<1>3. QED
  BY <1>1, <1>2

(* Every table, thread and record keeps its shape, for every number of     *)
(* refs, keys and requests and every bound.                                *)
THEOREM TypeCorrect == Spec => []TypeOK
<1>1. TypeInv /\ [Next]_vars => TypeInv'
  BY NextTyped
<1>2. TypeInv => TypeOK
  BY DEF TypeInv
<1>3. QED
  BY InitTyped, <1>1, <1>2, PTL DEF Spec

(* The types hold in every reachable state; cited by the later theorems.   *)
LEMMA TypeInvariant == Spec => []TypeInv
<1>1. TypeInv /\ [Next]_vars => TypeInv'
  BY NextTyped
<1>2. QED
  BY InitTyped, <1>1, PTL DEF Spec

----------------------------------------------------------------------------
(* One compile per key.  The property alone is not inductive: a second job *)
(* for a key must be known to be impossible while the first one's backend  *)
(* is alive, so a compiling row is live (which is what submit, retry_due   *)
(* and requeue look at); the writes that end a row must be known to name   *)
(* rows whose backend is over; and a process that starts has no threads.   *)

LiveCompile == \A u \in Uuid : Compiling(u) => u \in Rows /\ Live(u)

OnePerKey == \A u, v \in Rows : u # v /\ Compiling(u) /\ Compiling(v)
                                => jobs[u].key # jobs[v].key

OneOwner == \A u \in Uuid : backends[u] = "running" <=> lockOwner = u

EndedNamed ==
    /\ loop # Idle => ~Compiling(loop.job)
    /\ \A t \in Admin : admin[t].at = "hit" => ~Compiling(admin[t].job)

StartsEmpty ==
    phase # "serving" => /\ loop = Idle
                         /\ \A u \in Uuid : ~Compiling(u)
                         /\ \A t \in Admin : admin[t] \in {Idle, Closed}

CompileInv == LiveCompile /\ OnePerKey /\ OneOwner /\ EndedNamed /\ StartsEmpty

(* No compile runs in the initial state.                                   *)
LEMMA CompileInit == Init => CompileInv
  BY JobManagerAssumption
  DEF Init, CompileInv, LiveCompile, OnePerKey, OneOwner, EndedNamed, StartsEmpty,
      Compiling, Idle, Uuid, Rows

(* Every row number is a uuid.                                             *)
LEMMA RowsInUuid == ASSUME TypeInv PROVE Rows \subseteq Uuid /\ Rows = 1..Len(jobs)
                                         /\ Len(jobs) \in Nat
  BY RowsDomain, RowTyped DEF TypeInv

(* Rows are appended or kept, never removed.                               *)
LEMMA RowsAfter ==
    ASSUME TypeInv, TypeInv', RowsKept
    PROVE  Rows' \subseteq Uuid /\ Rows \subseteq Rows' /\ Rows' = 1..Len(jobs')
<1>1. jobs' \in Seq(Row) /\ Len(jobs') <= MaxJobs /\ Len(jobs') >= Len(jobs)
  BY DEF TypeInv, TypeOK, RowsKept
<1>2. Rows' = 1..Len(jobs')
  BY <1>1 DEF Rows
<1>3. QED
  BY <1>1, <1>2, NamesKept, JobManagerAssumption DEF Uuid

(* A step that starts no backend and ends no compiling row.                *)
LEMMA QuietStep ==
    ASSUME TypeInv, CompileInv, TypeInv', RowsKept,
           \A u \in Uuid : Compiling(u)' => Compiling(u),
           \A u \in Rows : Compiling(u)' => jobs'[u].stage \in LiveStages
    PROVE  LiveCompile' /\ OnePerKey'
<1>1. Rows \subseteq Uuid /\ Rows' \subseteq Uuid /\ Rows \subseteq Rows'
  BY RowsInUuid, RowsAfter
<1>2. LiveCompile'
  BY <1>1 DEF CompileInv, LiveCompile, Live
<1>3. OnePerKey'
  BY <1>1 DEF CompileInv, LiveCompile, OnePerKey, RowsKept
<1>4. QED
  BY <1>2, <1>3

(* A step that opens a job for a key without a live one, or opens none.    *)
LEMMA OpeningStep ==
    ASSUME TypeInv, CompileInv, TypeInv', RowsKept, NEW k, LiveFor(k) = {},
           \A v \in Rows : jobs'[v].stage = jobs[v].stage,
           \/ /\ Len(jobs') = Len(jobs) + 1
              /\ jobs'[Len(jobs) + 1].key = k
              /\ jobs'[Len(jobs) + 1].stage = "QUEUED"
              /\ backends' = [backends EXCEPT ![Len(jobs) + 1] = "new"]
           \/ Len(jobs') = Len(jobs) /\ backends' = backends
    PROVE  /\ LiveCompile' /\ OnePerKey'
           /\ \A u \in Rows : Compiling(u)' => Compiling(u)
           /\ lockOwner' = lockOwner => OneOwner'
<1> DEFINE new == Len(jobs) + 1
<1>1. /\ Rows \subseteq Uuid /\ Rows' \subseteq Uuid /\ Rows \subseteq Rows'
      /\ Rows = 1..Len(jobs) /\ Len(jobs) \in Nat
  BY RowsInUuid, RowsAfter
<1>2. CASE Len(jobs') = Len(jobs) /\ backends' = backends
  <2>1. \A u \in Uuid : Compiling(u)' => Compiling(u)
    BY <1>2 DEF Compiling
  <2>2. \A u \in Rows : Compiling(u)' => jobs'[u].stage \in LiveStages
    BY <1>1, <2>1 DEF CompileInv, LiveCompile, Live
  <2>3. QED
    BY <1>1, <1>2, <2>1, <2>2, QuietStep DEF CompileInv, OneOwner
<1>3. CASE /\ Len(jobs') = new
           /\ jobs'[new].key = k
           /\ jobs'[new].stage = "QUEUED"
           /\ backends' = [backends EXCEPT ![new] = "new"]
  <2>1. Rows' = Rows \cup {new} /\ new \notin Rows /\ new \in Uuid
    BY <1>1, <1>3 DEF TypeInv, TypeOK, Rows
  <2>2. /\ backends'[new] = "new"
        /\ \A u \in Uuid : u # new => backends'[u] = backends[u]
    BY <1>3, <2>1 DEF TypeInv, TypeOK
  <2>3. LiveCompile'
    <3>1. ASSUME NEW u \in Uuid, Compiling(u)' PROVE u \in Rows' /\ Live(u)'
      <4>1. CASE u = new
        BY <1>3, <2>1, <4>1 DEF Live, LiveStages
      <4>2. CASE u # new
        BY <2>1, <2>2, <3>1, <4>2 DEF CompileInv, LiveCompile, Compiling, Live
      <4>3. QED
        BY <4>1, <4>2
    <3>2. QED
      BY <3>1 DEF LiveCompile
  <2>4. \A v \in Rows : Compiling(v) => jobs'[v].key # k
    BY <1>1 DEF CompileInv, LiveCompile, LiveFor, RowsKept
  <2>5. OnePerKey'
    <3>1. ASSUME NEW u \in Rows', NEW v \in Rows', u # v, Compiling(u)', Compiling(v)'
          PROVE  jobs'[u].key # jobs'[v].key
      <4>1. CASE u \in Rows /\ v \in Rows
        BY <1>1, <2>1, <2>2, <3>1, <4>1 DEF CompileInv, OnePerKey, Compiling, RowsKept
      <4>2. CASE u = new
        BY <1>1, <1>3, <2>1, <2>2, <2>4, <3>1, <4>2 DEF Compiling
      <4>3. CASE v = new
        BY <1>1, <1>3, <2>1, <2>2, <2>4, <3>1, <4>3 DEF Compiling
      <4>4. QED
        BY <2>1, <4>1, <4>2, <4>3
    <3>2. QED
      BY <3>1 DEF OnePerKey
  <2>6. \A u \in Rows : Compiling(u)' => Compiling(u)
    BY <1>1, <2>1, <2>2 DEF Compiling
  <2>7. lockOwner' = lockOwner => OneOwner'
    <3>1. backends[new] # "running"
      BY <2>1 DEF CompileInv, LiveCompile, Compiling
    <3>2. QED
      BY <2>1, <2>2, <3>1 DEF CompileInv, OneOwner
  <2>8. QED
    BY <2>3, <2>5, <2>6, <2>7
<1>4. QED
  BY <1>2, <1>3

(* Submit, retry_due, recover and the immediate retry of a recorded row.   *)
LEMMA AttemptOpens ==
    ASSUME TypeInv, CompileInv, TypeInv', RowsKept,
           NEW rows \in Seq(Row), Len(rows) = Len(jobs), NEW u \in Rows,
           \A v \in Rows : rows[v].key = jobs[v].key /\ rows[v].stage = jobs[v].stage,
           LiveFor(jobs[u].key) = {}, NEW attempt \in Nat, NEW sourced \in BOOLEAN,
           OpenAttempt(rows, u, attempt, sourced)
    PROVE  /\ LiveCompile' /\ OnePerKey'
           /\ \A v \in Rows : Compiling(v)' => Compiling(v)
           /\ lockOwner' = lockOwner => OneOwner'
<1>1. Rows = 1..Len(rows) /\ TypeOK
  BY RowsInUuid DEF TypeInv
<1>2. /\ \A v \in Rows : jobs'[v].stage = rows[v].stage
      /\ Attempted(rows, u, attempt)
  BY <1>1, OpenAttemptTyped
<1>3. rows[u].ref \in Ref /\ rows[u].key \in Key
  <2>1. rows[u] \in Row
    BY <1>1
  <2>2. QED
    BY <2>1 DEF Row
<1>4. LET new == NewRow(rows[u].ref, rows[u].key, attempt, "carried")
      IN  new.key = jobs[u].key /\ new.stage = "QUEUED"
  BY <1>3, FreshRowTyped DEF TypeInv, TypeOK, RecordKinds
<1>5. \/ /\ Len(jobs') = Len(jobs) + 1
         /\ jobs'[Len(jobs) + 1].key = jobs[u].key
         /\ jobs'[Len(jobs) + 1].stage = "QUEUED"
         /\ backends' = [backends EXCEPT ![Len(jobs) + 1] = "new"]
      \/ Len(jobs') = Len(jobs) /\ backends' = backends
  BY <1>2, <1>4 DEF Attempted
<1>6. \A v \in Rows : jobs'[v].stage = jobs[v].stage
  BY <1>2
<1>7. QED
  BY <1>5, <1>6, OpeningStep

(* What is left to show once no old row gained a backend.                  *)
LEMMA ThreadsStep ==
    ASSUME TypeInv, CompileInv, TypeInv', RowsKept, LiveCompile', OnePerKey', OneOwner',
           phase = "serving", phase' = "serving",
           \A v \in Rows : Compiling(v)' => Compiling(v),
           \/ loop' \in {loop, Idle}
           \/ loop # Idle /\ loop'.job = loop.job,
           \/ UNCHANGED admin
           \/ \E t \in Admin, next \in AdminType :
                 next.at # "hit" /\ admin' = [admin EXCEPT ![t] = next]
    PROVE  CompileInv'
<1>1. (loop # Idle => ~Compiling(loop.job))'
  BY DEF CompileInv, EndedNamed, TypeInv, JobsNamed, Compiling
<1>2. ASSUME NEW t \in Admin, admin'[t].at = "hit" PROVE ~Compiling(admin[t].job)'
  <2>1. admin'[t] = admin[t]
    BY <1>2 DEF TypeInv, TypeOK
  <2>2. QED
    BY <1>2, <2>1 DEF CompileInv, EndedNamed, TypeInv, JobsNamed, Compiling
<1>3. EndedNamed' /\ StartsEmpty'
  BY <1>1, <1>2 DEF EndedNamed, StartsEmpty, Compiling
<1>4. QED
  BY <1>3 DEF CompileInv

(* submit opens a compile only for a key that has none (JobManager.submit).*)
LEMMA SubmitCompile ==
    ASSUME TypeInv, CompileInv, TypeInv', RowsKept, NEW t \in Admin, Submit(t)
    PROVE  CompileInv'
<1> DEFINE r == admin[t].ref
           k == admin[t].key
           own == FindJob(r, k)
           Kept == /\ LiveCompile' /\ OnePerKey' /\ OneOwner'
                   /\ \A v \in Rows : Compiling(v)' => Compiling(v)
<1>1. r \in Ref /\ k \in Key
  BY DEF Submit, AdminAt, TypeInv, TypeOK, AdminType, Idle, Closed
<1>2. /\ phase = "serving" /\ UNCHANGED <<lockOwner, loop, phase>>
      /\ SubmitOver(t, r, k, own)
  BY DEF Submit, AdminAt
<1>3. \E next \in AdminType : next.at # "hit" /\ admin' = [admin EXCEPT ![t] = next]
  <2>1. \E stage : Answered(t, stage)
    BY <1>2 DEF SubmitOver, SubmitFresh, SubmitTerminal, Join
  <2>2. PICK stage : admin' = [admin EXCEPT ![t] =
                                  [at |-> "answered", ref |-> r, stage |-> stage]]
    BY <2>1 DEF Answered
  <2> DEFINE next == [at |-> "answered", ref |-> r, stage |-> stage]
  <2>3. admin'[t] = next /\ admin'[t] \in AdminType
    BY <2>2 DEF TypeInv, TypeOK
  <2>4. QED
    BY <2>2, <2>3
<1>4. ASSUME UNCHANGED <<jobs, backends>> PROVE Kept
  <2>1. /\ \A u \in Uuid : Compiling(u)' => Compiling(u)
        /\ \A u \in Rows : Compiling(u)' => jobs'[u].stage \in LiveStages
    BY <1>4, RowsInUuid DEF Compiling, CompileInv, LiveCompile, Live
  <2>2. QED
    BY <1>2, <1>4, <2>1, QuietStep, RowsInUuid DEF CompileInv, OneOwner
<1>5. ASSUME NEW u \in Rows, jobs[u].key = k, SubmitTerminal(t, u) PROVE Kept
  <2>1. CASE MayResume(u, jobs[u].rec)
    <3>1. /\ OpenAttempt(jobs, u, jobs[u].attempt + 1, TRUE)
          /\ LiveFor(jobs[u].key) = {}
      BY <1>5, <2>1 DEF SubmitTerminal, MayResume
    <3>2. jobs[u].attempt + 1 \in Nat /\ jobs \in Seq(Row)
      BY RowTyped DEF TypeInv, TypeOK
    <3>3. QED
      BY <1>2, <3>1, <3>2, AttemptOpens
  <2>2. CASE ~MayResume(u, jobs[u].rec)
    BY <1>4, <1>5, <2>2 DEF SubmitTerminal, table
  <2>3. QED
    BY <2>1, <2>2
<1>6. ASSUME LiveFor(k) = {}, Create(r, k) PROVE Kept
  <2> DEFINE row == NewRow(r, k, 1, "null")
  <2>1. row \in Row /\ row.key = k /\ row.stage = "QUEUED"
    BY <1>1, FreshRowTyped DEF TypeInv, TypeOK, RecordKinds
  <2>2. jobs' = Append(jobs, row) /\ backends' = [backends EXCEPT ![Len(jobs) + 1] = "new"]
    BY <1>6 DEF Create
  <2> HIDE DEF row
  <2>3. /\ Len(jobs') = Len(jobs) + 1 /\ jobs'[Len(jobs) + 1] = row
        /\ \A v \in Rows : jobs'[v].stage = jobs[v].stage
    BY <2>1, <2>2, AppendTyped, RowsInUuid DEF TypeInv, TypeOK
  <2>4. QED
    BY <1>2, <1>6, <2>1, <2>2, <2>3, OpeningStep
<1>7. Kept
  <2>1. own \subseteq {u \in Rows : jobs[u].key = k}
    BY DEF FindJob
  <2>2. ASSUME SubmitFresh(t, r, k) PROVE Kept
    BY <1>4, <1>6, <2>2 DEF SubmitFresh, Join
  <2>3. ASSUME NEW u \in Newest(own), Live(u) /\ Join(t, u) PROVE Kept
    BY <1>4, <2>3 DEF Join
  <2>4. ASSUME NEW u \in Newest(own), SubmitTerminal(t, u) PROVE Kept
    BY <1>5, <2>1, <2>4 DEF Newest
  <2>5. ASSUME UNCHANGED <<table, refState, backends>> PROVE Kept
    BY <1>4, <2>5 DEF table
  <2> HIDE DEF own, Kept
  <2>6. QED
    BY <1>2, <2>2, <2>3, <2>4, <2>5 DEF SubmitOver
<1>8. QED
  BY <1>2, <1>3, <1>7, ThreadsStep

(* requeue opens a compile only for a key that has none.                   *)
LEMMA RecoverCompile ==
    ASSUME TypeInv, CompileInv, TypeInv', RowsKept, NEW t \in Admin, RecoverRequeue(t)
    PROVE  CompileInv'
<1> DEFINE Kept == /\ LiveCompile' /\ OnePerKey' /\ OneOwner'
                   /\ \A v \in Rows : Compiling(v)' => Compiling(v)
<1>1. /\ phase = "serving" /\ UNCHANGED <<lockOwner, loop, phase>>
      /\ admin' = [admin EXCEPT ![t] = Closed]
  BY DEF RecoverRequeue, AdminAt
<1>2. Closed \in AdminType /\ Closed.at # "hit"
  BY DEF AdminType, Closed
<1>3. ASSUME UNCHANGED <<table, refState, backends>> PROVE Kept
  <2>1. /\ \A u \in Uuid : Compiling(u)' => Compiling(u)
        /\ \A u \in Rows : Compiling(u)' => jobs'[u].stage \in LiveStages
    BY <1>3, RowsInUuid DEF Compiling, CompileInv, LiveCompile, Live, table
  <2>2. QED
    BY <1>1, <1>3, <2>1, QuietStep, RowsInUuid DEF CompileInv, OneOwner
<1>4. ASSUME NEW u \in Rows, LiveFor(jobs[u].key) = {}, OpenAttempt(jobs, u, 1, FALSE)
      PROVE  Kept
  BY <1>1, <1>4, AttemptOpens DEF TypeInv, TypeOK
<1>5. ASSUME NEW k, RequeueRow(admin[t].ref, k) PROVE Kept
  <2>1. FindJob(admin[t].ref, k) \subseteq {u \in Rows : jobs[u].key = k}
    BY DEF FindJob
  <2> HIDE DEF Kept
  <2>2. QED
    BY <1>3, <1>4, <1>5, <2>1 DEF RequeueRow, Newest
<1>6. Kept
  <2> HIDE DEF Kept
  <2> QED
    BY <1>3, <1>5 DEF RecoverRequeue
<1>7. QED
  BY <1>1, <1>2, <1>6, ThreadsStep

(* retry_due opens a compile only for a key that has none.                 *)
LEMMA RetryDueCompile ==
    ASSUME TypeInv, CompileInv, TypeInv', RowsKept, NEW u \in Uuid, RetryDue(u)
    PROVE  CompileInv'
<1>1. /\ phase = "serving" /\ UNCHANGED <<lockOwner, loop, admin, phase>>
      /\ u \in Rows /\ OpenAttempt(jobs, u, jobs[u].attempt + 1, FALSE)
      /\ LiveFor(jobs[u].key) = {}
  BY DEF RetryDue, LoopAt, MayResume
<1>2. jobs[u].attempt + 1 \in Nat /\ jobs \in Seq(Row)
  BY <1>1, RowTyped DEF TypeInv, TypeOK
<1>3. /\ LiveCompile' /\ OnePerKey' /\ OneOwner'
      /\ \A v \in Rows : Compiling(v)' => Compiling(v)
  BY <1>1, <1>2, AttemptOpens
<1>4. QED
  BY <1>1, <1>3, ThreadsStep

(* _finish_terminal opens a compile only for a key that has none.          *)
LEMMA RecordCompile ==
    ASSUME TypeInv, CompileInv, TypeInv', RowsKept, RecordTerminal
    PROVE  CompileInv'
<1> DEFINE u == loop.job
           stage == jobs[u].stage
           rec(evidence) == Record(Classify(stage, stage, evidence, memlock))
           rows(evidence) == [jobs EXCEPT ![u].rec = rec(evidence)]
           Kept == /\ LiveCompile' /\ OnePerKey' /\ OneOwner'
                   /\ \A v \in Rows : Compiling(v)' => Compiling(v)
<1>1. /\ u \in Rows /\ loop' = Idle /\ phase = "serving"
      /\ UNCHANGED <<lockOwner, admin, phase>>
  BY DEF RecordTerminal, LoopAt, TypeInv, JobsNamed, Idle
<1>2. u \in 1..Len(jobs) /\ jobs[u].attempt + 1 \in Nat
  BY <1>1, RowTyped DEF TypeInv
<1>3. PICK evidence \in SUBSET Evidence :
         \/ /\ MayResume(u, rec(evidence))
            /\ OpenAttempt(rows(evidence), u, jobs[u].attempt + 1, FALSE)
         \/ jobs' = rows(evidence) /\ UNCHANGED backends
  BY DEF RecordTerminal
<1>4. rec(evidence) \in RecordType
  <2>1. Classify(stage, stage, evidence, memlock) \in RecordKinds
    BY ClassifyKind DEF RecordKinds
  <2>2. QED
    BY <2>1, RecordTyped
<1>5. /\ rows(evidence) \in Seq(Row) /\ Len(rows(evidence)) = Len(jobs)
      /\ \A v \in Rows : /\ rows(evidence)[v].key = jobs[v].key
                         /\ rows(evidence)[v].stage = jobs[v].stage
  <2>1. SameJobs(jobs, rows(evidence))
    BY <1>2, <1>4, RecRewrite DEF TypeInv, TypeOK
  <2>2. \A v \in 1..Len(jobs) : rows(evidence)[v].stage = jobs[v].stage
    BY <1>2, <1>4, RecRewrite DEF TypeInv, TypeOK
  <2> HIDE DEF rows
  <2>3. QED
    BY <2>1, <2>2, RowsInUuid DEF SameJobs
<1> HIDE DEF rec, rows, stage
<1>6. Kept
  <2>1. CASE /\ MayResume(u, rec(evidence))
             /\ OpenAttempt(rows(evidence), u, jobs[u].attempt + 1, FALSE)
    <3>1. LiveFor(jobs[u].key) = {}
      BY <2>1 DEF MayResume
    <3>2. QED
      BY <1>1, <1>2, <1>5, <2>1, <3>1, AttemptOpens
  <2>2. CASE jobs' = rows(evidence) /\ UNCHANGED backends
    <3>1. /\ \A v \in Uuid : Compiling(v)' => Compiling(v)
          /\ \A v \in Rows : Compiling(v)' => jobs'[v].stage \in LiveStages
      BY <1>5, <2>2, RowsInUuid DEF Compiling, CompileInv, LiveCompile, Live
    <3>2. QED
      BY <1>1, <2>2, <3>1, QuietStep, RowsInUuid DEF CompileInv, OneOwner
  <2>3. QED
    BY <1>3, <2>1, <2>2
<1>7. QED
  BY <1>1, <1>6, ThreadsStep

(* Polling leaves at most one compile per key and one holder of the lock (pump).*)
LEMMA PollCompile ==
    ASSUME TypeInv, CompileInv, TypeInv', RowsKept, NEW u \in Uuid, Poll(u)
    PROVE  CompileInv'
<1>1. /\ u \in Rows /\ phase = "serving" /\ loop = Idle
      /\ UNCHANGED <<lockOwner, admin, phase>>
  BY DEF Poll, LoopAt, TypeInv, TypeOK, LoopType, Idle
<1>2. PICK stage \in Stages : /\ jobs' = [jobs EXCEPT ![u].stage = stage]
                              /\ \/ stage \in LiveStages /\ loop' = loop
                                 \/ backends' = [backends EXCEPT ![u] = "over"]
  BY JobManagerAssumption DEF Poll, Stages, LiveStages
<1>3. \A v \in Rows : jobs'[v].stage = IF v = u THEN stage ELSE jobs[v].stage
  BY <1>1, <1>2, StageStep DEF TypeInv
<1>4. /\ \A v \in Uuid : v # u => backends'[v] = backends[v]
      /\ backends[u] # "running" /\ backends'[u] # "running" /\ Compiling(u)
  BY DEF Poll, Compiling, TypeInv, TypeOK
<1>5. \A v \in Uuid : Compiling(v)' => Compiling(v)
  BY <1>4 DEF Compiling
<1>6. \A v \in Rows : Compiling(v)' => jobs'[v].stage \in LiveStages
  <2>1. ASSUME NEW v \in Rows, Compiling(v)' PROVE jobs'[v].stage \in LiveStages
    <3>1. CASE v = u
      BY <1>1, <1>2, <1>3, <2>1, <3>1 DEF Compiling, TypeInv, TypeOK
    <3>2. CASE v # u
      BY <1>3, <1>5, <2>1, <3>2, RowsInUuid DEF CompileInv, LiveCompile, Live
    <3>3. QED
      BY <3>1, <3>2
  <2>2. QED
    BY <2>1
<1>7. LiveCompile' /\ OnePerKey' /\ OneOwner'
  <2>1. OneOwner'
    BY <1>1, <1>4 DEF CompileInv, OneOwner
  <2>2. QED
    BY <1>5, <1>6, <2>1, QuietStep
<1>8. EndedNamed'
  <2>1. (loop # Idle => ~Compiling(loop.job))'
    BY <1>1 DEF Poll, Compiling, TypeInv, TypeOK
  <2>2. QED
    BY <1>1, <1>5, <2>1, RowsInUuid
    DEF CompileInv, EndedNamed, Compiling, TypeInv, JobsNamed
<1>9. QED
  BY <1>1, <1>7, <1>8 DEF CompileInv, StartsEmpty

(* A publication touches no backend and no live row.                       *)
LEMMA PublishCompile ==
    ASSUME TypeInv, CompileInv, TypeInv', RowsKept,
           PublishRename \/ PublishFails \/ RecordUnpublished \/ PublishCommit
               \/ MarkPrepared
    PROVE  CompileInv'
<1> DEFINE u == loop.job
<1>1. /\ loop # Idle /\ u \in Rows /\ phase = "serving"
      /\ UNCHANGED <<backends, lockOwner, admin, phase>>
      /\ loop' = Idle \/ loop'.job = u
  <2>1. /\ loop # Idle /\ phase = "serving"
        /\ UNCHANGED <<backends, lockOwner, admin, phase>>
    BY DEF PublishRename, PublishFails, RecordUnpublished, PublishCommit, MarkPrepared,
           LoopAt, Idle, compile
  <2>2. u \in Rows
    BY <2>1 DEF TypeInv, JobsNamed
  <2>3. loop' = Idle \/ loop'.job = u
    BY <2>1
    DEF PublishRename, PublishFails, RecordUnpublished, PublishCommit, MarkPrepared,
        TypeInv, TypeOK, LoopType
  <2>4. QED
    BY <2>1, <2>2, <2>3
<1>2. \A v \in Rows : v # u => jobs'[v].stage = jobs[v].stage
  <2>1. CASE jobs' = jobs
    BY <2>1
  <2>2. CASE PublishFails
    BY <1>1, <2>2, StageStep DEF PublishFails, Stages, TerminalErrors, TypeInv
  <2>3. CASE RecordUnpublished
    <3> DEFINE rec == Record(Classify("COMPILE_FAILED", "COMPILE_FAILED", {}, memlock))
    <3>1. rec \in RecordType
      BY ClassifyKind, RecordTyped DEF RecordKinds
    <3>2. jobs' = [jobs EXCEPT ![u].rec = rec]
      BY <2>3 DEF RecordUnpublished
    <3> HIDE DEF rec
    <3>3. QED
      BY <1>1, <3>1, <3>2, RecStep DEF TypeInv
  <2>4. QED
    BY <2>1, <2>2, <2>3 DEF PublishRename, PublishCommit, MarkPrepared, table
<1>3. /\ \A v \in Uuid : Compiling(v)' => Compiling(v)
      /\ \A v \in Rows : Compiling(v)' => jobs'[v].stage \in LiveStages
  BY <1>1, <1>2, RowsInUuid DEF CompileInv, LiveCompile, EndedNamed, Live, Compiling
<1>4. LiveCompile' /\ OnePerKey' /\ OneOwner'
  BY <1>1, <1>3, QuietStep DEF CompileInv, OneOwner
<1>5. QED
  BY <1>1, <1>3, <1>4, ThreadsStep, RowsInUuid

(* The other steps open no job.                                            *)
LEMMA AdminCompile ==
    ASSUME TypeInv, CompileInv, TypeInv', RowsKept, NEW t \in Admin, AdminStep(t)
    PROVE  CompileInv'
<1>1. CASE CacheHit(t)
  <2> DEFINE new == Len(jobs) + 1
             row == NewRow(admin[t].ref, admin[t].key, 1, "null")
  <2>1. /\ phase = "serving" /\ UNCHANGED <<backends, lockOwner, loop, phase>>
        /\ jobs' = Append(jobs, row) /\ Len(jobs) < MaxJobs
        /\ admin' = [admin EXCEPT ![t] = [at |-> "hit", ref |-> admin[t].ref, job |-> new]]
    BY <1>1 DEF CacheHit, AdminAt, HasRoom, compile
  <2>2. row \in Row
    <3>1. admin[t].ref \in Ref /\ admin[t].key \in Key
      BY <1>1 DEF CacheHit, AdminAt, TypeInv, TypeOK, AdminType, Idle, Closed
    <3>2. QED
      BY <3>1, FreshRowTyped DEF TypeInv, TypeOK, RecordKinds
  <2> HIDE DEF row
  <2>3. \A v \in Rows : jobs'[v].stage = jobs[v].stage
    BY <2>1, <2>2, AppendTyped, RowsInUuid DEF TypeInv, TypeOK
  <2>4. /\ \A v \in Uuid : Compiling(v)' => Compiling(v)
        /\ \A v \in Rows : Compiling(v)' => jobs'[v].stage \in LiveStages
    BY <2>1, <2>3, RowsInUuid DEF CompileInv, LiveCompile, Live, Compiling
  <2>5. LiveCompile' /\ OnePerKey' /\ OneOwner'
    BY <2>1, <2>4, QuietStep DEF CompileInv, OneOwner
  <2>6. new \in Uuid /\ ~Compiling(new)
    BY <2>1, RowsInUuid, JobManagerAssumption DEF CompileInv, LiveCompile, Uuid
  <2>7. EndedNamed'
    <3>1. (loop # Idle => ~Compiling(loop.job))'
      BY <2>1 DEF CompileInv, EndedNamed, Compiling
    <3>2. ASSUME NEW s \in Admin, admin'[s].at = "hit" PROVE ~Compiling(admin[s].job)'
      <4>1. CASE s = t
        BY <2>1, <2>6, <4>1 DEF Compiling, TypeInv, TypeOK
      <4>2. CASE s # t
        BY <2>1, <3>2, <4>2 DEF CompileInv, EndedNamed, Compiling, TypeInv, TypeOK
      <4>3. QED
        BY <4>1, <4>2
    <3>3. QED
      BY <3>1, <3>2 DEF EndedNamed
  <2>8. QED
    BY <2>1, <2>5, <2>7 DEF CompileInv, StartsEmpty
<1>2. CASE CacheHitDone(t)
  <2> DEFINE u == admin[t].job
  <2>1. /\ phase = "serving" /\ UNCHANGED <<backends, lockOwner, loop, phase>>
        /\ jobs' = [jobs EXCEPT ![u].stage = "PREPARED"]
        /\ admin' = [admin EXCEPT ![t] = Closed] /\ Closed \in AdminType
        /\ Closed.at # "hit" /\ u \in Rows /\ ~Compiling(u)
    BY <1>2 DEF CacheHitDone, AdminAt, compile, AdminType, Closed, TypeInv, JobsNamed,
                CompileInv, EndedNamed
  <2>2. \A v \in Rows : v # u => jobs'[v].stage = jobs[v].stage
    BY <2>1, StageStep DEF Stages, TypeInv
  <2>3. /\ \A v \in Uuid : Compiling(v)' => Compiling(v)
        /\ \A v \in Rows : Compiling(v)' => jobs'[v].stage \in LiveStages
    BY <2>1, <2>2, RowsInUuid DEF CompileInv, LiveCompile, Live, Compiling
  <2>4. LiveCompile' /\ OnePerKey' /\ OneOwner'
    BY <2>1, <2>3, QuietStep DEF CompileInv, OneOwner
  <2>5. QED
    BY <2>1, <2>3, <2>4, ThreadsStep, RowsInUuid
<1>3. ASSUME UNCHANGED <<jobs, compile, loop, phase>>, phase = "serving",
             \E next \in AdminType :
                next.at # "hit" /\ admin' = [admin EXCEPT ![t] = next]
      PROVE  CompileInv'
  <2>1. /\ \A v \in Uuid : Compiling(v)' => Compiling(v)
        /\ \A v \in Rows : Compiling(v)' => jobs'[v].stage \in LiveStages
    BY <1>3, RowsInUuid DEF CompileInv, LiveCompile, Live, Compiling, compile
  <2>2. LiveCompile' /\ OnePerKey' /\ OneOwner'
    BY <1>3, <2>1, QuietStep DEF CompileInv, OneOwner, compile
  <2>3. QED
    BY <1>3, <2>1, <2>2, ThreadsStep, RowsInUuid
<1>4. ASSUME \/ \E r \in Ref, k \in Key : Ingest(t, r, k) \/ IngestChanged(t, r, k)
             \/ CacheMiss(t) \/ PrepareDone(t)
             \/ (\E u \in Uuid : WaitRead(t, u)) \/ WaitMark(t)
             \/ (\E r \in Ref : RecoverClear(t, r))
      PROVE  CompileInv'
  <2>1. UNCHANGED <<jobs, compile, loop, phase>> /\ phase = "serving"
    BY <1>4 DEF Ingest, IngestChanged, CacheMiss, PrepareDone, WaitRead, WaitMark,
                RecoverClear, AdminAt, durable, table
  <2>2. \E next : next.at # "hit" /\ admin' = [admin EXCEPT ![t] = next]
    BY <1>4 DEF Ingest, IngestChanged, CacheMiss, PrepareDone, WaitRead, WaitMark,
                RecoverClear, Closed
  <2>3. PICK next : next.at # "hit" /\ admin' = [admin EXCEPT ![t] = next]
    BY <2>2
  <2>4. next \in AdminType
    BY <2>3 DEF TypeInv, TypeOK
  <2>5. QED
    BY <1>3, <2>1, <2>3, <2>4
<1>5. QED
  BY <1>1, <1>2, <1>4, SubmitCompile, RecoverCompile DEF AdminStep

(* The compile threads keep one holder of the launcher lock (run_compile). *)
LEMMA ThreadCompile ==
    ASSUME TypeInv, CompileInv, TypeInv', RowsKept, NEW u \in Uuid, CompileStep(u)
    PROVE  CompileInv'
<1>1. /\ phase = "serving" /\ UNCHANGED <<jobs, loop, admin, phase>>
      /\ \A v \in Uuid : v # u => backends'[v] = backends[v]
      /\ Compiling(u)
  BY DEF CompileStep, Acquire, FindBusy, Finish, Compiling, TypeInv, TypeOK, durable, table
<1>2. /\ \A v \in Uuid : Compiling(v)' => Compiling(v)
      /\ \A v \in Rows : Compiling(v)' => jobs'[v].stage \in LiveStages
  BY <1>1, RowsInUuid DEF CompileInv, LiveCompile, Live, Compiling
<1>3. OneOwner'
  <2>1. 0 \notin Uuid
    BY DEF Uuid
  <2>2. CASE Acquire(u)
    BY <1>1, <2>1, <2>2 DEF Acquire, CompileInv, OneOwner, TypeInv, TypeOK
  <2>3. CASE FindBusy(u)
    BY <1>1, <2>3 DEF FindBusy, CompileInv, OneOwner, TypeInv, TypeOK
  <2>4. CASE \E result \in {"ok", "failed"} : Finish(u, result)
    BY <1>1, <2>1, <2>4 DEF Finish, CompileInv, OneOwner, TypeInv, TypeOK
  <2>5. QED
    BY <2>2, <2>3, <2>4 DEF CompileStep
<1>4. LiveCompile' /\ OnePerKey'
  BY <1>2, QuietStep
<1>5. QED
  BY <1>1, <1>2, <1>3, <1>4, ThreadsStep, RowsInUuid

(* A step that leaves the threads alone and ends no compiling row.         *)
LEMMA TableOnlyStep ==
    ASSUME TypeInv, CompileInv, TypeInv', RowsKept, UNCHANGED <<compile, loop, admin>>,
           phase # "serving" \/ phase' = phase,
           \A v \in Rows : Compiling(v) => jobs'[v].stage = jobs[v].stage
    PROVE  CompileInv'
<1>1. /\ \A v \in Uuid : Compiling(v)' => Compiling(v)
      /\ \A v \in Rows : Compiling(v)' => jobs'[v].stage \in LiveStages
  BY RowsInUuid DEF CompileInv, LiveCompile, Live, Compiling, compile
<1>2. LiveCompile' /\ OnePerKey' /\ OneOwner'
  BY <1>1, QuietStep DEF CompileInv, OneOwner, compile
<1>3. EndedNamed' /\ StartsEmpty'
  BY <1>1, RowsInUuid DEF CompileInv, EndedNamed, StartsEmpty, Compiling, compile
<1>4. QED
  BY <1>2, <1>3 DEF CompileInv

(* Inhibitions, prunes, the clock and a restart start no compile.          *)
LEMMA WorldCompile ==
    ASSUME TypeInv, CompileInv, TypeInv', RowsKept, WorldStep
    PROVE  CompileInv'
<1>1. ASSUME NEW u \in Uuid, BackoffElapses(u) PROVE CompileInv'
  <2> DEFINE new == [jobs EXCEPT ![u].rec.due = TRUE]
  <2>1. u \in Rows /\ jobs' = new /\ UNCHANGED process
    BY <1>1 DEF BackoffElapses
  <2>2. \A v \in 1..Len(jobs) : new[v].stage = jobs[v].stage
    BY <2>1, RowsInUuid, DueRewrite DEF TypeInv, TypeOK
  <2> HIDE DEF new
  <2>3. QED
    BY <2>1, <2>2, TableOnlyStep, RowsInUuid DEF process
<1>2. ASSUME NEW new \in Inhibitions, Inhibit(new) PROVE CompileInv'
  BY <1>2, TableOnlyStep DEF Inhibit, process, table
<1>3. ASSUME NEW k \in Prunable, Prune(k) PROVE CompileInv'
  BY <1>3, TableOnlyStep DEF Prune, process, table
<1>4. CASE Restart
  <2>1. /\ loop' = Idle /\ lockOwner' = 0
        /\ backends' = [u \in Uuid |-> "none"]
        /\ admin' = [t \in Admin |-> IF admin[t] = Idle THEN Idle ELSE Closed]
    BY <1>4 DEF Restart
  <2>2. \A u \in Uuid : ~Compiling(u)'
    BY <2>1 DEF Compiling
  <2>3. LiveCompile' /\ OnePerKey'
    BY <2>2, RowsAfter DEF LiveCompile, OnePerKey
  <2>4. OneOwner'
    BY <2>1 DEF OneOwner, Uuid
  <2>5. EndedNamed' /\ StartsEmpty'
    BY <2>1, <2>2 DEF EndedNamed, StartsEmpty, Idle, Closed
  <2>6. QED
    BY <2>3, <2>4, <2>5 DEF CompileInv
<1>5. QED
  BY <1>1, <1>2, <1>3, <1>4 DEF WorldStep

(* Nothing compiles while the daemon starts up.                            *)
LEMMA StartupCompile ==
    ASSUME TypeInv, CompileInv, TypeInv', RowsKept, StartupStep
    PROVE  CompileInv'
<1>1. phase # "serving" /\ UNCHANGED <<compile, loop, admin>>
  BY DEF StartupStep, RecoverScratch, Adopt, ReconcileLive, ReconcileUnrecorded, Serve,
         process
<1>2. \A v \in Rows : ~Compiling(v)
  BY <1>1, RowsInUuid DEF CompileInv, StartsEmpty
<1>3. QED
  BY <1>1, <1>2, TableOnlyStep

(* No step breaks the inductive invariant behind OneCompilePerKey.         *)
LEMMA NextCompile ==
    ASSUME TypeInv, CompileInv, [Next]_vars
    PROVE  CompileInv'
<1>1. TypeInv' /\ RowsKept
  BY NextTyped
<1>2. CASE UNCHANGED vars
  BY <1>1, <1>2, TableOnlyStep DEF vars, durable, process, table
<1>3. ASSUME LoopStep PROVE CompileInv'
  BY <1>1, <1>3, RetryDueCompile, PollCompile, RecordCompile, PublishCompile DEF LoopStep
<1>4. CASE Next
  BY <1>1, <1>3, <1>4, AdminCompile, ThreadCompile, WorldCompile, StartupCompile DEF Next
<1>5. QED
  BY <1>2, <1>4

(* Whatever the number of submitters, retries, operators and deaths, two   *)
(* jobs of one key never compile together, and one compile at a time runs. *)
THEOREM OneCompile == Spec => []OneCompilePerKey
<1>1. TypeInv /\ CompileInv /\ [Next]_vars => CompileInv'
  BY NextCompile
<1>2. CompileInv => OneCompilePerKey
  BY DEF CompileInv, OnePerKey, OneOwner, OneCompilePerKey, Uuid
<1>3. QED
  BY CompileInit, TypeInvariant, <1>1, <1>2, PTL DEF Spec

----------------------------------------------------------------------------
(* A committed artifact has its directory.  The step at risk is the        *)
(* add_artifact that comes after the rename: between the two no step may   *)
(* move the directory aside, so the loop's commit step must know it is     *)
(* there.                                                                  *)

DiskInv == /\ artifacts \subseteq dirs
           /\ loop.at = "commit" => jobs[loop.job].key \in dirs

(* Every artifacts row has its committed directory, in every interleaving  *)
(* of publication, failure, adoption and death.                            *)
THEOREM Committed == Spec => []CommittedOnDisk
<1>1. Init => DiskInv
  BY DEF Init, DiskInv, Idle
<1>2. TypeInv /\ DiskInv /\ [Next]_vars => DiskInv'
  <2> SUFFICES ASSUME TypeInv, DiskInv, [Next]_vars PROVE DiskInv'
    OBVIOUS
  <2>1. TypeInv' /\ RowsKept
    BY NextTyped
  <2>2. loop.at = "commit" => loop.job \in Rows /\ jobs'[loop.job].key = jobs[loop.job].key
    BY <2>1 DEF TypeInv, JobsNamed, Idle, RowsKept
  <2>3. ASSUME UNCHANGED <<artifacts, dirs>>, loop' = loop \/ loop'.at # "commit"
        PROVE  DiskInv'
    BY <2>2, <2>3 DEF DiskInv
  <2>4. CASE UNCHANGED vars
    BY <2>3, <2>4 DEF vars, durable, cache, process
  <2>5. ASSUME NEW t \in Admin, AdminStep(t) PROVE DiskInv'
    BY <2>3, <2>5
    DEF AdminStep, Ingest, IngestChanged, CacheHit, CacheHitDone, CacheMiss, Submit,
        PrepareDone, WaitRead, WaitMark, RecoverClear, RecoverRequeue, cache, durable
  <2>6. ASSUME NEW u \in Uuid, RetryDue(u) \/ Poll(u) PROVE DiskInv'
    <3>1. /\ UNCHANGED <<artifacts, dirs>>
          /\ loop' \in {loop, [at |-> "publish", job |-> u], [at |-> "record", job |-> u]}
      BY <2>6 DEF RetryDue, Poll, cache
    <3>2. QED
      BY <2>3, <3>1
  <2>7. CASE RecordTerminal \/ RecordUnpublished \/ MarkPrepared
    <3>1. UNCHANGED <<artifacts, dirs>> /\ loop' = Idle
      BY <2>7 DEF RecordTerminal, RecordUnpublished, MarkPrepared, cache
    <3>2. QED
      BY <2>3, <3>1 DEF Idle
  <2>8. CASE PublishRename
    <3>1. loop.job \in Rows /\ loop \in [at: {"publish"}, job: Uuid]
      BY <2>8 DEF PublishRename, LoopAt, TypeInv, TypeOK, LoopType, JobsNamed, Idle
    <3>2. jobs' = jobs
      BY <2>8 DEF PublishRename, table
    <3>3. QED
      BY <2>8, <3>1, <3>2 DEF PublishRename, DiskInv
  <2>9. CASE PublishFails
    <3>1. loop' = [loop EXCEPT !.at = "unpublished"] /\ loop \in [at: {"publish"}, job: Uuid]
      BY <2>9 DEF PublishFails, LoopAt, TypeInv, TypeOK, LoopType, Idle
    <3>2. QED
      BY <2>9, <3>1 DEF PublishFails, DiskInv
  <2>10. CASE PublishCommit
    <3>1. loop \in [at: {"commit"}, job: Uuid]
      BY <2>10 DEF PublishCommit, LoopAt, TypeInv, TypeOK, LoopType, Idle
    <3>2. QED
      BY <2>10, <3>1 DEF PublishCommit, LoopAt, DiskInv
  <2>11. ASSUME NEW u \in Uuid, CompileStep(u) PROVE DiskInv'
    BY <2>3, <2>11 DEF CompileStep, Acquire, FindBusy, Finish, durable, cache
  <2>12. CASE WorldStep
    BY <2>3, <2>12
    DEF WorldStep, Inhibit, Prune, BackoffElapses, Restart, durable, cache, process, Idle
  <2>13. CASE StartupStep
    <3>1. CASE Adopt
      BY <2>2, <3>1 DEF Adopt, DiskInv
    <3>2. CASE ~Adopt
      BY <2>3, <2>13, <3>2
      DEF StartupStep, Serve, RecoverScratch, ReconcileLive, ReconcileUnrecorded, cache,
          process, durable
    <3>3. QED
      BY <3>1, <3>2
  <2>14. QED
    BY <2>4, <2>5, <2>6, <2>7, <2>8, <2>9, <2>10, <2>11, <2>12, <2>13 DEF Next, LoopStep
<1>3. DiskInv => CommittedOnDisk
  BY DEF DiskInv, CommittedOnDisk
<1>4. QED
  BY <1>1, <1>2, <1>3, TypeInvariant, PTL DEF Spec

----------------------------------------------------------------------------
(* The attempt budget: every row that is opened is a first attempt, or the *)
(* next one of a row that auto_eligible let through.                       *)

(* A next attempt, or the first of a cycle, is within the budget.          *)
LEMMA AttemptWithinBudget ==
    ASSUME TypeInv, AttemptBudget, RowsKept,
           NEW rows \in Seq(Row), Len(rows) = Len(jobs), NEW u \in Rows,
           NEW attempt \in Nat, attempt <= MAX_ATTEMPTS, NEW sourced \in BOOLEAN,
           OpenAttempt(rows, u, attempt, sourced)
    PROVE  AttemptBudget'
<1>1. Rows = 1..Len(rows) /\ TypeOK /\ Len(rows) \in Nat
  BY RowsInUuid DEF TypeInv
<1>2. Attempted(rows, u, attempt) /\ jobs' \in Seq(Row)
  BY <1>1, OpenAttemptTyped
<1>3. rows[u].ref \in Ref /\ rows[u].key \in Key
  <2>1. rows[u] \in Row
    BY <1>1
  <2>2. QED
    BY <2>1 DEF Row
<1>4. NewRow(rows[u].ref, rows[u].key, attempt, "carried").attempt = attempt
  BY <1>3, FreshRowTyped DEF TypeInv, TypeOK, RecordKinds
<1>5. Rows' = 1..Len(jobs')
  BY <1>2 DEF Rows
<1>6. QED
  BY <1>1, <1>2, <1>4, <1>5 DEF Attempted, AttemptBudget, RowsKept

(* A step that keeps every attempt number keeps the budget.                *)
LEMMA KeptWithinBudget ==
    ASSUME TypeInv, AttemptBudget, TypeInv', RowsKept, Len(jobs') = Len(jobs)
    PROVE  AttemptBudget'
<1>1. Rows' = Rows
  BY RowsInUuid, RowsAfter
<1>2. QED
  BY <1>1 DEF AttemptBudget, RowsKept

(* A first attempt is within the budget.                                   *)
LEMMA FirstWithinBudget ==
    ASSUME TypeInv, AttemptBudget, TypeInv', RowsKept, NEW r \in Ref, NEW k \in Key,
           jobs' = Append(jobs, NewRow(r, k, 1, "null"))
    PROVE  AttemptBudget'
<1> DEFINE row == NewRow(r, k, 1, "null")
<1>1. row \in Row /\ row.attempt = 1
  BY FreshRowTyped DEF TypeInv, TypeOK, RecordKinds
<1>2. jobs' = Append(jobs, row)
  OBVIOUS
<1> HIDE DEF row
<1>3. Len(jobs') = Len(jobs) + 1 /\ jobs'[Len(jobs) + 1] = row
  BY <1>1, <1>2, AppendTyped DEF TypeInv, TypeOK
<1>4. Rows' = Rows \cup {Len(jobs) + 1}
  BY <1>3, RowsInUuid, RowsAfter
<1>5. ASSUME NEW u \in Rows' PROVE jobs'[u].attempt <= MAX_ATTEMPTS
  <2>1. CASE u \in Rows
    BY <2>1 DEF AttemptBudget, RowsKept
  <2>2. CASE u = Len(jobs) + 1
    BY <1>1, <1>3, <2>2 DEF MAX_ATTEMPTS
  <2>3. QED
    BY <1>4, <2>1, <2>2
<1>6. QED
  BY <1>5 DEF AttemptBudget

(* An automatic retry is opened only below the budget (auto_eligible).     *)
LEMMA AutoWithinBudget ==
    ASSUME NEW u, NEW rec, MayResume(u, rec), jobs[u].attempt \in Nat
    PROVE  jobs[u].attempt + 1 \in Nat /\ jobs[u].attempt + 1 <= MAX_ATTEMPTS
  BY DEF MayResume, AutoEligible, MAX_ATTEMPTS

(* submit keeps the budget.                                                *)
LEMMA SubmitBudget ==
    ASSUME TypeInv, AttemptBudget, TypeInv', RowsKept, NEW t \in Admin, Submit(t)
    PROVE  AttemptBudget'
<1> DEFINE r == admin[t].ref
           k == admin[t].key
           own == FindJob(r, k)
<1>1. r \in Ref /\ k \in Key
  BY DEF Submit, AdminAt, TypeInv, TypeOK, AdminType, Idle, Closed
<1>2. SubmitOver(t, r, k, own) /\ own \subseteq Rows
  BY DEF Submit, FindJob
<1>3. ASSUME UNCHANGED jobs PROVE AttemptBudget'
  BY <1>3, KeptWithinBudget
<1>4. ASSUME NEW u \in Rows, SubmitTerminal(t, u) PROVE AttemptBudget'
  <2>1. CASE MayResume(u, jobs[u].rec)
    <3>1. OpenAttempt(jobs, u, jobs[u].attempt + 1, TRUE)
      BY <1>4, <2>1 DEF SubmitTerminal
    <3>2. jobs[u].attempt + 1 \in Nat /\ jobs[u].attempt + 1 <= MAX_ATTEMPTS
      BY <2>1, AutoWithinBudget, RowTyped DEF TypeInv
    <3>3. QED
      BY <3>1, <3>2, AttemptWithinBudget DEF TypeInv, TypeOK
  <2>2. CASE ~MayResume(u, jobs[u].rec)
    BY <1>3, <1>4, <2>2 DEF SubmitTerminal, table
  <2>3. QED
    BY <2>1, <2>2
<1>5. ASSUME Create(r, k) PROVE AttemptBudget'
  BY <1>1, <1>5, FirstWithinBudget DEF Create
<1>6. SubmitFresh(t, r, k) => AttemptBudget'
  BY <1>3, <1>5 DEF SubmitFresh, Join
<1>7. \A u \in Newest(own) : Join(t, u) => AttemptBudget'
  BY <1>3 DEF Join
<1>8. UNCHANGED table => AttemptBudget'
  BY <1>3 DEF table
<1>9. Newest(own) \subseteq Rows
  BY <1>2 DEF Newest
<1> HIDE DEF own
<1>10. QED
  BY <1>2, <1>4, <1>6, <1>7, <1>8, <1>9 DEF SubmitOver

(* _finish_terminal keeps the budget.                                      *)
LEMMA RecordBudget ==
    ASSUME TypeInv, AttemptBudget, TypeInv', RowsKept, RecordTerminal
    PROVE  AttemptBudget'
<1> DEFINE u == loop.job
           stage == jobs[u].stage
           rec(evidence) == Record(Classify(stage, stage, evidence, memlock))
           rows(evidence) == [jobs EXCEPT ![u].rec = rec(evidence)]
<1>1. u \in Rows
  BY DEF RecordTerminal, LoopAt, TypeInv, JobsNamed, Idle
<1>2. u \in 1..Len(jobs) /\ jobs[u].attempt \in Nat
  BY <1>1, RowTyped DEF TypeInv
<1>3. PICK evidence \in SUBSET Evidence :
         \/ /\ MayResume(u, rec(evidence))
            /\ OpenAttempt(rows(evidence), u, jobs[u].attempt + 1, FALSE)
         \/ jobs' = rows(evidence)
  BY DEF RecordTerminal
<1>4. rec(evidence) \in RecordType
  <2>1. Classify(stage, stage, evidence, memlock) \in RecordKinds
    BY ClassifyKind DEF RecordKinds
  <2>2. QED
    BY <2>1, RecordTyped
<1>5. rows(evidence) \in Seq(Row) /\ Len(rows(evidence)) = Len(jobs)
  <2>1. SameJobs(jobs, rows(evidence))
    BY <1>2, <1>4, RecRewrite DEF TypeInv, TypeOK
  <2>2. QED
    BY <2>1 DEF SameJobs
<1> HIDE DEF rec, rows, stage
<1>6. CASE /\ MayResume(u, rec(evidence))
           /\ OpenAttempt(rows(evidence), u, jobs[u].attempt + 1, FALSE)
  <2>1. jobs[u].attempt + 1 \in Nat /\ jobs[u].attempt + 1 <= MAX_ATTEMPTS
    BY <1>2, <1>6, AutoWithinBudget
  <2>2. QED
    BY <1>1, <1>5, <1>6, <2>1, AttemptWithinBudget
<1>7. CASE jobs' = rows(evidence)
  BY <1>5, <1>7, KeptWithinBudget
<1>8. QED
  BY <1>3, <1>6, <1>7

(* What every other step does to the table.                                *)
Rewritten ==
    \/ jobs' = jobs
    \/ \E u \in Rows, stage \in Stages : jobs' = [jobs EXCEPT ![u].stage = stage]
    \/ \E u \in Rows, rec \in RecordType : jobs' = [jobs EXCEPT ![u].rec = rec]
    \/ \E u \in Rows : jobs' = [jobs EXCEPT ![u].rec.due = TRUE]
    \/ \E u \in Rows, stage \in Stages, rec \in RecordType :
          jobs' = [[jobs EXCEPT ![u].stage = stage] EXCEPT ![u].rec = rec]

(* The remaining steps keep the budget.                                    *)
LEMMA OtherBudget ==
    ASSUME TypeInv, AttemptBudget, TypeInv', RowsKept, Rewritten
    PROVE  AttemptBudget'
<1>1. CASE jobs' = jobs
  BY <1>1, KeptWithinBudget
<1>2. ASSUME NEW u \in Rows, NEW stage \in Stages, jobs' = [jobs EXCEPT ![u].stage = stage]
      PROVE  AttemptBudget'
  BY <1>2, StageStep, KeptWithinBudget DEF TypeInv
<1>3. ASSUME NEW u \in Rows, NEW rec \in RecordType, jobs' = [jobs EXCEPT ![u].rec = rec]
      PROVE  AttemptBudget'
  BY <1>3, RecStep, KeptWithinBudget DEF TypeInv
<1>4. ASSUME NEW u \in Rows, jobs' = [jobs EXCEPT ![u].rec.due = TRUE]
      PROVE  AttemptBudget'
  <2>1. SameJobs(jobs, [jobs EXCEPT ![u].rec.due = TRUE])
    BY DueRewrite, RowsInUuid DEF TypeInv, TypeOK
  <2>2. Len(jobs') = Len(jobs)
    BY <1>4, <2>1 DEF SameJobs
  <2>3. QED
    BY <2>2, KeptWithinBudget
<1>5. ASSUME NEW u \in Rows, NEW stage \in Stages, NEW rec \in RecordType,
             jobs' = [[jobs EXCEPT ![u].stage = stage] EXCEPT ![u].rec = rec]
      PROVE  AttemptBudget'
  BY <1>5, BothStep, KeptWithinBudget DEF TypeInv
<1>6. QED
  BY <1>1, <1>2, <1>3, <1>4, <1>5 DEF Rewritten

(* Whatever the failures, restarts and inhibitions, no chain of automatic  *)
(* retries goes past the budget; only an operator starts another cycle.    *)
THEOREM Budget == Spec => []AttemptBudget
<1>1. Init => AttemptBudget
  BY DEF Init, AttemptBudget, Rows
<1>2. TypeInv /\ AttemptBudget /\ [Next]_vars => AttemptBudget'
  <2> SUFFICES ASSUME TypeInv, AttemptBudget, [Next]_vars PROVE AttemptBudget'
    OBVIOUS
  <2>1. TypeInv' /\ RowsKept
    BY NextTyped
  <2>2. Rewritten => AttemptBudget'
    BY <2>1, OtherBudget
  <2>3. ASSUME UNCHANGED jobs PROVE AttemptBudget'
    BY <2>2, <2>3 DEF Rewritten
  <2>4. CASE UNCHANGED vars
    BY <2>3, <2>4 DEF vars, durable, table
  <2>5. ASSUME NEW t \in Admin, AdminStep(t) PROVE AttemptBudget'
    <3>1. CASE CacheHit(t)
      <4>1. admin[t].ref \in Ref /\ admin[t].key \in Key
        BY <3>1 DEF CacheHit, AdminAt, TypeInv, TypeOK, AdminType, Idle, Closed
      <4>2. QED
        BY <2>1, <3>1, <4>1, FirstWithinBudget DEF CacheHit
    <3>2. CASE CacheHitDone(t)
      BY <2>2, <3>2 DEF CacheHitDone, AdminAt, TypeInv, JobsNamed, Rewritten, Stages
    <3>3. CASE RecoverRequeue(t)
      <4>1. ASSUME NEW u \in Rows, OpenAttempt(jobs, u, 1, FALSE) PROVE AttemptBudget'
        <5>1. 1 \in Nat /\ 1 <= MAX_ATTEMPTS /\ FALSE \in BOOLEAN /\ jobs \in Seq(Row)
          BY DEF MAX_ATTEMPTS, TypeInv, TypeOK
        <5>2. QED
          BY <2>1, <4>1, <5>1, AttemptWithinBudget
      <4>2. ASSUME NEW k, RequeueRow(admin[t].ref, k) PROVE AttemptBudget'
        BY <2>3, <4>1, <4>2 DEF RequeueRow, Newest, FindJob, table
      <4>3. QED
        BY <2>3, <3>3, <4>2 DEF RecoverRequeue, table
    <3>4. CASE Submit(t)
      BY <2>1, <3>4, SubmitBudget
    <3>5. QED
      BY <2>3, <2>5, <3>1, <3>2, <3>3, <3>4
      DEF AdminStep, Ingest, IngestChanged, CacheMiss, PrepareDone, WaitRead, WaitMark,
          RecoverClear, durable, table
  <2>6. ASSUME NEW u \in Uuid, RetryDue(u) PROVE AttemptBudget'
    <3>1. /\ u \in Rows /\ MayResume(u, jobs[u].rec)
          /\ OpenAttempt(jobs, u, jobs[u].attempt + 1, FALSE)
      BY <2>6 DEF RetryDue
    <3>2. jobs[u].attempt + 1 \in Nat /\ jobs[u].attempt + 1 <= MAX_ATTEMPTS
      BY <3>1, AutoWithinBudget, RowTyped DEF TypeInv
    <3>3. QED
      BY <2>1, <3>1, <3>2, AttemptWithinBudget DEF TypeInv, TypeOK
  <2>7. ASSUME NEW u \in Uuid, Poll(u) PROVE AttemptBudget'
    <3>1. u \in Rows /\ \E stage \in Stages : jobs' = [jobs EXCEPT ![u].stage = stage]
      BY <2>7, JobManagerAssumption DEF Poll, Stages, LiveStages
    <3>2. QED
      BY <2>2, <3>1 DEF Rewritten
  <2>8. CASE PublishRename \/ PublishCommit \/ MarkPrepared
    BY <2>3, <2>8 DEF PublishRename, PublishCommit, MarkPrepared, table
  <2>9. CASE PublishFails \/ RecordUnpublished
    <3>1. loop.job \in Rows
      BY <2>9 DEF PublishFails, RecordUnpublished, LoopAt, TypeInv, JobsNamed, Idle
    <3>2. Record(Classify("COMPILE_FAILED", "COMPILE_FAILED", {}, memlock)) \in RecordType
      BY ClassifyKind, RecordTyped DEF RecordKinds
    <3>3. QED
      BY <2>2, <2>9, <3>1, <3>2
      DEF PublishFails, RecordUnpublished, Rewritten, Stages, TerminalErrors
  <2>10. CASE RecordTerminal
    BY <2>1, <2>10, RecordBudget
  <2>11. ASSUME NEW u \in Uuid, CompileStep(u) PROVE AttemptBudget'
    BY <2>3, <2>11 DEF CompileStep, Acquire, FindBusy, Finish, durable, table
  <2>12. CASE WorldStep
    <3>1. ASSUME NEW u \in Uuid, BackoffElapses(u) PROVE AttemptBudget'
      BY <2>2, <3>1 DEF BackoffElapses, Rewritten
    <3>2. QED
      BY <2>3, <2>12, <3>1 DEF WorldStep, Inhibit, Prune, Restart, durable, table
  <2>13. CASE StartupStep
    <3>1. ASSUME NEW u \in Rows PROVE InterruptRecord(u) \in RecordType
      BY ClassifyKind, RecordTyped DEF InterruptRecord, RecordKinds, Kinds
    <3>2. "INTERRUPTED" \in Stages
      BY DEF Stages, TerminalErrors
    <3>3. ASSUME NEW u \in Uuid, RecoverScratch(u) \/ ReconcileLive(u) \/ ReconcileUnrecorded(u)
          PROVE  AttemptBudget'
      <4>1. u \in Rows
        BY <3>3 DEF RecoverScratch, ReconcileLive, ReconcileUnrecorded
      <4>2. QED
        BY <2>2, <3>1, <3>2, <3>3, <4>1
        DEF RecoverScratch, ReconcileLive, ReconcileUnrecorded, Interrupted, Rewritten
    <3>4. QED
      BY <2>3, <2>13, <3>3 DEF StartupStep, Adopt, Serve, durable, table
  <2>14. QED
    BY <2>4, <2>5, <2>6, <2>7, <2>8, <2>9, <2>10, <2>11, <2>12, <2>13 DEF Next, LoopStep
<1>3. QED
  BY <1>1, <1>2, TypeInvariant, PTL DEF Spec
=============================================================================
